---------------------------- MODULE ArenaProofs ----------------------------
(***************************************************************************)
(* Proofs about Arena, for every layout, size_t width and set of requests. *)
(*                                                                         *)
(* The invariant says what holds of the chain, of the regions in it and of *)
(* the backing allocator's view, as predicates of their arguments: an      *)
(* append first gives a longer chain of which this is true (LinkChain),    *)
(* and the bump that follows is the same step for the three places an      *)
(* allocation may go (BumpChain, BumpRegions).                             *)
(*                                                                         *)
(* The cycles of ArenaCycles rest on the same split: BumpLands says where  *)
(* the walk puts an allocation, SamePlaces that equal sizes take a walk to *)
(* equal places, and the sums of the counters are functions whose          *)
(* equations are proved by induction.                                      *)
(***************************************************************************)
EXTENDS ArenaCycles, FiniteSetTheorems, Induction, SequenceTheorems

ChainInv(chain, h, owner) ==
  /\ chain \in Seq(Block)
  /\ chain # << >>
  /\ \A i \in 1..Len(chain) : /\ chain[i].used <= chain[i].cap
                              /\ HeaderSize + chain[i].cap = h[chain[i].chunk]
                              /\ chain[i].chunk # owner
  /\ \A i, j \in 1..Len(chain) : i # j => chain[i].chunk # chain[j].chunk
  /\ owner \in Chunk /\ h[owner] > 0
  /\ \A c \in Chunk :
       h[c] > 0 => c = owner \/ \E i \in 1..Len(chain) : chain[i].chunk = c

RegionInv(chain, regs) ==
  /\ \A r \in regs :
       /\ r \in Region
       /\ r.len > 0
       /\ \E i \in 1..Len(chain) : /\ chain[i].chunk = r.chunk
                                   /\ HeaderSize <= r.off
                                   /\ r.off + r.len <= HeaderSize + chain[i].used
  /\ \A r, s \in regs :
       r # s /\ r.chunk = s.chunk => \/ r.off + r.len <= s.off
                                     \/ s.off + s.len <= r.off

\* The inductive invariant.
ArenaInv ==
  /\ TypeOK
  /\ self = NoChunk => /\ blocks = << >>
                       /\ regions = {}
                       /\ heap = [c \in Chunk |-> 0]
  /\ self # NoChunk => /\ ChainInv(blocks, heap, self)
                       /\ RegionInv(blocks, regions)
                       /\ current \in 1..Len(blocks)
                       /\ block_size > HeaderSize

LEMMA DivMod ==
  ASSUME NEW a \in Nat, NEW d \in Nat \ {0}
  PROVE  /\ a \div d \in Nat
         /\ a % d \in 0..(d - 1)
         /\ a = d * (a \div d) + (a % d)
  OBVIOUS

LEMMA AlignUpSize ==
  ASSUME NEW n \in Nat
  PROVE  AlignUp(n) \in Size
<1> DEFINE s == (n + (Align - 1)) % (SizeMax + 1)
<1>1. s \in 0..SizeMax
  BY AlignAssumption, DivMod
<1> HIDE DEF s
<1>2. /\ s \div Align \in Nat
      /\ s % Align \in 0..(Align - 1)
      /\ s = Align * (s \div Align) + (s % Align)
  <2>1. s \in Nat /\ Align \in Nat \ {0}
    BY <1>1, AlignAssumption
  <2> QED BY <2>1, DivMod
<1>3. Align * (s \div Align) \in Size
  BY <1>1, <1>2, AlignAssumption DEF Size
<1> QED BY <1>3 DEF AlignUp, s

LEMMA AlignUpCovers ==
  ASSUME NEW n \in Nat, n <= SizeMax - (Align - 1)
  PROVE  AlignUp(n) >= n
<1> DEFINE s == n + (Align - 1)
<1>1. s \in 0..SizeMax
  BY AlignAssumption
<1>2. s % (SizeMax + 1) = s
  BY <1>1, AlignAssumption
<1> HIDE DEF s
<1>3. /\ s \div Align \in Nat
      /\ s % Align \in 0..(Align - 1)
      /\ s = Align * (s \div Align) + (s % Align)
  <2>1. s \in Nat /\ Align \in Nat \ {0}
    BY <1>1, AlignAssumption
  <2> QED BY <2>1, DivMod
<1>4. Align * (s \div Align) >= s - (Align - 1)
  BY <1>1, <1>3, AlignAssumption
<1> QED BY <1>4, <1>2, AlignAssumption DEF AlignUp, s

LEMMA BlockFields ==
  ASSUME NEW chain \in Seq(Block), NEW i \in 1..Len(chain)
  PROVE  /\ chain[i] \in Block
         /\ chain[i].chunk \in Chunk
         /\ chain[i].cap \in Size
         /\ chain[i].used \in Size
<1>1. chain[i] \in Block
  OBVIOUS
<1> QED BY <1>1 DEF Block

\* What bumping block i does to the fields of a chain.
LEMMA BumpFields ==
  ASSUME NEW chain \in Seq(Block), NEW i \in 1..Len(chain), NEW n \in Size,
         n <= chain[i].cap - chain[i].used
  PROVE  /\ Bumped(chain, i, n) \in Seq(Block)
         /\ Len(Bumped(chain, i, n)) = Len(chain)
         /\ \A j \in 1..Len(chain) :
              /\ Bumped(chain, i, n)[j].chunk = chain[j].chunk
              /\ Bumped(chain, i, n)[j].cap = chain[j].cap
              /\ Bumped(chain, i, n)[j].used = IF j = i THEN chain[j].used + n
                                                        ELSE chain[j].used
<1>1. chain[i] \in Block /\ chain[i].used + n \in Size
  BY AlignAssumption, BlockFields DEF Size
<1>2. [chain[i] EXCEPT !.used = chain[i].used + n] \in Block
  BY <1>1 DEF Block
<1>3. Bumped(chain, i, n)
        = [chain EXCEPT ![i] = [chain[i] EXCEPT !.used = chain[i].used + n]]
  BY DEF Bumped
<1>4. /\ Bumped(chain, i, n) \in Seq(Block)
      /\ Len(Bumped(chain, i, n)) = Len(chain)
  BY <1>2, <1>3
<1>5. \A j \in 1..Len(chain) : chain[j] \in Block
  OBVIOUS
<1> QED BY <1>1, <1>3, <1>4, <1>5 DEF Block

LEMMA BumpChain ==
  ASSUME NEW chain, NEW h, NEW owner, ChainInv(chain, h, owner),
         NEW i \in 1..Len(chain), NEW n \in Size,
         n <= chain[i].cap - chain[i].used
  PROVE  ChainInv(Bumped(chain, i, n), h, owner)
<1> DEFINE bumped == Bumped(chain, i, n)
<1>1. chain \in Seq(Block)
  BY DEF ChainInv
<1>2. /\ bumped \in Seq(Block)
      /\ Len(bumped) = Len(chain)
      /\ \A j \in 1..Len(chain) :
           /\ bumped[j].chunk = chain[j].chunk
           /\ bumped[j].cap = chain[j].cap
           /\ bumped[j].used = IF j = i THEN chain[j].used + n
                                        ELSE chain[j].used
  BY <1>1, BumpFields
<1> HIDE DEF bumped
<1>3. \A j \in 1..Len(chain) : bumped[j].used <= bumped[j].cap
  <2>1. chain[i].used \in Size /\ chain[i].cap \in Size
    BY <1>1, BlockFields
  <2> QED BY <1>2, <2>1 DEF ChainInv, Size
<1>4. ChainInv(bumped, h, owner)
  BY <1>1, <1>2, <1>3, SMTT(30) DEF ChainInv
<1> QED BY <1>4 DEF bumped

LEMMA BumpRegions ==
  ASSUME NEW chain, NEW h, NEW owner, ChainInv(chain, h, owner),
         NEW regs, RegionInv(chain, regs),
         NEW i \in 1..Len(chain), NEW n \in Size, n > 0, NEW node \in BOOLEAN,
         n <= chain[i].cap - chain[i].used
  PROVE  RegionInv(Bumped(chain, i, n),
                   regs \cup {RegionOf(chain[i], n, node)})
<1> DEFINE bumped == Bumped(chain, i, n)
           new    == RegionOf(chain[i], n, node)
<1>1. chain \in Seq(Block)
  BY DEF ChainInv
<1>2. /\ Len(bumped) = Len(chain)
      /\ \A j \in 1..Len(chain) :
           /\ bumped[j].chunk = chain[j].chunk
           /\ bumped[j].used = IF j = i THEN chain[j].used + n
                                        ELSE chain[j].used
  BY <1>1, BumpFields
<1>3. \A j \in 1..Len(chain) : chain[j].chunk \in Chunk /\ chain[j].used \in Nat
  BY <1>1, BlockFields DEF Size
<1>4. HeaderSize \in Nat /\ n \in Nat
  BY LayoutAssumption DEF Size
<1>5. /\ new \in Region
      /\ new.chunk = chain[i].chunk
      /\ new.off = HeaderSize + chain[i].used
      /\ new.len = n
  BY <1>3, <1>4 DEF RegionOf, Region
<1>6. \A r \in regs : r.off \in Nat /\ r.len \in Nat
  BY DEF RegionInv, Region
<1> HIDE DEF bumped, new
<1>7. ASSUME NEW r \in regs \cup {new}
      PROVE  /\ r \in Region
             /\ r.len > 0
             /\ \E j \in 1..Len(bumped) :
                  /\ bumped[j].chunk = r.chunk
                  /\ HeaderSize <= r.off
                  /\ r.off + r.len <= HeaderSize + bumped[j].used
  <2>1. CASE r = new
    <3>1. /\ bumped[i].chunk = new.chunk
          /\ bumped[i].used = chain[i].used + n
          /\ chain[i].used \in Nat
      BY <1>2, <1>3, <1>5
    <3>2. /\ HeaderSize <= new.off
          /\ new.off + new.len <= HeaderSize + bumped[i].used
      BY <1>4, <1>5, <3>1
    <3> QED BY <1>2, <1>5, <2>1, <3>1, <3>2
  <2>2. CASE r \in regs
    <3>1. PICK j \in 1..Len(chain) :
            /\ chain[j].chunk = r.chunk
            /\ HeaderSize <= r.off
            /\ r.off + r.len <= HeaderSize + chain[j].used
      BY <2>2 DEF RegionInv
    <3>2. chain[j].used \in Nat /\ r.off \in Nat /\ r.len \in Nat
      BY <1>3, <1>6, <2>2
    <3>3. bumped[j].used \in Nat /\ chain[j].used <= bumped[j].used
      BY <1>2, <1>4, <3>2
    <3>4. r.off + r.len <= HeaderSize + bumped[j].used
      <4>1. \A a, b, c, d, e \in Nat : a + b <= c + d /\ d <= e => a + b <= c + e
        OBVIOUS
      <4> QED BY <1>4, <3>1, <3>2, <3>3, <4>1
    <3> QED BY <1>2, <2>2, <3>1, <3>4 DEF RegionInv
  <2> QED BY <2>1, <2>2
<1>8. ASSUME NEW r \in regs, r.chunk = new.chunk
      PROVE  r.off + r.len <= new.off
  BY <1>5, <1>8 DEF RegionInv, ChainInv
<1>9. ASSUME NEW r \in regs \cup {new}, NEW s \in regs \cup {new},
             r # s, r.chunk = s.chunk
      PROVE  r.off + r.len <= s.off \/ s.off + s.len <= r.off
  BY <1>8, <1>9 DEF RegionInv
<1>10. RegionInv(bumped, regs \cup {new})
  BY <1>7, <1>9 DEF RegionInv
<1> QED BY <1>10 DEF bumped, new

\* json__block_new: its guard makes the rounded size cover header and request,
\* so the block it returns takes the request without a second check.
LEMMA BlockBytesCover ==
  ASSUME NEW n \in Size, ~BlockOverflows(n),
         NEW bsize \in Size, bsize > HeaderSize
  PROVE  /\ BlockBytes(n, bsize) \in Size
         /\ BlockBytes(n, bsize) > 0
         /\ BlockBytes(n, bsize) >= HeaderSize + n
<1>1. n + HeaderSize \in Nat /\ n + HeaderSize <= SizeMax - (Align - 1)
  BY LayoutAssumption, AlignAssumption DEF BlockOverflows, Size
<1>2. AlignUp(n + HeaderSize) \in Size /\ AlignUp(n + HeaderSize) >= n + HeaderSize
  BY <1>1, AlignUpSize, AlignUpCovers
<1> QED BY <1>1, <1>2, LayoutAssumption, AlignAssumption DEF BlockBytes, Size

LEMMA NewBlockFields ==
  ASSUME NEW c \in Chunk, NEW bytes \in Size, bytes >= HeaderSize
  PROVE  /\ NewBlock(c, bytes) \in Block
         /\ NewBlock(c, bytes).chunk = c
         /\ NewBlock(c, bytes).used = 0
         /\ NewBlock(c, bytes).cap = bytes - HeaderSize
<1>1. bytes - HeaderSize \in Size /\ 0 \in Size
  BY LayoutAssumption, AlignAssumption DEF Size
<1> QED BY <1>1 DEF NewBlock, Block

LEMMA LinkChain ==
  ASSUME NEW chain, NEW h \in [Chunk -> Size], NEW owner,
         ChainInv(chain, h, owner),
         NEW c \in Chunk, h[c] = 0, NEW bytes \in Size, bytes >= HeaderSize
  PROVE  ChainInv(Append(chain, NewBlock(c, bytes)),
                  [h EXCEPT ![c] = bytes], owner)
<1> DEFINE b == NewBlock(c, bytes)
           longer == Append(chain, b)
           g == [h EXCEPT ![c] = bytes]
<1>1. /\ b \in Block
      /\ b.chunk = c
      /\ b.used = 0
      /\ b.cap = bytes - HeaderSize
  BY NewBlockFields
<1>2. chain \in Seq(Block)
  BY DEF ChainInv
<1> HIDE DEF b
<1>3. /\ longer \in Seq(Block)
      /\ Len(longer) = Len(chain) + 1
      /\ longer[Len(chain) + 1] = b
      /\ \A i \in 1..Len(chain) : longer[i] = chain[i]
      /\ Len(chain) \in Nat
  BY <1>1, <1>2
<1>4. /\ g[c] = bytes
      /\ \A d \in Chunk : d # c => g[d] = h[d]
  OBVIOUS
<1>5. owner # c /\ \A i \in 1..Len(chain) : chain[i].chunk # c
  <2>1. \A i \in 1..Len(chain) : /\ chain[i].cap \in Size
                                 /\ h[chain[i].chunk] = HeaderSize + chain[i].cap
    BY <1>2, BlockFields DEF ChainInv
  <2>2. \A i \in 1..Len(chain) : h[chain[i].chunk] # 0
    BY <2>1, LayoutAssumption, SMTT(30) DEF Size
  <2> QED BY <2>2 DEF ChainInv
<1> HIDE DEF longer, g
<1>6. ASSUME NEW i \in 1..Len(longer)
      PROVE  /\ longer[i].used <= longer[i].cap
             /\ HeaderSize + longer[i].cap = g[longer[i].chunk]
             /\ longer[i].chunk # owner
  <2>1. CASE i = Len(chain) + 1
    BY <1>1, <1>3, <1>4, <1>5, <2>1, LayoutAssumption DEF Size
  <2>2. CASE i \in 1..Len(chain)
    <3>1. chain[i].chunk \in Chunk
      BY <1>2, <2>2, BlockFields
    <3> QED BY <1>3, <1>4, <1>5, <2>2, <3>1 DEF ChainInv
  <2> QED BY <1>3, <2>1, <2>2
<1>7. ASSUME NEW i \in 1..Len(longer), NEW j \in 1..Len(longer), i # j
      PROVE  longer[i].chunk # longer[j].chunk
  BY <1>1, <1>3, <1>5, <1>7 DEF ChainInv
<1>8. owner \in Chunk /\ g[owner] > 0
  BY <1>4, <1>5 DEF ChainInv
<1>9. ASSUME NEW d \in Chunk, g[d] > 0
      PROVE  d = owner \/ \E i \in 1..Len(longer) : longer[i].chunk = d
  <2>1. CASE d = c
    BY <1>1, <1>3, <2>1
  <2>2. CASE d # c
    <3>1. h[d] > 0
      BY <1>4, <1>9, <2>2
    <3> QED BY <1>3, <3>1 DEF ChainInv
  <2> QED BY <2>1, <2>2
<1>10. longer # << >>
  BY <1>3
<1>11. ChainInv(longer, g, owner)
  BY <1>3, <1>6, <1>7, <1>8, <1>9, <1>10 DEF ChainInv
<1> QED BY <1>11 DEF longer, g, b

LEMMA LinkRegions ==
  ASSUME NEW chain \in Seq(Block), NEW regs, RegionInv(chain, regs),
         NEW b \in Block
  PROVE  RegionInv(Append(chain, b), regs)
<1>1. /\ Len(Append(chain, b)) = Len(chain) + 1
      /\ Len(chain) \in Nat
      /\ \A i \in 1..Len(chain) : Append(chain, b)[i] = chain[i]
  OBVIOUS
<1> DEFINE longer == Append(chain, b)
<1> HIDE DEF longer
<1>2. RegionInv(longer, regs)
  BY <1>1 DEF RegionInv, longer
<1> QED BY <1>2 DEF longer

\* json__arena_alloc_raw, wherever it finds the memory.
LEMMA AllocRawInv ==
  ASSUME ArenaInv, NEW size \in Size, NEW node \in BOOLEAN, AllocRaw(size, node)
  PROVE  /\ ChainInv(blocks', heap', self)
         /\ RegionInv(blocks', regions')
         /\ current' \in 1..Len(blocks')
         /\ heap' \in [Chunk -> Size]
         /\ total_bytes' \in Size
<1> DEFINE n == AlignUp(size)
<1>1. /\ ChainInv(blocks, heap, self)
      /\ RegionInv(blocks, regions)
      /\ current \in 1..Len(blocks)
      /\ blocks \in Seq(Block)
      /\ heap \in [Chunk -> Size]
      /\ block_size \in Size /\ block_size > HeaderSize
      /\ total_bytes \in Size
  BY DEF AllocRaw, ArenaInv, TypeOK
<1>2. /\ n \in Size
      /\ n > 0
      /\ total_bytes + n \in Size
  <2>1. size # 0 /\ n >= size /\ n <= SizeMax - total_bytes
    BY DEF AllocRaw, Acceptable
  <2>2. n \in Size
    BY AlignUpSize DEF Size
  <2> HIDE DEF n
  <2> QED BY <1>1, <2>1, <2>2, AlignAssumption DEF Size
<1>3. InCurrent(n, node) \/ InRetained(n, node) \/ InAppended(n, node)
  BY DEF AllocRaw
<1> HIDE DEF n
<1>4. ASSUME NEW i \in 1..Len(blocks), Fits(i, n), Bump(blocks, i, n, node),
             UNCHANGED heap
      PROVE  /\ ChainInv(blocks', heap', self)
             /\ RegionInv(blocks', regions')
             /\ current' \in 1..Len(blocks')
             /\ heap' \in [Chunk -> Size]
             /\ total_bytes' \in Size
  <2>1. n <= blocks[i].cap - blocks[i].used
    BY <1>4 DEF Fits
  <2>2. /\ blocks' = Bumped(blocks, i, n)
        /\ current' = i
        /\ total_bytes' = total_bytes + n
        /\ regions' = regions \cup {RegionOf(blocks[i], n, node)}
        /\ heap' = heap
    BY <1>4 DEF Bump
  <2>3. ChainInv(Bumped(blocks, i, n), heap, self)
    BY <1>1, <1>2, <2>1, BumpChain
  <2>4. RegionInv(Bumped(blocks, i, n),
                  regions \cup {RegionOf(blocks[i], n, node)})
    BY <1>1, <1>2, <2>1, BumpRegions
  <2>5. Len(Bumped(blocks, i, n)) = Len(blocks)
    BY <1>1, <1>2, <2>1, BumpFields
  <2> QED BY <1>1, <1>2, <2>2, <2>3, <2>4, <2>5
<1>5. CASE InCurrent(n, node)
  BY <1>1, <1>4, <1>5 DEF InCurrent
<1>6. CASE InRetained(n, node)
  <2>1. PICK i \in 1..Len(blocks) :
          FirstReusable(i, n) /\ Bump(blocks, i, n, node) /\ UNCHANGED heap
    BY <1>6 DEF InRetained
  <2>2. Fits(i, n)
    BY <2>1 DEF FirstReusable, Reusable
  <2> QED BY <1>4, <2>1, <2>2
<1>7. CASE InAppended(n, node)
  <2> DEFINE bytes == BlockBytes(n, block_size)
  <2>1. /\ ~BlockOverflows(n)
        /\ \E c \in Free :
             /\ heap' = [heap EXCEPT ![c] = bytes]
             /\ Bump(Link(NewBlock(c, bytes)), Len(blocks) + 1, n, node)
    BY <1>7 DEF InAppended
  <2>2. /\ bytes \in Size
        /\ bytes > 0
        /\ bytes >= HeaderSize + n
    BY <1>1, <1>2, <2>1, BlockBytesCover
  <2> HIDE DEF bytes
  <2>3. PICK c \in Free :
          /\ heap' = [heap EXCEPT ![c] = bytes]
          /\ Bump(Link(NewBlock(c, bytes)), Len(blocks) + 1, n, node)
    BY <2>1
  <2>4. c \in Chunk /\ heap[c] = 0
    BY <1>1 DEF Free, Live, Size
  <2> DEFINE longer == Append(blocks, NewBlock(c, bytes))
             k == Len(blocks) + 1
  <2>5. HeaderSize \in Nat /\ n \in Nat /\ bytes \in Nat /\ bytes >= HeaderSize
    BY <1>2, <2>2, LayoutAssumption DEF Size
  <2>6. /\ NewBlock(c, bytes) \in Block
        /\ NewBlock(c, bytes).used = 0
        /\ NewBlock(c, bytes).cap = bytes - HeaderSize
    BY <2>2, <2>4, <2>5, NewBlockFields
  <2>7. ChainInv(longer, heap', self)
    BY <1>1, <2>2, <2>3, <2>4, <2>5, LinkChain
  <2>8. RegionInv(longer, regions)
    BY <1>1, <2>6, LinkRegions
  <2>9. k \in 1..Len(longer) /\ longer[k] = NewBlock(c, bytes)
    BY <1>1, <2>6
  <2>10. n <= longer[k].cap - longer[k].used
    BY <2>2, <2>5, <2>6, <2>9
  <2>11. /\ blocks' = Bumped(longer, k, n)
         /\ current' = k
         /\ total_bytes' = total_bytes + n
         /\ regions' = regions \cup {RegionOf(longer[k], n, node)}
    BY <2>3 DEF Bump, Link
  <2> HIDE DEF longer, k
  <2>12. ChainInv(blocks', heap', self)
    BY <1>2, <2>7, <2>9, <2>10, <2>11, BumpChain
  <2>13. RegionInv(blocks', regions')
    BY <1>2, <2>7, <2>8, <2>9, <2>10, <2>11, BumpRegions
  <2>14. Len(blocks') = Len(longer)
    BY <1>2, <2>7, <2>9, <2>10, <2>11, BumpFields DEF ChainInv
  <2>15. heap' \in [Chunk -> Size]
    BY <1>1, <2>2, <2>3
  <2> QED BY <1>2, <2>9, <2>11, <2>12, <2>13, <2>14, <2>15
<1> QED BY <1>3, <1>5, <1>6, <1>7

\* json_arena_reset over a chain.
LEMMA RewindInv ==
  ASSUME NEW chain, NEW h, NEW owner, ChainInv(chain, h, owner), Rewind(chain)
  PROVE  /\ ChainInv(blocks', h, owner)
         /\ RegionInv(blocks', regions')
         /\ current' \in 1..Len(blocks')
         /\ total_bytes' \in Size
         /\ node_count' \in 0..MaxNodes
<1>1. /\ blocks' = [i \in 1..Len(chain) |-> [chain[i] EXCEPT !.used = 0]]
      /\ current' = 1 /\ total_bytes' = 0 /\ node_count' = 0 /\ regions' = {}
  BY DEF Rewind
<1>2. chain \in Seq(Block) /\ chain # << >>
  BY DEF ChainInv
<1>3. \A i \in 1..Len(chain) : chain[i] \in Block
  BY <1>2
<1>4. 0 \in Size
  BY AlignAssumption DEF Size
<1>5. \A i \in 1..Len(chain) : /\ [chain[i] EXCEPT !.used = 0] \in Block
                               /\ [chain[i] EXCEPT !.used = 0].chunk = chain[i].chunk
                               /\ [chain[i] EXCEPT !.used = 0].cap = chain[i].cap
                               /\ [chain[i] EXCEPT !.used = 0].used = 0
  BY <1>3, <1>4 DEF Block
<1>6. Len(chain) \in Nat /\ Len(chain) > 0
  BY <1>2
<1>7. blocks' \in Seq(Block) /\ Len(blocks') = Len(chain)
  BY <1>1, <1>5, <1>6
<1>8. \A i \in 1..Len(chain) : /\ blocks'[i].chunk = chain[i].chunk
                               /\ blocks'[i].cap = chain[i].cap
                               /\ blocks'[i].used = 0
  BY <1>1, <1>5
<1>9. \A i \in 1..Len(chain) : chain[i].cap \in Nat
  BY <1>2, BlockFields DEF Size
<1>10. ChainInv(blocks', h, owner)
  <2>1. \A i \in 1..Len(chain) :
          HeaderSize + chain[i].cap = h[chain[i].chunk] /\ chain[i].chunk # owner
    BY DEF ChainInv
  <2>2. \A i, j \in 1..Len(chain) : i # j => chain[i].chunk # chain[j].chunk
    BY DEF ChainInv
  <2>3. owner \in Chunk /\ h[owner] > 0
    BY DEF ChainInv
  <2>4. \A c \in Chunk :
          h[c] > 0 => c = owner \/ \E i \in 1..Len(chain) : chain[i].chunk = c
    BY DEF ChainInv
  <2>5. \A i \in 1..Len(chain) : blocks'[i].used <= blocks'[i].cap
    BY <1>8, <1>9
  <2>6. blocks' # << >>
    BY <1>6, <1>7
  <2> QED BY <1>7, <1>8, <2>1, <2>2, <2>3, <2>4, <2>5, <2>6 DEF ChainInv
<1>11. RegionInv(blocks', regions')
  BY <1>1 DEF RegionInv
<1> QED BY <1>1, <1>4, <1>6, <1>7, <1>10, <1>11, LayoutAssumption

THEOREM ArenaInvInit == Init => ArenaInv
<1> SUFFICES ASSUME Init PROVE ArenaInv
  OBVIOUS
<1>1. 0 \in Size
  BY AlignAssumption DEF Size
<1>2. TypeOK
  BY <1>1, LayoutAssumption DEF Init, TypeOK
<1> QED BY <1>2 DEF Init, ArenaInv

THEOREM ArenaInvNext == ArenaInv /\ [Next]_vars => ArenaInv'
<1> SUFFICES ASSUME ArenaInv, [Next]_vars PROVE ArenaInv'
  OBVIOUS
<1>0. /\ heap \in [Chunk -> Size]
      /\ self \in Chunk \cup {NoChunk}
      /\ block_size \in Size
      /\ total_bytes \in Size
      /\ node_count \in 0..MaxNodes
  BY DEF ArenaInv, TypeOK
\* TypeOK' and the invariant of an existing arena follow from its parts.
<1> DEFINE Existing == /\ ChainInv(blocks', heap', self')
                       /\ RegionInv(blocks', regions')
                       /\ current' \in 1..Len(blocks')
                       /\ heap' \in [Chunk -> Size]
                       /\ self' \in Chunk
                       /\ block_size' \in Size
                       /\ block_size' > HeaderSize
                       /\ total_bytes' \in Size
                       /\ node_count' \in 0..MaxNodes
<1>a. Existing => ArenaInv'
  <2> SUFFICES ASSUME Existing PROVE ArenaInv'
    OBVIOUS
  <2>1. blocks' \in Seq(Block) /\ regions' \subseteq Region
    BY DEF ChainInv, RegionInv
  <2>2. current' \in 0..Len(blocks')
    BY <2>1
  <2>3. self' # NoChunk
    BY ChunkAssumption
  <2> QED BY <2>1, <2>2, <2>3 DEF ArenaInv, TypeOK
<1> HIDE DEF Existing
<1>b. self # NoChunk => /\ self \in Chunk
                        /\ ChainInv(blocks, heap, self)
                        /\ RegionInv(blocks, regions)
                        /\ current \in 1..Len(blocks)
                        /\ block_size > HeaderSize
  BY <1>0 DEF ArenaInv
<1>1. ASSUME NEW arg \in BlockSizeArg, Create(arg) PROVE ArenaInv'
  <2> DEFINE bsize == EffectiveBlockSize(arg)
             bytes == BlockBytes(0, bsize)
  <2>1. /\ self = NoChunk
        /\ total_bytes' = total_bytes /\ node_count' = node_count
        /\ regions' = regions
        /\ \E s \in Free : \E c \in Free \ {s} :
             /\ self' = s
             /\ block_size' = bsize
             /\ heap' = [heap EXCEPT ![s] = ArenaSize, ![c] = bytes]
             /\ blocks' = <<NewBlock(c, bytes)>>
             /\ current' = 1
    BY <1>1 DEF Create
  <2>2. bsize \in Size /\ bsize > HeaderSize
    BY InputAssumption, LayoutAssumption DEF EffectiveBlockSize, Size
  <2>3. bytes = bsize
    BY <2>2, LayoutAssumption DEF BlockBytes, Size
  <2>4. /\ heap = [c \in Chunk |-> 0]
        /\ regions = {}
    BY <2>1 DEF ArenaInv
  <2> HIDE DEF bsize, bytes
  <2>s. PICK s \in Free : \E c \in Free \ {s} :
          /\ self' = s
          /\ block_size' = bsize
          /\ heap' = [heap EXCEPT ![s] = ArenaSize, ![c] = bytes]
          /\ blocks' = <<NewBlock(c, bytes)>>
          /\ current' = 1
    BY <2>1
  <2>5. PICK c \in Free \ {s} :
          /\ self' = s
          /\ block_size' = bsize
          /\ heap' = [heap EXCEPT ![s] = ArenaSize, ![c] = bytes]
          /\ blocks' = <<NewBlock(c, bytes)>>
          /\ current' = 1
    BY <2>s
  <2>6. s \in Chunk /\ c \in Chunk /\ s # c
    BY DEF Free
  <2>7. /\ NewBlock(c, bytes) \in Block
        /\ NewBlock(c, bytes).chunk = c
        /\ NewBlock(c, bytes).used = 0
        /\ NewBlock(c, bytes).cap = bytes - HeaderSize
    BY <2>2, <2>3, <2>6, NewBlockFields, LayoutAssumption DEF Size
  <2> DEFINE b == NewBlock(c, bytes)
  <2> HIDE DEF b
  <2>8. /\ blocks' \in Seq(Block)
        /\ Len(blocks') = 1
        /\ blocks'[1] = b
    BY <2>5, <2>7 DEF b
  <2>9. /\ heap' \in [Chunk -> Size]
        /\ heap'[s] = ArenaSize
        /\ heap'[c] = bytes
        /\ \A d \in Chunk : d # s /\ d # c => heap'[d] = 0
    <3>1. ArenaSize \in Size /\ bytes \in Size
      BY <2>2, <2>3, LayoutAssumption
    <3>2. heap \in [Chunk -> Size] /\ \A d \in Chunk : heap[d] = 0
      BY <1>0, <2>4
    <3> QED BY <2>5, <2>6, <3>1, <3>2
  <2>10. /\ ArenaSize > 0
         /\ b.used <= b.cap
         /\ HeaderSize + b.cap = bytes
         /\ b.chunk = c
    BY <2>2, <2>3, <2>7, LayoutAssumption DEF Size, b
  <2>11. ChainInv(blocks', heap', self')
    BY <2>5, <2>6, <2>8, <2>9, <2>10 DEF ChainInv
  <2>12. RegionInv(blocks', regions')
    BY <2>1, <2>4 DEF RegionInv
  <2>13. current' \in 1..Len(blocks')
    BY <2>5, <2>8
  <2> QED
    BY <1>0, <1>a, <2>1, <2>2, <2>5, <2>6, <2>9, <2>11, <2>12, <2>13 DEF Existing
<1>2. CASE CreateFails
  <2>1. heap' = heap
    BY <1>0, <1>2 DEF CreateFails, Free, Live, Size
  <2>2. vars' = vars
    BY <1>2, <2>1 DEF CreateFails, vars
  <2> QED BY <2>2 DEF vars, ArenaInv, TypeOK
<1>3. ASSUME NEW size \in Request, Alloc(size) PROVE ArenaInv'
  <2>1. AllocRaw(size, FALSE) /\ node_count' = node_count /\ size \in Size
    BY <1>3, InputAssumption DEF Alloc
  <2>2. self' = self /\ block_size' = block_size /\ self # NoChunk
    BY <2>1 DEF AllocRaw
  <2> QED BY <1>0, <1>a, <1>b, <2>1, <2>2, AllocRawInv DEF Existing
<1>4. ASSUME NEW size \in Request, AllocFails(size) PROVE ArenaInv'
  <2>1. vars' = vars
    BY <1>4 DEF AllocFails
  <2> QED BY <2>1 DEF vars, ArenaInv, TypeOK
<1>5. CASE NewNode
  <2>1. AllocRaw(NodeSize, TRUE)
    BY <1>5 DEF NewNode
  <2>2. node_count < MaxNodes /\ node_count' = node_count + 1
    BY <1>5 DEF NewNode
  <2>3. node_count' \in 0..MaxNodes
    BY <1>0, <2>2, LayoutAssumption
  <2>4. NodeSize \in Size
    BY LayoutAssumption
  <2>5. self' = self /\ block_size' = block_size /\ self # NoChunk
    BY <2>1 DEF AllocRaw
  <2> QED BY <1>0, <1>a, <1>b, <2>1, <2>3, <2>4, <2>5, AllocRawInv DEF Existing
<1>6. CASE Reset
  <2>1. /\ self # NoChunk /\ Rewind(blocks)
        /\ heap' = heap /\ self' = self /\ block_size' = block_size
    BY <1>6 DEF Reset
  <2> QED BY <1>0, <1>a, <1>b, <2>1, RewindInv DEF Existing
<1>7. CASE Trim
  <2> DEFINE dropped == {blocks[i].chunk : i \in 2..Len(blocks)}
             first   == SubSeq(blocks, 1, 1)
  <2>1. /\ self # NoChunk
        /\ heap' = [c \in Chunk |-> IF c \in dropped THEN 0 ELSE heap[c]]
        /\ Rewind(first)
        /\ self' = self /\ block_size' = block_size
    BY <1>7 DEF Trim
  <2>2. ChainInv(blocks, heap, self) /\ blocks \in Seq(Block) /\ Len(blocks) >= 1
    BY <1>b, <2>1 DEF ChainInv
  <2>3. /\ first \in Seq(Block)
        /\ Len(first) = 1
        /\ first[1] = blocks[1]
    BY <2>2
  <2>4. 0 \in Size
    BY AlignAssumption DEF Size
  <2>5. /\ heap' \in [Chunk -> Size]
        /\ \A c \in Chunk : c \notin dropped => heap'[c] = heap[c]
        /\ \A c \in Chunk : heap'[c] > 0 => heap[c] > 0 /\ c \notin dropped
    BY <1>0, <2>1, <2>4 DEF Size
  <2>6. self \notin dropped /\ blocks[1].chunk \notin dropped
    BY <2>2 DEF ChainInv
  <2>7. \A i \in 1..Len(blocks) : blocks[i].chunk \notin dropped => i = 1
    BY <2>2
  <2>8. blocks[1].chunk \in Chunk
    BY <2>2, BlockFields
  <2> HIDE DEF dropped, first
  <2>9. ChainInv(first, heap', self)
    <3>1. /\ first # << >>
          /\ first[1].used <= first[1].cap
          /\ HeaderSize + first[1].cap = heap'[first[1].chunk]
          /\ first[1].chunk # self
      BY <2>2, <2>3, <2>5, <2>6, <2>8 DEF ChainInv
    <3>2. self \in Chunk /\ heap'[self] > 0
      BY <2>2, <2>5, <2>6 DEF ChainInv
    <3>3. ASSUME NEW c \in Chunk, heap'[c] > 0
          PROVE  c = self \/ first[1].chunk = c
      <4>1. heap[c] > 0 /\ c \notin dropped
        BY <2>5, <3>3
      <4> QED BY <2>2, <2>3, <2>7, <4>1 DEF ChainInv
    <3>4. \A i \in 1..Len(first) : i = 1
      BY <2>3
    <3>5. 1 \in 1..Len(first)
      BY <2>3
    <3> QED BY <2>3, <3>1, <3>2, <3>3, <3>4, <3>5 DEF ChainInv
  <2> QED BY <1>0, <1>a, <1>b, <2>1, <2>5, <2>9, RewindInv DEF Existing
<1>8. CASE Destroy
  <2>1. /\ self # NoChunk
        /\ self' = NoChunk /\ block_size' = 0 /\ blocks' = << >> /\ current' = 0
        /\ total_bytes' = 0 /\ node_count' = 0 /\ regions' = {}
        /\ heap' = [c \in Chunk |->
                      IF c \in {blocks[i].chunk : i \in 1..Len(blocks)} \cup {self}
                        THEN 0 ELSE heap[c]]
    BY <1>8 DEF Destroy
  <2>2. ASSUME NEW c \in Chunk,
               c \notin {blocks[i].chunk : i \in 1..Len(blocks)} \cup {self}
        PROVE  heap[c] = 0
    BY <1>0, <1>b, <2>1, <2>2 DEF ChainInv, Size
  <2>3. heap' = [c \in Chunk |-> 0]
    BY <2>1, <2>2
  <2>4. 0 \in Size
    BY AlignAssumption DEF Size
  <2>5. TypeOK'
    BY <2>1, <2>3, <2>4, LayoutAssumption DEF TypeOK
  <2> QED BY <2>1, <2>3, <2>5 DEF ArenaInv
<1>9. CASE UNCHANGED vars
  BY <1>9 DEF vars, ArenaInv, TypeOK
<1> QED
  BY <1>1, <1>2, <1>3, <1>4, <1>5, <1>6, <1>7, <1>8, <1>9 DEF Next

\* The chain, the regions in it and the backing allocator's view agree in
\* every reachable state: the strengthening the theorems below rest on.
THEOREM ArenaInvariant == Spec => []ArenaInv
<1>1. Init => ArenaInv
  BY ArenaInvInit
<1>2. ArenaInv /\ [Next]_vars => ArenaInv'
  BY ArenaInvNext
<1> QED BY <1>1, <1>2, PTL DEF Spec

\* Every variable of the arena keeps its type: no size_t of the bookkeeping
\* wraps, node_count stays within JSON_MAX_NODES, current stays on the chain.
THEOREM TypeCorrect == Spec => []TypeOK
<1>1. ArenaInv => TypeOK
  BY DEF ArenaInv
<1> QED BY <1>1, ArenaInvariant, PTL

\* For every layout and every sequence of operations the chunks obtained from
\* the backing allocator are exactly the struct and the chain.
THEOREM NothingLeaks == Spec => []NoLeak
<1>1. ASSUME ArenaInv PROVE NoLeak
  <2>1. CASE self = NoChunk
    <3>1. blocks = << >> /\ Live = {}
      BY <1>1, <2>1 DEF ArenaInv, Live
    <3> QED BY <2>1, <3>1 DEF NoLeak
  <2>2. CASE self # NoChunk
    <3>1. ChainInv(blocks, heap, self) /\ heap \in [Chunk -> Size]
      BY <1>1, <2>2 DEF ArenaInv, TypeOK
    <3> DEFINE chunks == {blocks[i].chunk : i \in 1..Len(blocks)}
    <3>2. ASSUME NEW c \in Live PROVE c \in {self} \cup chunks
      <4>1. c \in Chunk /\ heap[c] > 0
        BY DEF Live
      <4>2. c = self \/ \E i \in 1..Len(blocks) : blocks[i].chunk = c
        BY <3>1, <4>1, Zenon DEF ChainInv
      <4> QED BY <4>2
    <3>3. self \in Live
      BY <3>1 DEF ChainInv, Live
    <3>4. ASSUME NEW i \in 1..Len(blocks) PROVE blocks[i].chunk \in Live
      <4>1. /\ blocks[i].chunk \in Chunk
            /\ blocks[i].cap \in Size
            /\ heap[blocks[i].chunk] = HeaderSize + blocks[i].cap
        BY <3>1, BlockFields DEF ChainInv
      <4> QED BY <4>1, LayoutAssumption DEF Live, Size
    <3>5. Live = {self} \cup chunks
      BY <3>2, <3>3, <3>4
    <3> QED BY <2>2, <3>1, <3>5 DEF NoLeak, ChainInv
  <2> QED BY <2>1, <2>2
<1> QED BY <1>1, ArenaInvariant, PTL

\* Memory handed out stays behind the block header, within what its block has
\* used and within the chunk the backing allocator returned.
THEOREM AllocationsInBounds == Spec => []RegionsInBounds
<1>1. ASSUME ArenaInv PROVE RegionsInBounds
  <2>1. CASE self = NoChunk
    BY <1>1, <2>1 DEF ArenaInv, RegionsInBounds
  <2>2. CASE self # NoChunk
    <3>1. ChainInv(blocks, heap, self) /\ RegionInv(blocks, regions)
      BY <1>1, <2>2 DEF ArenaInv
    <3>2. ASSUME NEW i \in 1..Len(blocks)
          PROVE  HeaderSize + blocks[i].used <= heap[blocks[i].chunk]
      <4>1. /\ blocks[i].cap \in Size /\ blocks[i].used \in Size
            /\ blocks[i].used <= blocks[i].cap
            /\ heap[blocks[i].chunk] = HeaderSize + blocks[i].cap
        BY <3>1, BlockFields DEF ChainInv
      <4> QED BY <4>1, LayoutAssumption DEF Size
    <3> QED BY <3>1, <3>2 DEF RegionInv, RegionsInBounds
  <2> QED BY <2>1, <2>2
<1> QED BY <1>1, ArenaInvariant, PTL

\* No two allocations since the last reset share a byte.
THEOREM AllocationsDisjoint == Spec => []RegionsDisjoint
<1>1. ArenaInv => RegionsDisjoint
  BY DEF ArenaInv, RegionInv, RegionsDisjoint
<1> QED BY <1>1, ArenaInvariant, PTL

(***************************************************************************)
(* Alignment.                                                              *)
(***************************************************************************)

\* Strengthening of RegionsAligned: what a block has granted is a whole
\* number of alignment units, so the next region starts on a boundary.
AlignedInv ==
  /\ \A i \in 1..Len(blocks) : blocks[i].used % Align = 0
  /\ \A r \in regions : r.off % Align = 0

LEMMA MultipleMod ==
  ASSUME NEW k \in Int, NEW d \in Nat \ {0}
  PROVE  (d * k) % d = 0
<1> DEFINE q == (d * k) \div d
           r == (d * k) % d
<1>1. /\ q \in Int
      /\ r \in 0..(d - 1)
      /\ d * k = d * q + r
  OBVIOUS
<1> HIDE DEF q, r
<1>2. k - q \in Int /\ d * (k - q) = r
  BY <1>1
<1>3. ~(k - q >= 1)
  BY <1>1, <1>2
<1>4. ~(k - q <= -1)
  BY <1>1, <1>2
<1>5. k - q = 0
  BY <1>2, <1>3, <1>4
<1>6. r = 0
  BY <1>2, <1>5
<1> QED BY <1>6 DEF r

LEMMA SumMod ==
  ASSUME NEW a \in Nat, NEW b \in Nat, NEW d \in Nat \ {0},
         a % d = 0, b % d = 0
  PROVE  (a + b) % d = 0
<1>1. /\ a \div d \in Int /\ b \div d \in Int
      /\ a = d * (a \div d) /\ b = d * (b \div d)
  BY DivMod
<1>2. PICK p \in Int : p = a \div d
  BY <1>1
<1>3. PICK q \in Int : q = b \div d
  BY <1>1
<1>4. a + b = d * (p + q) /\ p + q \in Int
  BY <1>1, <1>2, <1>3
<1> QED BY <1>4, MultipleMod

LEMMA AlignUpAligned ==
  ASSUME NEW n \in Nat
  PROVE  AlignUp(n) % Align = 0
<1> DEFINE s == (n + (Align - 1)) % (SizeMax + 1)
<1>1. s \in Nat
  BY AlignAssumption, DivMod
<1> HIDE DEF s
<1>2. s \div Align \in Int
  BY <1>1, AlignAssumption
<1>3. (Align * (s \div Align)) % Align = 0
  BY <1>2, AlignAssumption, MultipleMod
<1> QED BY <1>3 DEF AlignUp, s

\* A bump by a multiple, in a chain where every used is one.
LEMMA BumpAligned ==
  ASSUME NEW chain \in Seq(Block),
         \A j \in 1..Len(chain) : chain[j].used % Align = 0,
         NEW i \in 1..Len(chain), NEW n \in Size, n % Align = 0,
         n <= chain[i].cap - chain[i].used, NEW node
  PROVE  /\ \A j \in 1..Len(Bumped(chain, i, n)) :
              Bumped(chain, i, n)[j].used % Align = 0
         /\ RegionOf(chain[i], n, node).off % Align = 0
<1>1. chain[i].used \in Nat /\ n \in Nat /\ HeaderSize \in Nat
  BY BlockFields, LayoutAssumption DEF Size
<1>2. /\ (chain[i].used + n) % Align = 0
      /\ (HeaderSize + chain[i].used) % Align = 0
  BY <1>1, SumMod, AlignAssumption, LayoutAssumption
<1>3. RegionOf(chain[i], n, node).off = HeaderSize + chain[i].used
  BY DEF RegionOf
<1>4. /\ Len(Bumped(chain, i, n)) = Len(chain)
      /\ \A j \in 1..Len(chain) :
           Bumped(chain, i, n)[j].used = IF j = i THEN chain[j].used + n
                                                  ELSE chain[j].used
  BY BumpFields
<1> QED BY <1>2, <1>3, <1>4

LEMMA AllocRawAligned ==
  ASSUME ArenaInv, AlignedInv, NEW size \in Size, NEW node \in BOOLEAN,
         AllocRaw(size, node)
  PROVE  AlignedInv'
<1> DEFINE n == AlignUp(size)
<1>1. /\ blocks \in Seq(Block) /\ current \in 1..Len(blocks)
      /\ block_size \in Size /\ block_size > HeaderSize
      /\ heap \in [Chunk -> Size]
  BY DEF AllocRaw, ArenaInv, TypeOK
<1>2. n \in Size /\ n % Align = 0
  BY AlignUpSize, AlignUpAligned DEF Size
<1>3. InCurrent(n, node) \/ InRetained(n, node) \/ InAppended(n, node)
  BY DEF AllocRaw
<1> HIDE DEF n
<1>4. ASSUME NEW chain \in Seq(Block), NEW i \in 1..Len(chain),
             \A j \in 1..Len(chain) : chain[j].used % Align = 0,
             n <= chain[i].cap - chain[i].used,
             Bump(chain, i, n, node)
      PROVE  AlignedInv'
  <2>1. /\ blocks' = Bumped(chain, i, n)
        /\ regions' = regions \cup {RegionOf(chain[i], n, node)}
    BY <1>4 DEF Bump
  <2>2. /\ \A j \in 1..Len(Bumped(chain, i, n)) :
              Bumped(chain, i, n)[j].used % Align = 0
        /\ RegionOf(chain[i], n, node).off % Align = 0
    BY <1>2, <1>4, BumpAligned
  <2> QED BY <2>1, <2>2 DEF AlignedInv
<1>5. CASE InCurrent(n, node)
  BY <1>1, <1>4, <1>5 DEF InCurrent, Fits, AlignedInv
<1>6. CASE InRetained(n, node)
  <2>1. PICK i \in 1..Len(blocks) :
          FirstReusable(i, n) /\ Bump(blocks, i, n, node)
    BY <1>6 DEF InRetained
  <2>2. n <= blocks[i].cap - blocks[i].used
    BY <2>1 DEF FirstReusable, Reusable, Fits
  <2> QED BY <1>1, <1>4, <2>1, <2>2 DEF AlignedInv
<1>7. CASE InAppended(n, node)
  <2> DEFINE bytes == BlockBytes(n, block_size)
  <2>1. /\ ~BlockOverflows(n)
        /\ \E c \in Free : Bump(Link(NewBlock(c, bytes)), Len(blocks) + 1, n, node)
    BY <1>7 DEF InAppended
  <2>2. bytes \in Size /\ bytes >= HeaderSize + n
    BY <1>1, <1>2, <2>1, BlockBytesCover
  <2> HIDE DEF bytes
  <2>3. PICK c \in Free : Bump(Link(NewBlock(c, bytes)), Len(blocks) + 1, n, node)
    BY <2>1
  <2>4. c \in Chunk /\ bytes \in Nat /\ n \in Nat /\ HeaderSize \in Nat
    BY <1>2, <2>2, LayoutAssumption DEF Free, Size
  <2>5. /\ NewBlock(c, bytes) \in Block
        /\ NewBlock(c, bytes).used = 0
        /\ NewBlock(c, bytes).cap = bytes - HeaderSize
    BY <2>2, <2>4, NewBlockFields
  <2> DEFINE longer == Link(NewBlock(c, bytes))
  <2>6. /\ longer \in Seq(Block)
        /\ Len(longer) = Len(blocks) + 1
        /\ longer[Len(blocks) + 1] = NewBlock(c, bytes)
        /\ \A j \in 1..Len(blocks) : longer[j] = blocks[j]
    BY <1>1, <2>5 DEF Link
  <2> HIDE DEF longer
  <2>7. 0 % Align = 0
    BY AlignAssumption
  <2>8. ASSUME NEW j \in 1..Len(longer) PROVE longer[j].used % Align = 0
    <3>1. j \in 1..Len(blocks) \/ j = Len(blocks) + 1
      BY <1>1, <2>6
    <3>2. CASE j \in 1..Len(blocks)
      <4>1. blocks[j].used % Align = 0 /\ longer[j] = blocks[j]
        BY <2>6, <3>2 DEF AlignedInv
      <4> QED BY <4>1
    <3>3. CASE j = Len(blocks) + 1
      <4>1. longer[j].used = 0
        BY <2>5, <2>6, <3>3
      <4> QED BY <2>7, <4>1
    <3> QED BY <3>1, <3>2, <3>3
  <2>9. n <= longer[Len(blocks) + 1].cap - longer[Len(blocks) + 1].used
    BY <2>2, <2>4, <2>5, <2>6
  <2>10. Len(blocks) + 1 \in 1..Len(longer)
    BY <1>1, <2>6
  <2>11. Bump(longer, Len(blocks) + 1, n, node)
    BY <2>3 DEF longer
  <2> QED BY <1>4, <2>6, <2>8, <2>9, <2>10, <2>11
<1> QED BY <1>3, <1>5, <1>6, <1>7

LEMMA RewindAligned ==
  ASSUME NEW chain \in Seq(Block), Rewind(chain)
  PROVE  AlignedInv'
<1>1. /\ blocks' = [i \in 1..Len(chain) |-> [chain[i] EXCEPT !.used = 0]]
      /\ regions' = {}
  BY DEF Rewind
<1>2. \A i \in 1..Len(chain) : [chain[i] EXCEPT !.used = 0].used = 0
  BY DEF Block
<1>3. Len(blocks') = Len(chain)
  BY <1>1
<1>4. 0 % Align = 0
  BY AlignAssumption
<1> QED BY <1>1, <1>2, <1>3, <1>4 DEF AlignedInv

LEMMA AlignedInvNext == ArenaInv /\ AlignedInv /\ [Next]_vars => AlignedInv'
<1> SUFFICES ASSUME ArenaInv, AlignedInv, [Next]_vars PROVE AlignedInv'
  OBVIOUS
<1>0. blocks \in Seq(Block)
  BY DEF ArenaInv, TypeOK
<1>1. ASSUME NEW arg \in BlockSizeArg, Create(arg) PROVE AlignedInv'
  <2>1. self = NoChunk /\ regions' = regions
    BY <1>1 DEF Create
  <2>2. PICK b : blocks' = <<b>> /\ b.used = 0
    BY <1>1 DEF Create, NewBlock
  <2>3. Len(blocks') = 1 /\ blocks'[1].used = 0
    BY <2>2
  <2>4. 0 % Align = 0
    BY AlignAssumption
  <2> QED BY <2>1, <2>3, <2>4 DEF AlignedInv
<1>2. CASE CreateFails
  BY <1>2 DEF CreateFails, AlignedInv
<1>3. ASSUME NEW size \in Request, Alloc(size) PROVE AlignedInv'
  BY <1>3, AllocRawAligned, InputAssumption DEF Alloc
<1>4. ASSUME NEW size \in Request, AllocFails(size) PROVE AlignedInv'
  BY <1>4 DEF AllocFails, vars, AlignedInv
<1>5. CASE NewNode
  BY <1>5, AllocRawAligned, LayoutAssumption DEF NewNode
<1>6. CASE Reset
  BY <1>0, <1>6, RewindAligned DEF Reset
<1>7. CASE Trim
  <2>1. Rewind(SubSeq(blocks, 1, 1)) /\ self # NoChunk
    BY <1>7 DEF Trim
  <2>2. blocks # << >>
    BY <2>1 DEF ArenaInv, ChainInv
  <2>3. SubSeq(blocks, 1, 1) \in Seq(Block)
    BY <1>0, <2>2
  <2> QED BY <2>1, <2>3, RewindAligned
<1>8. CASE Destroy
  BY <1>8 DEF Destroy, AlignedInv
<1>9. CASE UNCHANGED vars
  BY <1>9 DEF vars, AlignedInv
<1> QED
  BY <1>1, <1>2, <1>3, <1>4, <1>5, <1>6, <1>7, <1>8, <1>9 DEF Next

\* Every region json_arena_alloc hands out starts on an alignment boundary of
\* its chunk, also behind a block whose own size is no multiple of Align.
THEOREM AllocationsAligned == Spec => []RegionsAligned
<1>1. Init => AlignedInv
  BY DEF Init, AlignedInv
<1>2. ArenaInv /\ AlignedInv /\ [Next]_vars => AlignedInv'
  BY AlignedInvNext
<1>3. AlignedInv => RegionsAligned
  BY DEF AlignedInv, RegionsAligned
<1> QED BY <1>1, <1>2, <1>3, ArenaInvariant, PTL DEF Spec

(***************************************************************************)
(* Arena implements RegionStore.                                           *)
(***************************************************************************)

\* The region a block grants next overlaps none it has granted.
LEMMA NextRegionApart ==
  ASSUME NEW chain, NEW h, NEW owner, ChainInv(chain, h, owner),
         NEW regs, RegionInv(chain, regs),
         NEW i \in 1..Len(chain), NEW n \in Size, NEW node \in BOOLEAN,
         NEW s \in regs
  PROVE  ~Store!Overlap(RegionOf(chain[i], n, node), s)
<1> DEFINE r == RegionOf(chain[i], n, node)
<1>1. r.chunk = chain[i].chunk /\ r.off = HeaderSize + chain[i].used
  BY DEF RegionOf
<1>2. s.off \in Nat /\ s.len \in Nat
  BY DEF RegionInv, Region
<1>3. chain[i].used \in Nat /\ HeaderSize \in Nat
  BY BlockFields, LayoutAssumption DEF ChainInv, Size
<1> HIDE DEF r
<1>4. ASSUME s.chunk = r.chunk PROVE s.off + s.len <= r.off
  BY <1>1, <1>4 DEF RegionInv, ChainInv
<1>5. r.off \in Nat
  BY <1>1, <1>3
<1>6. ~Store!Overlap(r, s)
  BY <1>2, <1>4, <1>5 DEF Store!Overlap
<1> QED BY <1>6 DEF r

LEMMA AllocRawGrants ==
  ASSUME ArenaInv, NEW size \in Size, NEW node \in BOOLEAN, AllocRaw(size, node)
  PROVE  Store!Grant
<1> DEFINE n == AlignUp(size)
<1>1. /\ ChainInv(blocks, heap, self)
      /\ RegionInv(blocks, regions)
      /\ current \in 1..Len(blocks)
      /\ blocks \in Seq(Block)
      /\ heap \in [Chunk -> Size]
      /\ n \in Size
  BY AlignUpSize DEF AllocRaw, ArenaInv, TypeOK, Size
<1>2. ChainInv(blocks', heap', self) /\ RegionInv(blocks', regions')
  BY AllocRawInv
<1>3. InCurrent(n, node) \/ InRetained(n, node) \/ InAppended(n, node)
  BY DEF AllocRaw
<1> HIDE DEF n
<1>4. Store!Keeps
  <2>1. heap' = heap
          \/ \E c \in Free : heap' = [heap EXCEPT ![c] = BlockBytes(n, block_size)]
    BY <1>3 DEF InCurrent, InRetained, InAppended
  <2>2. \A c \in Free : c \notin Store!Held
    BY DEF Free, Live, Store!Held
  <2> QED BY <1>1, <2>1, <2>2 DEF Store!Keeps, Store!Held
<1>5. PICK r : /\ regions' = regions \cup {r}
               /\ \A s \in regions : ~Store!Overlap(r, s)
  <2>1. CASE \E i \in 1..Len(blocks) : Bump(blocks, i, n, node)
    BY <1>1, <2>1, NextRegionApart DEF Bump
  <2>2. CASE InAppended(n, node)
    <3>1. PICK c \in Free :
            regions' = regions \cup {RegionOf(Link(NewBlock(c, BlockBytes(n, block_size)))
                                                [Len(blocks) + 1], n, node)}
      BY <2>2 DEF InAppended, Bump
    <3> DEFINE b == NewBlock(c, BlockBytes(n, block_size))
               r == RegionOf(b, n, node)
    <3>2. Link(b)[Len(blocks) + 1] = b
      BY <1>1 DEF Link
    <3>3. regions' = regions \cup {r}
      BY <3>1, <3>2
    <3>4. r.chunk = c
      BY DEF RegionOf, NewBlock
    <3>5. \A s \in regions : s.chunk # c
      <4>1. ASSUME NEW s \in regions PROVE heap[s.chunk] > 0
        <5>1. PICK i \in 1..Len(blocks) : blocks[i].chunk = s.chunk
          BY <1>1 DEF RegionInv
        <5>2. /\ blocks[i].cap \in Size
              /\ heap[s.chunk] = HeaderSize + blocks[i].cap
          BY <1>1, <5>1, BlockFields DEF ChainInv
        <5> QED BY <5>2, LayoutAssumption DEF Size
      <4> QED BY <1>1, <4>1 DEF Free, Live
    <3> HIDE DEF r
    <3> QED BY <3>3, <3>4, <3>5 DEF Store!Overlap
  <2>3. InCurrent(n, node) \/ InRetained(n, node)
          => \E i \in 1..Len(blocks) : Bump(blocks, i, n, node)
    BY <1>1 DEF InCurrent, InRetained
  <2> QED BY <1>3, <2>1, <2>2, <2>3
<1>6. r \in regions'
  BY <1>5
<1>7. Store!Inside(r, heap')
  <2>1. r.off \in Nat /\ r.len \in Nat /\ r.len > 0 /\ r.chunk \in Chunk
    BY <1>2, <1>6 DEF RegionInv, Region
  <2>2. PICK i \in 1..Len(blocks') :
          /\ blocks'[i].chunk = r.chunk
          /\ r.off + r.len <= HeaderSize + blocks'[i].used
    BY <1>2, <1>6 DEF RegionInv
  <2>3. /\ blocks'[i].cap \in Nat /\ blocks'[i].used \in Nat
        /\ blocks'[i].used <= blocks'[i].cap
        /\ HeaderSize + blocks'[i].cap = heap'[r.chunk]
    BY <1>2, <2>2, BlockFields DEF ChainInv, Size
  <2>4. r.off + r.len <= heap'[r.chunk]
    <3>1. \A a, b, c, d, e \in Nat : a + b <= c + d /\ d <= e => a + b <= c + e
      OBVIOUS
    <3>2. HeaderSize \in Nat
      BY LayoutAssumption DEF Size
    <3>3. r.off + r.len <= HeaderSize + blocks'[i].cap
      BY <2>1, <2>2, <2>3, <3>1, <3>2
    <3> QED BY <2>3, <3>3
  <2> QED BY <2>1, <2>4 DEF Store!Inside
<1> QED BY <1>4, <1>5, <1>6, <1>7 DEF Store!Grant

THEOREM StepRefines == ArenaInv /\ [Next]_vars => [Store!Next]_Store!vars
<1> SUFFICES ASSUME ArenaInv, [Next]_vars PROVE [Store!Next]_Store!vars
  OBVIOUS
<1>0. heap \in [Chunk -> Size]
  BY DEF ArenaInv, TypeOK
<1>1. ASSUME NEW arg \in BlockSizeArg, Create(arg) PROVE Store!Acquire
  <2>1. self = NoChunk /\ regions' = regions
    BY <1>1 DEF Create
  <2>2. heap = [c \in Chunk |-> 0]
    BY <2>1 DEF ArenaInv
  <2> QED BY <2>1, <2>2 DEF Store!Acquire, Store!Held
<1>2. CASE CreateFails
  BY <1>0, <1>2 DEF CreateFails, Free, Live, Size, Store!vars
<1>3. ASSUME NEW size \in Request, Alloc(size) PROVE Store!Grant
  BY <1>3, AllocRawGrants, InputAssumption DEF Alloc
<1>4. ASSUME NEW size \in Request, AllocFails(size) PROVE UNCHANGED Store!vars
  BY <1>4 DEF AllocFails, vars, Store!vars
<1>5. CASE NewNode
  <2>1. AllocRaw(NodeSize, TRUE) /\ NodeSize \in Size
    BY <1>5, LayoutAssumption DEF NewNode
  <2>2. Store!Grant
    BY <2>1, AllocRawGrants
  <2> QED BY <2>2 DEF Store!Next
<1>6. CASE Reset
  BY <1>6 DEF Reset, Rewind, Store!Clear, Store!Next
<1>7. CASE Trim
  <2>1. regions' = {} /\ \A c \in Chunk : heap'[c] \in {0, heap[c]}
    BY <1>7 DEF Trim, Rewind
  <2> QED BY <2>1 DEF Store!Clear, Store!Next
<1>8. CASE Destroy
  <2>1. regions' = {} /\ \A c \in Chunk : heap'[c] \in {0, heap[c]}
    BY <1>8 DEF Destroy
  <2> QED BY <2>1 DEF Store!Clear, Store!Next
<1>9. CASE UNCHANGED vars
  BY <1>9 DEF vars, Store!vars
<1> QED
  BY <1>1, <1>2, <1>3, <1>4, <1>5, <1>6, <1>7, <1>8, <1>9 DEF Next, Store!Next

\* The arena keeps every promise of RegionStore, whatever its layout.
THEOREM Refinement == Spec => ImplementsRegionStore
<1>1. Init => Store!Init
  BY DEF Init, Store!Init
<1>2. ArenaInv /\ [Next]_vars => [Store!Next]_Store!vars
  BY StepRefines
<1> QED
  BY <1>1, <1>2, ArenaInvariant, PTL DEF Spec, ImplementsRegionStore, Store!Spec

(***************************************************************************)
(* Reset cycles.                                                           *)
(*                                                                         *)
(* What replays a cycle is the walk: from the block and the offset where   *)
(* the last allocation ended, the size of the next one decides where it    *)
(* goes, whatever has been appended to the chain since.                    *)
(***************************************************************************)

\* n bytes asked for when block i is used up to end go to offset off of j.
Goes(chain, i, end, j, off, n) ==
  \/ /\ j = i
     /\ off = end
     /\ end + n <= HeaderSize + chain[i].cap
  \/ /\ j > i
     /\ off = HeaderSize
     /\ end + n > HeaderSize + chain[i].cap
     /\ n <= chain[j].cap
     /\ \A l \in (i + 1)..(j - 1) : n > chain[l].cap

\* After the first k regions of gs block i is current and used up to end.
At(chain, gs, k, i, end) ==
  IF k = 0 THEN i = 1 /\ end = HeaderSize
           ELSE chain[i].chunk = gs[k].chunk /\ end = gs[k].off + gs[k].len

\* The walk puts r next when i is current and used up to end.
Lands(chain, i, end, r) ==
  \E j \in 1..Len(chain) :
    chain[j].chunk = r.chunk /\ Goes(chain, i, end, j, r.off, r.len)

\* Every region of gs is where the walk puts it.
FirstFit(chain, gs) ==
  \A k \in 1..Len(gs) :
    \E i \in 1..Len(chain), end \in Nat :
      At(chain, gs, k - 1, i, end) /\ Lands(chain, i, end, gs[k])

\* Blocks behind the current one are empty.
Idle(chain, from) == \A i \in 1..Len(chain) : i > from => chain[i].used = 0

\* longer begins with the blocks of chain, but for what they have used.
Stretches(chain, longer) ==
  /\ Len(chain) <= Len(longer)
  /\ \A i \in 1..Len(chain) : /\ longer[i].chunk = chain[i].chunk
                              /\ longer[i].cap = chain[i].cap

ChunksDiffer(chain) ==
  \A i, j \in 1..Len(chain) : chain[i].chunk = chain[j].chunk => i = j

\* The invariant of the histories.
CycleInv ==
  /\ granted \in Seq(Region)
  /\ previous \in Seq(Region)
  /\ self = NoChunk => granted = << >> /\ previous = << >>
  /\ self # NoChunk =>
       /\ FirstFit(blocks, granted)
       /\ FirstFit(blocks, previous)
       /\ At(blocks, granted, Len(granted), current,
             HeaderSize + blocks[current].used)
       /\ Idle(blocks, current)

LEMMA GoesOnce ==
  ASSUME NEW chain \in Seq(Block), NEW i \in 1..Len(chain), NEW end \in Nat,
         NEW n \in Nat, NEW j \in 1..Len(chain), NEW k \in 1..Len(chain),
         NEW p, NEW q, Goes(chain, i, end, j, p, n), Goes(chain, i, end, k, q, n)
  PROVE  j = k /\ p = q
<1>1. /\ HeaderSize \in Nat
      /\ \A l \in 1..Len(chain) : chain[l].cap \in Nat
  BY BlockFields, LayoutAssumption DEF Size
<1>2. ~(j < k)
  <2> SUFFICES ASSUME j < k PROVE FALSE
    OBVIOUS
  <2>1. k > i /\ end + n > HeaderSize + chain[i].cap
        /\ \A l \in (i + 1)..(k - 1) : n > chain[l].cap
    BY <1>1 DEF Goes
  <2>2. j > i /\ n <= chain[j].cap
    BY <1>1, <2>1 DEF Goes
  <2>3. j \in (i + 1)..(k - 1)
    BY <2>1, <2>2
  <2> QED BY <1>1, <2>1, <2>2, <2>3
<1>3. ~(k < j)
  <2> SUFFICES ASSUME k < j PROVE FALSE
    OBVIOUS
  <2>1. j > i /\ end + n > HeaderSize + chain[i].cap
        /\ \A l \in (i + 1)..(j - 1) : n > chain[l].cap
    BY <1>1 DEF Goes
  <2>2. k > i /\ n <= chain[k].cap
    BY <1>1, <2>1 DEF Goes
  <2>3. k \in (i + 1)..(j - 1)
    BY <2>1, <2>2
  <2> QED BY <1>1, <2>1, <2>2, <2>3
<1>4. j = k
  BY <1>2, <1>3
<1> QED BY <1>1, <1>4 DEF Goes

\* The walk is deterministic, so equal sizes go to equal places.
LEMMA SamePlaces ==
  ASSUME NEW chain \in Seq(Block), ChunksDiffer(chain),
         NEW gs \in Seq(Region), NEW ps \in Seq(Region), Len(gs) <= Len(ps),
         FirstFit(chain, gs), FirstFit(chain, ps),
         \A k \in 1..Len(gs) : gs[k].len = ps[k].len,
         NEW m \in 1..Len(gs)
  PROVE  gs[m].chunk = ps[m].chunk /\ gs[m].off = ps[m].off
<1> DEFINE Same(k) == gs[k].chunk = ps[k].chunk /\ gs[k].off = ps[k].off
           T == {k \in Nat : k \in 1..Len(gs) => Same(k)}
<1>0. Len(gs) \in Nat /\ Len(ps) \in Nat
  OBVIOUS
<1>1. 0 \in T
  BY <1>0
<1>2. ASSUME NEW k \in Nat, k \in T PROVE k + 1 \in T
  <2> SUFFICES ASSUME k + 1 \in 1..Len(gs) PROVE Same(k + 1)
    OBVIOUS
  <2>1. k + 1 \in 1..Len(ps) /\ (k + 1) - 1 = k
    BY <1>0
  <2>r. gs[k + 1] \in Region
    OBVIOUS
  <2>2. gs[k + 1].len \in Nat /\ gs[k + 1].len = ps[k + 1].len
    BY <2>r DEF Region
  <2>3. PICK i \in 1..Len(chain), end \in Nat :
          At(chain, gs, k, i, end) /\ Lands(chain, i, end, gs[k + 1])
    BY <2>1 DEF FirstFit
  <2>4. PICK i2 \in 1..Len(chain), end2 \in Nat :
          At(chain, ps, k, i2, end2) /\ Lands(chain, i2, end2, ps[k + 1])
    BY <2>1 DEF FirstFit
  <2>5. i = i2 /\ end = end2
    <3>1. CASE k = 0
      BY <2>3, <2>4, <3>1 DEF At
    <3>2. CASE k # 0
      <4>1. k \in 1..Len(gs)
        BY <1>0, <3>2
      <4>2. Same(k) /\ gs[k].len = ps[k].len
        BY <1>2, <4>1
      <4>3. chain[i].chunk = gs[k].chunk /\ end = gs[k].off + gs[k].len
        BY <2>3, <3>2 DEF At
      <4>4. chain[i2].chunk = ps[k].chunk /\ end2 = ps[k].off + ps[k].len
        BY <2>4, <3>2 DEF At
      <4> QED BY <4>2, <4>3, <4>4 DEF ChunksDiffer
    <3> QED BY <3>1, <3>2
  <2>6. PICK j \in 1..Len(chain) :
          /\ chain[j].chunk = gs[k + 1].chunk
          /\ Goes(chain, i, end, j, gs[k + 1].off, gs[k + 1].len)
    BY <2>3 DEF Lands
  <2>7. PICK j2 \in 1..Len(chain) :
          /\ chain[j2].chunk = ps[k + 1].chunk
          /\ Goes(chain, i, end, j2, ps[k + 1].off, gs[k + 1].len)
    BY <2>2, <2>4, <2>5 DEF Lands
  <2>8. j = j2 /\ gs[k + 1].off = ps[k + 1].off
    BY <2>2, <2>6, <2>7, GoesOnce
  <2> QED BY <2>6, <2>7, <2>8
<1> HIDE DEF T
<1>3. Nat \subseteq T
  BY <1>1, <1>2, NatSetInduction
<1> USE DEF T
<1>4. m \in Nat /\ m \in T
  BY <1>0, <1>3
<1> QED BY <1>4

\* What the walk did on a chain it would do on a longer one.
LEMMA FirstFitKept ==
  ASSUME NEW chain \in Seq(Block), NEW longer \in Seq(Block),
         Stretches(chain, longer), NEW gs \in Seq(Region), FirstFit(chain, gs)
  PROVE  FirstFit(longer, gs)
<1>0. Len(chain) \in Nat /\ Len(longer) \in Nat /\ Len(gs) \in Nat
  OBVIOUS
<1>1. \A i \in 1..Len(chain) : i \in 1..Len(longer)
  BY <1>0 DEF Stretches
<1>2. ASSUME NEW k \in 1..Len(gs)
      PROVE  \E i \in 1..Len(longer), end \in Nat :
               At(longer, gs, k - 1, i, end) /\ Lands(longer, i, end, gs[k])
  <2>1. PICK i \in 1..Len(chain), end \in Nat :
          At(chain, gs, k - 1, i, end) /\ Lands(chain, i, end, gs[k])
    BY DEF FirstFit
  <2>2. At(longer, gs, k - 1, i, end)
    BY <2>1 DEF At, Stretches
  <2>3. PICK j \in 1..Len(chain) :
          /\ chain[j].chunk = gs[k].chunk
          /\ Goes(chain, i, end, j, gs[k].off, gs[k].len)
    BY <2>1 DEF Lands
  <2>4. \A l \in (i + 1)..(j - 1) : l \in 1..Len(chain)
    BY <1>0
  <2>5. Goes(longer, i, end, j, gs[k].off, gs[k].len)
    BY <2>3, <2>4 DEF Goes, Stretches
  <2>6. longer[j].chunk = gs[k].chunk
    BY <2>3 DEF Stretches
  <2>7. Lands(longer, i, end, gs[k])
    BY <1>1, <2>5, <2>6 DEF Lands
  <2> QED BY <1>1, <2>2, <2>7
<1> QED BY <1>2 DEF FirstFit

LEMMA FirstFitGrows ==
  ASSUME NEW chain \in Seq(Block), NEW gs \in Seq(Region), FirstFit(chain, gs),
         NEW i \in 1..Len(chain), NEW end \in Nat,
         At(chain, gs, Len(gs), i, end),
         NEW r \in Region, Lands(chain, i, end, r)
  PROVE  FirstFit(chain, Append(gs, r))
<1> DEFINE hs == Append(gs, r)
<1>1. /\ Len(gs) \in Nat
      /\ Len(hs) = Len(gs) + 1
      /\ hs[Len(gs) + 1] = r
      /\ \A k \in 1..Len(gs) : hs[k] = gs[k]
  OBVIOUS
<1> HIDE DEF hs
<1>2. ASSUME NEW k \in 0..Len(gs), NEW a, NEW b
      PROVE  At(chain, hs, k, a, b) <=> At(chain, gs, k, a, b)
  BY <1>1 DEF At
<1>3. ASSUME NEW k \in 1..Len(hs)
      PROVE  \E a \in 1..Len(chain), b \in Nat :
               At(chain, hs, k - 1, a, b) /\ Lands(chain, a, b, hs[k])
  <2>1. k - 1 \in 0..Len(gs)
    BY <1>1
  <2>2. CASE k = Len(gs) + 1
    <3>1. k - 1 = Len(gs)
      BY <1>1, <2>2
    <3>2. At(chain, hs, k - 1, i, end)
      BY <1>2, <2>1, <3>1
    <3> QED BY <1>1, <2>2, <3>2
  <2>3. CASE k # Len(gs) + 1
    <3>1. k \in 1..Len(gs)
      BY <1>1, <2>3
    <3>2. PICK a \in 1..Len(chain), b \in Nat :
            At(chain, gs, k - 1, a, b) /\ Lands(chain, a, b, gs[k])
      BY <3>1 DEF FirstFit
    <3>3. At(chain, hs, k - 1, a, b)
      BY <1>2, <2>1, <3>2
    <3> QED BY <1>1, <3>1, <3>2, <3>3
  <2> QED BY <2>2, <2>3
<1>4. FirstFit(chain, hs)
  BY <1>3 DEF FirstFit
<1> QED BY <1>4 DEF hs

LEMMA UsedFields ==
  ASSUME NEW chain \in Seq(Block)
  PROVE  /\ Used(chain) \in Seq(Nat)
         /\ Len(Used(chain)) = Len(chain)
         /\ \A i \in 1..Len(chain) : Used(chain)[i] = chain[i].used
<1>1. \A i \in 1..Len(chain) : chain[i].used \in Nat
  BY BlockFields DEF Size
<1>2. Len(chain) \in Nat
  OBVIOUS
<1> QED BY <1>1, <1>2 DEF Used

LEMMA LengthsFields ==
  ASSUME NEW gs \in Seq(Region)
  PROVE  /\ Lengths(gs) \in Seq(Nat)
         /\ Len(Lengths(gs)) = Len(gs)
         /\ \A i \in 1..Len(gs) : Lengths(gs)[i] = gs[i].len
<1>1. \A i \in 1..Len(gs) : gs[i] \in Region
  OBVIOUS
<1>2. \A i \in 1..Len(gs) : gs[i].len \in Nat
  BY <1>1 DEF Region
<1>3. Len(gs) \in Nat
  OBVIOUS
<1> QED BY <1>2, <1>3 DEF Lengths

\* The region an allocation adds is one that was not there.
LEMMA NextRegionNew ==
  ASSUME NEW chain, NEW h, NEW owner, ChainInv(chain, h, owner),
         RegionInv(chain, regions),
         NEW i \in 1..Len(chain), NEW n \in Size, NEW node \in BOOLEAN,
         regions' = regions \cup {RegionOf(chain[i], n, node)}
  PROVE  NewRegion = RegionOf(chain[i], n, node)
<1> DEFINE r == RegionOf(chain[i], n, node)
<1>1. r.chunk = chain[i].chunk /\ r.off = HeaderSize + chain[i].used
  BY DEF RegionOf
<1>2. chain[i].used \in Nat /\ HeaderSize \in Nat
  BY BlockFields, LayoutAssumption DEF ChainInv, Size
<1> HIDE DEF r
<1>3. r \notin regions
  <2> SUFFICES ASSUME r \in regions PROVE FALSE
    OBVIOUS
  <2>1. r.len \in Nat /\ r.len > 0
    BY DEF RegionInv, Region
  <2>2. PICK j \in 1..Len(chain) : /\ chain[j].chunk = r.chunk
                                   /\ r.off + r.len <= HeaderSize + chain[j].used
    BY DEF RegionInv
  <2>3. j = i
    BY <1>1, <2>2 DEF ChainInv
  <2> QED BY <1>1, <1>2, <2>1, <2>2, <2>3
<1>4. regions' = regions \cup {r}
  BY DEF r
<1>5. \A x : x \in regions' /\ x \notin regions <=> x = r
  BY <1>3, <1>4
<1>6. NewRegion = r
  BY <1>5 DEF NewRegion
<1> QED BY <1>6 DEF r

\* The region an allocation added is where the walk from block i of the chain
\* puts it, and the counters grew by its length.
Landed(chain, i, node) ==
  /\ NewRegion \in Region
  /\ NewRegion.node = node
  /\ blocks' \in Seq(Block)
  /\ current' \in 1..Len(blocks')
  /\ Stretches(chain, blocks')
  /\ Lands(blocks', i, HeaderSize + chain[i].used, NewRegion)
  /\ blocks'[current'].chunk = NewRegion.chunk
  /\ NewRegion.off + NewRegion.len = HeaderSize + blocks'[current'].used
  /\ Idle(blocks', current')
  /\ Total(Used(blocks')) = Total(Used(chain)) + NewRegion.len
  /\ total_bytes' = total_bytes + NewRegion.len

LEMMA BumpLands ==
  ASSUME NEW chain, NEW h, NEW owner, ChainInv(chain, h, owner),
         RegionInv(chain, regions),
         NEW i \in 1..Len(chain), NEW j \in 1..Len(chain), Idle(chain, i),
         NEW n \in Size, NEW node \in BOOLEAN,
         n <= chain[j].cap - chain[j].used,
         \/ j = i
         \/ /\ j > i
            /\ n > chain[i].cap - chain[i].used
            /\ \A l \in (i + 1)..(j - 1) : n > chain[l].cap - chain[l].used,
         Bump(chain, j, n, node)
  PROVE  Landed(chain, i, node)
<1> DEFINE r == RegionOf(chain[j], n, node)
<1>1. /\ blocks' = Bumped(chain, j, n)
      /\ current' = j
      /\ total_bytes' = total_bytes + n
      /\ regions' = regions \cup {r}
  BY DEF Bump
<1>2. chain \in Seq(Block)
  BY DEF ChainInv
<1>3. /\ blocks' \in Seq(Block)
      /\ Len(blocks') = Len(chain)
      /\ \A k \in 1..Len(chain) :
           /\ blocks'[k].chunk = chain[k].chunk
           /\ blocks'[k].cap = chain[k].cap
           /\ blocks'[k].used = IF k = j THEN chain[k].used + n
                                         ELSE chain[k].used
  BY <1>1, <1>2, BumpFields
<1>4. NewRegion = r
  BY <1>1, NextRegionNew
<1>5. /\ HeaderSize \in Nat /\ n \in Nat
      /\ \A k \in 1..Len(chain) : /\ chain[k].chunk \in Chunk
                                  /\ chain[k].cap \in Nat
                                  /\ chain[k].used \in Nat
  BY <1>2, BlockFields, LayoutAssumption DEF Size
<1>6. /\ r \in Region
      /\ r.chunk = chain[j].chunk
      /\ r.off = HeaderSize + chain[j].used
      /\ r.len = n
      /\ r.node = node
  BY <1>5 DEF RegionOf, Region
<1> HIDE DEF r
<1>7. Len(chain) \in Nat
  BY <1>2
<1>8. Stretches(chain, blocks')
  BY <1>3, <1>7 DEF Stretches
<1>9. Goes(blocks', i, HeaderSize + chain[i].used, j, r.off, r.len)
  <2>1. CASE j = i
    <3>1. blocks'[i].cap = chain[i].cap /\ n <= chain[i].cap - chain[i].used
      BY <1>3, <2>1
    <3>2. (HeaderSize + chain[i].used) + n <= HeaderSize + chain[i].cap
      BY <1>5, <3>1
    <3>3. r.off = HeaderSize + chain[i].used /\ r.len = n
      BY <1>6, <2>1
    <3> QED BY <2>1, <3>1, <3>2, <3>3, Zenon DEF Goes
  <2>2. CASE j # i
    <3>1. /\ j > i
          /\ n > chain[i].cap - chain[i].used
          /\ \A l \in (i + 1)..(j - 1) : n > chain[l].cap - chain[l].used
      BY <2>2
    <3>2. chain[j].used = 0
      BY <3>1 DEF Idle
    <3>3. r.off = HeaderSize /\ n <= blocks'[j].cap
      BY <1>3, <1>5, <1>6, <3>2
    <3>4. (HeaderSize + chain[i].used) + n > HeaderSize + blocks'[i].cap
      BY <1>3, <1>5, <3>1, SMTT(30)
    <3>5. ASSUME NEW l \in (i + 1)..(j - 1) PROVE n > blocks'[l].cap
      <4>1. l \in 1..Len(chain) /\ l > i
        BY <1>7
      <4>2. chain[l].used = 0
        BY <4>1 DEF Idle
      <4>3. PICK cap \in Nat : cap = chain[l].cap /\ cap = blocks'[l].cap
        BY <1>3, <1>5, <4>1
      <4>4. n > cap - 0
        BY <3>1, <4>2, <4>3, Zenon
      <4> QED BY <1>5, <4>3, <4>4
    <3> QED BY <1>6, <3>1, <3>3, <3>4, <3>5 DEF Goes
  <2> QED BY <2>1, <2>2
<1>10. Lands(blocks', i, HeaderSize + chain[i].used, r)
  BY <1>3, <1>6, <1>9 DEF Lands
<1>11. /\ blocks'[j].chunk = r.chunk
       /\ r.off + r.len = HeaderSize + blocks'[j].used
  BY <1>3, <1>5, <1>6
<1>12. Idle(blocks', j)
  BY <1>3 DEF Idle
<1>13. Total(Used(blocks')) = Total(Used(chain)) + n
  <2>1. /\ Used(chain) \in Seq(Nat) /\ Len(Used(chain)) = Len(chain)
        /\ \A k \in 1..Len(chain) : Used(chain)[k] = chain[k].used
    BY <1>2, UsedFields
  <2>2. PICK longer \in Seq(Block) : longer = blocks'
    BY <1>3
  <2>3. /\ Used(longer) \in Seq(Nat) /\ Len(Used(longer)) = Len(longer)
        /\ \A k \in 1..Len(longer) : Used(longer)[k] = longer[k].used
    BY <2>2, UsedFields
  <2>4. \A k \in 1..Len(Used(chain)) :
          Used(longer)[k] = IF k = j THEN Used(chain)[k] + n ELSE Used(chain)[k]
    BY <1>3, <2>1, <2>2, <2>3
  <2>5. Total(Used(longer)) = Total(Used(chain)) + n
    BY <1>3, <1>5, <2>1, <2>2, <2>3, <2>4, TotalRaised
  <2> QED BY <2>2, <2>5
<1> QED
  BY <1>1, <1>3, <1>4, <1>6, <1>8, <1>10, <1>11, <1>12, <1>13 DEF Landed

\* json__arena_alloc_raw follows the walk, wherever it finds the memory.
LEMMA AllocRawLands ==
  ASSUME ArenaInv, Idle(blocks, current),
         NEW size \in Size, NEW node \in BOOLEAN, AllocRaw(size, node)
  PROVE  Landed(blocks, current, node)
<1> DEFINE n == AlignUp(size)
<1>1. /\ ChainInv(blocks, heap, self)
      /\ RegionInv(blocks, regions)
      /\ current \in 1..Len(blocks)
      /\ blocks \in Seq(Block)
      /\ heap \in [Chunk -> Size]
      /\ block_size \in Size /\ block_size > HeaderSize
      /\ n \in Size
  BY AlignUpSize DEF AllocRaw, ArenaInv, TypeOK, Size
<1>2. InCurrent(n, node) \/ InRetained(n, node) \/ InAppended(n, node)
  BY DEF AllocRaw
<1> HIDE DEF n
<1>3. /\ HeaderSize \in Nat /\ n \in Nat /\ Len(blocks) \in Nat
      /\ \A k \in 1..Len(blocks) : blocks[k].cap \in Nat /\ blocks[k].used \in Nat
  BY <1>1, BlockFields, LayoutAssumption DEF Size
<1>4. CASE InCurrent(n, node)
  <2>1. n <= blocks[current].cap - blocks[current].used
        /\ Bump(blocks, current, n, node)
    BY <1>4 DEF InCurrent, Fits
  <2> QED BY <1>1, <2>1, BumpLands
<1>5. CASE InRetained(n, node)
  <2>1. PICK j \in 1..Len(blocks) :
          FirstReusable(j, n) /\ Bump(blocks, j, n, node)
    BY <1>5 DEF InRetained
  <2>2. j > current /\ n <= blocks[j].cap - blocks[j].used
    BY <1>1, <1>3, <2>1 DEF FirstReusable, Reusable, Fits
  <2>3. n > blocks[current].cap - blocks[current].used
    BY <1>1, <1>3, <1>5 DEF InRetained, Fits
  <2>4. ASSUME NEW l \in (current + 1)..(j - 1)
        PROVE  n > blocks[l].cap - blocks[l].used
    <3>1. l \in (current + 1)..Len(blocks) /\ l \in 1..Len(blocks) /\ l < j
      BY <1>1, <1>3
    <3>2. ~Fits(l, n)
      BY <2>1, <3>1 DEF FirstReusable, Reusable
    <3> QED BY <1>3, <3>1, <3>2 DEF Fits
  <2> QED BY <1>1, <2>1, <2>2, <2>3, <2>4, BumpLands
<1>6. CASE InAppended(n, node)
  <2> DEFINE bytes == BlockBytes(n, block_size)
  <2>1. /\ ~Fits(current, n) /\ Reusable(n) = {} /\ ~BlockOverflows(n)
        /\ \E c \in Free :
             /\ heap' = [heap EXCEPT ![c] = bytes]
             /\ Bump(Link(NewBlock(c, bytes)), Len(blocks) + 1, n, node)
    BY <1>6 DEF InAppended
  <2>2. bytes \in Size /\ bytes > 0 /\ bytes >= HeaderSize + n
    BY <1>1, <2>1, BlockBytesCover
  <2> HIDE DEF bytes
  <2>3. PICK c \in Free :
          /\ heap' = [heap EXCEPT ![c] = bytes]
          /\ Bump(Link(NewBlock(c, bytes)), Len(blocks) + 1, n, node)
    BY <2>1
  <2>4. c \in Chunk /\ heap[c] = 0
    BY <1>1 DEF Free, Live, Size
  <2>5. bytes \in Nat /\ bytes >= HeaderSize
    BY <1>3, <2>2 DEF Size
  <2> DEFINE b == NewBlock(c, bytes)
             longer == Append(blocks, b)
             k == Len(blocks) + 1
  <2>6. b \in Block /\ b.used = 0 /\ b.cap = bytes - HeaderSize
    BY <2>2, <2>4, <2>5, NewBlockFields
  <2>7. ChainInv(longer, heap', self)
    BY <1>1, <2>2, <2>3, <2>4, <2>5, LinkChain
  <2>8. RegionInv(longer, regions)
    BY <1>1, <2>6, LinkRegions
  <2>9. Bump(longer, k, n, node)
    BY <2>3 DEF Link
  <2> HIDE DEF b
  <2>10. /\ longer \in Seq(Block) /\ Len(longer) = k /\ longer[k] = b
         /\ \A l \in 1..Len(blocks) : longer[l] = blocks[l]
    BY <1>1, <2>6
  <2> HIDE DEF longer
  <2>11. n <= longer[k].cap - longer[k].used
    BY <1>3, <2>2, <2>5, <2>6, <2>10
  <2>12. n > longer[current].cap - longer[current].used
    BY <1>1, <1>3, <2>1, <2>10 DEF Fits
  <2>13. ASSUME NEW l \in (current + 1)..(k - 1)
         PROVE  n > longer[l].cap - longer[l].used
    <3>1. l \in (current + 1)..Len(blocks) /\ l \in 1..Len(blocks)
      BY <1>1, <1>3
    <3>2. ~Fits(l, n)
      BY <2>1, <3>1 DEF Reusable
    <3> QED BY <1>3, <2>10, <3>1, <3>2 DEF Fits
  <2>14. Idle(longer, current)
    <3>1. ASSUME NEW l \in 1..Len(longer), l > current PROVE longer[l].used = 0
      <4>1. CASE l = k
        BY <2>6, <2>10, <4>1
      <4>2. CASE l # k
        <5>1. l \in 1..Len(blocks)
          BY <1>3, <2>10, <4>2
        <5> QED BY <2>10, <3>1, <5>1 DEF Idle
      <4> QED BY <4>1, <4>2
    <3> QED BY <3>1 DEF Idle
  <2>15. current \in 1..Len(longer) /\ k \in 1..Len(longer) /\ k > current
    BY <1>1, <1>3, <2>10
  <2>16. Landed(longer, current, node)
    <3> HIDE DEF k
    <3> QED BY <1>1, <2>7, <2>8, <2>9, <2>11, <2>12, <2>13, <2>14, <2>15, BumpLands
  <2>17. Stretches(blocks, longer)
    BY <1>3, <2>10 DEF Stretches
  <2>18. Total(Used(longer)) = Total(Used(blocks))
    <3>1. /\ Used(blocks) \in Seq(Nat) /\ Len(Used(blocks)) = Len(blocks)
          /\ \A l \in 1..Len(blocks) : Used(blocks)[l] = blocks[l].used
      BY <1>1, UsedFields
    <3>2. /\ Used(longer) \in Seq(Nat) /\ Len(Used(longer)) = Len(longer)
          /\ \A l \in 1..Len(longer) : Used(longer)[l] = longer[l].used
      BY <2>10, UsedFields
    <3>3. Len(Used(longer)) = Len(Used(blocks)) + 1
      BY <2>10, <3>1, <3>2
    <3>4. ASSUME NEW l \in 1..Len(Used(blocks))
          PROVE  Used(longer)[l] = Used(blocks)[l]
      <4>1. l \in 1..Len(blocks) /\ l \in 1..Len(longer)
        BY <1>3, <2>10, <3>1
      <4> QED BY <2>10, <3>1, <3>2, <4>1
    <3>5. Used(longer)[Len(Used(longer))] = 0
      BY <1>3, <2>6, <2>10, <3>2
    <3>6. Total(Used(longer)) = Total(Used(blocks)) + Used(longer)[Len(Used(longer))]
      BY <3>1, <3>2, <3>3, <3>4, TotalAppended
    <3>7. Total(Used(blocks)) \in Nat
      BY <3>1, TotalNat
    <3> QED BY <3>5, <3>6, <3>7
  <2>19. longer[current].used = blocks[current].used
    BY <1>1, <2>10
  <2>20. Stretches(blocks, blocks')
    <3>1. Stretches(longer, blocks') /\ blocks' \in Seq(Block)
      BY <2>16 DEF Landed
    <3> QED BY <1>3, <2>10, <2>17, <3>1 DEF Stretches
  <2> QED BY <2>16, <2>18, <2>19, <2>20 DEF Landed
<1> QED BY <1>2, <1>4, <1>5, <1>6

LEMMA PlacesFields ==
  ASSUME NEW gs \in Seq(Region)
  PROVE  /\ Places(gs) \in Seq(Chunk \X Nat)
         /\ Len(Places(gs)) = Len(gs)
         /\ \A i \in 1..Len(gs) : Places(gs)[i] = <<gs[i].chunk, gs[i].off>>
<1>1. \A i \in 1..Len(gs) : gs[i] \in Region
  OBVIOUS
<1>2. \A i \in 1..Len(gs) : <<gs[i].chunk, gs[i].off>> \in Chunk \X Nat
  BY <1>1 DEF Region
<1>3. Len(gs) \in Nat
  OBVIOUS
<1> QED BY <1>2, <1>3 DEF Places

\* A prefix agrees with the sequence, and what agrees is a prefix.
LEMMA PrefixAgrees ==
  ASSUME NEW S, NEW s \in Seq(S), NEW t \in Seq(S), IsPrefix(s, t),
         NEW k \in 1..Len(s)
  PROVE  s[k] = t[k]
<1>1. Len(s) <= Len(t) /\ SubSeq(s, 1, Len(s)) = SubSeq(t, 1, Len(s))
  BY DEF IsPrefix
<1>2. SubSeq(s, 1, Len(s))[k] = s[k]
  OBVIOUS
<1>3. SubSeq(t, 1, Len(s))[k] = t[k]
  BY <1>1
<1> QED BY <1>1, <1>2, <1>3

LEMMA AgreeingPrefix ==
  ASSUME NEW S, NEW s \in Seq(S), NEW t \in Seq(S), Len(s) <= Len(t),
         \A k \in 1..Len(s) : s[k] = t[k]
  PROVE  IsPrefix(s, t)
<1> DEFINE a == SubSeq(s, 1, Len(s))
           b == SubSeq(t, 1, Len(s))
<1>1. a \in Seq(S) /\ b \in Seq(S) /\ Len(a) = Len(s) /\ Len(b) = Len(s)
  OBVIOUS
<1>2. \A k \in 1..Len(s) : a[k] = s[k] /\ b[k] = t[k]
  OBVIOUS
<1> HIDE DEF a, b
<1>3. a = b
  BY <1>1, <1>2, SeqEqual
<1> QED BY <1>3 DEF IsPrefix, a, b

LEMMA NothingCounted ==
  Total(Used(<< >>)) = 0 /\ Total(Lengths(<< >>)) = 0
                         /\ 0 = Cardinality(NodesOf(<< >>))
<1>1. Used(<< >>) \in Seq(Nat) /\ Len(Used(<< >>)) = 0
  <2>1. << >> \in Seq(Block) /\ Len(<< >>) = 0
    OBVIOUS
  <2> QED BY <2>1, UsedFields
<1>2. Lengths(<< >>) \in Seq(Nat) /\ Len(Lengths(<< >>)) = 0
  <2>1. << >> \in Seq(Region) /\ Len(<< >>) = 0
    OBVIOUS
  <2> QED BY <2>1, LengthsFields
<1>3. NodesOf(<< >>) = {}
  BY DEF NodesOf
<1>4. Cardinality(NodesOf(<< >>)) = 0
  BY <1>3, FS_EmptySet
<1>5. ASSUME NEW s \in Seq(Nat), Len(s) = 0 PROVE Total(s) = 0
  <2>1. 1..Len(s) = {}
    BY <1>5
  <2>2. \A j \in 1..Len(s) : s[j] = 0
    BY <2>1
  <2> QED BY <2>2, TotalZero
<1>6. Total(Used(<< >>)) = 0
  BY <1>1, <1>5
<1>7. Total(Lengths(<< >>)) = 0
  BY <1>2, <1>5
<1> QED BY <1>4, <1>6, <1>7

\* json_arena_reset keeps the blocks of the chain and empties them.
LEMMA RewindKeeps ==
  ASSUME NEW chain \in Seq(Block), chain # << >>, Rewind(chain)
  PROVE  /\ blocks' \in Seq(Block)
         /\ Len(blocks') = Len(chain)
         /\ Len(chain) \in Nat \ {0}
         /\ \A i \in 1..Len(chain) : /\ blocks'[i].chunk = chain[i].chunk
                                     /\ blocks'[i].cap = chain[i].cap
                                     /\ blocks'[i].used = 0
         /\ current' = 1
<1>1. /\ blocks' = [i \in 1..Len(chain) |-> [chain[i] EXCEPT !.used = 0]]
      /\ current' = 1
  BY DEF Rewind
<1>2. \A i \in 1..Len(chain) : chain[i] \in Block
  OBVIOUS
<1>3. 0 \in Size
  BY AlignAssumption DEF Size
<1>4. \A i \in 1..Len(chain) : /\ [chain[i] EXCEPT !.used = 0] \in Block
                               /\ [chain[i] EXCEPT !.used = 0].chunk = chain[i].chunk
                               /\ [chain[i] EXCEPT !.used = 0].cap = chain[i].cap
                               /\ [chain[i] EXCEPT !.used = 0].used = 0
  BY <1>2, <1>3 DEF Block
<1>5. Len(chain) \in Nat \ {0}
  OBVIOUS
<1>6. blocks' \in Seq(Block) /\ Len(blocks') = Len(chain)
  BY <1>1, <1>4, <1>5
<1> QED BY <1>1, <1>4, <1>5, <1>6

\* At the beginning of a cycle the walk is at the first block.
LEMMA CycleBegins ==
  ASSUME NEW chain \in Seq(Block), Len(chain) # 0,
         \A i \in 1..Len(chain) : chain[i].used = 0
  PROVE  /\ FirstFit(chain, << >>)
         /\ At(chain, << >>, Len(<< >>), 1, HeaderSize + chain[1].used)
         /\ Idle(chain, 1)
         /\ Total(Used(chain)) = 0
         /\ Total(Lengths(<< >>)) = 0
         /\ Cardinality(NodesOf(<< >>)) = 0
<1>1. /\ Used(chain) \in Seq(Nat) /\ Len(Used(chain)) = Len(chain)
      /\ \A i \in 1..Len(chain) : Used(chain)[i] = chain[i].used
  BY UsedFields
<1>2. Total(Used(chain)) = 0
  BY <1>1, TotalZero
<1>3. Len(<< >>) = 0
  OBVIOUS
<1>8. chain[1].used = 0 /\ HeaderSize \in Nat
  BY LayoutAssumption DEF Size
<1>9. HeaderSize + chain[1].used = HeaderSize
  BY <1>8
<1>10. At(chain, << >>, Len(<< >>), 1, HeaderSize + chain[1].used)
  BY <1>3, <1>9 DEF At
<1>11. FirstFit(chain, << >>)
  BY <1>3 DEF FirstFit
<1> QED BY <1>2, <1>10, <1>11, NothingCounted DEF Idle

LEMMA CreateBegins ==
  ASSUME ArenaInv, NEW arg \in BlockSizeArg, Create(arg)
  PROVE  /\ blocks' \in Seq(Block)
         /\ Len(blocks') # 0
         /\ \A i \in 1..Len(blocks') : blocks'[i].used = 0
         /\ current' = 1
<1>1. ArenaInv'
  <2>1. Next
    BY DEF Next
  <2> QED BY <2>1, ArenaInvNext
<1>2. blocks' \in Seq(Block)
  BY <1>1 DEF ArenaInv, TypeOK
<1>3. current' = 1 /\ \E c, n : blocks' = <<NewBlock(c, n)>>
  BY DEF Create
<1>4. PICK c, n : blocks' = <<NewBlock(c, n)>>
  BY <1>3
<1>5. Len(blocks') = 1 /\ blocks'[1].used = 0
  BY <1>4 DEF NewBlock
<1> QED BY <1>2, <1>3, <1>5

LEMMA CycleStepIsStep == [CycleNext]_cycleVars => [Next]_vars
  BY DEF CycleNext, cycleVars, Next, Grants, Begins, Fails

THEOREM CycleInvNext ==
  ArenaInv /\ CycleInv /\ [CycleNext]_cycleVars => CycleInv'
<1> SUFFICES ASSUME ArenaInv, CycleInv, [CycleNext]_cycleVars PROVE CycleInv'
  OBVIOUS
<1>0. ArenaInv'
  BY CycleStepIsStep, ArenaInvNext
<1>1. granted \in Seq(Region) /\ previous \in Seq(Region) /\ blocks \in Seq(Block)
  BY DEF CycleInv, ArenaInv, TypeOK
<1>2. self # NoChunk =>
        /\ FirstFit(blocks, granted) /\ FirstFit(blocks, previous)
        /\ At(blocks, granted, Len(granted), current,
              HeaderSize + blocks[current].used)
        /\ Idle(blocks, current)
        /\ current \in 1..Len(blocks)
        /\ blocks # << >>
  BY DEF CycleInv, ArenaInv, ChainInv
<1>3. ASSUME NEW size \in Size, NEW node \in BOOLEAN, AllocRaw(size, node),
             granted' = Append(granted, NewRegion), previous' = previous
      PROVE  CycleInv'
  <2>1. self # NoChunk /\ self' = self
    BY <1>3 DEF AllocRaw
  <2>2. Landed(blocks, current, node)
    BY <1>2, <1>3, <2>1, AllocRawLands
  <2>3. PICK r \in Region : r = NewRegion
    BY <2>2 DEF Landed
  <2>4. /\ blocks' \in Seq(Block)
        /\ current' \in 1..Len(blocks')
        /\ Stretches(blocks, blocks')
        /\ Lands(blocks', current, HeaderSize + blocks[current].used, r)
        /\ blocks'[current'].chunk = r.chunk
        /\ r.off + r.len = HeaderSize + blocks'[current'].used
        /\ Idle(blocks', current')
    BY <2>2, <2>3 DEF Landed
  <2>5. granted' = Append(granted, r) /\ granted' \in Seq(Region)
    BY <1>1, <1>3, <2>3
  <2>6. PICK chain \in Seq(Block) : chain = blocks'
    BY <2>4
  <2>7. FirstFit(chain, granted) /\ FirstFit(chain, previous)
    BY <1>1, <1>2, <2>1, <2>4, <2>6, FirstFitKept
  <2>8. PICK end \in Nat : end = HeaderSize + blocks[current].used
    BY <1>1, <1>2, <2>1, BlockFields, LayoutAssumption DEF Size
  <2>9. current \in 1..Len(chain) /\ chain[current].chunk = blocks[current].chunk
    BY <1>1, <1>2, <2>1, <2>4, <2>6 DEF Stretches
  <2>10. At(chain, granted, Len(granted), current, end)
    BY <1>2, <2>1, <2>8, <2>9 DEF At
  <2>11. Lands(chain, current, end, r)
    BY <2>4, <2>6, <2>8
  <2>12. FirstFit(chain, Append(granted, r))
    BY <1>1, <2>7, <2>9, <2>10, <2>11, FirstFitGrows
  <2>13. At(chain, Append(granted, r), Len(Append(granted, r)), current',
            HeaderSize + chain[current'].used)
    <3>1. /\ Len(Append(granted, r)) = Len(granted) + 1
          /\ Len(granted) + 1 # 0
          /\ Append(granted, r)[Len(granted) + 1] = r
      BY <1>1
    <3>2. /\ chain[current'].chunk = r.chunk
          /\ HeaderSize + chain[current'].used = r.off + r.len
      BY <2>4, <2>6
    <3> QED BY <3>1, <3>2 DEF At
  <2>14. Idle(chain, current')
    BY <2>4, <2>6
  <2> QED
    BY <1>1, <1>3, <2>1, <2>5, <2>6, <2>7, <2>12, <2>13, <2>14 DEF CycleInv
<1>4. ASSUME blocks' \in Seq(Block), Len(blocks') # 0,
             \A i \in 1..Len(blocks') : blocks'[i].used = 0, current' = 1,
             granted' = << >>, previous' \in Seq(Region),
             FirstFit(blocks', previous'), self' # NoChunk
      PROVE  CycleInv'
  <2>1. PICK chain \in Seq(Block) : chain = blocks'
    BY <1>4
  <2>2. /\ FirstFit(chain, << >>)
        /\ At(chain, << >>, Len(<< >>), 1, HeaderSize + chain[1].used)
        /\ Idle(chain, 1)
    BY <1>4, <2>1, CycleBegins
  <2>3. << >> \in Seq(Region)
    OBVIOUS
  <2> QED BY <1>4, <2>1, <2>2, <2>3 DEF CycleInv
<1>5. ASSUME NEW size \in Request, Grants(Alloc(size)) PROVE CycleInv'
  BY <1>3, <1>5, InputAssumption DEF Grants, Alloc
<1>6. CASE Grants(NewNode)
  BY <1>3, <1>6, LayoutAssumption DEF Grants, NewNode
<1>7. CASE Begins(Reset, granted)
  <2>1. /\ self # NoChunk /\ self' = self /\ Rewind(blocks)
        /\ granted' = << >> /\ previous' = granted
    BY <1>7 DEF Begins, Reset
  <2>2. /\ blocks' \in Seq(Block)
        /\ Len(blocks') = Len(blocks)
        /\ Len(blocks) \in Nat \ {0}
        /\ \A i \in 1..Len(blocks) : /\ blocks'[i].chunk = blocks[i].chunk
                                     /\ blocks'[i].cap = blocks[i].cap
                                     /\ blocks'[i].used = 0
        /\ current' = 1
    BY <1>1, <1>2, <2>1, RewindKeeps
  <2>3. PICK chain \in Seq(Block) : chain = blocks'
    BY <2>2
  <2>4. Stretches(blocks, chain)
    BY <2>2, <2>3 DEF Stretches
  <2>5. FirstFit(chain, granted)
    BY <1>1, <1>2, <2>1, <2>4, FirstFitKept
  <2> QED BY <1>1, <1>4, <2>1, <2>2, <2>3, <2>5
<1>8. CASE Begins(Trim, << >>)
  <2> DEFINE first == SubSeq(blocks, 1, 1)
  <2>1. /\ self # NoChunk /\ self' = self /\ Rewind(first)
        /\ granted' = << >> /\ previous' = << >>
    BY <1>8 DEF Begins, Trim
  <2>2. first \in Seq(Block) /\ first # << >>
    BY <1>1, <1>2, <2>1
  <2> HIDE DEF first
  <2>3. /\ blocks' \in Seq(Block)
        /\ Len(blocks') = Len(first)
        /\ Len(first) \in Nat \ {0}
        /\ \A i \in 1..Len(first) : blocks'[i].used = 0
        /\ current' = 1
    BY <2>1, <2>2, RewindKeeps
  <2>4. FirstFit(blocks', previous') /\ previous' \in Seq(Region)
    BY <2>1 DEF FirstFit
  <2> QED BY <1>4, <2>1, <2>3, <2>4
<1>9. ASSUME NEW arg \in BlockSizeArg, Begins(Create(arg), << >>) PROVE CycleInv'
  <2>1. Create(arg) /\ granted' = << >> /\ previous' = << >>
    BY <1>9 DEF Begins
  <2>2. /\ blocks' \in Seq(Block)
        /\ Len(blocks') # 0
        /\ \A i \in 1..Len(blocks') : blocks'[i].used = 0
        /\ current' = 1
    BY <2>1, CreateBegins
  <2>3. FirstFit(blocks', previous') /\ previous' \in Seq(Region)
    BY <2>1 DEF FirstFit
  <2>4. self' # NoChunk
    BY <2>1, ChunkAssumption DEF Create, Free
  <2> QED BY <1>4, <2>1, <2>2, <2>3, <2>4
<1>10. CASE Begins(Destroy, << >>)
  <2>1. self' = NoChunk /\ granted' = << >> /\ previous' = << >>
    BY <1>10 DEF Begins, Destroy
  <2>2. << >> \in Seq(Region)
    OBVIOUS
  <2> QED BY <2>1, <2>2 DEF CycleInv
<1>11. CASE UNCHANGED <<self, blocks, current, granted, previous>>
  BY <1>11 DEF CycleInv
<1>12. CASE Fails(CreateFails)
  BY <1>11, <1>12 DEF Fails, CreateFails
<1>13. ASSUME NEW size \in Request, Fails(AllocFails(size)) PROVE CycleInv'
  BY <1>11, <1>13 DEF Fails, AllocFails, vars
<1>14. CASE UNCHANGED cycleVars
  BY <1>11, <1>14 DEF cycleVars, vars
<1> QED
  BY <1>5, <1>6, <1>7, <1>8, <1>9, <1>10, <1>12, <1>13, <1>14 DEF CycleNext

THEOREM CycleInvariant == CycleSpec => [](ArenaInv /\ CycleInv)
<1>1. CycleInit => ArenaInv /\ CycleInv
  <2>1. CycleInit => ArenaInv
    BY ArenaInvInit DEF CycleInit
  <2>2. << >> \in Seq(Region)
    OBVIOUS
  <2> QED BY <2>1, <2>2 DEF CycleInit, Init, CycleInv
<1>2. ArenaInv /\ CycleInv /\ [CycleNext]_cycleVars => (ArenaInv /\ CycleInv)'
  BY CycleStepIsStep, ArenaInvNext, CycleInvNext
<1> QED BY <1>1, <1>2, PTL DEF CycleSpec

\* A cycle that asks again for what the one before asked for gets the very
\* same places, so it needs no new block: docs/testing.md, of json_arena_reset
\* and json__arena_alloc_raw.
THEOREM CyclesReplay == CycleSpec => []ReplayInPlace
<1>1. ASSUME ArenaInv, CycleInv, Replaying
      PROVE  IsPrefix(Places(granted), Places(previous))
  <2>1. /\ granted \in Seq(Region) /\ previous \in Seq(Region)
        /\ blocks \in Seq(Block)
        /\ FirstFit(blocks, granted) /\ FirstFit(blocks, previous)
        /\ IsPrefix(Lengths(granted), Lengths(previous))
    BY <1>1 DEF CycleInv, ArenaInv, TypeOK, Replaying
  <2>2. ChunksDiffer(blocks)
    BY <1>1 DEF Replaying, ArenaInv, ChainInv, ChunksDiffer
  <2>3. Len(granted) \in Nat /\ Len(previous) \in Nat
    BY <2>1
  <2>4. /\ Lengths(granted) \in Seq(Nat) /\ Len(Lengths(granted)) = Len(granted)
        /\ \A k \in 1..Len(granted) : Lengths(granted)[k] = granted[k].len
    BY <2>1, LengthsFields
  <2>5. /\ Lengths(previous) \in Seq(Nat) /\ Len(Lengths(previous)) = Len(previous)
        /\ \A k \in 1..Len(previous) : Lengths(previous)[k] = previous[k].len
    BY <2>1, LengthsFields
  <2>6. Len(granted) <= Len(previous)
    BY <2>1, <2>4, <2>5 DEF IsPrefix
  <2>7. ASSUME NEW k \in 1..Len(granted) PROVE granted[k].len = previous[k].len
    <3>1. k \in 1..Len(previous)
      BY <2>3, <2>6
    <3>2. Lengths(granted)[k] = Lengths(previous)[k]
      BY <2>1, <2>4, <2>5, PrefixAgrees
    <3> QED BY <2>4, <2>5, <3>1, <3>2
  <2>8. \A k \in 1..Len(granted) : /\ granted[k].chunk = previous[k].chunk
                                   /\ granted[k].off = previous[k].off
    BY <2>1, <2>2, <2>6, <2>7, SamePlaces
  <2> DEFINE S == Chunk \X Nat
  <2>9. /\ Places(granted) \in Seq(S) /\ Len(Places(granted)) = Len(granted)
        /\ \A k \in 1..Len(granted) :
             Places(granted)[k] = <<granted[k].chunk, granted[k].off>>
    BY <2>1, PlacesFields
  <2>10. /\ Places(previous) \in Seq(S) /\ Len(Places(previous)) = Len(previous)
         /\ \A k \in 1..Len(previous) :
              Places(previous)[k] = <<previous[k].chunk, previous[k].off>>
    BY <2>1, PlacesFields
  <2>11. ASSUME NEW k \in 1..Len(granted)
         PROVE  Places(granted)[k] = Places(previous)[k]
    <3>1. k \in 1..Len(previous)
      BY <2>3, <2>6
    <3> QED BY <2>8, <2>9, <2>10, <3>1
  <2> HIDE DEF S
  <2> QED BY <2>6, <2>9, <2>10, <2>11, AgreeingPrefix
<1>2. ArenaInv /\ CycleInv => ReplayInPlace
  BY <1>1 DEF ReplayInPlace
<1> QED BY <1>2, CycleInvariant, PTL

LEMMA CountsGrow ==
  ASSUME NEW gs \in Seq(Region), NEW r \in Region
  PROVE  /\ Total(Lengths(Append(gs, r))) = Total(Lengths(gs)) + r.len
         /\ Cardinality(NodesOf(Append(gs, r)))
              = Cardinality(NodesOf(gs)) + (IF r.node THEN 1 ELSE 0)
<1> DEFINE hs == Append(gs, r)
           m == Len(gs)
<1>1. /\ hs \in Seq(Region) /\ m \in Nat /\ Len(hs) = m + 1 /\ hs[m + 1] = r
      /\ \A k \in 1..m : hs[k] = gs[k]
  OBVIOUS
<1> HIDE DEF hs
<1>2. /\ Lengths(gs) \in Seq(Nat) /\ Len(Lengths(gs)) = Len(gs)
      /\ \A k \in 1..Len(gs) : Lengths(gs)[k] = gs[k].len
  BY LengthsFields
<1>3. /\ Lengths(hs) \in Seq(Nat) /\ Len(Lengths(hs)) = Len(hs)
      /\ \A k \in 1..Len(hs) : Lengths(hs)[k] = hs[k].len
  BY <1>1, LengthsFields
<1>4. Len(Lengths(hs)) = Len(Lengths(gs)) + 1
  BY <1>1, <1>2, <1>3
<1>5. ASSUME NEW k \in 1..Len(Lengths(gs)) PROVE Lengths(hs)[k] = Lengths(gs)[k]
  <2>1. k \in 1..m /\ k \in 1..Len(hs)
    BY <1>1, <1>2
  <2> QED BY <1>1, <1>2, <1>3, <2>1
<1>6. Lengths(hs)[Len(Lengths(hs))] = r.len
  BY <1>1, <1>3
<1>7. Total(Lengths(hs)) = Total(Lengths(gs)) + r.len
  BY <1>2, <1>3, <1>4, <1>5, <1>6, TotalAppended
<1>8. IsFiniteSet(NodesOf(gs))
  <2>1. IsFiniteSet(1..m) /\ NodesOf(gs) \subseteq 1..m
    BY <1>1, FS_Interval DEF NodesOf
  <2> QED BY <2>1, FS_Subset
<1>9. Cardinality(NodesOf(gs)) \in Nat
  BY <1>8, FS_CardinalityType
<1>10. CASE r.node
  <2>1. NodesOf(hs) = NodesOf(gs) \cup {m + 1}
    BY <1>1, <1>10 DEF NodesOf
  <2>2. m + 1 \notin NodesOf(gs)
    BY <1>1 DEF NodesOf
  <2>3. Cardinality(NodesOf(hs)) = Cardinality(NodesOf(gs)) + 1
    BY <1>8, <2>1, <2>2, FS_AddElement
  <2> QED BY <1>7, <1>10, <2>3 DEF hs
<1>11. CASE ~r.node
  <2>1. NodesOf(hs) = NodesOf(gs)
    BY <1>1, <1>11 DEF NodesOf
  <2> QED BY <1>7, <1>9, <1>11, <2>1 DEF hs
<1> QED BY <1>10, <1>11

THEOREM CountersNext ==
  /\ ArenaInv /\ CycleInv /\ CountersAccounted
  /\ [CycleNext]_cycleVars
  => CountersAccounted'
<1> SUFFICES ASSUME ArenaInv, CycleInv, CountersAccounted, [CycleNext]_cycleVars
             PROVE  CountersAccounted'
  OBVIOUS
<1>1. /\ total_bytes = Total(Used(blocks))
      /\ total_bytes = Total(Lengths(granted))
      /\ node_count = Cardinality(NodesOf(granted))
      /\ granted \in Seq(Region)
      /\ blocks \in Seq(Block)
      /\ node_count \in Nat
      /\ self # NoChunk => Idle(blocks, current) /\ blocks # << >>
  BY DEF CountersAccounted, CycleInv, ArenaInv, ChainInv, TypeOK
<1>2. ASSUME NEW size \in Size, NEW node \in BOOLEAN, AllocRaw(size, node),
             node_count' = node_count + (IF node THEN 1 ELSE 0),
             granted' = Append(granted, NewRegion)
      PROVE  CountersAccounted'
  <2>1. Landed(blocks, current, node)
    BY <1>1, <1>2, AllocRawLands DEF AllocRaw
  <2>2. PICK r \in Region : r = NewRegion
    BY <2>1 DEF Landed
  <2>3. /\ r.node = node
        /\ Total(Used(blocks')) = Total(Used(blocks)) + r.len
        /\ total_bytes' = total_bytes + r.len
    BY <2>1, <2>2 DEF Landed
  <2>4. PICK gs \in Seq(Region) : gs = granted
    BY <1>1
  <2>5. /\ Total(Lengths(Append(gs, r))) = Total(Lengths(gs)) + r.len
        /\ Cardinality(NodesOf(Append(gs, r)))
             = Cardinality(NodesOf(gs)) + (IF r.node THEN 1 ELSE 0)
    BY CountsGrow
  <2>6. granted' = Append(gs, r)
    BY <1>2, <2>2, <2>4
  <2> QED BY <1>1, <1>2, <2>3, <2>4, <2>5, <2>6 DEF CountersAccounted
<1>3. ASSUME blocks' \in Seq(Block), Len(blocks') # 0,
             \A i \in 1..Len(blocks') : blocks'[i].used = 0,
             granted' = << >>, total_bytes' = 0, node_count' = 0
      PROVE  CountersAccounted'
  <2>1. PICK chain \in Seq(Block) : chain = blocks'
    BY <1>3
  <2>2. /\ Total(Used(chain)) = 0
        /\ Total(Lengths(<< >>)) = 0
        /\ Cardinality(NodesOf(<< >>)) = 0
    BY <1>3, <2>1, CycleBegins
  <2> QED BY <1>3, <2>1, <2>2 DEF CountersAccounted
<1>4. ASSUME NEW size \in Request, Grants(Alloc(size)) PROVE CountersAccounted'
  <2>1. /\ AllocRaw(size, FALSE) /\ node_count' = node_count /\ size \in Size
        /\ granted' = Append(granted, NewRegion)
    BY <1>4, InputAssumption DEF Grants, Alloc
  <2>2. node_count' = node_count + (IF FALSE THEN 1 ELSE 0)
    BY <1>1, <2>1
  <2> QED BY <1>2, <2>1, <2>2
<1>5. CASE Grants(NewNode)
  <2>1. /\ AllocRaw(NodeSize, TRUE) /\ node_count' = node_count + 1
        /\ NodeSize \in Size
        /\ granted' = Append(granted, NewRegion)
    BY <1>5, LayoutAssumption DEF Grants, NewNode
  <2>2. node_count' = node_count + (IF TRUE THEN 1 ELSE 0)
    BY <2>1
  <2> QED BY <1>2, <2>1, <2>2
<1>6. CASE Begins(Reset, granted)
  <2>1. self # NoChunk /\ Rewind(blocks) /\ granted' = << >>
    BY <1>6 DEF Begins, Reset
  <2>2. total_bytes' = 0 /\ node_count' = 0
    BY <2>1 DEF Rewind
  <2>3. /\ blocks' \in Seq(Block)
        /\ Len(blocks') = Len(blocks)
        /\ Len(blocks) \in Nat \ {0}
        /\ \A i \in 1..Len(blocks) : blocks'[i].used = 0
    BY <1>1, <2>1, RewindKeeps
  <2> QED BY <1>3, <2>1, <2>2, <2>3
<1>7. CASE Begins(Trim, << >>)
  <2> DEFINE first == SubSeq(blocks, 1, 1)
  <2>1. self # NoChunk /\ Rewind(first) /\ granted' = << >>
    BY <1>7 DEF Begins, Trim
  <2>2. total_bytes' = 0 /\ node_count' = 0
    BY <2>1 DEF Rewind
  <2>3. first \in Seq(Block) /\ first # << >>
    BY <1>1, <2>1
  <2> HIDE DEF first
  <2>4. /\ blocks' \in Seq(Block)
        /\ Len(blocks') = Len(first)
        /\ Len(first) \in Nat \ {0}
        /\ \A i \in 1..Len(first) : blocks'[i].used = 0
    BY <2>1, <2>3, RewindKeeps
  <2> QED BY <1>3, <2>1, <2>2, <2>4
<1>8. ASSUME NEW arg \in BlockSizeArg, Begins(Create(arg), << >>)
      PROVE  CountersAccounted'
  <2>1. Create(arg) /\ granted' = << >>
    BY <1>8 DEF Begins
  <2>2. /\ blocks' \in Seq(Block)
        /\ Len(blocks') # 0
        /\ \A i \in 1..Len(blocks') : blocks'[i].used = 0
    BY <2>1, CreateBegins
  <2>3. self = NoChunk /\ total_bytes' = total_bytes /\ node_count' = node_count
    BY <2>1 DEF Create
  <2>4. granted = << >>
    BY <2>3 DEF CycleInv
  <2>5. total_bytes = 0 /\ node_count = 0
    BY <1>1, <2>4, NothingCounted
  <2> QED BY <1>3, <2>1, <2>2, <2>3, <2>5
<1>9. CASE Begins(Destroy, << >>)
  <2>1. /\ blocks' = << >> /\ total_bytes' = 0 /\ node_count' = 0
        /\ granted' = << >>
    BY <1>9 DEF Begins, Destroy
  <2> QED BY <2>1, NothingCounted DEF CountersAccounted
<1>10. CASE UNCHANGED <<blocks, total_bytes, node_count, granted>>
  BY <1>10 DEF CountersAccounted
<1>11. CASE Fails(CreateFails)
  BY <1>10, <1>11 DEF Fails, CreateFails
<1>12. ASSUME NEW size \in Request, Fails(AllocFails(size))
       PROVE  CountersAccounted'
  BY <1>10, <1>12 DEF Fails, AllocFails, vars
<1>13. CASE UNCHANGED cycleVars
  BY <1>10, <1>13 DEF cycleVars, vars
<1> QED
  BY <1>4, <1>5, <1>6, <1>7, <1>8, <1>9, <1>11, <1>12, <1>13 DEF CycleNext

\* The counters that json__arena_alloc_raw's overflow guard and
\* json__new_node's limit trust are the real totals, after any sequence of
\* allocations, refusals, resets and trims.
THEOREM CountersRight == CycleSpec => []CountersAccounted
<1>1. CycleInit => CountersAccounted
  BY NothingCounted DEF CycleInit, Init, CountersAccounted
<1>2. /\ ArenaInv /\ CycleInv /\ CountersAccounted
      /\ [CycleNext]_cycleVars
      => CountersAccounted'
  BY CountersNext
<1> QED BY <1>1, <1>2, CycleInvariant, PTL DEF CycleSpec
=============================================================================
