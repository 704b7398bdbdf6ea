------------------------------- MODULE Arena -------------------------------
(***************************************************************************)
(* The arena allocator of sJson.c (json_arena_create .. json_arena_alloc   *)
(* and json__new_node).                                                    *)
(*                                                                         *)
(* The blocks the code links through next are a sequence; current is an    *)
(* index into it.  heap is the backing allocator's view: the size of every *)
(* chunk the arena has obtained and not returned (0 for the others), so    *)
(* that a chunk the arena forgets shows as a leak.  regions is a history   *)
(* variable: the memory handed to callers since the last reset.            *)
(*                                                                         *)
(* Offsets count from the start of a chunk, so a region that overlapped a  *)
(* block header would show.  Sizes are size_t: arithmetic that the code    *)
(* does not guard wraps at SizeMax + 1.                                    *)
(***************************************************************************)
EXTENDS Integers, Sequences

CONSTANTS
  Chunk,          \* chunks the backing allocator can hand out
  NoChunk,        \* the NULL arena
  Align,          \* JSON_ARENA_ALIGN
  HeaderSize,     \* json__align_up(sizeof(JsonArenaBlock))
  ArenaSize,      \* sizeof(JsonArena)
  NodeSize,       \* sizeof(JsonValue)
  MinBlock,       \* JSON_ARENA_MIN_BLOCK
  DefaultBlock,   \* 64 KiB
  SizeMax,        \* (size_t)-1
  MaxNodes,       \* JSON_MAX_NODES
  BlockSizeArg,   \* block_size arguments of json_arena_create
  Request         \* size arguments of json_arena_alloc

Size == 0..SizeMax

ASSUME ChunkAssumption == NoChunk \notin Chunk
ASSUME AlignAssumption ==
  /\ Align \in Nat \ {0}
  /\ SizeMax \in Nat
  /\ (SizeMax + 1) % Align = 0
  /\ Align <= SizeMax
ASSUME LayoutAssumption ==
  /\ HeaderSize \in Size /\ ArenaSize \in Size \ {0} /\ NodeSize \in Size \ {0}
  /\ HeaderSize % Align = 0
  /\ HeaderSize > 0
  /\ MinBlock \in Size /\ HeaderSize < MinBlock
  /\ DefaultBlock \in Size /\ MinBlock <= DefaultBlock
  /\ MaxNodes \in Nat
ASSUME InputAssumption == BlockSizeArg \subseteq Size /\ Request \subseteq Size

VARIABLES
  heap,           \* backing allocator: size of each chunk the arena holds
  self,           \* the chunk of the JsonArena struct, NoChunk when there is none
  block_size,     \* arena->block_size
  blocks,         \* the chain from arena->first: records [chunk, cap, used]
  current,        \* index of arena->current in blocks
  total_bytes,    \* arena->total_bytes
  node_count,     \* arena->node_count
  regions         \* history: regions handed out since the last reset

vars == <<heap, self, block_size, blocks, current, total_bytes, node_count,
          regions>>

Block  == [chunk : Chunk, cap : Size, used : Size]
Region == [chunk : Chunk, off : Nat, len : Nat, node : BOOLEAN]

Live == {c \in Chunk : heap[c] > 0}
Free == Chunk \ Live

(***************************************************************************)
(* Sizes.                                                                  *)
(***************************************************************************)

\* Mutant of AlignUp: sizes are not rounded.
AlignUpNot(n) == n

\* json__align_up: the sum wraps, the mask rounds down to a multiple.
AlignUp(n) == Align * (((n + (Align - 1)) % (SizeMax + 1)) \div Align)

\* Mutant of BlockOverflows: the sum may wrap.
BlockOverflowsNot(min_size) == FALSE

\* The guard of json__block_new against wrapping sizes.
BlockOverflows(min_size) ==
  \/ min_size > SizeMax - HeaderSize
  \/ min_size + HeaderSize > SizeMax - (Align - 1)

\* Mutant of BlockBytes: the header is forgotten.
BlockBytesBare(min_size, bsize) ==
  IF min_size > bsize THEN AlignUp(min_size) ELSE bsize

\* The size json__block_new asks the backing allocator for.
BlockBytes(min_size, bsize) ==
  IF min_size + HeaderSize > bsize
    THEN AlignUp(min_size + HeaderSize)
    ELSE bsize

\* The header json__block_new writes into a chunk of n bytes.
NewBlock(c, n) == [chunk |-> c, cap |-> n - HeaderSize, used |-> 0]

\* block_size after json_arena_create's default and minimum.
EffectiveBlockSize(arg) ==
  LET s == IF arg = 0 THEN DefaultBlock ELSE arg
  IN  IF s < MinBlock THEN MinBlock ELSE s

(***************************************************************************)
(* Where an allocation goes.                                               *)
(***************************************************************************)

\* Mutant of Acceptable: total_bytes may wrap.
AcceptableAlways(size) == size # 0 /\ AlignUp(size) >= size

\* The early returns of json__arena_alloc_raw, negated.
Acceptable(size) ==
  /\ size # 0
  /\ AlignUp(size) >= size
  /\ AlignUp(size) <= SizeMax - total_bytes

Fits(i, n) == n <= blocks[i].cap - blocks[i].used

\* The retained blocks behind current that can take n bytes.
Reusable(n) == {i \in (current + 1)..Len(blocks) : Fits(i, n)}

\* Mutant of FirstReusable: the walk goes on to the last one.
LastReusable(i, n) == i \in Reusable(n) /\ \A j \in Reusable(n) : i >= j

\* The walk along next stops at the first of them.
FirstReusable(i, n) == i \in Reusable(n) /\ \A j \in Reusable(n) : i <= j

\* The chain after blk->next = added at its tail.
Link(added) == Append(blocks, added)

\* The region of n bytes block b grants next: it starts at data + used.
RegionOf(b, n, node) ==
  [chunk |-> b.chunk, off |-> HeaderSize + b.used, len |-> n, node |-> node]

\* Mutant of Bumped: used is overwritten.
BumpedFromZero(chain, i, n) == [chain EXCEPT ![i].used = n]

\* The chain after block i has granted n bytes.
Bumped(chain, i, n) == [chain EXCEPT ![i].used = @ + n]

\* Grant n bytes of block i of the chain and make it current.
Bump(chain, i, n, node) ==
  /\ blocks' = Bumped(chain, i, n)
  /\ current' = i
  /\ total_bytes' = total_bytes + n
  /\ regions' = regions \cup {RegionOf(chain[i], n, node)}

InCurrent(n, node) ==
  /\ Fits(current, n)
  /\ Bump(blocks, current, n, node)
  /\ UNCHANGED heap

InRetained(n, node) ==
  /\ ~Fits(current, n)
  /\ \E i \in 1..Len(blocks) :
       FirstReusable(i, n) /\ Bump(blocks, i, n, node)
  /\ UNCHANGED heap

InAppended(n, node) ==
  /\ ~Fits(current, n)
  /\ Reusable(n) = {}
  /\ ~BlockOverflows(n)
  /\ \E c \in Free :
       LET bytes == BlockBytes(n, block_size)
       IN  /\ heap' = [heap EXCEPT ![c] = bytes]
           /\ Bump(Link(NewBlock(c, bytes)), Len(blocks) + 1, n, node)

\* json__arena_alloc_raw when it returns memory.
AllocRaw(size, node) ==
  /\ self # NoChunk
  /\ Acceptable(size)
  /\ LET n == AlignUp(size)
     IN  InCurrent(n, node) \/ InRetained(n, node) \/ InAppended(n, node)
  /\ UNCHANGED <<self, block_size>>

(***************************************************************************)
(* Operations.                                                             *)
(***************************************************************************)

\* json_arena_create: the struct, then the first block.
Create(arg) ==
  /\ self = NoChunk
  /\ LET bsize == EffectiveBlockSize(arg)
         bytes == BlockBytes(0, bsize)
     IN  \E s \in Free : \E c \in Free \ {s} :
           /\ self' = s
           /\ block_size' = bsize
           /\ heap' = [heap EXCEPT ![s] = ArenaSize, ![c] = bytes]
           /\ blocks' = <<NewBlock(c, bytes)>>
           /\ current' = 1
  /\ UNCHANGED <<total_bytes, node_count, regions>>

\* Mutant of CreateFails: the struct is not returned.
CreateFailsLeaking ==
  /\ self = NoChunk
  /\ \E s \in Free : heap' = [heap EXCEPT ![s] = ArenaSize]
  /\ UNCHANGED <<self, block_size, blocks, current, total_bytes, node_count,
                 regions>>

\* json_arena_create when the backing allocator refuses the first block: the
\* struct it had obtained goes back, and no arena exists.
CreateFails ==
  /\ self = NoChunk
  /\ \E s \in Free : LET taken == [heap EXCEPT ![s] = ArenaSize]
                     IN  heap' = [taken EXCEPT ![s] = 0]
  /\ UNCHANGED <<self, block_size, blocks, current, total_bytes, node_count,
                 regions>>

\* json_arena_alloc.
Alloc(size) == AllocRaw(size, FALSE) /\ UNCHANGED node_count

\* json__new_node: the limit, then the allocation, then the count.
NewNode ==
  /\ node_count < MaxNodes
  /\ AllocRaw(NodeSize, TRUE)
  /\ node_count' = node_count + 1

\* An allocation returns NULL: a size the code refuses, or a block the
\* backing allocator refuses.  (The node limit refuses too.)  Nothing moves.
AllocFails(size) ==
  /\ self # NoChunk
  /\ \/ ~Acceptable(size)
     \/ ~Fits(current, AlignUp(size)) /\ Reusable(AlignUp(size)) = {}
  /\ UNCHANGED vars

\* Mutant of Rewind: the node count is not reset.
RewindAllButNodes(chain) ==
  /\ blocks' = [i \in 1..Len(chain) |-> [chain[i] EXCEPT !.used = 0]]
  /\ current' = 1
  /\ total_bytes' = 0
  /\ regions' = {}
  /\ UNCHANGED node_count

\* What json_arena_reset does to a chain it keeps.
Rewind(chain) ==
  /\ blocks' = [i \in 1..Len(chain) |-> [chain[i] EXCEPT !.used = 0]]
  /\ current' = 1
  /\ total_bytes' = 0
  /\ node_count' = 0
  /\ regions' = {}

Reset == /\ self # NoChunk
         /\ Rewind(blocks)
         /\ UNCHANGED <<heap, self, block_size>>

\* json_arena_trim: every block but the first goes back, then a reset.
Trim == /\ self # NoChunk
        /\ LET dropped == {blocks[i].chunk : i \in 2..Len(blocks)}
           IN  heap' = [c \in Chunk |-> IF c \in dropped THEN 0 ELSE heap[c]]
        /\ Rewind(SubSeq(blocks, 1, 1))
        /\ UNCHANGED <<self, block_size>>

\* json_arena_destroy: the blocks, then the struct.  The variables of an
\* arena that does not exist have their initial values.
Destroy ==
  /\ self # NoChunk
  /\ LET chain == {blocks[i].chunk : i \in 1..Len(blocks)}
     IN  heap' = [c \in Chunk |-> IF c \in chain \cup {self} THEN 0 ELSE heap[c]]
  /\ self' = NoChunk
  /\ block_size' = 0
  /\ blocks' = << >>
  /\ current' = 0
  /\ total_bytes' = 0
  /\ node_count' = 0
  /\ regions' = {}

Init ==
  /\ heap = [c \in Chunk |-> 0]
  /\ self = NoChunk
  /\ block_size = 0
  /\ blocks = << >>
  /\ current = 0
  /\ total_bytes = 0
  /\ node_count = 0
  /\ regions = {}

Next ==
  \/ \E arg \in BlockSizeArg : Create(arg)
  \/ CreateFails
  \/ \E size \in Request : Alloc(size)
  \/ \E size \in Request : AllocFails(size)
  \/ NewNode
  \/ Reset
  \/ Trim
  \/ Destroy

Spec == Init /\ [][Next]_vars

(***************************************************************************)
(* Properties.                                                             *)
(***************************************************************************)

TypeOK ==
  /\ heap \in [Chunk -> Size]
  /\ self \in Chunk \cup {NoChunk}
  /\ block_size \in Size
  /\ blocks \in Seq(Block)
  /\ current \in 0..Len(blocks)
  /\ total_bytes \in Size
  /\ node_count \in 0..MaxNodes
  /\ regions \subseteq Region

\* The backing allocator's outstanding chunks are exactly the struct and the
\* blocks on the chain, each once: no block is orphaned by an append, a trim
\* or a failed creation, and nothing is left behind by json_arena_destroy.
NoLeak ==
  /\ Live = IF self = NoChunk
              THEN {}
              ELSE {self} \cup {blocks[i].chunk : i \in 1..Len(blocks)}
  /\ \A i, j \in 1..Len(blocks) : i # j => blocks[i].chunk # blocks[j].chunk
  /\ \A i \in 1..Len(blocks) : blocks[i].chunk # self

\* Memory handed out lies behind the header of a block of the chain and
\* within the chunk the backing allocator really returned for it.
RegionsInBounds ==
  \A r \in regions :
    \E i \in 1..Len(blocks) :
      /\ blocks[i].chunk = r.chunk
      /\ HeaderSize <= r.off
      /\ r.off + r.len <= HeaderSize + blocks[i].used
      /\ HeaderSize + blocks[i].used <= heap[r.chunk]

\* Two allocations of the same cycle never share a byte, whichever retained
\* or appended blocks they landed in.
RegionsDisjoint ==
  \A r, s \in regions :
    r # s /\ r.chunk = s.chunk => \/ r.off + r.len <= s.off
                                  \/ s.off + s.len <= r.off

\* json_arena_alloc: "Alignment: JSON_ARENA_ALIGN bytes", relative to the
\* chunk, also in blocks sized by an unaligned block_size.
RegionsAligned == \A r \in regions : r.off % Align = 0

\* The arena keeps the promises of RegionStore.
Store == INSTANCE RegionStore
ImplementsRegionStore == Store!Spec
=============================================================================
