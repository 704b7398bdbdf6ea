---------------------------- MODULE RegionStore ----------------------------
(***************************************************************************)
(* What the arena of sJson.c promises its callers, without saying how: it  *)
(* holds chunks of memory obtained from the backing allocator and grants   *)
(* regions of them.  A granted region lies inside a chunk the arena holds, *)
(* overlaps no other granted region and stays where it is until all the    *)
(* regions are given up together.  A chunk goes back to the backing        *)
(* allocator only once no region of it is granted.                         *)
(***************************************************************************)
EXTENDS Integers

CONSTANT Chunk          \* the chunks the backing allocator can hand out

VARIABLES
  heap,                 \* [Chunk -> size in bytes], 0 when the arena does not hold it
  regions               \* the granted regions, records [chunk, off, len, node]

vars == <<heap, regions>>

Held == {c \in Chunk : heap[c] > 0}

Overlap(r, s) == /\ r.chunk = s.chunk
                 /\ r.off < s.off + s.len
                 /\ s.off < r.off + r.len

Inside(r, h) == /\ r.chunk \in Chunk
                /\ r.off >= 0
                /\ r.len > 0
                /\ r.off + r.len <= h[r.chunk]

Init == /\ heap = [c \in Chunk |-> 0]
        /\ regions = {}

\* The chunks held before the step are held after it, with their sizes.
Keeps == \A c \in Held : heap'[c] = heap[c]

\* One more region, in a chunk already held or in one obtained for it.
Grant ==
  \E r \in regions' :
    /\ regions' = regions \cup {r}
    /\ \A s \in regions : ~Overlap(r, s)
    /\ Inside(r, heap')
    /\ Keeps

\* The arena takes chunks when it is created.
Acquire == Held = {} /\ UNCHANGED regions

\* Every region is given up; chunks may be returned, and none is taken.
Clear == /\ regions' = {}
         /\ \A c \in Chunk : heap'[c] \in {0, heap[c]}

Next == Grant \/ Acquire \/ Clear

Spec == Init /\ [][Next]_vars
=============================================================================
