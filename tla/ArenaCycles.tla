---------------------------- MODULE ArenaCycles ----------------------------
(***************************************************************************)
(* The arena over its reset cycles: Arena with a history of the regions    *)
(* granted in this cycle and in the cycle the last json_arena_reset ended. *)
(***************************************************************************)
EXTENDS Arena, Totals, SequencesExt

VARIABLES
  granted,        \* the regions of this cycle, in order
  previous        \* those of the cycle the last reset ended; empty after a trim

cycleVars == <<vars, granted, previous>>

CycleInit == Init /\ granted = << >> /\ previous = << >>

\* The region a successful allocation added.
NewRegion == CHOOSE r \in regions' : r \notin regions

Grants(A) == /\ A
             /\ granted' = Append(granted, NewRegion)
             /\ UNCHANGED previous

Begins(A, ended) == /\ A
                    /\ granted' = << >>
                    /\ previous' = ended

Fails(A) == A /\ UNCHANGED <<granted, previous>>

CycleNext ==
  \/ \E size \in Request : Grants(Alloc(size))
  \/ Grants(NewNode)
  \/ Begins(Reset, granted)
  \/ Begins(Trim, << >>)
  \/ \E arg \in BlockSizeArg : Begins(Create(arg), << >>)
  \/ Begins(Destroy, << >>)
  \/ Fails(CreateFails)
  \/ \E size \in Request : Fails(AllocFails(size))

CycleSpec == CycleInit /\ [][CycleNext]_cycleVars

Lengths(s) == [i \in 1..Len(s) |-> s[i].len]
Places(s)  == [i \in 1..Len(s) |-> <<s[i].chunk, s[i].off>>]

\* This cycle has asked, so far, for what the previous one asked for.
Replaying == self # NoChunk /\ IsPrefix(Lengths(granted), Lengths(previous))

\* docs/testing.md: identical reset cycles must allocate no new blocks.  A
\* replayed cycle is deterministic: each allocation lands in the very place it
\* had, found by the walk along the retained chain, although blocks appended
\* later in the first cycle are now in front of it.
ReplayInPlace == Replaying => IsPrefix(Places(granted), Places(previous))

Used(chain) == [i \in 1..Len(chain) |-> chain[i].used]
NodesOf(s)  == {i \in 1..Len(s) : s[i].node}

\* The counters the guards trust are right: arena->total_bytes, of the
\* overflow guard, is what the blocks have used and what callers were given;
\* arena->node_count, of the node limit, is the nodes handed out since the
\* last reset, without the failed ones.
CountersAccounted ==
  /\ total_bytes = Total(Used(blocks))
  /\ total_bytes = Total(Lengths(granted))
  /\ node_count = Cardinality(NodesOf(granted))
=============================================================================
