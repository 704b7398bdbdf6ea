----------------------------- MODULE CppHandles -----------------------------
(***************************************************************************)
(* bindings/cpp/sjson.hpp: Arena objects and Values share a Storage, which *)
(* std::shared_ptr destroys with the last of them.  A reset or a trim ends *)
(* an incarnation of the arena; the Storage's generation is how a Value    *)
(* can tell that its node belonged to an earlier one.                      *)
(*                                                                         *)
(* A Value made of a JsonValue pointer by the caller is the caller's       *)
(* concern and left out, as is finalize, which changes no handle.          *)
(***************************************************************************)
EXTENDS Integers, FiniteSets

CONSTANTS
  CppArena,       \* Arena variables of the program
  CppValue,       \* Value variables of the program
  CppStorages,    \* bound: Storages made
  MaxGeneration   \* bound: resets and trims of one Storage

ASSUME CppAssumption == CppStorages \in Nat \ {0} /\ MaxGeneration \in Nat

VARIABLES
  storage,        \* per Storage: life, generation, and its true incarnation
  arenas,         \* per Arena variable: whether it exists, and its owner_
  values          \* per Value variable: value_, owner_, generation_, and
                  \* whether it has been moved from

cppVars == <<storage, arenas, values>>

NoOwner == 0                                   \* an empty shared_ptr
NoNode  == [owner |-> NoOwner, incarnation |-> 0]            \* nullptr
NoArena == [exists |-> FALSE, owner |-> NoOwner]
NoValue == [node |-> NoNode, owner |-> NoOwner, generation |-> 0, moved |-> FALSE]

Storages == 1..CppStorages

\* Value::get
CppGet(v) ==
  IF v.owner = NoOwner \/ storage[v.owner].generation = v.generation
    THEN v.node
    ELSE NoNode

\* A pointer to a node that is still there.
Current(node) == /\ node # NoNode
                 /\ storage[node.owner].life = "live"
                 /\ storage[node.owner].incarnation = node.incarnation

\* Value(JsonValue*, shared_ptr), in the given state of the storages.
Minted(state, node, owner) ==
  [node |-> node, owner |-> owner, moved |-> FALSE,
   generation |-> IF owner = NoOwner THEN 0 ELSE state[owner].generation]

\* A node that is new in what the owner's arena holds.
NodeOf(state, owner) ==
  [owner |-> owner, incarnation |-> state[owner].incarnation]

\* The variables change, and every Storage nothing refers to is destroyed.
Settle(state, as, vs) ==
  /\ arenas' = as
  /\ values' = vs
  /\ storage' =
       [s \in Storages |->
          IF /\ state[s].life = "live"
             /\ \A a \in CppArena : as[a].owner # s
             /\ \A v \in CppValue : vs[v].owner # s
            THEN [state[s] EXCEPT !.life = "gone"]
            ELSE state[s]]

(***************************************************************************)
(* Arena.                                                                  *)
(***************************************************************************)

\* The constructor.  (It throws when there is no memory, and nothing is left.)
CppConstruct(a, s) ==
  /\ ~arenas[a].exists
  /\ storage[s].life = "none"
  /\ Settle([storage EXCEPT ![s].life = "live"],
            [arenas EXCEPT ![a] = [exists |-> TRUE, owner |-> s]], values)

\* Move construction or move assignment: what b had is let go.
CppMoveArena(a, b) ==
  /\ a # b
  /\ arenas[a].exists
  /\ Settle(storage, [arenas EXCEPT ![b] = arenas[a], ![a].owner = NoOwner],
            values)

CppDropArena(a) == /\ arenas[a].exists
                   /\ Settle(storage, [arenas EXCEPT ![a] = NoArena], values)

\* Mutant of Rewound: the generation is forgotten.
RewoundSilently(s) == [s EXCEPT !.incarnation = @ + 1]

\* json_arena_reset or json_arena_trim, and the generation before it.
Rewound(s) == [s EXCEPT !.generation = @ + 1, !.incarnation = @ + 1]

MayRewind(owner) == owner # NoOwner => storage[owner].generation < MaxGeneration

RewoundOf(owner) == IF owner = NoOwner THEN storage
                    ELSE [storage EXCEPT ![owner] = Rewound(@)]

\* reset and trim: what a Value can see of them is the same.
CppReset(a) == /\ arenas[a].exists
               /\ MayRewind(arenas[a].owner)
               /\ Settle(RewoundOf(arenas[a].owner), arenas, values)

\* What json_parse and json_clone may return in an arena: always NULL in one
\* that has been moved from.
Results(state, owner) ==
  {NoNode} \cup (IF owner = NoOwner THEN {} ELSE {NodeOf(state, owner)})

Assign(state, v, value) == Settle(state, arenas, [values EXCEPT ![v] = value])

CppParse(a, v) ==
  /\ arenas[a].exists
  /\ \E node \in Results(storage, arenas[a].owner) :
       Assign(storage, v, Minted(storage, node, arenas[a].owner))

CppParseReplace(a, v) ==
  /\ arenas[a].exists
  /\ MayRewind(arenas[a].owner)
  /\ LET state == RewoundOf(arenas[a].owner)
     IN  \E node \in Results(state, arenas[a].owner) :
           Assign(state, v, Minted(state, node, arenas[a].owner))

\* The copy is in the arena of a, wherever the value lies.
CppClone(a, u, v) ==
  /\ arenas[a].exists
  /\ ~values[u].moved
  /\ \E node \in IF CppGet(values[u]) = NoNode THEN {NoNode}
                 ELSE Results(storage, arenas[a].owner) :
       Assign(storage, v, Minted(storage, node, arenas[a].owner))

(***************************************************************************)
(* Value.                                                                  *)
(***************************************************************************)

\* at and obj: the child, or an empty Value.
CppChild(u, v) ==
  /\ ~values[u].moved
  /\ \/ /\ CppGet(values[u]) # NoNode
        /\ Assign(storage, v,
                  Minted(storage, CppGet(values[u]), values[u].owner))
     \/ Assign(storage, v, NoValue)

CppCopy(u, v) == /\ ~values[u].moved
                 /\ Assign(storage, v, values[u])

\* The shared_ptr of u is empty afterwards; its pointer is what it was.
CppMoveValue(u, v) ==
  /\ u # v
  /\ ~values[u].moved
  /\ Settle(storage, arenas,
            [values EXCEPT ![v] = values[u], ![u].owner = NoOwner,
                           ![u].moved = TRUE])

CppInit == /\ storage = [s \in Storages |-> [life |-> "none", generation |-> 0,
                                             incarnation |-> 0]]
           /\ arenas = [a \in CppArena |-> NoArena]
           /\ values = [v \in CppValue |-> NoValue]

CppNext ==
  \/ \E a \in CppArena, s \in Storages : CppConstruct(a, s)
  \/ \E a, b \in CppArena : CppMoveArena(a, b)
  \/ \E a \in CppArena : CppDropArena(a)
  \/ \E a \in CppArena : CppReset(a)
  \/ \E a \in CppArena, v \in CppValue : CppParse(a, v)
  \/ \E a \in CppArena, v \in CppValue : CppParseReplace(a, v)
  \/ \E a \in CppArena, u, v \in CppValue : CppClone(a, u, v)
  \/ \E u, v \in CppValue : CppChild(u, v)
  \/ \E u, v \in CppValue : CppCopy(u, v)
  \/ \E u, v \in CppValue : CppMoveValue(u, v)

\* Who may reach into an incarnation of a Storage: its Arena, and the Values
\* whose get() is a node of it.
CppUsers(s, incarnation) ==
  {a \in CppArena : arenas[a].owner = s /\ storage[s].incarnation = incarnation}
  \cup {v \in CppValue :
          /\ ~values[v].moved
          /\ CppGet(values[v]) = [owner |-> s, incarnation |-> incarnation]}

\* Without Arenas and Values no Storage is left.
CppReclaimed ==
  \A s \in Storages :
    storage[s].life = "live" => \/ \E a \in CppArena : arenas[a].owner = s
                                \/ \E v \in CppValue : values[v].owner = s

(***************************************************************************)
(* Properties.                                                             *)
(***************************************************************************)

\* docs/bindings.md: Values may outlive the Arena wrapper, and reset(), trim()
\* and parse_replace() invalidate prior ones.  A Value answers get() with its
\* node exactly as long as the node is there: no reset goes unnoticed, and no
\* reset of another arena, move or destruction of an Arena empties it.
CppStaleIsEmpty ==
  \A v \in CppValue :
    values[v].node # NoNode /\ ~values[v].moved =>
      (CppGet(values[v]) # NoNode <=> Current(values[v].node))

\* bindings/cpp/sjson.hpp:29-30: "Arena-produced values share storage and
\* become empty after reset()/trim(), instead of dangling."  Of every Value,
\* also of one that has been moved from.
CppNeverDangles ==
  \A v \in CppValue :
    CppGet(values[v]) # NoNode => Current(CppGet(values[v]))
=============================================================================
