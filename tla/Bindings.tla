------------------------------ MODULE Bindings ------------------------------
(***************************************************************************)
(* The three bindings with an ownership of their own, side by side: a      *)
(* program uses one of them, and all of them keep the promise of Lease.    *)
(***************************************************************************)
EXTENDS CjsonOwner, CppHandles, PyDocument

VARIABLE binding

vars == <<binding, cjVars, cppVars, pyVars>>

Cjson  == binding = "cjson"
Cpp    == binding = "cpp"
Python == binding = "python"

Init == /\ binding \in {"cjson", "cpp", "python"}
        /\ CjInit
        /\ CppInit
        /\ PyStart

Next == \/ Cjson /\ CjNext /\ UNCHANGED <<binding, cppVars, pyVars>>
        \/ Cpp /\ CppNext /\ UNCHANGED <<binding, cjVars, pyVars>>
        \/ Python /\ PyNext /\ UNCHANGED <<binding, cjVars, cppVars>>

\* Every thread is scheduled again and again, and steps on while it can.
Fairness == \A t \in PyThread :
  WF_vars(Python /\ PyStep(t) /\ UNCHANGED <<binding, cjVars, cppVars>>)

Spec == Init /\ [][Next]_vars /\ Fairness

(***************************************************************************)
(* The memory that is leased: the arena of a cJSON document, every         *)
(* incarnation of a C++ arena, the native document of a Python one.        *)
(***************************************************************************)

Resource == ({"cjson"} \X (1..CjDocs))
            \cup ({"cpp"} \X Storages \X (0..MaxGeneration))
            \cup ({"python"} \X Native)

CppLife(s, incarnation) ==
  IF storage[s].incarnation < incarnation THEN "none"
  ELSE IF storage[s].incarnation > incarnation THEN "gone"
  ELSE storage[s].life

Life(r) == CASE r[1] = "cjson"  -> cjDoc[r[2]].arena
             [] r[1] = "cpp"    -> CppLife(r[2], r[3])
             [] r[1] = "python" -> native[r[2]]

Users(r) == CASE r[1] = "cjson"  -> CjUsers(r[2])
              [] r[1] = "cpp"    -> CppUsers(r[2], r[3])
              [] r[1] = "python" -> PyUsers

(***************************************************************************)
(* Properties.                                                             *)
(***************************************************************************)

\* docs/compatibility.md: a retained child stays valid after the root wrapper
\* is deleted.  docs/bindings.md: Arena-produced Values share ownership of the
\* storage; freeing a document must not race a read, for which operations and
\* close() are serialized.  In every order of deletions, moves and resets, and
\* in every interleaving of threads, memory is returned once, and in the step
\* in which the last that could reach into it lets go, or later.
Leases == INSTANCE Lease
  WITH User  <- CjItem \cup CppArena \cup CppValue \cup PyThread,
       life  <- [r \in Resource |-> Life(r)],
       users <- [r \in Resource |-> Users(r)]
ImplementsLease == Leases!Spec

\* No memory outlives the wrappers, the handles or the references to it: also
\* where parsing or wrapping failed half way.
ReclaimedWithLast == CjReclaimed /\ CppReclaimed /\ PyReclaimed

\* Every call of a Document returns, with a value or an exception, and so do
\* __init__ and __del__: whatever is raised under the lock, no thread waits
\* for it for ever.
PyCallsReturn ==
  \A t \in PyThread : Python /\ ~At(t, "idle") ~> At(t, "idle")
=============================================================================
