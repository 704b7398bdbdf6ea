------------------------------- MODULE Lease -------------------------------
(***************************************************************************)
(* What every binding of sJson promises: memory that several holders use   *)
(* is returned once, and not while one of them can still reach it.         *)
(***************************************************************************)
CONSTANTS Resource, User

VARIABLES
  life,           \* of every resource: "none", "live" or "gone"
  users           \* of every resource: who may reach into it now

Init == /\ life = [r \in Resource |-> "none"]
        /\ users = [r \in Resource |-> {}]

Stays(r) == life'[r] = life[r] /\ users'[r] = users[r]
Open(r)  == life[r] = "none" /\ life'[r] = "live"
Share(r) == life[r] = "live" /\ life'[r] = "live"
Close(r) == life[r] = "live" /\ life'[r] = "gone" /\ users'[r] = {}

\* It was obtained, and given back before anybody knew of it.
Abandon(r) == life[r] = "none" /\ life'[r] = "gone" /\ users'[r] = {}

\* One call may move users from one resource to another.
Next == /\ users' \in [Resource -> SUBSET User]
        /\ \A r \in Resource :
             Stays(r) \/ Open(r) \/ Share(r) \/ Close(r) \/ Abandon(r)

Spec == Init /\ [][Next]_<<life, users>>
=============================================================================
