------------------------------- MODULE Scans -------------------------------
(***************************************************************************)
(* The two readers of text sJson.c has besides its parser of containers,   *)
(* over the same bytes: a scalar of a document, or a path into one.  Only  *)
(* one of them runs.                                                       *)
(***************************************************************************)
EXTENDS LexerCorrect, Paths

allVars == <<vars, pathVars>>

Init == \/ ScalarInit /\ PathIdle
        \/ PathInit /\ StringInit /\ NumberInit

Next == \/ ScalarNext /\ UNCHANGED pathVars
        \/ PathNext /\ UNCHANGED <<stringVars, numberVars>>

Spec == Init /\ [][Next]_allVars
=============================================================================
