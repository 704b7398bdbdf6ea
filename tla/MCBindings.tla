----------------------------- MODULE MCBindings -----------------------------
(***************************************************************************)
(* Three cJSON wrappers over two documents.  Two Arena and two Value       *)
(* variables over two Storages, each reset or trimmed twice: enough to     *)
(* move, to assign over a last reference and to confuse two arenas or two  *)
(* incarnations.  Three Python threads and a call of each: a close, a      *)
(* reader, and one more of either kind; __del__ comes on top.              *)
(***************************************************************************)
EXTENDS Bindings
=============================================================================
