----------------------------- MODULE CjsonOwner -----------------------------
(***************************************************************************)
(* compat/cjson/sjson_cjson_compat.h: cJSON items as wrappers, allocated   *)
(* one by one, around the values of one arena.  The wrappers of a document *)
(* share an owner that counts them; they are deleted in any order.         *)
(*                                                                         *)
(* A call is one step: the layer is not meant for several threads.  Calls  *)
(* that find nothing, or no memory for a wrapper of a child, change        *)
(* nothing and are left out.                                               *)
(***************************************************************************)
EXTENDS Integers, FiniteSets

CONSTANTS
  CjItem,         \* places for a cJSON struct
  CjDocs,         \* number of documents parsed, successfully or not
  MaxPrinted      \* bound: printed texts the caller has not freed yet

ASSUME CjAssumption == CjDocs \in Nat /\ MaxPrinted \in Nat

VARIABLES
  cjDoc,          \* per document: its arena, its owner struct, references
  cjItem,         \* per place: the item there, or NoItem
  cjPrinted

cjVars == <<cjDoc, cjItem, cjPrinted>>

NoDoc  == [arena |-> "none", owner |-> "none", references |-> 0]
NoItem == [doc |-> 0, kind |-> "none", valuestring |-> FALSE]

Used(i) == cjItem[i] # NoItem

\* free or json_arena_destroy.  Twice is not what anybody promised.
Released(life) == IF life = "live" THEN "gone" ELSE "twice"

\* sjson_cjson_wrap, when malloc succeeds.
CjWrap(doc, d, i, kind) ==
  /\ ~Used(i)
  /\ cjDoc' = [cjDoc EXCEPT ![d] = [doc EXCEPT !.references = @ + 1]]
  /\ cjItem' = [cjItem EXCEPT ![i] =
                  [doc |-> d, kind |-> kind, valuestring |-> FALSE]]
  /\ UNCHANGED cjPrinted

Parsed == [arena |-> "live", owner |-> "live", references |-> 0]

\* cJSON_ParseWithLength.  A scalar string or a container is the root.
CjParse(d, i, kind) == cjDoc[d] = NoDoc /\ CjWrap(Parsed, d, i, kind)

\* The text is rejected, or there is no memory for the owner: the arena goes.
CjParseRejected(d) ==
  /\ cjDoc[d] = NoDoc
  /\ cjDoc' = [cjDoc EXCEPT ![d] = [NoDoc EXCEPT !.arena = "gone"]]
  /\ UNCHANGED <<cjItem, cjPrinted>>

\* There is no memory for the wrapper of the root: both go.
CjParseUnwrapped(d) ==
  /\ cjDoc[d] = NoDoc
  /\ cjDoc' = [cjDoc EXCEPT ![d] =
                 [Parsed EXCEPT !.arena = Released(@), !.owner = Released(@)]]
  /\ UNCHANGED <<cjItem, cjPrinted>>

\* cJSON_GetArrayItem, cJSON_GetObjectItem: every call makes another wrapper.
CjGet(i, j, kind) ==
  /\ cjItem[i].kind = "container"
  /\ CjWrap(cjDoc[cjItem[i].doc], cjItem[i].doc, j, kind)

\* Mutant of Dereferenced: the count is compared before it is decremented.
DereferencedLate(doc) ==
  LET last == doc.references = 0
  IN  [arena |-> IF last THEN Released(doc.arena) ELSE doc.arena,
       owner |-> IF last THEN Released(doc.owner) ELSE doc.owner,
       references |-> doc.references - 1]

\* What cJSON_Delete does to the owner of the item.
Dereferenced(doc) ==
  LET last == doc.references - 1 = 0
  IN  [arena |-> IF last THEN Released(doc.arena) ELSE doc.arena,
       owner |-> IF last THEN Released(doc.owner) ELSE doc.owner,
       references |-> doc.references - 1]

CjDelete(i) ==
  /\ Used(i)
  /\ cjDoc' = [cjDoc EXCEPT ![cjItem[i].doc] = Dereferenced(@)]
  /\ cjItem' = [cjItem EXCEPT ![i] = NoItem]
  /\ UNCHANGED cjPrinted

\* cJSON_GetStringValue: the copy with a NUL is made once for every wrapper.
CjGetStringValue(i) ==
  /\ cjItem[i].kind = "string"
  /\ ~cjItem[i].valuestring
  /\ cjItem' = [cjItem EXCEPT ![i].valuestring = TRUE]
  /\ UNCHANGED <<cjDoc, cjPrinted>>

\* cJSON_Print, cJSON_PrintUnformatted; and cJSON_free.
CjPrint(i) == /\ Used(i)
              /\ cjPrinted < MaxPrinted
              /\ cjPrinted' = cjPrinted + 1
              /\ UNCHANGED <<cjDoc, cjItem>>

CjFreePrinted == /\ cjPrinted > 0
                 /\ cjPrinted' = cjPrinted - 1
                 /\ UNCHANGED <<cjDoc, cjItem>>

CjInit == /\ cjDoc = [d \in 1..CjDocs |-> NoDoc]
          /\ cjItem = [i \in CjItem |-> NoItem]
          /\ cjPrinted = 0

CjNext ==
  \/ \E d \in 1..CjDocs, i \in CjItem, kind \in {"container", "string"} :
       CjParse(d, i, kind)
  \/ \E d \in 1..CjDocs : CjParseRejected(d)
  \/ \E d \in 1..CjDocs : CjParseUnwrapped(d)
  \/ \E i, j \in CjItem, kind \in {"container", "string"} : CjGet(i, j, kind)
  \/ \E i \in CjItem : CjDelete(i)
  \/ \E i \in CjItem : CjGetStringValue(i)
  \/ \E i \in CjItem : CjPrint(i)
  \/ CjFreePrinted

\* Who may reach into the arena of a document.
CjUsers(d) == {i \in CjItem : Used(i) /\ cjItem[i].doc = d}

\* Without wrappers neither the arena nor the owner is left.
CjReclaimed ==
  \A d \in 1..CjDocs :
    CjUsers(d) = {} => cjDoc[d].arena # "live" /\ cjDoc[d].owner # "live"
=============================================================================
