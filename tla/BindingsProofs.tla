--------------------------- MODULE BindingsProofs ---------------------------
(***************************************************************************)
(* Proofs about Bindings, for any number of wrappers, documents, handles,  *)
(* Storages, threads and calls: every binding keeps the promise of Lease.  *)
(*                                                                         *)
(* One inductive invariant for each binding says that who may reach into a *)
(* piece of memory keeps it alive, and by what: a count of references, the *)
(* owners of a Storage, the lock of the Document.  A program uses one      *)
(* binding, so a step of one leaves the invariants of the others alone.    *)
(***************************************************************************)
EXTENDS Bindings, FiniteSetTheorems, TLAPS

Lives == {"none", "live", "gone"}

(***************************************************************************)
(* The cJSON layer.                                                        *)
(***************************************************************************)

CjDocRecord  == [arena : Lives, owner : Lives, references : Nat]
CjItemRecord == [doc : 1..CjDocs, kind : {"container", "string"},
                 valuestring : BOOLEAN]

\* The owner counts the wrappers, and lives with its arena while there are any.
DocSound(doc, users) ==
  /\ doc \in CjDocRecord
  /\ IsFiniteSet(users)
  /\ doc.references = Cardinality(users)
  /\ users # {} => doc.arena = "live" /\ doc.owner = "live"
  /\ users = {} => doc.arena # "live" /\ doc.owner # "live"

CjInv ==
  /\ cjDoc \in [1..CjDocs -> CjDocRecord]
  /\ cjItem \in [CjItem -> CjItemRecord \cup {NoItem}]
  /\ \A d \in 1..CjDocs : DocSound(cjDoc[d], CjUsers(d))

LEMMA CjItemFacts ==
  ASSUME CjInv, NEW i \in CjItem, Used(i)
  PROVE  cjItem[i] \in CjItemRecord /\ cjItem[i].doc \in 1..CjDocs
BY DEF CjInv, Used, CjItemRecord

THEOREM CjInvInit == CjInit => CjInv
<1> SUFFICES ASSUME CjInit PROVE CjInv
  OBVIOUS
<1>1. \A d \in 1..CjDocs : cjDoc[d] = NoDoc /\ CjUsers(d) = {}
  BY DEF CjInit, CjUsers, Used
<1>2. NoDoc \in CjDocRecord
  BY DEF NoDoc, CjDocRecord, Lives
<1>3. DocSound(NoDoc, {})
  BY <1>2, FS_EmptySet DEF DocSound, NoDoc
<1> QED BY <1>1, <1>2, <1>3 DEF CjInit, CjInv

\* Another wrapper for a document that is alive, or has just been made so.
LEMMA WrapInv ==
  ASSUME CjInv, NEW d \in 1..CjDocs, NEW i \in CjItem,
         NEW kind \in {"container", "string"},
         NEW doc \in CjDocRecord, doc.arena = "live", doc.owner = "live",
         doc.references = Cardinality(CjUsers(d)),
         CjWrap(doc, d, i, kind)
  PROVE  CjInv'
<1> DEFINE item == [doc |-> d, kind |-> kind, valuestring |-> FALSE]
           more == [doc EXCEPT !.references = doc.references + 1]
<1>1. /\ ~Used(i)
      /\ cjDoc' = [cjDoc EXCEPT ![d] = more]
      /\ cjItem' = [cjItem EXCEPT ![i] = item]
  BY DEF CjWrap
<1>2. /\ more \in CjDocRecord
      /\ more.arena = "live" /\ more.owner = "live"
      /\ more.references = Cardinality(CjUsers(d)) + 1
  BY DEF CjDocRecord
<1>3. item \in CjItemRecord /\ item # NoItem /\ item.doc = d
  <2>1. item \in CjItemRecord /\ item.doc = d
    BY DEF CjItemRecord
  <2>2. d # 0
    OBVIOUS
  <2> QED BY <2>1, <2>2 DEF NoItem
<1> HIDE DEF more, item
<1>4. /\ cjDoc' \in [1..CjDocs -> CjDocRecord]
      /\ cjItem' \in [CjItem -> CjItemRecord \cup {NoItem}]
  BY <1>1, <1>2, <1>3 DEF CjInv
<1>5. CjUsers(d)' = CjUsers(d) \cup {i} /\ i \notin CjUsers(d)
  BY <1>1, <1>3 DEF CjInv, CjUsers, Used
<1>6. \A e \in (1..CjDocs) \ {d} : CjUsers(e)' = CjUsers(e)
  BY <1>1, <1>3 DEF CjInv, CjUsers, Used
<1>7. DocSound(cjDoc'[d], CjUsers(d)')
  <2>1. IsFiniteSet(CjUsers(d)) /\ cjDoc'[d] = more
    BY <1>1 DEF CjInv, DocSound
  <2>2. /\ IsFiniteSet(CjUsers(d) \cup {i})
        /\ Cardinality(CjUsers(d) \cup {i}) = Cardinality(CjUsers(d)) + 1
    BY <1>5, <2>1, FS_AddElement
  <2> QED BY <1>2, <1>5, <2>1, <2>2 DEF DocSound
<1>8. \A e \in (1..CjDocs) \ {d} : DocSound(cjDoc'[e], CjUsers(e)')
  BY <1>1, <1>6 DEF CjInv
<1> QED BY <1>4, <1>7, <1>8 DEF CjInv

LEMMA DeleteInv ==
  ASSUME CjInv, NEW i \in CjItem, CjDelete(i)
  PROVE  CjInv'
<1>1. PICK d \in 1..CjDocs : d = cjItem[i].doc
  BY CjItemFacts DEF CjDelete
<1> DEFINE less == Dereferenced(cjDoc[d])
<1>2. /\ Used(i)
      /\ cjDoc' = [cjDoc EXCEPT ![d] = less]
      /\ cjItem' = [cjItem EXCEPT ![i] = NoItem]
  BY <1>1 DEF CjDelete
<1>3. DocSound(cjDoc[d], CjUsers(d)) /\ i \in CjUsers(d)
  BY <1>1, <1>2 DEF CjInv, CjUsers
<1>4. /\ CjUsers(d)' = CjUsers(d) \ {i}
      /\ \A e \in (1..CjDocs) \ {d} : CjUsers(e)' = CjUsers(e)
  BY <1>1, <1>2 DEF CjInv, CjUsers, Used
<1>5. DocSound(less, CjUsers(d) \ {i})
  <2>1. /\ cjDoc[d] \in CjDocRecord
        /\ cjDoc[d].arena = "live" /\ cjDoc[d].owner = "live"
        /\ IsFiniteSet(CjUsers(d))
        /\ cjDoc[d].references = Cardinality(CjUsers(d))
    BY <1>3 DEF DocSound
  <2>2. /\ IsFiniteSet(CjUsers(d) \ {i})
        /\ Cardinality(CjUsers(d) \ {i}) = cjDoc[d].references - 1
        /\ Cardinality(CjUsers(d) \ {i}) \in Nat
    BY <1>3, <2>1, FS_RemoveElement, FS_CardinalityType
  <2>3. Cardinality(CjUsers(d) \ {i}) = 0 <=> CjUsers(d) \ {i} = {}
    BY <2>2, FS_EmptySet
  <2>4. CASE CjUsers(d) \ {i} = {}
    <3>1. less = [arena |-> "gone", owner |-> "gone", references |-> 0]
      BY <2>1, <2>2, <2>3, <2>4 DEF Dereferenced, Released
    <3> QED BY <2>2, <2>3, <2>4, <3>1 DEF DocSound, CjDocRecord, Lives
  <2>5. CASE CjUsers(d) \ {i} # {}
    <3>1. less = [arena |-> "live", owner |-> "live",
                  references |-> cjDoc[d].references - 1]
      BY <2>1, <2>2, <2>3, <2>5 DEF Dereferenced
    <3> QED BY <2>2, <2>5, <3>1 DEF DocSound, CjDocRecord, Lives
  <2> QED BY <2>4, <2>5
<1> HIDE DEF less
<1>6. less \in CjDocRecord
  BY <1>5 DEF DocSound
<1>7. /\ cjDoc' \in [1..CjDocs -> CjDocRecord]
      /\ cjItem' \in [CjItem -> CjItemRecord \cup {NoItem}]
  BY <1>2, <1>6 DEF CjInv
<1>8. \A e \in 1..CjDocs : DocSound(cjDoc'[e], CjUsers(e)')
  BY <1>2, <1>4, <1>5 DEF CjInv
<1> QED BY <1>7, <1>8 DEF CjInv

\* A document whose users are those it had, and are none, ends differently.
LEMMA EndedInv ==
  ASSUME CjInv, NEW d \in 1..CjDocs, CjUsers(d) = {},
         NEW doc \in CjDocRecord, doc.references = 0,
         doc.arena # "live", doc.owner # "live",
         cjDoc' = [cjDoc EXCEPT ![d] = doc], cjItem' = cjItem
  PROVE  CjInv'
<1>1. \A e \in 1..CjDocs : CjUsers(e)' = CjUsers(e)
  BY DEF CjUsers, Used
<1>2. DocSound(doc, {})
  BY FS_EmptySet DEF DocSound
<1> QED BY <1>1, <1>2 DEF CjInv

\* Nobody uses a document that was never parsed.
LEMMA NoDocUnused ==
  ASSUME CjInv, NEW d \in 1..CjDocs, cjDoc[d] = NoDoc
  PROVE  CjUsers(d) = {}
BY DEF CjInv, DocSound, NoDoc

LEMMA CjItemKind ==
  ASSUME NEW i \in CjItem, cjItem[i].kind \in {"container", "string"}
  PROVE  Used(i)
BY DEF Used, NoItem

LEMMA GetStringInv ==
  ASSUME CjInv, NEW i \in CjItem, CjGetStringValue(i)
  PROVE  CjInv'
<1> DEFINE item == [cjItem[i] EXCEPT !.valuestring = TRUE]
<1>1. /\ cjItem' = [cjItem EXCEPT ![i] = item] /\ cjDoc' = cjDoc
      /\ Used(i)
  BY CjItemKind DEF CjGetStringValue
<1>2. cjItem[i] \in CjItemRecord
  BY <1>1, CjItemFacts
<1>3. item \in CjItemRecord /\ item # NoItem /\ item.doc = cjItem[i].doc
  <2>1. /\ item \in CjItemRecord /\ item.doc = cjItem[i].doc
        /\ item.doc \in 1..CjDocs
    BY <1>2 DEF CjItemRecord
  <2> QED BY <2>1 DEF NoItem
<1> HIDE DEF item
<1>4. \A d \in 1..CjDocs : CjUsers(d)' = CjUsers(d)
  BY <1>1, <1>2, <1>3 DEF CjUsers, Used, CjInv
<1> QED BY <1>1, <1>3, <1>4 DEF CjInv

LEMMA ParseInvCj ==
  ASSUME CjInv, NEW d \in 1..CjDocs,
         \/ \E i \in CjItem, kind \in {"container", "string"} : CjParse(d, i, kind)
         \/ CjParseRejected(d)
         \/ CjParseUnwrapped(d)
  PROVE  CjInv'
<1>1. cjDoc[d] = NoDoc /\ CjUsers(d) = {}
  BY NoDocUnused DEF CjParse, CjParseRejected, CjParseUnwrapped
<1>2. ASSUME NEW i \in CjItem, NEW kind \in {"container", "string"},
             CjParse(d, i, kind)
      PROVE  CjInv'
  <2>1. /\ Parsed \in CjDocRecord
        /\ Parsed.arena = "live" /\ Parsed.owner = "live"
        /\ Parsed.references = Cardinality(CjUsers(d))
    BY <1>1, FS_EmptySet DEF Parsed, CjDocRecord, Lives
  <2> QED BY <1>2, <2>1, WrapInv DEF CjParse
<1>3. CASE CjParseRejected(d)
  <2> DEFINE doc == [NoDoc EXCEPT !.arena = "gone"]
  <2>1. doc = [arena |-> "gone", owner |-> "none", references |-> 0]
    BY DEF NoDoc
  <2>2. cjDoc' = [cjDoc EXCEPT ![d] = doc] /\ cjItem' = cjItem
    BY <1>3 DEF CjParseRejected
  <2> QED BY <1>1, <2>1, <2>2, EndedInv DEF CjDocRecord, Lives
<1>4. CASE CjParseUnwrapped(d)
  <2> DEFINE doc == [arena |-> "gone", owner |-> "gone", references |-> 0]
  <2>1. [Parsed EXCEPT !.arena = Released(Parsed.arena),
                       !.owner = Released(Parsed.owner)] = doc
    <3>1. Released(Parsed.arena) = "gone" /\ Released(Parsed.owner) = "gone"
      BY DEF Parsed, Released
    <3>2. [Parsed EXCEPT !.arena = "gone"]
            = [arena |-> "gone", owner |-> "live", references |-> 0]
      BY DEF Parsed
    <3>3. [[arena |-> "gone", owner |-> "live", references |-> 0]
             EXCEPT !.owner = "gone"] = doc
      OBVIOUS
    <3>4. [Parsed EXCEPT !.arena = "gone", !.owner = "gone"] = doc
      BY <3>2, <3>3
    <3> QED BY <3>1, <3>4
  <2>2. cjDoc' = [cjDoc EXCEPT ![d] = doc] /\ cjItem' = cjItem
    BY <1>4, <2>1 DEF CjParseUnwrapped
  <2> QED BY <1>1, <2>2, EndedInv DEF CjDocRecord, Lives
<1> QED BY <1>2, <1>3, <1>4

LEMMA GetInv ==
  ASSUME CjInv, NEW i \in CjItem, NEW j \in CjItem,
         NEW kind \in {"container", "string"}, CjGet(i, j, kind)
  PROVE  CjInv'
<1>1. Used(i)
  BY CjItemKind DEF CjGet
<1>2. PICK d \in 1..CjDocs : d = cjItem[i].doc
  BY <1>1, CjItemFacts
<1>3. DocSound(cjDoc[d], CjUsers(d)) /\ CjUsers(d) # {}
  BY <1>1, <1>2 DEF CjInv, CjUsers
<1> QED BY <1>2, <1>3, WrapInv DEF CjGet, DocSound

THEOREM CjInvNext == CjInv /\ [CjNext]_cjVars => CjInv'
<1> SUFFICES ASSUME CjInv, [CjNext]_cjVars PROVE CjInv'
  OBVIOUS
<1>1. ASSUME cjDoc' = cjDoc, cjItem' = cjItem PROVE CjInv'
  BY <1>1 DEF CjInv, CjUsers, Used
<1>2. ASSUME NEW i \in CjItem, CjPrint(i) PROVE CjInv'
  BY <1>1, <1>2 DEF CjPrint
<1>3. CASE CjFreePrinted
  BY <1>1, <1>3 DEF CjFreePrinted
<1>4. CASE UNCHANGED cjVars
  BY <1>1, <1>4 DEF cjVars
<1> QED BY <1>2, <1>3, <1>4, ParseInvCj, GetInv, DeleteInv, GetStringInv
    DEF CjNext

\* No arena comes back, and none is given back twice.
THEOREM CjArenaLater ==
  CjInv /\ CjNext =>
    \A d \in 1..CjDocs : /\ cjDoc[d].arena = "live" => cjDoc'[d].arena # "none"
                         /\ cjDoc[d].arena = "gone" => cjDoc'[d].arena = "gone"
<1> SUFFICES ASSUME CjInv, CjNext, NEW d \in 1..CjDocs
             PROVE  /\ cjDoc[d].arena = "live" => cjDoc'[d].arena # "none"
                    /\ cjDoc[d].arena = "gone" => cjDoc'[d].arena = "gone"
  OBVIOUS
<1> USE DEF CjInv
<1>1. ASSUME NEW e \in 1..CjDocs,
             \/ \E i \in CjItem, kind \in {"container", "string"} : CjParse(e, i, kind)
             \/ CjParseRejected(e)
             \/ CjParseUnwrapped(e)
      PROVE  cjDoc'[d] = cjDoc[d] \/ cjDoc[d].arena = "none"
  <2>1. cjDoc[e] = NoDoc /\ cjDoc[e].arena = "none"
    BY <1>1 DEF CjParse, CjParseRejected, CjParseUnwrapped, NoDoc
  <2>2. PICK doc : cjDoc' = [cjDoc EXCEPT ![e] = doc]
    BY <1>1 DEF CjParse, CjWrap, CjParseRejected, CjParseUnwrapped
  <2> QED BY <2>1, <2>2
<1>2. ASSUME NEW i \in CjItem, NEW j \in CjItem, NEW kind, CjGet(i, j, kind)
      PROVE  cjDoc'[d].arena = cjDoc[d].arena
  BY <1>2 DEF CjGet, CjWrap, CjDocRecord
<1>3. ASSUME NEW i \in CjItem, CjDelete(i)
      PROVE  \/ cjDoc'[d].arena = cjDoc[d].arena
             \/ cjDoc[d].arena = "live" /\ cjDoc'[d].arena = "gone"
  <2>1. PICK e \in 1..CjDocs : e = cjItem[i].doc
    BY <1>3, CjItemFacts DEF CjDelete
  <2>2. cjDoc[e].arena = "live"
    BY <1>3, <2>1 DEF CjDelete, CjUsers, DocSound
  <2> QED BY <1>3, <2>1, <2>2 DEF CjDelete, Dereferenced, Released
<1>4. ASSUME \/ \E i \in CjItem : CjGetStringValue(i) \/ CjPrint(i)
             \/ CjFreePrinted
      PROVE  cjDoc' = cjDoc
  BY <1>4 DEF CjGetStringValue, CjPrint, CjFreePrinted
<1> QED BY <1>1, <1>2, <1>3, <1>4 DEF CjNext, CjDocRecord

(***************************************************************************)
(* The C++ wrapper.                                                        *)
(*                                                                         *)
(* Every operation of the wrapper changes some variables and then lets     *)
(* std::shared_ptr destroy what nothing refers to any more: Settle.  So    *)
(* what an operation must establish is HandleInv of the intermediate       *)
(* state, and SettleInv does the rest once and for all.                    *)
(***************************************************************************)

Owner == Storages \cup {NoOwner}

StorageRecord == [life : {"none", "live", "gone"}, generation : Nat,
                  incarnation : Nat]
ArenaRecord   == [exists : BOOLEAN, owner : Owner]
ValueRecord   == [node : [owner : Owner, incarnation : Nat], owner : Owner,
                  generation : Nat, moved : BOOLEAN]

\* A Storage's generation counts its incarnations, within the bound.
StorageSound(st) ==
  /\ st \in StorageRecord
  /\ st.generation = st.incarnation
  /\ st.generation <= MaxGeneration

\* An Arena's owner is alive.
ArenaSound(state, a) ==
  /\ a \in ArenaRecord
  /\ a.owner # NoOwner => state[a.owner].life = "live"

\* So is a Value's; it keeps the arena of its own node alive, and the
\* generation it remembers is the one its node belongs to.
ValueSound(state, v) ==
  /\ v \in ValueRecord
  /\ v.owner # NoOwner => state[v.owner].life = "live"
  /\ v.moved => v.owner = NoOwner
  /\ v.node # NoNode /\ ~v.moved => /\ v.node.owner # NoOwner
                                    /\ v.owner = v.node.owner
                                    /\ v.generation = v.node.incarnation

HandleInv(state, as, vs) ==
  /\ state \in [Storages -> StorageRecord]
  /\ as \in [CppArena -> ArenaRecord]
  /\ vs \in [CppValue -> ValueRecord]
  /\ \A s \in Storages : StorageSound(state[s])
  /\ \A a \in CppArena : ArenaSound(state, as[a])
  /\ \A v \in CppValue : ValueSound(state, vs[v])

\* The inductive invariant.
CppInv == HandleInv(storage, arenas, values) /\ CppReclaimed

LEMMA OwnerFacts ==
  /\ NoOwner \notin Storages
  /\ NoOwner \in Owner
  /\ \A o \in Owner : o # NoOwner => o \in Storages
  /\ NoNode \in [owner : Owner, incarnation : Nat]
BY CppAssumption DEF NoOwner, Storages, Owner, NoNode

\* Destroying what nothing refers to hurts no handle, and leaves no Storage
\* without one.
LEMMA SettleInv ==
  ASSUME NEW state, NEW as, NEW vs, HandleInv(state, as, vs),
         Settle(state, as, vs)
  PROVE  CppInv'
<1> USE DEF HandleInv
<1>1. arenas' = as /\ values' = vs
  BY DEF Settle
<1> DEFINE Referred(s) == \/ \E a \in CppArena : as[a].owner = s
                          \/ \E v \in CppValue : vs[v].owner = s
<1>2. storage' = [s \in Storages |->
                    IF state[s].life = "live" /\ ~Referred(s)
                      THEN [state[s] EXCEPT !.life = "gone"]
                      ELSE state[s]]
  BY DEF Settle
<1>3. \A s \in Storages : Referred(s) => storage'[s] = state[s]
  BY <1>2
<1>4. \A s \in Storages : StorageSound(storage'[s])
  BY <1>2 DEF StorageSound, StorageRecord
<1>5. storage' \in [Storages -> StorageRecord]
  BY <1>2, <1>4 DEF StorageSound
<1>6. \A a \in CppArena : ArenaSound(storage', as[a])
  <2> SUFFICES ASSUME NEW a \in CppArena, as[a].owner # NoOwner
               PROVE  storage'[as[a].owner].life = "live"
    BY DEF ArenaSound
  <2>1. as[a].owner \in Storages /\ state[as[a].owner].life = "live"
    BY OwnerFacts DEF ArenaSound, ArenaRecord
  <2> QED BY <2>1, <1>3
<1>7. \A v \in CppValue : ValueSound(storage', vs[v])
  <2> SUFFICES ASSUME NEW v \in CppValue, vs[v].owner # NoOwner
               PROVE  storage'[vs[v].owner].life = "live"
    BY DEF ValueSound
  <2>1. vs[v].owner \in Storages /\ state[vs[v].owner].life = "live"
    BY OwnerFacts DEF ValueSound, ValueRecord
  <2> QED BY <2>1, <1>3
<1>8. CppReclaimed'
  <2> SUFFICES ASSUME NEW s \in Storages, storage'[s].life = "live"
               PROVE  Referred(s)
    BY <1>1 DEF CppReclaimed
  <2> QED BY <1>2 DEF StorageSound, StorageRecord
<1> QED BY <1>1, <1>4, <1>5, <1>6, <1>7, <1>8 DEF CppInv

\* A Value that takes the place of another.
LEMMA AssignInv ==
  ASSUME NEW state, HandleInv(state, arenas, values),
         NEW v \in CppValue, NEW value, ValueSound(state, value),
         Assign(state, v, value)
  PROVE  CppInv'
<1>1. value \in ValueRecord
  BY DEF ValueSound
<1>2. HandleInv(state, arenas, [values EXCEPT ![v] = value])
  BY <1>1 DEF HandleInv
<1> QED BY <1>2, SettleInv DEF Assign

\* A Value made for an owner that is alive, of a node of its arena or of none.
LEMMA MintedSound ==
  ASSUME NEW state, NEW owner \in Owner,
         \A s \in Storages : StorageSound(state[s]),
         owner # NoOwner => state[owner].life = "live",
         NEW node \in Results(state, owner)
  PROVE  ValueSound(state, Minted(state, node, owner))
<1> USE OwnerFacts
<1>1. CASE owner = NoOwner
  BY <1>1 DEF Results, Minted, ValueSound, ValueRecord
<1>2. CASE owner # NoOwner
  <2>1. owner \in Storages /\ StorageSound(state[owner])
    BY <1>2
  <2>2. node = NoNode \/ node = NodeOf(state, owner)
    BY <1>2 DEF Results
  <2>3. NodeOf(state, owner) \in [owner : Owner, incarnation : Nat]
    BY <2>1 DEF NodeOf, StorageSound, StorageRecord
  <2> QED BY <1>2, <2>1, <2>2, <2>3
         DEF Minted, ValueSound, ValueRecord, NodeOf, StorageSound, StorageRecord
<1> QED BY <1>1, <1>2

LEMMA RewoundSound ==
  ASSUME NEW st, StorageSound(st), st.generation < MaxGeneration
  PROVE  /\ StorageSound(Rewound(st))
         /\ Rewound(st).life = st.life
         /\ Rewound(st).incarnation = st.incarnation + 1
<1>1. /\ st \in StorageRecord
      /\ st.life \in {"none", "live", "gone"}
      /\ st.generation \in Nat /\ st.incarnation = st.generation
  BY DEF StorageSound, StorageRecord
<1>2. /\ Rewound(st) \in StorageRecord
      /\ Rewound(st).life = st.life
      /\ Rewound(st).generation = st.generation + 1
      /\ Rewound(st).incarnation = st.generation + 1
  <2> DEFINE once == [st EXCEPT !.generation = st.generation + 1]
  <2>1. /\ once \in StorageRecord
        /\ once.life = st.life
        /\ once.generation = st.generation + 1
        /\ once.incarnation = st.generation
    BY <1>1 DEF StorageRecord
  <2>2. Rewound(st) = [once EXCEPT !.incarnation = st.incarnation + 1]
    BY DEF Rewound
  <2> HIDE DEF once
  <2> QED BY <1>1, <2>1, <2>2 DEF StorageRecord
<1>3. st.generation + 1 \in Nat /\ st.generation + 1 <= MaxGeneration
  BY <1>1, CppAssumption
<1> QED BY <1>1, <1>2, <1>3 DEF StorageSound, StorageRecord

\* The state after a reset or a trim: no handle is worse off.
LEMMA RewoundInv ==
  ASSUME CppInv, NEW a \in CppArena, MayRewind(arenas[a].owner)
  PROVE  HandleInv(RewoundOf(arenas[a].owner), arenas, values)
<1> DEFINE owner == arenas[a].owner
           state == RewoundOf(owner)
<1> USE DEF CppInv, HandleInv
<1>1. CASE owner = NoOwner
  BY <1>1 DEF RewoundOf
<1>2. CASE owner # NoOwner
  <2>1. owner \in Storages
    BY <1>2, OwnerFacts DEF ArenaRecord
  <2>2. state = [storage EXCEPT ![owner] = Rewound(storage[owner])]
    BY <1>2 DEF RewoundOf
  <2>3. /\ StorageSound(Rewound(storage[owner]))
        /\ Rewound(storage[owner]).life = storage[owner].life
    <3>1. /\ StorageSound(storage[owner])
          /\ storage[owner].generation < MaxGeneration
      BY <1>2, <2>1 DEF MayRewind
    <3> QED BY <3>1, RewoundSound
  <2>4. \A s \in Storages : /\ StorageSound(state[s])
                            /\ state[s].life = storage[s].life
    BY <2>1, <2>2, <2>3
  <2>5. state \in [Storages -> StorageRecord]
    BY <2>1, <2>2, <2>3 DEF StorageSound
  <2> HIDE DEF state
  <2>6. \A x \in CppArena : ArenaSound(state, arenas[x])
    BY <2>4, OwnerFacts DEF ArenaSound, ArenaRecord
  <2>7. \A v \in CppValue : ValueSound(state, values[v])
    BY <2>4, OwnerFacts DEF ValueSound, ValueRecord
  <2> QED BY <2>4, <2>5, <2>6, <2>7 DEF state
<1> QED BY <1>1, <1>2

THEOREM CppInvInit == CppInit => CppInv
<1> SUFFICES ASSUME CppInit PROVE CppInv
  OBVIOUS
<1> USE OwnerFacts, CppAssumption DEF CppInit
<1>1. \A s \in Storages : StorageSound(storage[s])
  BY DEF StorageSound, StorageRecord
<1>2. storage \in [Storages -> StorageRecord]
  BY <1>1 DEF StorageSound
<1>3. NoArena \in ArenaRecord /\ ArenaSound(storage, NoArena)
  BY DEF NoArena, ArenaRecord, ArenaSound
<1>4. NoValue \in ValueRecord /\ ValueSound(storage, NoValue)
  BY DEF NoValue, ValueRecord, ValueSound
<1>5. CppReclaimed
  BY DEF CppReclaimed
<1> QED BY <1>1, <1>2, <1>3, <1>4, <1>5 DEF CppInv, HandleInv

LEMMA ConstructInv ==
  ASSUME CppInv, NEW a \in CppArena, NEW s \in Storages, CppConstruct(a, s)
  PROVE  CppInv'
<1> DEFINE state == [storage EXCEPT ![s].life = "live"]
           as == [arenas EXCEPT ![a] = [exists |-> TRUE, owner |-> s]]
<1> USE DEF CppInv, HandleInv
<1>1. \A t \in Storages : /\ StorageSound(state[t])
                          /\ storage[t].life = "live" => state[t].life = "live"
  BY DEF StorageSound, StorageRecord
<1>2. state \in [Storages -> StorageRecord] /\ state[s].life = "live"
  BY DEF StorageRecord
<1>3. Settle(state, as, values)
  BY DEF CppConstruct
<1> HIDE DEF state
<1>4. as \in [CppArena -> ArenaRecord]
  BY OwnerFacts DEF ArenaRecord, Owner
<1>5. \A b \in CppArena : ArenaSound(state, as[b])
  BY <1>1, <1>2, <1>4, OwnerFacts DEF ArenaSound, ArenaRecord
<1>6. \A v \in CppValue : ValueSound(state, values[v])
  BY <1>1, OwnerFacts DEF ValueSound, ValueRecord
<1>7. HandleInv(state, as, values)
  BY <1>1, <1>2, <1>4, <1>5, <1>6
<1> QED BY <1>3, <1>7, SettleInv

LEMMA MoveArenaInv ==
  ASSUME CppInv, NEW a \in CppArena, NEW b \in CppArena, CppMoveArena(a, b)
  PROVE  CppInv'
<1> DEFINE as == [arenas EXCEPT ![b] = arenas[a], ![a].owner = NoOwner]
<1> USE DEF CppInv, HandleInv
<1>1. /\ as \in [CppArena -> ArenaRecord]
      /\ \A x \in CppArena : as[x].owner = NoOwner \/ as[x] = arenas[x]
                                                \/ as[x] = arenas[a]
  BY OwnerFacts DEF CppMoveArena, ArenaRecord
<1>2. HandleInv(storage, as, values)
  BY <1>1 DEF ArenaSound
<1>3. Settle(storage, as, values)
  BY DEF CppMoveArena
<1> QED BY <1>2, <1>3, SettleInv

LEMMA DropArenaInv ==
  ASSUME CppInv, NEW a \in CppArena, CppDropArena(a)
  PROVE  CppInv'
<1> DEFINE as == [arenas EXCEPT ![a] = NoArena]
<1>1. NoArena \in ArenaRecord /\ ArenaSound(storage, NoArena)
  BY OwnerFacts DEF NoArena, ArenaRecord, ArenaSound
<1>2. HandleInv(storage, as, values)
  BY <1>1 DEF CppInv, HandleInv
<1>3. Settle(storage, as, values)
  BY DEF CppDropArena
<1> QED BY <1>2, <1>3, SettleInv

LEMMA MoveValueInv ==
  ASSUME CppInv, NEW u \in CppValue, NEW v \in CppValue, CppMoveValue(u, v)
  PROVE  CppInv'
<1> DEFINE vs == [values EXCEPT ![v] = values[u], ![u].owner = NoOwner,
                                ![u].moved = TRUE]
<1> USE DEF CppInv, HandleInv
<1>1. u # v /\ Settle(storage, arenas, vs)
  BY DEF CppMoveValue
<1>2. /\ vs[u] \in ValueRecord
      /\ vs[u].owner = NoOwner /\ vs[u].moved
      /\ \A x \in CppValue \ {u} : vs[x] = values[x] \/ vs[x] = values[u]
      /\ DOMAIN vs = CppValue
  <2>1. vs[u] = [[values[u] EXCEPT !.owner = NoOwner] EXCEPT !.moved = TRUE]
    BY <1>1
  <2> QED BY <1>1, <2>1, OwnerFacts DEF ValueRecord
<1>3. vs \in [CppValue -> ValueRecord]
  BY <1>2
<1>4. \A x \in CppValue : ValueSound(storage, vs[x])
  BY <1>2 DEF ValueSound
<1>5. HandleInv(storage, arenas, vs)
  BY <1>3, <1>4
<1> QED BY <1>1, <1>5, SettleInv

\* get() yields a node only where the owner of the Value is that node's.
LEMMA CppGetSound ==
  ASSUME NEW v, ValueSound(storage, v), ~v.moved, CppGet(v) # NoNode
  PROVE  /\ CppGet(v) = v.node
         /\ v.owner \in Storages /\ v.node.owner = v.owner
         /\ v.node.incarnation = v.generation
         /\ storage[v.owner].life = "live"
         /\ storage[v.owner].generation = v.generation
<1>1. CppGet(v) = v.node /\ v.node # NoNode
  BY DEF CppGet
<1>2. v.owner # NoOwner /\ v.owner \in Storages
  BY <1>1, OwnerFacts DEF ValueSound, ValueRecord
<1> QED BY <1>1, <1>2 DEF ValueSound, CppGet

LEMMA ParseInv ==
  ASSUME CppInv, NEW a \in CppArena, NEW v \in CppValue, CppParse(a, v)
  PROVE  CppInv'
<1> DEFINE owner == arenas[a].owner
<1>1. /\ owner \in Owner
      /\ owner # NoOwner => storage[owner].life = "live"
      /\ \A s \in Storages : StorageSound(storage[s])
      /\ HandleInv(storage, arenas, values)
  BY DEF CppInv, HandleInv, ArenaSound, ArenaRecord
<1>2. PICK node \in Results(storage, owner) :
        Assign(storage, v, Minted(storage, node, owner))
  BY DEF CppParse
<1> HIDE DEF owner
<1> QED BY <1>1, <1>2, MintedSound, AssignInv

LEMMA ParseReplaceInv ==
  ASSUME CppInv, NEW a \in CppArena, NEW v \in CppValue, CppParseReplace(a, v)
  PROVE  CppInv'
<1> DEFINE owner == arenas[a].owner
           state == RewoundOf(owner)
<1>1. HandleInv(state, arenas, values)
  BY RewoundInv DEF CppParseReplace
<1>2. PICK node \in Results(state, owner) :
        Assign(state, v, Minted(state, node, owner))
  BY DEF CppParseReplace
<1> HIDE DEF state
<1>3. /\ owner \in Owner
      /\ owner # NoOwner => state[owner].life = "live"
      /\ \A s \in Storages : StorageSound(state[s])
  BY <1>1 DEF HandleInv, ArenaSound, ArenaRecord
<1> HIDE DEF owner
<1> QED BY <1>1, <1>2, <1>3, MintedSound, AssignInv

LEMMA CloneInv ==
  ASSUME CppInv, NEW a \in CppArena, NEW u \in CppValue, NEW v \in CppValue,
         CppClone(a, u, v)
  PROVE  CppInv'
<1> DEFINE owner == arenas[a].owner
<1>1. /\ owner \in Owner
      /\ owner # NoOwner => storage[owner].life = "live"
      /\ \A s \in Storages : StorageSound(storage[s])
      /\ HandleInv(storage, arenas, values)
  BY DEF CppInv, HandleInv, ArenaSound, ArenaRecord
<1>2. PICK node \in Results(storage, owner) :
        Assign(storage, v, Minted(storage, node, owner))
  BY DEF CppClone, Results
<1> HIDE DEF owner
<1> QED BY <1>1, <1>2, MintedSound, AssignInv

LEMMA ChildInv ==
  ASSUME CppInv, NEW u \in CppValue, NEW v \in CppValue, CppChild(u, v)
  PROVE  CppInv'
<1>1. /\ ~values[u].moved
      /\ ValueSound(storage, values[u])
      /\ HandleInv(storage, arenas, values)
      /\ \A s \in Storages : StorageSound(storage[s])
  BY DEF CppChild, CppInv, HandleInv
<1>2. CASE Assign(storage, v, NoValue)
  <2>1. ValueSound(storage, NoValue)
    BY OwnerFacts DEF NoValue, ValueRecord, ValueSound
  <2> QED BY <1>1, <1>2, <2>1, AssignInv
<1>3. CASE /\ CppGet(values[u]) # NoNode
           /\ Assign(storage, v,
                     Minted(storage, CppGet(values[u]), values[u].owner))
  <2> DEFINE owner == values[u].owner
  <2>1. /\ CppGet(values[u]) = values[u].node
        /\ owner \in Storages /\ owner \in Owner /\ owner # NoOwner
        /\ values[u].node.owner = owner
        /\ values[u].node.incarnation = storage[owner].incarnation
        /\ storage[owner].life = "live"
    BY <1>1, <1>3, CppGetSound, OwnerFacts DEF StorageSound, Owner
  <2>2. values[u].node = NodeOf(storage, owner)
    BY <1>1, <2>1 DEF NodeOf, ValueSound, ValueRecord
  <2>3. CppGet(values[u]) \in Results(storage, owner)
    BY <2>1, <2>2 DEF Results
  <2> HIDE DEF owner
  <2> QED BY <1>1, <1>3, <2>1, <2>3, MintedSound, AssignInv DEF owner
<1> QED BY <1>2, <1>3 DEF CppChild

THEOREM CppInvNext == CppInv /\ CppNext => CppInv'
<1> SUFFICES ASSUME CppInv, CppNext PROVE CppInv'
  OBVIOUS
<1>1. HandleInv(storage, arenas, values)
  BY DEF CppInv
<1>2. ASSUME NEW a \in CppArena, CppReset(a) PROVE CppInv'
  BY <1>2, RewoundInv, SettleInv DEF CppReset
<1>3. ASSUME NEW u \in CppValue, NEW v \in CppValue, CppCopy(u, v)
      PROVE  CppInv'
  <2>1. ValueSound(storage, values[u])
    BY <1>1 DEF HandleInv
  <2> QED BY <1>1, <1>3, <2>1, AssignInv DEF CppCopy
<1> QED BY <1>2, <1>3, ConstructInv, MoveArenaInv, DropArenaInv, ParseInv,
           ParseReplaceInv, CloneInv, ChildInv, MoveValueInv
    DEF CppNext

THEOREM CppInvStutter == CppInv /\ UNCHANGED cppVars => CppInv'
<1> SUFFICES ASSUME CppInv, UNCHANGED cppVars PROVE CppInv'
  OBVIOUS
<1>1. storage' = storage /\ arenas' = arenas /\ values' = values
  BY DEF cppVars
<1> QED BY <1>1 DEF CppInv, CppReclaimed

\* A Value that was not moved from answers with its node as long as the node
\* is there, and no longer.
THEOREM CppInvStale == CppInv => CppStaleIsEmpty
<1> SUFFICES ASSUME CppInv, NEW v \in CppValue,
                    values[v].node # NoNode, ~values[v].moved
             PROVE  CppGet(values[v]) # NoNode <=> Current(values[v].node)
  BY DEF CppStaleIsEmpty
<1> DEFINE owner == values[v].owner
<1>1. ValueSound(storage, values[v]) /\ \A s \in Storages : StorageSound(storage[s])
  BY DEF CppInv, HandleInv
<1>2. /\ owner # NoOwner /\ owner \in Storages
      /\ values[v].node.owner = owner
      /\ values[v].generation = values[v].node.incarnation
      /\ storage[owner].life = "live"
  BY <1>1, OwnerFacts DEF ValueSound, ValueRecord
<1>3. storage[owner].generation = storage[owner].incarnation
  BY <1>1, <1>2 DEF StorageSound
<1>4. CppGet(values[v]) = IF storage[owner].incarnation = values[v].generation
                            THEN values[v].node ELSE NoNode
  BY <1>2, <1>3 DEF CppGet
<1> HIDE DEF owner
<1> QED BY <1>2, <1>4 DEF Current

(***************************************************************************)
(* What becomes of a Storage.                                              *)
(***************************************************************************)

\* No incarnation comes back, and neither does a Storage.
Later(st, next) ==
  /\ next.incarnation >= st.incarnation
  /\ st.life = "live" => next.life # "none"
  /\ st.life = "gone" => next.life = "gone"

\* The three ways an operation changes Storages before it settles.
LEMMA CppSettles ==
  ASSUME CppNext
  PROVE  \E state, as, vs :
           /\ Settle(state, as, vs)
           /\ \/ state = storage
              \/ \E a \in CppArena : /\ MayRewind(arenas[a].owner)
                                     /\ state = RewoundOf(arenas[a].owner)
              \/ \E s \in Storages : /\ storage[s].life = "none"
                                     /\ state = [storage EXCEPT ![s].life = "live"]
<1>1. ASSUME NEW a \in CppArena, NEW s \in Storages, CppConstruct(a, s)
      PROVE  /\ storage[s].life = "none"
             /\ \E as, vs : Settle([storage EXCEPT ![s].life = "live"], as, vs)
  BY <1>1 DEF CppConstruct
<1>2. ASSUME NEW a \in CppArena,
             \/ CppReset(a)
             \/ \E v \in CppValue : CppParseReplace(a, v)
      PROVE  /\ MayRewind(arenas[a].owner)
             /\ \E as, vs : Settle(RewoundOf(arenas[a].owner), as, vs)
  BY <1>2 DEF CppReset, CppParseReplace, Assign
<1>3. ASSUME \/ \E a, b \in CppArena : CppMoveArena(a, b)
             \/ \E a \in CppArena : CppDropArena(a)
             \/ \E a \in CppArena, v \in CppValue : CppParse(a, v)
             \/ \E a \in CppArena, u, v \in CppValue : CppClone(a, u, v)
             \/ \E u, v \in CppValue : CppChild(u, v)
             \/ \E u, v \in CppValue : CppCopy(u, v)
             \/ \E u, v \in CppValue : CppMoveValue(u, v)
      PROVE  \E as, vs : Settle(storage, as, vs)
  BY <1>3 DEF CppMoveArena, CppDropArena, CppParse, CppClone, CppChild,
              CppCopy, CppMoveValue, Assign
<1> QED BY <1>1, <1>2, <1>3 DEF CppNext

THEOREM CppStorageLater ==
  CppInv /\ CppNext => \A s \in Storages : Later(storage[s], storage'[s])
<1> SUFFICES ASSUME CppInv, CppNext, NEW s \in Storages
             PROVE  Later(storage[s], storage'[s])
  OBVIOUS
<1>1. /\ storage \in [Storages -> StorageRecord]
      /\ \A t \in Storages : StorageSound(storage[t])
      /\ \A a \in CppArena : ArenaSound(storage, arenas[a])
  BY DEF CppInv, HandleInv
<1>2. PICK state, as, vs :
        /\ Settle(state, as, vs)
        /\ \/ state = storage
           \/ \E a \in CppArena : /\ MayRewind(arenas[a].owner)
                                  /\ state = RewoundOf(arenas[a].owner)
           \/ \E t \in Storages : /\ storage[t].life = "none"
                                  /\ state = [storage EXCEPT ![t].life = "live"]
  BY CppSettles
<1>3. /\ state[s] \in StorageRecord
      /\ Later(storage[s], state[s])
  <2>1. CASE state = storage
    BY <1>1, <2>1 DEF Later, StorageRecord
  <2>2. ASSUME NEW a \in CppArena, MayRewind(arenas[a].owner),
               state = RewoundOf(arenas[a].owner)
        PROVE  state[s] \in StorageRecord /\ Later(storage[s], state[s])
    <3>1. CASE arenas[a].owner = NoOwner \/ s # arenas[a].owner
      <4>1. state[s] = storage[s]
        BY <1>1, <2>2, <3>1 DEF RewoundOf
      <4> QED BY <1>1, <4>1 DEF Later, StorageRecord
    <3>2. CASE arenas[a].owner # NoOwner /\ s = arenas[a].owner
      <4>1. /\ state[s] = Rewound(storage[s])
            /\ storage[s].generation < MaxGeneration
            /\ storage[s].life = "live"
        BY <1>1, <2>2, <3>2 DEF RewoundOf, MayRewind, ArenaSound
      <4>2. StorageSound(storage[s]) /\ StorageSound(Rewound(storage[s]))
        BY <1>1, <4>1, RewoundSound
      <4>3. /\ Rewound(storage[s]).life = "live"
            /\ Rewound(storage[s]).incarnation = storage[s].incarnation + 1
        BY <1>1, <4>1, RewoundSound
      <4> QED BY <4>1, <4>2, <4>3 DEF Later, StorageSound, StorageRecord
    <3> QED BY <3>1, <3>2
  <2>3. ASSUME NEW t \in Storages, storage[t].life = "none",
               state = [storage EXCEPT ![t].life = "live"]
        PROVE  state[s] \in StorageRecord /\ Later(storage[s], state[s])
    BY <1>1, <2>3 DEF Later, StorageRecord
  <2> QED BY <1>2, <2>1, <2>2, <2>3
<1>4. \/ storage'[s] = state[s]
      \/ /\ state[s].life = "live"
         /\ storage'[s] = [state[s] EXCEPT !.life = "gone"]
  BY <1>2 DEF Settle
<1> QED BY <1>3, <1>4 DEF Later, StorageRecord

(***************************************************************************)
(* The Python Document.                                                    *)
(***************************************************************************)

Reading == {"root", "read", "measure", "write"}
Inside  == Reading \cup {"look", "free", "clear", "release"}

PyRecord == [pc : Inside \cup {"init", "idle", "acquire"}, call : PyCall,
             reads : Int, calls : Nat, raised : BOOLEAN]

PyTypes ==
  /\ native \in [struct : Lives, arena : Lives]
  /\ handle \in BOOLEAN
  /\ lock \in PyThread \cup {Nobody}
  /\ holders \subseteq PyThread
  /\ py \in [PyThread -> PyRecord]
  /\ \A t \in PyThread : py[t].pc \in Reading => py[t].call # "close"

\* Before __init__ is done nobody else knows of the Document.
MakerAlone ==
  \A t \in PyThread : At(t, "init") =>
    /\ native.struct = "none" /\ native.arena = "none"
    /\ ~handle
    /\ holders = {t}
    /\ \A u \in PyThread \ {t} : At(u, "idle")

\* with self._lock: one thread at a time, and only while it is inside.
Exclusive == \A t \in PyThread : py[t].pc \in Inside <=> lock = t

NativeIs(life) == native.struct = life /\ native.arena = life

\* The handle leads to a live document, except for the one who has freed it;
\* without a handle nothing is left.
HandleLeads ==
  /\ handle => NativeIs("live") \/ \E t \in PyThread : At(t, "clear")
  /\ ~handle => native.struct # "live" /\ native.arena # "live"
  /\ \A t \in PyThread :
       /\ py[t].pc \in Reading \cup {"free"} => handle /\ NativeIs("live")
       /\ At(t, "clear") => handle /\ NativeIs("gone")

\* The last reference is gone: then the close of __del__ is on its way.
Finalized ==
  holders = {} /\ handle =>
    \E t \in PyThread : /\ py[t].call = "close"
                        /\ py[t].pc \in {"acquire", "look", "free", "clear"}

PyInv == PyTypes /\ MakerAlone /\ Exclusive /\ HandleLeads /\ Finalized

THEOREM PyInvInit == PyStart => PyInv
<1> SUFFICES ASSUME PyStart PROVE PyInv
  OBVIOUS
<1> USE PyAssumption DEF PyStart
<1>1. native = [struct |-> "none", arena |-> "none"]
  BY DEF Native
<1>2. \A t \in PyThread :
        /\ py[t] \in PyRecord
        /\ py[t].pc = IF t = PyMaker THEN "init" ELSE "idle"
  BY DEF PyRecord, PyCall
<1>3. PyTypes
  BY <1>1, <1>2 DEF PyTypes, Lives, Reading
<1> QED BY <1>1, <1>2, <1>3
    DEF PyInv, MakerAlone, Exclusive, HandleLeads, Finalized, At, Inside, Reading

LEMMA PyInitInv ==
  ASSUME PyInv, NEW t \in PyThread, PyInit(t)
  PROVE  PyInv'
<1> USE DEF PyInv
<1>1. /\ At(t, "init") /\ native' \in FfiParsed(native)
      /\ handle' = (native'.struct = "live")
      /\ holders' = IF handle' THEN PyThread ELSE {t}
      /\ lock' = lock
      /\ py' = [py EXCEPT ![t].pc = "idle", ![t].raised = ~handle']
  BY DEF PyInit
<1>2. /\ native' \in [struct : Lives, arena : Lives]
      /\ native'.struct = "live" => native'.arena = "live"
      /\ native'.struct # "live" => native'.arena # "live"
  BY <1>1 DEF FfiParsed, FfiFree, PyReleased, Lives
<1>3. /\ \A u \in PyThread : py'[u] \in PyRecord /\ py'[u].pc = "idle"
      /\ py' \in [PyThread -> PyRecord]
  <2>1. py'[t] \in PyRecord /\ py'[t].pc = "idle"
    BY <1>1 DEF PyTypes, PyRecord
  <2>2. \A u \in PyThread \ {t} : py'[u] = py[u] /\ At(u, "idle")
    BY <1>1 DEF PyTypes, MakerAlone
  <2> QED BY <1>1, <2>1, <2>2 DEF PyTypes, At
<1>4. PyTypes'
  BY <1>1, <1>2, <1>3 DEF PyTypes, Reading
<1>5. lock \notin PyThread
  BY <1>1 DEF Exclusive, MakerAlone, At, Inside, Reading
<1>6. Exclusive'
  BY <1>1, <1>3, <1>5 DEF Exclusive, Inside, Reading
<1>7. HandleLeads'
  BY <1>1, <1>2, <1>3 DEF HandleLeads, NativeIs, At, Reading
<1>8. MakerAlone' /\ Finalized'
  BY <1>1, <1>3 DEF MakerAlone, Finalized, At
<1> QED BY <1>4, <1>6, <1>7, <1>8

\* What a step of t alone does to the records of the threads.
LEMMA PyMoved ==
  ASSUME PyInv, NEW t \in PyThread, NEW rec \in PyRecord,
         py' = [py EXCEPT ![t] = rec]
  PROVE  /\ py' \in [PyThread -> PyRecord]
         /\ py'[t] = rec
         /\ \A u \in PyThread \ {t} : py'[u] = py[u]
BY DEF PyInv, PyTypes

\* Once a thread does anything but __init__, nobody is there any more.
LEMMA MadeAlready ==
  ASSUME PyInv, NEW t \in PyThread,
         \/ ~At(t, "init") /\ ~At(t, "idle")
         \/ At(t, "idle") /\ t \in holders
  PROVE  \A u \in PyThread : ~At(u, "init")
BY DEF PyInv, MakerAlone, At

LEMMA CallsInv ==
  ASSUME PyInv, NEW t \in PyThread, NEW call \in PyCall, PyCalls(t, call)
  PROVE  PyInv'
<1> DEFINE rec == [py[t] EXCEPT !.pc = "acquire", !.call = call,
                                !.calls = py[t].calls + 1]
<1> USE DEF PyInv
<1>1. /\ At(t, "idle") /\ t \in holders
      /\ py' = [py EXCEPT ![t] = rec]
      /\ native' = native /\ handle' = handle /\ lock' = lock
      /\ holders' = holders
  BY DEF PyCalls
<1>2. rec \in PyRecord /\ rec.pc = "acquire"
  <2> DEFINE once == [py[t] EXCEPT !.pc = "acquire", !.call = call]
  <2>1. once \in PyRecord /\ once.pc = "acquire" /\ once.calls = py[t].calls
    BY DEF PyTypes, PyRecord, Inside
  <2>2. py[t].calls + 1 \in Nat
    BY DEF PyTypes, PyRecord
  <2>3. rec = [once EXCEPT !.calls = py[t].calls + 1]
    OBVIOUS
  <2> HIDE DEF once, rec
  <2> QED BY <2>1, <2>2, <2>3 DEF PyRecord
<1> HIDE DEF rec
<1>3. /\ py' \in [PyThread -> PyRecord]
      /\ py'[t] = rec
      /\ \A u \in PyThread \ {t} : py'[u] = py[u]
  BY <1>1, <1>2, PyMoved
<1>4. PyTypes'
  BY <1>1, <1>2, <1>3 DEF PyTypes, Reading
<1>5. MakerAlone'
  BY <1>1, <1>2, <1>3, MadeAlready DEF MakerAlone, At
<1>6. Exclusive'
  BY <1>1, <1>2, <1>3 DEF Exclusive, At, Inside, Reading
<1>7. HandleLeads'
  BY <1>1, <1>2, <1>3 DEF HandleLeads, NativeIs, At, Reading
<1>8. Finalized'
  BY <1>1 DEF Finalized
<1> QED BY <1>4, <1>5, <1>6, <1>7, <1>8

LEMMA DropInv ==
  ASSUME PyInv, NEW t \in PyThread, PyDrop(t)
  PROVE  PyInv'
<1> USE DEF PyInv
<1>1. /\ At(t, "idle") /\ t \in holders
      /\ native' = native /\ handle' = handle /\ lock' = lock
      /\ holders' = holders \ {t}
  BY DEF PyDrop
<1>2. CASE holders' # {}
  <2>1. py' = py
    BY <1>2 DEF PyDrop
  <2>2. MakerAlone'
    BY <1>1, <2>1, MadeAlready DEF MakerAlone, At
  <2> QED BY <1>1, <1>2, <2>1, <2>2
      DEF PyTypes, Exclusive, HandleLeads, NativeIs, Finalized, At
<1>3. CASE holders' = {}
  <2> DEFINE rec == [py[t] EXCEPT !.pc = "acquire", !.call = "close"]
  <2>1. py' = [py EXCEPT ![t] = rec]
    BY <1>3 DEF PyDrop
  <2>2. rec \in PyRecord /\ rec.pc = "acquire" /\ rec.call = "close"
    BY DEF PyTypes, PyRecord, Inside, PyCall
  <2> HIDE DEF rec
  <2>3. /\ py' \in [PyThread -> PyRecord]
        /\ py'[t] = rec
        /\ \A u \in PyThread \ {t} : py'[u] = py[u]
    BY <2>1, <2>2, PyMoved
  <2>4. PyTypes'
    BY <1>1, <2>2, <2>3 DEF PyTypes, Reading
  <2>5. MakerAlone'
    BY <1>1, <2>2, <2>3, MadeAlready DEF MakerAlone, At
  <2>6. Exclusive'
    BY <1>1, <2>2, <2>3 DEF Exclusive, At, Inside, Reading
  <2>7. HandleLeads'
    BY <1>1, <2>2, <2>3 DEF HandleLeads, NativeIs, At, Reading
  <2>8. Finalized'
    BY <2>2, <2>3 DEF Finalized
  <2> QED BY <2>4, <2>5, <2>6, <2>7, <2>8
<1> QED BY <1>2, <1>3

LEMMA AcquireInv ==
  ASSUME PyInv, NEW t \in PyThread, PyAcquire(t)
  PROVE  PyInv'
<1> DEFINE rec == [py[t] EXCEPT !.pc = "look"]
<1> USE DEF PyInv
<1>1. /\ At(t, "acquire") /\ lock \in {Nobody, t} /\ lock' = t
      /\ py' = [py EXCEPT ![t] = rec]
      /\ native' = native /\ handle' = handle /\ holders' = holders
  BY DEF PyAcquire, MayAcquire, GoOn
<1>2. rec \in PyRecord /\ rec.pc = "look" /\ rec.call = py[t].call
  BY DEF PyTypes, PyRecord, Inside
<1> HIDE DEF rec
<1>3. /\ py' \in [PyThread -> PyRecord]
      /\ py'[t] = rec
      /\ \A u \in PyThread \ {t} : py'[u] = py[u]
  BY <1>1, <1>2, PyMoved
<1>4. PyTypes'
  BY <1>1, <1>2, <1>3 DEF PyTypes, Reading
<1>5. MakerAlone'
  BY <1>1, <1>2, <1>3, MadeAlready DEF MakerAlone, At
<1>6. Exclusive'
  BY <1>1, <1>2, <1>3, PyAssumption DEF Exclusive, At, Inside
<1>7. HandleLeads'
  BY <1>1, <1>2, <1>3 DEF HandleLeads, NativeIs, At, Reading
<1>8. Finalized'
  BY <1>1, <1>2, <1>3 DEF Finalized, At
<1> QED BY <1>4, <1>5, <1>6, <1>7, <1>8

\* A step under the lock that leaves the document as it is.
LEMMA InsideInv ==
  ASSUME PyInv, NEW t \in PyThread, NEW rec \in PyRecord,
         py[t].pc \in Inside, py[t].pc \notin {"free", "clear"},
         rec.pc \in Inside,
         rec.call = py[t].call,
         rec.pc \in Reading \cup {"free"} => handle /\ NativeIs("live"),
         rec.pc # "clear", rec.pc \in Reading => rec.call # "close",
         At(t, "look") /\ rec.call = "close" /\ handle => rec.pc = "free",
         py' = [py EXCEPT ![t] = rec],
         UNCHANGED <<native, handle, lock, holders>>
  PROVE  PyInv'
<1> USE DEF PyInv
<1>1. /\ py' \in [PyThread -> PyRecord]
      /\ py'[t] = rec
      /\ \A u \in PyThread \ {t} : py'[u] = py[u]
      /\ native' = native /\ handle' = handle /\ lock' = lock
      /\ holders' = holders
  BY PyMoved
<1>2. PyTypes'
  BY <1>1 DEF PyTypes
<1>3. MakerAlone'
  BY <1>1, MadeAlready DEF MakerAlone, At, Inside, Reading
<1>4. Exclusive'
  BY <1>1 DEF Exclusive
<1>5. HandleLeads'
  BY <1>1 DEF HandleLeads, NativeIs, At
<1>6. Finalized'
  BY <1>1 DEF Finalized, At, Inside, Reading
<1> QED BY <1>2, <1>3, <1>4, <1>5, <1>6

LEMMA LookInv ==
  ASSUME PyInv, NEW t \in PyThread, PyLook(t)
  PROVE  PyInv'
<1> DEFINE next == IF ~handle THEN "release"
                   ELSE IF py[t].call = "close" THEN "free" ELSE "root"
           rec  == [py[t] EXCEPT !.pc = next]
<1>1. /\ At(t, "look") /\ py' = [py EXCEPT ![t] = rec]
      /\ UNCHANGED <<native, handle, lock, holders>>
  BY DEF PyLook, GoOn
<1>2. /\ next \in {"release", "free", "root"}
      /\ handle <=> next # "release"
      /\ py[t].call = "close" => next # "root"
      /\ py[t].call = "close" /\ handle => next = "free"
  BY DEF PyInv, PyTypes
<1>3. lock = t
  BY <1>1 DEF PyInv, Exclusive, At, Inside
\* Who cleared would have the lock.
<1>4. handle => NativeIs("live")
  BY <1>1, <1>3 DEF PyInv, HandleLeads, Exclusive, At, Inside
<1> HIDE DEF next
<1>5. rec \in PyRecord /\ rec.pc = next /\ rec.call = py[t].call
  BY <1>2 DEF PyInv, PyTypes, PyRecord, Inside, Reading
<1> HIDE DEF rec
<1> QED BY <1>1, <1>2, <1>4, <1>5, InsideInv DEF At, Inside, Reading

\* A native read, or an exception instead of one.
LEMMA ReadInv ==
  ASSUME PyInv, NEW t \in PyThread,
         PyRoot(t) \/ PyRead(t) \/ PyMeasure(t) \/ PyWrite(t) \/ PyRaises(t)
  PROVE  PyInv'
<1>1. /\ py[t].pc \in Reading
      /\ UNCHANGED <<native, handle, lock, holders>>
  BY DEF PyRoot, PyRead, PyMeasure, PyWrite, PyRaises, At, Reading
<1>2. py[t] \in PyRecord /\ handle /\ NativeIs("live")
  BY <1>1 DEF PyInv, PyTypes, HandleLeads
<1> DEFINE Continues ==
             \E rec \in PyRecord : /\ py' = [py EXCEPT ![t] = rec]
                                  /\ rec.pc \in Reading \cup {"release"}
                                  /\ rec.call = py[t].call
<1>3. ASSUME NEW pc \in Reading \cup {"release"}, GoOn(t, pc)
      PROVE  Continues
  <2> DEFINE rec == [py[t] EXCEPT !.pc = pc]
  <2>1. rec \in PyRecord /\ rec.pc = pc /\ rec.call = py[t].call
    BY <1>2, <1>3 DEF PyRecord, Inside, Reading
  <2> QED BY <1>3, <2>1 DEF GoOn
<1>4. ASSUME PyMeasure(t) \/ PyWrite(t) \/ PyRaises(t) PROVE Continues
  BY <1>3, <1>4 DEF PyMeasure, PyWrite, PyRaises, Raised, Reading
<1>5. ASSUME NEW pc \in Reading \cup {"release"}, NEW reads \in Int,
             \/ py' = [py EXCEPT ![t].pc = pc, ![t].reads = reads]
             \/ py' = [py EXCEPT ![t].reads = reads, ![t].pc = pc]
      PROVE  Continues
  <2> DEFINE rec == py'[t]
  <2>1. rec \in PyRecord /\ rec.pc = pc /\ rec.call = py[t].call
    BY <1>2, <1>5 DEF PyRecord, Inside, Reading, PyInv, PyTypes
  <2>2. py' = [py EXCEPT ![t] = rec]
    BY <1>5 DEF PyInv, PyTypes
  <2> QED BY <2>1, <2>2
<1>6. ASSUME PyRoot(t) PROVE Continues
  <2> DEFINE pc == CASE py[t].call = "enter"     -> "release"
                     [] py[t].call = "to_python" -> "read"
                     [] py[t].call = "serialize" -> "measure"
  <2>1. py[t].call \in PyCall \ {"close"}
    BY <1>1, <1>2 DEF PyInv, PyTypes, PyRecord
  <2>2. pc \in Reading \cup {"release"}
    BY <2>1 DEF PyCall, Reading
  <2>3. py' = [py EXCEPT ![t].pc = pc, ![t].reads = PyReads]
    BY <1>6 DEF PyRoot
  <2> HIDE DEF pc
  <2>4. PyReads \in Int
    BY PyAssumption
  <2> HIDE DEF Continues
  <2> QED BY <1>5, <2>2, <2>3, <2>4
<1>7. ASSUME PyRead(t) PROVE Continues
  <2> DEFINE pc == IF py[t].reads = 1 THEN "release" ELSE "read"
  <2>1. py' = [py EXCEPT ![t].reads = py[t].reads - 1, ![t].pc = pc]
    BY <1>7 DEF PyRead
  <2>2. pc \in Reading \cup {"release"} /\ py[t].reads - 1 \in Int
    BY <1>2 DEF Reading, PyRecord
  <2> HIDE DEF pc
  <2> QED BY <1>5, <2>1, <2>2
<1>8. Continues
  BY <1>4, <1>6, <1>7
<1>9. py[t].call # "close"
  BY <1>1 DEF PyInv, PyTypes
<1> QED BY <1>1, <1>2, <1>8, <1>9, InsideInv DEF At, Inside, Reading

LEMMA FreeInv ==
  ASSUME PyInv, NEW t \in PyThread, PyFree(t)
  PROVE  PyInv'
<1> DEFINE rec == [py[t] EXCEPT !.pc = "clear"]
<1> USE DEF PyInv
<1>1. /\ At(t, "free") /\ native' = FfiFree(native)
      /\ py' = [py EXCEPT ![t] = rec]
      /\ handle' = handle /\ lock' = lock /\ holders' = holders
  BY DEF PyFree, GoOn
<1>2. rec \in PyRecord /\ rec.pc = "clear" /\ rec.call = py[t].call
  BY DEF PyTypes, PyRecord, Inside
<1> HIDE DEF rec
<1>3. /\ py' \in [PyThread -> PyRecord]
      /\ py'[t] = rec
      /\ \A u \in PyThread \ {t} : py'[u] = py[u]
  BY <1>1, <1>2, PyMoved
<1>4. handle /\ NativeIs("live") /\ lock = t
  BY <1>1 DEF HandleLeads, Exclusive, At, Inside
<1>5. native' = [struct |-> "gone", arena |-> "gone"]
  BY <1>1, <1>4 DEF FfiFree, PyReleased, NativeIs
<1>6. PyTypes'
  BY <1>1, <1>2, <1>3, <1>5 DEF PyTypes, Lives, Reading
<1>7. MakerAlone'
  BY <1>1, <1>2, <1>3, MadeAlready DEF MakerAlone, At
<1>8. Exclusive'
  BY <1>1, <1>2, <1>3 DEF Exclusive, At, Inside
<1>9. HandleLeads'
  <2>1. \A u \in PyThread \ {t} : py'[u].pc \notin Inside
    BY <1>3, <1>4 DEF Exclusive
  <2>2. \A u \in PyThread \ {t} : /\ py'[u].pc \notin Reading \cup {"free"}
                                 /\ py'[u].pc # "clear"
    BY <2>1 DEF Inside
  <2> QED BY <1>1, <1>2, <1>3, <1>4, <1>5, <2>2
      DEF HandleLeads, NativeIs, At, Reading
<1>10. Finalized'
  BY <1>1, <1>2, <1>3 DEF Finalized, At
<1> QED BY <1>6, <1>7, <1>8, <1>9, <1>10

LEMMA ClearInv ==
  ASSUME PyInv, NEW t \in PyThread, PyClear(t)
  PROVE  PyInv'
<1> DEFINE rec == [py[t] EXCEPT !.pc = "release"]
<1> USE DEF PyInv
<1>1. /\ At(t, "clear") /\ native' = native /\ handle' = FALSE
      /\ py' = [py EXCEPT ![t] = rec]
      /\ lock' = lock /\ holders' = holders
  BY DEF PyClear, GoOn
<1>2. rec \in PyRecord /\ rec.pc = "release" /\ rec.call = py[t].call
  BY DEF PyTypes, PyRecord, Inside
<1> HIDE DEF rec
<1>3. /\ py' \in [PyThread -> PyRecord]
      /\ py'[t] = rec
      /\ \A u \in PyThread \ {t} : py'[u] = py[u]
  BY <1>1, <1>2, PyMoved
<1>4. NativeIs("gone") /\ lock = t
  BY <1>1 DEF HandleLeads, Exclusive, At, Inside
<1>5. PyTypes'
  BY <1>1, <1>2, <1>3 DEF PyTypes, Reading
<1>6. MakerAlone'
  BY <1>1, <1>2, <1>3, MadeAlready DEF MakerAlone, At
<1>7. Exclusive'
  BY <1>1, <1>2, <1>3 DEF Exclusive, At, Inside
<1>8. HandleLeads'
  <2>1. \A u \in PyThread \ {t} : py'[u].pc \notin Inside
    BY <1>3, <1>4 DEF Exclusive
  <2>2. \A u \in PyThread \ {t} : /\ py'[u].pc \notin Reading \cup {"free"}
                                 /\ py'[u].pc # "clear"
    BY <2>1 DEF Inside
  <2> QED BY <1>1, <1>2, <1>3, <1>4, <2>2 DEF HandleLeads, NativeIs, At, Reading
<1>9. Finalized'
  BY <1>1 DEF Finalized
<1> QED BY <1>5, <1>6, <1>7, <1>8, <1>9

LEMMA ReleaseInv ==
  ASSUME PyInv, NEW t \in PyThread, PyRelease(t)
  PROVE  PyInv'
<1> DEFINE rec == [py[t] EXCEPT !.pc = "idle"]
<1> USE DEF PyInv
<1>1. /\ At(t, "release") /\ lock' = Nobody
      /\ py' = [py EXCEPT ![t] = rec]
      /\ native' = native /\ handle' = handle /\ holders' = holders
  BY DEF PyRelease, GoOn
<1>2. rec \in PyRecord /\ rec.pc = "idle" /\ rec.call = py[t].call
  BY DEF PyTypes, PyRecord
<1> HIDE DEF rec
<1>3. /\ py' \in [PyThread -> PyRecord]
      /\ py'[t] = rec
      /\ \A u \in PyThread \ {t} : py'[u] = py[u]
  BY <1>1, <1>2, PyMoved
<1>4. PyTypes'
  BY <1>1, <1>2, <1>3 DEF PyTypes, Reading
<1>5. MakerAlone'
  BY <1>1, <1>2, <1>3, MadeAlready DEF MakerAlone, At
<1>6. Exclusive'
  BY <1>1, <1>2, <1>3, PyAssumption DEF Exclusive, At, Inside, Reading
<1>7. HandleLeads'
  BY <1>1, <1>2, <1>3 DEF HandleLeads, NativeIs, At, Reading
<1>8. Finalized'
  BY <1>1, <1>2, <1>3 DEF Finalized, At
<1> QED BY <1>4, <1>5, <1>6, <1>7, <1>8

THEOREM PyInvNext == PyInv /\ [PyNext]_pyVars => PyInv'
<1> SUFFICES ASSUME PyInv, [PyNext]_pyVars PROVE PyInv'
  OBVIOUS
<1>1. CASE UNCHANGED pyVars
  BY <1>1 DEF pyVars, PyInv, PyTypes, MakerAlone, Exclusive, HandleLeads,
              NativeIs, Finalized, At
<1>2. ASSUME NEW t \in PyThread, PyStep(t) PROVE PyInv'
  BY <1>2, PyInitInv, AcquireInv, LookInv, ReadInv, FreeInv, ClearInv, ReleaseInv
     DEF PyStep
<1> QED BY <1>1, <1>2, CallsInv, DropInv DEF PyNext

\* The document and its arena do not come back, and are freed once.
THEOREM PyNativeLater ==
  PyInv /\ PyNext =>
    \A part \in Native : /\ native[part] = "live" => native'[part] # "none"
                         /\ native[part] = "gone" => native'[part] = "gone"
<1> SUFFICES ASSUME PyInv, NEW t \in PyThread,
                    \/ PyStep(t) \/ PyDrop(t)
                    \/ \E call \in PyCall : PyCalls(t, call)
             PROVE  \A part \in Native :
                      /\ native[part] = "live" => native'[part] # "none"
                      /\ native[part] = "gone" => native'[part] = "gone"
  BY DEF PyNext
<1>1. CASE PyInit(t)
  BY <1>1 DEF PyInit, PyInv, MakerAlone, Native
<1>2. CASE PyFree(t)
  <2>1. NativeIs("live")
    BY <1>2 DEF PyFree, PyInv, HandleLeads, At
  <2>2. native' = [struct |-> "gone", arena |-> "gone"]
    BY <1>2, <2>1 DEF PyFree, FfiFree, PyReleased, NativeIs
  <2> QED BY <2>1, <2>2 DEF NativeIs, Native
<1>3. CASE native' = native
  BY <1>3
<1> QED BY <1>1, <1>2, <1>3
    DEF PyStep, PyDrop, PyCalls, PyAcquire, PyLook, PyRoot, PyRead, PyMeasure,
        PyWrite, PyRaises, PyClear, PyRelease

(***************************************************************************)
(* The three together.                                                     *)
(***************************************************************************)

\* The inductive invariant.
BindingsInv == CjInv /\ CppInv /\ PyInv

THEOREM BindingsInvInit == Init => BindingsInv
BY CjInvInit, CppInvInit, PyInvInit DEF Init, BindingsInv

\* A step is a step of one binding, and none of the others.
LEMMA OneBinding ==
  ASSUME [Next]_vars
  PROVE  \/ CjNext /\ UNCHANGED cppVars /\ UNCHANGED pyVars
         \/ CppNext /\ UNCHANGED cjVars /\ UNCHANGED pyVars
         \/ PyNext /\ UNCHANGED cjVars /\ UNCHANGED cppVars
         \/ UNCHANGED cjVars /\ UNCHANGED cppVars /\ UNCHANGED pyVars
BY DEF Next, vars

THEOREM BindingsInvNext == BindingsInv /\ [Next]_vars => BindingsInv'
<1> SUFFICES ASSUME BindingsInv, [Next]_vars PROVE BindingsInv'
  OBVIOUS
<1>1. [CjNext]_cjVars /\ [PyNext]_pyVars /\ (CppNext \/ UNCHANGED cppVars)
  BY OneBinding
<1> QED BY <1>1, CjInvNext, CppInvNext, CppInvStutter, PyInvNext DEF BindingsInv

THEOREM BindingsInvariant == Spec => []BindingsInv
BY BindingsInvInit, BindingsInvNext, PTL DEF Spec

\* A C++ Value that was not moved from answers get() with its node exactly as
\* long as the node is there, however often its arena, or another, is reset.
THEOREM StaleIsEmpty == Spec => []CppStaleIsEmpty
<1>1. BindingsInv => CppStaleIsEmpty
  BY CppInvStale DEF BindingsInv
<1> QED BY <1>1, BindingsInvariant, PTL

\* With the last wrapper, handle or reference the memory is gone, in each of
\* the bindings and on every path on which making it failed half way.
THEOREM NothingOutlives == Spec => []ReclaimedWithLast
<1>1. CjInv => CjReclaimed
  BY DEF CjInv, DocSound, CjReclaimed
<1>2. PyInv => PyReclaimed
  BY DEF PyInv, PyReclaimed, HandleLeads, Finalized, At, Native
<1>3. BindingsInv => ReclaimedWithLast
  BY <1>1, <1>2 DEF BindingsInv, CppInv, ReclaimedWithLast
<1> QED BY <1>3, BindingsInvariant, PTL

\* While a thread is in a native call on the document, or about to use what
\* one returned, no other frees it, and the document is there.
ReadsAreSafe ==
  \A t \in PyThread : py[t].pc \in Reading =>
    /\ NativeIs("live")
    /\ \A u \in PyThread : ~At(u, "free") /\ ~At(u, "clear")

THEOREM CloseExcludesReads == Spec => []ReadsAreSafe
<1>1. ASSUME PyInv, NEW t \in PyThread, NEW u \in PyThread,
             py[t].pc \in Reading, At(u, "free") \/ At(u, "clear")
      PROVE  FALSE
  BY <1>1 DEF PyInv, Exclusive, At, Inside, Reading
<1>2. BindingsInv => ReadsAreSafe
  BY <1>1 DEF BindingsInv, PyInv, HandleLeads, ReadsAreSafe
<1> QED BY <1>2, BindingsInvariant, PTL

(***************************************************************************)
(* The refinement.                                                         *)
(***************************************************************************)

LEMMA ResourceCases ==
  ASSUME NEW r \in Resource
  PROVE  \/ r[1] = "cjson" /\ r[2] \in 1..CjDocs
         \/ r[1] = "cpp" /\ r[2] \in Storages /\ r[3] \in 0..MaxGeneration
         \/ r[1] = "python" /\ r[2] \in Native
BY DEF Resource

\* A resource is nowhere, there or gone, and used only while it is there.
Leased(r) ==
  /\ Life(r) \in Lives
  /\ Life(r) # "live" => Users(r) = {}
  /\ Users(r) \subseteq CjItem \cup CppArena \cup CppValue \cup PyThread

LeaseSound == \A r \in Resource : Leased(r)

LEMMA LeaseTypes == BindingsInv => LeaseSound
<1> SUFFICES ASSUME BindingsInv, NEW r \in Resource PROVE Leased(r)
  BY DEF LeaseSound
<1> USE DEF Leased
<1>1. CASE r[1] = "cjson" /\ r[2] \in 1..CjDocs
  <2>1. DocSound(cjDoc[r[2]], CjUsers(r[2]))
    BY <1>1 DEF BindingsInv, CjInv
  <2>2. Life(r) = cjDoc[r[2]].arena /\ Users(r) = CjUsers(r[2])
    BY <1>1 DEF Life, Users
  <2> QED BY <2>1, <2>2 DEF DocSound, CjDocRecord, CjUsers
<1>2. CASE r[1] = "cpp" /\ r[2] \in Storages /\ r[3] \in 0..MaxGeneration
  <2> DEFINE s == r[2]
             i == r[3]
  <2>1. Life(r) = CppLife(s, i) /\ Users(r) = CppUsers(s, i)
    BY <1>2 DEF Life, Users
  <2>2. StorageSound(storage[s])
    BY <1>2 DEF BindingsInv, CppInv, HandleInv
  <2>3. CppLife(s, i) \in Lives
    BY <2>2 DEF CppLife, StorageSound, StorageRecord, Lives
  <2>4. ASSUME NEW a \in CppArena, arenas[a].owner = s,
               storage[s].incarnation = i
        PROVE  CppLife(s, i) = "live"
    <3>1. storage[s].life = "live"
      BY <1>2, <2>4, OwnerFacts DEF BindingsInv, CppInv, HandleInv, ArenaSound
    <3> QED BY <1>2, <2>4, <3>1 DEF CppLife
  <2>5. ASSUME NEW v \in CppValue, ~values[v].moved,
               CppGet(values[v]) = [owner |-> s, incarnation |-> i]
        PROVE  CppLife(s, i) = "live"
    <3>1. ValueSound(storage, values[v])
      BY DEF BindingsInv, CppInv, HandleInv
    <3>2. CppGet(values[v]).owner = s /\ CppGet(values[v]).incarnation = i
      BY <2>5
    <3>3. CppGet(values[v]) # NoNode
      BY <1>2, <3>2, OwnerFacts DEF NoNode
    <3>4. storage[s].life = "live" /\ storage[s].generation = i
      BY <2>5, <3>1, <3>2, <3>3, CppGetSound
    <3> QED BY <1>2, <2>2, <3>4 DEF CppLife, StorageSound
  <2>6. CppUsers(s, i) # {} => CppLife(s, i) = "live"
    BY <2>4, <2>5 DEF CppUsers
  <2>7. CppUsers(s, i) \subseteq CppArena \cup CppValue
    BY DEF CppUsers
  <2> QED BY <2>1, <2>3, <2>6, <2>7
<1>3. CASE r[1] = "python" /\ r[2] \in Native
  <2>1. Life(r) = native[r[2]] /\ Users(r) = PyUsers
    BY <1>3 DEF Life, Users
  <2>2. native[r[2]] \in Lives
    BY <1>3 DEF BindingsInv, PyInv, PyTypes, Native
  <2>3. PyUsers # {} => native[r[2]] = "live"
    BY <1>3 DEF PyUsers, BindingsInv, PyInv, HandleLeads, NativeIs, Native, Reading
  <2> QED BY <2>1, <2>2, <2>3 DEF PyUsers
<1> QED BY <1>1, <1>2, <1>3, ResourceCases

LEMMA LeaseTypesNext == BindingsInv' => LeaseSound'
BY LeaseTypes, PTL

\* What is gone stays gone, and what was there is not forgotten.
LEMMA LeaseLater ==
  ASSUME BindingsInv, BindingsInv', [Next]_vars, NEW r \in Resource
  PROVE  /\ Life(r) = "live" => Life(r)' # "none"
         /\ Life(r) = "gone" => Life(r)' = "gone"
<1>1. CASE r[1] = "cjson" /\ r[2] \in 1..CjDocs
  <2>1. Life(r) = cjDoc[r[2]].arena /\ Life(r)' = cjDoc'[r[2]].arena
    BY <1>1 DEF Life
  <2>2. CjNext \/ cjDoc' = cjDoc
    BY OneBinding DEF cjVars
  <2> QED BY <1>1, <2>1, <2>2, CjArenaLater DEF BindingsInv
<1>2. CASE r[1] = "cpp" /\ r[2] \in Storages /\ r[3] \in 0..MaxGeneration
  <2>1. Life(r) = CppLife(r[2], r[3]) /\ Life(r)' = CppLife(r[2], r[3])'
    BY <1>2 DEF Life
  <2>2. /\ StorageSound(storage[r[2]])
        /\ StorageSound(storage'[r[2]])
    BY <1>2 DEF BindingsInv, CppInv, HandleInv
  <2>3. CppNext \/ storage' = storage
    BY OneBinding DEF cppVars
  <2>4. Later(storage[r[2]], storage'[r[2]])
    BY <1>2, <2>2, <2>3, CppStorageLater
       DEF BindingsInv, Later, StorageSound, StorageRecord
  <2> QED BY <1>2, <2>1, <2>2, <2>4
      DEF CppLife, Later, StorageSound, StorageRecord
<1>3. CASE r[1] = "python" /\ r[2] \in Native
  <2>1. Life(r) = native[r[2]] /\ Life(r)' = native'[r[2]]
    BY <1>3 DEF Life
  <2>2. PyNext \/ native' = native
    BY OneBinding DEF pyVars
  <2> QED BY <1>3, <2>1, <2>2, PyNativeLater DEF BindingsInv
<1> QED BY <1>1, <1>2, <1>3, ResourceCases

THEOREM LeaseInit == Init => Leases!Init
<1> SUFFICES ASSUME Init, NEW r \in Resource
             PROVE  Life(r) = "none" /\ Users(r) = {}
  BY DEF Leases!Init
<1>1. BindingsInv
  BY BindingsInvInit
<1>2. Life(r) = "none"
  BY ResourceCases, CppAssumption
     DEF Init, CjInit, CppInit, PyStart, Life, CppLife, NoDoc, Native
<1> QED BY <1>1, <1>2, LeaseTypes DEF LeaseSound, Leased

\* Every step of a binding is a step of Lease for every resource.
THEOREM LeaseNext ==
  BindingsInv /\ BindingsInv' /\ [Next]_vars => Leases!Next
<1> SUFFICES ASSUME BindingsInv, BindingsInv', [Next]_vars PROVE Leases!Next
  OBVIOUS
<1> DEFINE User == CjItem \cup CppArena \cup CppValue \cup PyThread
<1>1. \A r \in Resource : Users(r)' \subseteq User
  BY LeaseTypesNext DEF LeaseSound, Leased
<1>2. ASSUME NEW r \in Resource
      PROVE  \/ Leases!Stays(r) \/ Leases!Open(r) \/ Leases!Share(r)
             \/ Leases!Close(r) \/ Leases!Abandon(r)
  <2>1. /\ Life(r) \in Lives /\ Life(r)' \in Lives
        /\ Life(r) # "live" => Users(r) = {}
        /\ Life(r)' # "live" => Users(r)' = {}
    BY LeaseTypes, LeaseTypesNext DEF LeaseSound, Leased
  <2>2. /\ Life(r) = "live" => Life(r)' # "none"
        /\ Life(r) = "gone" => Life(r)' = "gone"
    BY LeaseLater
  <2> QED BY <2>1, <2>2
      DEF Lives, Leases!Stays, Leases!Open, Leases!Share, Leases!Close,
          Leases!Abandon
<1> QED BY <1>1, <1>2 DEF Leases!Next

\* Memory that several holders use is returned once, and in the step in which
\* the last that could reach into it lets go, or later: in every order of
\* deletions, moves and resets and in every interleaving of threads.
THEOREM Refinement == Spec => ImplementsLease
BY BindingsInvariant, LeaseInit, LeaseNext, PTL
   DEF Spec, ImplementsLease, Leases!Spec
=============================================================================
