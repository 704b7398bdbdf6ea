------------------------------- MODULE Object -------------------------------
(***************************************************************************)
(* A JSON object of sJson.c: its pairs in insertion order, and the index   *)
(* json_obj_finalize builds so that json_obj_get can search by hash.       *)
(*                                                                         *)
(* The object is parsed or built by json_obj_set, finalized, changed and   *)
(* finalized again, and cloned, in any order.  Any allocation may fail.    *)
(* Keys are numbered in lexical order; Hash is json_fnv1a, which may       *)
(* collide.                                                                *)
(***************************************************************************)
EXTENDS Integers, Sequences

CONSTANTS
  Key,            \* keys, numbered in lexical order
  Hash,           \* json_fnv1a of each
  Value,          \* values
  NoValue,        \* what json_obj_get yields for JSON_ERR_NOT_FOUND
  MaxParsed,      \* how many pairs a parsed text holds
  MaxArrayLen,    \* JSON_MAX_ARRAY_LEN
  FirstCap        \* the capacity a container grows to from 0 (8 in the code)

ASSUME KeyAssumption ==
  /\ Key \subseteq Nat
  /\ Hash \in [Key -> Nat]
  /\ NoValue \notin Value
ASSUME LimitsAssumption ==
  /\ MaxParsed \in Nat
  /\ MaxArrayLen \in Nat \ {0}
  /\ FirstCap \in Nat \ {0}

VARIABLES
  repeats,        \* whether the parsed text may repeat a key
  parsed,         \* how many of the pairs json_parse delivered: the first ones
  parsing,        \* json_parse is still delivering
  pairs,          \* o->pairs[0..len-1]: records [key, val]
  cap,            \* o->cap
  idx_cap,        \* entries allocated for o->sorted_idx, 0 when it is NULL
  sorted_idx,     \* what was last written to o->sorted_idx
  is_sorted       \* o->is_sorted

vars == <<repeats, parsed, parsing, pairs, cap, idx_cap, sorted_idx, is_sorted>>

len  == Len(pairs)
Pair == [key : Key, val : Value]

(***************************************************************************)
(* json_obj_get_n                                                          *)
(***************************************************************************)

\* Mutant of Before: keys whose hashes collide are not ordered.
BeforeByHash(a, b) == Hash[a] < Hash[b]

\* json__key_cmp: by hash, then lexically.
Before(a, b) == Hash[a] < Hash[b] \/ (Hash[a] = Hash[b] /\ a < b)

\* The first pair with key k, or 0: the scan, also of json_obj_set.
Matching(k) == {i \in 1..len : pairs[i].key = k}
LinearSearch(k) ==
  IF Matching(k) = {} THEN 0
  ELSE CHOOSE i \in Matching(k) : \A j \in Matching(k) : i <= j

\* Mutant of BinarySearch: equal hashes are taken for equal keys.
BinarySearchByHash(k) ==
  LET at[range \in (1..(len + 1)) \X (0..len)] ==
        LET lo   == range[1]
            hi   == range[2]
            mid  == lo + (hi - lo) \div 2
            here == pairs[sorted_idx[mid]].key
        IN  IF lo > hi THEN 0
            ELSE IF Hash[here] = Hash[k] THEN sorted_idx[mid]
            ELSE IF Hash[here] < Hash[k] THEN at[<<mid + 1, hi>>]
            ELSE at[<<lo, mid - 1>>]
  IN  at[<<1, len>>]

\* The pair with key k the binary search over sorted_idx ends at, or 0.  A
\* range is <<lo, hi>>.
BinarySearch(k) ==
  LET at[range \in (1..(len + 1)) \X (0..len)] ==
        LET lo   == range[1]
            hi   == range[2]
            mid  == lo + (hi - lo) \div 2
            here == pairs[sorted_idx[mid]].key
        IN  IF lo > hi THEN 0
            ELSE IF here = k THEN sorted_idx[mid]
            ELSE IF Before(here, k) THEN at[<<mid + 1, hi>>]
            ELSE at[<<lo, mid - 1>>]
  IN  at[<<1, len>>]

UsesIndex == is_sorted /\ idx_cap > 0

Found(k) == IF UsesIndex THEN BinarySearch(k) ELSE LinearSearch(k)

\* json_obj_get_n
Get(k) == IF Found(k) = 0 THEN NoValue ELSE pairs[Found(k)].val

(***************************************************************************)
(* Growing.                                                                *)
(***************************************************************************)

IsFull == len >= cap

GrownCap ==
  LET twice == IF cap = 0 THEN FirstCap ELSE 2 * cap
  IN  IF twice > MaxArrayLen THEN MaxArrayLen ELSE twice

\* json__obj_grow when it succeeds.  The index is for the old capacity.
Grow ==
  /\ cap < MaxArrayLen
  /\ cap' = GrownCap
  /\ idx_cap' = 0
  /\ sorted_idx' = << >>
  /\ is_sorted' = FALSE

\* Mutant of MakeRoom: an insertion without growth leaves is_sorted standing.
MakeRoomStale(sorted) ==
  \/ IsFull /\ Grow
  \/ ~IsFull /\ UNCHANGED <<cap, idx_cap, sorted_idx, is_sorted>>

\* Room for one more pair.
MakeRoom(sorted) ==
  \/ /\ IsFull
     /\ Grow
  \/ /\ ~IsFull
     /\ is_sorted' = sorted
     /\ UNCHANGED <<cap, idx_cap, sorted_idx>>

(***************************************************************************)
(* Operations.                                                             *)
(***************************************************************************)

\* deliver_to_parent of json_parse: a pair is appended, whatever its key.
Deliver(k, v) ==
  /\ parsing
  /\ parsed < MaxParsed
  /\ repeats \/ Matching(k) = {}
  /\ MakeRoom(is_sorted)
  /\ pairs' = Append(pairs, [key |-> k, val |-> v])
  /\ parsed' = parsed + 1
  /\ UNCHANGED <<repeats, parsing>>

\* json_parse returns; the object is the caller's.
Parsed == parsing /\ parsing' = FALSE
          /\ UNCHANGED <<repeats, parsed, pairs, cap, idx_cap, sorted_idx, is_sorted>>

\* json_obj_set of a key the object has: in place, the index stays.
SetExisting(k, v) ==
  /\ ~parsing
  /\ Matching(k) # {}
  /\ pairs' = [pairs EXCEPT ![LinearSearch(k)].val = v]
  /\ UNCHANGED <<repeats, parsed, parsing, cap, idx_cap, sorted_idx, is_sorted>>

\* json_obj_set of a new key.
SetNew(k, v) ==
  /\ ~parsing
  /\ Matching(k) = {}
  /\ MakeRoom(FALSE)
  /\ pairs' = Append(pairs, [key |-> k, val |-> v])
  /\ UNCHANGED <<repeats, parsed, parsing>>

\* json_obj_set of a new key, when the arena has no room for its text.  The
\* object may have grown by then.  (When it cannot grow, nothing happens.)
SetNewFails(k) ==
  /\ ~parsing
  /\ Matching(k) = {}
  /\ IsFull
  /\ Grow
  /\ UNCHANGED <<repeats, parsed, parsing, pairs>>

\* The index json__introsort leaves: sorted, equal keys in any order.
SortedIndexes ==
  {p \in [1..len -> 1..len] :
     /\ \A i, j \in 1..len : i # j => p[i] # p[j]
     /\ \A i \in 1..(len - 1) : ~Before(pairs[p[i + 1]].key, pairs[p[i]].key)}

\* Mutant of Finalize: the pairs themselves are sorted.
FinalizeInPlace ==
  /\ ~parsing
  /\ ~is_sorted /\ len > 0
  /\ \E p \in SortedIndexes : pairs' = [i \in 1..len |-> pairs[p[i]]]
  /\ idx_cap' = IF idx_cap = 0 THEN cap ELSE idx_cap
  /\ sorted_idx' = [i \in 1..len |-> i]
  /\ is_sorted' = TRUE
  /\ UNCHANGED <<repeats, parsed, parsing, cap>>

\* json__obj_sort: an index that is there is used again.
Finalize ==
  /\ ~parsing
  /\ ~is_sorted /\ len > 0
  /\ idx_cap' = IF idx_cap = 0 THEN cap ELSE idx_cap
  /\ sorted_idx' \in SortedIndexes
  /\ is_sorted' = TRUE
  /\ UNCHANGED <<repeats, parsed, parsing, pairs, cap>>

\* json_clone: exactly as many pairs as there are, and no index.
Clone ==
  /\ ~parsing
  /\ cap' = len
  /\ idx_cap' = 0
  /\ sorted_idx' = << >>
  /\ is_sorted' = FALSE
  /\ UNCHANGED <<repeats, parsed, parsing, pairs>>

Init ==
  /\ parsed = 0
  /\ parsing \in BOOLEAN
  /\ repeats \in {FALSE, parsing}
  /\ pairs = << >>
  /\ cap = 0
  /\ idx_cap = 0
  /\ sorted_idx = << >>
  /\ is_sorted = FALSE

Next ==
  \/ \E k \in Key, v \in Value : Deliver(k, v)
  \/ Parsed
  \/ \E k \in Key, v \in Value : SetExisting(k, v)
  \/ \E k \in Key, v \in Value : SetNew(k, v)
  \/ \E k \in Key : SetNewFails(k)
  \/ Finalize
  \/ Clone

Spec == Init /\ [][Next]_vars

(***************************************************************************)
(* Properties.                                                             *)
(***************************************************************************)

\* Whenever json_obj_get_n trusts the index it lists every pair once, in the
\* order the binary search needs: an insertion, a growth or a clone never
\* leaves is_sorted standing over an index of other pairs.  And the memory
\* kept in sorted_idx, whose size finalize does not look at before it writes
\* len entries, is always enough.
IndexValid ==
  /\ idx_cap > 0 => len <= idx_cap
  /\ UsesIndex =>
       /\ DOMAIN sorted_idx = 1..len
       /\ {sorted_idx[i] : i \in 1..len} = 1..len
       /\ \A i, j \in 1..len : i < j =>
            ~Before(pairs[sorted_idx[j]].key, pairs[sorted_idx[i]].key)

\* Lookups answer for the key asked for, duplicates or not: NOT_FOUND exactly
\* when no pair has it, and otherwise the value of one that has.
GetSound ==
  \A k \in Key : IF Matching(k) = {}
                   THEN Get(k) = NoValue
                   ELSE Get(k) \in {pairs[i].val : i \in Matching(k)}

\* json_obj_iter shows the keys in insertion order: finalizing, setting and
\* cloning move no pair and drop none.
KeysOnlyAppended ==
  [][/\ Len(pairs') >= len
     /\ \A i \in 1..len : pairs'[i].key = pairs[i].key]_vars

\* Without duplicates the object is a dictionary, and which search answers,
\* what fails and when it is finalized cannot be told from outside.  (Of an
\* object whose text repeats a key this says nothing; GetSound does.)
Contents == [k \in Key |-> IF repeats THEN NoValue ELSE Get(k)]
Dict == INSTANCE Dictionary WITH dict <- Contents
ImplementsDictionary == Dict!Spec
=============================================================================
