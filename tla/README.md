# sJson in TLA+

A verification development for sJson, a JSON parser, writer and value library
in one C file (`src/src/sJson.c`, over `src/src/json_pal.h`) with a stable C ABI, C++,
Rust and Python bindings and a cJSON-compatible layer on top. The modules are
translated from the C code; TLC checks them on small instances and TLAPS
proves theorems about the arena, the parser, the writer, the objects, the
introsort, the values and the bindings for every instance.

Line numbers below are those of `src/src/sJson.c` unless a file is named.

## 1. The system

### Components

| component | state it keeps | operations | what is hard | what makes it correct |
|---|---|---|---|---|
| arena allocator (430-630, 1387-1400) | a chain of blocks (`cap`, `used`), `first`, `current`, `total_bytes`, `node_count` | `json_arena_create/alloc/reset/trim/destroy`, `json__new_node` | the backing allocator may refuse any call; sums that would wrap `size_t`; blocks retained over resets | regions in bounds, disjoint, aligned; nothing leaks; a repeated cycle needs no new block |
| parser (1402-1828) | an explicit stack of 64 frames, the containers under construction, the arena's node counter, a position in the text | `json_parse` | no recursion: a state machine of `goto` and `continue`; limits on depth, nodes and container length; allocation failing anywhere | accepts exactly JSON, returns the document, tells limits truthfully, always ends |
| lexer (868-1369) | a position | strings, numbers, literals, white space | escapes, surrogates, UTF-8, 64-bit edges, rounding | a lexeme is accepted iff it is well formed, and its value is exact (integers) or within two doubles of the nearest (floats) |
| objects and key index (632-675, 815-868, 1429-1447, 1899-1984, 2526-2584, 2719-2724) | pairs in insertion order, `cap`, `sorted_idx`, `is_sorted` | `json_obj_set`, `json_obj_get_n`, `json_obj_finalize`, insertion by the parser, clone | an index that survives a later insertion; duplicate keys; colliding hashes; growing half way | a map from keys to values; with duplicate keys, one of the key's values |
| introsort (677-813) | ranges still to sort, a depth budget per activation | `json__introsort`, `json__heapsort`, `json__isort` | unchecked scans that rely on sentinels; worst-case pivots; C stack | sorts, stays inside the range, recursion logarithmic, ends |
| writer (2060-2424) | `used`, `cap`, a sticky `err`, `measure_only` | `json_measure`, `json_write`, `json_write_arena` | measure and write are two passes that must agree; results of calls that are ignored; cyclic values | fits the buffer, is the whole text when it says `OK` |
| accessors, `json_path` (1830-2069) | none | getters, a path walk | selectors and indices at the end of a path, indices beyond 32 bits | finds what the path spells, and nothing else |
| value builders (2426-2524) | the arena's | `json_make_*`, `json_arr_push`, `json_obj_set` | partly built values when memory runs out | either built or unchanged |
| equality, deep clone (2586-2717) | none | `json_equal`, `json_clone` | objects with duplicate keys; shared and cyclic values; a clone that fails half way | equality of what the values stand for; a clone shares nothing with its original |
| C ABI (`src/bindings/ffi`) | a document: arena and root | parse, free, accessors | ownership across the boundary | freed once, never used after |
| Python binding | a handle under a lock | conversions, `close` | threads sharing a document | no use after `close` |
| C++ wrapper | an arena, a generation, handles | reset, trim, move, copy, drop | stale handles, the last owner | a handle answers exactly as long as its node is there |
| Rust binding | lifetimes only | as the C ABI | (the borrow checker's) | (the borrow checker's) |
| cJSON layer | an owner and its reference count | parse, wrap, delete | order of deletions | the arena is returned once, by the last |
| tests, benchmarks, build | none | | | |

### Interactions

Everything is built in an arena: the parser and the builders take nodes
(`json__new_node`), strings and container storage from it and never free them
one by one; a reset, a trim or a destroy ends them all. The parser leaves
objects without an index; `json_obj_finalize`, called by whoever wants fast
lookups, builds one with the introsort, and `json_obj_get_n` searches it or,
when there is none or it is out of date, scans the pairs. The writer reads
values and asks an arena of its own for a temporary index when keys are
sorted. The bindings own one arena per document and call the library under a
lock (Python), a lifetime (Rust), a generation (C++) or a reference count
(cJSON). The library itself has no threads, no locks and no persistent state:
an arena belongs to one thread. What interleaves is the caller's calls, in any
order, with a memory allocator that may refuse any of them. So there is no
crash recovery or message loss to model here; the hazards are partial failure,
stale indices, numeric edges, limits and long sequences of legal calls.

## 2. Plan

Done, in this order:

1. Arena, with an abstract store of regions it implements; its cycles; proofs
   of typing, leak freedom, bounds, disjointness and the refinement.
2. Parser over lexemes, with the grammar it must agree with; proofs of typing,
   the stack bound, the nesting of frames and progress.
3. Objects and their index, with an abstract dictionary they implement.
4. Introsort, the contract the object module relies on.
5. Writer, against the same grammar.
6. `Values`: the builders, `json_equal` and `json_clone` on graphs of nodes.
7. `Strings`, `Numbers` and `Lexer`: the lexer byte by byte, against
   definitions of a string and of a number that do not scan.
8. `Paths`: `json_path` against all the ways of cutting a path.
9. `CjsonOwner`, `CppHandles` and `PyDocument`, each an implementation of the
   abstract `Lease`.

10. Theorems about the bindings: their three invariants, `CppStaleIsEmpty`,
    `ReclaimedWithLast`, mutual exclusion of a Python document's readers, and
    `ImplementsLease`.
11. The rest of the arena (alignment, reset cycles, counters) and of the parser
    (limits, the forest of nodes); the writer's buffer; the objects (index,
    lookup, `ImplementsDictionary`); the values (garbage, sharing).
12. `Introsort`, its loops as recursive functions: `SortsByKey`,
    `RecursionLogarithmic` and `EveryTurnShrinks`. The object proofs rest on the
    first, as the sort of the finalizer.

13. `DepthTruthful` and `MeasuredSuffices` of the writer, which rest on the depth
    of what is left to do and on what a value is worth in bytes.

Abstract specifications: `RegionStore` (what an arena promises), `Dictionary`
(what an object promises), `Lease` (what a binding promises), `JsonGrammar`
(what a JSON text is), `LexerCorrect` (what a string and a number are). Only
`JsonGrammar`, `ParserCorrect` and `WriterCorrect` declare
`RECURSIVE` operators, and no module with a theorem reaches them.

## 3. Modules

| module | what it is |
|---|---|
| `RegionStore` | abstract: regions granted, disjoint and inside chunks, all returned by reset |
| `Arena` | the allocator in detail; `ImplementsRegionStore` |
| `ArenaCycles` | `Arena` with a history of the current and the previous reset cycle |
| `ArenaProofs` | theorems about `Arena` and `ArenaCycles` |
| `Parser` | `json_parse`, one action per arm of its loop |
| `JsonGrammar` | a reference definition of JSON over lexemes, by recursion on the text |
| `ParserCorrect` | what the parser returns, against the grammar |
| `ParserProofs` | theorems about `Parser`: types, the stack, progress, limits, the forest of nodes |
| `Writer` | `json_measure`, `json_write`, `json_write_arena` |
| `WriterCorrect` | what the writer wrote, against the grammar |
| `WriterProofs` | theorems about `Writer` |
| `Dictionary` | abstract: a map in which a call sets one key or nothing |
| `Object` | pairs, growth, index, lookup, set; `ImplementsDictionary` |
| `ObjectProofs` | theorems about `Object` |
| `Introsort` | the three sorting algorithms on one array |
| `IntrosortProofs` | theorems about `Introsort` |
| `Totals` | the sum of a sequence, for the counters of an arena and the work of a sort |
| `Lex` | the text, the position and the token the lexers share |
| `Strings` | `json__parse_string`: the measuring pass and the decoding pass |
| `Numbers` | `json__parse_number`, its three conversions, and `jw_double`'s digits |
| `Lexer` | the dispatch of a scalar, over `Strings` and `Numbers` |
| `LexerCorrect` | strings and numbers by RFC 8259 and Table 3-7 of Unicode, and the properties |
| `Paths` | `json_path`, and what a path means |
| `Scans` | `Lexer` and `Paths` over one text, one of them running |
| `Values` | builders, `json_equal`, `json_clone` and what a value is |
| `ValuesProofs` | theorems about `Values` |
| `Lease` | abstract: memory returned once, and never while a user can reach it |
| `CjsonOwner` | the cJSON layer's wrappers and their shared owner |
| `CppHandles` | `sjson::Arena` and `sjson::Value` over a shared `Storage` |
| `PyDocument` | a Python `Document` used by threads, over the C ABI |
| `Bindings` | the three side by side; `ImplementsLease` |
| `BindingsProofs` | theorems about `Bindings` |
| `Induction` | induction over the numbers, in the form the proofs can use |
| `MC...` | an instance of each for TLC |

### Arena

`blocks` is the chain from `first`, each with the chunk it lives in, its `cap`
and `used`; `current` is a position in it; `self` is the chunk of the
`JsonArena` struct. `heap` is the backing allocator's view (the size of each
chunk it has handed out, 0 for a free one) and `regions` is what callers hold,
a history variable that no guard reads. Every operation is one action, the
search of `json__arena_alloc_raw` for a retained block and the linking of a
new one included. The allocator may refuse any request. `size_t` is
`0..SizeMax`, and the guards are the code's, so a dropped guard wraps.
`json_arena_create` with a missing callback ends as a refused one does (NULL,
nothing held) and has no action of its own. Zero filling and the contents of
regions are left out.

### Parser

The text is a sequence of lexemes: brackets, braces, comma, colon, `s` (a
string), `v` (a number or a literal), and one lexeme for each way the code has
of refusing a scalar: six of strings (`RefusedString`), five of numbers
(`RefusedNumber`), a literal that the end of the text cuts short, and `x` for
any other text. `RefusalOf` gives the code each is refused with; which bytes
make which lexeme is the lexer's matter. A lexeme that is cut short (`Cut`) can
only be the last. `stack` holds the frames with their state,
container and `pending_key`; `nodes` are the nodes this call has made and
`base` is the arena's node counter when it began, above zero when earlier
parses used the arena. `MaxDepth`, `MaxNodes`, `MaxArrayLen` and `FirstCap`
stand for `JSON_MAX_DEPTH`, `JSON_MAX_NODES`, `JSON_MAX_ARRAY_LEN` and 8. Each
turn of the `while` loop is one step, the delivery of a completed value to its
parent included; a node, a string and a growth may each find no memory.

Left out because they cannot be reached: arms for a parent that is not a
waiting frame, for a value on top of an `ARR_ITEM` or `OBJ_VAL` frame, the
depth checks at `,` and `:`, the 32-bit wrap guard in growth, and the
end-of-text exit with a root and one frame. That the frames below the top
always wait for a value (`FramesNested`) and that a push always has room
(`StackBounded`) are proved, not assumed. NULL arguments are refused before
anything happens.

### Object

One object of a document: `pairs`, `cap`, `sorted_idx` with its allocated size
`idx_cap` (0 when it is NULL) and `is_sorted`; `parsed` counts the pairs that
came from a text. It is filled by the parser or made empty by
`json_make_object`, then set, finalized, searched and cloned in any order.
Keys are numbers in lexical order with a hash each, so that keys collide. The
sort inside the finalizer is any sorted permutation, which is what `Introsort`
is proved to produce. A finalization or growth that fails changes nothing and
is a stutter; a `json_obj_set` that grew before the key's text found no memory
is not, and is an action.

### Introsort

A stack of activations (`lo`, `hi`, depth left) over the index `arr`.
`Threshold` is 2 where the code has 16. An activation starts with any depth in
`0..2*ilog2(n)`, since recursive activations start with what the caller had
left; so heapsort is met with every range. A step is one turn of the loop; the
loops inside a turn are recursive functions of the number of their turns. Those
of `json__sift_down` and of the partition have no bound in the code: the model
gives them as many turns as the heap has levels and as the range has places,
and nothing happens in a turn after the last. That they stop by then is proved
(`SiftDownSifts`, `PartitionMeets`). The scans of the partition read before they
test; an index that leaves the range would be an error of TLC's, and cannot
be (`ScanUpIs`, `ScanDownIs`). The pivot ends strictly inside its range, so the
branch for a pivot at position 0 (808-809) is dead and has no counterpart.

### Writer

`todo` is the list of `jw_` calls and values still to be written, which is
what the recursion of `json__write_value` has ahead of it. A call the code
looks at is marked `must`; the failure of any other is ignored, exactly as in
the C text. A string's bytes are appended one at a time, so a buffer may end
inside one, and `text` records pieces and the lexeme each spells. Values are a
table in which a value may contain itself, as `json_arr_push` allows. The NaN
branch of `jw_double` is left out (no constructor makes such a number); the
digits of a float, and a literal, are a `jw_puts` of a length. The arena that
holds the temporary key index is reduced to whether it finds memory.
`json_write_arena` measures again and then writes to what it measured.
`measured` keeps, beside what `json_measure` returns, the `w.err` it leaves
behind: the caller never sees it, but `MeasuredSuffices` has to tell a
measurement in which an ignored `jw_` call failed from one in which none did.

### Lexer

Texts are sequences of bytes. One turn of a loop of `json__parse_string` or
`json__parse_number` is one step; `phase` says which loop. The first pass over
a string moves `scan` and counts `out_len`; the second moves `pos` and appends
to `out_buf`, checking nothing, as in the code. Of a `\u` escape the second
pass reads whatever four digits are there. The hash is the sequence of bytes
it is computed from, so that equal hashes of the two ways of computing it mean
equal bytes. `JSON_MAX_STRING_LEN` is 7.

Numbers keep their structure at smaller widths: 4 significant digits for 19, a
14-bit mantissa for 64, doubles of 5 bits for 53, tables up to 10^2 for 10^22.
`WidthsAssumption` keeps the inequalities between them that the code relies on
(`10^19 <= 2^64`, `int64` has 19 digits, `5^22 < 2^53`). Arithmetic is IEEE,
round to nearest even; `strtod` returns the nearest double. Subnormals are
left out: everything below a certain decade is 0.

### Paths

`json_path` follows selectors from the root of a small document with object
keys that are not repeated; `idx` wraps at `MaxIndex` + 1 if the guard lets it.
The reference, `LeadsTo`, cuts the text in every possible way.

### Values

`heap` holds every node in the order of its creation; `held` are the values the
caller has. A node may be pushed into several containers and into itself,
since nothing in the code forbids it. The documents it starts from are what
the parser returns: every entry leads to a node of the document
(`DocumentsAssumption`, which `NodesFormForest` and `ReturnsTheDocument` of the
parser show). `json_clone` is a machine with one step
per call and return, because each of its allocations may be refused; an entry
not yet written is 0 where the code has whatever was in the arena.

### Bindings

`CjsonOwner`: wrappers come from `malloc` one by one and share an owner, which
counts them. `CppHandles`: variables of the program, the `Storage` they share
and its `generation`; `incarnation`, a history variable, is which contents the
arena really has. Every action ends by destroying the storages nothing refers
to, which is what `std::shared_ptr` does. `PyDocument`: `ctypes` releases the
interpreter lock around every native call, so each native call and each access
to `_handle` is a step, and threads interleave between them.

`Lease` has one action per resource and step: open, share, close when nobody
is left, or abandon. `Bindings` maps to it the arena of each cJSON document,
each incarnation of each C++ storage, and the struct and the arena of the
Python document.

## 4. Runs

| run | instance | what it asks |
|---|---|---|
| `arena` | all orders of create, alloc, node, reset, trim and destroy, with a history of the previous cycle | are regions in bounds, disjoint, aligned; does anything leak; does a repeated cycle land in place; is it a region store |
| `parser` | about 40,000 texts, all failures | does the frame machine agree with the grammar, are limits told truthfully, does it end |
| `parser_depth` | the same | is the depth limit what the documentation says (it is not) |
| `writer` | 12 values, 13 options, 33 capacities | is the buffer respected, does measuring suffice, is `OK` the whole text, is depth refused exactly when it should be |
| `writer_pretty` | the same | does a buffer smaller than measured fail (it does not always) |
| `object` | parsed with and without duplicates | is the object a dictionary, is the index valid, are keys only appended, what can a lookup return |
| `introsort` | 3,276 short and 10 longer arrays | is the result sorted, is recursion logarithmic, does it end |
| `values` | 3 documents, 3 nodes more, all ways of sharing and tying them | is `json_equal` equality, is a clone a deep copy, is what a failure leaves unreachable |
| `lexer` | some 32,000 scalars and paths | is exactly what is well formed accepted, and with its value |
| `lexer_roundtrip` | the same scalars | does a written float read back as it was (it does not always) |
| `bindings` | three cJSON items, two C++ arenas and values, three Python threads | is memory returned once, in time, and by the last; does every call return |
| `bindings_moved` | the same | does a moved-from C++ value stay empty after a reset (it does not) |

Properties, in words:

- **arena**: `TypeOK`; `NoLeak` (what the allocator handed out is the struct
  and the chain, no more and no less, after every partial failure);
  `RegionsInBounds`, `RegionsDisjoint`, `RegionsAligned`;
  `ImplementsRegionStore`; `ReplayInPlace` (`docs/testing.md`: identical reset
  cycles allocate no new block, and they land in the same places);
  `CountersAccounted` (the counters the guards trust are the real totals).
- **parser**: `StackBounded`, `FramesNested`; `NodesFormForest` (each node is
  held once, by one container, frame or the root, also when the call fails; a
  failed call can leave its last node to nobody, a refused scalar or a value
  its parent had no room for); `LimitsTruthful` (a limit code means that limit
  was met, `OVERFLOW` one of three: a full container, a string over
  `JSON_MAX_STRING_LEN`, an integer outside int64; and nothing that was returned
  exceeds one); `ReturnsTheDocument` (what comes back is the tree the grammar
  gives the text); `RejectsOnlyMalformed` (a text is called malformed only if it
  is, and at the first lexeme that makes it so, with the code of that lexeme;
  `UNEXPECTED_EOF` is kept for texts that could go on); `Progress` (every turn
  consumes a lexeme or ends); `Terminates`. The exceptions `RejectsOnlyMalformed`
  names are the code's: `[tru`, `[1.`, and a string that ends inside a `\u`
  escape or a UTF-8 character are malformed to the code, although the text only
  ended, and so is a float too large for a double.
- **writer**: `WithinBuffer`; `MeasuredSuffices` (a buffer of the measured
  size and one for the NUL suffices, whatever the key order, if no `jw_` call
  failed while measuring, those included whose failure is ignored);
  `SuccessIsWhole` (an `OK` buffer, read again by the grammar, is the value
  itself: pretty or not, and in a buffer of any size, what is lost can only be
  white space); `DepthTruthful` (a value is refused for its depth exactly when
  it is too deep; a value that contains itself always is).
- **object**: `KeysOnlyAppended` (an action property: set never moves or
  renames a key); `ImplementsDictionary`; `IndexValid` (a sorted index is a
  sorted permutation of all the pairs and no larger than its allocation);
  `GetSound` (a lookup answers with a value of that key if there is one).
- **introsort**: `SortsByKey` (at the end the index is sorted and a permutation
  of the input); `RecursionLogarithmic`; `EveryTurnShrinks` (the variant that
  makes it end).
- **values**: `EqualIsSameValue` (whatever nodes two values are made of,
  `json_equal` says whether they mean the same, both ways round);
  `CloneIsDeepCopy` (stored the same; a failure has a reason; and
  `CloneSharesNothing`, no node can be reached from both);
  `GarbageUnreachable`. `json_equal` is compared with equality only
  for values without repeated keys, and only errs towards equal for integers a
  double does not hold.
- **lexer**: `StringExact` (accepted iff well formed, with the same UTF-16
  units, the right length and a hash of these very bytes); `DecodedFitsMeasured`
  (the unchecked second pass writes exactly what the first counted);
  `NumberExact` (integers exact, `OVERFLOW` for exactly those that do not fit;
  floats the nearest double where the fast path is exact or `strtod` is asked,
  and otherwise off by at most one double for digits past 2^53 and one for a
  negative power: 115292150460684710.5 comes out two away); `PathExact` (the value the path spells,
  and an error for every other text).
- **bindings**: `CppStaleIsEmpty` (a value is empty exactly when its node is
  gone); `ReclaimedWithLast`; `ImplementsLease` (nothing is returned twice or
  under a user, in any order and interleaving); `PyCallsReturn`.

### Bounds and why they are enough

- Arena: `SizeMax` 31 with a 4-byte header and alignment 2. Requests of 26, 29
  and 31 meet each overflow guard; blocks come in three sizes, so a retained
  block may be too small and a search may have to pass it; four chunks are the
  struct, the first block and two more, enough for an insertion at the tail
  with an empty block between. Chunks are symmetric: nothing compares them.
- Parser: every text of up to four lexemes over what is accepted and `x`; up to
  six and seven over the alphabets of arrays and of objects; every way of being
  refused, as a value and as a key, at the end of every text of up to three
  lexemes and with more text behind it; and containers of 2 to 4 elements
  around `MaxArrayLen` 3 and capacity 2. `MaxDepth` 3 and `MaxNodes` 6 (with 0
  or 3 nodes there before) are exceeded by many of these texts.
- Values: heaps of up to three nodes are changed by the caller and a clone may
  fill them to six, so that a clone of a shared value, of a cycle and of a
  value with a clone's remains next to it all occur, and memory runs out at
  every point. Three levels meet `MaxDepth` 3.
- Lexer: strings of up to three pieces out of 21, among them each kind of
  escape, characters of 1 to 4 bytes, overlong, surrogate and truncated ones;
  numbers of up to five bytes over seven characters, products of edge cases
  around 2^13, 2^14 and 10^4, and decimals whose digits are past the 5 bits of
  a double (844.9 is two doubles off, so `NumberExact` is tight); paths of up
  to four bytes over nine characters and up to three selectors, indices around
  `MaxIndex` 12.
- Bindings: three wrappers are a root, a child and a child's child. Two
  storages let an arena be assigned over another's last reference, and two
  resets tell a stale generation from two. Three threads are one that closes,
  one that reads and one that waits for either.
- Object: four keys under two hashes, objects of up to four pairs growing 0,
  1, 2, 4. Every sequence of calls is explored; there is no bound on calls.
- Introsort: all arrays of 2 to 7 entries over 3 keys, which contain
  duplicates and all relative orders a median of three can see, and arrays of
  9 entries over 10 keys.
- Writer: `MaxDepth` 3, `SizeMax` 63, indents of 2, 20 and 70: the second
  overflows the buffer before the document does, the third overflows `size_t`.
  The number of calls is not bounded.

Deadlock is checked except in the parser, the introsort and the lexer, which
return, and in the bindings, whose program may end.

### Fairness

`Parser` assumes `WF_vars(Next)`: a C loop that can take its next turn takes
it. No fairness is assumed of the allocator, which may refuse for ever, nor of
anything in `Arena`, `Object` or `Writer`, where liveness would be the caller's.
`Bindings` assumes weak fairness of each Python thread, once it is in a call;
nobody is obliged to call. Python's lock is not fair, so a thread could be
passed over for ever by others that call again and again: `PyCallsReturn` holds
because threads make finitely many calls (`PyMaxCalls`), and it says that none
of these, however it ends, keeps the lock. `Introsort` states its termination
as a variant, an action property.

## 5. Proofs

The theorems are checked by TLAPS for all values of the constants that satisfy
the assumptions of the modules, which TLC evaluates on every run:

- **arena**: the alignment divides 2^w, the header is a positive multiple of it
  and smaller than the smallest block, struct and nodes are not empty, and the
  arguments are `size_t`;
- **parser**: depth, length and first capacity are positive and an input is a
  sequence of lexemes of any length, in which only the last may be cut short;
- **writer**: values are a table whose entries are in the table (cyclic or
  not), sizes are numbers and a capacity is a `size_t`;
- **objects**: keys and their hashes are numbers, the first capacity and the
  greatest length are positive, and the answer "none" is no value;
- **values**: a document to begin with is a sequence of nodes whose entries lead
  to nodes of that document, which is what the parser returns; the graphs built
  from it are any, cyclic ones included;
- **introsort**: an input is a sequence of at least two keys, and the threshold
  is at least 2, so that a range that is split has three places for the pivot;
- **bindings**: there are finitely many documents, Storages and calls, and the
  value that stands for "no thread" is none of the threads.

None of the properties is inductive as it stands; what has to be added is most
of each argument.

- **Arena** (`TypeCorrect`, `NothingLeaks`, `AllocationsInBounds`,
  `AllocationsDisjoint`, `AllocationsAligned`, `Refinement`). Bounds of a region
  follow from the `used` of its block, disjointness from the fact that every
  region in a block ends at or below its `used`, and leak freedom from the
  blocks being in distinct chunks. `ArenaInv` joins typing, the accounting of
  chunks, the layout of blocks (capacity plus header is what was obtained,
  computed without wrapping) and the regions below `used`; alignment needs that
  every `used` is a multiple too. Each action has one lemma per conjunct it
  disturbs; arithmetic on `size_t` is kept in generic lemmas. The refinement
  maps every action to a step of `RegionStore` or to a stutter.
- **Reset cycles** (`CyclesReplay`, `CountersRight`). An allocation is a step of
  a walk: from the block and the offset where the last one ended, its size alone
  decides where it goes (`Goes`). The invariant says that both histories are
  walks on the chain as it is now (`FirstFit`); appending a block does not
  change an earlier walk, and a reset only turns one history into the other.
  Equal sizes then go to equal places, by induction along the two walks. The
  counters are sums; that a bump adds its length to the sum over the blocks is
  proved from the equations of the summing function.
- **Parser** (`ParserTypes`, `StackNeverOverflows`, `DeliveredToWaitingFrame`,
  `EveryTurnProgresses`). `ParserInv` adds to typing which states a frame may
  be in below the top and on top: it is what makes the branches for other
  parents dead. Progress is an action property proved under that invariant.
- **Parser, limits and nodes** (`LimitsHold`, `NodesAreForest`). The seventeen
  actions are first shown to make five kinds of step (`KindsOfStep`). The
  depth limit is truthful because the open containers are the brackets open in
  what has been read, a difference of two cardinalities that each kind of step
  keeps. `OVERFLOW` needs that the lexeme a call stops at is one beyond its
  limit, or that the parent is full; and that only accepted lexemes lie behind.
  The forest is stated for a set of nodes held by frames: every other node is an
  entry of exactly one container, older than it. It holds of every way a call
  can end, with the exception it names: the last node created, which a refused
  scalar or a refused growth leaves to nobody. That a step that fails leaves no
  second such node is shown from what each kind of step adds (`Grown`,
  `FailForest`).
- **Writer** (`StaysWithinBuffer`). `todo` holds well-typed tasks, sequences
  joined from sequences of tasks included (by induction over the joining), and
  while it writes `used < cap`, the byte kept for the NUL, or both are 0.
- **Writer, depth** (`DepthTruthfulHolds`). `DepthInv` says that some
  value lies MaxDepth levels below the root if one lies below a value still to
  be written, at the distance that is left; and that while the call runs and
  there is such a value, it is still ahead: no pass can end with it unmet.
  A sorted order loses no item because an injection of
  1..n into itself reaches all of it.
- **Writer, size** (`MeasuredSufficesHolds`). What a value is worth in bytes at
  a depth is a function defined by the depth that is left, and a container's
  worth is a sum over its items (`Bytes`). `BytesInv` says that `used` and the
  worth of what is left add up to the worth of the root until some `jw_` call
  fails. So a measurement without failure returns that worth; and a write with
  room for it fails nowhere and adds up to the same, because a sum does not
  depend on the order of its terms (`TotalReordered`).
- **Objects** (`IndexIsValid`, `IterationOrderKept`, `LookupsSound`,
  `ObjectIsDictionary`). `is_sorted` implies a sorted permutation of all the
  pairs. The recursion of the binary search is shown to be well defined, and
  then to find a pair with the key if there is one, by induction over the width
  of the range. The refinement needs that keys are not repeated unless the
  parser was given repeated ones.
- **Introsort** (`SortsByKeyHolds`, `RecursionLogarithmicHolds`,
  `EveryTurnShrinksHolds`). `SortInv` says of two places that are not in order
  that they lie in the range of one activation, that the ranges of two
  activations do not meet, and that the k-th activation's range has at most
  one 2^(k-1)th of the pairs. Each algorithm has a contract, proved by induction
  over the turns of its loop: the result is a rearrangement of the range and
  sorted, or, for the partition, split at a pivot. For heapsort the induction
  carries a heap with one hole, and the entries behind it in order and not
  smaller. For the partition it carries what is not greater than the pivot
  before `i`, what is not smaller behind `j`, and that each scan has an entry in
  front of it that stops it: the median of three sees to that in the first turn,
  the exchange in every later one. The object module takes "some sorted
  permutation" for the sort of the finalizer; this is the theorem it may do so by.
- **Values** (`NoGarbageReached`, `ClonesAreDeep`). There are two disjoint sets
  of whole nodes, closed under entries: one for everything the caller built,
  one for the clone that has just been finished. What a clone is filling is in
  neither, so what a refused allocation leaves cannot be reached; and a source
  and its clone lie in different sets, so they share nothing. That reachable
  nodes stay inside a closed set is an induction over the rounds of `Reach`.
- **Bindings** (`StaleIsEmpty`, `NothingOutlives`, `CloseExcludesReads`,
  `Refinement`). cJSON: a document's count is the number of its wrappers. C++:
  what an arena or a value owns is alive, what nothing owns is gone, and a
  value that was not moved from owns the Storage of its node and remembers the
  incarnation the node belongs to; so equal generations mean that the node is
  there. Python: who is between acquiring and releasing holds the lock, and
  the handle leads to a live document except for the one thread that has just
  freed it. From these, each resource of `Lease` stays as it is, is opened,
  shared, closed or abandoned in every step. `CloseExcludesReads` states that
  no thread is inside a native call on memory another one has freed; it is a
  consequence that no run checks by itself, since the refinement implies it.

`Induction` restates induction over the numbers for sets: the library's theorems
take a predicate as a parameter, which the provers here cannot instantiate. From
it come the equations of the recursive functions the models use (`Total`,
`Reach`, the binary search, the joining of sequences, the loops of a sort), which are a `CHOOSE`
until a function that solves them is shown to exist.

Only model-checked:

- `ReturnsTheDocument`, `RejectsOnlyMalformed`, `SuccessIsWhole`: their modules
  declare `RECURSIVE` operators, for which the prover has no backend;
- `StringExact`, `DecodedFitsMeasured`, `NumberExact`, `PathExact`,
  `EqualIsSameValue` and the half of `CloneIsDeepCopy` that says what is stored:
  inductions over texts, digits and graphs by the definitions of meaning, which
  are nested recursive functions;
- `Terminates` and `PyCallsReturn`: liveness under fairness and
  `ENABLED` are out of the prover's reach.

## 6. Findings

- `parser_depth`: `json_parse` counts the frame of the value about to be read,
  so exactly `JSON_MAX_DEPTH` nested arrays give `JSON_ERR_DEPTH_EXCEEDED`, an
  empty innermost one included. Line 163 documents that code as "Nesting
  deeper than JSON_MAX_DEPTH".
- `writer_pretty`: the result of `jw_indent` is ignored, and an indent that
  does not fit writes nothing; a later, shorter byte still fits. A pretty
  write into too small a buffer can therefore return `JSON_OK` with
  indentation missing, although `docs/api.md` says a write needs the measured
  size and one byte. The text is still the same JSON (`SuccessIsWhole`).
- `lexer_roundtrip`: the fast path of `json__parse_number` multiplies by a
  rounded negative power of ten (1204), so the nearest double is missed for
  about a quarter of all floats written with 17 digits, by one and now and then
  by two. Written with all its digits
  and parsed again, such a float changes: 18.379361914257228 is written
  18.379361914257231 and then 18.379361914257235. `fuzz/fuzz_parse.c:31-32`
  aborts when the second text differs from the first; the inputs it runs
  without libFuzzer contain no such number.
- `bindings_moved`: `sjson::Value` has the implicit move operations, which
  empty `owner_` and keep `value_`; `get()` takes a value without an owner for
  a borrowed native handle. A moved-from value still returns its pointer after
  `reset()`, although `bindings/cpp/sjson.hpp:29-30` says that arena-produced
  values become empty "instead of dangling".

One more consequence of the result that `writer_pretty` is about, which has no
run of its own: `jw_indent` also fails, with `JSON_ERR_OVERFLOW`, when its
indent would take `used` past `SIZE_MAX` (2102-2104). `json_measure` then
returns `JSON_OK` and a size without that indent. A write with `sort_keys`
meets the items in another order, the same indent fits there, and the text
needs more than the measured size and one byte. This is why `MeasuredSuffices`
asks that no `jw_` call failed while measuring: `MCWriter` holds an object of a
float of 20 bytes and a `true` that measures 61 under `SizeMax` 63 with an
indent of 20 and is refused in 63 bytes, and TLC violates the property with it
when that condition is left out. In practice it takes a `size_t` of 32 bits and
an indent of the order of a gigabyte.

## 7. Not modelled

- The accessors that read one field, the predicates of the cJSON layer and the
  read functions of the C ABI: they change no state.
- Zero filling and the contents of memory; `realloc`, which is never called;
  the 32-bit hash itself, of which only equality and order matter.
- Subnormal doubles, and the fallback of `jw_double` without a standard
  library.
- C++ values made of a native pointer, which are the caller's concern, and
  `Arena::finalize`, which changes no handle.
- Asynchronous exceptions in Python. A KeyboardInterrupt between
  `sjson_document_free` and `self._handle = None` (`__init__.py:86-87`) leaves
  a handle to freed memory; the code makes no provision for one anywhere.
- The Rust binding: its safety is its borrow checker's.
- Tests, corpora, benchmarks and the build: they hold no logic of the program.
