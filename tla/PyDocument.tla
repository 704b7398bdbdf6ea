----------------------------- MODULE PyDocument -----------------------------
(***************************************************************************)
(* bindings/python/sjson/__init__.py, class Document, shared by threads,   *)
(* over bindings/ffi/sjson_ffi.c.  ctypes releases the interpreter lock    *)
(* around every native call, so each of these is a step of its own, as is  *)
(* every access to _handle; only the document's own lock keeps a close()   *)
(* from freeing what another thread is reading.                            *)
(*                                                                         *)
(* The first thread makes the document and then shares it.  Every native   *)
(* read is one step whatever it reads, and may end in an exception.        *)
(***************************************************************************)
EXTENDS Integers, FiniteSets

CONSTANTS
  PyThread,
  PyMaker,        \* the thread that makes the document
  PyReads,        \* native reads one to_python makes after the root
  PyMaxCalls      \* bound: calls a thread makes

Nobody == "nobody"

ASSUME PyAssumption ==
  /\ PyMaker \in PyThread /\ Nobody \notin PyThread
  /\ PyReads \in Nat \ {0} /\ PyMaxCalls \in Nat

VARIABLES
  native,         \* the SJsonDocument and its arena: "none", "live", "gone"
  handle,         \* self._handle is not None
  lock,           \* the thread that has self._lock, or Nobody
  holders,        \* the threads with a reference to the Document
  py              \* per thread: where it is, in which call, reads to come,
                  \* calls made, and whether __init__ raised

pyVars == <<native, handle, lock, holders, py>>

PyCall == {"close", "enter", "to_python", "serialize"}

Native == {"struct", "arena"}

(***************************************************************************)
(* The C ABI.                                                              *)
(***************************************************************************)

PyReleased(life) == IF life = "live" THEN "gone" ELSE "twice"

\* sjson_document_free; json_arena_destroy(NULL) is nothing.
FfiFree(doc) == [struct |-> PyReleased(doc.struct),
                 arena  |-> IF doc.arena = "none" THEN "none"
                            ELSE PyReleased(doc.arena)]

\* What sjson_document_parse leaves behind: no struct, no arena, a text it
\* rejects, or the document.
FfiParsed(lifes) ==
  {[struct |-> "none", arena |-> "none"],
   FfiFree([struct |-> "live", arena |-> "none"]),
   FfiFree([struct |-> "live", arena |-> "live"]),
   [struct |-> "live", arena |-> "live"]}

(***************************************************************************)
(* The threads.                                                            *)
(***************************************************************************)

At(t, pc)    == py[t].pc = pc
GoOn(t, pc)  == py' = [py EXCEPT ![t].pc = pc]

\* __init__.  Only a successful document is ever shared.
PyInit(t) ==
  /\ At(t, "init")
  /\ native' \in FfiParsed(native)
  /\ handle' = (native'.struct = "live")
  /\ holders' = IF handle' THEN PyThread ELSE {t}
  /\ py' = [py EXCEPT ![t].pc = "idle", ![t].raised = ~handle']
  /\ UNCHANGED lock

\* close (and __exit__), __enter__, to_python or serialize is called.
PyCalls(t, call) ==
  /\ At(t, "idle")
  /\ t \in holders
  /\ ~py[t].raised
  /\ py[t].calls < PyMaxCalls
  /\ py' = [py EXCEPT ![t].pc = "acquire", ![t].call = call, ![t].calls = @ + 1]
  /\ UNCHANGED <<native, handle, lock, holders>>

\* A reference is dropped; with the last of them __del__ closes the document.
PyDrop(t) ==
  /\ At(t, "idle")
  /\ t \in holders
  /\ holders' = holders \ {t}
  /\ IF holders' = {}
       THEN py' = [py EXCEPT ![t].pc = "acquire", ![t].call = "close"]
       ELSE UNCHANGED py
  /\ UNCHANGED <<native, handle, lock>>

\* Mutant of MayAcquire: the lock is not taken.
MayAcquireAlways(t) == TRUE

\* An RLock.
MayAcquire(t) == lock \in {Nobody, t}

PyAcquire(t) == /\ At(t, "acquire")
                /\ MayAcquire(t)
                /\ lock' = t
                /\ GoOn(t, "look")
                /\ UNCHANGED <<native, handle, holders>>

\* _root and close look at _handle.  Without one, _root raises.
PyLook(t) ==
  /\ At(t, "look")
  /\ GoOn(t, IF ~handle THEN "release"
             ELSE IF py[t].call = "close" THEN "free" ELSE "root")
  /\ UNCHANGED <<native, handle, lock, holders>>

\* sjson_document_root
PyRoot(t) ==
  /\ At(t, "root")
  /\ py' = [py EXCEPT ![t].pc = CASE py[t].call = "enter"     -> "release"
                                  [] py[t].call = "to_python" -> "read"
                                  [] py[t].call = "serialize" -> "measure",
                      ![t].reads = PyReads]
  /\ UNCHANGED <<native, handle, lock, holders>>

\* _convert, one native call after the other.
PyRead(t) ==
  /\ At(t, "read")
  /\ py' = [py EXCEPT ![t].reads = @ - 1,
                      ![t].pc = IF py[t].reads = 1 THEN "release" ELSE "read"]
  /\ UNCHANGED <<native, handle, lock, holders>>

\* sjson_value_write twice: without a buffer, and with one of that size.
PyMeasure(t) == /\ At(t, "measure")
                /\ GoOn(t, "write")
                /\ UNCHANGED <<native, handle, lock, holders>>

PyWrite(t) == /\ At(t, "write")
              /\ GoOn(t, "release")
              /\ UNCHANGED <<native, handle, lock, holders>>

\* Mutant of Raised: the lock is left behind.
RaisedLocked(t) == GoOn(t, "idle")

\* with self._lock, when an exception ends the block.
Raised(t) == GoOn(t, "release")

\* MemoryError or ValueError from _check, from a text that is no UTF-8 or from
\* the buffer of serialize.
PyRaises(t) == /\ py[t].pc \in {"read", "measure", "write"}
               /\ Raised(t)
               /\ UNCHANGED <<native, handle, lock, holders>>

\* close: the native document is freed, and then the handle is cleared.
PyFree(t) == /\ At(t, "free")
             /\ native' = FfiFree(native)
             /\ GoOn(t, "clear")
             /\ UNCHANGED <<handle, lock, holders>>

PyClear(t) == /\ At(t, "clear")
              /\ handle' = FALSE
              /\ GoOn(t, "release")
              /\ UNCHANGED <<native, lock, holders>>

PyRelease(t) == /\ At(t, "release")
                /\ lock' = Nobody
                /\ GoOn(t, "idle")
                /\ UNCHANGED <<native, handle, holders>>

\* What a thread does by itself once it is in a call.
PyStep(t) ==
  \/ PyInit(t) \/ PyAcquire(t) \/ PyLook(t) \/ PyRoot(t) \/ PyRead(t)
  \/ PyMeasure(t) \/ PyWrite(t) \/ PyRaises(t) \/ PyFree(t) \/ PyClear(t)
  \/ PyRelease(t)

PyStart ==
  /\ native = [part \in Native |-> "none"]
  /\ handle = FALSE
  /\ lock = Nobody
  /\ holders = {PyMaker}
  /\ py = [t \in PyThread |-> [pc |-> IF t = PyMaker THEN "init" ELSE "idle",
                               call |-> "close", reads |-> 0, calls |-> 0,
                               raised |-> FALSE]]

PyNext == \E t \in PyThread : \/ PyStep(t)
                              \/ \E call \in PyCall : PyCalls(t, call)
                              \/ PyDrop(t)

\* Who may reach into the native document: the threads with a copy of the
\* handle or a pointer it led to.
PyUsers == {t \in PyThread : py[t].pc \in {"root", "read", "measure", "write"}}

\* After the last reference nothing is left.
PyReclaimed ==
  holders = {} /\ (\A t \in PyThread : At(t, "idle")) =>
    \A part \in Native : native[part] # "live"
=============================================================================
