------------------------------ MODULE Bindings ------------------------------
(***************************************************************************)
(* The Go, Node and Python bindings: Client and Stream objects around the  *)
(* handles of the C ABI, used from several goroutines, promises or threads *)
(* at once.                                                                *)
(*                                                                         *)
(* An object keeps its handle, a count of the calls in flight and, in Go   *)
(* and Python, a lock; in Node the one JavaScript thread plays the lock of *)
(* every object, and a counted call runs on a worker thread.  Each call of *)
(* the C ABI is one step here: FfiStreams shows what happens inside, and   *)
(* that an address is answered for by the registry, so that a stale one is *)
(* refused or, once the allocator has used it again, taken for another     *)
(* object's.                                                               *)
(*                                                                         *)
(* A second cancellation of a Python task that is already draining its     *)
(* worker call, which leaves the closing to __del__, is left out.          *)
(***************************************************************************)
EXTENDS Naturals, FiniteSets

CONSTANTS
    Languages,       \* the bindings looked at: subset of {"go", "node", "python"}
    Hosts,           \* goroutines, pending promises or Python threads
    ClientHandles,   \* addresses of native clients
    StreamHandles,   \* addresses of native streams
    Null,            \* no handle, no object
    Unmade,          \* the handle of an object that does not exist yet
    \* Bounds of the model, not of the code.
    ClientObjects,   \* Client objects created
    StreamObjects    \* Stream objects created

Objects == ClientObjects \cup StreamObjects
Handles == ClientHandles \cup StreamHandles

ASSUME BindingAssumption ==
    /\ Languages \subseteq {"go", "node", "python"}
    /\ IsFiniteSet(Hosts)
    /\ ClientObjects \subseteq Nat /\ StreamObjects \subseteq Nat
    /\ ClientObjects \cap StreamObjects = {}
    /\ ClientHandles \cap StreamHandles = {}
    /\ Null \notin Objects \cup Handles \cup Hosts
    /\ Unmade \notin Handles \cup {Null}

VARIABLES
    language,    \* the binding in use
    handle,      \* _handle of each object, Null once closed
    inFlight,    \* _inFlight of each object
    lock,        \* who holds the object's lock (in Node: is on its thread)
    native,      \* registry of the C ABI: the object a live address was made for
    parent,      \* the native client a native stream was started on
    unfinished,  \* native streams that are not terminal
    call,        \* what each host is doing
    iterating,   \* the stream each host iterates over
    private,     \* streams made by an iterator, which nobody else has
    foreign      \* ghost: operations that reached another object's handle

bindingVars == <<language, handle, inFlight, lock, native, parent, unfinished,
                 call, iterating, private, foreign>>

NoCall == [op |-> "none", on |-> Null, at |-> Null, step |-> "idle", made |-> Null]

Operations == {"call", "next", "cancel", "start", "iterate", "close"}

BindingTypeOK ==
    /\ language \in Languages
    /\ handle \in [Objects -> Handles \cup {Null, Unmade}]
    /\ inFlight \in [Objects -> Nat]
    /\ lock \in [Objects -> Hosts \cup {Null}]
    /\ native \in [Handles -> Objects \cup {Null}]
    /\ parent \in [StreamObjects -> ClientObjects \cup {Null}]
    /\ unfinished \subseteq StreamObjects
    /\ call \in [Hosts -> [op : Operations \cup {"none"}, on : Objects \cup {Null},
                           at : Handles \cup {Null}, made : StreamObjects \cup {Null},
                           step : {"idle", "native", "leave", "free", "clear"}]]
    /\ iterating \in [Hosts -> StreamObjects \cup {Null}]
    /\ private \subseteq StreamObjects
    /\ foreign \subseteq Operations

BindingInit ==
    /\ language \in Languages
    /\ handle = [o \in Objects |-> Unmade]
    /\ inFlight = [o \in Objects |-> 0]
    /\ lock = [o \in Objects |-> Null]
    /\ native = [a \in Handles |-> Null]
    /\ parent = [s \in StreamObjects |-> Null]
    /\ unfinished = {}
    /\ call = [h \in Hosts |-> NoCall]
    /\ iterating = [h \in Hosts |-> Null]
    /\ private = {}
    /\ foreign = {}

-----------------------------------------------------------------------------
(* How each binding protects an operation: "counted" in _inFlight, "held"    *)
(* the lock (the JavaScript thread) throughout, or "bare", the handle being  *)
(* read first and used later.                                                *)

GoProtects(op) == IF op = "cancel" THEN "bare" ELSE "counted"

NodeProtects(op) == IF op \in {"call", "next"} THEN "counted" ELSE "held"

PythonProtects(op) == IF op \in {"cancel", "start", "iterate"} THEN "bare" ELSE "counted"

Protection(op) ==
    CASE language = "go" -> GoProtects(op)
      [] language = "node" -> NodeProtects(op)
      [] language = "python" -> PythonProtects(op)

\* Nobody holds the lock a host needs; Python reads _handle without it.
Available(o, op) ==
    CASE language = "go" -> lock[o] = Null
      [] language = "node" -> \A p \in Objects : lock[p] = Null
      [] language = "python" -> lock[o] = Null \/ Protection(op) = "bare"

-----------------------------------------------------------------------------
(* Calls *)

Open(o) == handle[o] \in Handles

\* Objects are made in order.
Unborn(kind) == {o \in kind : handle[o] = Unmade /\ \A h \in Hosts : call[h].made # o}
NextObject(kind) == CHOOSE o \in Unborn(kind) : \A p \in Unborn(kind) : o <= p

\* The constructor calls sdk_new; nobody else has the object yet.
NewClientObject(h, a) ==
    /\ call[h] = NoCall
    /\ Unborn(ClientObjects) # {}
    /\ native[a] = Null
    /\ LET c == NextObject(ClientObjects)
       IN  /\ native' = [native EXCEPT ![a] = c]
           /\ handle' = [handle EXCEPT ![c] = a]
    /\ UNCHANGED <<language, inFlight, lock, parent, unfinished, call, iterating, foreign, private>>

Reachable(h, s) == s \in private => iterating[h] = s

\* acquire, _native_call_guard or the synchronous increment; bare operations
\* only read the handle.
Begin(h, o, op) ==
    /\ call[h] = NoCall
    /\ Open(o)
    /\ Available(o, op)
    /\ call' = [call EXCEPT ![h] = [op |-> op, on |-> o, at |-> handle[o], step |-> "native", made |-> Null]]
    /\ inFlight' = [inFlight EXCEPT ![o] = @ + (IF Protection(op) = "counted" THEN 1 ELSE 0)]
    /\ lock' = [lock EXCEPT ![o] = IF Protection(op) = "held" THEN h ELSE @]
    /\ UNCHANGED <<language, handle, native, parent, unfinished, iterating, foreign, private>>

BeginOnClient(h, c) ==
    \/ Begin(h, c, "call")
    \/ Unborn(StreamObjects) # {} /\ Begin(h, c, "start")
    \/ Unborn(StreamObjects) # {} /\ iterating[h] = Null /\ Begin(h, c, "iterate")

BeginOnStream(h, s) ==
    /\ Reachable(h, s)
    /\ \/ Begin(h, s, "next")
       \/ s \notin private /\ Begin(h, s, "cancel")

\* The C ABI looks the address up: a handle that is not live is refused.
Missed(h) == native[call[h].at] \notin {Null, call[h].on}

Noted(h) == foreign' = IF Missed(h) THEN foreign \cup {call[h].op} ELSE foreign

\* A blocking request or a poll leaves the registry alone; whether it ends with
\* an answer, an error or its timeout makes no difference to the objects.
NativeCall(h) ==
    /\ call[h].step = "native" /\ call[h].op \in {"call", "next"}
    /\ Noted(h)
    /\ call' = [call EXCEPT ![h].step = "leave"]
    /\ UNCHANGED <<language, handle, inFlight, lock, native, parent, unfinished, iterating, private>>

NativeCancel(h) ==
    /\ call[h].step = "native" /\ call[h].op = "cancel"
    /\ Noted(h)
    /\ unfinished' = unfinished \ {native[call[h].at]}
    /\ call' = [call EXCEPT ![h].step = "leave"]
    /\ UNCHANGED <<language, handle, inFlight, lock, native, parent, iterating, private>>

NativeStart(h) ==
    /\ call[h].step = "native" /\ call[h].op \in {"start", "iterate"}
    /\ Noted(h)
    /\ \/ /\ native[call[h].at] # Null /\ Unborn(StreamObjects) # {}
          /\ LET s == NextObject(StreamObjects)
             IN  \E a \in StreamHandles :
                    /\ native[a] = Null
                    /\ native' = [native EXCEPT ![a] = s]
                    /\ parent' = [parent EXCEPT ![s] = native[call[h].at]]
                    /\ unfinished' = unfinished \cup {s}
                    /\ call' = [call EXCEPT ![h].step = "leave", ![h].made = s]
       \/ /\ native[call[h].at] = Null \/ Unborn(StreamObjects) = {}
          /\ call' = [call EXCEPT ![h].step = "leave"]
          /\ UNCHANGED <<native, parent, unfinished>>
    /\ UNCHANGED <<language, handle, inFlight, lock, iterating, private>>

\* release, the guard's exit or the promise's finally; a started stream gets
\* its object, which an iterator keeps to itself.
HandleOf(s) == CHOOSE a \in Handles : native[a] = s

Leave(h) ==
    LET c == call[h]
    IN  /\ c.step = "leave"
        /\ inFlight' = [inFlight EXCEPT ![c.on] = @ - (IF Protection(c.op) = "counted" THEN 1 ELSE 0)]
        /\ lock' = [lock EXCEPT ![c.on] = IF Protection(c.op) = "held" THEN Null ELSE @]
        /\ handle' = [o \in Objects |-> IF o = c.made THEN HandleOf(o) ELSE handle[o]]
        /\ LET own == {s \in StreamObjects : c.op = "iterate" /\ c.made = s}
           IN  /\ private' = private \cup own
               /\ iterating' = [iterating EXCEPT ![h] = IF own # {} THEN c.made ELSE @]
        /\ call' = [call EXCEPT ![h] = NoCall]
        /\ UNCHANGED <<language, native, parent, unfinished, foreign>>

\* The task of a native stream comes to its end by itself.
StreamEnds(s) ==
    /\ s \in unfinished
    /\ unfinished' = unfinished \ {s}
    /\ UNCHANGED <<language, handle, inFlight, lock, native, parent, call, iterating, foreign, private>>

-----------------------------------------------------------------------------
(* Closing, under the lock from the first check to the last assignment *)

\* Fault: the calls in flight are left to the C ABI.
IdleUnchecked(o) == TRUE

Idle(o) == inFlight[o] = 0

\* A closed object stays so, and a busy one is refused: neither is a step.
CloseBegin(h, o) ==
    /\ call[h] = NoCall
    /\ Open(o)
    /\ Available(o, "close")
    /\ Idle(o)
    /\ lock' = [lock EXCEPT ![o] = h]
    /\ call' = [call EXCEPT ![h] = [op |-> "close", on |-> o, at |-> handle[o], made |-> Null,
                                    step |-> IF o \in StreamObjects THEN "native" ELSE "free"]]
    /\ UNCHANGED <<language, handle, inFlight, native, parent, unfinished, iterating, foreign, private>>

CloseClient(h, c) == CloseBegin(h, c)

\* Also how an iterator ends: by break, panic, error or terminal event.
CloseStream(h, s) == Reachable(h, s) /\ CloseBegin(h, s)

CloseCancel(h) ==
    /\ call[h].step = "native" /\ call[h].op = "close"
    /\ unfinished' = unfinished \ {native[call[h].at]}
    /\ call' = [call EXCEPT ![h].step = "free"]
    /\ UNCHANGED <<language, handle, inFlight, lock, native, parent, iterating, foreign, private>>

\* stream_free and sdk_free, which refuse a live stream and a client with streams.
Freeable(o) ==
    IF o \in StreamObjects THEN o \notin unfinished
    ELSE \A a \in StreamHandles : native[a] # Null => parent[native[a]] # o

Iterated(h, o) == [iterating EXCEPT ![h] = IF @ = o THEN Null ELSE @]

\* A refused free keeps the handle for a retry; an iterator does not retry.
CloseFree(h) ==
    LET c == call[h]
    IN  /\ c.step = "free"
        /\ Noted(h)
        /\ \/ /\ native[c.at] # Null /\ Freeable(native[c.at])
              /\ native' = [native EXCEPT ![c.at] = Null]
              /\ call' = [call EXCEPT ![h].step = "clear"]
              /\ UNCHANGED <<lock, iterating>>
           \/ /\ native[c.at] = Null \/ ~Freeable(native[c.at])
              /\ lock' = [lock EXCEPT ![c.on] = Null]
              /\ call' = [call EXCEPT ![h] = NoCall]
              /\ iterating' = Iterated(h, c.on)
              /\ UNCHANGED native
        /\ UNCHANGED <<language, handle, inFlight, parent, unfinished, private>>

CloseClear(h) ==
    LET c == call[h]
    IN  /\ c.step = "clear"
        /\ handle' = [handle EXCEPT ![c.on] = Null]
        /\ lock' = [lock EXCEPT ![c.on] = Null]
        /\ iterating' = Iterated(h, c.on)
        /\ call' = [call EXCEPT ![h] = NoCall]
        /\ UNCHANGED <<language, inFlight, native, parent, unfinished, foreign, private>>

-----------------------------------------------------------------------------
HostStep(h) ==
    \/ \E a \in ClientHandles : NewClientObject(h, a)
    \/ \E c \in ClientObjects : BeginOnClient(h, c) \/ CloseClient(h, c)
    \/ \E s \in StreamObjects : BeginOnStream(h, s) \/ CloseStream(h, s)
    \/ NativeCall(h) \/ NativeCancel(h) \/ NativeStart(h) \/ Leave(h)
    \/ CloseCancel(h) \/ CloseFree(h) \/ CloseClear(h)

BindingNext == \/ \E h \in Hosts : HostStep(h)
               \/ \E s \in StreamObjects : StreamEnds(s)

BindingSpec == BindingInit /\ [][BindingNext]_bindingVars

-----------------------------------------------------------------------------
(* Properties *)

\* An open object's handle is the live native handle made for it, until its own
\* close has freed it; and every native handle has an object that can close it,
\* or a call about to make one.  Nothing is freed twice and nothing leaks.
ObjectsOwnHandles ==
    /\ \A o \in Objects : Open(o) =>
          \/ native[handle[o]] = o
          \/ \E h \in Hosts : call[h].on = o /\ call[h].step = "clear" /\ lock[o] = h
    /\ \A a \in Handles : native[a] # Null =>
          \/ handle[native[a]] = a
          \/ \E h \in Hosts : call[h].made = native[a]

\* Only an operation that neither counts itself nor holds the lock may come
\* after the free and be taken for one on another object: cancel in Go and
\* Python, and start_stream in Python.  In Node there is none.
OnlyBareCallsMiss == \A op \in foreign : Protection(op) = "bare"

\* While a call is counted its object stays open, so what a request, a poll or
\* a Go StartStream runs on is not freed under it.
CountedStayOpen ==
    \A h \in Hosts : LET c == call[h]
                     IN  c.op # "close" /\ c.op # "none" /\ Protection(c.op) = "counted"
                            => native[c.at] = c.on

\* A stream an iterator made is freed when the iterator is done with it.
IteratedStreamsFreed ==
    \A s \in private : handle[s] = Null \/ \E h \in Hosts : iterating[h] = s

\* The bindings keep the free contract of the C ABI.
BindingsSound == ObjectsOwnHandles /\ OnlyBareCallsMiss /\ CountedStayOpen /\ IteratedStreamsFreed
=============================================================================
