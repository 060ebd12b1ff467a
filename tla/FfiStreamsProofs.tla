-------------------------- MODULE FfiStreamsProofs --------------------------
(***************************************************************************)
(* Proofs about the handles and streams of the C ABI, for every number of  *)
(* threads, clients, streams and addresses: no call touches a handle that  *)
(* is gone or frees one that is in use (HandlesSound), no stream is left   *)
(* without somebody who will end it (NoOrphanStream), and the event queue  *)
(* with its tasks, settling calls and cancellations implements EventStream *)
(* (ImplementsEventStream).                                                *)
(*                                                                         *)
(* None of these is inductive alone.  That a Box is dropped once needs to  *)
(* know that no two calls are dropping it (ClientBoxes, StreamBoxes); the  *)
(* count of a client's operations needs it too; that a stream is freed     *)
(* only when terminal needs to know what stream_free has seen before it    *)
(* looked the address up again (FreeingTerminal); and what a panic leaves  *)
(* behind depends on who has the JoinHandle while the task still runs      *)
(* (Joinable).  IInv joins them.                                           *)
(*                                                                         *)
(* And about the objects of the Go, Node and Python bindings: they keep    *)
(* the free contract of the C ABI (BindingsSound), for every number of     *)
(* hosts, objects and handles.  That a handle belongs to its object is not *)
(* inductive: it rests on what protects each call.  _inFlight is the       *)
(* number of counted calls (Counts), a held lock is held by the call that  *)
(* took it (Locks), so that a counted or held call and a close never       *)
(* overlap on an object (Protected, Closing), and a native stream whose    *)
(* object is still to be made has one call that will make it (Making).     *)
(* BindingsInv joins them.                                                 *)
(***************************************************************************)
EXTENDS FfiStreams, Bindings, FiniteSetTheorems, SequenceTheorems, WellFoundedInduction, TLAPS

OnClient == {"spawn", "dropClient"}
OnStream == Sections \ (OnClient \cup {"idle"})

\* Calls with a stream Box that is in no registry: not yet, or no longer
Holding == {"register", "freeCount", "dropStream"}

\* stream_free after it has found the stream terminal
Freeing == {"freeUnregister", "freeCount", "dropStream"}

\* Calls that have taken the JoinHandle and will end the stream
Completing == {"nextComplete", "freeComplete", "cancelComplete"}

\* What a call works on is of its kind, and a stream it works on was started.
CallsTyped ==
    \A t \in Threads :
        /\ pc[t] \in OnClient => arg[t] \in ClientAddrs /\ mine[t] \in Clients
        /\ pc[t] \in OnStream => arg[t] \in StreamAddrs /\ mine[t] \in Started

ClientBoxes ==
    /\ \A a \in liveClients : clientAt[a] # None
    /\ \A t \in Threads :
          pc[t] = "dropClient" => clientAt[arg[t]] = mine[t] /\ arg[t] \notin liveClients
    /\ \A t, u \in Threads :
          pc[t] = "dropClient" /\ pc[u] = "dropClient" /\ arg[t] = arg[u] => t = u

StreamBoxes ==
    /\ \A a \in liveStreams : streamAt[a] # None
    /\ \A a \in StreamAddrs : streamAt[a] # None => streamAt[a] \in Started
    /\ \A a, b \in StreamAddrs : streamAt[a] = streamAt[b] /\ streamAt[a] # None => a = b
    /\ \A t \in Threads :
          pc[t] \in Holding => streamAt[arg[t]] = mine[t] /\ arg[t] \notin liveStreams
    /\ \A t, u \in Threads :
          pc[t] \in Holding /\ pc[u] \in Holding /\ arg[t] = arg[u] => t = u

FreeingTerminal == \A t \in Threads : pc[t] \in Freeing => mine[t] \in terminal

\* Somebody has the JoinHandle of every stream that is not terminal, even while
\* its task runs; and a task that came to its end made its stream terminal.
Joinable ==
    /\ \A s \in Started \ terminal :
          s \in join \/ \E t \in Threads : mine[t] = s /\ pc[t] \in Completing
    /\ \A s \in Streams : task[s] = "ended" => s \in terminal

IInv ==
    /\ TypeOK
    /\ CallsTyped
    /\ ClientBoxes
    /\ StreamBoxes
    /\ FreeingTerminal
    /\ BusyNotMissed
    /\ Joinable

\* Where the task of a stream that is not terminal is tells what the stream has
\* said; and no more was read than was said.
Said(s) ==
    /\ read[s] <= Len(log[s])
    /\ s \notin terminal =>
          /\ task[s] \in {"none", "opening"} => Stage(s) = "opening"
          /\ task[s] = "streaming" => Stage(s) = "body"
          /\ task[s] = "done" => Stage(s) \in {"body", "counted"}
          /\ task[s] = "finish" => Stage(s) = "done"
          /\ task[s] # "ended"
          /\ task[s] \in {"panicked", "aborted"} => Stage(s) \in {"opening", "body"}

\* A stream that was not started has no task, and a call that settles a task has
\* seen it finished.
SaidSoFar ==
    /\ \A s \in Streams : Said(s)
    /\ \A s \in Streams : owner[s] = None => task[s] = "none"
    /\ \A t \in Threads : pc[t] \in {"nextComplete", "freeComplete"} => IsFinished(mine[t])

-----------------------------------------------------------------------------
(* Facts about the pieces of the steps *)

\* Calls that leave the Boxes, the registries and the counters alone
QuietStep(t) ==
    \/ \E a \in StreamAddrs : \/ StreamParts(t, a, "nextSettle")
                              \/ StreamParts(t, a, "cancelAbort")
                              \/ StreamParts(t, a, "freeSettle")
    \/ Settle(t, "nextSettle", "nextComplete", "next")
    \/ SettleComplete(t, "nextComplete", "next")
    \/ NextStreamEvent(t)
    \/ CancelAbort(t) \/ CancelComplete(t)
    \/ Settle(t, "freeSettle", "freeComplete", "freePending")
    \/ SettleComplete(t, "freeComplete", "freePending")
    \/ FreePending(t)

\* The sections such a call is in
Quiet == OnStream \ (Holding \cup {"freeUnregister"})

\* A set of natural numbers has a least element (by the well-founded inclusion
\* of the intervals up to its elements).
LEMMA LeastExists ==
    ASSUME NEW S, S \subseteq Nat, S # {}
    PROVE  \E x \in S : \A y \in S : x <= y
<1> DEFINE T == {1..n : n \in S}
<1>1. \A n \in Nat : 1..n \in FiniteSubsetsOf(Nat)
  <2> TAKE n \in Nat
  <2>1. IsFiniteSet(1..n)
    BY FS_Interval
  <2>2. 1..n \subseteq Nat
    OBVIOUS
  <2> QED
    BY <2>1, <2>2 DEF FiniteSubsetsOf
<1>2. T \subseteq FiniteSubsetsOf(Nat) /\ T # {}
  BY <1>1
<1>3. \E x \in T : \A y \in T : ~(<<y, x>> \in StrictSubsetOrdering(Nat))
  BY <1>2, WFMin, FS_StrictSubsetOrderingWellFounded
<1>4. PICK n \in S : \A m \in S : ~(<<1..m, 1..n>> \in StrictSubsetOrdering(Nat))
  BY <1>3
<1>5. ASSUME NEW m \in S, m < n PROVE FALSE
  <2>1. 1..m \subseteq 1..n /\ 1..m # 1..n /\ 1..m \subseteq Nat /\ 1..n \subseteq Nat
    BY <1>5
  <2> QED
    BY <2>1, <1>4, <1>5 DEF StrictSubsetOrdering
<1> QED
  BY <1>4, <1>5

\* The stream that spawn_stream takes was not started before.
LEMMA NextStreamFree ==
    ASSUME \E s \in Streams : owner[s] = None
    PROVE  NextStream \in Streams /\ owner[NextStream] = None
<1> DEFINE S == {s \in Streams : owner[s] = None}
<1>1. S \subseteq Nat /\ S # {}
  BY FfiAssumption DEF Streams
<1> HIDE DEF S
<1>2. \E x \in S : \A y \in S : x <= y
  BY <1>1, LeastExists
<1> QED
  BY <1>2 DEF S, NextStream

\* Any set of streams is finite and within the bound.
LEMMA StreamSetFinite ==
    ASSUME NEW S, S \subseteq Streams
    PROVE  IsFiniteSet(S) /\ Cardinality(S) \in 0..MaxStreams
<1>1. IsFiniteSet(Streams) /\ Cardinality(Streams) = MaxStreams
  BY FS_Interval, FfiAssumption DEF Streams
<1> QED
  BY <1>1, FS_Subset, FS_CardinalityType, FfiAssumption

\* A task touches neither threads nor handles, nor the join slots.
LEMMA TaskFrame ==
    ASSUME NEW s \in Streams, TaskStep(s) \/ Panic(s)
    PROVE  UNCHANGED taskLeaves
  BY DEF TaskStep, OpenFails, Opened, Chunk, ChunkFails, BodyEnds, Done, Finish, Abort, Panic

\* A quiet call stays on its stream until it returns, or gets one from the registry.
LEMMA QuietFrame ==
    ASSUME IInv, NEW t \in Threads, QuietStep(t)
    PROVE  /\ UNCHANGED <<clientVars, handleVars, task>>
           /\ pc[t] \in Quiet \cup {"idle"}
           /\ \E a \in StreamAddrs \cup {None}, m \in Started \cup {None},
                 section \in Quiet \cup {"idle", "freeUnregister"} :
                 /\ Call(t, a, m, section)
                 /\ section # "idle" => a \in StreamAddrs /\ m \in Started
<1> USE DEF Quiet, OnStream, OnClient, Holding, Sections, Call, Goto, Return
<1>0. /\ mine \in [Threads -> Clients \cup Streams \cup {None}]
      /\ arg \in [Threads -> ClientAddrs \cup StreamAddrs \cup {None}]
  BY DEF IInv, TypeOK
<1>1. ASSUME NEW a \in StreamAddrs, NEW section \in {"nextSettle", "cancelAbort", "freeSettle"},
             StreamParts(t, a, section)
      PROVE  /\ UNCHANGED <<clientVars, handleVars, task>> /\ pc[t] = "idle"
             /\ Call(t, a, streamAt[a], section) /\ streamAt[a] \in Started
  BY <1>1 DEF IInv, StreamBoxes, StreamParts, taskVars
<1>2. ASSUME ~\E a \in StreamAddrs : \/ StreamParts(t, a, "nextSettle")
                                     \/ StreamParts(t, a, "cancelAbort")
                                     \/ StreamParts(t, a, "freeSettle")
      PROVE  /\ UNCHANGED <<clientVars, handleVars, task>> /\ pc[t] \in Quiet
             /\ Return(t) \/ \E section \in Quiet \cup {"freeUnregister"} : Goto(t, section)
  BY <1>2 DEF QuietStep, Settle, SettleComplete, NextStreamEvent, CancelAbort, CancelComplete,
              FreePending, taskVars
<1>3. pc[t] \in Quiet => arg[t] \in StreamAddrs /\ mine[t] \in Started
  BY DEF IInv, CallsTyped
<1>4. ASSUME NEW section, Goto(t, section) PROVE Call(t, arg[t], mine[t], section)
  BY <1>0, <1>4
<1> QED
  BY <1>1, <1>2, <1>3, <1>4

-----------------------------------------------------------------------------
(* Each conjunct of IInv is preserved: one step per action *)

\* Every call keeps to a client or a started stream.
LEMMA CallsStep ==
    ASSUME IInv, [Next]_vars
    PROVE  CallsTyped'
<1> USE DEF IInv, TypeOK, CallsTyped, Started, OnStream, OnClient, Sections, Call, Goto, Return
<1>1. CASE UNCHANGED vars
  BY <1>1 DEF vars, threadVars, handleVars
<1>2. ASSUME NEW s \in Streams, TaskStep(s) \/ Panic(s) PROVE CallsTyped'
  BY <1>2, TaskFrame DEF taskLeaves, threadVars, handleVars
<1>3. ASSUME NEW t \in Threads, QuietStep(t) PROVE CallsTyped'
  BY <1>3, QuietFrame DEF Quiet, Holding, handleVars
<1>4. ASSUME NEW t \in Threads, NEW a \in ClientAddrs, NewClient(t, a) PROVE CallsTyped'
  BY <1>4 DEF NewClient, threadVars, handleVars
<1>5. ASSUME NEW t \in Threads, NEW a \in ClientAddrs, FreeClient(t, a) PROVE CallsTyped'
  BY <1>5 DEF FreeClient, handleVars, ClientBoxes
<1>6. ASSUME NEW t \in Threads, NEW a \in ClientAddrs, StartStream(t, a) PROVE CallsTyped'
  BY <1>6 DEF StartStream, handleVars, ClientBoxes
<1>7. ASSUME NEW t \in Threads, DropClient(t) PROVE CallsTyped'
  BY <1>7 DEF DropClient, handleVars
<1>8. ASSUME NEW t \in Threads, SpawnStream(t) PROVE CallsTyped'
  <2>1. NextStream \in Streams /\ owner[NextStream] = None
    BY <1>8, NextStreamFree DEF SpawnStream
  <2> HIDE DEF Started
  <2>2. CASE ~StillTheClient(t)
    BY <1>8, <2>2 DEF SpawnStream, handleVars, Started
  <2>3. CASE StillTheClient(t)
    <3>1. mine[t] \in Clients /\ mine[t] # None
      BY <1>8, FfiAssumption DEF SpawnStream, Clients, None
    <3>2. NextStream \in Started' /\ Started \subseteq Started'
      BY <1>8, <2>1, <2>3, <3>1 DEF SpawnStream, Started
    <3>3. \E a \in StreamAddrs : Call(t, a, NextStream, "register")
      BY <1>8, <2>3 DEF SpawnStream
    <3> QED
      BY <3>2, <3>3
  <2> QED
    BY <2>2, <2>3
<1>9. ASSUME NEW t \in Threads, RegisterStream(t) PROVE CallsTyped'
  BY <1>9 DEF RegisterStream
<1>10. ASSUME NEW t \in Threads, FreeUnregister(t) PROVE CallsTyped'
  BY <1>10 DEF FreeUnregister
<1>11. ASSUME NEW t \in Threads, FreeCount(t) PROVE CallsTyped'
  BY <1>11 DEF FreeCount, handleVars
<1>12. ASSUME NEW t \in Threads, DropStream(t) PROVE CallsTyped'
  BY <1>12 DEF DropStream
<1> QED
  BY <1>1, <1>2, <1>3, <1>4, <1>5, <1>6, <1>7, <1>8, <1>9, <1>10, <1>11, <1>12
  DEF Next, Enter, ThreadStep, QuietStep

\* A call that leaves the client Boxes alone and does not set out to drop one
LEMMA ClientKept ==
    ASSUME IInv, NEW t \in Threads, UNCHANGED <<clientAt, liveClients>>,
           NEW a, NEW m, NEW section, Call(t, a, m, section), section # "dropClient"
    PROVE  ClientBoxes'
  BY DEF IInv, TypeOK, ClientBoxes, Call

\* sdk_free drops the Box it took out of the registry, and no other call does.
LEMMA ClientStep ==
    ASSUME IInv, [Next]_vars
    PROVE  ClientBoxes'
<1>0. \A t \in Threads : \A section : Goto(t, section) => Call(t, arg[t], mine[t], section)
  BY DEF IInv, TypeOK, Goto, Call
<1>1. CASE UNCHANGED vars
  BY <1>1 DEF vars, threadVars, clientVars, IInv, ClientBoxes
<1>2. ASSUME NEW s \in Streams, TaskStep(s) \/ Panic(s) PROVE ClientBoxes'
  BY <1>2, TaskFrame DEF taskLeaves, threadVars, clientVars, IInv, ClientBoxes
<1>3. ASSUME NEW t \in Threads, QuietStep(t) PROVE ClientBoxes'
  <2>1. PICK section \in Quiet \cup {"idle", "freeUnregister"} : \E a, m : Call(t, a, m, section)
    BY <1>3, QuietFrame
  <2>2. section # "dropClient" /\ UNCHANGED <<clientAt, liveClients>>
    BY <1>3, QuietFrame DEF clientVars, Quiet, OnStream, OnClient
  <2> QED
    BY <2>1, <2>2, ClientKept
<1>4. ASSUME NEW t \in Threads, NEW a \in ClientAddrs, NewClient(t, a) PROVE ClientBoxes'
  BY <1>4, FfiAssumption DEF NewClient, threadVars, IInv, TypeOK, CallsTyped, OnClient, ClientBoxes,
                             Clients, None
<1>5. ASSUME NEW t \in Threads, NEW a \in ClientAddrs, FreeClient(t, a) PROVE ClientBoxes'
  BY <1>5 DEF FreeClient, Call, IInv, TypeOK, ClientBoxes
<1>6. ASSUME NEW t \in Threads, NEW a \in ClientAddrs, StartStream(t, a) PROVE ClientBoxes'
  BY <1>6, ClientKept DEF StartStream, clientVars
<1>7. ASSUME NEW t \in Threads, DropClient(t) PROVE ClientBoxes'
  BY <1>7 DEF DropClient, Return, Call, IInv, TypeOK, CallsTyped, OnClient, ClientBoxes
<1>8. ASSUME NEW t \in Threads, SpawnStream(t) PROVE ClientBoxes'
  <2>1. PICK section \in {"register", "idle"} : \E a, m : Call(t, a, m, section)
    BY <1>8 DEF SpawnStream, Return
  <2>2. section # "dropClient" /\ UNCHANGED <<clientAt, liveClients>>
    BY <1>8 DEF SpawnStream
  <2> QED
    BY <2>1, <2>2, ClientKept
<1>9. ASSUME NEW t \in Threads, RegisterStream(t) PROVE ClientBoxes'
  BY <1>9, ClientKept DEF RegisterStream, Return, clientVars
<1>10. ASSUME NEW t \in Threads, FreeUnregister(t) PROVE ClientBoxes'
  <2>1. PICK section \in {"freeCount", "idle"} : \E a, m : Call(t, a, m, section)
    BY <1>0, <1>10 DEF FreeUnregister, Return
  <2>2. section # "dropClient" /\ UNCHANGED <<clientAt, liveClients>>
    BY <1>10 DEF FreeUnregister, clientVars
  <2> QED
    BY <2>1, <2>2, ClientKept
<1>11. ASSUME NEW t \in Threads, FreeCount(t) PROVE ClientBoxes'
  BY <1>0, <1>11, ClientKept DEF FreeCount
<1>12. ASSUME NEW t \in Threads, DropStream(t) PROVE ClientBoxes'
  BY <1>12, ClientKept DEF DropStream, Return, clientVars
<1> QED
  BY <1>1, <1>2, <1>3, <1>4, <1>5, <1>6, <1>7, <1>8, <1>9, <1>10, <1>11, <1>12
  DEF Next, Enter, ThreadStep, QuietStep

\* A call that leaves the stream Boxes alone and gets none of them
LEMMA StreamKept ==
    ASSUME IInv, NEW t \in Threads, UNCHANGED handleVars,
           NEW a, NEW m, NEW section, Call(t, a, m, section), section \notin Holding
    PROVE  StreamBoxes'
  BY DEF IInv, TypeOK, StreamBoxes, Started, Call, handleVars

\* stream_free drops the Box it took out of the registry, and no other call does.
LEMMA StreamStep ==
    ASSUME IInv, [Next]_vars
    PROVE  StreamBoxes'
<1>0. \A t \in Threads : \A section : Goto(t, section) => Call(t, arg[t], mine[t], section)
  BY DEF IInv, TypeOK, Goto, Call
<1>1. CASE UNCHANGED vars
  BY <1>1 DEF vars, threadVars, handleVars, IInv, StreamBoxes, Started
<1>2. ASSUME NEW s \in Streams, TaskStep(s) \/ Panic(s) PROVE StreamBoxes'
  BY <1>2, TaskFrame DEF taskLeaves, threadVars, handleVars, IInv, StreamBoxes, Started
<1>3. ASSUME NEW t \in Threads, QuietStep(t) PROVE StreamBoxes'
  <2>1. PICK section \in Quiet \cup {"idle", "freeUnregister"} : \E a, m : Call(t, a, m, section)
    BY <1>3, QuietFrame
  <2>2. section \notin Holding /\ UNCHANGED handleVars
    BY <1>3, QuietFrame DEF Quiet, Holding
  <2> QED
    BY <2>1, <2>2, StreamKept
<1>4. ASSUME NEW t \in Threads, NEW a \in ClientAddrs, NewClient(t, a) PROVE StreamBoxes'
  BY <1>4 DEF NewClient, threadVars, handleVars, IInv, StreamBoxes, Started
<1>5. ASSUME NEW t \in Threads, NEW a \in ClientAddrs, FreeClient(t, a) PROVE StreamBoxes'
  BY <1>5, StreamKept DEF FreeClient, Holding
<1>6. ASSUME NEW t \in Threads, NEW a \in ClientAddrs, StartStream(t, a) PROVE StreamBoxes'
  BY <1>6, StreamKept DEF StartStream, Holding
<1>7. ASSUME NEW t \in Threads, DropClient(t) PROVE StreamBoxes'
  BY <1>7, StreamKept DEF DropClient, Return, Holding
<1>8. ASSUME NEW t \in Threads, SpawnStream(t) PROVE StreamBoxes'
  <2>1. NextStream \in Streams /\ owner[NextStream] = None
    BY <1>8, NextStreamFree DEF SpawnStream
  <2>2. CASE ~StillTheClient(t)
    BY <1>8, <2>2, StreamKept DEF SpawnStream, Return, Holding, handleVars
  <2>3. CASE StillTheClient(t)
    <3>1. mine[t] \in Clients /\ mine[t] # None /\ NextStream # None
      BY <1>8, <2>1, FfiAssumption DEF SpawnStream, Clients, Streams, None, IInv, CallsTyped, OnClient
    <3>2. NextStream \in Started' /\ Started \subseteq Started' /\ NextStream \notin Started
      BY <1>8, <2>1, <2>3, <3>1 DEF SpawnStream, Started, IInv, TypeOK
    <3>3. PICK a \in StreamAddrs : /\ streamAt[a] = None
                                   /\ streamAt' = [streamAt EXCEPT ![a] = NextStream]
                                   /\ Call(t, a, NextStream, "register")
      BY <1>8, <2>3 DEF SpawnStream
    <3>4. liveStreams' = liveStreams
      BY <1>8 DEF SpawnStream
    <3>5. \A u \in Threads : pc[u] \in Holding => arg[u] \in StreamAddrs /\ mine[u] \in Started
      BY DEF IInv, CallsTyped, Holding, OnStream, OnClient, Sections
    <3>6. a \notin liveStreams /\ \A u \in Threads : pc[u] \in Holding => arg[u] # a
      BY <3>3, <3>5 DEF IInv, StreamBoxes, Started, Streams, None
    <3>7. \A u \in Threads \ {t} : pc'[u] = pc[u] /\ arg'[u] = arg[u] /\ mine'[u] = mine[u]
      BY <3>3 DEF Call, IInv, TypeOK
    <3>8. pc'[t] = "register" /\ arg'[t] = a /\ mine'[t] = NextStream
      BY <3>3 DEF Call, IInv, TypeOK
    <3>9. streamAt'[a] = NextStream /\ \A b \in StreamAddrs \ {a} : streamAt'[b] = streamAt[b]
      BY <3>3 DEF IInv, TypeOK
    <3>10. /\ (\A b \in liveStreams : streamAt[b] # None)'
           /\ (\A b \in StreamAddrs : streamAt[b] # None => streamAt[b] \in Started)'
      BY <3>1, <3>2, <3>4, <3>6, <3>9 DEF IInv, TypeOK, StreamBoxes
    <3>11. (\A b, c \in StreamAddrs : streamAt[b] = streamAt[c] /\ streamAt[b] # None => b = c)'
      BY <3>2, <3>9 DEF IInv, StreamBoxes
    <3>12. (\A u \in Threads : pc[u] \in Holding =>
               streamAt[arg[u]] = mine[u] /\ arg[u] \notin liveStreams)'
      BY <3>4, <3>5, <3>6, <3>7, <3>8, <3>9 DEF IInv, StreamBoxes
    <3>13. (\A u, v \in Threads : pc[u] \in Holding /\ pc[v] \in Holding /\ arg[u] = arg[v] => u = v)'
      BY <3>6, <3>7, <3>8 DEF IInv, StreamBoxes
    <3> QED
      BY <3>10, <3>11, <3>12, <3>13 DEF StreamBoxes
  <2> QED
    BY <2>2, <2>3
<1>9. ASSUME NEW t \in Threads, RegisterStream(t) PROVE StreamBoxes'
  BY <1>9 DEF RegisterStream, Return, Call, Holding, IInv, TypeOK, CallsTyped, OnStream, OnClient,
              Sections, StreamBoxes, Started, None, Streams
<1>10. ASSUME NEW t \in Threads, FreeUnregister(t) PROVE StreamBoxes'
  <2>1. CASE ~StillTheStream(t)
    BY <1>10, <2>1, StreamKept DEF FreeUnregister, Return, Holding, handleVars
  <2>2. CASE StillTheStream(t)
    <3>1. \A u \in Threads : pc[u] \in Holding => arg[u] # arg[t]
      BY <2>2 DEF StillTheStream, IInv, StreamBoxes
    <3>2. /\ pc' = [pc EXCEPT ![t] = "freeCount"] /\ UNCHANGED <<arg, mine, streamAt, owner>>
          /\ liveStreams' = liveStreams \ {arg[t]} /\ streamAt[arg[t]] = mine[t]
      BY <1>10, <2>2 DEF FreeUnregister, StillTheStream, Goto
    <3> QED
      BY <3>1, <3>2 DEF Holding, IInv, TypeOK, StreamBoxes, Started
  <2> QED
    BY <2>1, <2>2
<1>11. ASSUME NEW t \in Threads, FreeCount(t) PROVE StreamBoxes'
  BY <1>11 DEF FreeCount, Goto, Holding, handleVars, IInv, TypeOK, StreamBoxes, Started
<1>12. ASSUME NEW t \in Threads, DropStream(t) PROVE StreamBoxes'
  BY <1>12 DEF DropStream, Return, Call, Holding, IInv, TypeOK, CallsTyped, OnStream, OnClient,
               Sections, StreamBoxes, Started
<1> QED
  BY <1>1, <1>2, <1>3, <1>4, <1>5, <1>6, <1>7, <1>8, <1>9, <1>10, <1>11, <1>12
  DEF Next, Enter, ThreadStep, QuietStep

\* A stream never stops being terminal.
LEMMA TerminalGrows ==
    ASSUME [Next]_vars
    PROVE  terminal \subseteq terminal'
<1> USE DEF CompleteStream, PushStreamEvent, FinishStream, eventVars
<1>1. CASE UNCHANGED vars
  BY <1>1 DEF vars
<1>2. ASSUME NEW s \in Streams, TaskStep(s) \/ Panic(s) PROVE terminal \subseteq terminal'
  BY <1>2 DEF TaskStep, OpenFails, Opened, Chunk, ChunkFails, BodyEnds, Done, Finish, Abort, Panic
<1>3. ASSUME NEW t \in Threads, QuietStep(t) PROVE terminal \subseteq terminal'
  BY <1>3 DEF QuietStep, StreamParts, Settle, SettleComplete, SettleOutcome, NextStreamEvent,
              CancelAbort, CancelComplete, FreePending
<1>4. ASSUME NEW t \in Threads, NEW a \in ClientAddrs,
             NewClient(t, a) \/ FreeClient(t, a) \/ StartStream(t, a)
      PROVE  terminal \subseteq terminal'
  BY <1>4 DEF NewClient, FreeClient, StartStream
<1>5. ASSUME NEW t \in Threads,
             \/ DropClient(t) \/ SpawnStream(t) \/ RegisterStream(t)
             \/ FreeUnregister(t) \/ FreeCount(t) \/ DropStream(t)
      PROVE  terminal \subseteq terminal'
  BY <1>5 DEF DropClient, SpawnStream, RegisterStream, FreeUnregister, FreeCount, DropStream
<1> QED
  BY <1>1, <1>2, <1>3, <1>4, <1>5 DEF Next, Enter, ThreadStep, QuietStep

\* What stream_free has found terminal stays terminal.
LEMMA FreeingStep ==
    ASSUME IInv, [Next]_vars
    PROVE  FreeingTerminal'
<1> USE TerminalGrows DEF IInv, TypeOK, FreeingTerminal, Freeing, Call, Goto, Return
<1>1. CASE UNCHANGED vars
  BY <1>1 DEF vars, threadVars
<1>2. ASSUME NEW s \in Streams, TaskStep(s) \/ Panic(s) PROVE FreeingTerminal'
  BY <1>2, TaskFrame DEF taskLeaves, threadVars
<1>3. ASSUME NEW t \in Threads, QuietStep(t) PROVE FreeingTerminal'
  <2>1. CASE FreePending(t)
    BY <2>1 DEF FreePending
  <2>2. CASE ~FreePending(t)
    BY <1>3, <2>2 DEF QuietStep, StreamParts, Settle, SettleComplete, NextStreamEvent,
                      CancelAbort, CancelComplete
  <2> QED
    BY <2>1, <2>2
<1>4. ASSUME NEW t \in Threads, NEW a \in ClientAddrs,
             NewClient(t, a) \/ FreeClient(t, a) \/ StartStream(t, a)
      PROVE  FreeingTerminal'
  BY <1>4 DEF NewClient, FreeClient, StartStream, threadVars
<1>5. ASSUME NEW t \in Threads,
             \/ DropClient(t) \/ SpawnStream(t) \/ RegisterStream(t)
             \/ FreeUnregister(t) \/ FreeCount(t) \/ DropStream(t)
      PROVE  FreeingTerminal'
  BY <1>5 DEF DropClient, SpawnStream, RegisterStream, FreeUnregister, FreeCount, DropStream
<1> QED
  BY <1>1, <1>2, <1>3, <1>4, <1>5 DEF Next, Enter, ThreadStep, QuietStep

\* A call that is not about to end a stream and takes no JoinHandle
LEMMA JoinKept ==
    ASSUME IInv, terminal \subseteq terminal', NEW t \in Threads, UNCHANGED <<owner, task, join>>,
           NEW a, NEW m, NEW section, Call(t, a, m, section), pc[t] \notin Completing
    PROVE  Joinable'
  BY DEF IInv, TypeOK, Joinable, Started, Call

\* The JoinHandle of a stream that is not terminal never gets lost.
LEMMA JoinStep ==
    ASSUME IInv, [Next]_vars
    PROVE  Joinable'
<1> USE TerminalGrows
<1>0. \A t \in Threads : \A section : Goto(t, section) => Call(t, arg[t], mine[t], section)
  BY DEF IInv, TypeOK, Goto, Call
<1>1. CASE UNCHANGED vars
  BY <1>1 DEF vars, threadVars, handleVars, taskVars, eventVars, IInv, Joinable, Started
<1>2. ASSUME NEW s \in Streams, TaskStep(s) \/ Panic(s) PROVE Joinable'
  <2>1. UNCHANGED <<pc, mine, owner, join>>
    BY <1>2, TaskFrame DEF taskLeaves, threadVars, handleVars
  <2>2. \A r \in Streams : task'[r] = "ended" => task[r] = "ended" \/ r \in terminal'
    BY <1>2 DEF IInv, TypeOK, TaskStep, OpenFails, Opened, Chunk, ChunkFails, BodyEnds, Done, Finish,
                Abort, Panic, Task, FinishStream
  <2> QED
    BY <2>1, <2>2 DEF IInv, Joinable, Started
<1>3. ASSUME NEW t \in Threads, NEW a \in StreamAddrs, NEW section, StreamParts(t, a, section)
      PROVE  Joinable'
  BY <1>3, JoinKept DEF StreamParts, handleVars, taskVars, Completing
<1>4. ASSUME NEW t \in Threads, NEW from, NEW complete \in Completing, NEW skip,
             Settle(t, from, complete, skip), from \notin Completing
      PROVE  Joinable'
  BY <1>4 DEF Settle, Goto, handleVars, eventVars, IInv, TypeOK, Joinable, Started
<1>5. ASSUME NEW t \in Threads, NEW from \in Completing, NEW then, SettleComplete(t, from, then)
      PROVE  Joinable'
  <2>1. mine[t] \in Started
    BY <1>5 DEF SettleComplete, Completing, OnStream, OnClient, Sections, IInv, CallsTyped
  <2>2. mine[t] \in terminal'
    BY <1>5, <2>1 DEF SettleComplete, SettleOutcome, CompleteStream, IInv, Joinable, Started
  <2> QED
    BY <1>5, <2>2 DEF SettleComplete, Goto, handleVars, taskVars, IInv, TypeOK, Joinable, Started
<1>6. ASSUME NEW t \in Threads, NextStreamEvent(t) \/ FreePending(t) PROVE Joinable'
  <2>1. PICK section : \E a, m : Call(t, a, m, section)
    BY <1>0, <1>6 DEF NextStreamEvent, FreePending, Return
  <2>2. pc[t] \notin Completing /\ UNCHANGED <<owner, task, join>>
    BY <1>6 DEF NextStreamEvent, FreePending, handleVars, taskVars, Completing
  <2> QED
    BY <2>1, <2>2, JoinKept
<1>7. ASSUME NEW t \in Threads, CancelAbort(t) PROVE Joinable'
  BY <1>7 DEF CancelAbort, Goto, Completing, handleVars, eventVars, IInv, TypeOK, Joinable, Started
<1>8. ASSUME NEW t \in Threads, CancelComplete(t) PROVE Joinable'
  BY <1>8 DEF CancelComplete, CompleteStream, Return, Call, handleVars, taskVars, IInv, TypeOK,
              Joinable, Started
<1>9. ASSUME NEW t \in Threads, NEW a \in ClientAddrs, NewClient(t, a) PROVE Joinable'
  BY <1>9 DEF NewClient, threadVars, handleVars, taskVars, IInv, Joinable, Started
<1>10. ASSUME NEW t \in Threads, NEW a \in ClientAddrs, FreeClient(t, a) \/ StartStream(t, a)
       PROVE  Joinable'
  BY <1>10, JoinKept DEF FreeClient, StartStream, handleVars, taskVars, Completing
<1>11. ASSUME NEW t \in Threads, SpawnStream(t) PROVE Joinable'
  <2>1. NextStream \in Streams /\ owner[NextStream] = None
    BY <1>11, NextStreamFree DEF SpawnStream
  <2>2. CASE ~StillTheClient(t)
    BY <1>11, <2>2, JoinKept DEF SpawnStream, Return, Completing
  <2>3. CASE StillTheClient(t)
    <3>1. /\ \A r \in Streams : r # NextStream => owner'[r] = owner[r] /\ task'[r] = task[r]
          /\ task'[NextStream] = "opening" /\ join' = join \cup {NextStream}
      BY <1>11, <2>1, <2>3 DEF SpawnStream, IInv, TypeOK
    <3>2. \A u \in Threads \ {t} : pc'[u] = pc[u] /\ mine'[u] = mine[u]
      BY <1>11, <2>3 DEF SpawnStream, Call, IInv, TypeOK
    <3>3. pc[t] \notin Completing
      BY <1>11 DEF SpawnStream, Completing
    <3> QED
      BY <2>1, <3>1, <3>2, <3>3 DEF IInv, Joinable, Started
  <2> QED
    BY <2>2, <2>3
<1>12. ASSUME NEW t \in Threads,
              DropClient(t) \/ RegisterStream(t) \/ FreeUnregister(t) \/ FreeCount(t) \/ DropStream(t)
       PROVE  Joinable'
  <2>1. PICK section : \E a, m : Call(t, a, m, section)
    BY <1>0, <1>12 DEF DropClient, RegisterStream, FreeUnregister, FreeCount, DropStream, Return
  <2>2. pc[t] \notin Completing /\ UNCHANGED <<owner, task, join>>
    BY <1>12 DEF DropClient, RegisterStream, FreeUnregister, FreeCount, DropStream, handleVars,
                 taskVars, Completing
  <2> QED
    BY <2>1, <2>2, JoinKept
<1> QED
  BY <1>1, <1>2, <1>3, <1>4, <1>5, <1>6, <1>7, <1>8, <1>9, <1>10, <1>11, <1>12
  DEF Next, Enter, ThreadStep, Completing

\* Calls that start, count and drop no stream leave the uncounted ones as they are.
LEMMA UncountedKept ==
    ASSUME IInv, NEW t \in Threads, UNCHANGED <<streamAt, owner>>,
           NEW a, NEW m, NEW section, Call(t, a, m, section),
           pc[t] # "dropStream", section # "dropStream"
    PROVE  \A c \in Clients : Uncounted(c)' = Uncounted(c)
<1>1. \A u \in Threads : pc'[u] = "dropStream" <=> pc[u] = "dropStream"
  BY DEF IInv, TypeOK, Call
<1>2. \A u \in Threads : pc[u] = "dropStream" => mine'[u] = mine[u]
  BY DEF IInv, TypeOK, Call
<1>3. {mine[u] : u \in {u \in Threads : pc[u] = "dropStream"}}'
        = {mine[u] : u \in {u \in Threads : pc[u] = "dropStream"}}
  BY <1>1, <1>2
<1> QED
  BY <1>3 DEF Uncounted, Started

\* The counters stay right when neither they nor the uncounted streams change and
\* no client with such a stream loses its handle.
LEMMA BusyKept ==
    ASSUME IInv, UNCHANGED liveOperations, \A c \in Clients : Uncounted(c)' = Uncounted(c),
           \A a \in liveClients :
               \/ a \in liveClients' /\ clientAt'[a] = clientAt[a]
               \/ Uncounted(clientAt[a]) = {}
    PROVE  BusyNotMissed'
<1> SUFFICES ASSUME NEW c \in Clients
             PROVE  /\ liveOperations'[c] = Cardinality(Uncounted(c)')
                    /\ Uncounted(c)' # {} => \E a \in liveClients' : clientAt'[a] = c
  BY DEF BusyNotMissed
<1>1. liveOperations[c] = Cardinality(Uncounted(c))
  BY DEF IInv, BusyNotMissed
<1>2. Uncounted(c) # {} => \E a \in liveClients : clientAt[a] = c
  BY DEF IInv, BusyNotMissed
<1> QED
  BY <1>1, <1>2

\* The counters of the clients' operations stay right.
LEMMA BusyStep ==
    ASSUME IInv, [Next]_vars
    PROVE  BusyNotMissed'
<1>0. \A t \in Threads : \A section : Goto(t, section) => Call(t, arg[t], mine[t], section)
  BY DEF IInv, TypeOK, Goto, Call
<1>fin. \A c \in Clients : IsFiniteSet(Uncounted(c)) /\ IsFiniteSet(Uncounted(c)')
  BY StreamSetFinite DEF Uncounted, Started
<1>1. CASE UNCHANGED vars
  BY <1>1 DEF vars, threadVars, clientVars, handleVars, IInv, BusyNotMissed, Uncounted, Started
<1>2. ASSUME NEW s \in Streams, TaskStep(s) \/ Panic(s) PROVE BusyNotMissed'
  <2>1. UNCHANGED <<pc, mine, clientAt, liveClients, liveOperations, streamAt, owner>>
    BY <1>2, TaskFrame DEF taskLeaves, threadVars, clientVars, handleVars
  <2>2. \A c \in Clients : Uncounted(c)' = Uncounted(c)
    BY <2>1 DEF Uncounted, Started
  <2> QED
    BY <2>1, <2>2, BusyKept
<1>3. ASSUME NEW t \in Threads, QuietStep(t) PROVE BusyNotMissed'
  <2>1. PICK section \in Quiet \cup {"idle", "freeUnregister"} : \E a, m : Call(t, a, m, section)
    BY <1>3, QuietFrame
  <2>2. section # "dropStream" /\ pc[t] # "dropStream"
    BY <1>3, QuietFrame DEF Quiet, Holding
  <2>3. UNCHANGED <<clientAt, liveClients, liveOperations, streamAt, owner>>
    BY <1>3, QuietFrame DEF clientVars, handleVars
  <2> QED
    BY <2>1, <2>2, <2>3, UncountedKept, BusyKept
<1>4. ASSUME NEW t \in Threads, NEW a \in ClientAddrs, NewClient(t, a) PROVE BusyNotMissed'
  <2>1. UNCHANGED <<threadVars, liveOperations, streamAt, owner>>
    BY <1>4 DEF NewClient, handleVars
  <2>2. \A c \in Clients : Uncounted(c)' = Uncounted(c)
    BY <2>1 DEF threadVars, Uncounted, Started
  <2>3. \A b \in liveClients : b \in liveClients' /\ clientAt'[b] = clientAt[b]
    BY <1>4 DEF NewClient, IInv, TypeOK, ClientBoxes
  <2> QED
    BY <2>1, <2>2, <2>3, BusyKept
<1>5. ASSUME NEW t \in Threads, NEW a \in ClientAddrs, FreeClient(t, a) PROVE BusyNotMissed'
  <2>1. UNCHANGED <<clientAt, liveOperations, streamAt, owner>> /\ pc[t] # "dropStream"
    BY <1>5 DEF FreeClient, handleVars
  <2>2. Call(t, a, clientAt[a], "dropClient") /\ "dropClient" # "dropStream"
    BY <1>5 DEF FreeClient
  <2>3. \A c \in Clients : Uncounted(c)' = Uncounted(c)
    BY <2>1, <2>2, UncountedKept
  <2>4. clientAt[a] \in Clients /\ liveOperations[clientAt[a]] = 0
    BY <1>5 DEF FreeClient, ClientIdle, IInv, TypeOK, ClientBoxes
  <2>5. Uncounted(clientAt[a]) = {}
    BY <1>fin, <2>4, FS_EmptySet DEF IInv, BusyNotMissed
  <2>6. liveClients' = liveClients \ {a}
    BY <1>5 DEF FreeClient
  <2> QED
    BY <2>1, <2>3, <2>5, <2>6, BusyKept
<1>6. ASSUME NEW t \in Threads, NEW a \in ClientAddrs, StartStream(t, a) PROVE BusyNotMissed'
  <2>1. Call(t, a, clientAt[a], "spawn") /\ "spawn" # "dropStream" /\ pc[t] # "dropStream"
    BY <1>6 DEF StartStream
  <2>2. UNCHANGED <<clientAt, liveClients, liveOperations, streamAt, owner>>
    BY <1>6 DEF StartStream, clientVars, handleVars
  <2> QED
    BY <2>1, <2>2, UncountedKept, BusyKept
<1>7. ASSUME NEW t \in Threads, DropClient(t) PROVE BusyNotMissed'
  <2>1. Call(t, None, None, "idle") /\ "idle" # "dropStream" /\ pc[t] # "dropStream"
    BY <1>7 DEF DropClient, Return
  <2>2. UNCHANGED <<liveClients, liveOperations, streamAt, owner>>
    BY <1>7 DEF DropClient, handleVars
  <2>3. \A b \in liveClients : b \in liveClients' /\ clientAt'[b] = clientAt[b]
    BY <1>7 DEF DropClient, IInv, TypeOK, ClientBoxes
  <2> QED
    BY <2>1, <2>2, <2>3, UncountedKept, BusyKept
<1>8. ASSUME NEW t \in Threads, SpawnStream(t) PROVE BusyNotMissed'
  <2>1. NextStream \in Streams /\ owner[NextStream] = None
    BY <1>8, NextStreamFree DEF SpawnStream
  <2>2. CASE ~StillTheClient(t)
    <3>1. Call(t, None, None, "idle") /\ "idle" # "dropStream" /\ pc[t] # "dropStream"
      BY <1>8, <2>2 DEF SpawnStream, Return
    <3>2. UNCHANGED <<clientAt, liveClients, liveOperations, streamAt, owner>>
      BY <1>8, <2>2 DEF SpawnStream
    <3> QED
      BY <3>1, <3>2, UncountedKept, BusyKept
  <2>3. CASE StillTheClient(t)
    <3>1. mine[t] \in Clients /\ mine[t] # None /\ NextStream # None
      BY <1>8, <2>1, FfiAssumption DEF SpawnStream, Clients, Streams, None, IInv, CallsTyped, OnClient
    <3>2. PICK a \in StreamAddrs : /\ streamAt[a] = None
                                   /\ streamAt' = [streamAt EXCEPT ![a] = NextStream]
                                   /\ Call(t, a, NextStream, "register")
      BY <1>8, <2>3 DEF SpawnStream
    <3>3. \A u \in Threads : (pc'[u] = "dropStream" <=> pc[u] = "dropStream")
                             /\ (pc[u] = "dropStream" => mine'[u] = mine[u])
      BY <1>8, <3>2 DEF SpawnStream, Call, IInv, TypeOK
    <3>4. owner'[NextStream] = mine[t] /\ \A s \in Streams \ {NextStream} : owner'[s] = owner[s]
      BY <1>8, <2>1, <2>3 DEF SpawnStream, IInv, TypeOK
    <3>5. \A u \in Threads : pc[u] = "dropStream" => mine[u] # NextStream
      BY <2>1 DEF IInv, CallsTyped, OnStream, OnClient, Sections, Started
    <3>6. \A s \in Streams : (\E b \in StreamAddrs : streamAt'[b] = s)
                               <=> s = NextStream \/ \E b \in StreamAddrs : streamAt[b] = s
      BY <3>2, FfiAssumption DEF IInv, TypeOK, Streams, None
    <3>c. PICK c \in Clients : c = mine[t]
      BY <3>1
    <3>7. Uncounted(c)' = Uncounted(c) \cup {NextStream}
      <4>1. \A s \in Streams : s \in Uncounted(c)' <=> s \in Uncounted(c) \/ s = NextStream
        BY <2>1, <3>c, <3>1, <3>3, <3>4, <3>5, <3>6 DEF Uncounted, Started
      <4> QED
        BY <2>1, <4>1 DEF Uncounted, Started
    <3>8. \A d \in Clients \ {c} : Uncounted(d)' = Uncounted(d)
      <4> TAKE d \in Clients \ {c}
      <4>1. d # None
        BY FfiAssumption DEF Clients, None
      <4>2. \A s \in Streams : s \in Uncounted(d)' <=> s \in Uncounted(d)
        BY <4>1, <2>1, <3>c, <3>1, <3>3, <3>4, <3>6 DEF Uncounted, Started
      <4> QED
        BY <4>2 DEF Uncounted, Started
    <3>9. NextStream \notin Uncounted(c)
      BY <2>1 DEF Uncounted, Started
    <3>10. Cardinality(Uncounted(c)') = Cardinality(Uncounted(c)) + 1
      BY <1>fin, <3>7, <3>9, FS_AddElement
    <3>11. /\ UNCHANGED <<clientAt, liveClients>>
           /\ arg[t] \in liveClients /\ clientAt[arg[t]] = c
           /\ liveOperations' = [liveOperations EXCEPT ![c] = @ + 1]
      BY <1>8, <2>3, <3>c DEF SpawnStream, StillTheClient
    <3>12. liveOperations \in [Clients -> 0..MaxStreams]
      BY DEF IInv, TypeOK
    <3>13. \A d \in Clients : liveOperations'[d] = Cardinality(Uncounted(d)')
      BY <3>8, <3>10, <3>11, <3>12 DEF IInv, BusyNotMissed
    <3>14. \A d \in Clients : Uncounted(d)' # {} => \E b \in liveClients' : clientAt'[b] = d
      BY <3>8, <3>11 DEF IInv, BusyNotMissed
    <3> QED
      BY <3>13, <3>14 DEF BusyNotMissed
  <2> QED
    BY <2>2, <2>3
<1>9. ASSUME NEW t \in Threads, RegisterStream(t) PROVE BusyNotMissed'
  <2>1. Call(t, None, None, "idle") /\ "idle" # "dropStream" /\ pc[t] # "dropStream"
    BY <1>9 DEF RegisterStream, Return
  <2>2. UNCHANGED <<clientAt, liveClients, liveOperations, streamAt, owner>>
    BY <1>9 DEF RegisterStream, clientVars
  <2> QED
    BY <2>1, <2>2, UncountedKept, BusyKept
<1>10. ASSUME NEW t \in Threads, FreeUnregister(t) PROVE BusyNotMissed'
  <2>1. PICK section \in {"freeCount", "idle"} : \E a, m : Call(t, a, m, section)
    BY <1>0, <1>10 DEF FreeUnregister, Return
  <2>2. section # "dropStream" /\ pc[t] # "dropStream"
    BY <1>10 DEF FreeUnregister
  <2>3. UNCHANGED <<clientAt, liveClients, liveOperations, streamAt, owner>>
    BY <1>10 DEF FreeUnregister, clientVars
  <2> QED
    BY <2>1, <2>2, <2>3, UncountedKept, BusyKept
<1>11. ASSUME NEW t \in Threads, FreeCount(t) PROVE BusyNotMissed'
  <2>1. mine[t] \in Started /\ arg[t] \in StreamAddrs /\ streamAt[arg[t]] = mine[t]
    BY <1>11 DEF FreeCount, Holding, IInv, CallsTyped, StreamBoxes, OnStream, OnClient, Sections
  <2>2. PICK c \in Clients : c = owner[mine[t]]
    BY <2>1 DEF Started, IInv, TypeOK
  <2>3. UNCHANGED <<clientAt, liveClients, streamAt, owner, mine>>
        /\ pc' = [pc EXCEPT ![t] = "dropStream"]
        /\ liveOperations' = [liveOperations EXCEPT ![c] = @ - 1]
    BY <1>11, <2>2 DEF FreeCount, Goto, handleVars
  <2>4. \A u \in Threads : pc[u] = "dropStream" => mine[u] # mine[t]
    <3> SUFFICES ASSUME NEW u \in Threads, pc[u] = "dropStream", mine[u] = mine[t] PROVE FALSE
      OBVIOUS
    <3>1. arg[u] \in StreamAddrs /\ streamAt[arg[u]] = mine[u]
      BY DEF Holding, IInv, CallsTyped, StreamBoxes, OnStream, OnClient, Sections
    <3>2. mine[t] # None
      BY <2>1, FfiAssumption DEF Started, Streams, None
    <3>3. arg[u] = arg[t]
      BY <2>1, <3>1, <3>2 DEF IInv, StreamBoxes
    <3> QED
      BY <1>11, <3>3 DEF FreeCount, Holding, IInv, StreamBoxes
  <2>5. \A u \in Threads : pc'[u] = "dropStream" <=> u = t \/ pc[u] = "dropStream"
    BY <2>3 DEF IInv, TypeOK
  <2>6. \A d \in Clients : Uncounted(d)' = Uncounted(d) \ {mine[t]}
    BY <2>3, <2>5 DEF Uncounted, Started
  <2>7. mine[t] \in Uncounted(c)
    BY <2>1, <2>2, <2>4 DEF Uncounted, Started
  <2>8. \A d \in Clients \ {c} : mine[t] \notin Uncounted(d)
    BY <2>2 DEF Uncounted
  <2>9. Cardinality(Uncounted(c)') = Cardinality(Uncounted(c)) - 1
    BY <1>fin, <2>6, <2>7, FS_RemoveElement
  <2>10. \A d \in Clients \ {c} : Uncounted(d)' = Uncounted(d)
    BY <2>6, <2>8
  <2>11. liveOperations \in [Clients -> 0..MaxStreams]
    BY DEF IInv, TypeOK
  <2>12. \A d \in Clients : liveOperations'[d] = Cardinality(Uncounted(d)')
    BY <2>3, <2>9, <2>10, <2>11 DEF IInv, BusyNotMissed
  <2>13. \A d \in Clients : Uncounted(d)' # {} => \E b \in liveClients' : clientAt'[b] = d
    BY <2>3, <2>6 DEF IInv, BusyNotMissed
  <2> QED
    BY <2>12, <2>13 DEF BusyNotMissed
<1>12. ASSUME NEW t \in Threads, DropStream(t) PROVE BusyNotMissed'
  <2>1. mine[t] \in Started /\ arg[t] \in StreamAddrs /\ streamAt[arg[t]] = mine[t]
    BY <1>12 DEF DropStream, Holding, IInv, CallsTyped, StreamBoxes, OnStream, OnClient, Sections
  <2>2. UNCHANGED <<clientAt, liveClients, liveOperations, owner>>
        /\ streamAt' = [streamAt EXCEPT ![arg[t]] = None] /\ pc[t] = "dropStream"
    BY <1>12 DEF DropStream, clientVars
  <2>3. pc'[t] = "idle" /\ \A u \in Threads \ {t} : pc'[u] = pc[u] /\ mine'[u] = mine[u]
    BY <1>12 DEF DropStream, Return, Call, IInv, TypeOK
  <2>4. \A s \in Streams : (\E b \in StreamAddrs : streamAt'[b] = s)
                             <=> s # mine[t] /\ \E b \in StreamAddrs : streamAt[b] = s
    BY <2>1, <2>2, FfiAssumption DEF IInv, TypeOK, StreamBoxes, Streams, None, Started
  <2>5. \A s \in Streams, c \in Clients : s \in Uncounted(c)' <=> s \in Uncounted(c)
    BY <2>2, <2>3, <2>4 DEF Uncounted, Started
  <2>6. \A c \in Clients : Uncounted(c)' = Uncounted(c)
    BY <2>5 DEF Uncounted, Started
  <2> QED
    BY <2>2, <2>6, BusyKept
<1> QED
  BY <1>1, <1>2, <1>3, <1>4, <1>5, <1>6, <1>7, <1>8, <1>9, <1>10, <1>11, <1>12
  DEF Next, Enter, ThreadStep, QuietStep

\* What is pushed to a stream is an event.
LEMMA PushTyped ==
    ASSUME TypeOK, NEW s \in Streams, NEW event \in Events,
           \/ PushStreamEvent(s, event) \/ CompleteStream(s, event)
    PROVE  log' \in [Streams -> Seq(Events)] /\ terminal' \subseteq Streams
<1>1. log \in [Streams -> Seq(Events)] /\ terminal \subseteq Streams
  BY DEF TypeOK
<1>2. Append(log[s], event) \in Seq(Events)
  BY <1>1, AppendProperties
<1> QED
  BY <1>1, <1>2 DEF PushStreamEvent, CompleteStream

\* A call leaves the threads' variables of their types.
LEMMA CallTyped ==
    ASSUME TypeOK, NEW t \in Threads, NEW a \in ClientAddrs \cup StreamAddrs \cup {None},
           NEW m \in Clients \cup Streams \cup {None}, NEW section \in Sections,
           Call(t, a, m, section)
    PROVE  /\ pc' \in [Threads -> Sections]
           /\ arg' \in [Threads -> ClientAddrs \cup StreamAddrs \cup {None}]
           /\ mine' \in [Threads -> Clients \cup Streams \cup {None}]
  BY DEF TypeOK, Call

\* Every variable keeps its type.
LEMMA TypeStep ==
    ASSUME IInv, [Next]_vars
    PROVE  TypeOK'
<1>0. TypeOK
  BY DEF IInv
<1>g. ASSUME NEW t \in Threads, NEW section \in Sections, Goto(t, section)
      PROVE  /\ pc' \in [Threads -> Sections]
             /\ arg' \in [Threads -> ClientAddrs \cup StreamAddrs \cup {None}]
             /\ mine' \in [Threads -> Clients \cup Streams \cup {None}]
  BY <1>0, <1>g DEF TypeOK, Goto
<1>r. ASSUME NEW t \in Threads, Return(t)
      PROVE  /\ pc' \in [Threads -> Sections]
             /\ arg' \in [Threads -> ClientAddrs \cup StreamAddrs \cup {None}]
             /\ mine' \in [Threads -> Clients \cup Streams \cup {None}]
  BY <1>0, <1>r, CallTyped DEF Return, Sections
<1>ops. (\E c : liveOperations' = [liveOperations EXCEPT ![c] = @ + 1])
           \/ (\E c : liveOperations' = [liveOperations EXCEPT ![c] = @ - 1])
           \/ UNCHANGED liveOperations
        => liveOperations' \in [Clients -> 0..MaxStreams]
  <2>1. \A c \in Clients : Uncounted(c)' \subseteq Streams
    BY DEF Uncounted, Started
  <2>2. \A c \in Clients : liveOperations'[c] \in 0..MaxStreams
    BY <2>1, BusyStep, StreamSetFinite DEF BusyNotMissed
  <2> QED
    BY <1>0, <2>2 DEF TypeOK
<1>1. CASE UNCHANGED vars
  BY <1>0, <1>1 DEF vars, threadVars, clientVars, handleVars, taskVars, eventVars, TypeOK
<1>2. ASSUME NEW s \in Streams, TaskStep(s) \/ Panic(s) PROVE TypeOK'
  <2>1. task' \in [Streams -> Running \cup {"none", "ended", "panicked", "aborted"}]
    BY <1>0, <1>2 DEF TypeOK, TaskStep, OpenFails, Opened, Chunk, ChunkFails, BodyEnds, Done, Finish,
                      Abort, Panic, Task, Running
  <2>2. \/ \E event \in Events : PushStreamEvent(s, event) \/ CompleteStream(s, event)
        \/ FinishStream(s)
        \/ UNCHANGED <<log, terminal>>
    BY <1>2 DEF TaskStep, OpenFails, Opened, Chunk, ChunkFails, BodyEnds, Done, Finish, Abort, Panic,
                Events
  <2>3. log' \in [Streams -> Seq(Events)] /\ terminal' \subseteq Streams
    BY <1>0, <2>2, PushTyped DEF FinishStream, TypeOK
  <2>4. UNCHANGED taskLeaves
    BY <1>2, TaskFrame
  <2> QED
    BY <1>0, <2>1, <2>3, <2>4 DEF taskLeaves, threadVars, clientVars, handleVars, TypeOK
<1>3. ASSUME NEW t \in Threads, NEW a \in StreamAddrs, NEW section \in Sections,
             StreamParts(t, a, section)
      PROVE  TypeOK'
  <2>1. streamAt[a] \in Streams \cup {None}
    BY <1>0 DEF TypeOK
  <2> QED
    BY <1>0, <1>3, <2>1, CallTyped
    DEF StreamParts, clientVars, handleVars, taskVars, eventVars, TypeOK
<1>4. ASSUME NEW t \in Threads, NEW from, NEW complete \in Sections, NEW skip \in Sections,
             Settle(t, from, complete, skip)
      PROVE  TypeOK'
  <2>1. \E section \in Sections : Goto(t, section)
    BY <1>4 DEF Settle
  <2>2. join' \subseteq Streams /\ UNCHANGED <<clientVars, handleVars, task, aborting, eventVars>>
    BY <1>0, <1>4 DEF Settle, TypeOK
  <2> QED
    BY <1>0, <1>g, <2>1, <2>2 DEF clientVars, handleVars, eventVars, TypeOK
<1>5. ASSUME NEW t \in Threads, NEW from \in Completing, NEW then \in Sections,
             SettleComplete(t, from, then)
      PROVE  TypeOK'
  <2>1. mine[t] \in Streams
    BY <1>5 DEF SettleComplete, Completing, OnStream, OnClient, Sections, IInv, CallsTyped, Started
  <2>2. log' \in [Streams -> Seq(Events)] /\ terminal' \subseteq Streams
    BY <1>0, <1>5, <2>1, PushTyped DEF SettleComplete, SettleOutcome, Events, TypeOK
  <2>3. Goto(t, then) /\ UNCHANGED <<clientVars, handleVars, taskVars, read, closed>>
    BY <1>5 DEF SettleComplete
  <2> QED
    BY <1>0, <1>g, <2>2, <2>3 DEF clientVars, handleVars, taskVars, TypeOK
<1>6. ASSUME NEW t \in Threads, NextStreamEvent(t) PROVE TypeOK'
  <2>1. mine[t] \in Streams
    BY <1>6 DEF NextStreamEvent, OnStream, OnClient, Sections, IInv, CallsTyped, Started
  <2>2. read' \in [Streams -> Nat] /\ closed' \subseteq Streams
    BY <1>0, <1>6, <2>1 DEF NextStreamEvent, TypeOK
  <2>3. Return(t) /\ UNCHANGED <<clientVars, handleVars, taskVars, log, terminal>>
    BY <1>6 DEF NextStreamEvent
  <2> QED
    BY <1>0, <1>r, <2>2, <2>3 DEF clientVars, handleVars, taskVars, TypeOK
<1>7. ASSUME NEW t \in Threads, CancelAbort(t) PROVE TypeOK'
  <2>1. mine[t] \in Streams
    BY <1>7 DEF CancelAbort, OnStream, OnClient, Sections, IInv, CallsTyped, Started
  <2>2. Goto(t, "cancelComplete") /\ "cancelComplete" \in Sections
        /\ UNCHANGED <<clientVars, handleVars, task, eventVars>>
    BY <1>7 DEF CancelAbort, Sections
  <2>3. aborting' \subseteq Streams /\ join' \subseteq Streams
    BY <1>0, <1>7, <2>1 DEF CancelAbort, TypeOK
  <2> QED
    BY <1>0, <1>g, <2>2, <2>3 DEF clientVars, handleVars, eventVars, TypeOK
<1>8. ASSUME NEW t \in Threads, CancelComplete(t) PROVE TypeOK'
  <2>1. mine[t] \in Streams
    BY <1>8 DEF CancelComplete, OnStream, OnClient, Sections, IInv, CallsTyped, Started
  <2>2. log' \in [Streams -> Seq(Events)] /\ terminal' \subseteq Streams
    BY <1>0, <1>8, <2>1, PushTyped DEF CancelComplete, Events
  <2>3. Return(t) /\ UNCHANGED <<clientVars, handleVars, taskVars, read, closed>>
    BY <1>8 DEF CancelComplete
  <2> QED
    BY <1>0, <1>r, <2>2, <2>3 DEF clientVars, handleVars, taskVars, TypeOK
<1>9. ASSUME NEW t \in Threads, FreePending(t) PROVE TypeOK'
  <2>1. Return(t) \/ Goto(t, "freeUnregister")
    BY <1>9 DEF FreePending
  <2>2. "freeUnregister" \in Sections /\ UNCHANGED <<clientVars, handleVars, taskVars, eventVars>>
    BY <1>9 DEF FreePending, Sections
  <2> QED
    BY <1>0, <1>g, <1>r, <2>1, <2>2 DEF clientVars, handleVars, taskVars, eventVars, TypeOK
<1>10. ASSUME NEW t \in Threads, NEW a \in ClientAddrs, NewClient(t, a) PROVE TypeOK'
  BY <1>0, <1>10 DEF NewClient, threadVars, handleVars, taskVars, eventVars, TypeOK
<1>11. ASSUME NEW t \in Threads, NEW a \in ClientAddrs, FreeClient(t, a) PROVE TypeOK'
  <2>1. clientAt[a] \in Clients \cup {None} /\ "dropClient" \in Sections
    BY <1>0 DEF TypeOK, Sections
  <2> QED
    BY <1>0, <1>11, <2>1, CallTyped DEF FreeClient, handleVars, taskVars, eventVars, TypeOK
<1>12. ASSUME NEW t \in Threads, NEW a \in ClientAddrs, StartStream(t, a) PROVE TypeOK'
  <2>1. clientAt[a] \in Clients \cup {None} /\ "spawn" \in Sections
    BY <1>0 DEF TypeOK, Sections
  <2> QED
    BY <1>0, <1>12, <2>1, CallTyped DEF StartStream, clientVars, handleVars, taskVars, eventVars, TypeOK
<1>13. ASSUME NEW t \in Threads, DropClient(t) PROVE TypeOK'
  BY <1>0, <1>r, <1>13 DEF DropClient, handleVars, taskVars, eventVars, TypeOK
<1>14. ASSUME NEW t \in Threads, SpawnStream(t) PROVE TypeOK'
  <2>1. NextStream \in Streams
    BY <1>14, NextStreamFree DEF SpawnStream
  <2>2. UNCHANGED <<clientAt, liveClients, liveStreams, aborting, eventVars>>
    BY <1>14 DEF SpawnStream
  <2>3. CASE ~StillTheClient(t)
    <3>1. Return(t) /\ UNCHANGED <<liveOperations, owner, task, join, streamAt>>
      BY <1>14, <2>3 DEF SpawnStream
    <3> QED
      BY <1>0, <1>r, <2>2, <3>1 DEF eventVars, TypeOK
  <2>4. CASE StillTheClient(t)
    <3>1. mine[t] \in Clients
      BY <1>14 DEF SpawnStream, IInv, CallsTyped, OnClient
    <3>2. PICK a \in StreamAddrs : /\ streamAt' = [streamAt EXCEPT ![a] = NextStream]
                                   /\ Call(t, a, NextStream, "register")
      BY <1>14, <2>4 DEF SpawnStream
    <3>3. /\ pc' \in [Threads -> Sections]
          /\ arg' \in [Threads -> ClientAddrs \cup StreamAddrs \cup {None}]
          /\ mine' \in [Threads -> Clients \cup Streams \cup {None}]
      BY <1>0, <2>1, <3>2, CallTyped DEF Sections
    <3>4. liveOperations' \in [Clients -> 0..MaxStreams]
      BY <1>14, <2>4, <1>ops DEF SpawnStream
    <3>5. /\ owner' \in [Streams -> Clients \cup {None}]
          /\ task' \in [Streams -> Running \cup {"none", "ended", "panicked", "aborted"}]
          /\ join' \subseteq Streams
          /\ streamAt' \in [StreamAddrs -> Streams \cup {None}]
      BY <1>0, <1>14, <2>1, <2>4, <3>1, <3>2 DEF SpawnStream, TypeOK, Running
    <3> QED
      BY <1>0, <2>2, <3>3, <3>4, <3>5 DEF eventVars, TypeOK
  <2> QED
    BY <2>3, <2>4
<1>15. ASSUME NEW t \in Threads, RegisterStream(t) PROVE TypeOK'
  <2>1. arg[t] \in StreamAddrs
    BY <1>15 DEF RegisterStream, OnStream, OnClient, Sections, IInv, CallsTyped
  <2> QED
    BY <1>0, <1>r, <1>15, <2>1 DEF RegisterStream, clientVars, taskVars, eventVars, TypeOK
<1>16. ASSUME NEW t \in Threads, FreeUnregister(t) PROVE TypeOK'
  <2>1. Return(t) \/ Goto(t, "freeCount")
    BY <1>16 DEF FreeUnregister
  <2>2. "freeCount" \in Sections /\ liveStreams' \subseteq StreamAddrs
        /\ UNCHANGED <<clientVars, streamAt, owner, taskVars, eventVars>>
    BY <1>0, <1>16 DEF FreeUnregister, Sections, TypeOK
  <2> QED
    BY <1>0, <1>g, <1>r, <2>1, <2>2 DEF clientVars, taskVars, eventVars, TypeOK
<1>17. ASSUME NEW t \in Threads, FreeCount(t) PROVE TypeOK'
  <2>1. liveOperations' \in [Clients -> 0..MaxStreams]
    BY <1>17, <1>ops DEF FreeCount
  <2>2. Goto(t, "dropStream") /\ "dropStream" \in Sections
        /\ UNCHANGED <<clientAt, liveClients, handleVars, taskVars, eventVars>>
    BY <1>17 DEF FreeCount, Sections
  <2> QED
    BY <1>0, <1>g, <2>1, <2>2 DEF handleVars, taskVars, eventVars, TypeOK
<1>18. ASSUME NEW t \in Threads, DropStream(t) PROVE TypeOK'
  BY <1>0, <1>r, <1>18 DEF DropStream, clientVars, taskVars, eventVars, TypeOK
<1> QED
  BY <1>1, <1>2, <1>3, <1>4, <1>5, <1>6, <1>7, <1>8, <1>9, <1>10, <1>11, <1>12, <1>13, <1>14, <1>15,
     <1>16, <1>17, <1>18 DEF Next, Enter, ThreadStep, Completing, Sections

\* Before the first call there is nothing to keep.
LEMMA InitIInv ==
    ASSUME Init
    PROVE  IInv
<1>1. TypeOK
  BY FfiAssumption, EmptySeq DEF Init, TypeOK, Sections, Running, Clients, Streams
<1>2. CallsTyped /\ ClientBoxes /\ StreamBoxes /\ FreeingTerminal /\ Joinable
  BY DEF Init, CallsTyped, ClientBoxes, StreamBoxes, FreeingTerminal, Joinable, OnClient, OnStream,
         Holding, Freeing, Sections, Started
<1>3. \A c \in Clients : Uncounted(c) = {}
  BY DEF Init, Uncounted, Started
<1>4. BusyNotMissed
  BY <1>3, FS_EmptySet DEF Init, BusyNotMissed
<1> QED
  BY <1>1, <1>2, <1>4 DEF IInv

\* IInv is inductive.
LEMMA Induction ==
    Spec => []IInv
<1>1. Init => IInv
  BY InitIInv
<1>2. IInv /\ [Next]_vars => IInv'
  BY TypeStep, CallsStep, ClientStep, StreamStep, FreeingStep, BusyStep, JoinStep DEF IInv
<1> QED
  BY <1>1, <1>2, PTL DEF Spec

\* The variables of the C ABI keep their types.
THEOREM TypesKept ==
    Spec => []TypeOK
<1>1. IInv => TypeOK
  BY DEF IInv
<1> QED
  BY <1>1, Induction, PTL

\* sdk_free, stream_free and the calls that race them: every registered address
\* has its Box, the Box a free is about to drop is the one it took out of the
\* registry, only terminal streams are freed, and live_operations counts exactly
\* the streams for which sdk_free must answer busy.
THEOREM HandlesStaySound ==
    Spec => []HandlesSound
<1>1. IInv => HandlesSound
  <2> SUFFICES ASSUME IInv PROVE HandlesSound
    OBVIOUS
  <2>1. NoDanglingHandle
    BY DEF IInv, ClientBoxes, StreamBoxes, Holding, NoDanglingHandle
  <2>2. OnlyTerminalFreed
    BY DEF IInv, StreamBoxes, FreeingTerminal, Holding, Freeing, OnlyTerminalFreed
  <2> QED
    BY <2>1, <2>2 DEF IInv, HandlesSound
<1> QED
  BY <1>1, Induction, PTL

\* Whatever of panic, abort, cancel and settling calls happen to a stream, there
\* is somebody left who will end it.
THEOREM NoStreamOrphaned ==
    Spec => []NoOrphanStream
<1>1. IInv => NoOrphanStream
  BY DEF IInv, Joinable, Completing, NoOrphanStream
<1> QED
  BY <1>1, Induction, PTL

-----------------------------------------------------------------------------
(* The events *)

\* What a step does to the events of the streams, read as steps of EventStream
SaysEvent(s, event) ==
    /\ s \notin terminal
    /\ log' = [log EXCEPT ![s] = Append(@, event)]
    /\ \/ /\ terminal' = terminal
          /\ <<Stage(s), event, StageAfter(event)>> \in Promise!Says
       \/ /\ terminal' = terminal \cup {s}
          /\ <<Stage(s), event, "ended">> \in Promise!Says
    /\ UNCHANGED <<read, closed>>

EndsDone(s) ==
    /\ s \notin terminal /\ Stage(s) = "done"
    /\ terminal' = terminal \cup {s}
    /\ UNCHANGED <<log, read, closed>>

Reads(s) ==
    /\ read[s] < Len(log[s])
    /\ read' = [read EXCEPT ![s] = @ + 1]
    /\ UNCHANGED <<log, terminal, closed>>

SaysClosed(s) ==
    /\ s \in terminal /\ read[s] = Len(log[s])
    /\ closed' = closed \cup {s}
    /\ UNCHANGED <<log, read, terminal>>

EventStep ==
    \/ UNCHANGED eventVars
    \/ \E s \in Streams, event \in Events : SaysEvent(s, event)
    \/ \E s \in Streams : EndsDone(s) \/ Reads(s) \/ SaysClosed(s)

\* A stream that is not terminal can still be cancelled.
LEMMA StillOpen ==
    ASSUME TypeOK, SaidSoFar, NEW s \in Streams, s \notin terminal
    PROVE  Stage(s) \in {"opening", "body", "counted", "done"}
  BY DEF TypeOK, Running, SaidSoFar, Said

\* Every step of the C ABI is, for the events, a step that EventStream allows.
LEMMA StepIsEventStep ==
    ASSUME IInv, SaidSoFar, [Next]_vars
    PROVE  EventStep
<1>0. \A s \in Streams : \A event : s \in terminal /\ UNCHANGED <<read, closed>>
            /\ (PushStreamEvent(s, event) \/ CompleteStream(s, event) \/ FinishStream(s))
            => UNCHANGED eventVars
  BY DEF PushStreamEvent, CompleteStream, FinishStream, eventVars
<1>c. ASSUME NEW s \in Streams, s \notin terminal, CompleteStream(s, "cancelled"),
             UNCHANGED <<read, closed>>
      PROVE  SaysEvent(s, "cancelled")
  BY <1>c, StillOpen DEF IInv, CompleteStream, SaysEvent, Promise!Says
<1>e. ASSUME NEW s \in Streams, s \notin terminal, CompleteStream(s, "error"),
             UNCHANGED <<read, closed>>, Stage(s) \in {"opening", "body", "counted"}
      PROVE  SaysEvent(s, "error")
  BY <1>e DEF CompleteStream, SaysEvent, Promise!Says
<1>1. CASE UNCHANGED vars
  BY <1>1 DEF vars, EventStep
<1>2. ASSUME NEW s \in Streams, TaskStep(s) \/ Panic(s) PROVE EventStep
  <2>0. UNCHANGED <<read, closed>>
    BY <1>2, TaskFrame DEF taskLeaves
  <2>1. CASE UNCHANGED <<log, terminal>>
    BY <2>0, <2>1 DEF EventStep, eventVars
  <2>2. CASE s \in terminal
    BY <1>0, <1>2, <2>0, <2>1, <2>2 DEF TaskStep, OpenFails, Opened, Chunk, ChunkFails, BodyEnds, Done,
                                        Finish, Abort, Panic, EventStep
  <2>3. CASE s \notin terminal /\ ~UNCHANGED <<log, terminal>>
    <3> USE DEF Events, EventStep
    <3>0. Said(s)
      BY DEF SaidSoFar
    <3>1. CASE OpenFails(s) \/ ChunkFails(s)
      BY <1>e, <2>0, <2>3, <3>0, <3>1 DEF OpenFails, ChunkFails, Task, Said
    <3>2. CASE Opened(s)
      BY <2>0, <2>3, <3>0, <3>2 DEF Opened, Task, Said, PushStreamEvent, SaysEvent, StageAfter,
                                    Promise!Says
    <3>3. CASE Chunk(s)
      BY <2>0, <2>3, <3>0, <3>3 DEF Chunk, Task, Said, PushStreamEvent, SaysEvent, StageAfter,
                                    Promise!Says
    <3>4. CASE BodyEnds(s)
      BY <2>0, <2>3, <3>0, <3>4 DEF BodyEnds, Task, Said, PushStreamEvent, SaysEvent, StageAfter,
                                    Promise!Says
    <3>5. CASE Done(s)
      BY <2>0, <2>3, <3>0, <3>5 DEF Done, Task, Said, PushStreamEvent, SaysEvent, StageAfter,
                                    Promise!Says
    <3>6. CASE Finish(s)
      BY <2>0, <2>3, <3>0, <3>6 DEF Finish, Task, Said, FinishStream, EndsDone
    <3>7. CASE Abort(s) \/ Panic(s)
      BY <2>3, <3>7 DEF Abort, Panic
    <3> QED
      BY <1>2, <3>1, <3>2, <3>3, <3>4, <3>5, <3>6, <3>7 DEF TaskStep
  <2> QED
    BY <2>1, <2>2, <2>3
<1>3. ASSUME NEW t \in Threads, NEW from \in {"nextComplete", "freeComplete"}, NEW then,
             SettleComplete(t, from, then)
      PROVE  EventStep
  <2>1. mine[t] \in Streams /\ IsFinished(mine[t])
    BY <1>3 DEF SettleComplete, OnStream, OnClient, Sections, IInv, CallsTyped, Started, SaidSoFar
  <2>2. Said(mine[t]) /\ UNCHANGED <<read, closed>>
    BY <1>3, <2>1 DEF SaidSoFar, SettleComplete
  <2>3. CASE UNCHANGED <<log, terminal>>
    BY <2>2, <2>3 DEF EventStep, eventVars
  <2>4. CASE mine[t] \notin terminal /\ ~UNCHANGED <<log, terminal>>
    BY <1>3, <1>c, <1>e, <2>1, <2>2, <2>4
    DEF SettleComplete, SettleOutcome, IsFinished, Said, EventStep, Events
  <2> QED
    BY <1>3, <2>3, <2>4 DEF SettleComplete, SettleOutcome
<1>4. ASSUME NEW t \in Threads, NextStreamEvent(t) PROVE EventStep
  <2>1. mine[t] \in Streams
    BY <1>4 DEF NextStreamEvent, OnStream, OnClient, Sections, IInv, CallsTyped, Started
  <2> QED
    BY <1>4, <2>1 DEF NextStreamEvent, ClosedNow, Reads, SaysClosed, EventStep, eventVars
<1>5. ASSUME NEW t \in Threads, CancelComplete(t) PROVE EventStep
  <2>1. mine[t] \in Streams
    BY <1>5 DEF CancelComplete, OnStream, OnClient, Sections, IInv, CallsTyped, Started
  <2> QED
    BY <1>0, <1>c, <1>5, <2>1 DEF CancelComplete, EventStep, Events
<1>6. ASSUME NEW t \in Threads, NEW a, NEW section, StreamParts(t, a, section) PROVE EventStep
  BY <1>6 DEF StreamParts, EventStep
<1>7. ASSUME NEW t \in Threads, NEW from, NEW complete, NEW skip, Settle(t, from, complete, skip)
      PROVE  EventStep
  BY <1>7 DEF Settle, EventStep
<1>8. ASSUME NEW t \in Threads, NEW a, NewClient(t, a) \/ FreeClient(t, a) \/ StartStream(t, a)
      PROVE  EventStep
  BY <1>8 DEF NewClient, FreeClient, StartStream, EventStep
<1>9. ASSUME NEW t \in Threads,
             \/ DropClient(t) \/ SpawnStream(t) \/ RegisterStream(t) \/ CancelAbort(t)
             \/ FreePending(t) \/ FreeUnregister(t) \/ FreeCount(t) \/ DropStream(t)
      PROVE  EventStep
  BY <1>9 DEF DropClient, SpawnStream, RegisterStream, CancelAbort, FreePending, FreeUnregister,
              FreeCount, DropStream, EventStep
<1> QED
  BY <1>1, <1>2, <1>3, <1>4, <1>5, <1>6, <1>7, <1>8, <1>9 DEF Next, Enter, ThreadStep

\* No more is read than was said.
LEMMA ReadsOnlySaid ==
    ASSUME TypeOK, SaidSoFar, EventStep
    PROVE  \A s \in Streams : read'[s] <= Len(log'[s])
<1>0. /\ log \in [Streams -> Seq(Events)] /\ read \in [Streams -> Nat]
      /\ \A s \in Streams : read[s] <= Len(log[s]) /\ Len(log[s]) \in Nat
  BY LenProperties DEF TypeOK, SaidSoFar, Said
<1>1. CASE UNCHANGED eventVars
  BY <1>0, <1>1 DEF eventVars
<1>2. ASSUME NEW s \in Streams, NEW event \in Events, SaysEvent(s, event)
      PROVE  \A r \in Streams : read'[r] <= Len(log'[r])
  <2>1. Len(Append(log[s], event)) = Len(log[s]) + 1
    BY <1>0, AppendProperties
  <2> QED
    BY <1>0, <1>2, <2>1 DEF SaysEvent
<1>3. ASSUME NEW s \in Streams, EndsDone(s) \/ Reads(s) \/ SaysClosed(s)
      PROVE  \A r \in Streams : read'[r] <= Len(log'[r])
  BY <1>0, <1>3 DEF EndsDone, Reads, SaysClosed
<1> QED
  BY <1>1, <1>2, <1>3 DEF EventStep

\* A stream whose task stays where it is, and that says nothing or ends
LEMMA SaidKept ==
    ASSUME NEW s \in Streams, Said(s), terminal \subseteq terminal', task'[s] = task[s],
           s \in terminal' \/ log'[s] = log[s], read'[s] <= Len(log'[s])
    PROVE  Said(s)'
  BY DEF Said, Stage

\* What a stream that is not terminal has said last is where it is.
LEMMA StagePushed ==
    ASSUME TypeOK, NEW s \in Streams, NEW event \in Events, s \notin terminal,
           PushStreamEvent(s, event)
    PROVE  Stage(s)' = StageAfter(event)
<1>1. /\ log[s] \in Seq(Events) /\ log'[s] = Append(log[s], event)
      /\ s \notin terminal'
  BY DEF TypeOK, PushStreamEvent
<1>2. /\ log'[s] # <<>> /\ Len(log'[s]) = Len(log[s]) + 1
      /\ log'[s][Len(log[s]) + 1] = event
  BY <1>1, AppendProperties
<1> QED
  BY <1>1, <1>2 DEF Stage

\* The stages keep to what the tasks have said.
LEMMA SaidStep ==
    ASSUME IInv, SaidSoFar, [Next]_vars
    PROVE  SaidSoFar'
<1>0. TypeOK /\ \A s \in Streams : Said(s) /\ read'[s] <= Len(log'[s])
  BY StepIsEventStep, ReadsOnlySaid DEF IInv, SaidSoFar
<1>k. ASSUME UNCHANGED task, UNCHANGED <<log, terminal>>
             \/ \E s \in Streams : \E event : CompleteStream(s, event)
      PROVE  \A s \in Streams : Said(s)'
  BY <1>0, <1>k, SaidKept DEF CompleteStream, TypeOK
<1>1. CASE UNCHANGED vars
  <2>1. UNCHANGED <<pc, mine, owner, task, log, terminal>>
    BY <1>1 DEF vars, threadVars, handleVars, taskVars, eventVars
  <2> QED
    BY <1>k, <2>1 DEF SaidSoFar, IsFinished
<1>2. ASSUME NEW s \in Streams, TaskStep(s) \/ Panic(s) PROVE SaidSoFar'
  <2>1. UNCHANGED <<pc, mine, owner>>
    BY <1>2, TaskFrame DEF taskLeaves, threadVars, handleVars
  <2>2. \A r \in Streams \ {s} : task'[r] = task[r] /\ log'[r] = log[r]
    BY <1>0, <1>2 DEF TypeOK, TaskStep, OpenFails, Opened, Chunk, ChunkFails, BodyEnds, Done, Finish,
                Abort, Panic, Task, PushStreamEvent, CompleteStream, FinishStream
  <2>3. \A r \in Streams \ {s} : Said(r)'
    BY <1>0, <2>2, TerminalGrows, SaidKept
  <2>4. task[s] \notin {"none", "ended", "panicked", "aborted"}
    BY <1>2 DEF TaskStep, OpenFails, Opened, Chunk, ChunkFails, BodyEnds, Done, Finish, Abort, Panic,
                Task
  <2>5. Said(s)'
    <3> USE <1>0, TerminalGrows DEF Task, TypeOK
    <3>0. Said(s) /\ read'[s] <= Len(log'[s])
      BY <1>0
    <3>1. CASE s \in terminal'
      BY <3>0, <3>1 DEF Said
    <3>2. CASE s \notin terminal'
      <4>1. s \notin terminal
        BY <3>2
      <4>2. CASE OpenFails(s) \/ ChunkFails(s) \/ Finish(s)
        BY <3>2, <4>2 DEF OpenFails, ChunkFails, Finish, CompleteStream, FinishStream
      <4>3. CASE Opened(s)
        <5>1. Stage(s)' = "body" /\ task'[s] = "streaming"
          BY <4>1, <4>3, StagePushed DEF Opened, Events, StageAfter
        <5> QED
          BY <3>0, <5>1 DEF Said
      <4>4. CASE Chunk(s)
        <5>1. Stage(s)' = "body" /\ task'[s] = "streaming"
          BY <4>1, <4>4, StagePushed DEF Chunk, Events, StageAfter
        <5> QED
          BY <3>0, <5>1 DEF Said
      <4>5. CASE BodyEnds(s)
        <5>1. task[s] = "streaming" /\ task'[s] = "done"
          BY <4>5 DEF BodyEnds
        <5>2. CASE PushStreamEvent(s, "usage")
          <6>1. Stage(s)' = "counted"
            BY <4>1, <5>2, StagePushed DEF Events, StageAfter
          <6> QED
            BY <3>0, <5>1, <6>1 DEF Said
        <5>3. CASE UNCHANGED <<log, terminal>>
          <6>1. Stage(s)' = Stage(s)
            BY <5>3 DEF Stage
          <6> QED
            BY <3>0, <4>1, <5>1, <6>1 DEF Said
        <5> QED
          BY <4>5, <5>2, <5>3 DEF BodyEnds
      <4>6. CASE Done(s)
        <5>1. Stage(s)' = "done" /\ task'[s] = "finish"
          BY <4>1, <4>6, StagePushed DEF Done, Events, StageAfter
        <5> QED
          BY <3>0, <5>1 DEF Said
      <4>7. CASE Abort(s) \/ Panic(s)
        <5>1. /\ task[s] \in {"opening", "streaming"} /\ task'[s] \in {"aborted", "panicked"}
              /\ UNCHANGED <<log, terminal>>
          BY <4>7 DEF Abort, Panic
        <5>2. Stage(s)' = Stage(s)
          BY <5>1 DEF Stage
        <5> QED
          BY <3>0, <4>1, <5>1, <5>2 DEF Said
      <4> QED
        BY <1>2, <4>2, <4>3, <4>4, <4>5, <4>6, <4>7 DEF TaskStep
    <3> QED
      BY <3>1, <3>2
  <2> QED
    <3>1. \A r \in Streams : Said(r)'
      BY <2>3, <2>5
    <3>2. \A r \in Streams : owner'[r] = None => task'[r] = "none"
      BY <2>1, <2>2, <2>4 DEF SaidSoFar
    <3>3. \A u \in Threads : pc[u] \in {"nextComplete", "freeComplete"} => mine[u] \in Streams \ {s}
      BY <2>4 DEF SaidSoFar, IsFinished, IInv, CallsTyped, OnStream, OnClient, Sections, Started
    <3>4. \A u \in Threads : pc'[u] \in {"nextComplete", "freeComplete"} => IsFinished(mine[u])'
      BY <2>1, <2>2, <3>3 DEF SaidSoFar, IsFinished
    <3> QED
      BY <3>1, <3>2, <3>4 DEF SaidSoFar
<1>3. ASSUME NEW t \in Threads, QuietStep(t) PROVE SaidSoFar'
  <2>1. UNCHANGED <<owner, task>>
    BY <1>3, QuietFrame DEF handleVars
  <2>2. \A s \in Streams : Said(s)'
    <3>1. CASE UNCHANGED <<log, terminal>>
      BY <1>k, <2>1, <3>1
    <3>2. CASE ~UNCHANGED <<log, terminal>>
      <4>1. \E event : CompleteStream(mine[t], event)
        BY <1>3, <3>2 DEF QuietStep, StreamParts, Settle, SettleComplete, SettleOutcome,
             NextStreamEvent, CancelAbort, CancelComplete, FreePending, eventVars
      <4>2. mine[t] \in Streams
        BY <1>3, <3>2 DEF QuietStep, StreamParts, Settle, SettleComplete, NextStreamEvent,
             CancelAbort, CancelComplete, FreePending, eventVars, IInv, CallsTyped, OnStream, OnClient,
             Sections, Started
      <4> QED
        BY <1>k, <2>1, <4>1, <4>2
    <3> QED
      BY <3>1, <3>2
  <2>3. (\A u \in Threads : pc[u] \in {"nextComplete", "freeComplete"} => IsFinished(mine[u]))'
    <3>1. \A u \in Threads \ {t} : pc'[u] = pc[u] /\ mine'[u] = mine[u]
      BY <1>3, QuietFrame DEF Call, IInv, TypeOK
    <3>2. pc'[t] \in {"nextComplete", "freeComplete"} => mine'[t] = mine[t] /\ IsFinished(mine[t])
      BY <1>0, <1>3 DEF QuietStep, StreamParts, Settle, SettleComplete, NextStreamEvent, CancelAbort,
                  CancelComplete, FreePending, Call, Goto, Return, TypeOK
    <3> QED
      BY <2>1, <3>1, <3>2 DEF SaidSoFar, IsFinished
  <2> QED
    BY <2>1, <2>2, <2>3 DEF SaidSoFar
<1>4. ASSUME NEW t \in Threads, NEW a \in ClientAddrs,
             NewClient(t, a) \/ FreeClient(t, a) \/ StartStream(t, a)
      PROVE  SaidSoFar'
  <2>1. UNCHANGED <<owner, task, log, terminal>>
    BY <1>4 DEF NewClient, FreeClient, StartStream, handleVars, taskVars, eventVars
  <2>2. \A u \in Threads : pc'[u] \in {"nextComplete", "freeComplete"} =>
            pc'[u] = pc[u] /\ mine'[u] = mine[u]
    BY <1>0, <1>4 DEF NewClient, FreeClient, StartStream, Call, threadVars, TypeOK
  <2> QED
    BY <1>k, <2>1, <2>2 DEF SaidSoFar, IsFinished
<1>5. ASSUME NEW t \in Threads, SpawnStream(t) PROVE SaidSoFar'
  <2>1. NextStream \in Streams /\ owner[NextStream] = None
    BY <1>5, NextStreamFree DEF SpawnStream
  <2>2. UNCHANGED <<log, terminal, read>>
    BY <1>5 DEF SpawnStream, eventVars
  <2>3. \A u \in Threads : pc'[u] \in {"nextComplete", "freeComplete"} =>
            pc'[u] = pc[u] /\ mine'[u] = mine[u]
    BY <1>0, <1>5 DEF SpawnStream, Call, Return, TypeOK
  <2>4. CASE ~StillTheClient(t)
    <3>1. UNCHANGED <<owner, task>>
      BY <1>5, <2>4 DEF SpawnStream
    <3> QED
      BY <1>k, <2>2, <2>3, <3>1 DEF SaidSoFar, IsFinished
  <2>5. CASE StillTheClient(t)
    <3>1. /\ \A r \in Streams : r # NextStream => owner'[r] = owner[r] /\ task'[r] = task[r]
          /\ owner'[NextStream] = mine[t] /\ task'[NextStream] = "opening"
      BY <1>5, <2>1, <2>5 DEF SpawnStream, IInv, TypeOK
    <3>2. mine[t] # None
      BY <1>5, FfiAssumption DEF SpawnStream, Clients, None, IInv, CallsTyped, OnClient
    <3>3. \A r \in Streams : Stage(r)' = Stage(r)
      BY <2>2 DEF Stage
    <3>4. task[NextStream] = "none"
      BY <2>1 DEF SaidSoFar
    <3>5. \A r \in Streams : Said(r)'
      BY <1>0, <2>1, <2>2, <3>1, <3>3, <3>4 DEF Said
    <3>6. \A u \in Threads : pc[u] \in {"nextComplete", "freeComplete"} => mine[u] # NextStream
      BY <3>4 DEF SaidSoFar, IsFinished
    <3>7. \A u \in Threads : pc[u] \in {"nextComplete", "freeComplete"} => mine[u] \in Streams
      BY DEF IInv, CallsTyped, OnStream, OnClient, Sections, Started
    <3> QED
      BY <2>1, <2>3, <3>1, <3>2, <3>5, <3>6, <3>7 DEF SaidSoFar, IsFinished
  <2> QED
    BY <2>4, <2>5
<1>6. ASSUME NEW t \in Threads,
             DropClient(t) \/ RegisterStream(t) \/ FreeUnregister(t) \/ FreeCount(t) \/ DropStream(t)
      PROVE  SaidSoFar'
  <2>1. UNCHANGED <<owner, task, log, terminal>>
    BY <1>6 DEF DropClient, RegisterStream, FreeUnregister, FreeCount, DropStream, handleVars, taskVars,
                eventVars
  <2>2. \A u \in Threads : pc'[u] \in {"nextComplete", "freeComplete"} =>
            pc'[u] = pc[u] /\ mine'[u] = mine[u]
    BY <1>0, <1>6 DEF DropClient, RegisterStream, FreeUnregister, FreeCount, DropStream, Call, Goto,
                Return, TypeOK
  <2> QED
    BY <1>k, <2>1, <2>2 DEF SaidSoFar, IsFinished
<1> QED
  BY <1>1, <1>2, <1>3, <1>4, <1>5, <1>6 DEF Next, Enter, ThreadStep, QuietStep

-----------------------------------------------------------------------------
(* The queue, seen as EventStream's pending and delivered events *)

\* A stretch of the queue does not change when an event is pushed behind it.
LEMMA StretchKept ==
    ASSUME NEW S, NEW seq \in Seq(S), NEW event \in S,
           NEW m \in 1..Len(seq) + 1, NEW n \in 0..Len(seq)
    PROVE  SubSeq(Append(seq, event), m, n) = SubSeq(seq, m, n)
<1>0. m \in Int /\ n \in Int /\ Len(seq) \in Nat
  BY LenProperties
<1>1. \A i \in m..n : Append(seq, event)[i] = seq[i] /\ seq[i] \in S
  BY <1>0, AppendProperties, ElementOfSeq
<1>2. /\ SubSeq(seq, m, n) \in Seq(S)
      /\ Len(SubSeq(seq, m, n)) = IF m <= n THEN n - m + 1 ELSE 0
      /\ \A i \in 1..n - m + 1 : SubSeq(seq, m, n)[i] = seq[m + i - 1]
  BY <1>0, <1>1, SubSeqProperties
<1>3. /\ SubSeq(Append(seq, event), m, n) \in Seq(S)
      /\ Len(SubSeq(Append(seq, event), m, n)) = IF m <= n THEN n - m + 1 ELSE 0
      /\ \A i \in 1..n - m + 1 : SubSeq(Append(seq, event), m, n)[i] = Append(seq, event)[m + i - 1]
  BY <1>0, <1>1, SubSeqProperties
<1>4. \A i \in 1..Len(SubSeq(seq, m, n)) :
          SubSeq(Append(seq, event), m, n)[i] = SubSeq(seq, m, n)[i]
  <2> SUFFICES ASSUME NEW i \in 1..Len(SubSeq(seq, m, n))
               PROVE  SubSeq(Append(seq, event), m, n)[i] = SubSeq(seq, m, n)[i]
    OBVIOUS
  <2>1. i \in 1..n - m + 1 /\ m + i - 1 \in m..n
    BY <1>0, <1>2
  <2> QED
    BY <1>1, <1>2, <1>3, <2>1
<1> QED
  BY <1>2, <1>3, <1>4, SeqEqual

\* What is pushed to the queue is last among what is left to read.
LEMMA PushedIsPending ==
    ASSUME NEW S, NEW seq \in Seq(S), NEW event \in S, NEW m \in 1..Len(seq) + 1
    PROVE  SubSeq(Append(seq, event), m, Len(seq) + 1) = Append(SubSeq(seq, m, Len(seq)), event)
<1>0. Len(seq) \in Nat
  BY LenProperties
<1>1. /\ Append(seq, event) \in Seq(S) /\ Len(Append(seq, event)) = Len(seq) + 1
      /\ Append(seq, event)[Len(seq) + 1] = event
  BY AppendProperties
<1>2. SubSeq(Append(seq, event), m, Len(seq) + 1)
        = SubSeq(Append(seq, event), m, Len(seq) + 1 - 1) \o <<event>>
  <2>1. m \in 1..Len(Append(seq, event)) /\ Len(seq) + 1 \in m..Len(Append(seq, event))
    BY <1>0, <1>1
  <2> QED
    BY <1>1, <2>1, SubSeqRecursiveSecond
<1>3. SubSeq(Append(seq, event), m, Len(seq) + 1 - 1) = SubSeq(seq, m, Len(seq))
  <2>1. Len(seq) + 1 - 1 = Len(seq) /\ Len(seq) \in 0..Len(seq)
    BY <1>0
  <2> QED
    BY <2>1, StretchKept
<1>4. SubSeq(seq, m, Len(seq)) \in Seq(S)
  <2>1. \A i \in m..Len(seq) : seq[i] \in S
    BY <1>0, ElementOfSeq
  <2> QED
    BY <1>0, <2>1, SubSeqProperties
<1> QED
  BY <1>2, <1>3, <1>4, AppendIsConcat

\* What is popped from the queue is next among what was read.
LEMMA PoppedIsDelivered ==
    ASSUME NEW S, NEW seq \in Seq(S), NEW n \in 0..Len(seq) - 1
    PROVE  /\ SubSeq(seq, n + 1, Len(seq)) # <<>>
           /\ SubSeq(seq, n + 2, Len(seq)) = Tail(SubSeq(seq, n + 1, Len(seq)))
           /\ SubSeq(seq, 1, n + 1) = Append(SubSeq(seq, 1, n), Head(SubSeq(seq, n + 1, Len(seq))))
<1>0. Len(seq) \in Nat /\ n + 1 \in 1..Len(seq) /\ \A i \in 1..Len(seq) : seq[i] \in S
  BY LenProperties, ElementOfSeq
<1>1. Len(SubSeq(seq, n + 1, Len(seq))) = Len(seq) - n
  BY <1>0, SubSeqProperties
<1>2. Len(seq) \in n + 1..Len(seq)
  BY <1>0
<1>3. /\ Head(SubSeq(seq, n + 1, Len(seq))) = seq[n + 1]
      /\ Tail(SubSeq(seq, n + 1, Len(seq))) = SubSeq(seq, n + 1 + 1, Len(seq))
  BY <1>0, <1>2, HeadTailOfSubSeq
<1>4. SubSeq(seq, 1, n + 1) = SubSeq(seq, 1, n + 1 - 1) \o <<seq[n + 1]>>
  <2>1. 1 \in 1..Len(seq) /\ n + 1 \in 1..Len(seq)
    BY <1>0
  <2> QED
    BY <2>1, SubSeqRecursiveSecond
<1>5. SubSeq(seq, 1, n) \in Seq(S)
  BY <1>0, SubSeqProperties
<1>6. SubSeq(seq, 1, n) \o <<seq[n + 1]>> = Append(SubSeq(seq, 1, n), seq[n + 1])
  BY <1>0, <1>5, AppendIsConcat
<1>7. n + 1 - 1 = n /\ n + 1 + 1 = n + 2
  BY <1>0
<1>8. SubSeq(seq, n + 1, Len(seq)) # <<>>
  <2>1. Len(<<>>) = 0
    OBVIOUS
  <2>2. Len(seq) - n # 0
    BY <1>0
  <2> QED
    BY <1>1, <2>1, <2>2, Zenon
<1> QED
  BY <1>3, <1>4, <1>6, <1>7, <1>8

\* The steps of the events map to steps of EventStream.
LEMMA EventStepRefines ==
    ASSUME TypeOK, SaidSoFar, SaidSoFar', EventStep
    PROVE  [Promise!Next]_(Promise!vars)
<1>0. /\ log \in [Streams -> Seq(Events)] /\ read \in [Streams -> Nat]
      /\ \A s \in Streams : read[s] <= Len(log[s]) /\ Len(log[s]) \in Nat
  BY LenProperties DEF TypeOK, SaidSoFar, Said
<1>1. CASE UNCHANGED eventVars
  BY <1>1 DEF eventVars, Promise!vars, Stage
<1>2. ASSUME NEW s \in Streams, NEW event \in Events, SaysEvent(s, event)
      PROVE  Promise!Say(s)
  <2>1. log' = [log EXCEPT ![s] = Append(@, event)] /\ read' = read /\ closed' = closed
    BY <1>2 DEF SaysEvent
  <2>2. Len(log'[s]) = Len(log[s]) + 1 /\ log'[s] = Append(log[s], event)
    BY <1>0, <2>1, AppendProperties
  <2>3. SubSeq(log'[s], read[s] + 1, Len(log'[s]))
          = Append(SubSeq(log[s], read[s] + 1, Len(log[s])), event)
    <3>1. read[s] + 1 \in 1..Len(log[s]) + 1
      BY <1>0
    <3> QED
      BY <1>0, <2>2, <3>1, PushedIsPending
  <2>4. SubSeq(log'[s], 1, read[s]) = SubSeq(log[s], 1, read[s])
    <3>1. read[s] \in 0..Len(log[s]) /\ 1 \in 1..Len(log[s]) + 1
      BY <1>0
    <3> QED
      BY <1>0, <2>2, <3>1, StretchKept
  <2>5. PICK next : <<Stage(s), event, next>> \in Promise!Says /\ Stage(s)' = next
    <3>1. CASE terminal' = terminal
      <4>1. PushStreamEvent(s, event) /\ s \notin terminal
        BY <1>2, <3>1 DEF SaysEvent, PushStreamEvent
      <4>2. Stage(s)' = StageAfter(event)
        BY <4>1, StagePushed
      <4>3. <<Stage(s), event, StageAfter(event)>> \in Promise!Says \/ s \in terminal'
        BY <1>2 DEF SaysEvent
      <4> QED
        BY <3>1, <4>1, <4>2, <4>3
    <3>2. CASE terminal' = terminal \cup {s} /\ terminal' # terminal
      BY <1>2, <3>2 DEF SaysEvent, Stage
    <3> QED
      BY <1>2, <3>1, <3>2 DEF SaysEvent
  <2>6. \A r \in Streams \ {s} : Stage(r)' = Stage(r) /\ log'[r] = log[r]
    BY <1>0, <1>2, <2>1 DEF SaysEvent, Stage
  <2>7. [r \in Streams |-> Stage(r)]' = [[r \in Streams |-> Stage(r)] EXCEPT ![s] = next]
    BY <2>5, <2>6
  <2>8. [r \in Streams |-> SubSeq(log[r], read[r] + 1, Len(log[r]))]'
          = [[r \in Streams |-> SubSeq(log[r], read[r] + 1, Len(log[r]))]
               EXCEPT ![s] = Append(@, event)]
    <3>1. \A r \in Streams \ {s} : SubSeq(log'[r], read'[r] + 1, Len(log'[r]))
                                    = SubSeq(log[r], read[r] + 1, Len(log[r]))
      BY <2>1, <2>6
    <3> QED
      BY <2>1, <2>3, <3>1
  <2>9. [r \in Streams |-> SubSeq(log[r], 1, read[r])]'
          = [r \in Streams |-> SubSeq(log[r], 1, read[r])]
    <3>1. \A r \in Streams : SubSeq(log'[r], 1, read'[r]) = SubSeq(log[r], 1, read[r])
      <4> TAKE r \in Streams
      <4>1. CASE r = s
        BY <2>1, <2>4, <4>1
      <4>2. CASE r # s
        BY <2>1, <2>6, <4>2
      <4> QED
        BY <4>1, <4>2
    <3> QED
      BY <3>1
  <2> DEFINE rule == <<Stage(s), event, next>>
  <2>10. rule \in Promise!Says /\ rule[1] = Stage(s) /\ rule[2] = event /\ rule[3] = next
    BY <2>5
  <2> HIDE DEF rule
  <2> QED
    BY <2>1, <2>7, <2>8, <2>9, <2>10 DEF Promise!Say
<1>3. ASSUME NEW s \in Streams, EndsDone(s) PROVE Promise!End(s)
  <2>1. \A r \in Streams : Stage(r)' = IF r = s THEN "ended" ELSE Stage(r)
    BY <1>3 DEF EndsDone, Stage
  <2>2. Stage(s) = "done" /\ UNCHANGED <<log, read, closed>>
    BY <1>3 DEF EndsDone
  <2> QED
    BY <2>1, <2>2 DEF Promise!End
<1>4. ASSUME NEW s \in Streams, Reads(s) PROVE Promise!Deliver(s)
  <2>1. /\ UNCHANGED <<log, terminal, closed>> /\ read'[s] = read[s] + 1
        /\ \A r \in Streams \ {s} : read'[r] = read[r]
    BY <1>0, <1>4 DEF Reads
  <2>2. read[s] \in 0..Len(log[s]) - 1
    BY <1>0, <1>4 DEF Reads
  <2>3. /\ SubSeq(log[s], read[s] + 1, Len(log[s])) # <<>>
        /\ SubSeq(log[s], read[s] + 2, Len(log[s])) = Tail(SubSeq(log[s], read[s] + 1, Len(log[s])))
        /\ SubSeq(log[s], 1, read[s] + 1)
             = Append(SubSeq(log[s], 1, read[s]), Head(SubSeq(log[s], read[s] + 1, Len(log[s]))))
    BY <1>0, <2>2, PoppedIsDelivered
  <2>4. read'[s] + 1 = read[s] + 2
    BY <1>0, <2>1
  <2>5. [r \in Streams |-> Stage(r)]' = [r \in Streams |-> Stage(r)]
    BY <2>1 DEF Stage
  <2>6. [r \in Streams |-> SubSeq(log[r], read[r] + 1, Len(log[r]))]'
          = [[r \in Streams |-> SubSeq(log[r], read[r] + 1, Len(log[r]))] EXCEPT ![s] = Tail(@)]
    BY <2>1, <2>3, <2>4
  <2>7. [r \in Streams |-> SubSeq(log[r], 1, read[r])]'
          = [[r \in Streams |-> SubSeq(log[r], 1, read[r])]
               EXCEPT ![s] = Append(@, Head(SubSeq(log[s], read[s] + 1, Len(log[s]))))]
    BY <2>1, <2>3
  <2> QED
    BY <2>1, <2>3, <2>5, <2>6, <2>7 DEF Promise!Deliver
<1>5. ASSUME NEW s \in Streams, SaysClosed(s) PROVE Promise!Close(s)
  <2>1. Stage(s) = "ended" /\ UNCHANGED <<log, read, terminal>> /\ closed' = closed \cup {s}
    BY <1>5 DEF SaysClosed, Stage
  <2>2. SubSeq(log[s], read[s] + 1, Len(log[s])) = <<>>
    BY <1>0, <1>5, SubSeqEmpty DEF SaysClosed
  <2>3. [r \in Streams |-> Stage(r)]' = [r \in Streams |-> Stage(r)]
    BY <2>1 DEF Stage
  <2> QED
    BY <2>1, <2>2, <2>3 DEF Promise!Close
<1> QED
  BY <1>1, <1>2, <1>3, <1>4, <1>5 DEF EventStep, Promise!Next

\* Every behaviour of the C ABI is, seen from the queue, one of EventStream:
\* verdict, chunks, usage and done in this order, at most one error or
\* cancellation and nothing after it, each event delivered once, and "closed"
\* only when nothing is left and nothing can follow, for any number of threads
\* that call stream_next, stream_cancel and stream_free on any streams.
THEOREM QueueImplementsEventStream ==
    Spec => ImplementsEventStream
<1>1. Init => SaidSoFar
  BY DEF Init, SaidSoFar, Said, Stage
<1>2. IInv /\ SaidSoFar /\ [Next]_vars => SaidSoFar'
  BY SaidStep
<1>3. Init => Promise!Init
  <2> SUFFICES ASSUME Init PROVE Promise!Init
    OBVIOUS
  <2>1. SubSeq(<<>>, 0 + 1, Len(<<>>)) = <<>> /\ SubSeq(<<>>, 1, 0) = <<>>
    BY EmptySeq, SubSeqEmpty
  <2> QED
    BY <2>1 DEF Init, Stage, Promise!Init
<1>4. IInv /\ SaidSoFar /\ SaidSoFar' /\ [Next]_vars => [Promise!Next]_(Promise!vars)
  BY StepIsEventStep, EventStepRefines DEF IInv
<1> QED
  BY <1>1, <1>2, <1>3, <1>4, Induction, PTL DEF Spec, ImplementsEventStream, Promise!Spec

-----------------------------------------------------------------------------
(* The bindings *)

\* A call counted in _inFlight, and one that holds the lock of its object
Counted(h) == call[h].op \notin {"none", "close"} /\ Protection(call[h].op) = "counted"
Held(h) == call[h].op # "none" /\ (call[h].op = "close" \/ Protection(call[h].op) = "held")

CallsOn(o) == {h \in Hosts : Counted(h) /\ call[h].on = o}

\* Clients have addresses of clients, and streams those of streams.
Kinds ==
    /\ \A a \in ClientHandles : native[a] \in ClientObjects \cup {Null}
    /\ \A a \in StreamHandles : native[a] \in StreamObjects \cup {Null}
    /\ \A o \in ClientObjects : handle[o] \in ClientHandles \cup {Null, Unmade}
    /\ \A o \in StreamObjects : handle[o] \in StreamHandles \cup {Null, Unmade}

\* What a call is about, and where it can be
Shaped(h) ==
    LET c == call[h]
    IN  /\ c.op = "none" => c = NoCall
        /\ c.op # "none" =>
              \/ c.on \in ClientObjects /\ c.at \in ClientHandles
              \/ c.on \in StreamObjects /\ c.at \in StreamHandles
        /\ c.op \in {"call", "start", "iterate"} => c.on \in ClientObjects
        /\ c.op = "close" => c.step \in {"native", "free", "clear"} /\ c.made = Null
        /\ c.op \notin {"none", "close"} => c.step \in {"native", "leave"}
        /\ c.made # Null => c.step = "leave" /\ c.op \in {"start", "iterate"}
        /\ c.op = "iterate" => iterating[h] = Null

\* A close has its object to itself: no call is counted on it, and it is the
\* object's native handle that the close frees, once and, if it is a stream's,
\* not before it is terminal.
Closing(h) ==
    LET c == call[h]
    IN  c.op = "close" =>
            /\ handle[c.on] = c.at
            /\ inFlight[c.on] = 0
            /\ c.step # "clear" <=> native[c.at] = c.on
            /\ c.step = "free" => c.on \notin unfinished

\* While a call is counted or holds the lock its object stays open.
Protected(h) ==
    LET c == call[h]
    IN  /\ Held(h) => lock[c.on] = h
        /\ (Counted(h) \/ Held(h)) /\ c.op # "close" => handle[c.on] = c.at /\ native[c.at] = c.on

\* A native stream that has no object yet has one call that will make it.
Making ==
    /\ \A h \in Hosts : call[h].made # Null =>
          /\ handle[call[h].made] = Unmade
          /\ \E a \in StreamHandles : native[a] = call[h].made
    /\ \A h, k \in Hosts : call[h].made = call[k].made /\ call[h].made # Null => h = k

Locks == \A o \in Objects : lock[o] # Null => Held(lock[o]) /\ call[lock[o]].on = o

Counts == \A o \in Objects : inFlight[o] = Cardinality(CallsOn(o))

NativeOnce == \A a, b \in Handles : native[a] = native[b] /\ native[a] # Null => a = b

BindingsInv ==
    /\ BindingTypeOK
    /\ Kinds
    /\ \A h \in Hosts : Shaped(h) /\ Closing(h) /\ Protected(h)
    /\ Making
    /\ Locks
    /\ Counts
    /\ NativeOnce
    /\ ObjectsOwnHandles
    /\ OnlyBareCallsMiss
    /\ IteratedStreamsFreed

-----------------------------------------------------------------------------
(* Facts about the pieces of the steps *)

\* The object a constructor or a started stream gets was not made before.
LEMMA NextObjectUnborn ==
    ASSUME NEW kind, kind \subseteq Objects, Unborn(kind) # {}
    PROVE  NextObject(kind) \in Unborn(kind)
<1>1. Unborn(kind) \subseteq Nat
  BY BindingAssumption DEF Unborn, Objects
<1> HIDE DEF Unborn
<1> QED
  BY <1>1, LeastExists DEF NextObject

\* How an operation is protected does not change.
LEMMA ProtectionKept ==
    ASSUME BindingTypeOK, UNCHANGED language
    PROVE  \A op : Protection(op)' = Protection(op) /\ Protection(op) \in {"counted", "held", "bare"}
  BY BindingAssumption
  DEF BindingTypeOK, Protection, GoProtects, NodeProtects, PythonProtects

\* The number of hosts with a counted call on an object is a natural number.
LEMMA CallsOnFinite ==
    ASSUME NEW o
    PROVE  IsFiniteSet(CallsOn(o)) /\ IsFiniteSet(CallsOn(o)')
<1>1. IsFiniteSet(Hosts) /\ CallsOn(o) \subseteq Hosts /\ CallsOn(o)' \subseteq Hosts
  BY BindingAssumption DEF CallsOn
<1> QED
  BY <1>1, FS_Subset

\* A step that begins and ends no counted call leaves the counts right.
LEMMA CountsKept ==
    ASSUME BindingsInv, UNCHANGED <<language, inFlight>>,
           \A k \in Hosts : /\ Counted(k)' <=> Counted(k)
                            /\ Counted(k) => call'[k].on = call[k].on
    PROVE  Counts'
<1>1. \A o \in Objects : CallsOn(o)' = CallsOn(o)
  BY DEF CallsOn
<1> QED
  BY <1>1 DEF BindingsInv, Counts

-----------------------------------------------------------------------------
(* Each step preserves BindingsInv: one step per conjunct *)

\* The constructor: nobody had its handle or its object before.
LEMMA NewClientStep ==
    ASSUME BindingsInv, NEW h \in Hosts, NEW a \in ClientHandles, NewClientObject(h, a)
    PROVE  BindingsInv'
<1> DEFINE c == NextObject(ClientObjects)
<1>1. c \in ClientObjects /\ handle[c] = Unmade /\ \A k \in Hosts : call[k].made # c
  BY NextObjectUnborn DEF NewClientObject, Unborn, Objects
<1>2. /\ native[a] = Null /\ native' = [native EXCEPT ![a] = c] /\ handle' = [handle EXCEPT ![c] = a]
      /\ UNCHANGED <<language, inFlight, lock, parent, unfinished, call, iterating, foreign, private>>
  BY DEF NewClientObject
<1> HIDE DEF c
<1>3. /\ native'[a] = c /\ \A b \in Handles \ {a} : native'[b] = native[b]
      /\ handle'[c] = a /\ \A o \in Objects \ {c} : handle'[o] = handle[o]
  BY <1>1, <1>2 DEF BindingsInv, BindingTypeOK, Objects, Handles
<1>4. \A op : Protection(op)' = Protection(op)
  BY <1>2, ProtectionKept DEF BindingsInv
<1>5. \A k \in Hosts : (Counted(k)' <=> Counted(k)) /\ (Held(k)' <=> Held(k))
  BY <1>2, <1>4 DEF Counted, Held
<1>6. BindingTypeOK'
  BY <1>1, <1>2 DEF BindingsInv, BindingTypeOK, Objects, Handles
<1>7. Kinds'
  BY <1>1, <1>3, BindingAssumption DEF BindingsInv, Kinds, Objects, Handles
<1>8. ASSUME NEW k \in Hosts PROVE Shaped(k)' /\ Closing(k)' /\ Protected(k)'
  <2>1. Shaped(k) /\ Closing(k) /\ Protected(k)
    BY DEF BindingsInv
  <2>2. call[k].op # "none" => call[k].on \in Objects /\ call[k].at \in Handles
    BY <2>1 DEF Shaped, Objects, Handles
  <2>3. Shaped(k)'
    BY <1>2, <2>1 DEF Shaped
  <2>4. Closing(k)'
    BY <1>1, <1>2, <1>3, <2>1, <2>2, BindingAssumption DEF Closing
  <2>5. Protected(k)'
    BY <1>1, <1>2, <1>3, <1>5, <2>1, <2>2, BindingAssumption DEF Protected, Counted, Held
  <2> QED
    BY <2>3, <2>4, <2>5
<1>9. Making'
  BY <1>1, <1>2, <1>3, BindingAssumption DEF BindingsInv, Making, BindingTypeOK, Objects, Handles
<1>10. Locks'
  BY <1>2, <1>5 DEF BindingsInv, Locks, BindingTypeOK
<1>11. Counts'
  BY <1>2, <1>5, CountsKept
<1>12. NativeOnce'
  BY <1>1, <1>3, BindingAssumption DEF BindingsInv, NativeOnce, ObjectsOwnHandles, Handles, Objects
<1>13. ObjectsOwnHandles'
  BY <1>1, <1>2, <1>3, BindingAssumption DEF BindingsInv, ObjectsOwnHandles, Open, BindingTypeOK, Objects, Handles
<1>14. OnlyBareCallsMiss' /\ IteratedStreamsFreed'
  BY <1>1, <1>2, <1>3, <1>4, BindingAssumption
  DEF BindingsInv, OnlyBareCallsMiss, IteratedStreamsFreed, BindingTypeOK, Objects
<1> QED
  BY <1>6, <1>7, <1>8, <1>9, <1>10, <1>11, <1>12, <1>13, <1>14 DEF BindingsInv

\* A counted or held call finds its object's own handle.
LEMMA MissedIsBare ==
    ASSUME BindingsInv, NEW h \in Hosts, call[h].op \notin {"none", "close"}, Missed(h)
    PROVE  Protection(call[h].op) = "bare"
<1>1. Protected(h) /\ BindingTypeOK
  BY DEF BindingsInv
<1>2. Protection(call[h].op) \in {"counted", "held", "bare"}
  BY <1>1, BindingAssumption
  DEF BindingTypeOK, Protection, GoProtects, NodeProtects, PythonProtects
<1> QED
  BY <1>1, <1>2 DEF Protected, Counted, Held, Missed

\* A close has its object to itself.
LEMMA ClosingAlone ==
    ASSUME BindingsInv, NEW h \in Hosts, call[h].op = "close", NEW k \in Hosts \ {h}, Counted(k) \/ Held(k)
    PROVE  call[k].on # call[h].on
<1>1. Shaped(h) /\ Closing(h) /\ Protected(h) /\ Shaped(k) /\ Protected(k)
  BY DEF BindingsInv
<1>2. CASE Held(k)
  BY <1>1, <1>2 DEF Protected, Held
<1>3. CASE Counted(k)
  <2>1. SUFFICES ASSUME call[k].on = call[h].on PROVE FALSE
    OBVIOUS
  <2>2. PICK o \in Objects : o = call[h].on
    BY <1>1 DEF Shaped, Objects
  <2>3. k \in CallsOn(o)
    BY <1>3, <2>1, <2>2 DEF CallsOn
  <2>4. Cardinality(CallsOn(o)) = 0
    BY <1>1, <2>2 DEF Closing, BindingsInv, Counts
  <2> QED
    BY <2>3, <2>4, CallsOnFinite, FS_EmptySet
<1> QED
  BY <1>2, <1>3

\* acquire, _native_call_guard, the synchronous increment, and the bare calls
LEMMA BeginStep ==
    ASSUME BindingsInv, NEW h \in Hosts, NEW o \in Objects, NEW op \in Operations \ {"close"},
           op \in {"call", "start", "iterate"} => o \in ClientObjects,
           op = "iterate" => iterating[h] = Null,
           Begin(h, o, op)
    PROVE  BindingsInv'
<1>1. /\ call[h] = NoCall /\ handle[o] \in Handles /\ Available(o, op)
      /\ UNCHANGED <<language, handle, native, parent, unfinished, iterating, foreign, private>>
  BY DEF Begin, Open
<1>t. BindingTypeOK
  BY DEF BindingsInv
<1>2. /\ call'[h] = [op |-> op, on |-> o, at |-> handle[o], step |-> "native", made |-> Null]
      /\ \A k \in Hosts \ {h} : call'[k] = call[k]
  BY <1>t DEF Begin, BindingTypeOK
<1>3. /\ call'[h].op = op /\ call'[h].on = o /\ call'[h].at = handle[o]
      /\ call'[h].step = "native" /\ call'[h].made = Null
  BY <1>2
<1>4. \A x : Protection(x)' = Protection(x) /\ Protection(x) \in {"counted", "held", "bare"}
  BY <1>1, <1>t, ProtectionKept
<1>5. /\ \A k \in Hosts \ {h} : (Counted(k)' <=> Counted(k)) /\ (Held(k)' <=> Held(k))
      /\ Counted(h)' <=> Protection(op) = "counted"
      /\ Held(h)' <=> Protection(op) = "held"
      /\ ~Counted(h) /\ ~Held(h)
  BY <1>1, <1>2, <1>3, <1>4 DEF Counted, Held, NoCall, Operations
<1>6. Protection(op) # "bare" => lock[o] = Null
  BY <1>1, <1>t, BindingAssumption DEF Available, BindingTypeOK
<1>7. Protection(op) # "bare" => native[handle[o]] = o
  BY <1>1, <1>6, BindingAssumption DEF BindingsInv, ObjectsOwnHandles, Open
<1>8. \A p \in Objects : lock'[p] = IF p = o /\ Protection(op) = "held" THEN h ELSE lock[p]
  BY <1>t DEF Begin, BindingTypeOK
<1>9. \A p \in Objects : inFlight'[p] = IF p = o /\ Protection(op) = "counted" THEN inFlight[p] + 1
                                        ELSE inFlight[p]
  BY <1>t DEF Begin, BindingTypeOK
<1>10. BindingTypeOK'
  <2>1. call' \in [Hosts -> [op : Operations \cup {"none"}, on : Objects \cup {Null},
                             at : Handles \cup {Null}, made : StreamObjects \cup {Null},
                             step : {"idle", "native", "leave", "free", "clear"}]]
    BY <1>1, <1>t DEF Begin, BindingTypeOK
  <2>2. inFlight' \in [Objects -> Nat] /\ lock' \in [Objects -> Hosts \cup {Null}]
    BY <1>t DEF Begin, BindingTypeOK
  <2> QED
    BY <1>1, <1>t, <2>1, <2>2 DEF BindingTypeOK
<1>11. Kinds'
  BY <1>1 DEF BindingsInv, Kinds
<1>12. ASSUME NEW k \in Hosts \ {h} PROVE Shaped(k)' /\ Closing(k)' /\ Protected(k)'
  <2>1. Shaped(k) /\ Closing(k) /\ Protected(k) /\ call'[k] = call[k]
    BY <1>2 DEF BindingsInv
  <2>2. call[k].op # "none" => call[k].on \in Objects
    BY <2>1 DEF Shaped, Objects
  <2>3. Shaped(k)'
    BY <1>1, <2>1 DEF Shaped
  <2>4. Held(k) /\ call[k].on = o => Protection(op) = "bare"
    BY <1>6, <2>1, BindingAssumption DEF Protected
  <2>5. Closing(k)'
    BY <1>1, <1>9, <2>1, <2>2, <2>4 DEF Closing, Held
  <2>6. Protected(k)'
    BY <1>1, <1>5, <1>8, <2>1, <2>2, <2>4 DEF Protected, Held
  <2> QED
    BY <2>3, <2>5, <2>6
<1>13. Shaped(h)' /\ Closing(h)' /\ Protected(h)'
  <2>1. Shaped(h)'
    BY <1>1, <1>3, BindingAssumption DEF Shaped, Operations, BindingsInv, Kinds, Objects
  <2>2. Closing(h)' /\ Protected(h)'
    BY <1>1, <1>3, <1>4, <1>5, <1>7, <1>8 DEF Closing, Protected, Operations
  <2> QED
    BY <2>1, <2>2
<1>14. Making'
  BY <1>1, <1>2, <1>3 DEF BindingsInv, Making, NoCall
<1>15. Locks'
  BY <1>2, <1>3, <1>5, <1>8 DEF BindingsInv, Locks, BindingTypeOK
<1>16. Counts'
  <2>1. ASSUME NEW p \in Objects \ {o} PROVE CallsOn(p)' = CallsOn(p)
    BY <1>2, <1>3, <1>5 DEF CallsOn
  <2>2. CallsOn(o)' = IF Protection(op) = "counted" THEN CallsOn(o) \cup {h} ELSE CallsOn(o)
    BY <1>2, <1>3, <1>5 DEF CallsOn
  <2>3. h \notin CallsOn(o)
    BY <1>5 DEF CallsOn
  <2>4. Cardinality(CallsOn(o) \cup {h}) = Cardinality(CallsOn(o)) + 1
    BY <2>3, CallsOnFinite, FS_AddElement
  <2> QED
    BY <1>9, <2>1, <2>2, <2>4 DEF BindingsInv, Counts
<1>17. NativeOnce'
  BY <1>1 DEF BindingsInv, NativeOnce
<1>18. ObjectsOwnHandles'
  <2>1. \A p \in Objects : Open(p) =>
            \/ native[handle[p]] = p
            \/ \E k \in Hosts \ {h} : call[k].on = p /\ call[k].step = "clear" /\ lock[p] = k
    BY <1>1 DEF BindingsInv, ObjectsOwnHandles, NoCall
  <2>2. \A k \in Hosts \ {h}, p \in Objects : call[k].step = "clear" /\ lock[p] = k => lock'[p] = k
    BY <1>6, <1>8, BindingAssumption
  <2>3. \A b \in Handles : native[b] # Null =>
            \/ handle[native[b]] = b
            \/ \E k \in Hosts \ {h} : call[k].made = native[b]
    BY <1>1 DEF BindingsInv, ObjectsOwnHandles, NoCall
  <2> QED
    BY <1>1, <1>2, <2>1, <2>2, <2>3 DEF ObjectsOwnHandles, Open
<1>19. OnlyBareCallsMiss' /\ IteratedStreamsFreed'
  BY <1>1, <1>4 DEF BindingsInv, OnlyBareCallsMiss, IteratedStreamsFreed
<1> QED
  BY <1>10, <1>11, <1>12, <1>13, <1>14, <1>15, <1>16, <1>17, <1>18, <1>19 DEF BindingsInv

\* Only a bare call is noted as having missed its object.
LEMMA NotedIsBare ==
    ASSUME BindingsInv, NEW h \in Hosts, call[h].op \notin {"none", "close"}, Noted(h), UNCHANGED language
    PROVE  OnlyBareCallsMiss' /\ foreign' \subseteq Operations
<1>1. \A x : Protection(x)' = Protection(x)
  BY ProtectionKept DEF BindingsInv
<1>2. call[h].op \in Operations /\ foreign \subseteq Operations
  BY DEF BindingsInv, BindingTypeOK
<1> QED
  BY <1>1, <1>2, MissedIsBare DEF Noted, BindingsInv, OnlyBareCallsMiss

\* A call that leaves objects and registry alone, or ends a stream
LEMMA AdvanceStep ==
    ASSUME BindingsInv, NEW h \in Hosts, NEW x \in {"leave", "free"}, call[h].step = "native",
           call' = [call EXCEPT ![h].step = x],
           UNCHANGED <<language, handle, inFlight, lock, native, parent, iterating, private>>,
           unfinished' \subseteq unfinished,
           x = "leave" => call[h].op \notin {"none", "close"} /\ Noted(h),
           x = "free" => call[h].op = "close" /\ call[h].on \notin unfinished' /\ UNCHANGED foreign
    PROVE  BindingsInv'
<1>t. BindingTypeOK
  BY DEF BindingsInv
<1>1. /\ call'[h].op = call[h].op /\ call'[h].on = call[h].on /\ call'[h].at = call[h].at
      /\ call'[h].made = call[h].made /\ call'[h].step = x
      /\ \A k \in Hosts \ {h} : call'[k] = call[k]
  BY <1>t DEF BindingTypeOK
<1>2. \A y : Protection(y)' = Protection(y)
  BY <1>t, ProtectionKept
<1>3. \A k \in Hosts : /\ call'[k].op = call[k].op /\ call'[k].on = call[k].on
                       /\ call'[k].at = call[k].at /\ call'[k].made = call[k].made
                       /\ (Counted(k)' <=> Counted(k)) /\ (Held(k)' <=> Held(k))
  BY <1>1, <1>2 DEF Counted, Held
<1>4. BindingTypeOK' /\ OnlyBareCallsMiss'
  <2>1. call' \in [Hosts -> [op : Operations \cup {"none"}, on : Objects \cup {Null},
                             at : Handles \cup {Null}, made : StreamObjects \cup {Null},
                             step : {"idle", "native", "leave", "free", "clear"}]]
    BY <1>t DEF BindingTypeOK
  <2>2. OnlyBareCallsMiss' /\ foreign' \subseteq Operations
    <3>1. CASE x = "leave"
      BY <3>1, NotedIsBare
    <3>2. CASE x = "free"
      BY <1>2, <1>t, <3>2 DEF BindingsInv, OnlyBareCallsMiss, BindingTypeOK
    <3> QED
      BY <3>1, <3>2
  <2> QED
    BY <1>t, <2>1, <2>2 DEF BindingTypeOK
<1>5. Kinds' /\ NativeOnce' /\ IteratedStreamsFreed'
  BY DEF BindingsInv, Kinds, NativeOnce, IteratedStreamsFreed
<1>6. ASSUME NEW k \in Hosts PROVE Shaped(k)' /\ Closing(k)' /\ Protected(k)'
  <2>1. Shaped(k) /\ Closing(k) /\ Protected(k)
    BY DEF BindingsInv
  <2>2. Protected(k)'
    BY <1>3, <2>1 DEF Protected
  <2>3. CASE k # h
    BY <1>1, <2>1, <2>2, <2>3 DEF Shaped, Closing
  <2>4. CASE k = h
    <3>1. Shaped(h)'
      BY <1>1, <2>1, <2>4 DEF Shaped
    <3>2. Closing(h)'
      BY <1>1, <2>1, <2>4 DEF Closing
    <3> QED
      BY <2>2, <2>4, <3>1, <3>2
  <2> QED
    BY <2>3, <2>4
<1>7. Making'
  BY <1>3 DEF BindingsInv, Making
<1>8. Locks'
  BY <1>3, <1>t DEF BindingsInv, Locks, BindingTypeOK
<1>9. Counts'
  BY <1>3, CountsKept
<1>10. ObjectsOwnHandles'
  <2>1. \A k \in Hosts : call[k].step = "clear" => call'[k].step = "clear"
    BY <1>1
  <2> QED
    BY <1>3, <2>1 DEF BindingsInv, ObjectsOwnHandles, Open
<1> QED
  BY <1>4, <1>5, <1>6, <1>7, <1>8, <1>9, <1>10 DEF BindingsInv

\* The C ABI starts a stream: nobody had its address or its object before.
LEMMA StartStep ==
    ASSUME BindingsInv, NEW h \in Hosts, NativeStart(h)
    PROVE  BindingsInv'
<1>t. BindingTypeOK /\ Shaped(h) /\ Protected(h)
  BY DEF BindingsInv
<1>1. /\ call[h].step = "native" /\ call[h].op \in {"start", "iterate"} /\ Noted(h)
      /\ UNCHANGED <<language, handle, inFlight, lock, iterating, private>>
  BY DEF NativeStart
<1>2. CASE native[call[h].at] = Null \/ Unborn(StreamObjects) = {}
  <2>1. call' = [call EXCEPT ![h].step = "leave"] /\ UNCHANGED <<native, parent, unfinished>>
    BY <1>2 DEF NativeStart
  <2>2. call[h].op \notin {"none", "close"} /\ unfinished' \subseteq unfinished
    BY <1>1, <2>1
  <2> QED
    BY <1>1, <2>1, <2>2, AdvanceStep
<1>3. CASE ~(native[call[h].at] = Null \/ Unborn(StreamObjects) = {})
  <2> DEFINE s == NextObject(StreamObjects)
  <2>1. s \in StreamObjects /\ handle[s] = Unmade /\ \A k \in Hosts : call[k].made # s
    BY <1>3, NextObjectUnborn DEF Unborn, Objects
  <2>2. PICK a \in StreamHandles : /\ native[a] = Null
                                   /\ native' = [native EXCEPT ![a] = s]
                                   /\ parent' = [parent EXCEPT ![s] = native[call[h].at]]
                                   /\ unfinished' = unfinished \cup {s}
                                   /\ call' = [call EXCEPT ![h].step = "leave", ![h].made = s]
    BY <1>3 DEF NativeStart
  <2> HIDE DEF s
  <2>3. native'[a] = s /\ \A b \in Handles \ {a} : native'[b] = native[b]
    BY <1>t, <2>2 DEF BindingTypeOK, Handles
  <2>4. /\ call'[h].op = call[h].op /\ call'[h].on = call[h].on /\ call'[h].at = call[h].at
        /\ call'[h].made = s /\ call'[h].step = "leave"
        /\ \A k \in Hosts \ {h} : call'[k] = call[k]
    BY <1>t, <2>2 DEF BindingTypeOK
  <2>5. \A y : Protection(y)' = Protection(y)
    BY <1>1, <1>t, ProtectionKept
  <2>6. \A k \in Hosts : /\ call'[k].op = call[k].op /\ call'[k].on = call[k].on
                         /\ call'[k].at = call[k].at
                         /\ (Counted(k)' <=> Counted(k)) /\ (Held(k)' <=> Held(k))
    BY <2>4, <2>5 DEF Counted, Held
  <2>7. \A b \in Handles : native[b] # s
    BY <2>1, BindingAssumption DEF BindingsInv, ObjectsOwnHandles, Objects
  <2>8. BindingTypeOK' /\ OnlyBareCallsMiss'
    <3>1. call' \in [Hosts -> [op : Operations \cup {"none"}, on : Objects \cup {Null},
                               at : Handles \cup {Null}, made : StreamObjects \cup {Null},
                               step : {"idle", "native", "leave", "free", "clear"}]]
      BY <1>t, <2>1, <2>2 DEF BindingTypeOK
    <3>2. native' \in [Handles -> Objects \cup {Null}]
      BY <1>t, <2>1, <2>2 DEF BindingTypeOK, Objects
    <3>3. native[call[h].at] \in ClientObjects \cup {Null}
      BY <1>1, <1>t, BindingAssumption DEF Shaped, BindingsInv, Kinds
    <3>4. parent' \in [StreamObjects -> ClientObjects \cup {Null}]
      BY <1>t, <2>1, <2>2, <3>3 DEF BindingTypeOK
    <3>5. OnlyBareCallsMiss' /\ foreign' \subseteq Operations
      BY <1>1, NotedIsBare
    <3> QED
      BY <1>1, <1>t, <2>1, <2>2, <3>1, <3>2, <3>4, <3>5 DEF BindingTypeOK
  <2>9. Kinds'
    BY <1>1, <2>1, <2>3, BindingAssumption DEF BindingsInv, Kinds, Handles
  <2>10. ASSUME NEW k \in Hosts PROVE Shaped(k)' /\ Closing(k)' /\ Protected(k)'
    <3>1. Shaped(k) /\ Closing(k) /\ Protected(k)
      BY DEF BindingsInv
    <3>2. call[k].op # "none" => call[k].on \in Objects /\ call[k].at \in Handles
      BY <3>1 DEF Shaped, Objects, Handles
    <3>3. Shaped(k)'
      BY <1>1, <2>1, <2>4, <3>1 DEF Shaped
    <3>4. call[k].op = "close" => call[k].on # s /\ k # h
      BY <1>1, <2>1, <3>1, <3>2, BindingAssumption DEF Closing
    <3>n. call[k].op # "none" /\ call[k].on # s =>
              (native'[call[k].at] = call[k].on <=> native[call[k].at] = call[k].on)
      BY <2>2, <2>3, <3>2, BindingAssumption
    <3>5. Closing(k)'
      <4> SUFFICES ASSUME call[k].op = "close" PROVE Closing(k)'
        BY <2>6 DEF Closing
      <4>1. call'[k] = call[k] /\ call[k].on # s
        BY <2>4, <3>4
      <4>2. call[k].on \notin unfinished => call[k].on \notin unfinished'
        BY <2>2, <4>1
      <4> QED
        BY <1>1, <3>1, <3>n, <4>1, <4>2 DEF Closing
    <3>6. Protected(k)'
      <4>1. (Counted(k) \/ Held(k)) /\ call[k].op # "close" => call[k].op # "none" /\ call[k].on # s
        BY <2>1, <3>1, <3>2, BindingAssumption DEF Protected, Counted, Held
      <4> QED
        BY <1>1, <2>6, <3>1, <3>n, <4>1 DEF Protected
    <3> QED
      BY <3>3, <3>5, <3>6
  <2>11. Making'
    <3>1. \A k \in Hosts \ {h} : call[k].made # Null => \E b \in StreamHandles : native'[b] = call[k].made
      BY <2>2, <2>3 DEF BindingsInv, Making, Handles
    <3>2. \A k \in Hosts \ {h} : call[k].made # Null => handle'[call[k].made] = Unmade
      BY <1>1 DEF BindingsInv, Making
    <3> QED
      BY <1>1, <2>1, <2>3, <2>4, <3>1, <3>2 DEF BindingsInv, Making
  <2>12. Locks'
    BY <1>1, <1>t, <2>6 DEF BindingsInv, Locks, BindingTypeOK
  <2>13. Counts'
    BY <1>1, <2>6, CountsKept
  <2>14. NativeOnce'
    BY <2>3, <2>7 DEF BindingsInv, NativeOnce, Handles
  <2>15. ObjectsOwnHandles'
    <3>1. \A k \in Hosts : call[k].step = "clear" => call'[k].step = "clear"
      BY <1>1, <2>4
    <3>2. \A k \in Hosts : call[k].made # Null => call'[k].made = call[k].made
      BY <1>1, <1>t, <2>4 DEF Shaped
    <3>3. \A o \in Objects : Open(o) => handle[o] # a \/ native[a] # o
      BY <2>2, BindingAssumption
    <3>4. (\A o \in Objects : Open(o) =>
              \/ native[handle[o]] = o
              \/ \E k \in Hosts : call[k].on = o /\ call[k].step = "clear" /\ lock[o] = k)'
      BY <1>1, <2>3, <2>6, <3>1, <3>3 DEF BindingsInv, ObjectsOwnHandles, Open
    <3>5. (\A b \in Handles : native[b] # Null =>
              \/ handle[native[b]] = b
              \/ \E k \in Hosts : call[k].made = native[b])'
      BY <1>1, <2>3, <2>4, <3>2 DEF BindingsInv, ObjectsOwnHandles
    <3> QED
      BY <3>4, <3>5 DEF ObjectsOwnHandles
  <2>16. IteratedStreamsFreed'
    BY <1>1 DEF BindingsInv, IteratedStreamsFreed
  <2> QED
    BY <2>8, <2>9, <2>10, <2>11, <2>12, <2>13, <2>14, <2>15, <2>16 DEF BindingsInv
<1> QED
  BY <1>2, <1>3

\* release, the guard's exit or the promise's finally
LEMMA LeaveStep ==
    ASSUME BindingsInv, NEW h \in Hosts, Leave(h)
    PROVE  BindingsInv'
<1> DEFINE o == call[h].on
           made == call[h].made
           op == call[h].op
<1>t. BindingTypeOK /\ Shaped(h) /\ Protected(h)
  BY DEF BindingsInv
<1>1. /\ call[h].step = "leave" /\ UNCHANGED <<language, native, parent, unfinished, foreign>>
      /\ call' = [call EXCEPT ![h] = NoCall]
  BY DEF Leave
<1>2. op \in Operations \ {"close"} /\ o \in Objects
  BY <1>1, <1>t DEF Shaped, NoCall, BindingTypeOK, Objects
<1>3. /\ call'[h].op = "none" /\ call'[h].made = Null /\ call'[h].step = "idle" /\ call'[h] = NoCall
      /\ \A k \in Hosts \ {h} : call'[k] = call[k]
  BY <1>1, <1>t DEF NoCall, BindingTypeOK
<1>4. \A y : Protection(y)' = Protection(y) /\ Protection(y) \in {"counted", "held", "bare"}
  BY <1>1, <1>t, ProtectionKept
<1>5. /\ \A k \in Hosts \ {h} : (Counted(k)' <=> Counted(k)) /\ (Held(k)' <=> Held(k))
      /\ ~Counted(h)' /\ ~Held(h)'
      /\ Counted(h) <=> Protection(op) = "counted"
      /\ Held(h) <=> Protection(op) = "held"
  BY <1>2, <1>3, <1>4 DEF Counted, Held, Operations
<1>6. made # Null => made \in StreamObjects /\ handle[made] = Unmade
  BY <1>t DEF BindingsInv, Making, BindingTypeOK
<1>7. made # Null => \E a \in StreamHandles : HandleOf(made) = a /\ native[a] = made
  <2> SUFFICES ASSUME made # Null PROVE \E a \in StreamHandles : HandleOf(made) = a /\ native[a] = made
    OBVIOUS
  <2>1. PICK a \in StreamHandles : native[a] = made
    BY DEF BindingsInv, Making
  <2>2. HandleOf(made) \in Handles /\ native[HandleOf(made)] = made
    BY <2>1 DEF HandleOf, Handles
  <2> HIDE DEF made
  <2> QED
    BY <2>1, <2>2 DEF BindingsInv, NativeOnce, Handles
<1>8. handle' = [p \in Objects |-> IF p = made THEN HandleOf(p) ELSE handle[p]]
  BY DEF Leave
<1>9. lock' = [lock EXCEPT ![o] = IF Protection(op) = "held" THEN Null ELSE @]
  BY DEF Leave
<1>10. inFlight' = [inFlight EXCEPT ![o] = @ - (IF Protection(op) = "counted" THEN 1 ELSE 0)]
  BY DEF Leave
<1>11. /\ made # Null /\ op = "iterate" =>
             private' = private \cup {made} /\ iterating' = [iterating EXCEPT ![h] = made]
       /\ ~(made # Null /\ op = "iterate") => UNCHANGED <<private, iterating>>
  <2> DEFINE own == {s \in StreamObjects : op = "iterate" /\ made = s}
  <2>1. private' = private \cup own
        /\ iterating' = [iterating EXCEPT ![h] = IF own # {} THEN made ELSE @]
    BY DEF Leave
  <2>2. CASE made # Null /\ op = "iterate"
    <3>1. own = {made}
      BY <1>6, <2>2
    <3> QED
      BY <2>1, <2>2, <3>1
  <2>3. CASE ~(made # Null /\ op = "iterate")
    <3>1. own = {}
      BY <2>3, BindingAssumption DEF Objects
    <3>2. iterating \in [Hosts -> StreamObjects \cup {Null}]
      BY <1>t DEF BindingTypeOK
    <3> HIDE DEF own
    <3> QED
      BY <2>1, <2>3, <3>1, <3>2
  <2> QED
    BY <2>2, <2>3
<1>h. /\ \A p \in Objects \ {made} : handle'[p] = handle[p]
      /\ made # Null => handle'[made] \in StreamHandles /\ native[handle'[made]] = made
  BY <1>6, <1>7, <1>8 DEF Objects
<1>m. \A k \in Hosts \ {h} : call[k].made # Null => call[k].made # made
  BY DEF BindingsInv, Making
<1>l. \A p \in Objects : lock'[p] = IF p = o /\ Protection(op) = "held" THEN Null ELSE lock[p]
  BY <1>t, <1>9 DEF BindingTypeOK
<1>count. Counts' /\ inFlight' \in [Objects -> Nat]
  <2>0. PICK q \in Objects : q = o
    BY <1>2
  <2>1. ASSUME NEW p \in Objects \ {q} PROVE CallsOn(p)' = CallsOn(p)
    BY <1>3, <1>5, <2>0 DEF CallsOn, NoCall
  <2>2. CallsOn(q)' = CallsOn(q) \ {h}
    BY <1>3, <1>5, <2>0 DEF CallsOn, NoCall
  <2>3. h \in CallsOn(q) <=> Protection(op) = "counted"
    BY <1>5, <2>0 DEF CallsOn
  <2>4. Cardinality(CallsOn(q) \ {h}) =
           IF h \in CallsOn(q) THEN Cardinality(CallsOn(q)) - 1 ELSE Cardinality(CallsOn(q))
    BY CallsOnFinite, FS_RemoveElement
  <2>5. inFlight \in [Objects -> Nat] /\ \A p \in Objects : inFlight[p] = Cardinality(CallsOn(p))
    BY DEF BindingsInv, BindingTypeOK, Counts
  <2>6. \A p \in Objects : inFlight'[p] = Cardinality(CallsOn(p)')
    <3> HIDE DEF o, op
    <3>1. inFlight'[q] = IF Protection(op) = "counted" THEN inFlight[q] - 1 ELSE inFlight[q]
      BY <1>10, <2>0, <2>5
    <3>2. \A p \in Objects \ {q} : inFlight'[p] = inFlight[p]
      BY <1>10, <2>0, <2>5
    <3>3. inFlight'[q] = Cardinality(CallsOn(q)')
      BY <2>2, <2>3, <2>4, <2>5, <3>1
    <3> QED
      BY <2>1, <2>5, <3>2, <3>3
  <2>7. \A p \in Objects : Cardinality(CallsOn(p)') \in Nat
    BY CallsOnFinite, FS_CardinalityType
  <2>8. inFlight' = [p \in Objects |-> inFlight'[p]]
    BY <1>10, <2>5
  <2>9. \A p \in Objects : inFlight'[p] \in Nat
    BY <2>6, <2>7
  <2> QED
    BY <2>6, <2>8, <2>9 DEF Counts
<1> HIDE DEF o, made, op
<1>12. BindingTypeOK'
  <2>1. call' \in [Hosts -> [op : Operations \cup {"none"}, on : Objects \cup {Null},
                             at : Handles \cup {Null}, made : StreamObjects \cup {Null},
                             step : {"idle", "native", "leave", "free", "clear"}]]
    BY <1>1, <1>t DEF BindingTypeOK, NoCall
  <2>2. handle' \in [Objects -> Handles \cup {Null, Unmade}]
    BY <1>8, <1>h, <1>t, BindingAssumption DEF BindingTypeOK, Handles, Objects
  <2>3. lock' \in [Objects -> Hosts \cup {Null}]
    BY <1>t, <1>9 DEF BindingTypeOK
  <2>4. private' \subseteq StreamObjects /\ iterating' \in [Hosts -> StreamObjects \cup {Null}]
    BY <1>t, <1>6, <1>11 DEF BindingTypeOK
  <2> QED
    BY <1>1, <1>t, <1>count, <2>1, <2>2, <2>3, <2>4 DEF BindingTypeOK
<1>13. Kinds'
  BY <1>1, <1>h, <1>6, BindingAssumption DEF BindingsInv, Kinds, Objects
<1>14. ASSUME NEW k \in Hosts PROVE Shaped(k)' /\ Closing(k)' /\ Protected(k)'
  <2>1. CASE k = h
    BY <1>3, <1>5, <2>1 DEF Shaped, Closing, Protected, NoCall
  <2>2. CASE k # h
    <3>1. Shaped(k) /\ Closing(k) /\ Protected(k) /\ call'[k] = call[k]
      BY <1>3, <2>2 DEF BindingsInv
    <3>2. call[k].op # "none" => call[k].on \in Objects /\ call[k].at \in Handles
      BY <3>1 DEF Shaped, Objects, Handles
    <3>3. Shaped(k)'
      BY <1>11, <1>t, <2>2, <3>1 DEF Shaped, BindingTypeOK
    <3>4. call[k].op # "none" /\ handle[call[k].on] = call[k].at => handle'[call[k].on] = call[k].at
      BY <1>6, <1>h, <3>2, BindingAssumption DEF Objects
    <3>5. call[k].op = "close" /\ Protection(op) \in {"counted", "held"} => call[k].on # o
      BY <1>5, <2>2, ClosingAlone DEF o
    <3>6. inFlight \in [Objects -> Nat]
      BY <1>t DEF BindingTypeOK
    <3>7. call[k].op = "close" => inFlight'[call[k].on] = inFlight[call[k].on]
      BY <1>10, <3>2, <3>5, <3>6
    <3>8. Closing(k)'
      BY <1>1, <3>1, <3>2, <3>4, <3>7 DEF Closing
    <3>9. Held(k) => ~(call[k].on = o /\ Protection(op) = "held")
      BY <1>5, <1>t, <2>2, <3>1 DEF Protected, o
    <3>10. Protected(k)'
      BY <1>1, <1>5, <1>l, <2>2, <3>1, <3>2, <3>4, <3>9 DEF Protected, Counted, Held
    <3> QED
      BY <3>3, <3>8, <3>10
  <2> QED
    BY <2>1, <2>2
<1>15. Making'
  <2>1. \A k \in Hosts \ {h} : call[k].made # Null => handle'[call[k].made] = Unmade
    BY <1>h, <1>m, <1>t DEF BindingsInv, Making, BindingTypeOK, Objects
  <2> QED
    BY <1>1, <1>3, <2>1 DEF BindingsInv, Making
<1>16. Locks'
  <2>1. \A p \in Objects : lock[p] = h => p = o /\ Protection(op) = "held"
    BY <1>5, BindingAssumption DEF BindingsInv, Locks, o
  <2> QED
    BY <1>3, <1>5, <1>l, <1>t, <2>1 DEF BindingsInv, Locks, BindingTypeOK
<1>17. NativeOnce'
  BY <1>1 DEF BindingsInv, NativeOnce
<1>18. ObjectsOwnHandles'
  <2>1. ASSUME NEW p \in Objects, Open(p)'
        PROVE  \/ native'[handle'[p]] = p
               \/ \E k \in Hosts : call'[k].on = p /\ call'[k].step = "clear" /\ lock'[p] = k
    <3>1. CASE p = made
      BY <1>1, <1>h, <2>1, <3>1, BindingAssumption
    <3>2. CASE p # made
      <4>1. handle'[p] = handle[p] /\ Open(p)
        BY <1>h, <2>1, <3>2 DEF Open
      <4>2. CASE native[handle[p]] = p
        BY <1>1, <4>1, <4>2
      <4>3. CASE \E k \in Hosts : call[k].on = p /\ call[k].step = "clear" /\ lock[p] = k
        <5>1. PICK k \in Hosts : call[k].on = p /\ call[k].step = "clear" /\ lock[p] = k
          BY <4>3
        <5>2. k # h
          BY <1>1, <5>1
        <5>3. ~(p = o /\ Protection(op) = "held")
          BY <1>5, <1>t, <5>1, <5>2 DEF Protected, o
        <5> QED
          BY <1>3, <1>l, <5>1, <5>2, <5>3
      <4> QED
        BY <4>1, <4>2, <4>3 DEF BindingsInv, ObjectsOwnHandles
    <3> QED
      BY <3>1, <3>2
  <2>2. ASSUME NEW b \in Handles, native'[b] # Null
        PROVE  handle'[native'[b]] = b \/ \E k \in Hosts : call'[k].made = native'[b]
    <3>0. native'[b] = native[b] /\ native[b] \in Objects
      BY <1>1, <1>t, <2>2 DEF BindingTypeOK
    <3>1. CASE native[b] = made
      BY <1>h, <3>0, <3>1, BindingAssumption DEF BindingsInv, NativeOnce, Handles, Objects
    <3>2. CASE native[b] # made /\ handle[native[b]] = b
      BY <1>h, <3>0, <3>2
    <3>3. CASE native[b] # made /\ \E k \in Hosts : call[k].made = native[b]
      BY <1>3, <3>0, <3>3 DEF made
    <3> QED
      BY <2>2, <3>0, <3>1, <3>2, <3>3 DEF BindingsInv, ObjectsOwnHandles
  <2> QED
    BY <2>1, <2>2 DEF ObjectsOwnHandles
<1>19. OnlyBareCallsMiss'
  BY <1>1, <1>4 DEF BindingsInv, OnlyBareCallsMiss
<1>20. IteratedStreamsFreed'
  <2>1. \A s \in StreamObjects : handle[s] = Null => handle'[s] = Null
    BY <1>6, <1>h, BindingAssumption DEF Objects
  <2>2. op = "iterate" => iterating[h] = Null
    BY <1>t DEF Shaped, op
  <2>3. private \subseteq StreamObjects /\ iterating \in [Hosts -> StreamObjects \cup {Null}]
    BY <1>t DEF BindingTypeOK
  <2>4. \A k \in Hosts : iterating[k] # Null => iterating'[k] = iterating[k]
    BY <1>11, <2>2, <2>3
  <2>5. \A s \in private : handle'[s] = Null \/ \E k \in Hosts : iterating'[k] = s
    BY <2>1, <2>3, <2>4, BindingAssumption DEF BindingsInv, IteratedStreamsFreed, Objects
  <2>6. \A s \in private' \ private : iterating'[h] = s
    BY <1>11, <2>3
  <2> QED
    BY <2>5, <2>6 DEF IteratedStreamsFreed
<1> QED
  BY <1>count, <1>12, <1>13, <1>14, <1>15, <1>16, <1>17, <1>18, <1>19, <1>20 DEF BindingsInv

\* A close begins: it takes the lock of an object on which no call is counted.
LEMMA CloseBeginStep ==
    ASSUME BindingsInv, NEW h \in Hosts, NEW o \in Objects, CloseBegin(h, o)
    PROVE  BindingsInv'
<1>t. BindingTypeOK
  BY DEF BindingsInv
<1>1. /\ call[h] = NoCall /\ handle[o] \in Handles /\ Available(o, "close") /\ inFlight[o] = 0
      /\ UNCHANGED <<language, handle, inFlight, native, parent, unfinished, iterating, foreign, private>>
      /\ lock' = [lock EXCEPT ![o] = h]
  BY DEF CloseBegin, Open, Idle
<1>2. /\ call'[h].op = "close" /\ call'[h].on = o /\ call'[h].at = handle[o] /\ call'[h].made = Null
      /\ call'[h].step = IF o \in StreamObjects THEN "native" ELSE "free"
      /\ \A k \in Hosts \ {h} : call'[k] = call[k]
  BY <1>t DEF CloseBegin, BindingTypeOK
<1>3. \A y : Protection(y)' = Protection(y) /\ Protection(y) \in {"counted", "held", "bare"}
  BY <1>1, <1>t, ProtectionKept
<1>4. /\ \A k \in Hosts : Counted(k)' <=> Counted(k)
      /\ \A k \in Hosts \ {h} : Held(k)' <=> Held(k)
      /\ Held(h)' /\ ~Counted(h) /\ ~Held(h)
  BY <1>1, <1>2, <1>3 DEF Counted, Held, NoCall
<1>5. lock[o] = Null
  BY <1>1, <1>t, BindingAssumption
  DEF Available, BindingTypeOK, Protection, PythonProtects
<1>6. native[handle[o]] = o
  BY <1>1, <1>5, BindingAssumption DEF BindingsInv, ObjectsOwnHandles, Open
<1>7. lock'[o] = h /\ \A p \in Objects \ {o} : lock'[p] = lock[p]
  BY <1>1, <1>t DEF BindingTypeOK
<1>8. BindingTypeOK'
  <2>1. call' \in [Hosts -> [op : Operations \cup {"none"}, on : Objects \cup {Null},
                             at : Handles \cup {Null}, made : StreamObjects \cup {Null},
                             step : {"idle", "native", "leave", "free", "clear"}]]
    BY <1>1, <1>t DEF CloseBegin, BindingTypeOK, Operations
  <2>2. lock' \in [Objects -> Hosts \cup {Null}]
    BY <1>1, <1>t DEF BindingTypeOK
  <2> QED
    BY <1>1, <1>t, <2>1, <2>2 DEF BindingTypeOK
<1>9. Kinds' /\ NativeOnce' /\ OnlyBareCallsMiss' /\ IteratedStreamsFreed'
  BY <1>1, <1>3 DEF BindingsInv, Kinds, NativeOnce, OnlyBareCallsMiss, IteratedStreamsFreed
<1>10. ASSUME NEW k \in Hosts \ {h} PROVE Shaped(k)' /\ Closing(k)' /\ Protected(k)'
  <2>1. Shaped(k) /\ Closing(k) /\ Protected(k) /\ call'[k] = call[k]
    BY <1>2 DEF BindingsInv
  <2>2. Held(k) => call[k].on \in Objects \ {o}
    BY <1>5, <2>1, BindingAssumption DEF Protected, Shaped, Held, Objects
  <2> QED
    BY <1>1, <1>4, <1>7, <2>1, <2>2 DEF Shaped, Closing, Protected
<1>11. Shaped(h)' /\ Closing(h)' /\ Protected(h)'
  <2>1. \/ o \in ClientObjects /\ handle[o] \in ClientHandles
        \/ o \in StreamObjects /\ handle[o] \in StreamHandles
    BY <1>1, BindingAssumption DEF BindingsInv, Kinds, Objects
  <2>2. o \notin StreamObjects => o \notin unfinished
    BY <1>t DEF BindingTypeOK
  <2>3. Shaped(h)'
    BY <1>2, <2>1 DEF Shaped
  <2>4. Closing(h)'
    BY <1>1, <1>2, <1>6, <2>2 DEF Closing
  <2>5. Protected(h)'
    BY <1>2, <1>4, <1>7 DEF Protected, Counted
  <2> QED
    BY <2>3, <2>4, <2>5
<1>12. Making'
  BY <1>1, <1>2 DEF BindingsInv, Making
<1>13. Locks'
  BY <1>2, <1>4, <1>7 DEF BindingsInv, Locks, BindingTypeOK
<1>14. Counts'
  BY <1>1, <1>2, <1>4, CountsKept
<1>15. ObjectsOwnHandles'
  <2>1. \A p \in Objects : Open(p) =>
            \/ native[handle[p]] = p
            \/ \E k \in Hosts \ {h} : call[k].on = p /\ call[k].step = "clear" /\ lock[p] = k
    BY <1>1 DEF BindingsInv, ObjectsOwnHandles, NoCall
  <2>2. \A b \in Handles : native[b] # Null =>
            handle[native[b]] = b \/ \E k \in Hosts \ {h} : call[k].made = native[b]
    BY <1>1 DEF BindingsInv, ObjectsOwnHandles, NoCall
  <2>3. \A k \in Hosts, p \in Objects : lock[p] = k => lock'[p] = k
    BY <1>5, <1>7, BindingAssumption
  <2> QED
    BY <1>1, <1>2, <2>1, <2>2, <2>3 DEF ObjectsOwnHandles, Open
<1> QED
  BY <1>8, <1>9, <1>10, <1>11, <1>12, <1>13, <1>14, <1>15 DEF BindingsInv

\* The close of an object ends, whether or not it was freed: nobody else was on it.
LEMMA CloseEnds ==
    ASSUME BindingsInv, NEW h \in Hosts, call[h].op = "close",
           lock' = [lock EXCEPT ![call[h].on] = Null],
           call' = [call EXCEPT ![h] = NoCall],
           iterating' = Iterated(h, call[h].on),
           UNCHANGED <<language, inFlight, native, parent, unfinished, foreign, private>>,
           NEW o, o = call[h].on,
           \/ UNCHANGED handle /\ call[h].step = "free" /\ o \notin StreamObjects
           \/ handle' = [handle EXCEPT ![o] = Null] /\ call[h].step = "clear"
    PROVE  BindingsInv'
<1>t. BindingTypeOK /\ Shaped(h) /\ Closing(h) /\ Protected(h) /\ Held(h)
  BY DEF BindingsInv, Held
<1>0. o \in Objects /\ lock[o] = h /\ handle[o] \in Handles /\ handle[o] = call[h].at
  BY <1>t DEF Shaped, Closing, Protected, Objects, Handles
<1>1. /\ call'[h].op = "none" /\ call'[h].made = Null /\ call'[h].step = "idle" /\ call'[h] = NoCall
      /\ \A k \in Hosts \ {h} : call'[k] = call[k]
  BY <1>t DEF NoCall, BindingTypeOK
<1>2. \A y : Protection(y)' = Protection(y)
  BY <1>t, ProtectionKept
<1>3. /\ \A k \in Hosts \ {h} : (Counted(k)' <=> Counted(k)) /\ (Held(k)' <=> Held(k))
      /\ ~Held(h)' /\ ~Counted(h)' /\ ~Counted(h)
  BY <1>1, <1>2 DEF Counted, Held
<1>4. lock'[o] = Null /\ \A p \in Objects \ {o} : lock'[p] = lock[p]
  BY <1>0, <1>t DEF BindingTypeOK
<1>5. \A p \in Objects \ {o} : handle'[p] = handle[p]
  BY <1>t DEF BindingTypeOK
<1>6. BindingTypeOK'
  <2>1. call' \in [Hosts -> [op : Operations \cup {"none"}, on : Objects \cup {Null},
                             at : Handles \cup {Null}, made : StreamObjects \cup {Null},
                             step : {"idle", "native", "leave", "free", "clear"}]]
    BY <1>t DEF BindingTypeOK, NoCall
  <2>2. /\ handle' \in [Objects -> Handles \cup {Null, Unmade}]
        /\ lock' \in [Objects -> Hosts \cup {Null}]
        /\ iterating' \in [Hosts -> StreamObjects \cup {Null}]
    BY <1>t DEF BindingTypeOK, Iterated
  <2> QED
    BY <1>t, <2>1, <2>2 DEF BindingTypeOK
<1>7. Kinds' /\ NativeOnce' /\ OnlyBareCallsMiss'
  <2>1. \A p \in Objects : handle'[p] = handle[p] \/ handle'[p] = Null
    BY <1>t DEF BindingTypeOK
  <2> QED
    BY <1>2, <2>1 DEF BindingsInv, Kinds, NativeOnce, OnlyBareCallsMiss, Objects
<1>8. ASSUME NEW k \in Hosts PROVE Shaped(k)' /\ Closing(k)' /\ Protected(k)'
  <2>1. CASE k = h
    BY <1>1, <1>3, <2>1 DEF Shaped, Closing, Protected, NoCall
  <2>2. CASE k # h
    <3>1. Shaped(k) /\ Closing(k) /\ Protected(k) /\ call'[k] = call[k]
      BY <1>1, <2>2 DEF BindingsInv
    <3>2. call[k].op # "none" => call[k].on \in Objects
      BY <3>1 DEF Shaped, Objects
    <3>3. Counted(k) \/ Held(k) => call[k].on # o
      BY <2>2, ClosingAlone
    <3>4. iterating'[k] = iterating[k]
      BY <1>t, <2>2 DEF BindingTypeOK, Iterated
    <3>5. Shaped(k)' /\ Closing(k)'
      BY <1>5, <3>1, <3>2, <3>3, <3>4 DEF Shaped, Closing, Held
    <3>6. Protected(k)'
      BY <1>3, <1>4, <1>5, <2>2, <3>1, <3>2, <3>3 DEF Protected, Counted, Held
    <3> QED
      BY <3>5, <3>6
  <2> QED
    BY <2>1, <2>2
<1>9. Making'
  <2>1. \A k \in Hosts : call[k].made # Null => call[k].made \in Objects \ {o}
    BY <1>0, <1>t, BindingAssumption DEF BindingsInv, Making, BindingTypeOK, Objects
  <2> QED
    BY <1>1, <1>5, <2>1 DEF BindingsInv, Making
<1>10. Locks'
  <2>1. \A p \in Objects \ {o} : lock[p] # h
    BY <1>t, BindingAssumption DEF BindingsInv, Locks
  <2> QED
    BY <1>1, <1>3, <1>4, <1>t, <2>1 DEF BindingsInv, Locks, BindingTypeOK
<1>11. Counts'
  BY <1>1, <1>3, CountsKept
<1>12. ObjectsOwnHandles'
  <2>1. ASSUME NEW p \in Objects, Open(p)'
        PROVE  \/ native'[handle'[p]] = p
               \/ \E k \in Hosts : call'[k].on = p /\ call'[k].step = "clear" /\ lock'[p] = k
    <3>1. CASE p = o
      BY <1>0, <1>t, <2>1, <3>1, BindingAssumption DEF Open, BindingTypeOK, Closing
    <3>2. CASE p # o
      <4>1. handle'[p] = handle[p] /\ Open(p)
        BY <1>5, <2>1, <3>2 DEF Open
      <4>2. \A k \in Hosts : call[k].on = p => k # h
        BY <3>2
      <4> QED
        BY <1>1, <1>4, <3>2, <4>1, <4>2 DEF BindingsInv, ObjectsOwnHandles
    <3> QED
      BY <3>1, <3>2
  <2>2. ASSUME NEW b \in Handles, native'[b] # Null
        PROVE  handle'[native'[b]] = b \/ \E k \in Hosts : call'[k].made = native'[b]
    <3>0. native'[b] = native[b] /\ native[b] \in Objects /\ call[h].made = Null
      BY <1>t, <2>2 DEF BindingTypeOK, Shaped
    <3>1. CASE native[b] = o
      <4>1. handle[o] = b \/ \E k \in Hosts : call[k].made = o
        BY <2>2, <3>0, <3>1 DEF BindingsInv, ObjectsOwnHandles
      <4>2. \A k \in Hosts : call[k].made # o
        BY <1>0, BindingAssumption DEF BindingsInv, Making, Objects
      <4>3. call[h].step # "clear"
        BY <1>0, <1>t, <3>1, <4>1, <4>2 DEF Closing
      <4> QED
        BY <3>0, <3>1, <4>1, <4>2, <4>3
    <3>2. CASE native[b] # o
      BY <1>1, <1>5, <2>2, <3>0, <3>2 DEF BindingsInv, ObjectsOwnHandles
    <3> QED
      BY <3>1, <3>2
  <2> QED
    BY <2>1, <2>2 DEF ObjectsOwnHandles
<1>13. IteratedStreamsFreed'
  <2>1. \A k \in Hosts : iterating[k] # o => iterating'[k] = iterating[k]
    BY <1>t DEF BindingTypeOK, Iterated
  <2>2. o \in StreamObjects => handle'[o] = Null
    BY <1>0, <1>t DEF BindingTypeOK
  <2>3. private \subseteq StreamObjects
    BY <1>t DEF BindingTypeOK
  <2> QED
    BY <1>5, <2>1, <2>2, <2>3 DEF BindingsInv, IteratedStreamsFreed, Objects
<1> QED
  BY <1>6, <1>7, <1>8, <1>9, <1>10, <1>11, <1>12, <1>13 DEF BindingsInv

\* stream_free and sdk_free give up the handle of the object they were called on.
LEMMA FreedStep ==
    ASSUME BindingsInv, NEW h \in Hosts, call[h].op = "close", call[h].step = "free",
           native' = [native EXCEPT ![call[h].at] = Null],
           call' = [call EXCEPT ![h].step = "clear"],
           UNCHANGED <<language, handle, inFlight, lock, parent, unfinished, iterating, private, foreign>>
    PROVE  BindingsInv'
<1>t. BindingTypeOK /\ Shaped(h) /\ Closing(h) /\ Protected(h) /\ Held(h)
  BY DEF BindingsInv, Held
<1>0. PICK o \in Objects, a \in Handles :
          /\ o = call[h].on /\ a = call[h].at
          /\ lock[o] = h /\ handle[o] = a /\ native[a] = o
  BY <1>t DEF Shaped, Closing, Protected, Objects, Handles
<1>1. /\ call'[h].op = "close" /\ call'[h].on = o /\ call'[h].at = a
      /\ call'[h].made = call[h].made /\ call'[h].step = "clear"
      /\ \A k \in Hosts \ {h} : call'[k] = call[k]
  BY <1>0, <1>t DEF BindingTypeOK
<1>2. \A y : Protection(y)' = Protection(y)
  BY <1>t, ProtectionKept
<1>3. \A k \in Hosts : /\ call'[k].op = call[k].op /\ call'[k].on = call[k].on
                       /\ call'[k].at = call[k].at /\ call'[k].made = call[k].made
                       /\ (Counted(k)' <=> Counted(k)) /\ (Held(k)' <=> Held(k))
  BY <1>0, <1>1, <1>2 DEF Counted, Held
<1>4. native'[a] = Null /\ \A b \in Handles \ {a} : native'[b] = native[b]
  BY <1>0, <1>t DEF BindingTypeOK
<1>5. BindingTypeOK'
  <2>1. call' \in [Hosts -> [op : Operations \cup {"none"}, on : Objects \cup {Null},
                             at : Handles \cup {Null}, made : StreamObjects \cup {Null},
                             step : {"idle", "native", "leave", "free", "clear"}]]
    BY <1>t DEF BindingTypeOK
  <2>2. native' \in [Handles -> Objects \cup {Null}]
    BY <1>t DEF BindingTypeOK
  <2> QED
    BY <1>t, <2>1, <2>2 DEF BindingTypeOK
<1>6. Kinds' /\ NativeOnce' /\ OnlyBareCallsMiss' /\ IteratedStreamsFreed'
  BY <1>2, <1>4, BindingAssumption
  DEF BindingsInv, Kinds, NativeOnce, OnlyBareCallsMiss, IteratedStreamsFreed, Handles
<1>7. ASSUME NEW k \in Hosts PROVE Shaped(k)' /\ Closing(k)' /\ Protected(k)'
  <2>0. Shaped(k) /\ Closing(k) /\ Protected(k)
    BY DEF BindingsInv
  <2>1. CASE k = h
    <3>1. Shaped(h)' /\ Protected(h)'
      <4>1. Shaped(h)'
        BY <1>0, <1>1, <1>t DEF Shaped
      <4>2. Protected(h)'
        BY <1>0, <1>1, <1>3, <1>t DEF Protected, Counted
      <4> QED
        BY <4>1, <4>2
    <3>2. Closing(h)'
      BY <1>0, <1>1, <1>4, <1>t, BindingAssumption DEF Closing
    <3> QED
      BY <2>1, <3>1, <3>2
  <2>2. CASE k # h
    <3>1. call'[k] = call[k] /\ (call[k].op # "none" => call[k].on \in Objects /\ call[k].at \in Handles)
      BY <1>1, <2>0, <2>2 DEF Shaped, Objects, Handles
    <3>2. Counted(k) \/ Held(k) => call[k].on # o
      BY <1>0, <2>2, ClosingAlone
    <3>3. call[k].op # "none" /\ call[k].on # o =>
              (native'[call[k].at] = call[k].on <=> native[call[k].at] = call[k].on)
      BY <1>0, <1>4, <3>1, BindingAssumption
    <3>4. Shaped(k)'
      BY <2>0, <3>1 DEF Shaped
    <3>5. Closing(k)'
      <4>1. call[k].op = "close" =>
                /\ call[k].on # o
                /\ (native'[call[k].at] = call[k].on <=> native[call[k].at] = call[k].on)
        BY <3>2, <3>3 DEF Held
      <4>2. call'[k] = call[k] /\ UNCHANGED <<handle, inFlight, unfinished>>
        BY <3>1
      <4>3. CASE call[k].op = "close"
        BY <2>0, <4>1, <4>2, <4>3 DEF Closing
      <4>4. CASE call[k].op # "close"
        BY <4>2, <4>4 DEF Closing
      <4> QED
        BY <4>3, <4>4
    <3>6. Protected(k)'
      BY <1>3, <2>0, <3>1, <3>2, <3>3 DEF Protected, Counted, Held
    <3> QED
      BY <3>4, <3>5, <3>6
  <2> QED
    BY <2>1, <2>2
<1>8. Making'
  <2>1. \A k \in Hosts : call[k].made # Null => call[k].made # o
    BY <1>0, BindingAssumption DEF BindingsInv, Making
  <2> QED
    BY <1>0, <1>3, <1>4, <2>1 DEF BindingsInv, Making, Handles
<1>9. Locks'
  BY <1>3, <1>t DEF BindingsInv, Locks, BindingTypeOK
<1>10. Counts'
  BY <1>3, CountsKept
<1>11. ObjectsOwnHandles'
  <2>1. \A k \in Hosts : call[k].step = "clear" => call'[k].step = "clear"
    BY <1>1
  <2>2. ASSUME NEW p \in Objects, Open(p)'
        PROVE  \/ native'[handle'[p]] = p
               \/ \E k \in Hosts : call'[k].on = p /\ call'[k].step = "clear" /\ lock'[p] = k
    <3>1. CASE p = o
      BY <1>0, <1>1, <3>1
    <3>2. CASE p # o
      BY <1>0, <1>3, <1>4, <2>1, <2>2, <3>2 DEF BindingsInv, ObjectsOwnHandles, Open
    <3> QED
      BY <3>1, <3>2
  <2>3. ASSUME NEW b \in Handles, native'[b] # Null
        PROVE  handle'[native'[b]] = b \/ \E k \in Hosts : call'[k].made = native'[b]
    BY <1>3, <1>4, <2>3 DEF BindingsInv, ObjectsOwnHandles
  <2> QED
    BY <2>2, <2>3 DEF ObjectsOwnHandles
<1> QED
  BY <1>5, <1>6, <1>7, <1>8, <1>9, <1>10, <1>11 DEF BindingsInv

\* The free of a closing object finds that object's handle and, if it is a
\* stream, is not refused.
LEMMA CloseFreeStep ==
    ASSUME BindingsInv, NEW h \in Hosts, CloseFree(h)
    PROVE  BindingsInv'
<1>t. BindingTypeOK /\ Shaped(h) /\ Closing(h)
  BY DEF BindingsInv
<1>1. /\ call[h].step = "free" /\ Noted(h)
      /\ UNCHANGED <<language, handle, inFlight, parent, unfinished, private>>
  BY DEF CloseFree
<1>2. call[h].op = "close" /\ native[call[h].at] = call[h].on /\ call[h].on \in Objects
  BY <1>1, <1>t DEF Shaped, Closing, NoCall, Objects
<1>3. UNCHANGED foreign
  BY <1>1, <1>2 DEF Noted, Missed
<1>4. CASE native[call[h].at] # Null /\ Freeable(native[call[h].at])
  <2>1. /\ native' = [native EXCEPT ![call[h].at] = Null]
        /\ call' = [call EXCEPT ![h].step = "clear"]
        /\ UNCHANGED <<lock, iterating>>
    BY <1>4 DEF CloseFree
  <2> QED
    BY <1>1, <1>2, <1>3, <2>1, FreedStep
<1>5. CASE native[call[h].at] = Null \/ ~Freeable(native[call[h].at])
  <2>1. /\ lock' = [lock EXCEPT ![call[h].on] = Null]
        /\ call' = [call EXCEPT ![h] = NoCall]
        /\ iterating' = Iterated(h, call[h].on)
        /\ UNCHANGED native
    BY <1>5 DEF CloseFree
  <2>2. call[h].on \notin StreamObjects
    BY <1>1, <1>2, <1>5, <1>t, BindingAssumption DEF Freeable, Closing
  <2> QED
    BY <1>1, <1>2, <1>3, <2>1, <2>2, CloseEnds
<1> QED
  BY <1>4, <1>5

\* No call is about a stream's task: that one ends changes nothing.
LEMMA StreamEndsStep ==
    ASSUME BindingsInv, UNCHANGED <<language, handle, inFlight, lock, native, parent, call, iterating,
                             foreign, private>>,
           unfinished' \subseteq unfinished
    PROVE  BindingsInv'
<1>t. BindingTypeOK
  BY DEF BindingsInv
<1>1. \A y : Protection(y)' = Protection(y)
  BY <1>t, ProtectionKept
<1>2. \A k \in Hosts : (Counted(k)' <=> Counted(k)) /\ (Held(k)' <=> Held(k))
  BY <1>1 DEF Counted, Held
<1>3. BindingTypeOK' /\ Kinds' /\ Making' /\ NativeOnce' /\ IteratedStreamsFreed'
  BY DEF BindingsInv, BindingTypeOK, Kinds, Making, NativeOnce, IteratedStreamsFreed
<1>4. ObjectsOwnHandles' /\ OnlyBareCallsMiss'
  BY <1>1 DEF BindingsInv, ObjectsOwnHandles, Open, OnlyBareCallsMiss
<1>5. \A k \in Hosts : Shaped(k)' /\ Closing(k)' /\ Protected(k)'
  BY <1>2 DEF BindingsInv, Shaped, Closing, Protected
<1>6. Locks'
  BY <1>2, <1>t DEF BindingsInv, Locks, BindingTypeOK
<1>7. Counts'
  BY <1>2, CountsKept
<1> QED
  BY <1>3, <1>4, <1>5, <1>6, <1>7 DEF BindingsInv

\* No object is made yet.
LEMMA InitBindingsInv ==
    ASSUME BindingInit
    PROVE  BindingsInv
<1>1. BindingTypeOK
  BY DEF BindingInit, BindingTypeOK, NoCall
<1>2. \A h \in Hosts : call[h] = NoCall /\ ~Counted(h) /\ ~Held(h)
  BY DEF BindingInit, NoCall, Counted, Held
<1>3. Kinds /\ Making /\ Locks /\ NativeOnce
  BY DEF BindingInit, Kinds, Making, Locks, NativeOnce, NoCall, Objects, Handles
<1>4. \A h \in Hosts : Shaped(h) /\ Closing(h) /\ Protected(h)
  BY <1>2 DEF Shaped, Closing, Protected, NoCall
<1>5. \A o \in Objects : CallsOn(o) = {}
  BY <1>2 DEF CallsOn
<1>6. Counts
  BY <1>5, FS_EmptySet DEF BindingInit, Counts
<1>7. ObjectsOwnHandles /\ OnlyBareCallsMiss /\ IteratedStreamsFreed
  BY BindingAssumption DEF BindingInit, ObjectsOwnHandles, Open, OnlyBareCallsMiss, IteratedStreamsFreed
<1> QED
  BY <1>1, <1>3, <1>4, <1>6, <1>7 DEF BindingsInv

\* BindingsInv is inductive.
LEMMA BindingStep ==
    ASSUME BindingsInv, [BindingNext]_bindingVars
    PROVE  BindingsInv'
<1>0. ClientObjects \subseteq Objects /\ StreamObjects \subseteq Objects
  BY DEF Objects
<1>1. CASE UNCHANGED bindingVars
  BY <1>1, StreamEndsStep DEF bindingVars
<1>2. ASSUME NEW s \in StreamObjects, StreamEnds(s) PROVE BindingsInv'
  BY <1>2, StreamEndsStep DEF StreamEnds
<1>3. ASSUME NEW h \in Hosts, NEW a \in ClientHandles, NewClientObject(h, a) PROVE BindingsInv'
  BY <1>3, NewClientStep
<1>4. ASSUME NEW h \in Hosts, NEW c \in ClientObjects, BeginOnClient(h, c) PROVE BindingsInv'
  BY <1>0, <1>4, BeginStep DEF BeginOnClient, Operations
<1>5. ASSUME NEW h \in Hosts, NEW s \in StreamObjects, BeginOnStream(h, s) PROVE BindingsInv'
  BY <1>0, <1>5, BeginStep DEF BeginOnStream, Operations
<1>6. ASSUME NEW h \in Hosts, NEW c \in ClientObjects, CloseClient(h, c) PROVE BindingsInv'
  BY <1>0, <1>6, CloseBeginStep DEF CloseClient
<1>7. ASSUME NEW h \in Hosts, NEW s \in StreamObjects, CloseStream(h, s) PROVE BindingsInv'
  BY <1>0, <1>7, CloseBeginStep DEF CloseStream
<1>8. ASSUME NEW h \in Hosts, NativeCall(h) PROVE BindingsInv'
  BY <1>8, AdvanceStep DEF NativeCall
<1>9. ASSUME NEW h \in Hosts, NativeCancel(h) PROVE BindingsInv'
  BY <1>9, AdvanceStep DEF NativeCancel
<1>10. ASSUME NEW h \in Hosts, CloseCancel(h) PROVE BindingsInv'
  <2>1. native[call[h].at] = call[h].on
    BY <1>10 DEF CloseCancel, BindingsInv, Closing
  <2> QED
    BY <1>10, <2>1, AdvanceStep DEF CloseCancel
<1>11. ASSUME NEW h \in Hosts, CloseClear(h) PROVE BindingsInv'
  <2>1. call[h].op = "close"
    BY <1>11 DEF CloseClear, BindingsInv, Shaped, NoCall
  <2> QED
    BY <1>11, <2>1, CloseEnds DEF CloseClear
<1> QED
  BY <1>1, <1>2, <1>3, <1>4, <1>5, <1>6, <1>7, <1>8, <1>9, <1>10, <1>11, StartStep, LeaveStep,
     CloseFreeStep
  DEF BindingNext, HostStep

\* In every binding, whatever calls, closes, iterators and reused addresses
\* interleave: an open object owns the live native handle that was made for it,
\* none is freed twice or leaked, only a call that neither counts itself nor holds
\* the lock can be taken for one on another object, and a stream that an iterator
\* made is freed.
THEOREM BindingsStaySound ==
    BindingSpec => []BindingsSound
<1>1. BindingInit => BindingsInv
  BY InitBindingsInv
<1>2. BindingsInv /\ [BindingNext]_bindingVars => BindingsInv'
  BY BindingStep
<1>3. BindingsInv => BindingsSound
  BY DEF BindingsInv, Protected, Counted, CountedStayOpen, BindingsSound
<1> QED
  BY <1>1, <1>2, <1>3, PTL DEF BindingSpec

\* The variables of the bindings keep their types.
THEOREM BindingTypesKept ==
    BindingSpec => []BindingTypeOK
<1>1. BindingInit => BindingsInv
  BY InitBindingsInv
<1>2. BindingsInv /\ [BindingNext]_bindingVars => BindingsInv'
  BY BindingStep
<1>3. BindingsInv => BindingTypeOK
  BY DEF BindingsInv
<1> QED
  BY <1>1, <1>2, <1>3, PTL DEF BindingSpec
=============================================================================
