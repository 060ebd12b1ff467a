----------------------------- MODULE FfiStreams -----------------------------
(***************************************************************************)
(* Client and stream handles of the C ABI: creation, the stream task and   *)
(* its event queue, stream_next, stream_cancel, stream_free and sdk_free,  *)
(* called from several host threads at once.                               *)
(*                                                                         *)
(* A handle is the address of a Box.  The registries hold the addresses of *)
(* live handles; a thread dereferences an address only under the registry  *)
(* lock, and an address may be allocated again once its Box is dropped.    *)
(* Hosts may call with an address that is no longer live: the calls are    *)
(* made to answer that with invalid_client or invalid_stream, which leaves *)
(* every handle alone and is not a step here.                              *)
(*                                                                         *)
(* A step is one critical section of a registry, the join slot or the      *)
(* stream state, or one atomic operation.  Forked processes are left out.  *)
(***************************************************************************)
EXTENDS Naturals, Sequences, FiniteSets

CONSTANTS
    Threads,       \* host threads inside the C ABI
    ClientAddrs,   \* addresses the allocator gives client Boxes
    StreamAddrs,   \* addresses the allocator gives stream Boxes
    ReportsUsage,  \* whether providers report usage: a subset of BOOLEAN
    \* Bounds of the model, not of the code.
    MaxClients,    \* clients created
    MaxStreams,    \* streams started
    MaxChunks      \* chunk events per stream

ASSUME FfiAssumption ==
    /\ IsFiniteSet(Threads)
    /\ ReportsUsage \subseteq BOOLEAN
    /\ MaxClients \in Nat
    /\ MaxStreams \in Nat
    /\ MaxChunks \in Nat

Clients == 1..MaxClients
Streams == 1..MaxStreams
None == 0

VARIABLES
    pc,             \* the critical section each thread enters next
    arg,            \* the address the thread was called with
    mine,           \* the client or stream whose Arcs the thread has cloned
    clientAt,       \* client Boxes: address -> identity of its ClientShared
    liveClients,    \* registry of client handles
    liveOperations, \* ClientShared.live_operations
    streamAt,       \* stream Boxes: address -> identity of its state Arc
    liveStreams,    \* registry of stream handles
    owner,          \* the client a stream was started on, None if not started
    task,           \* where the stream's tokio task is
    aborting,       \* streams whose task was aborted
    join,           \* streams whose JoinHandle is still in its slot
    log,            \* every event pushed to StreamState.events
    read,           \* how many of them stream_next has popped
    terminal,       \* streams with StreamState.terminal
    closed          \* ghost: streams for which stream_next answered "closed"

threadVars == <<pc, arg, mine>>
clientVars == <<clientAt, liveClients, liveOperations>>
handleVars == <<streamAt, liveStreams, owner>>
eventVars == <<log, read, terminal, closed>>
taskVars == <<task, aborting, join>>
vars == <<threadVars, clientVars, handleVars, taskVars, eventVars>>

Sections == {"idle", "spawn", "register", "dropClient",
             "nextSettle", "nextComplete", "next",
             "cancelAbort", "cancelComplete",
             "freeSettle", "freeComplete", "freePending", "freeUnregister",
             "freeCount", "dropStream"}
Running == {"opening", "streaming", "done", "finish"}
Events == {"verdict", "chunk", "usage", "done", "error", "cancelled"}

TypeOK ==
    /\ pc \in [Threads -> Sections]
    /\ arg \in [Threads -> ClientAddrs \cup StreamAddrs \cup {None}]
    /\ mine \in [Threads -> Clients \cup Streams \cup {None}]
    /\ clientAt \in [ClientAddrs -> Clients \cup {None}]
    /\ liveClients \subseteq ClientAddrs
    /\ liveOperations \in [Clients -> 0..MaxStreams]
    /\ streamAt \in [StreamAddrs -> Streams \cup {None}]
    /\ liveStreams \subseteq StreamAddrs
    /\ owner \in [Streams -> Clients \cup {None}]
    /\ task \in [Streams -> Running \cup {"none", "ended", "panicked", "aborted"}]
    /\ aborting \subseteq Streams
    /\ join \subseteq Streams
    /\ log \in [Streams -> Seq(Events)]
    /\ read \in [Streams -> Nat]
    /\ terminal \subseteq Streams
    /\ closed \subseteq Streams

Init ==
    /\ pc = [t \in Threads |-> "idle"]
    /\ arg = [t \in Threads |-> None]
    /\ mine = [t \in Threads |-> None]
    /\ clientAt = [a \in ClientAddrs |-> None]
    /\ liveClients = {}
    /\ liveOperations = [c \in Clients |-> 0]
    /\ streamAt = [a \in StreamAddrs |-> None]
    /\ liveStreams = {}
    /\ owner = [s \in Streams |-> None]
    /\ task = [s \in Streams |-> "none"]
    /\ aborting = {}
    /\ join = {}
    /\ log = [s \in Streams |-> <<>>]
    /\ read = [s \in Streams |-> 0]
    /\ terminal = {}
    /\ closed = {}

-----------------------------------------------------------------------------
(* Pieces of the steps *)

Call(t, a, what, section) ==
    /\ pc' = [pc EXCEPT ![t] = section]
    /\ arg' = [arg EXCEPT ![t] = a]
    /\ mine' = [mine EXCEPT ![t] = what]

Goto(t, section) == pc' = [pc EXCEPT ![t] = section] /\ UNCHANGED <<arg, mine>>

Return(t) == Call(t, None, None, "idle")

\* Fault: events of an aborted task still get in.
PushAlways(s, event) == log' = [log EXCEPT ![s] = Append(@, event)] /\ UNCHANGED terminal

\* push_stream_event, complete_stream and finish_stream.
PushStreamEvent(s, event) ==
    /\ log' = IF s \in terminal THEN log ELSE [log EXCEPT ![s] = Append(@, event)]
    /\ UNCHANGED terminal

CompleteStream(s, event) ==
    /\ log' = IF s \in terminal THEN log ELSE [log EXCEPT ![s] = Append(@, event)]
    /\ terminal' = terminal \cup {s}

FinishStream(s) == terminal' = terminal \cup {s} /\ UNCHANGED log

\* A stream nobody has used yet; identities are given out in order.
NextStream == CHOOSE s \in Streams : owner[s] = None /\ \A r \in Streams : owner[r] = None => s <= r

-----------------------------------------------------------------------------
(* sdk_new and sdk_free *)

Used(c) == \/ \E a \in ClientAddrs : clientAt[a] = c
           \/ \E s \in Streams : owner[s] = c
           \/ \E t \in Threads : pc[t] = "spawn" /\ mine[t] = c

NewClient(t, a) ==
    /\ pc[t] = "idle"
    /\ clientAt[a] = None
    /\ \E c \in Clients :
          /\ ~Used(c)
          /\ clientAt' = [clientAt EXCEPT ![a] = c]
    /\ liveClients' = liveClients \cup {a}
    /\ UNCHANGED <<threadVars, liveOperations, handleVars, taskVars, eventVars>>

\* Fault: live streams are not asked about.
ClientIdleUnchecked(c) == TRUE

ClientIdle(c) == liveOperations[c] = 0

\* The liveness check, the busy check and the removal are under one lock; a
\* thread inside a Tokio runtime context is sent back as busy too.
FreeClient(t, a) ==
    /\ pc[t] = "idle"
    /\ a \in liveClients
    /\ ClientIdle(clientAt[a])
    /\ liveClients' = liveClients \ {a}
    /\ Call(t, a, clientAt[a], "dropClient")
    /\ UNCHANGED <<clientAt, liveOperations, handleVars, taskVars, eventVars>>

DropClient(t) ==
    /\ pc[t] = "dropClient"
    /\ clientAt' = [clientAt EXCEPT ![arg[t]] = None]
    /\ Return(t)
    /\ UNCHANGED <<liveClients, liveOperations, handleVars, taskVars, eventVars>>

-----------------------------------------------------------------------------
(* chat_stream_start *)

\* client_shared
StartStream(t, a) ==
    /\ pc[t] = "idle"
    /\ a \in liveClients
    /\ Call(t, a, clientAt[a], "spawn")
    /\ UNCHANGED <<clientVars, handleVars, taskVars, eventVars>>

\* Fault: the handle is not looked at again.
StillTheClientUnchecked(t) == TRUE

\* The request has been parsed in between: the address must still be a live
\* handle, and of the same client.
StillTheClient(t) == arg[t] \in liveClients /\ clientAt[arg[t]] = mine[t]

SpawnStream(t) ==
    /\ pc[t] = "spawn"
    /\ \E s \in Streams : owner[s] = None
    /\ \/ /\ StillTheClient(t)
          /\ liveOperations' = [liveOperations EXCEPT ![mine[t]] = @ + 1]
          /\ owner' = [owner EXCEPT ![NextStream] = mine[t]]
          /\ task' = [task EXCEPT ![NextStream] = "opening"]
          /\ join' = join \cup {NextStream}
          /\ \E a \in StreamAddrs :
                /\ streamAt[a] = None
                /\ streamAt' = [streamAt EXCEPT ![a] = NextStream]
                /\ Call(t, a, NextStream, "register")
       \/ /\ ~StillTheClient(t)
          /\ Return(t)
          /\ UNCHANGED <<liveOperations, owner, task, join, streamAt>>
    /\ UNCHANGED <<clientAt, liveClients, liveStreams, aborting, eventVars>>

RegisterStream(t) ==
    /\ pc[t] = "register"
    /\ liveStreams' = liveStreams \cup {arg[t]}
    /\ Return(t)
    /\ UNCHANGED <<clientVars, streamAt, owner, taskVars, eventVars>>

-----------------------------------------------------------------------------
(* The stream task: spawn_stream and stream_events *)

Task(s, from, to) == task[s] = from /\ task' = [task EXCEPT ![s] = to]

taskLeaves == <<threadVars, clientVars, handleVars, aborting, join, read, closed>>

\* The request fails, its verdict cannot be serialized, or claims a receipt.
OpenFails(s) ==
    /\ Task(s, "opening", "finish")
    /\ CompleteStream(s, "error")
    /\ UNCHANGED taskLeaves

Opened(s) ==
    /\ Task(s, "opening", "streaming")
    /\ PushStreamEvent(s, "verdict")
    /\ UNCHANGED taskLeaves

Chunks(s) == Cardinality({i \in DOMAIN log[s] : log[s][i] = "chunk"})

Chunk(s) ==
    /\ Task(s, "streaming", "streaming")
    /\ Chunks(s) < MaxChunks
    /\ PushStreamEvent(s, "chunk")
    /\ UNCHANGED taskLeaves

ChunkFails(s) ==
    /\ Task(s, "streaming", "finish")
    /\ CompleteStream(s, "error")
    /\ UNCHANGED taskLeaves

\* The body ended; the provider may or may not have reported usage.
BodyEnds(s) ==
    /\ Task(s, "streaming", "done")
    /\ \E usage \in ReportsUsage :
          IF usage THEN PushStreamEvent(s, "usage") ELSE UNCHANGED <<log, terminal>>
    /\ UNCHANGED taskLeaves

Done(s) ==
    /\ Task(s, "done", "finish")
    /\ PushStreamEvent(s, "done")
    /\ UNCHANGED taskLeaves

Finish(s) ==
    /\ Task(s, "finish", "ended")
    /\ FinishStream(s)
    /\ UNCHANGED taskLeaves

\* An abort takes effect at an await: none is left once the body has ended.
Abort(s) ==
    /\ s \in aborting
    /\ Task(s, task[s], "aborted") /\ task[s] \in {"opening", "streaming"}
    /\ UNCHANGED <<taskLeaves, log, terminal>>

Panic(s) ==
    /\ Task(s, task[s], "panicked") /\ task[s] \in {"opening", "streaming"}
    /\ UNCHANGED <<taskLeaves, log, terminal>>

TaskStep(s) == \/ OpenFails(s) \/ Opened(s) \/ Chunk(s) \/ ChunkFails(s)
               \/ BodyEnds(s) \/ Done(s) \/ Finish(s) \/ Abort(s)

-----------------------------------------------------------------------------
(* settle_finished_stream_task, on behalf of stream_next and stream_free *)

IsFinished(s) == task[s] \in {"ended", "panicked", "aborted"}

\* The join slot: whoever finds the task finished takes the handle, once.
Settle(t, from, complete, skip) ==
    LET s == mine[t]
    IN  /\ pc[t] = from
        /\ \/ /\ s \in join /\ IsFinished(s)
              /\ join' = join \ {s}
              /\ Goto(t, complete)
           \/ /\ ~(s \in join /\ IsFinished(s))
              /\ Goto(t, skip)
              /\ UNCHANGED join
        /\ UNCHANGED <<clientVars, handleVars, task, aborting, eventVars>>

\* Fault: a task that failed is not reported.
SettleForgets(s) == UNCHANGED <<log, terminal>>

\* A finished task that left the stream pending panicked or was aborted: its
\* stream is ended for it, with an error also if the caller is itself inside a
\* Tokio runtime context and cannot join the task.
SettleOutcome(s) ==
    IF s \in terminal \/ task[s] = "ended" THEN UNCHANGED <<log, terminal>>
    ELSE \E event \in IF task[s] = "aborted" THEN {"cancelled", "error"} ELSE {"error"} :
            CompleteStream(s, event)

SettleComplete(t, from, then) ==
    /\ pc[t] = from
    /\ SettleOutcome(mine[t])
    /\ Goto(t, then)
    /\ UNCHANGED <<clientVars, handleVars, taskVars, read, closed>>

-----------------------------------------------------------------------------
(* stream_next *)

\* stream_parts: the Arcs are cloned under the registry lock.
StreamParts(t, a, section) ==
    /\ pc[t] = "idle"
    /\ a \in liveStreams
    /\ Call(t, a, streamAt[a], section)
    /\ UNCHANGED <<clientVars, handleVars, taskVars, eventVars>>

\* Fault: a terminal stream is closed without draining it.
ClosedWhenTerminal(s) == s \in terminal

ClosedNow(s) == s \in terminal /\ read[s] = Len(log[s])

\* An event, "closed", or after the timeout (at once for zero) "pending".
NextStreamEvent(t) ==
    LET s == mine[t]
    IN  /\ pc[t] = "next"
        /\ \/ ClosedNow(s) /\ closed' = closed \cup {s} /\ UNCHANGED read
           \/ ~ClosedNow(s) /\ read[s] < Len(log[s])
              /\ read' = [read EXCEPT ![s] = @ + 1] /\ UNCHANGED closed
           \/ ~ClosedNow(s) /\ read[s] = Len(log[s]) /\ UNCHANGED <<read, closed>>
        /\ Return(t)
        /\ UNCHANGED <<clientVars, handleVars, taskVars, log, terminal>>

-----------------------------------------------------------------------------
(* stream_cancel *)

CancelAbort(t) ==
    /\ pc[t] = "cancelAbort"
    /\ aborting' = IF mine[t] \in join THEN aborting \cup {mine[t]} ELSE aborting
    /\ join' = join \ {mine[t]}
    /\ Goto(t, "cancelComplete")
    /\ UNCHANGED <<clientVars, handleVars, task, eventVars>>

CancelComplete(t) ==
    /\ pc[t] = "cancelComplete"
    /\ CompleteStream(mine[t], "cancelled")
    /\ Return(t)
    /\ UNCHANGED <<clientVars, handleVars, taskVars, read, closed>>

-----------------------------------------------------------------------------
(* stream_free *)

FreePending(t) ==
    /\ pc[t] = "freePending"
    /\ \/ mine[t] \in terminal /\ Goto(t, "freeUnregister")
       \/ mine[t] \notin terminal /\ Return(t)
    /\ UNCHANGED <<clientVars, handleVars, taskVars, eventVars>>

\* Fault: only the address is looked up again.
StillTheAddress(t) == arg[t] \in liveStreams

\* Fault: the address is not looked up again at all.
StillTheStreamUnchecked(t) == TRUE

\* The lock was released while the task settled: the address must still be a
\* live handle, and of the same stream.
StillTheStream(t) == arg[t] \in liveStreams /\ streamAt[arg[t]] = mine[t]

FreeUnregister(t) ==
    /\ pc[t] = "freeUnregister"
    /\ \/ /\ StillTheStream(t)
          /\ liveStreams' = liveStreams \ {arg[t]}
          /\ Goto(t, "freeCount")
       \/ /\ ~StillTheStream(t)
          /\ Return(t)
          /\ UNCHANGED liveStreams
    /\ UNCHANGED <<clientVars, streamAt, owner, taskVars, eventVars>>

FreeCount(t) ==
    /\ pc[t] = "freeCount"
    /\ liveOperations' = [liveOperations EXCEPT ![owner[mine[t]]] = @ - 1]
    /\ Goto(t, "dropStream")
    /\ UNCHANGED <<clientAt, liveClients, handleVars, taskVars, eventVars>>

DropStream(t) ==
    /\ pc[t] = "dropStream"
    /\ streamAt' = [streamAt EXCEPT ![arg[t]] = None]
    /\ Return(t)
    /\ UNCHANGED <<clientVars, liveStreams, owner, taskVars, eventVars>>

-----------------------------------------------------------------------------
\* A call begins.
Enter(t) ==
    \/ \E a \in ClientAddrs : NewClient(t, a) \/ FreeClient(t, a) \/ StartStream(t, a)
    \/ \E a \in StreamAddrs : \/ StreamParts(t, a, "nextSettle")
                              \/ StreamParts(t, a, "cancelAbort")
                              \/ StreamParts(t, a, "freeSettle")

\* A call goes on.
ThreadStep(t) ==
    \/ DropClient(t)
    \/ SpawnStream(t) \/ RegisterStream(t)
    \/ Settle(t, "nextSettle", "nextComplete", "next")
    \/ SettleComplete(t, "nextComplete", "next")
    \/ NextStreamEvent(t)
    \/ CancelAbort(t) \/ CancelComplete(t)
    \/ Settle(t, "freeSettle", "freeComplete", "freePending")
    \/ SettleComplete(t, "freeComplete", "freePending")
    \/ FreePending(t) \/ FreeUnregister(t) \/ FreeCount(t) \/ DropStream(t)

Next ==
    \/ \E t \in Threads : Enter(t) \/ ThreadStep(t)
    \/ \E s \in Streams : TaskStep(s) \/ Panic(s)

Spec == Init /\ [][Next]_vars

-----------------------------------------------------------------------------
(* Properties *)

Started == {s \in Streams : owner[s] # None}

\* A registered address always has a Box behind it, so no call that finds its
\* argument in a registry dereferences freed memory, whatever frees race; and the
\* Box a free call is about to drop is the one it removed from the registry.
NoDanglingHandle ==
    /\ \A a \in liveClients : clientAt[a] # None
    /\ \A a \in liveStreams : streamAt[a] # None
    /\ \A t \in Threads :
          /\ pc[t] = "dropClient" => clientAt[arg[t]] = mine[t] /\ arg[t] \notin liveClients
          /\ pc[t] \in {"freeCount", "dropStream"} =>
                streamAt[arg[t]] = mine[t] /\ arg[t] \notin liveStreams

\* A stream is freed only after it became terminal, even if the address was
\* freed and given to another stream while the call was settling its task.
OnlyTerminalFreed ==
    \A t \in Threads : pc[t] \in {"freeCount", "dropStream"} => streamAt[arg[t]] \in terminal

\* live_operations counts the started streams whose free has not been counted,
\* and while there is one its client handle is still registered: sdk_free cannot
\* miss a stream that is just being started or freed.
Uncounted(c) == {s \in Started : owner[s] = c /\ \E a \in StreamAddrs : streamAt[a] = s}
                    \ {mine[t] : t \in {t \in Threads : pc[t] = "dropStream"}}

BusyNotMissed ==
    \A c \in Clients :
        /\ liveOperations[c] = Cardinality(Uncounted(c))
        /\ Uncounted(c) # {} => \E a \in liveClients : clientAt[a] = c

\* A stream that is not terminal has somebody who will make it so: its running
\* task, the next stream_next or stream_free that finds the JoinHandle, or a call
\* that has taken the handle and is about to complete the stream.
NoOrphanStream ==
    \A s \in Started \ terminal :
        \/ task[s] \in Running
        \/ s \in join
        \/ \E t \in Threads : /\ mine[t] = s
                              /\ pc[t] \in {"nextComplete", "freeComplete", "cancelComplete"}

\* Where EventStream's stream is: StreamState knows only terminal and the
\* queue, and the last event says the rest.
StageAfter(event) ==
    CASE event = "verdict" -> "body" [] event = "chunk" -> "body"
      [] event = "usage" -> "counted" [] event = "done" -> "done"
      [] OTHER -> "ended"

Stage(s) ==
    IF s \in terminal THEN "ended"
    ELSE IF log[s] = <<>> THEN "opening"
    ELSE StageAfter(log[s][Len(log[s])])

Promise == INSTANCE EventStream WITH
    stage <- [s \in Streams |-> Stage(s)],
    pending <- [s \in Streams |-> SubSeq(log[s], read[s] + 1, Len(log[s]))],
    delivered <- [s \in Streams |-> SubSeq(log[s], 1, read[s])],
    over <- closed

\* The stream task, the settling calls, a racing cancel and any number of
\* concurrent stream_next calls together implement EventStream: verdict, chunks,
\* usage and done in this order, at most one error or cancellation and nothing
\* after it, every event delivered once, and "closed" only at the very end.
ImplementsEventStream == Promise!Spec

\* No call touches a handle that is gone or somebody else's, frees a stream that
\* is still producing, or lets a client go while one of its streams lives.
HandlesSound == NoDanglingHandle /\ OnlyTerminalFreed /\ BusyNotMissed
=============================================================================
