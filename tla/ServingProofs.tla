--------------------------- MODULE ServingProofs ---------------------------
(***************************************************************************)
(* Proofs about the dispatch loop, the local proxy, and the proxy in front *)
(* of the SDK client, for any candidate lists and answers, any number of   *)
(* connections, any limits, configurations and requests.                   *)
(*                                                                         *)
(* RouteDispatch alone: no two dispatches of one request are worked on and *)
(* the reported outcome is honest.  The inductive invariant ties the ghost *)
(* count of dispatches that may have been worked on to what the loop does  *)
(* next.                                                                   *)
(*                                                                         *)
(* Proxy alone: a request reaches handle whole and within the limits, the  *)
(* answer never hides work a provider did, and only an admissible request  *)
(* is forwarded.  The inductive invariant says of every connection which   *)
(* fields its phase lets it hold, and that no connection exists before the *)
(* configuration was validated.                                            *)
(*                                                                         *)
(* The composition: whatever RouteDispatch does with a forwarded chat, the *)
(* step it ends with is a step of Proxy, so that the three results carry   *)
(* over to it.                                                             *)
(***************************************************************************)
EXTENDS Serving, TLAPS

-----------------------------------------------------------------------------
(* The dispatch loop alone *)

\* Once a dispatch may have been worked on, the loop has stopped with an answer or
\* with an error that forbids another route.
WorkStops ==
    /\ worked \in {0, 1}
    /\ worked = 1 => /\ step = "done"
                     /\ result = "ok" \/ ~AllowsRouteFallback(DispatchOutcome(result))

\* An answer a provider may have worked for never leads to another route.
LEMMA WorkForbidsFallback ==
    \A answer \in {"Http", "Adapter", "StatusOther"} :
        ~AllowsRouteFallback(DispatchOutcome(ChatDispatchOutcome(answer)))
  BY DEF ChatDispatchOutcome, DispatchOutcome, AllowsRouteFallback, Outcomes

\* Nor does a response that was thrown away.
LEMMA DiscardForbidsFallback ==
    ~AllowsRouteFallback(DispatchOutcome("ResponseVerificationFailed"))
  BY DEF DispatchOutcome, AllowsRouteFallback, Outcomes

\* Every step keeps it.
LEMMA WorkStopsStep == WorkStops /\ [Next]_vars => WorkStops'
<1> SUFFICES ASSUME WorkStops, [Next]_vars PROVE WorkStops'
  OBVIOUS
<1>1. CASE UNCHANGED vars
  BY <1>1 DEF vars, WorkStops, AllowsRouteFallback, DispatchOutcome
<1>2. CASE worked' = worked /\ step # "done"
  BY <1>2 DEF WorkStops
<1>3. CASE Answered
  <2>1. worked' = 1 /\ step # "done"
    BY <1>3 DEF Answered, WorkStops
  <2>2. step' = "done" /\ result' \in {"ok", "ResponseVerificationFailed"}
    BY <1>3, DiscardForbidsFallback DEF Answered, Finish, AfterDispatchFailure
  <2> QED
    BY <2>1, <2>2, DiscardForbidsFallback DEF WorkStops
<1>4. ASSUME NEW answer \in Answers, AdapterFails(answer) PROVE WorkStops'
  <2>1. worked = 0 /\ step = "dispatch"
    BY <1>4 DEF AdapterFails, WorkStops
  <2>2. CASE worked' = worked
    BY <2>1, <2>2 DEF WorkStops
  <2>3. CASE worked' # worked
    <3>1. worked' = 1 /\ answer \in {"Http", "Adapter", "StatusOther"}
      BY <1>4, <2>1, <2>3 DEF AdapterFails
    <3>2. step' = "done" /\ result' = ChatDispatchOutcome(answer)
      BY <1>4, <3>1, WorkForbidsFallback
         DEF AdapterFails, RetryKeyRotation, AfterDispatchFailure, Finish
    <3> QED
      BY <3>1, <3>2, WorkForbidsFallback DEF WorkStops
  <2> QED
    BY <2>2, <2>3
<1>5. CASE NoStreamingRoute \/ SkipUnavailable \/ TryRoute \/ CandidatesExhausted
  BY <1>2, <1>5 DEF NoStreamingRoute, SkipUnavailable, TryRoute, CandidatesExhausted
<1>6. CASE VerificationOk \/ VerificationFails \/ PreflightFails
           \/ InconsistentVerdictBeforeStream \/ RefreshOk \/ RefreshFails
  BY <1>2, <1>6 DEF VerificationOk, VerificationFails, PreflightFails,
                    InconsistentVerdictBeforeStream, RefreshOk, RefreshFails
<1> QED
  BY <1>1, <1>3, <1>4, <1>5, <1>6 DEF Next, Dispatch

\* WorkStops holds throughout.
THEOREM Inductive == Spec => []WorkStops
<1>1. Init => WorkStops
  BY DEF Init, WorkStops
<1> QED
  BY <1>1, WorkStopsStep, PTL DEF Spec

\* At most one dispatch of a request is ever worked on, and then the loop is over.
THEOREM NoReplay == Spec => []NeverReplayed
<1>1. WorkStops => NeverReplayed
  BY DEF WorkStops, NeverReplayed
<1> QED
  BY Inductive, <1>1, PTL

\* An error that allows a fallback is reported only if no provider did any work.
THEOREM HonestOutcome == Spec => []OutcomeIsHonest
<1>1. WorkStops => OutcomeIsHonest
  BY DEF WorkStops, OutcomeIsHonest
<1> QED
  BY Inductive, <1>1, PTL

-----------------------------------------------------------------------------
(* The proxy *)

\* A connection is a record of these fields.
ConnType ==
    [phase : Phases, header : HeaderLengths \cup {0},
     length : ContentLengths \cup {0}, got : Nat,
     request : RequestType \cup {NoRequest}, origin : BOOLEAN,
     executed : BOOLEAN, forwarded : BOOLEAN,
     response : ResponseType \cup {NoResponse}]

\* What a connection may hold in each phase, given whether an embedding or the
\* built-in server made it.
Reads(x) ==
    /\ x.phase = "header" => x.got < MaxHeaderBytes + ChunkBytes
    /\ x.phase = "body" => x.length <= MaxBodyBytes

Holds(x, srv) ==
    /\ x.phase \in {"handle", "calling"} <=> x.request # NoRequest
    /\ x.phase \in {"handle", "calling"} /\ srv # "embedded" =>
          x.got = x.length /\ x.length <= MaxBodyBytes
    /\ x.phase = "none" => x.got = 0

Says(x) ==
    /\ x.response # NoResponse <=> x.phase = "writing"
    /\ x.forwarded => x.phase \in {"calling", "writing"}
    /\ x.executed => x.phase = "writing"
    /\ x.phase = "writing" =>
          /\ x.executed => /\ x.response.status \in {200, 500, 502}
                           /\ x.response.dispatch # "not_dispatched"
          /\ x.forwarded => x.response.status # 408

ConnOK(x, srv) == x \in ConnType /\ Reads(x) /\ Holds(x, srv) /\ Says(x)

\* Nothing is served before the configuration is validated.
Validated ==
    /\ server \notin {"new", "refused"} => Validate(config)
    /\ \A c \in Conns : conn[c].phase # "none" => Validate(config)

ProxyInv ==
    /\ config \in ConfigType
    /\ server \in {"new", "refused", "embedded", "running", "pausing", "stopped", "failed"}
    /\ shutdown \in BOOLEAN
    /\ conn \in [Conns -> ConnType]
    /\ \A c \in Conns : ConnOK(conn[c], server)
    /\ Validated

-----------------------------------------------------------------------------
(* One connection at a time *)

\* A connection that was not accepted holds nothing, and neither does a closed one.
LEMMA IdleOK ==
    \A srv : ConnOK(Idle, srv) /\ ConnOK([Idle EXCEPT !.phase = "closed"], srv)
  BY LimitsAssumption, PeersAssumption
     DEF ConnOK, ConnType, Idle, Reads, Holds, Says, Phases

\* The record of a connection that the proxy answers by itself.
Answering(x, response) ==
    [x EXCEPT !.phase = "writing", !.response = response, !.request = NoRequest,
              !.got = 0, !.header = 0, !.length = 0]

\* Its fields.
LEMMA AnsweringFields ==
    ASSUME NEW x \in ConnType, NEW response \in ResponseType
    PROVE  LET y == Answering(x, response) IN
           /\ y \in ConnType
           /\ y.phase = "writing" /\ y.response = response /\ y.request = NoRequest
           /\ y.executed = x.executed /\ y.forwarded = x.forwarded
<1> DEFINE a == [x EXCEPT !.phase = "writing", !.response = response]
           b == [a EXCEPT !.request = NoRequest, !.got = 0]
<1>1. /\ a \in ConnType /\ a.phase = "writing" /\ a.response = response
      /\ a.executed = x.executed /\ a.forwarded = x.forwarded
  BY DEF ConnType, Phases
<1> HIDE DEF a
<1>2. /\ b \in ConnType /\ b.phase = "writing" /\ b.response = response
      /\ b.request = NoRequest
      /\ b.executed = x.executed /\ b.forwarded = x.forwarded
  BY <1>1 DEF ConnType
<1>3. Answering(x, response) = [b EXCEPT !.header = 0, !.length = 0]
  BY DEF Answering, a
<1> HIDE DEF b
<1> QED
  BY <1>2, <1>3 DEF ConnType

\* The record of a connection whose call came back.
Returning(x, response, executed) ==
    [x EXCEPT !.phase = "writing", !.request = NoRequest, !.response = response,
              !.executed = executed]

\* Its fields.
LEMMA ReturningFields ==
    ASSUME NEW x \in ConnType, NEW response \in ResponseType, NEW executed \in BOOLEAN
    PROVE  LET y == Returning(x, response, executed) IN
           /\ y \in ConnType
           /\ y.phase = "writing" /\ y.request = NoRequest /\ y.response = response
           /\ y.executed = executed
<1> DEFINE a == [x EXCEPT !.phase = "writing", !.request = NoRequest]
<1>1. a \in ConnType /\ a.phase = "writing" /\ a.request = NoRequest
  BY DEF ConnType, Phases
<1>2. Returning(x, response, executed) = [a EXCEPT !.response = response, !.executed = executed]
  BY DEF Returning
<1> HIDE DEF a
<1> QED
  BY <1>1, <1>2 DEF ConnType

\* It ends a connection that did not forward.
LEMMA AnswerOK ==
    ASSUME NEW x \in ConnType, NEW srv, ConnOK(x, srv),
           x.phase \in {"header", "body", "handle"},
           NEW status \in {200, 204, 400, 401, 403, 404, 405, 408, 415}, NEW o \in BOOLEAN
    PROVE  ConnOK(Answering(x, Plain(status, o)), srv)
<1>1. Plain(status, o) \in ResponseType
  BY DEF Plain, ResponseType
<1>2. ~x.executed /\ ~x.forwarded
  BY DEF ConnOK, Says
<1> QED
  BY <1>1, <1>2, AnsweringFields, PeersAssumption DEF ConnOK, Reads, Holds, Says

\* What handle answers with.
LEMMA HandleStatus ==
    ASSUME NEW c \in ConfigType, NEW r \in RequestType
    PROVE  Handle(c, r) \in {Forward, 200, 204, 400, 401, 403, 404, 405, 415}
<1>1. Routed(r) \in {Forward, 200, 400, 404, 405}
  BY DEF Routed, RequestType, Forward
<1>2. HandleCorsPreflight(r) \in {405, 403, 204}
  BY DEF HandleCorsPreflight, RequestType
<1> QED
  BY <1>1, <1>2 DEF Handle

\* The gates and the start-up checks together admit only what they should.
LEMMA GatesAdmit ==
    ASSUME NEW c \in ConfigType, NEW r \in RequestType, Validate(c), Handle(c, r) = Forward
    PROVE  Admissible(c, r)
<1>1. HandleCorsPreflight(r) # Forward
  BY DEF HandleCorsPreflight, RequestType, Forward
<1>2. /\ ~CorsOriginError(c, r) /\ ~HostHeaderError(c, r)
      /\ ~ContentTypeError(r) /\ ~AuthorizationError(c, r)
  BY <1>1 DEF Handle, Forward
<1> QED
  BY <1>2 DEF Admissible, Validate, RequiresAuthentication, ProtectsNonLoopback,
              CorsOriginError, CorsAllowedOrigin, HostHeaderError, ContentTypeError,
              AuthorizationError, ConfigType, RequestType

\* An error that leaves open whether the provider did work is never reported as
\* the caller's fault.
LEMMA CallErrorOK ==
    ASSUME NEW e \in CallErrors, NEW o \in BOOLEAN
    PROVE  /\ ClientErrorResponse(e, o) \in ResponseType
           /\ ClientErrorResponse(e, o).dispatch = e.dispatch
           /\ ClientErrorResponse(e, o).status # 408
           /\ e.dispatch # "not_dispatched" =>
                 ClientErrorResponse(e, o).status \in {500, 502}
  BY DEF CallErrors, ClientErrorResponse, ClientErrorStatus, ResponseType

-----------------------------------------------------------------------------
(* The steps of the proxy *)

\* At the start nothing has been accepted.
LEMMA ProxyStarts == ProxyInit => ProxyInv
<1> SUFFICES ASSUME ProxyInit PROVE ProxyInv
  OBVIOUS
<1>1. /\ config \in ConfigType /\ server = "new" /\ shutdown = FALSE
      /\ \A c \in Conns : conn[c] = Idle
      /\ conn = [c \in Conns |-> Idle]
  BY PeersAssumption DEF ProxyInit
<1>2. Idle \in ConnType /\ Idle.phase = "none"
  BY IdleOK DEF ConnOK, Idle
<1> QED
  BY <1>1, <1>2, IdleOK DEF ProxyInv, Validated

\* A step of the accept loop touches no connection, and serves only a validated
\* configuration.
LEMMA LoopStep ==
    ASSUME ProxyInv, Start \/ AcceptFails \/ PauseEnds \/ RequestShutdown \/ Stop
    PROVE  ProxyInv'
<1>1. config' = config /\ conn' = conn /\ shutdown' \in BOOLEAN
  BY DEF ProxyInv, Start, AcceptFails, PauseEnds, RequestShutdown, Stop
<1>2. /\ server' \in {"new", "refused", "embedded", "running", "pausing", "stopped", "failed"}
      /\ server' \notin {"new", "refused"} => Validate(config)
  BY DEF ProxyInv, Validated, Start, AcceptFails, PauseEnds, RequestShutdown, Stop
<1>3. server' # "embedded" => server # "embedded"
  BY DEF Start, AcceptFails, PauseEnds, RequestShutdown, Stop
<1>4. \A c \in Conns : ConnOK(conn'[c], server')
  BY <1>1, <1>3 DEF ProxyInv, ConnOK, Holds
<1> QED
  BY <1>1, <1>2, <1>4 DEF ProxyInv, Validated, Validate

\* A step of one connection: its new record, the others and the server as before.
LEMMA FrameStep ==
    ASSUME ProxyInv, NEW c \in Conns, NEW y \in ConnType,
           conn' = [conn EXCEPT ![c] = y], UNCHANGED <<config, server, shutdown>>,
           ConnOK(y, server),
           conn[c].phase # "none" \/ server \in {"running", "embedded"}
    PROVE  ProxyInv'
<1>1. conn' \in [Conns -> ConnType] /\ \A d \in Conns : conn'[d] = IF d = c THEN y ELSE conn[d]
  BY DEF ProxyInv
<1>2. \A d \in Conns : ConnOK(conn'[d], server')
  BY <1>1 DEF ProxyInv
<1>3. Validate(config)
  BY DEF ProxyInv, Validated
<1> QED
  BY <1>1, <1>2, <1>3 DEF ProxyInv, Validated, Validate

\* A connection is accepted, or handed over by an embedding.
LEMMA NewConnection ==
    ASSUME ProxyInv, NEW c \in Conns, NEW x, x = conn[c], Accept(c) \/ Embed(c)
    PROVE  ProxyInv'
<1>1. x \in ConnType /\ ConnOK(x, server) /\ x.phase = "none"
  BY DEF ProxyInv, Accept, Embed
<1>2. /\ x.got = 0 /\ x.request = NoRequest /\ ~x.executed /\ ~x.forwarded
      /\ x.response = NoResponse
  BY <1>1 DEF ConnOK, ConnType, Holds, Says
<1>3. CASE Accept(c)
  <2>1. PICK h \in HeaderLengths, n \in ContentLengths :
          conn' = [conn EXCEPT ![c] = [x EXCEPT !.phase = "header", !.header = h,
                                                !.length = n]]
    BY <1>3 DEF Accept, ProxyInv
  <2> DEFINE y == [x EXCEPT !.phase = "header", !.header = h, !.length = n]
  <2>2. y \in ConnType
    BY <1>1 DEF ConnType, Phases
  <2>3. /\ y.phase = "header" /\ y.got = 0 /\ y.request = NoRequest /\ ~y.executed
        /\ ~y.forwarded /\ y.response = NoResponse
    BY <1>1, <1>2 DEF ConnType
  <2>4. conn' = [conn EXCEPT ![c] = y]
    BY <2>1
  <2> HIDE DEF y
  <2>5. ConnOK(y, server)
    BY <2>2, <2>3, LimitsAssumption DEF ConnOK, Reads, Holds, Says
  <2> QED
    BY <1>3, <2>2, <2>4, <2>5, FrameStep DEF Accept
<1>4. CASE Embed(c)
  <2>1. PICK r \in Requests[c] :
          conn' = [conn EXCEPT ![c] = [x EXCEPT !.phase = "handle", !.request = r]]
    BY <1>4 DEF Embed, ProxyInv
  <2> DEFINE y == [x EXCEPT !.phase = "handle", !.request = r]
  <2>2. r \in RequestType /\ r # NoRequest
    BY PeersAssumption
  <2>3. y \in ConnType
    BY <1>1, <2>2 DEF ConnType, Phases
  <2>4. /\ y.phase = "handle" /\ y.request = r /\ ~y.executed
        /\ ~y.forwarded /\ y.response = NoResponse
    BY <1>1, <1>2 DEF ConnType
  <2>5. conn' = [conn EXCEPT ![c] = y] /\ server = "embedded"
    BY <1>4, <2>1 DEF Embed
  <2> HIDE DEF y
  <2>6. ConnOK(y, server)
    BY <2>2, <2>3, <2>4, <2>5 DEF ConnOK, Reads, Holds, Says
  <2> QED
    BY <1>4, <2>3, <2>5, <2>6, FrameStep DEF Embed
<1> QED
  BY <1>3, <1>4

\* Reading: one more piece of the header or of the body, the end of the header,
\* the end of the body.
LEMMA ReadStep ==
    ASSUME ProxyInv, NEW c \in Conns, NEW x, x = conn[c],
           ReadHeader(c) \/ ParseHeader(c) \/ ReadBody(c) \/ BodyComplete(c)
    PROVE  ProxyInv'
<1>1. /\ x \in ConnType /\ ConnOK(x, server)
      /\ x.phase \in {"header", "body"}
  BY DEF ProxyInv, ReadHeader, ParseHeader, ReadBody, BodyComplete
<1>2. /\ x.request = NoRequest /\ ~x.executed /\ ~x.forwarded /\ x.response = NoResponse
  BY <1>1 DEF ConnOK, ConnType, Holds, Says
<1>0. x.got \in Nat /\ x.length \in Nat /\ x.header \in Nat
  <2>1. ContentLengths \cup {0} \subseteq Nat /\ HeaderLengths \cup {0} \subseteq Nat
    BY LimitsAssumption
  <2> QED
    BY <1>1, <2>1 DEF ConnType
<1>3. CASE ReadHeader(c)
  <2>1. PICK n \in 1..ChunkBytes :
          conn' = [conn EXCEPT ![c] = [x EXCEPT !.got = @ + n]]
    BY <1>3 DEF ReadHeader, ProxyInv
  <2> DEFINE y == [x EXCEPT !.got = @ + n]
  <2>2. y \in ConnType /\ conn' = [conn EXCEPT ![c] = y]
    BY <1>1, <1>0, <1>2, <2>1, LimitsAssumption DEF ConnType
  <2>3. /\ y.phase = "header" /\ y.got = x.got + n /\ y.request = NoRequest /\ ~y.executed
        /\ ~y.forwarded /\ y.response = NoResponse
    BY <1>1, <1>0, <1>2, <1>3 DEF ConnType, ReadHeader
  <2>4. x.got < MaxHeaderBytes
    BY <1>0, <1>2, <1>3, LimitsAssumption DEF ReadHeader, HeaderAtLimit
  <2> HIDE DEF y
  <2>5. ConnOK(y, server)
    <3>1. Reads(y)
      BY <1>0, <1>2, <2>3, <2>4, LimitsAssumption DEF Reads
    <3> QED
      BY <2>2, <2>3, <3>1 DEF ConnOK, Holds, Says
  <2> QED
    BY <1>3, <2>2, <2>5, FrameStep DEF ReadHeader
<1>4. CASE ParseHeader(c)
  <2> DEFINE y == [x EXCEPT !.phase = "body", !.header = 0, !.got = x.got - x.header]
  <2>1. conn' = [conn EXCEPT ![c] = y]
    BY <1>4 DEF ParseHeader
  <2>2. x.got - x.header \in Nat
    BY <1>0, <1>2, <1>4 DEF ParseHeader, HeaderComplete
  <2>3. y \in ConnType
    BY <1>1, <2>2 DEF ConnType, Phases
  <2>4. /\ y.phase = "body" /\ y.length = x.length /\ y.request = NoRequest /\ ~y.executed
        /\ ~y.forwarded /\ y.response = NoResponse
    BY <1>1, <1>2 DEF ConnType
  <2>5. x.length <= MaxBodyBytes
    BY <1>4 DEF ParseHeader
  <2> HIDE DEF y
  <2>6. ConnOK(y, server)
    BY <2>3, <2>4, <2>5 DEF ConnOK, Reads, Holds, Says
  <2> QED
    BY <1>1, <1>4, <2>1, <2>3, <2>6, FrameStep DEF ParseHeader
<1>5. CASE ReadBody(c)
  <2>1. PICK n \in 1..Min2(x.length - x.got, BodyChunkBytes) :
          conn' = [conn EXCEPT ![c] = [x EXCEPT !.got = @ + n]]
    BY <1>5 DEF ReadBody, ProxyInv
  <2> DEFINE y == [x EXCEPT !.got = @ + n]
  <2>2. Min2(x.length - x.got, BodyChunkBytes) \in Nat
    BY <1>0, <1>2, <1>5, LimitsAssumption DEF Min2, ReadBody
  <2>3. x.got + n \in Nat
    BY <1>0, <1>2, <2>2
  <2>4. y \in ConnType /\ conn' = [conn EXCEPT ![c] = y]
    BY <1>1, <2>1, <2>3 DEF ConnType
  <2>5. /\ y.phase = "body" /\ y.length = x.length /\ y.request = NoRequest /\ ~y.executed
        /\ ~y.forwarded /\ y.response = NoResponse
    BY <1>1, <1>0, <1>2, <1>5 DEF ConnType, ReadBody
  <2>6. x.length <= MaxBodyBytes
    BY <1>1, <1>5 DEF ReadBody, ConnOK, Reads
  <2> HIDE DEF y
  <2>7. ConnOK(y, server)
    BY <2>4, <2>5, <2>6 DEF ConnOK, Reads, Holds, Says
  <2> QED
    BY <1>5, <2>4, <2>7, FrameStep DEF ReadBody
<1>6. CASE BodyComplete(c)
  <2>1. PICK r \in Requests[c] :
          conn' = [conn EXCEPT ![c] = [x EXCEPT !.phase = "handle", !.request = r,
                                                !.got = x.length]]
    BY <1>6 DEF BodyComplete, ProxyInv
  <2> DEFINE y == [x EXCEPT !.phase = "handle", !.request = r, !.got = x.length]
  <2>2. r \in RequestType /\ r # NoRequest
    BY PeersAssumption
  <2>3. y \in ConnType /\ conn' = [conn EXCEPT ![c] = y]
    BY <1>1, <1>0, <1>2, <2>1, <2>2 DEF ConnType, Phases
  <2>4. /\ y.phase = "handle" /\ y.length = x.length /\ y.got = x.length /\ y.request = r
        /\ ~y.executed /\ ~y.forwarded /\ y.response = NoResponse
    BY <1>1, <1>2 DEF ConnType
  <2>5. x.length <= MaxBodyBytes
    BY <1>1, <1>6 DEF BodyComplete, ConnOK, Reads
  <2> HIDE DEF y
  <2>6. ConnOK(y, server)
    BY <2>2, <2>3, <2>4, <2>5 DEF ConnOK, Reads, Holds, Says
  <2> QED
    BY <1>6, <2>3, <2>6, FrameStep DEF BodyComplete
<1> QED
  BY <1>3, <1>4, <1>5, <1>6

\* The proxy answers by itself: the header is too long or malformed, the peer
\* closes, the read times out.
LEMMA RefuseStep ==
    ASSUME ProxyInv, NEW c \in Conns, NEW x, x = conn[c],
           HeaderTooLong(c) \/ ParseFails(c) \/ PeerCloses(c) \/ Timeout(c)
    PROVE  ProxyInv'
<1>1. /\ x \in ConnType /\ ConnOK(x, server) /\ x.phase \in {"header", "body"}
      /\ UNCHANGED <<config, server, shutdown>>
  BY DEF ProxyInv, HeaderTooLong, ParseFails, PeerCloses, Timeout, Reading
<1>2. ASSUME NEW status \in {400, 408}, Answer(c, Plain(status, FALSE)) PROVE ProxyInv'
  <2> DEFINE o == FALSE
             y == Answering(x, Plain(status, o))
  <2>1. conn' = [conn EXCEPT ![c] = y] /\ o \in BOOLEAN
    BY <1>2 DEF Answer, Answering
  <2> HIDE DEF o
  <2>2. ConnOK(y, server)
    BY <1>1, <2>1, AnswerOK
  <2> HIDE DEF y
  <2> QED
    BY <1>1, <2>1, <2>2, FrameStep DEF ConnOK
<1>3. ASSUME End(c) PROVE ProxyInv'
  <2> DEFINE y == [Idle EXCEPT !.phase = "closed"]
  <2>1. conn' = [conn EXCEPT ![c] = y] /\ ConnOK(y, server)
    BY <1>3, IdleOK DEF End
  <2> HIDE DEF y
  <2> QED
    BY <1>1, <2>1, FrameStep DEF ConnOK
<1> QED
  BY <1>2, <1>3 DEF HeaderTooLong, ParseFails, PeerCloses, Timeout

\* handle answers a request or passes it to the client.
LEMMA HandleStep ==
    ASSUME ProxyInv, NEW c \in Conns, NEW x, x = conn[c], HandleRequest(c)
    PROVE  ProxyInv'
<1> DEFINE status == Handle(config, x.request)
           o == CorsAllowedOrigin(config, x.request)
<1>1. /\ x \in ConnType /\ ConnOK(x, server) /\ x.phase = "handle"
      /\ UNCHANGED <<config, server, shutdown>>
  BY DEF ProxyInv, HandleRequest
<1>2. /\ x.request \in RequestType /\ x.request # NoRequest /\ config \in ConfigType
      /\ ~x.executed /\ x.response = NoResponse /\ o \in BOOLEAN
  BY <1>1 DEF ConnOK, ConnType, Holds, Says, ProxyInv, CorsAllowedOrigin
<1>3. CASE status = Forward
  <2> DEFINE y == [x EXCEPT !.phase = "calling", !.forwarded = TRUE, !.origin = o]
  <2>1. conn' = [conn EXCEPT ![c] = y]
    BY <1>3 DEF HandleRequest, ProxyInv
  <2>2. y \in ConnType
    BY <1>1, <1>2 DEF ConnType, Phases
  <2>3. /\ y.phase = "calling" /\ y.length = x.length /\ y.got = x.got
        /\ y.request = x.request /\ ~y.executed /\ y.response = NoResponse
    BY <1>1, <1>2 DEF ConnType
  <2> HIDE DEF y
  <2>4. ConnOK(y, server)
    BY <1>1, <1>2, <2>2, <2>3 DEF ConnOK, Reads, Holds, Says
  <2> QED
    BY <1>1, <2>1, <2>2, <2>4, FrameStep
<1>4. CASE status # Forward
  <2> DEFINE y == Answering(x, Plain(status, o))
  <2>1. conn' = [conn EXCEPT ![c] = y]
    BY <1>4 DEF HandleRequest, Answer, Answering
  <2>2. status \in {200, 204, 400, 401, 403, 404, 405, 408, 415}
    BY <1>2, <1>4, HandleStatus
  <2> HIDE DEF o, status
  <2>3. ConnOK(y, server)
    BY <1>1, <1>2, <2>2, AnswerOK
  <2> HIDE DEF y
  <2> QED
    BY <1>1, <2>1, <2>3, FrameStep DEF ConnOK
<1> QED
  BY <1>3, <1>4

\* The client's answer is written back, and the connection ends.
LEMMA ReturnStep ==
    ASSUME ProxyInv, NEW c \in Conns, NEW x, x = conn[c], CallSucceeds(c) \/ CallFails(c) \/ Write(c)
    PROVE  ProxyInv'
<1>1. /\ x \in ConnType /\ ConnOK(x, server)
      /\ x.phase \in {"calling", "writing"} /\ x.origin \in BOOLEAN
      /\ UNCHANGED <<config, server, shutdown>>
  BY DEF ProxyInv, CallSucceeds, CallFails, Write, ConnType
<1>3. CASE CallSucceeds(c)
  <2> DEFINE executed == conn[c].request.route # "attestation"
  <2>1. PICK status \in {200} \cup (IF conn[c].request.route = "chat" THEN {500} ELSE {}) :
          conn' = [conn EXCEPT ![c] = Returning(conn[c], Plain(status, conn[c].origin), executed)]
    BY <1>3 DEF CallSucceeds, Returning
  <2> DEFINE response == Plain(status, x.origin)
             y == Returning(x, response, executed)
  <2>2. /\ response \in ResponseType /\ response.status \in {200, 500}
        /\ response.dispatch = "none" /\ executed \in BOOLEAN
    BY <1>1 DEF Plain, ResponseType
  <2>3. conn' = [conn EXCEPT ![c] = y]
    BY <2>1
  <2> HIDE DEF response, executed
  <2>4. /\ y \in ConnType /\ y.phase = "writing" /\ y.request = NoRequest
        /\ y.response = response
    BY <1>1, <2>2, ReturningFields
  <2> HIDE DEF y
  <2>5. ConnOK(y, server)
    BY <2>2, <2>4, PeersAssumption DEF ConnOK, Reads, Holds, Says
  <2> QED
    BY <1>1, <2>3, <2>4, <2>5, FrameStep
<1>4. CASE CallFails(c)
  <2>1. PICK e \in CallErrors, didWork \in BOOLEAN :
          /\ didWork => e.dispatch # "not_dispatched"
          /\ conn' = [conn EXCEPT ![c] =
                         Returning(conn[c], ClientErrorResponse(e, conn[c].origin), didWork)]
    BY <1>4 DEF CallFails, Returning
  <2> DEFINE response == ClientErrorResponse(e, x.origin)
             y == Returning(x, response, didWork)
  <2>2. /\ response \in ResponseType /\ response.status # 408
        /\ didWork => /\ response.status \in {200, 500, 502}
                      /\ response.dispatch # "not_dispatched"
    BY <1>1, <2>1, CallErrorOK
  <2>3. conn' = [conn EXCEPT ![c] = y]
    BY <2>1
  <2> HIDE DEF response
  <2>4. /\ y \in ConnType /\ y.phase = "writing" /\ y.request = NoRequest
        /\ y.response = response /\ y.executed = didWork
    BY <1>1, <2>2, ReturningFields
  <2> HIDE DEF y
  <2>5. ConnOK(y, server)
    BY <2>2, <2>4, PeersAssumption DEF ConnOK, Reads, Holds, Says
  <2> QED
    BY <1>1, <2>3, <2>4, <2>5, FrameStep
<1>5. CASE Write(c)
  <2> DEFINE y == [Idle EXCEPT !.phase = "closed"]
  <2>1. conn' = [conn EXCEPT ![c] = y] /\ ConnOK(y, server)
    BY <1>5, IdleOK DEF Write, End
  <2> HIDE DEF y
  <2> QED
    BY <1>1, <2>1, FrameStep DEF ConnOK
<1> QED
  BY <1>3, <1>4, <1>5

\* Every step of the proxy keeps the invariant.
LEMMA ProxyStepKeeps == ProxyInv /\ [ProxyNext]_proxyVars => ProxyInv'
<1> SUFFICES ASSUME ProxyInv, [ProxyNext]_proxyVars PROVE ProxyInv'
  OBVIOUS
<1>1. CASE UNCHANGED proxyVars
  BY <1>1 DEF proxyVars, ProxyInv, Validated, Validate
<1>2. ASSUME NEW c \in Conns, Connection(c) PROVE ProxyInv'
  BY <1>2, NewConnection, ReadStep, RefuseStep, HandleStep, ReturnStep DEF Connection
<1> QED
  BY <1>1, <1>2, LoopStep DEF ProxyNext

-----------------------------------------------------------------------------
(* The proxy with any client that keeps its promise *)

\* What the invariant says of the checked properties.
LEMMA ProxyInvImplies == ProxyInv => ProxyTypeOK /\ WholeBoundedRequests /\ WorkNeverLooksRefused
<1> SUFFICES ASSUME ProxyInv PROVE ProxyTypeOK /\ WholeBoundedRequests /\ WorkNeverLooksRefused
  OBVIOUS
<1>1. ProxyTypeOK
  BY DEF ProxyInv, ProxyTypeOK, ConnType
<1>2. WholeBoundedRequests
  BY DEF ProxyInv, WholeBoundedRequests, ConnOK, Reads, Holds
<1>3. WorkNeverLooksRefused
  BY DEF ProxyInv, WorkNeverLooksRefused, ConnOK, Says
<1> QED
  BY <1>1, <1>2, <1>3

\* A step that forwards a request is handle's, past the gates.
LEMMA ForwardAdmitted ==
    ASSUME ProxyInv, [ProxyNext]_proxyVars, NEW c \in Conns,
           ~conn[c].forwarded, conn'[c].forwarded
    PROVE  Admissible(config, conn[c].request)
<1>1. \A d \in Conns : conn[d] \in ConnType /\ ConnOK(conn[d], server)
  BY DEF ProxyInv
<1>2. conn'[c] # conn[c]
  OBVIOUS
<1>3. PICK d \in Conns : Connection(d)
  BY <1>2 DEF ProxyNext, proxyVars, Start, AcceptFails, PauseEnds, RequestShutdown, Stop
<1>4. d = c
  <2>1. \E y : conn' = [conn EXCEPT ![d] = y]
    <3>1. CASE (\E response : Answer(d, response)) \/ End(d)
      BY <3>1 DEF Answer, End
    <3>2. CASE Accept(d) \/ Embed(d) \/ ReadHeader(d) \/ ParseHeader(d)
      BY <3>2 DEF Accept, Embed, ReadHeader, ParseHeader
    <3>3. CASE ReadBody(d) \/ BodyComplete(d) \/ CallSucceeds(d) \/ CallFails(d)
      BY <3>3 DEF ReadBody, BodyComplete, CallSucceeds, CallFails
    <3>4. CASE HeaderTooLong(d) \/ ParseFails(d) \/ PeerCloses(d) \/ Timeout(d) \/ Write(d)
      BY <3>1, <3>4 DEF HeaderTooLong, ParseFails, PeerCloses, Timeout, Write
    <3>5. CASE HandleRequest(d)
      BY <3>1, <3>5 DEF HandleRequest
    <3> QED
      BY <1>3, <3>2, <3>3, <3>4, <3>5 DEF Connection
  <2> QED
    BY <1>2, <2>1 DEF ProxyInv
<1>5. ASSUME NEW x, x = conn[c], ~HandleRequest(c) PROVE FALSE
  <2>1. x \in ConnType /\ ~x.forwarded /\ conn \in [Conns -> ConnType]
    BY <1>1, <1>5 DEF ProxyInv
  <2>2. CASE \E response : Answer(c, response)
    <3>1. PICK response : Answer(c, response)
      BY <2>2
    <3>2. conn'[c] = Answering(x, response)
      BY <1>5, <2>1, <3>1 DEF Answer, Answering
    <3>3. ~Answering(x, response).forwarded
      BY <2>1 DEF Answering, ConnType
    <3> QED
      BY <3>2, <3>3
  <2>3. CASE End(c)
    <3>1. conn'[c] = [Idle EXCEPT !.phase = "closed"]
      BY <2>1, <2>3 DEF End
    <3> QED
      BY <3>1 DEF Idle
  <2>4. CASE Accept(c)
    BY <1>5, <2>1, <2>4 DEF Accept, ConnType
  <2>5. CASE Embed(c)
    BY <1>5, <2>1, <2>5 DEF Embed, ConnType
  <2>6. CASE ReadHeader(c) \/ ReadBody(c)
    BY <1>5, <2>1, <2>6 DEF ReadHeader, ReadBody, ConnType
  <2>7. CASE ParseHeader(c)
    BY <1>5, <2>1, <2>7 DEF ParseHeader, ConnType
  <2>8. CASE BodyComplete(c)
    BY <1>5, <2>1, <2>8 DEF BodyComplete, ConnType
  <2>9. CASE CallSucceeds(c) \/ CallFails(c)
    <3>1. PICK response, executed :
            conn' = [conn EXCEPT ![c] = Returning(conn[c], response, executed)]
      <4>1. CASE CallSucceeds(c)
        <5>1. PICK status : conn' = [conn EXCEPT ![c] = Returning(conn[c],
                              Plain(status, conn[c].origin), conn[c].request.route # "attestation")]
          BY <4>1 DEF CallSucceeds, Returning
        <5> QED
          BY <5>1, Zenon
      <4>2. CASE CallFails(c)
        <5>1. PICK e, didWork : conn' = [conn EXCEPT ![c] = Returning(conn[c],
                                           ClientErrorResponse(e, conn[c].origin), didWork)]
          BY <4>2 DEF CallFails, Returning
        <5> QED
          BY <5>1, Zenon
      <4> QED
        BY <2>9, <4>1, <4>2
    <3>2. conn'[c] = Returning(x, response, executed)
      BY <1>5, <2>1, <3>1
    <3>3. ~Returning(x, response, executed).forwarded
      BY <2>1 DEF Returning, ConnType
    <3> QED
      BY <3>2, <3>3
  <2>10. CASE HeaderTooLong(c) \/ ParseFails(c) \/ PeerCloses(c) \/ Timeout(c) \/ Write(c)
    BY <2>2, <2>3, <2>10 DEF HeaderTooLong, ParseFails, PeerCloses, Timeout, Write
  <2> QED
    BY <1>3, <1>4, <1>5, <2>4, <2>5, <2>6, <2>7, <2>8, <2>9, <2>10 DEF Connection
<1>6. HandleRequest(c) /\ conn[c].phase = "handle"
  BY <1>5 DEF HandleRequest
<1>7. /\ conn[c].request \in RequestType /\ config \in ConfigType
      /\ Validate(config)
  BY <1>1, <1>6 DEF ConnOK, ConnType, Holds, ProxyInv, Validated
<1>8. Handle(config, conn[c].request) = Forward
  <2> SUFFICES ASSUME NEW x, x = conn[c], NEW response, Answer(c, response) PROVE FALSE
    BY <1>6 DEF HandleRequest
  <2>1. x \in ConnType /\ ~x.forwarded /\ conn'[c] = Answering(x, response)
    BY <1>1 DEF Answer, Answering, ProxyInv
  <2>2. ~Answering(x, response).forwarded
    BY <2>1 DEF Answering, ConnType
  <2> QED
    BY <2>1, <2>2
<1> QED
  BY <1>7, <1>8, GatesAdmit

\* The invariant holds throughout.
LEMMA ProxyInductive == ProxySpec => []ProxyInv
  BY ProxyStarts, ProxyStepKeeps, PTL DEF ProxySpec

\* The state of every connection is well formed, for any client that keeps to what
\* Proxy assumes of it.
THEOREM ProxyTypesKept == ProxySpec => []ProxyTypeOK
  BY ProxyInductive, ProxyInvImplies, PTL

\* read_http_request hands over whole bodies within the limits, whatever pieces the
\* peer sends and wherever the header ends in them.
THEOREM RequestsStayWhole == ProxySpec => []WholeBoundedRequests
  BY ProxyInductive, ProxyInvImplies, PTL

\* client_error_response never blames the caller for a request a provider worked on.
THEOREM WorkIsAdmitted == ProxySpec => []WorkNeverLooksRefused
  BY ProxyInductive, ProxyInvImplies, PTL

\* The gates of handle and ProxyConfig::validate leave no way around each other.
THEOREM OnlyAdmittedForwarded == ProxySpec => ForwardsOnlyAdmitted
<1>1. ProxyInv /\ [ProxyNext]_proxyVars =>
        [\A c \in Conns : ~conn[c].forwarded /\ conn'[c].forwarded =>
              Admissible(config, conn[c].request)]_proxyVars
  BY ForwardAdmitted
<1> QED
  BY ProxyInductive, <1>1, PTL DEF ProxySpec, ForwardsOnlyAdmitted

-----------------------------------------------------------------------------
(* The proxy in front of the client it owns *)

\* The errors a chat may end with: a stream's own error is not among them.
ChatErrors == Outcomes \cup {"NotSent", "ResponseVerificationFailed", "RouteAttemptsFailed"}

\* A chat's results, as the loop over the candidates collects them.
ChatInv ==
    /\ path = "chat"
    /\ attempts \in Seq(ChatErrors)
    /\ step = "done" => result \in ChatErrors \cup {"ok"}
    /\ WorkStops

\* Every step of the loop keeps to those errors.
LEMMA ChatStep == ChatInv /\ [Next]_vars => ChatInv'
<1> SUFFICES ASSUME ChatInv, [Next]_vars PROVE ChatInv'
  OBVIOUS
<1>1. WorkStops'
  BY WorkStopsStep DEF ChatInv
<1>2. CASE UNCHANGED vars
  BY <1>1, <1>2 DEF vars, ChatInv
<1>3. path' = path
  BY DEF vars, request, Next, Dispatch, NoStreamingRoute, SkipUnavailable, TryRoute,
     CandidatesExhausted, VerificationOk, VerificationFails, PreflightFails, Answered,
     InconsistentVerdictBeforeStream, AdapterFails, RefreshOk, RefreshFails
<1>4. ASSUME NEW error \in ChatErrors, AfterDispatchFailure(error) PROVE ChatInv'
  BY <1>1, <1>3, <1>4 DEF ChatInv, AfterDispatchFailure, GiveUpRoute, Finish
<1>5. ASSUME NEW error \in ChatErrors, NEW leaveOut, GiveUpRoute(error, leaveOut) PROVE ChatInv'
  BY <1>1, <1>3, <1>5 DEF ChatInv, GiveUpRoute
<1>6. CASE SkipUnavailable \/ TryRoute \/ VerificationOk \/ RefreshOk
  BY <1>1, <1>3, <1>6 DEF ChatInv, SkipUnavailable, TryRoute, VerificationOk, RefreshOk
<1>7. CASE CandidatesExhausted
  BY <1>1, <1>3, <1>7 DEF ChatInv, CandidatesExhausted, Finish, ChatErrors
<1>8. CASE VerificationFails
  BY <1>5, <1>8 DEF VerificationFails, ChatErrors
<1>9. CASE PreflightFails \/ Answered \/ RefreshFails
  BY <1>1, <1>3, <1>4, <1>9 DEF PreflightFails, Answered, RefreshFails, ChatErrors, Finish, ChatInv
<1>10. ASSUME NEW answer \in Answers, AdapterFails(answer) PROVE ChatInv'
  <2>1. ChatDispatchOutcome(answer) \in ChatErrors
    BY DEF Answers, ChatDispatchOutcome, ChatErrors, Outcomes
  <2>2. CASE RetryKeyRotation(answer)
    BY <1>1, <1>3, <1>10, <2>2 DEF AdapterFails, ChatInv
  <2> QED
    BY <1>4, <1>10, <2>1, <2>2 DEF AdapterFails
<1>11. ~NoStreamingRoute /\ ~InconsistentVerdictBeforeStream
  BY DEF ChatInv, NoStreamingRoute, InconsistentVerdictBeforeStream
<1> QED
  BY <1>2, <1>6, <1>7, <1>8, <1>9, <1>10, <1>11 DEF Next, Dispatch

\* What error_dispatch says of a chat's error is one of the outcomes Proxy allows,
\* and it says not dispatched only if no provider worked on the request.
LEMMA ErrorsAsPromised ==
    ASSUME NEW error \in ChatErrors, NEW e \in ClientErrors(error)
    PROVE  /\ e \in CallErrors
           /\ e.dispatch = "not_dispatched" => AllowsRouteFallback(DispatchOutcome(error))
<1>1. CASE error \in Outcomes
  BY <1>1 DEF ClientErrors, ErrorDispatch, CallErrors, DispatchOutcome, AllowsRouteFallback,
     Outcomes
<1>2. CASE error = "NotSent"
  BY <1>2 DEF ClientErrors, ErrorDispatch, CallErrors, DispatchOutcome, AllowsRouteFallback,
     Outcomes, NotSentErrors
<1>3. CASE error \in {"ResponseVerificationFailed", "RouteAttemptsFailed"}
  BY <1>3 DEF ClientErrors, ErrorDispatch, CallErrors, DispatchOutcome, AllowsRouteFallback,
     Outcomes
<1> QED
  BY <1>1, <1>2, <1>3 DEF ChatErrors

\* The invariant of the composition.
ServedInv == ProxyInv /\ ChatInv

\* An error of the client is one that CallFails allows.
LEMMA FailureAsPromised ==
    ASSUME ServedInv, ClientReturns, result # "ok" PROVE CallFails(Served)
<1>1. /\ conn[Served].phase = "calling" /\ conn[Served].request.route = "chat"
      /\ UNCHANGED <<config, server, shutdown>> /\ result \in ChatErrors
  BY DEF ServedInv, ChatInv, ClientReturns, Calling
<1> DEFINE didWork == worked > 0
<1>2. PICK e \in ClientErrors(result) :
         conn' = [conn EXCEPT ![Served] =
                    Returning(conn[Served], ClientErrorResponse(e, conn[Served].origin), didWork)]
  BY DEF ClientReturns, Returning
<1>3. e \in CallErrors /\ didWork \in BOOLEAN
  BY <1>1, ErrorsAsPromised
<1>4. didWork => e.dispatch # "not_dispatched"
  BY <1>1, ErrorsAsPromised DEF ServedInv, ChatInv, WorkStops
<1>5. conn[Served].request.route # "attestation"
  BY <1>1
<1> HIDE DEF didWork
<1> QED
  BY <1>1, <1>2, <1>3, <1>4, <1>5 DEF CallFails, Returning

\* Every step of the composition is one of Proxy or leaves the proxy alone.
LEMMA ServedStepIsProxys ==
    ServedInv /\ [ServedNext]_<<vars, proxyVars>> => [ProxyNext]_proxyVars
<1> SUFFICES ASSUME ServedInv, [ServedNext]_<<vars, proxyVars>> PROVE [ProxyNext]_proxyVars
  OBVIOUS
<1>1. CASE ClientStep \/ ProxyStep \/ UNCHANGED <<vars, proxyVars>>
  BY <1>1 DEF ClientStep, ProxyStep
<1>2. CASE ClientReturns
  <2>1. CallSucceeds(Served) \/ CallFails(Served)
    BY <1>2, FailureAsPromised DEF ClientReturns
  <2> QED
    BY <2>1, ServedAssumption DEF ProxyNext, Connection
<1> QED
  BY <1>1, <1>2 DEF ServedNext

\* And one of RouteDispatch or leaves the client alone.
LEMMA ServedStepIsClients == [ServedNext]_<<vars, proxyVars>> => [Next]_vars
  BY DEF ServedNext, ClientStep, ClientReturns, ProxyStep

\* Both invariants hold together.
LEMMA ServedInductive == ServedSpec => []ServedInv
<1>1. ServedInit => ServedInv
  <2> SUFFICES ASSUME ServedInit PROVE ServedInv
    OBVIOUS
  <2>1. ChatInv
    BY DEF ServedInit, Init, ChatInv, WorkStops
  <2> QED
    BY <2>1, ProxyStarts DEF ServedInit, ServedInv
<1>2. ServedInv /\ [ServedNext]_<<vars, proxyVars>> => ServedInv'
  BY ServedStepIsProxys, ServedStepIsClients, ProxyStepKeeps, ChatStep DEF ServedInv
<1> QED
  BY <1>1, <1>2, PTL DEF ServedSpec

\* The proxy in front of the SDK client behaves as Proxy says, the client's promise
\* no longer assumed: whatever routes, refreshes and fallbacks a chat goes through.
THEOREM ServedIsProxy == ServedSpec => ServedImplementsProxy
<1>1. ServedInit => ProxyInit
  BY DEF ServedInit
<1> QED
  BY <1>1, ServedInductive, ServedStepIsProxys, PTL DEF ServedSpec, ServedImplementsProxy

\* End to end: no provider works on a chat twice, and the caller of the proxy is told
\* neither that the chat was not dispatched nor that the fault was its own when a
\* provider did work on it.
THEOREM ServedEndToEnd ==
    ServedSpec => /\ []NeverReplayed
                  /\ []WorkNeverLooksRefused
                  /\ []WholeBoundedRequests
                  /\ ForwardsOnlyAdmitted
<1>1. ServedInv => NeverReplayed /\ WorkNeverLooksRefused /\ WholeBoundedRequests
  BY ProxyInvImplies DEF ServedInv, ChatInv, WorkStops, NeverReplayed
<1>2. ServedInv /\ [ProxyNext]_proxyVars =>
        [\A c \in Conns : ~conn[c].forwarded /\ conn'[c].forwarded =>
              Admissible(config, conn[c].request)]_proxyVars
  BY ForwardAdmitted DEF ServedInv
<1> QED
  BY <1>1, <1>2, ServedInductive, ServedStepIsProxys, PTL DEF ServedSpec, ForwardsOnlyAdmitted
=============================================================================
