------------------------------- MODULE Proxy -------------------------------
(***************************************************************************)
(* The local proxy (crates/confidential-inference-proxy/src/lib.rs): its   *)
(* start-up checks, the accept loop, one task per connection that reads an *)
(* HTTP request in pieces, the gates a request passes before it reaches    *)
(* the SDK client, and the answer written back.                            *)
(*                                                                         *)
(* Header and body bytes are counted, not stored.  A parsed request is a   *)
(* record of the facts the gates look at.  The SDK client is external to   *)
(* this module: a call ends in one of the outcomes RouteDispatch allows.   *)
(***************************************************************************)
EXTENDS Naturals, FiniteSets

CONSTANTS
    Conns,              \* connections the listener may accept
    Configs,            \* proxy configurations an operator may give
    Requests,           \* parsed requests the peer of a connection may send
    ListedOrigin,       \* an origin an operator may list explicitly
    MaxHeaderBytes,     \* MAX_HTTP_HEADER_BYTES
    MaxBodyBytes,       \* MAX_HTTP_BODY_BYTES
    ChunkBytes,         \* the 1024-byte buffer of one header read
    BodyChunkBytes,     \* the 8192-byte limit of one body read
    HeaderLengths,      \* lengths of the header blocks peers send
    ContentLengths,     \* content-length values they announce
    NoRequest, NoResponse

ASSUME LimitsAssumption ==
    /\ MaxHeaderBytes \in Nat /\ MaxBodyBytes \in Nat
    /\ ChunkBytes \in Nat \ {0} /\ BodyChunkBytes \in Nat \ {0}
    /\ HeaderLengths \subseteq Nat \ {0} /\ ContentLengths \subseteq Nat

VARIABLES
    config,             \* the ProxyConfig given to bind or from_config
    server,             \* the accept loop
    shutdown,           \* the shutdown future has completed
    conn                \* the task of each connection

proxyVars == <<config, server, shutdown, conn>>

Min2(a, b) == IF a < b THEN a ELSE b

(***************************************************************************)
(* Start-up.                                                               *)
(***************************************************************************)
ConfigType ==
    [bind : {"loopback", "exposed"},
     auth : {"LoopbackOnly", "BearerToken", "EmptyBearer", "StrongExternalAuth"},
     transport : {"PlainHttpLoopbackOnly", "Tls", "SecureReverseProxy"},
     cors : {"Disabled", "AllowOrigins", "NoOrigins", "Star", "Unsafe",
             "AllowAnyOrigin"}]

RequiresAuthentication(c) == c.auth # "LoopbackOnly"

ProtectsNonLoopback(c) == c.transport # "PlainHttpLoopbackOnly"

Validate(c) ==
    /\ c.bind = "exposed" => RequiresAuthentication(c)
    /\ c.bind = "exposed" => ProtectsNonLoopback(c)
    /\ c.auth # "EmptyBearer"
    /\ c.cors \in {"Disabled", "AllowOrigins"}

\* The built-in server binds only plain HTTP on a loopback address; other
\* configurations are served by an embedding that calls handle itself.
BuiltInServer(c) ==
    c.bind = "loopback" /\ c.transport = "PlainHttpLoopbackOnly"

(***************************************************************************)
(* Requests and the gates of ConfidentialInferenceProxy::handle.           *)
(***************************************************************************)
RequestType ==
    [method : {"GET", "POST", "OPTIONS", "OTHER"},
     route : {"chat", "responses", "models", "confidentiality",
              "attestation", "bad_attestation", "unknown"},
     origin : {"none", ListedOrigin, "other"},
     host : {"loopback", "other"},
     json : BOOLEAN,                                  \* content-type
     auth : {"none", "wrong", "right"},
     body : {"ok", "not_utf8", "stream", "malformed"},
     preflight : {"none", "ok", "bad_method", "bad_headers"}]

CorsAllowedOrigin(c, r) ==
    c.cors = "AllowOrigins" /\ r.origin = ListedOrigin

CorsOriginError(c, r) == r.origin # "none" /\ ~CorsAllowedOrigin(c, r)

HostHeaderError(c, r) == c.auth = "LoopbackOnly" /\ r.host # "loopback"

ContentTypeError(r) == r.method = "POST" /\ ~r.json

IsCorsPreflight(c, r) ==
    /\ c.cors # "Disabled"
    /\ r.method = "OPTIONS"
    /\ r.origin # "none"
    /\ r.preflight # "none"

AuthorizationError(c, r) == c.auth = "BearerToken" /\ r.auth # "right"

\* Handle's result when it calls the SDK client instead of answering.
Forward == 0

\* The route table of handle, once the gates are passed.
Routed(r) ==
    CASE r.method = "POST" /\ r.route = "chat" ->
            IF r.body = "ok" THEN Forward ELSE 400
      [] r.method = "POST" /\ r.route = "responses" ->
            IF r.body \in {"ok", "stream"} THEN Forward ELSE 400
      [] r.method = "GET" /\ r.route \in {"models", "confidentiality"} -> 200
      [] r.method = "GET" /\ r.route = "attestation" -> Forward
      [] r.method = "GET" /\ r.route = "bad_attestation" -> 400
      [] r.method \in {"OPTIONS", "OTHER"} -> 405
      [] OTHER -> 404

HandleCorsPreflight(r) ==
    CASE r.preflight = "bad_method" -> 405
      [] r.preflight = "bad_headers" -> 403
      [] OTHER -> 204

\* A browser page served from a listed origin skips the remaining gates.
HandleTrustingListedOrigins(c, r) ==
    IF CorsAllowedOrigin(c, r) THEN Routed(r)
    ELSE IF HostHeaderError(c, r) THEN 403
    ELSE IF ContentTypeError(r) THEN 415
    ELSE IF AuthorizationError(c, r) THEN 401
    ELSE Routed(r)

\* The gates in the order of the code; the first that objects answers.
Handle(c, r) ==
    IF CorsOriginError(c, r) \/ HostHeaderError(c, r) THEN 403
    ELSE IF ContentTypeError(r) THEN 415
    ELSE IF IsCorsPreflight(c, r) THEN HandleCorsPreflight(r)
    ELSE IF AuthorizationError(c, r) THEN 401
    ELSE Routed(r)

(***************************************************************************)
(* The SDK client, as RouteDispatch describes it, and the answer built     *)
(* from what it returns.                                                   *)
(***************************************************************************)
\* Outcomes of a client call: success, or a ClientError with what it says of
\* the provider having seen the request (ClientError::dispatch_outcome).
CallErrors ==
    {[error |-> e, dispatch |-> "not_dispatched"] :
        e \in {"RouteNotFound", "RouteSelectionFailed", "ResponseCompatibility",
               "PolicyDenied", "VerifiedRouteExpired", "Attestation",
               "Provider", "VerificationWaitQueueFull",
               "VerificationWaitTimeout", "RouteAttemptsFailed"}}
    \cup [error : {"ProviderChat"},
          dispatch : {"not_dispatched", "rejected", "unknown"}]
    \cup {[error |-> "ResponseVerificationFailed", dispatch |-> "unknown"],
          [error |-> "ResponseJsonSerialization", dispatch |-> "unknown"]}

\* A provider's own refusal is passed on as the caller's mistake.
ClientErrorStatusAsProvider(e) ==
    CASE e = "RouteNotFound" -> 404
      [] e \in {"RouteSelectionFailed", "ResponseCompatibility", "ProviderChat"}
            -> 400
      [] e = "PolicyDenied" -> 403
      [] e = "VerifiedRouteExpired" -> 409
      [] e = "ResponseJsonSerialization" -> 500
      [] OTHER -> 502

ClientErrorStatus(e) ==
    CASE e = "RouteNotFound" -> 404
      [] e \in {"RouteSelectionFailed", "ResponseCompatibility"} -> 400
      [] e = "PolicyDenied" -> 403
      [] e = "VerifiedRouteExpired" -> 409
      [] e = "ResponseJsonSerialization" -> 500
      [] OTHER -> 502

\* A response: its status, the x-confidential-inference-dispatch header and
\* whether access-control-allow-origin names the caller's origin.
ResponseType ==
    [status : {200, 204, 400, 401, 403, 404, 405, 408, 409, 415, 500, 502},
     dispatch : {"none", "not_dispatched", "rejected", "unknown"},
     allowOrigin : BOOLEAN]

\* Peers and operators give what the parsers let through, and an absent request
\* or response is told apart from any that is there.
ASSUME PeersAssumption ==
    /\ Configs \subseteq ConfigType
    /\ \A c \in Conns : Requests[c] \subseteq RequestType
    /\ NoRequest \notin RequestType
    /\ NoResponse \notin ResponseType

Plain(status, origin) ==
    [status |-> status, dispatch |-> "none", allowOrigin |-> origin]

ClientErrorResponse(e, origin) ==
    [status |-> ClientErrorStatus(e.error), dispatch |-> e.dispatch,
     allowOrigin |-> origin]

(***************************************************************************)
(* State.                                                                  *)
(***************************************************************************)
\* phase     : where the task of the connection is
\* header    : length of the peer's header block, known once it is read
\* length    : its content-length
\* got       : bytes read into the buffer
\* request   : the parsed request, until it is handled
\* origin    : the caller's origin is allowed, kept for decorate_response
\* executed  : ghost, the provider processed the request
\* forwarded : ghost, the client was called for this connection
\* response  : the answer being written
Idle ==
    [phase |-> "none", header |-> 0, length |-> 0, got |-> 0,
     request |-> NoRequest, origin |-> FALSE, executed |-> FALSE,
     forwarded |-> FALSE, response |-> NoResponse]

Phases == {"none", "header", "body", "handle", "calling", "writing", "closed"}

ProxyTypeOK ==
    /\ config \in ConfigType
    /\ server \in {"new", "refused", "embedded", "running", "pausing",
                   "stopped", "failed"}
    /\ shutdown \in BOOLEAN
    /\ \A c \in Conns :
        /\ conn[c].phase \in Phases
        /\ conn[c].header \in HeaderLengths \cup {0}
        /\ conn[c].length \in ContentLengths \cup {0}
        /\ conn[c].got \in Nat
        /\ conn[c].request \in RequestType \cup {NoRequest}
        /\ conn[c].origin \in BOOLEAN
        /\ conn[c].executed \in BOOLEAN /\ conn[c].forwarded \in BOOLEAN
        /\ conn[c].response \in ResponseType \cup {NoResponse}

ProxyInit ==
    /\ config \in Configs
    /\ server = "new"
    /\ shutdown = FALSE
    /\ conn = [c \in Conns |-> Idle]

\* The bind address is not looked at before serving.
StartUnchecked ==
    /\ server = "new"
    /\ server' = IF BuiltInServer(config) THEN "running" ELSE "embedded"
    /\ UNCHANGED <<config, shutdown, conn>>

(***************************************************************************)
(* The accept loop.                                                        *)
(***************************************************************************)
\* ProxyServer::bind, or ConfidentialInferenceProxy::from_config where the
\* proxy is embedded behind a server of the operator's own.
Start ==
    /\ server = "new"
    /\ server' = IF ~Validate(config) THEN "refused"
                 ELSE IF BuiltInServer(config) THEN "running"
                 ELSE "embedded"
    /\ UNCHANGED <<config, shutdown, conn>>

Accept(c) ==
    /\ server = "running"
    /\ conn[c].phase = "none"
    /\ \E h \in HeaderLengths, n \in ContentLengths :
        conn' = [conn EXCEPT ![c] = [@ EXCEPT
                    !.phase = "header", !.header = h, !.length = n]]
    /\ UNCHANGED <<config, server, shutdown>>

\* An embedding hands a parsed request to handle.
Embed(c) ==
    /\ server = "embedded"
    /\ conn[c].phase = "none"
    /\ \E r \in Requests[c] :
        conn' = [conn EXCEPT ![c] = [@ EXCEPT
                    !.phase = "handle", !.request = r]]
    /\ UNCHANGED <<config, server, shutdown>>

AcceptFails ==
    /\ server = "running"
    /\ server' \in {"pausing", "failed"}      \* retryable_accept_error, or not
    /\ UNCHANGED <<config, shutdown, conn>>

PauseEnds ==
    /\ server = "pausing"
    /\ server' = "running"
    /\ UNCHANGED <<config, shutdown, conn>>

RequestShutdown ==
    /\ server \in {"running", "pausing"}
    /\ ~shutdown
    /\ shutdown' = TRUE
    /\ UNCHANGED <<config, server, conn>>

\* The pause after a failed accept does not poll it.
StopBetweenAccepts ==
    /\ server = "running"
    /\ shutdown
    /\ server' = "stopped"
    /\ UNCHANGED <<config, shutdown, conn>>

\* Both selects of serve_until poll the shutdown future.
Stop ==
    /\ server \in {"running", "pausing"}
    /\ shutdown
    /\ server' = "stopped"
    /\ UNCHANGED <<config, shutdown, conn>>

(***************************************************************************)
(* One connection: handle_connection and read_http_request.                *)
(***************************************************************************)
\* The task ends and drops what it held.
End(c) == conn' = [conn EXCEPT ![c] = [Idle EXCEPT !.phase = "closed"]]

Answer(c, response) ==
    conn' = [conn EXCEPT ![c] = [@ EXCEPT !.phase = "writing",
                                          !.response = response,
                                          !.request = NoRequest, !.got = 0,
                                          !.header = 0, !.length = 0]]

Reading(c) == conn[c].phase \in {"header", "body"}

\* The end of the headers is looked for before the limit is.
HeaderComplete(c) == conn[c].got >= conn[c].header

\* The limit is only looked at once the headers are complete.
HeaderNeverAtLimit(c) == HeaderComplete(c) /\ conn[c].got >= MaxHeaderBytes

HeaderAtLimit(c) == conn[c].got >= MaxHeaderBytes

ReadHeader(c) ==
    /\ conn[c].phase = "header"
    /\ ~HeaderComplete(c) /\ ~HeaderAtLimit(c)
    /\ \E n \in 1..ChunkBytes : conn' = [conn EXCEPT ![c].got = @ + n]
    /\ UNCHANGED <<config, server, shutdown>>

HeaderTooLong(c) ==
    /\ conn[c].phase = "header"
    /\ ~HeaderComplete(c) /\ HeaderAtLimit(c)
    /\ Answer(c, Plain(400, FALSE))
    /\ UNCHANGED <<config, server, shutdown>>

\* The header block is split off before its end has been read.
ParseHeaderEarly(c) ==
    /\ conn[c].phase = "header"
    /\ conn[c].length <= MaxBodyBytes
    /\ conn' = [conn EXCEPT ![c] = [@ EXCEPT
                   !.phase = "body", !.header = 0,
                   !.got = conn[c].got - conn[c].header]]
    /\ UNCHANGED <<config, server, shutdown>>

\* Request line, header lines and content-length are parsed; what was read
\* past the headers is the beginning of the body.
ParseHeader(c) ==
    /\ conn[c].phase = "header"
    /\ HeaderComplete(c)
    /\ conn[c].length <= MaxBodyBytes
    /\ conn' = [conn EXCEPT ![c] = [@ EXCEPT
                   !.phase = "body", !.header = 0,
                   !.got = conn[c].got - conn[c].header]]
    /\ UNCHANGED <<config, server, shutdown>>

\* The headers are not UTF-8, malformed, or announce too long a body.
ParseFails(c) ==
    /\ conn[c].phase = "header"
    /\ HeaderComplete(c)
    /\ Answer(c, Plain(400, FALSE))
    /\ UNCHANGED <<config, server, shutdown>>

ReadBody(c) ==
    /\ conn[c].phase = "body"
    /\ conn[c].got < conn[c].length
    /\ \E n \in 1..Min2(conn[c].length - conn[c].got, BodyChunkBytes) :
        conn' = [conn EXCEPT ![c].got = @ + n]
    /\ UNCHANGED <<config, server, shutdown>>

\* The request is handled with whatever the header reads brought.
BodyIgnored(c) ==
    /\ conn[c].phase = "body"
    /\ \E r \in Requests[c] :
        conn' = [conn EXCEPT ![c] = [@ EXCEPT
                    !.phase = "handle", !.request = r]]
    /\ UNCHANGED <<config, server, shutdown>>

\* The body is truncated to content-length.
BodyComplete(c) ==
    /\ conn[c].phase = "body"
    /\ conn[c].got >= conn[c].length
    /\ \E r \in Requests[c] :
        conn' = [conn EXCEPT ![c] = [@ EXCEPT
                    !.phase = "handle", !.request = r, !.got = conn[c].length]]
    /\ UNCHANGED <<config, server, shutdown>>

PeerCloses(c) ==
    /\ Reading(c)
    /\ ~(conn[c].phase = "header" /\ (HeaderComplete(c) \/ HeaderAtLimit(c)))
    /\ ~(conn[c].phase = "body" /\ conn[c].got >= conn[c].length)
    /\ \/ Answer(c, Plain(400, FALSE))        \* read returns 0
       \/ End(c)                              \* read fails
    /\ UNCHANGED <<config, server, shutdown>>

\* The timeout covers the call of the client too.
TimeoutAnywhere(c) ==
    /\ Reading(c) \/ conn[c].phase = "calling"
    /\ Answer(c, Plain(408, FALSE))
    /\ UNCHANGED <<config, server, shutdown>>

\* The timeout covers the headers and not the body.
TimeoutHeaderOnly(c) ==
    /\ conn[c].phase = "header"
    /\ Answer(c, Plain(408, FALSE))
    /\ UNCHANGED <<config, server, shutdown>>

\* HTTP_REQUEST_READ_TIMEOUT covers reading the request and nothing else.
Timeout(c) ==
    /\ Reading(c)
    /\ Answer(c, Plain(408, FALSE))
    /\ UNCHANGED <<config, server, shutdown>>

\* ConfidentialInferenceProxy::handle, up to the client call if there is one.
HandleRequest(c) ==
    /\ conn[c].phase = "handle"
    /\ LET status == Handle(config, conn[c].request)
           origin == CorsAllowedOrigin(config, conn[c].request)
       IN  IF status = Forward
           THEN conn' = [conn EXCEPT ![c] = [@ EXCEPT
                            !.phase = "calling", !.forwarded = TRUE,
                            !.origin = origin]]
           ELSE Answer(c, Plain(status, origin))
    /\ UNCHANGED <<config, server, shutdown>>

\* The SDK client answers.  The provider has processed the request after a
\* success, and may have unless the error says it was not dispatched.
CallSucceeds(c) ==
    /\ conn[c].phase = "calling"
    /\ \E status \in {200} \cup
            (IF conn[c].request.route = "chat" THEN {500} ELSE {}) :
        conn' = [conn EXCEPT ![c] = [@ EXCEPT
                    !.phase = "writing", !.request = NoRequest,
                    !.response = Plain(status, conn[c].origin),
                    !.executed = conn[c].request.route # "attestation"]]
    /\ UNCHANGED <<config, server, shutdown>>

CallFails(c) ==
    /\ conn[c].phase = "calling"
    /\ \E e \in CallErrors, didWork \in BOOLEAN :
        /\ conn[c].request.route = "attestation" =>
                e.dispatch = "not_dispatched"
        /\ didWork => e.dispatch # "not_dispatched"
        /\ conn' = [conn EXCEPT ![c] = [@ EXCEPT
                       !.phase = "writing", !.request = NoRequest,
                       !.response = ClientErrorResponse(e, conn[c].origin),
                       !.executed = didWork]]
    /\ UNCHANGED <<config, server, shutdown>>

\* write_http_response, which may fail; the task ends either way.
Write(c) ==
    /\ conn[c].phase = "writing"
    /\ End(c)
    /\ UNCHANGED <<config, server, shutdown>>

Connection(c) ==
    \/ Accept(c) \/ Embed(c)
    \/ ReadHeader(c) \/ HeaderTooLong(c) \/ ParseHeader(c) \/ ParseFails(c)
    \/ ReadBody(c) \/ BodyComplete(c) \/ PeerCloses(c) \/ Timeout(c)
    \/ HandleRequest(c) \/ CallSucceeds(c) \/ CallFails(c) \/ Write(c)

ProxyNext ==
    \/ Start \/ AcceptFails \/ PauseEnds \/ RequestShutdown \/ Stop
    \/ \E c \in Conns : Connection(c)

\* tokio polls the accept loop and the read timer of every connection.
ProxyFairness ==
    /\ WF_proxyVars(Stop)
    /\ \A c \in Conns : WF_proxyVars(Timeout(c))

ProxySpec == ProxyInit /\ [][ProxyNext]_proxyVars /\ ProxyFairness

(***************************************************************************)
(* Properties.                                                             *)
(***************************************************************************)
\* What an operator may expect of any request that reaches the SDK client:
\* a browser page has its origin listed, an exposed proxy authenticated the
\* caller, an unauthenticated one is reached by its loopback name only.
Admissible(c, r) ==
    /\ r.origin # "none" => c.cors = "AllowOrigins" /\ r.origin = ListedOrigin
    /\ c.bind = "exposed" =>
          /\ c.transport # "PlainHttpLoopbackOnly"
          /\ c.auth = "StrongExternalAuth" \/ r.auth = "right"
    /\ c.auth = "LoopbackOnly" => r.host = "loopback"
    /\ c.auth \in {"BearerToken", "EmptyBearer"} => r.auth = "right"
    /\ r.method = "POST" => r.json

\* A request reaches the client only if it is admissible under the start-up
\* configuration: the gates of handle together with ProxyConfig::validate
\* leave no way around authentication, the Origin and the Host checks.
ForwardsOnlyAdmitted ==
    [][\A c \in Conns :
          ~conn[c].forwarded /\ conn'[c].forwarded =>
              Admissible(config, conn[c].request)]_proxyVars

\* A request reaches handle with its whole body and nothing more, and no
\* connection holds more than one read beyond the header limit.
WholeBoundedRequests ==
    \A c \in Conns :
        /\ conn[c].phase = "header" => conn[c].got < MaxHeaderBytes + ChunkBytes
        /\ conn[c].request # NoRequest /\ server # "embedded" =>
              conn[c].got = conn[c].length /\ conn[c].length <= MaxBodyBytes

\* A caller is never told that the fault was its own, or that its request was
\* not dispatched, when the provider processed the request; a request that
\* was forwarded is never answered with the read timeout.
WorkNeverLooksRefused ==
    \A c \in Conns :
        conn[c].response # NoResponse =>
            /\ conn[c].executed =>
                  /\ conn[c].response.status \in {200, 500, 502}
                  /\ conn[c].response.dispatch # "not_dispatched"
            /\ conn[c].forwarded => conn[c].response.status # 408

\* Reading a request ends, whatever the peer does.
ReadingEnds ==
    \A c \in Conns : Reading(c) ~> ~Reading(c)

\* Once shutdown is signalled the accept loop ends, even if every accept
\* fails and the loop keeps pausing.
ShutdownEnds ==
    shutdown ~> server \in {"stopped", "failed"}
================================================================================
