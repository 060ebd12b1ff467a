----------------------------- MODULE MCServing -----------------------------
(***************************************************************************)
(* Three questions, one per part: the send paths of the client with every  *)
(* candidate list (dispatch), the proxy with a representative of every     *)
(* branch of handle (proxy), and the two together (served).  Only the part *)
(* chosen at the start moves.                                              *)
(***************************************************************************)
EXTENDS Serving

VARIABLE part

mcVars == <<part, vars, proxyVars>>

\* Configurations that are served, and one for every way to be refused.
MCConfigs ==
    [bind : {"loopback", "exposed"},
     auth : {"LoopbackOnly", "BearerToken", "StrongExternalAuth"},
     transport : {"PlainHttpLoopbackOnly", "SecureReverseProxy"},
     cors : {"Disabled", "AllowOrigins"}]
    \cup [bind : {"loopback"}, auth : {"BearerToken", "EmptyBearer"},
          transport : {"PlainHttpLoopbackOnly"},
          cors : {"NoOrigins", "Star", "Unsafe", "AllowAnyOrigin", "Disabled"}]

ServedConfig ==
    [bind |-> "loopback", auth |-> "BearerToken",
     transport |-> "PlainHttpLoopbackOnly", cors |-> "Disabled"]

\* Method, route, body, content type and preflight headers that matter.
Shapes ==
    {[method |-> "POST", route |-> "chat", body |-> b, json |-> TRUE,
      preflight |-> "none"] : b \in {"ok", "stream"}}
    \cup {[method |-> "POST", route |-> "responses", body |-> b, json |-> j,
           preflight |-> "none"] : b \in {"ok", "malformed"}, j \in BOOLEAN}
    \cup {[method |-> "GET", route |-> t, body |-> "ok", json |-> FALSE,
           preflight |-> "none"] :
             t \in {"models", "attestation", "unknown"}}
    \cup {[method |-> "OPTIONS", route |-> "chat", body |-> "ok", json |-> FALSE,
           preflight |-> p] : p \in {"none", "ok", "bad_headers"}}
    \cup {[method |-> "OTHER", route |-> "chat", body |-> "ok", json |-> FALSE,
           preflight |-> "none"]}

AllRequests ==
    {[method |-> s.method, route |-> s.route, body |-> s.body, json |-> s.json,
      preflight |-> s.preflight, origin |-> o, host |-> h, auth |-> a] :
        s \in Shapes, o \in {"none", ListedOrigin, "other"},
        h \in {"loopback", "other"}, a \in {"none", "right"}}

\* A request every configuration forwards.
PlainChat ==
    [method |-> "POST", route |-> "chat", body |-> "ok", json |-> TRUE,
     preflight |-> "none", origin |-> "none", host |-> "loopback",
     auth |-> "right"]

\* The first connection sends anything.
MCRequests ==
    [c \in Conns |-> IF c = "c1" THEN AllRequests ELSE {PlainChat}]

\* The client has nothing to do.
ClientIdle ==
    /\ path = "chat" /\ candidates = <<>> /\ at = 1 /\ step = "done"
    /\ unavailable = {} /\ attempts = <<>> /\ refreshes = 0
    /\ result = "none" /\ worked = 0

\* The proxy has not been started.
ProxyIdle ==
    /\ config = ServedConfig /\ server = "new" /\ shutdown = FALSE
    /\ conn = [c \in Conns |-> Idle]

MCInit ==
    \/ part = "dispatch" /\ Init /\ ProxyIdle
    \/ part = "proxy" /\ ClientIdle /\ ProxyInit
    \/ /\ part = "served" /\ ServedInit /\ config = ServedConfig
       /\ \A i \in DOMAIN candidates : ~candidates[i].streaming

\* The second connection, the shutdown, other requests and other lengths are
\* left to the proxy part.
ServedAlone ==
    /\ server' \in {"new", "running"} /\ ~shutdown'
    /\ \A c \in Conns \ {Served} : conn'[c] = conn[c]
    /\ conn'[Served].request \in {NoRequest, PlainChat}
    /\ conn'[Served].phase \in {"header", "body"} =>
          conn'[Served].header \in {0, 3} /\ conn'[Served].length = 2

\* The second connection runs beside the first under one configuration: no
\* gate looks at another connection.
SecondBeside ==
    \A c \in Conns \ {Served} : config # ServedConfig => conn'[c] = conn[c]

MCNext ==
    /\ \/ part = "dispatch" /\ Next /\ UNCHANGED proxyVars
       \/ part = "proxy" /\ ProxyNext /\ SecondBeside /\ UNCHANGED vars
       \/ part = "served" /\ ServedNext /\ ServedAlone
    /\ UNCHANGED part

\* The fairness of RouteDispatch and of Proxy; a finished call is polled.
MCFairness ==
    /\ WF_mcVars(part = "dispatch" /\ Next /\ UNCHANGED <<part, proxyVars>>)
    /\ WF_mcVars(part = "proxy" /\ Stop /\ UNCHANGED <<part, vars>>)
    /\ \A c \in Conns : WF_mcVars(part # "dispatch" /\ Timeout(c) /\ UNCHANGED <<part, vars>>)
    /\ WF_mcVars(part = "served" /\ (ClientStep \/ ClientReturns) /\ UNCHANGED part)

MCSpec == MCInit /\ [][MCNext]_mcVars /\ MCFairness

\* Nothing hangs: a request sent through the client comes back whatever the
\* providers answer (key rotations cannot keep it going), the proxy's caller
\* gets an answer, reading a request ends whatever the peer does, and the
\* accept loop ends once shutdown is signalled.
NothingHangs ==
    /\ part = "dispatch" => RequestEnds
    /\ part = "served" => CallEnds
    /\ ReadingEnds
    /\ ShutdownEnds
=============================================================================
