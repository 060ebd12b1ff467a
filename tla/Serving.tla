------------------------------ MODULE Serving ------------------------------
(***************************************************************************)
(* The local proxy in front of the SDK client it owns: a chat that the     *)
(* connection Served forwards is one request of RouteDispatch, and the     *)
(* answer written back is built from what RouteDispatch returns.           *)
(*                                                                         *)
(* Proxy alone leaves the client open: a call may end in any outcome that  *)
(* keeps ClientError::dispatch_outcome's promise.  Here that promise is no *)
(* longer assumed; the composition is shown to take steps of Proxy only.   *)
(***************************************************************************)
EXTENDS RouteDispatch, Proxy

CONSTANT Served     \* the connection whose call is modelled in full

ASSUME ServedAssumption == Served \in Conns

ServedInit ==
    /\ ProxyInit
    /\ Init
    /\ path = "chat"

\* The errors of verification and of the checks before an adapter is called.
NotSentErrors ==
    {"PolicyDenied", "Attestation", "Provider", "VerificationWaitQueueFull",
     "VerificationWaitTimeout", "ResponseCompatibility"}

\* error_dispatch: the label of what the client says of the dispatch.
ErrorDispatch(error) ==
    CASE DispatchOutcome(error) = "NotDispatched" -> "not_dispatched"
      [] DispatchOutcome(error) = "Unknown" -> "unknown"
      [] OTHER -> "rejected"

\* The ClientErrors a failed request may come back as.
ClientErrors(error) ==
    [error : CASE error \in Outcomes -> {"ProviderChat"}
               [] error = "NotSent" -> NotSentErrors
               [] OTHER -> {error},
     dispatch : {ErrorDispatch(error)}]

Calling == conn[Served].phase = "calling" /\ conn[Served].request.route = "chat"

\* send_chat_completion_payload_json works through the candidate routes.
ClientStep ==
    /\ Calling
    /\ Next
    /\ UNCHANGED proxyVars

\* The client has answered: handle_chat_completions builds the response.
ClientReturns ==
    /\ Calling
    /\ step = "done"
    /\ IF result = "ok" THEN CallSucceeds(Served)
       ELSE /\ \E e \in ClientErrors(result) :
                  conn' = [conn EXCEPT ![Served] = [@ EXCEPT
                      !.phase = "writing", !.request = NoRequest,
                      !.response = ClientErrorResponse(e, conn[Served].origin),
                      !.executed = worked > 0]]
            /\ UNCHANGED <<config, server, shutdown>>
    /\ UNCHANGED vars

\* Everything the proxy does beside the call itself.
ProxyStep ==
    /\ ProxyNext
    /\ Calling => conn'[Served] = conn[Served]
    /\ UNCHANGED vars

ServedNext == ClientStep \/ ClientReturns \/ ProxyStep

ServedSpec == ServedInit /\ [][ServedNext]_<<vars, proxyVars>>

\* What Proxy assumes of a client call is what RouteDispatch delivers
\* (error_dispatch in front of ClientError::dispatch_outcome): whatever routes,
\* refreshes and fallbacks a request went through, the answer its caller reads
\* is one that Proxy allows, and the whole composition behaves as Proxy does.
ServedImplementsProxy == ProxyInit /\ [][ProxyNext]_proxyVars

\* A call comes back, whatever the providers answer.
CallEnds == Calling ~> ~Calling
=============================================================================
