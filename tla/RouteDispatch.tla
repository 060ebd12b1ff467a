--------------------------- MODULE RouteDispatch ---------------------------
(***************************************************************************)
(* One request on its way through a send path of the SDK client:           *)
(* send_chat_completion_request, stream_chat_request and                   *)
(* send_embeddings_request.  Each walks the selected candidate routes in   *)
(* order, verifies one, dispatches on it, refreshes it after a key         *)
(* rotation, and moves to the next route only after a failure that proves  *)
(* the provider did no work.                                               *)
(*                                                                         *)
(* Verification is abstracted to its result (RouteVerification has the     *)
(* detail).  Providers and adapters are external: an answer may or may not *)
(* mean that the request was worked on, and the ghost variable worked      *)
(* records what really happened.                                           *)
(***************************************************************************)
EXTENDS Naturals, Sequences, FiniteSets

CONSTANTS
    Providers,      \* provider ids
    MaxCandidates,  \* bound: routes select_routes may return
    Families        \* evidence families of the registry's routes

ASSUME DispatchAssumption ==
    /\ MaxCandidates \in Nat
    /\ Families \subseteq STRING

VARIABLES
    path,         \* which send path runs
    candidates,   \* the routes, in the order select_routes returned them
    at,           \* index of the current candidate
    step,         \* "next", "verify", "dispatch", "refresh" or "done"
    unavailable,  \* unavailable_providers
    attempts,     \* attempt_errors and last_error
    refreshes,    \* rotation_refreshes on the current candidate
    result,       \* what the caller gets: "ok" or an error ("none" until then)
    worked        \* ghost: how many dispatches a provider may have worked on

vars == <<path, candidates, at, step, unavailable, attempts, refreshes, result, worked>>
request == <<path, candidates>>

Paths == {"chat", "stream", "embeddings"}
Routes == [provider : Providers, family : Families, streaming : BOOLEAN]

RedPill == "redpill_aci_verified_tls"

\* DispatchOutcome; the statuses that matter are 429, 503 and any other.
Outcomes == {"NotDispatched", "Rejected429", "Rejected503", "RejectedOther", "Unknown"}

\* ClientError, as far as dispatch_outcome tells errors apart: ProviderChat and
\* ProviderEmbeddings carry an outcome and are written as it, "NotSent" is any
\* error of verification, refresh or the checks before the adapter is called.
Errors == Outcomes \cup {"NotSent", "ResponseVerificationFailed", "StreamingNotSupported",
                         "RouteAttemptsFailed"}

\* Two refreshes for RedPill chats, one for any other chat and for embeddings;
\* a stream is never refreshed.
RefreshLimit ==
    CASE path = "chat" -> IF candidates[at].family = RedPill THEN 2 ELSE 1
      [] path = "embeddings" -> 1
      [] path = "stream" -> 0

TypeOK ==
    /\ path \in Paths
    /\ candidates \in Seq(Routes)
    /\ at \in 1..(Len(candidates) + 1)
    /\ step \in {"next", "verify", "dispatch", "refresh", "done"}
    /\ unavailable \subseteq Providers
    /\ attempts \in Seq(Errors)
    /\ refreshes \in Nat
    /\ at <= Len(candidates) => refreshes <= RefreshLimit
    /\ result \in Errors \cup {"none", "ok"}
    /\ worked \in Nat

\* The routes of the request: never empty, RouteSelectionFailed ends it before.
\* A stream keeps only the routes that may stream.
Init ==
    /\ path \in Paths
    /\ \E n \in 1..MaxCandidates : \E selected \in [1..n -> Routes] :
          candidates = IF path = "stream"
                       THEN SelectSeq(selected, LAMBDA r : r.streaming)
                       ELSE selected
    /\ at = 1
    /\ step = "next"
    /\ unavailable = {}
    /\ attempts = <<>>
    /\ refreshes = 0
    /\ result = "none"
    /\ worked = 0

-----------------------------------------------------------------------------
(* What the code concludes from an adapter's answer *)

Answers == {"Unavailable", "KeyRotation", "Http", "Adapter",
            "Status429", "Status503", "StatusOther"}

\* ProviderError::chat_dispatch_outcome.  "Adapter" stands for Adapter,
\* Compatibility and Json alike.
ChatDispatchOutcome(answer) ==
    CASE answer \in {"Unavailable", "KeyRotation"} -> "NotDispatched"
      [] answer = "Status429" -> "Rejected429"
      [] answer = "Status503" -> "Rejected503"
      [] answer = "StatusOther" -> "RejectedOther"
      [] answer \in {"Http", "Adapter"} -> "Unknown"

\* Fault: any HTTP rejection is taken as proof that no work was done.
FallbackOnAnyRejection(outcome) ==
    outcome \in {"NotDispatched", "Rejected429", "Rejected503", "RejectedOther"}

\* DispatchOutcome::allows_route_fallback
AllowsRouteFallback(outcome) == outcome \in {"NotDispatched", "Rejected429", "Rejected503"}

\* Fault: a discarded response falls into the catch-all arm.
DispatchOutcomeForgetsResponse(error) == IF error \in Outcomes THEN error ELSE "NotDispatched"

\* ClientError::dispatch_outcome
DispatchOutcome(error) ==
    CASE error \in Outcomes -> error
      [] error = "ResponseVerificationFailed" -> "Unknown"
      [] OTHER -> "NotDispatched"

\* Fault: one refresh too many.
RetryKeyRotationOffByOne(answer) == answer = "KeyRotation" /\ refreshes <= RefreshLimit

\* retry_key_rotation
RetryKeyRotation(answer) == answer = "KeyRotation" /\ refreshes < RefreshLimit

\* Fault: refreshes are not counted.
ForgetRefresh == UNCHANGED refreshes

CountRefresh == refreshes' = refreshes + 1

Finish(what) == step' = "done" /\ result' = what

\* The current route failed with this error; the provider may be left out from
\* now on.
GiveUpRoute(error, leaveOut) ==
    /\ attempts' = Append(attempts, error)
    /\ unavailable' = IF leaveOut THEN unavailable \cup {candidates[at].provider} ELSE unavailable
    /\ at' = at + 1
    /\ refreshes' = 0
    /\ step' = "next"
    /\ UNCHANGED result

\* A dispatch failed: the next route, or the error itself.
AfterDispatchFailure(error) ==
    IF AllowsRouteFallback(DispatchOutcome(error))
    THEN GiveUpRoute(error, TRUE)
    ELSE Finish(error) /\ UNCHANGED <<attempts, unavailable, at, refreshes>>

-----------------------------------------------------------------------------
(* The loop over the candidates *)

NoStreamingRoute ==
    /\ step = "next"
    /\ path = "stream" /\ candidates = <<>>
    /\ Finish("StreamingNotSupported")
    /\ UNCHANGED <<request, at, unavailable, attempts, refreshes, worked>>

SkipUnavailable ==
    /\ step = "next"
    /\ at <= Len(candidates)
    /\ candidates[at].provider \in unavailable
    /\ at' = at + 1
    /\ UNCHANGED <<request, step, unavailable, attempts, refreshes, result, worked>>

TryRoute ==
    /\ step = "next"
    /\ at <= Len(candidates)
    /\ candidates[at].provider \notin unavailable
    /\ step' = "verify"
    /\ UNCHANGED <<request, at, unavailable, attempts, refreshes, result, worked>>

\* A single failure is returned as it is, several as RouteAttemptsFailed (or
\* EmbeddingsRouteAttemptsFailed).
CandidatesExhausted ==
    /\ step = "next"
    /\ candidates # <<>>
    /\ at > Len(candidates)
    /\ Finish(IF Len(attempts) = 1 THEN attempts[1] ELSE "RouteAttemptsFailed")
    /\ UNCHANGED <<request, at, unavailable, attempts, refreshes, worked>>

-----------------------------------------------------------------------------
(* verify_selected_route, as the loop sees it *)

VerificationOk ==
    /\ step = "verify"
    /\ step' = "dispatch"
    /\ UNCHANGED <<request, at, unavailable, attempts, refreshes, result, worked>>

\* An outage of the evidence fetch leaves the provider out on the chat paths
\* (is_retryable_outage); embeddings try its other routes all the same.
VerificationFails ==
    /\ step = "verify"
    /\ \E outage \in BOOLEAN : GiveUpRoute("NotSent", outage /\ path # "embeddings")
    /\ UNCHANGED <<request, worked>>

-----------------------------------------------------------------------------
(* dispatch_chat, dispatch_chat_stream, dispatch_embeddings *)

\* The checks before the adapter is called fail: compatibility, execution
\* status, adapting the request.
PreflightFails ==
    /\ step = "dispatch"
    /\ AfterDispatchFailure("NotSent")
    /\ UNCHANGED <<request, worked>>

\* The provider answered.  An answer whose verdict is inconsistent is discarded
\* (ResponseVerificationFailed); a stream checks the verdict before it is sent.
Answered ==
    /\ step = "dispatch"
    /\ worked' = worked + 1
    /\ \/ Finish("ok") /\ UNCHANGED <<at, unavailable, attempts, refreshes>>
       \/ path # "stream" /\ AfterDispatchFailure("ResponseVerificationFailed")
    /\ UNCHANGED request

InconsistentVerdictBeforeStream ==
    /\ step = "dispatch"
    /\ path = "stream"
    /\ AfterDispatchFailure("ResponseVerificationFailed")
    /\ UNCHANGED <<request, worked>>

\* The adapter returned an error.  What it says about the provider is the
\* adapters' side of the contract: Unavailable and a key rotation are raised
\* before any bytes leave, or by RedPill's gateway refusing a superseded session
\* with 412; 429 and 503 mean not processed; the rest is open.
AdapterFails(answer) ==
    /\ step = "dispatch"
    /\ \E didWork \in BOOLEAN :
          /\ didWork => answer \in {"Http", "Adapter", "StatusOther"}
          /\ worked' = IF didWork THEN worked + 1 ELSE worked
    /\ IF RetryKeyRotation(answer)
       THEN /\ step' = "refresh"
            /\ CountRefresh
            /\ UNCHANGED <<at, unavailable, attempts, result>>
       ELSE AfterDispatchFailure(ChatDispatchOutcome(answer))
    /\ UNCHANGED request

\* refresh_selected_route_after_key_rotation; an error of the refresh leaves
\* dispatch_chat through `?` and is judged like any other dispatch failure.
RefreshOk ==
    /\ step = "refresh"
    /\ step' = "dispatch"
    /\ UNCHANGED <<request, at, unavailable, attempts, refreshes, result, worked>>

RefreshFails ==
    /\ step = "refresh"
    /\ AfterDispatchFailure("NotSent")
    /\ UNCHANGED <<request, worked>>

-----------------------------------------------------------------------------
Dispatch ==
    \/ PreflightFails
    \/ Answered
    \/ InconsistentVerdictBeforeStream
    \/ \E answer \in Answers : AdapterFails(answer)

Next ==
    \/ NoStreamingRoute \/ SkipUnavailable \/ TryRoute \/ CandidatesExhausted
    \/ VerificationOk \/ VerificationFails
    \/ Dispatch
    \/ RefreshOk \/ RefreshFails

Spec == Init /\ [][Next]_vars

\* The loop is one task: every await in it ends (HTTP clients have timeouts).
FairSpec == Spec /\ WF_vars(Next)

-----------------------------------------------------------------------------
(* Properties *)

\* "Anything else could replay a request the first provider already processed":
\* over all routes, refreshes and fallbacks of one request, at most one dispatch
\* may have been worked on by a provider, and once one may have been, the send
\* path has stopped.
NeverReplayed ==
    /\ worked <= 1
    /\ worked = 1 => step = "done"

\* What integrators build their own retries and billing on: an error that says
\* the request was not dispatched, or was rejected with 429 or 503, is returned
\* only if no provider worked on it, on this route or an earlier one.
OutcomeIsHonest ==
    step = "done" /\ result # "ok" /\ AllowsRouteFallback(DispatchOutcome(result)) => worked = 0

\* Every request comes back to its caller, whatever the providers answer: key
\* rotations cannot keep it going.
RequestEnds == <>(step = "done")
=============================================================================
