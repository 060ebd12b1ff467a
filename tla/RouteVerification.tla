------------------------- MODULE RouteVerification -------------------------
(***************************************************************************)
(* Route verification in the SDK client: verify_selected_route, its        *)
(* single-flight loop with a bounded wait queue, the owner and waiter drop *)
(* guards, cancellation, the per-wait timeout, and the refresh a send path *)
(* runs when the provider rotated its attested key.                        *)
(*                                                                         *)
(* A caller is one task inside one call of a send path.  A step is what    *)
(* the code does between two points where other tasks can run: a lock      *)
(* acquisition or an await.  The verdict cache and the in-flight map are   *)
(* under two different mutexes, so a caller's look at one and its change   *)
(* of the other are separate steps.                                        *)
(***************************************************************************)
EXTENDS VerdictCache, FiniteSets

CONSTANTS
    Callers,       \* concurrent tasks
    Flights,       \* identities of VerificationFlightState allocations
    NoFlight,      \* no entry in the map / no Arc held
    NoEntry,       \* no cached verdict
    NoVerdict,     \* no verdict in the caller's hands
    MaxWaiters,    \* SINGLE_FLIGHT_MAX_WAITERS
    MaxRefreshes,  \* how often retry_key_rotation refreshes
    ReferenceValidUntil, \* reference_values.valid_until_epoch_ms
    \* Bounds of the model, not of the code.
    MaxRequests,   \* requests a caller makes
    MaxGeneration, \* key rotations per route
    MaxMonotonic,  \* ticks of the monotonic clock
    MaxWall        \* largest epoch the wall clock is set to

ASSUME VerificationAssumption ==
    /\ IsFiniteSet(Callers)
    /\ NoFlight \notin Flights
    /\ MaxWaiters \in Nat
    /\ MaxRefreshes \in Nat
    /\ ReferenceValidUntil \in Nat
    /\ MaxRequests \in Nat
    /\ MaxGeneration \in Nat
    /\ MaxMonotonic \in Nat
    /\ MaxWall \in Nat

VARIABLES
    pc,          \* where each caller is
    key,         \* the cache key of the caller's current request
    mode,        \* how the caller's verification runs: "direct", "owner" or "refresh"
    outcome,     \* how the caller's current request ends
    joined,      \* the VerificationFlightState Arc a waiter guard holds
    notified,    \* callers whose OwnedNotified has been reached by notify_waiters
    fetched,     \* what fetch_and_verify_route has in hand
    held,        \* the verdict of the VerifiedRoute the caller sends with
    refreshes,   \* key-rotation refreshes of the current request
    requests,    \* requests the caller has started
    inFlight,    \* in_flight_verifications: key -> flight
    waiters,     \* VerificationFlightState.waiters
    cache,       \* verdict_cache: key -> entry
    generation,  \* the provider's current attested key, per route (external)
    wall,        \* now_epoch_millis
    monotonic    \* Instant::now

callerVars == <<pc, key, mode, outcome, joined, notified, fetched, held, refreshes, requests>>
clocks == <<wall, monotonic>>
vars == <<callerVars, inFlight, waiters, cache, generation, clocks>>

\* by and request say whose evidence fetch, and for which of its requests, the
\* verdict rests on.
Verdicts == [key : Keys, by : Callers, request : 0..MaxRequests,
             generation : 0..MaxGeneration, expires : Nat]
Entries == [verdict : Verdicts, insertedAt : Nat, insertedWall : Nat]
Steps == {"idle", "lookup", "recheck", "acquire", "waiting", "timedOut", "leaving",
          "fetch", "verify", "store", "release", "ready", "finished"}
Outcomes == {"none", "ok", "failed", "queueFull", "waitTimeout", "cancelled"}

TypeOK ==
    /\ pc \in [Callers -> Steps]
    /\ key \in [Callers -> Keys]
    /\ mode \in [Callers -> {"direct", "owner", "refresh"}]
    /\ outcome \in [Callers -> Outcomes]
    /\ joined \in [Callers -> Flights \cup {NoFlight}]
    /\ notified \subseteq Callers
    /\ fetched \in [Callers -> Verdicts \cup {NoVerdict}]
    /\ held \in [Callers -> Verdicts \cup {NoVerdict}]
    /\ refreshes \in [Callers -> 0..MaxRefreshes]
    /\ requests \in [Callers -> 0..MaxRequests]
    /\ inFlight \in [Keys -> Flights \cup {NoFlight}]
    /\ waiters \in [Flights -> 0..MaxWaiters]
    /\ cache \in [Keys -> Entries \cup {NoEntry}]
    /\ generation \in [Keys -> 0..MaxGeneration]
    /\ wall \in Nat
    /\ monotonic \in Nat

Init ==
    /\ pc = [c \in Callers |-> "idle"]
    /\ key \in [Callers -> Keys]
    /\ mode = [c \in Callers |-> "direct"]
    /\ outcome = [c \in Callers |-> "none"]
    /\ joined = [c \in Callers |-> NoFlight]
    /\ notified = {}
    /\ fetched = [c \in Callers |-> NoVerdict]
    /\ held = [c \in Callers |-> NoVerdict]
    /\ refreshes = [c \in Callers |-> 0]
    /\ requests = [c \in Callers |-> 0]
    /\ inFlight = [k \in Keys |-> NoFlight]
    /\ waiters = [f \in Flights |-> 0]
    /\ cache = [k \in Keys |-> NoEntry]
    /\ generation = [k \in Keys |-> 0]
    /\ wall = 0
    /\ monotonic = 0

-----------------------------------------------------------------------------
(* Pieces of the steps *)

\* What cached_verdict would return for the caller's key, and the entry it
\* removes when it finds one that may no longer be served.
CacheHit(k) ==
    /\ CacheEnabledFor(k)
    /\ cache[k] # NoEntry
    /\ IsValid(cache[k], k, wall, monotonic)

DropInvalidEntry(k) ==
    cache' = IF CacheEnabledFor(k) /\ ~CacheHit(k) THEN [cache EXCEPT ![k] = NoEntry] ELSE cache

Goto(c, step) == pc' = [pc EXCEPT ![c] = step]

\* A caller with a verdict goes on to send; one without returns to its caller.
Proceed(c, result) ==
    /\ Goto(c, IF result = "ok" THEN "ready" ELSE "finished")
    /\ outcome' = [outcome EXCEPT ![c] = result]

UseCachedVerdict(c) == held' = [held EXCEPT ![c] = cache[key[c]].verdict]

\* A VerificationFlightState is freed with its last Arc; its identity may then
\* be used again by a later allocation.
Referenced(f) == (\E k \in Keys : inFlight[k] = f) \/ (\E c \in Callers : joined[c] = f)

-----------------------------------------------------------------------------
(* verify_selected_route *)

Begin(c, k) ==
    /\ pc[c] \in {"idle", "finished"}
    /\ requests[c] < MaxRequests
    /\ Goto(c, "lookup")
    /\ key' = [key EXCEPT ![c] = k]
    /\ mode' = [mode EXCEPT ![c] = "direct"]
    /\ outcome' = [outcome EXCEPT ![c] = "none"]
    /\ fetched' = [fetched EXCEPT ![c] = NoVerdict]
    /\ held' = [held EXCEPT ![c] = NoVerdict]
    /\ refreshes' = [refreshes EXCEPT ![c] = 0]
    /\ requests' = [requests EXCEPT ![c] = @ + 1]
    /\ UNCHANGED <<joined, notified, inFlight, waiters, cache, generation, clocks>>

Lookup(c) ==
    /\ pc[c] = "lookup"
    /\ DropInvalidEntry(key[c])
    /\ \/ /\ CacheHit(key[c])
          /\ UseCachedVerdict(c)
          /\ Proceed(c, "ok")
       \/ /\ ~CacheHit(key[c])
          /\ Goto(c, IF CacheEnabledFor(key[c]) THEN "recheck" ELSE "fetch")
          /\ UNCHANGED <<held, outcome>>
    /\ UNCHANGED <<key, mode, joined, notified, fetched, refreshes, requests,
                   inFlight, waiters, generation, clocks>>

-----------------------------------------------------------------------------
(* verify_selected_route_single_flight *)

\* The head of the loop: the cache again, before the in-flight map.
Recheck(c) ==
    /\ pc[c] = "recheck"
    /\ DropInvalidEntry(key[c])
    /\ \/ /\ CacheHit(key[c])
          /\ UseCachedVerdict(c)
          /\ Proceed(c, "ok")
       \/ /\ ~CacheHit(key[c])
          /\ Goto(c, "acquire")
          /\ UNCHANGED <<held, outcome>>
    /\ UNCHANGED <<key, mode, joined, notified, fetched, refreshes, requests,
                   inFlight, waiters, generation, clocks>>

\* Fault: one waiter too many.
QueueHasRoomOffByOne(f) == waiters[f] <= MaxWaiters

QueueHasRoom(f) == waiters[f] < MaxWaiters

\* acquire_verification_flight, one action per result.
BecomeOwner(c) ==
    /\ pc[c] = "acquire"
    /\ inFlight[key[c]] = NoFlight
    /\ \E f \in Flights :
          /\ ~Referenced(f)
          /\ inFlight' = [inFlight EXCEPT ![key[c]] = f]
          /\ waiters' = [waiters EXCEPT ![f] = 0]
    /\ mode' = [mode EXCEPT ![c] = "owner"]
    /\ Goto(c, "fetch")
    /\ UNCHANGED <<key, outcome, joined, notified, fetched, held, refreshes, requests,
                   cache, generation, clocks>>

JoinFlight(c) ==
    LET f == inFlight[key[c]]
    IN  /\ pc[c] = "acquire"
        /\ f # NoFlight
        /\ QueueHasRoom(f)
        /\ waiters' = [waiters EXCEPT ![f] = @ + 1]
        /\ joined' = [joined EXCEPT ![c] = f]
        /\ Goto(c, "waiting")
        /\ UNCHANGED <<key, mode, outcome, notified, fetched, held, refreshes, requests,
                       inFlight, cache, generation, clocks>>

QueueFull(c) ==
    LET f == inFlight[key[c]]
    IN  /\ pc[c] = "acquire"
        /\ f # NoFlight
        /\ ~QueueHasRoom(f)
        /\ Proceed(c, "queueFull")
        /\ UNCHANGED <<key, mode, joined, notified, fetched, held, refreshes, requests,
                       inFlight, waiters, cache, generation, clocks>>

\* Fault: the slot is given back to the flight now in the map.
DropWaiterGuardOfKey(c) ==
    /\ waiters' = [waiters EXCEPT ![inFlight[key[c]]] = @ - 1]
    /\ joined' = [joined EXCEPT ![c] = NoFlight]
    /\ notified' = notified \ {c}

\* Dropping a VerificationFlightWaiterGuard releases the slot in the flight that
\* was joined, whatever the map holds for the key by now.
DropWaiterGuard(c) ==
    /\ waiters' = [waiters EXCEPT ![joined[c]] = @ - 1]
    /\ joined' = [joined EXCEPT ![c] = NoFlight]
    /\ notified' = notified \ {c}

\* Notified before the timeout: the guard goes with the loop iteration.
Wake(c) ==
    /\ pc[c] = "waiting"
    /\ c \in notified
    /\ DropWaiterGuard(c)
    /\ Goto(c, "recheck")
    /\ UNCHANGED <<key, mode, outcome, fetched, held, refreshes, requests,
                   inFlight, cache, generation, clocks>>

\* single_flight_wait_timeout elapses first.  tokio's timeout polls the wait
\* before the timer, so a caller already notified does not time out.
WaitTimeout(c) ==
    /\ pc[c] = "waiting"
    /\ c \notin notified
    /\ Goto(c, "timedOut")
    /\ UNCHANGED <<key, mode, outcome, joined, notified, fetched, held, refreshes, requests,
                   inFlight, waiters, cache, generation, clocks>>

\* A timed-out waiter looks at the cache once more, still holding its slot.
TimedOutLookup(c) ==
    /\ pc[c] = "timedOut"
    /\ DropInvalidEntry(key[c])
    /\ \/ /\ CacheHit(key[c])
          /\ UseCachedVerdict(c)
          /\ outcome' = [outcome EXCEPT ![c] = "ok"]
       \/ /\ ~CacheHit(key[c])
          /\ outcome' = [outcome EXCEPT ![c] = "waitTimeout"]
          /\ UNCHANGED held
    /\ Goto(c, "leaving")
    /\ UNCHANGED <<key, mode, joined, notified, fetched, refreshes, requests,
                   inFlight, waiters, generation, clocks>>

Leave(c) ==
    /\ pc[c] = "leaving"
    /\ DropWaiterGuard(c)
    /\ Proceed(c, outcome[c])
    /\ UNCHANGED <<key, mode, fetched, held, refreshes, requests,
                   inFlight, cache, generation, clocks>>

-----------------------------------------------------------------------------
(* fetch_and_verify_route, enforce_verdict, store_cached_verdict *)

\* compute_validity_bounds: the earliest of the evidence's own lifetime (at most
\* the policy's TTL) and the end of the reference values' validity.  The verdict
\* says when it expires; nothing here asks whether that is already past.
ComputedExpiry(lifetime) ==
    IF wall + lifetime < ReferenceValidUntil THEN wall + lifetime ELSE ReferenceValidUntil

\* adapter.fetch_evidence: the evidence attests the key the provider has now.
FetchEvidence(c) ==
    /\ pc[c] = "fetch"
    /\ \E lifetime \in 0..VerdictTtl :
          fetched' = [fetched EXCEPT ![c] =
                        [key |-> key[c], by |-> c, request |-> requests[c],
                         generation |-> generation[key[c]], expires |-> ComputedExpiry(lifetime)]]
    /\ Goto(c, "verify")
    /\ UNCHANGED <<key, mode, outcome, joined, notified, held, refreshes, requests,
                   inFlight, waiters, cache, generation, clocks>>

\* Fault: a refresh also drops an owner guard for its key.
RefreshHasOwnerGuard(c) == mode[c] \in {"owner", "refresh"}

\* Fault: the owner never gets a guard, and only a stored verdict ends the flight.
NoOwnerGuard(c) == pc[c] = "store" /\ mode[c] = "owner"

HasOwnerGuard(c) == mode[c] = "owner"

\* An error or a denied verdict skips the store; only an owner has a guard to drop.
AfterFailure(c, result) ==
    IF HasOwnerGuard(c)
    THEN Goto(c, "release") /\ outcome' = [outcome EXCEPT ![c] = result]
    ELSE Proceed(c, result)

FetchFails(c) ==
    /\ pc[c] = "fetch"
    /\ AfterFailure(c, "failed")
    /\ UNCHANGED <<key, mode, joined, notified, fetched, held, refreshes, requests,
                   inFlight, waiters, cache, generation, clocks>>

VerificationDenied(c) ==
    /\ pc[c] = "verify"
    /\ AfterFailure(c, "failed")
    /\ UNCHANGED <<key, mode, joined, notified, fetched, held, refreshes, requests,
                   inFlight, waiters, cache, generation, clocks>>

\* The direct path returns its verdict without storing it.
VerificationAllowed(c) ==
    /\ pc[c] = "verify"
    /\ IF mode[c] = "direct"
       THEN /\ held' = [held EXCEPT ![c] = fetched[c]]
            /\ Proceed(c, "ok")
       ELSE /\ Goto(c, "store")
            /\ UNCHANGED <<held, outcome>>
    /\ UNCHANGED <<key, mode, joined, notified, fetched, refreshes, requests,
                   inFlight, waiters, cache, generation, clocks>>

NewEntry(c) == [verdict |-> fetched[c], insertedAt |-> monotonic, insertedWall |-> wall]

\* Fault: the store does not ask whether the key may be cached.
StoreUnconditionally(c) == cache' = [cache EXCEPT ![key[c]] = NewEntry(c)]

StoreCachedVerdict(c) ==
    cache' = IF CacheEnabledFor(key[c]) THEN [cache EXCEPT ![key[c]] = NewEntry(c)] ELSE cache

StoreVerdict(c) ==
    /\ pc[c] = "store"
    /\ StoreCachedVerdict(c)
    /\ held' = [held EXCEPT ![c] = fetched[c]]
    /\ outcome' = [outcome EXCEPT ![c] = "ok"]
    /\ Goto(c, IF HasOwnerGuard(c) THEN "release" ELSE "ready")
    /\ UNCHANGED <<key, mode, joined, notified, fetched, refreshes, requests,
                   inFlight, waiters, generation, clocks>>

\* Fault: the entry is removed but nobody is woken.
DropOwnerGuardSilently(c) ==
    /\ inFlight' = [inFlight EXCEPT ![key[c]] = NoFlight]
    /\ UNCHANGED notified

\* VerificationFlightOwnerGuard::drop: the entry goes and everyone who created
\* its OwnedNotified before this is woken, in one critical section.
DropOwnerGuard(c) ==
    /\ inFlight' = [inFlight EXCEPT ![key[c]] = NoFlight]
    /\ notified' = notified \cup
                      {w \in Callers : pc[w] = "waiting" /\ joined[w] = inFlight[key[c]]}

Release(c) ==
    /\ pc[c] = "release"
    /\ DropOwnerGuard(c)
    /\ Proceed(c, outcome[c])
    /\ UNCHANGED <<key, mode, joined, fetched, held, refreshes, requests,
                   waiters, cache, generation, clocks>>

-----------------------------------------------------------------------------
(* dispatch_chat: the send itself, and what a key rotation does to it *)

\* The adapter reaches the key its evidence attested: the provider has the request.
SendAccepted(c) ==
    /\ pc[c] = "ready"
    /\ held[c].generation = generation[key[c]]
    /\ Goto(c, "finished")
    /\ UNCHANGED <<key, mode, outcome, joined, notified, fetched, held, refreshes, requests,
                   inFlight, waiters, cache, generation, clocks>>

\* Fault: the refresh goes through the single-flight loop like a first request.
StartSharedRefresh(c) ==
    /\ mode' = [mode EXCEPT ![c] = "direct"]
    /\ Goto(c, "recheck")

StartRefresh(c) ==
    /\ mode' = [mode EXCEPT ![c] = "refresh"]
    /\ Goto(c, "fetch")

\* refresh_selected_route_after_key_rotation, up to its first await.  Adapters
\* report a key rotation when the handshake meets another key and also when they
\* no longer know the verified evidence, so the generations may well agree.
RefreshAfterKeyRotation(c) ==
    /\ pc[c] = "ready"
    /\ refreshes[c] < MaxRefreshes
    /\ refreshes' = [refreshes EXCEPT ![c] = @ + 1]
    /\ cache' = [cache EXCEPT ![key[c]] = NoEntry]
    /\ StartRefresh(c)
    /\ UNCHANGED <<key, outcome, joined, notified, fetched, held, requests,
                   inFlight, waiters, generation, clocks>>

KeyRotationGivesUp(c) ==
    /\ pc[c] = "ready"
    /\ refreshes[c] >= MaxRefreshes
    /\ Proceed(c, "failed")
    /\ UNCHANGED <<key, mode, joined, notified, fetched, held, refreshes, requests,
                   inFlight, waiters, cache, generation, clocks>>

-----------------------------------------------------------------------------
(* The caller drops the future (timeout, select!, disconnect) at an await. *)

CancelWaiter(c) ==
    /\ pc[c] = "waiting"
    /\ DropWaiterGuard(c)
    /\ Proceed(c, "cancelled")
    /\ UNCHANGED <<key, mode, fetched, held, refreshes, requests,
                   inFlight, cache, generation, clocks>>

CancelVerification(c) ==
    /\ pc[c] \in {"fetch", "verify"}
    /\ AfterFailure(c, "cancelled")
    /\ UNCHANGED <<key, mode, joined, notified, fetched, held, refreshes, requests,
                   inFlight, waiters, cache, generation, clocks>>

CancelSend(c) ==
    /\ pc[c] = "ready"
    /\ Proceed(c, "cancelled")
    /\ UNCHANGED <<key, mode, joined, notified, fetched, held, refreshes, requests,
                   inFlight, waiters, cache, generation, clocks>>

-----------------------------------------------------------------------------
(* The environment *)

RotateKey(k) ==
    /\ generation[k] < MaxGeneration
    /\ generation' = [generation EXCEPT ![k] = @ + 1]
    /\ UNCHANGED <<callerVars, inFlight, waiters, cache, clocks>>

Tick ==
    /\ monotonic < MaxMonotonic
    /\ monotonic' = monotonic + 1
    /\ wall' = wall + 1
    /\ UNCHANGED <<callerVars, inFlight, waiters, cache, generation>>

\* The wall clock is set, by NTP or by hand; the monotonic clock is not.
SetWallClock ==
    /\ wall' \in 0..MaxWall
    /\ UNCHANGED <<callerVars, inFlight, waiters, cache, generation, monotonic>>

-----------------------------------------------------------------------------
CallerStep(c) ==
    \/ Lookup(c) \/ Recheck(c)
    \/ BecomeOwner(c) \/ JoinFlight(c) \/ QueueFull(c)
    \/ Wake(c) \/ TimedOutLookup(c) \/ Leave(c)
    \/ FetchEvidence(c) \/ FetchFails(c)
    \/ VerificationDenied(c) \/ VerificationAllowed(c)
    \/ StoreVerdict(c) \/ Release(c)
    \/ SendAccepted(c) \/ RefreshAfterKeyRotation(c) \/ KeyRotationGivesUp(c)

Environment ==
    \/ \E k \in Keys : RotateKey(k)
    \/ Tick
    \/ SetWallClock

Next ==
    \/ \E c \in Callers :
          \/ \E k \in Keys : Begin(c, k)
          \/ CallerStep(c)
          \/ WaitTimeout(c)
          \/ CancelWaiter(c)
          \/ CancelVerification(c)
          \/ CancelSend(c)
    \/ Environment

Spec == Init /\ [][Next]_vars

\* Tasks are polled and evidence fetches end (every evidence client has a total
\* timeout).  Nothing is assumed of new requests, cancellation, rotation, the
\* clocks, nor of the wait timeout: no liveness result may rest on it.
FairSpec == Spec /\ \A c \in Callers : WF_vars(CallerStep(c))

-----------------------------------------------------------------------------
(* Properties *)

\* c owns the flight of its key: from acquire_verification_flight until its
\* owner guard has been dropped.
OwnsFlight(c) == mode[c] = "owner" /\ pc[c] \in {"fetch", "verify", "store", "release"}

\* c holds a waiter guard.
HoldsSlot(c) == pc[c] \in {"waiting", "timedOut", "leaving"}

\* At most one caller at a time verifies a key on behalf of the others, and the
\* in-flight map has an entry exactly while such a caller exists: owners that
\* fail or are cancelled leave no entry behind, and no guard removes the entry
\* of somebody else's flight (VerificationFlightOwnerGuard removes by key).
SingleFlight ==
    /\ \A c, d \in Callers : OwnsFlight(c) /\ OwnsFlight(d) /\ key[c] = key[d] => c = d
    /\ \A k \in Keys : inFlight[k] # NoFlight <=> \E c \in Callers : OwnsFlight(c) /\ key[c] = k

\* The atomic counter of every flight state is the number of callers that hold a
\* waiter guard on it, through wake-ups, timeouts, cancellation and the reuse of
\* a key by later flights, and it never passes SINGLE_FLIGHT_MAX_WAITERS.
WaiterSlots ==
    \A f \in Flights : /\ waiters[f] = Cardinality({c \in Callers : joined[c] = f})
                       /\ waiters[f] <= MaxWaiters

\* A caller that still waits is in the queue of a flight that is in the map and
\* whose owner will wake it: finishing just after the map lock was released by
\* acquire_verification_flight cannot strand it.
NoLostWakeup ==
    \A c \in Callers : pc[c] = "waiting" /\ c \notin notified =>
        /\ inFlight[key[c]] = joined[c]
        /\ \E o \in Callers : OwnsFlight(o) /\ key[o] = key[c]

\* A request that refreshed after a key rotation, or whose route demands
\* per-request freshness, is sent only with evidence it fetched itself for this
\* very request: never with what a concurrent owner stored meanwhile.
FreshEvidence ==
    \A c \in Callers :
        pc[c] = "ready" /\ (refreshes[c] > 0 \/ ~CacheEnabledFor(key[c])) =>
            held[c].by = c /\ held[c].request = requests[c]

\* Routes that demand per-request freshness (or a policy that disables caching)
\* never enter the verdict cache nor the single-flight map, on any path, the
\* refresh included.
PerRequestNeverCached ==
    \A k \in Keys : ~CacheEnabledFor(k) => cache[k] = NoEntry /\ inFlight[k] = NoFlight

\* Whatever the wall clock does, a verdict served from the cache has been there
\* no longer than the policy's limit in monotonic time, and the wall clock has
\* not been moved forward by more than the jump threshold since it was stored.
HitRespectsClocks ==
    [][\A c \in Callers :
          /\ pc[c] \in {"lookup", "recheck", "timedOut"}
          /\ held'[c] # held[c]
          => LET entry == cache[key[c]]
                 age == monotonic - entry.insertedAt
             IN  /\ age <= CacheAgeLimit(key[c])
                 /\ (wall - entry.insertedWall) - age <= JumpThreshold]_vars

\* The tests wall_clock_jump_forward/backward_invalidates_cached_verdict: a
\* verdict is not served once the wall clock has moved by more than the threshold
\* against the monotonic clock since it was stored, in either direction.
ClockJumpRevalidates ==
    [][\A c \in Callers :
          /\ pc[c] \in {"lookup", "recheck", "timedOut"}
          /\ held'[c] # held[c]
          => LET entry == cache[key[c]]
                 age == monotonic - entry.insertedAt
             IN  AbsDiff(wall - entry.insertedWall, age) <= JumpThreshold]_vars

\* A request leaves for the provider only under a verdict that the stale-verdict
\* policy still allows: the reference values a deployment was pinned with "expire
\* after 7 days by default, so they need re-pinning" (docs/development-status.md).
SendsUnexpired ==
    [][\A c \in Callers :
          SendAccepted(c) => AllowedByStalePolicy(held[c].expires, wall)]_vars

\* Every request comes back to its caller even if no wait timeout ever fires: a
\* dead, failed or cancelled owner cannot wedge the route for the others.
CallersReturn ==
    \A c \in Callers : pc[c] \notin {"idle", "finished"} ~> pc[c] = "finished"
=============================================================================
