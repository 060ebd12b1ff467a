---------------------- MODULE RouteVerificationProofs ----------------------
(***************************************************************************)
(* Proofs that route verification keeps its safety invariants for every    *)
(* number of callers, keys, flights and waiters, and every cache policy.   *)
(*                                                                         *)
(* None of the invariants is inductive alone.  The counter of a flight     *)
(* stays in range only because it counts the guards (WaiterSlots), which   *)
(* needs to know who holds a guard (GuardsHeld); that a request sends its  *)
(* own evidence needs to know how it got to the fetch (CallPath).  IInv    *)
(* joins them, and every other theorem follows from it.                    *)
(***************************************************************************)
EXTENDS RouteVerification, FiniteSetTheorems, TLAPS

\* A caller holds the Arc of a flight exactly while it has a waiter guard.
GuardsHeld == \A c \in Callers : joined[c] # NoFlight <=> HoldsSlot(c)

\* What the position of a caller in the code says about its locals.
CallPath ==
    \A c \in Callers :
        /\ pc[c] \in {"lookup", "recheck", "acquire"} \/ HoldsSlot(c) =>
              mode[c] = "direct" /\ refreshes[c] = 0
        /\ pc[c] \in {"recheck", "acquire"} \/ HoldsSlot(c) => CacheEnabledFor(key[c])
        /\ OwnsFlight(c) => refreshes[c] = 0 /\ CacheEnabledFor(key[c])
        /\ pc[c] = "release" => mode[c] = "owner"
        /\ pc[c] \in {"verify", "store"} =>
              /\ fetched[c] \in Verdicts
              /\ fetched[c].by = c
              /\ fetched[c].request = requests[c]

\* The part of NoLostWakeup that does not follow from SingleFlight.
WaitersQueued ==
    \A c \in Callers : pc[c] = "waiting" /\ c \notin notified => inFlight[key[c]] = joined[c]

UncachedKeys == \A k \in Keys : ~CacheEnabledFor(k) => cache[k] = NoEntry

IInv ==
    /\ TypeOK
    /\ GuardsHeld
    /\ CallPath
    /\ SingleFlight
    /\ WaiterSlots
    /\ WaitersQueued
    /\ UncachedKeys
    /\ FreshEvidence

-----------------------------------------------------------------------------
(* Facts about the pieces of the steps *)

\* The callers that hold a waiter guard on flight f.
InQueue(f) == {c \in Callers : joined[c] = f}

\* The queue of a flight is finite and its counter is its size, so a caller in
\* it is counted: dropping its guard cannot take the counter below zero.
LEMMA SlotCounted ==
    ASSUME TypeOK, GuardsHeld, WaiterSlots, NEW c \in Callers, HoldsSlot(c)
    PROVE  /\ joined[c] \in Flights
           /\ waiters[joined[c]] \in 1..MaxWaiters
<1>1. joined[c] \in Flights
  BY DEF TypeOK, GuardsHeld
<1>2. IsFiniteSet(InQueue(joined[c]))
  BY FS_Subset, VerificationAssumption DEF InQueue
<1>3. InQueue(joined[c]) # {}
  BY DEF InQueue
<1>4. waiters[joined[c]] # 0
  BY <1>1, <1>2, <1>3, FS_EmptySet DEF WaiterSlots, InQueue
<1> QED
  BY <1>1, <1>4, VerificationAssumption DEF TypeOK

\* A verdict served from the cache is a verdict.
LEMMA CachedVerdictType ==
    ASSUME TypeOK, NEW k \in Keys, CacheHit(k)
    PROVE  cache[k].verdict \in Verdicts
  BY DEF TypeOK, CacheHit, Entries

\* Fetched evidence is the caller's own, for its current request.
LEMMA FetchedVerdict ==
    ASSUME TypeOK, NEW c \in Callers, FetchEvidence(c)
    PROVE  \E v \in Verdicts : /\ fetched' = [fetched EXCEPT ![c] = v]
                               /\ v.by = c
                               /\ v.request = requests[c]
<1>1. PICK lifetime \in 0..VerdictTtl :
         fetched' = [fetched EXCEPT ![c] =
                        [key |-> key[c], by |-> c, request |-> requests[c],
                         generation |-> generation[key[c]], expires |-> ComputedExpiry(lifetime)]]
  BY DEF FetchEvidence
<1>2. ComputedExpiry(lifetime) \in Nat
  BY <1>1, PolicyAssumption, VerificationAssumption DEF TypeOK, ComputedExpiry
<1> DEFINE v == [key |-> key[c], by |-> c, request |-> requests[c],
                 generation |-> generation[key[c]], expires |-> ComputedExpiry(lifetime)]
<1>3. v \in Verdicts
  BY <1>2 DEF TypeOK, Verdicts
<1> QED
  BY <1>1, <1>3

-----------------------------------------------------------------------------
(* Each conjunct of IInv is preserved: one step per action *)

\* TypeOK: the counters stay in range because they count guards.
LEMMA TypeStep ==
    ASSUME IInv, [Next]_vars
    PROVE  TypeOK'
<1> USE VerificationAssumption, PolicyAssumption
    DEF IInv, TypeOK, CallPath, HoldsSlot, Entries, Steps, Outcomes
<1>1. CASE UNCHANGED vars
  BY <1>1 DEF vars, callerVars, clocks
<1>2. ASSUME NEW c \in Callers, NEW k \in Keys, Begin(c, k) PROVE TypeOK'
  BY <1>2 DEF Begin, Goto, clocks
<1>3. ASSUME NEW c \in Callers, Lookup(c) PROVE TypeOK'
  <2>1. CASE CacheHit(key[c])
    <3>1. cache[key[c]].verdict \in Verdicts
      BY <2>1, CachedVerdictType
    <3> QED
      BY <1>3, <2>1, <3>1 DEF Lookup, DropInvalidEntry, UseCachedVerdict, Proceed, Goto, clocks
  <2>2. CASE ~CacheHit(key[c])
    BY <1>3, <2>2 DEF Lookup, DropInvalidEntry, Proceed, Goto, clocks
  <2> QED
    BY <2>1, <2>2
<1>4. ASSUME NEW c \in Callers, Recheck(c) PROVE TypeOK'
  <2>1. CASE CacheHit(key[c])
    <3>1. cache[key[c]].verdict \in Verdicts
      BY <2>1, CachedVerdictType
    <3> QED
      BY <1>4, <2>1, <3>1 DEF Recheck, DropInvalidEntry, UseCachedVerdict, Proceed, Goto, clocks
  <2>2. CASE ~CacheHit(key[c])
    BY <1>4, <2>2 DEF Recheck, DropInvalidEntry, Proceed, Goto, clocks
  <2> QED
    BY <2>1, <2>2
<1>5. ASSUME NEW c \in Callers, BecomeOwner(c) PROVE TypeOK'
  BY <1>5 DEF BecomeOwner, Referenced, Goto, clocks
<1>6. ASSUME NEW c \in Callers, JoinFlight(c) PROVE TypeOK'
  BY <1>6 DEF JoinFlight, QueueHasRoom, Goto, clocks
<1>7. ASSUME NEW c \in Callers, QueueFull(c) PROVE TypeOK'
  BY <1>7 DEF QueueFull, Proceed, Goto, clocks
<1>8. ASSUME NEW c \in Callers, Wake(c) PROVE TypeOK'
  <2>1. joined[c] \in Flights /\ waiters[joined[c]] \in 1..MaxWaiters
    BY <1>8, SlotCounted DEF Wake
  <2> QED
    BY <1>8, <2>1 DEF Wake, DropWaiterGuard, Goto, clocks
<1>9. ASSUME NEW c \in Callers, TimedOutLookup(c) PROVE TypeOK'
  <2>1. CASE CacheHit(key[c])
    <3>1. cache[key[c]].verdict \in Verdicts
      BY <2>1, CachedVerdictType
    <3> QED
      BY <1>9, <2>1, <3>1 DEF TimedOutLookup, DropInvalidEntry, UseCachedVerdict, Goto, clocks
  <2>2. CASE ~CacheHit(key[c])
    BY <1>9, <2>2 DEF TimedOutLookup, DropInvalidEntry, Goto, clocks
  <2> QED
    BY <2>1, <2>2
<1>10. ASSUME NEW c \in Callers, Leave(c) PROVE TypeOK'
  <2>1. joined[c] \in Flights /\ waiters[joined[c]] \in 1..MaxWaiters
    BY <1>10, SlotCounted DEF Leave
  <2> QED
    BY <1>10, <2>1 DEF Leave, DropWaiterGuard, Proceed, Goto, clocks
<1>11. ASSUME NEW c \in Callers, FetchEvidence(c) PROVE TypeOK'
  <2>1. PICK v \in Verdicts : fetched' = [fetched EXCEPT ![c] = v]
    BY <1>11, FetchedVerdict
  <2> QED
    BY <1>11, <2>1 DEF FetchEvidence, Goto, clocks
<1>12. ASSUME NEW c \in Callers, FetchFails(c) PROVE TypeOK'
  BY <1>12 DEF FetchFails, AfterFailure, HasOwnerGuard, Proceed, Goto, clocks
<1>13. ASSUME NEW c \in Callers, VerificationDenied(c) PROVE TypeOK'
  BY <1>13 DEF VerificationDenied, AfterFailure, HasOwnerGuard, Proceed, Goto, clocks
<1>14. ASSUME NEW c \in Callers, VerificationAllowed(c) PROVE TypeOK'
  BY <1>14 DEF VerificationAllowed, Proceed, Goto, clocks
<1>15. ASSUME NEW c \in Callers, StoreVerdict(c) PROVE TypeOK'
  BY <1>15 DEF StoreVerdict, StoreCachedVerdict, NewEntry, HasOwnerGuard, Goto, clocks
<1>16. ASSUME NEW c \in Callers, Release(c) PROVE TypeOK'
  BY <1>16 DEF Release, DropOwnerGuard, Proceed, Goto, clocks
<1>17. ASSUME NEW c \in Callers, SendAccepted(c) PROVE TypeOK'
  BY <1>17 DEF SendAccepted, Goto, clocks
<1>18. ASSUME NEW c \in Callers, RefreshAfterKeyRotation(c) PROVE TypeOK'
  BY <1>18 DEF RefreshAfterKeyRotation, StartRefresh, Goto, clocks
<1>19. ASSUME NEW c \in Callers, KeyRotationGivesUp(c) PROVE TypeOK'
  BY <1>19 DEF KeyRotationGivesUp, Proceed, Goto, clocks
<1>20. ASSUME NEW c \in Callers, WaitTimeout(c) PROVE TypeOK'
  BY <1>20 DEF WaitTimeout, Goto, clocks
<1>21. ASSUME NEW c \in Callers, CancelWaiter(c) PROVE TypeOK'
  <2>1. joined[c] \in Flights /\ waiters[joined[c]] \in 1..MaxWaiters
    BY <1>21, SlotCounted DEF CancelWaiter
  <2> QED
    BY <1>21, <2>1 DEF CancelWaiter, DropWaiterGuard, Proceed, Goto, clocks
<1>22. ASSUME NEW c \in Callers, CancelVerification(c) PROVE TypeOK'
  BY <1>22 DEF CancelVerification, AfterFailure, HasOwnerGuard, Proceed, Goto, clocks
<1>23. ASSUME NEW c \in Callers, CancelSend(c) PROVE TypeOK'
  BY <1>23 DEF CancelSend, Proceed, Goto, clocks
<1>24. ASSUME NEW k \in Keys, RotateKey(k) PROVE TypeOK'
  BY <1>24 DEF RotateKey, callerVars, clocks
<1>25. CASE Tick
  BY <1>25 DEF Tick, callerVars
<1>26. CASE SetWallClock
  BY <1>26 DEF SetWallClock, callerVars
<1> QED
  BY <1>1, <1>2, <1>3, <1>4, <1>5, <1>6, <1>7, <1>8, <1>9, <1>10, <1>11, <1>12,
     <1>13, <1>14, <1>15, <1>16, <1>17, <1>18, <1>19, <1>20, <1>21, <1>22,
     <1>23, <1>24, <1>25, <1>26 DEF Next, CallerStep, Environment

\* GuardsHeld: every way out of the queue drops the guard.
LEMMA GuardsHeldStep ==
    ASSUME IInv, [Next]_vars
    PROVE  GuardsHeld'
<1> USE VerificationAssumption, PolicyAssumption
    DEF IInv, TypeOK, GuardsHeld, HoldsSlot
<1>1. CASE UNCHANGED vars
  BY <1>1 DEF vars, callerVars, clocks
<1>2. ASSUME NEW c \in Callers, NEW k \in Keys, Begin(c, k) PROVE GuardsHeld'
  BY <1>2 DEF Begin, Goto, clocks
<1>3. ASSUME NEW c \in Callers, Lookup(c) PROVE GuardsHeld'
  BY <1>3 DEF Lookup, DropInvalidEntry, UseCachedVerdict, Proceed, Goto, clocks
<1>4. ASSUME NEW c \in Callers, Recheck(c) PROVE GuardsHeld'
  BY <1>4 DEF Recheck, DropInvalidEntry, UseCachedVerdict, Proceed, Goto, clocks
<1>5. ASSUME NEW c \in Callers, BecomeOwner(c) PROVE GuardsHeld'
  BY <1>5 DEF BecomeOwner, Referenced, Goto, clocks
<1>6. ASSUME NEW c \in Callers, JoinFlight(c) PROVE GuardsHeld'
  BY <1>6 DEF JoinFlight, QueueHasRoom, Goto, clocks
<1>7. ASSUME NEW c \in Callers, QueueFull(c) PROVE GuardsHeld'
  BY <1>7 DEF QueueFull, Proceed, Goto, clocks
<1>8. ASSUME NEW c \in Callers, Wake(c) PROVE GuardsHeld'
  BY <1>8 DEF Wake, DropWaiterGuard, Goto, clocks
<1>9. ASSUME NEW c \in Callers, TimedOutLookup(c) PROVE GuardsHeld'
  BY <1>9 DEF TimedOutLookup, DropInvalidEntry, UseCachedVerdict, Goto, clocks
<1>10. ASSUME NEW c \in Callers, Leave(c) PROVE GuardsHeld'
  BY <1>10 DEF Leave, DropWaiterGuard, Proceed, Goto, clocks
<1>11. ASSUME NEW c \in Callers, FetchEvidence(c) PROVE GuardsHeld'
  BY <1>11 DEF FetchEvidence, Goto, clocks
<1>12. ASSUME NEW c \in Callers, FetchFails(c) PROVE GuardsHeld'
  BY <1>12 DEF FetchFails, AfterFailure, HasOwnerGuard, Proceed, Goto, clocks
<1>13. ASSUME NEW c \in Callers, VerificationDenied(c) PROVE GuardsHeld'
  BY <1>13 DEF VerificationDenied, AfterFailure, HasOwnerGuard, Proceed, Goto, clocks
<1>14. ASSUME NEW c \in Callers, VerificationAllowed(c) PROVE GuardsHeld'
  BY <1>14 DEF VerificationAllowed, Proceed, Goto, clocks
<1>15. ASSUME NEW c \in Callers, StoreVerdict(c) PROVE GuardsHeld'
  BY <1>15 DEF StoreVerdict, StoreCachedVerdict, NewEntry, HasOwnerGuard, Goto, clocks
<1>16. ASSUME NEW c \in Callers, Release(c) PROVE GuardsHeld'
  BY <1>16 DEF Release, DropOwnerGuard, Proceed, Goto, clocks
<1>17. ASSUME NEW c \in Callers, SendAccepted(c) PROVE GuardsHeld'
  BY <1>17 DEF SendAccepted, Goto, clocks
<1>18. ASSUME NEW c \in Callers, RefreshAfterKeyRotation(c) PROVE GuardsHeld'
  BY <1>18 DEF RefreshAfterKeyRotation, StartRefresh, Goto, clocks
<1>19. ASSUME NEW c \in Callers, KeyRotationGivesUp(c) PROVE GuardsHeld'
  BY <1>19 DEF KeyRotationGivesUp, Proceed, Goto, clocks
<1>20. ASSUME NEW c \in Callers, WaitTimeout(c) PROVE GuardsHeld'
  BY <1>20 DEF WaitTimeout, Goto, clocks
<1>21. ASSUME NEW c \in Callers, CancelWaiter(c) PROVE GuardsHeld'
  BY <1>21 DEF CancelWaiter, DropWaiterGuard, Proceed, Goto, clocks
<1>22. ASSUME NEW c \in Callers, CancelVerification(c) PROVE GuardsHeld'
  BY <1>22 DEF CancelVerification, AfterFailure, HasOwnerGuard, Proceed, Goto, clocks
<1>23. ASSUME NEW c \in Callers, CancelSend(c) PROVE GuardsHeld'
  BY <1>23 DEF CancelSend, Proceed, Goto, clocks
<1>24. ASSUME NEW k \in Keys, RotateKey(k) PROVE GuardsHeld'
  BY <1>24 DEF RotateKey, callerVars, clocks
<1>25. CASE Tick
  BY <1>25 DEF Tick, callerVars
<1>26. CASE SetWallClock
  BY <1>26 DEF SetWallClock, callerVars
<1> QED
  BY <1>1, <1>2, <1>3, <1>4, <1>5, <1>6, <1>7, <1>8, <1>9, <1>10, <1>11, <1>12,
     <1>13, <1>14, <1>15, <1>16, <1>17, <1>18, <1>19, <1>20, <1>21, <1>22,
     <1>23, <1>24, <1>25, <1>26 DEF Next, CallerStep, Environment

\* CallPath: a refresh leaves the shared path for good.
LEMMA CallPathStep ==
    ASSUME IInv, [Next]_vars
    PROVE  CallPath'
<1> USE VerificationAssumption, PolicyAssumption
    DEF IInv, TypeOK, CallPath, HoldsSlot, OwnsFlight
<1>1. CASE UNCHANGED vars
  BY <1>1 DEF vars, callerVars, clocks
<1>2. ASSUME NEW c \in Callers, NEW k \in Keys, Begin(c, k) PROVE CallPath'
  BY <1>2 DEF Begin, Goto, clocks
<1>3. ASSUME NEW c \in Callers, Lookup(c) PROVE CallPath'
  BY <1>3 DEF Lookup, DropInvalidEntry, UseCachedVerdict, Proceed, Goto, clocks
<1>4. ASSUME NEW c \in Callers, Recheck(c) PROVE CallPath'
  BY <1>4 DEF Recheck, DropInvalidEntry, UseCachedVerdict, Proceed, Goto, clocks
<1>5. ASSUME NEW c \in Callers, BecomeOwner(c) PROVE CallPath'
  BY <1>5 DEF BecomeOwner, Referenced, Goto, clocks
<1>6. ASSUME NEW c \in Callers, JoinFlight(c) PROVE CallPath'
  BY <1>6 DEF JoinFlight, QueueHasRoom, Goto, clocks
<1>7. ASSUME NEW c \in Callers, QueueFull(c) PROVE CallPath'
  BY <1>7 DEF QueueFull, Proceed, Goto, clocks
<1>8. ASSUME NEW c \in Callers, Wake(c) PROVE CallPath'
  BY <1>8 DEF Wake, DropWaiterGuard, Goto, clocks
<1>9. ASSUME NEW c \in Callers, TimedOutLookup(c) PROVE CallPath'
  BY <1>9 DEF TimedOutLookup, DropInvalidEntry, UseCachedVerdict, Goto, clocks
<1>10. ASSUME NEW c \in Callers, Leave(c) PROVE CallPath'
  BY <1>10 DEF Leave, DropWaiterGuard, Proceed, Goto, clocks
<1>11. ASSUME NEW c \in Callers, FetchEvidence(c) PROVE CallPath'
  <2>1. PICK v \in Verdicts : /\ fetched' = [fetched EXCEPT ![c] = v]
                              /\ v.by = c
                              /\ v.request = requests[c]
    BY <1>11, FetchedVerdict
  <2> QED
    BY <1>11, <2>1 DEF FetchEvidence, Goto, clocks
<1>12. ASSUME NEW c \in Callers, FetchFails(c) PROVE CallPath'
  BY <1>12 DEF FetchFails, AfterFailure, HasOwnerGuard, Proceed, Goto, clocks
<1>13. ASSUME NEW c \in Callers, VerificationDenied(c) PROVE CallPath'
  BY <1>13 DEF VerificationDenied, AfterFailure, HasOwnerGuard, Proceed, Goto, clocks
<1>14. ASSUME NEW c \in Callers, VerificationAllowed(c) PROVE CallPath'
  BY <1>14 DEF VerificationAllowed, Proceed, Goto, clocks
<1>15. ASSUME NEW c \in Callers, StoreVerdict(c) PROVE CallPath'
  BY <1>15 DEF StoreVerdict, StoreCachedVerdict, NewEntry, HasOwnerGuard, Goto, clocks
<1>16. ASSUME NEW c \in Callers, Release(c) PROVE CallPath'
  BY <1>16 DEF Release, DropOwnerGuard, Proceed, Goto, clocks
<1>17. ASSUME NEW c \in Callers, SendAccepted(c) PROVE CallPath'
  BY <1>17 DEF SendAccepted, Goto, clocks
<1>18. ASSUME NEW c \in Callers, RefreshAfterKeyRotation(c) PROVE CallPath'
  BY <1>18 DEF RefreshAfterKeyRotation, StartRefresh, Goto, clocks
<1>19. ASSUME NEW c \in Callers, KeyRotationGivesUp(c) PROVE CallPath'
  BY <1>19 DEF KeyRotationGivesUp, Proceed, Goto, clocks
<1>20. ASSUME NEW c \in Callers, WaitTimeout(c) PROVE CallPath'
  BY <1>20 DEF WaitTimeout, Goto, clocks
<1>21. ASSUME NEW c \in Callers, CancelWaiter(c) PROVE CallPath'
  BY <1>21 DEF CancelWaiter, DropWaiterGuard, Proceed, Goto, clocks
<1>22. ASSUME NEW c \in Callers, CancelVerification(c) PROVE CallPath'
  BY <1>22 DEF CancelVerification, AfterFailure, HasOwnerGuard, Proceed, Goto, clocks
<1>23. ASSUME NEW c \in Callers, CancelSend(c) PROVE CallPath'
  BY <1>23 DEF CancelSend, Proceed, Goto, clocks
<1>24. ASSUME NEW k \in Keys, RotateKey(k) PROVE CallPath'
  BY <1>24 DEF RotateKey, callerVars, clocks
<1>25. CASE Tick
  BY <1>25 DEF Tick, callerVars
<1>26. CASE SetWallClock
  BY <1>26 DEF SetWallClock, callerVars
<1> QED
  BY <1>1, <1>2, <1>3, <1>4, <1>5, <1>6, <1>7, <1>8, <1>9, <1>10, <1>11, <1>12,
     <1>13, <1>14, <1>15, <1>16, <1>17, <1>18, <1>19, <1>20, <1>21, <1>22,
     <1>23, <1>24, <1>25, <1>26 DEF Next, CallerStep, Environment

\* SingleFlight: only an owner's guard removes an entry, and only its own.
LEMMA SingleFlightStep ==
    ASSUME IInv, [Next]_vars
    PROVE  SingleFlight'
<1> USE VerificationAssumption, PolicyAssumption
    DEF IInv, TypeOK, SingleFlight, CallPath, HoldsSlot, OwnsFlight
<1>1. CASE UNCHANGED vars
  BY <1>1 DEF vars, callerVars, clocks
<1>2. ASSUME NEW c \in Callers, NEW k \in Keys, Begin(c, k) PROVE SingleFlight'
  BY <1>2 DEF Begin, Goto, clocks
<1>3. ASSUME NEW c \in Callers, Lookup(c) PROVE SingleFlight'
  <2>1. UNCHANGED <<key, mode, inFlight>>
    BY <1>3 DEF Lookup
  <2>2. \A d \in Callers : OwnsFlight(d)' <=> OwnsFlight(d)
    BY <1>3, <2>1 DEF Lookup, Proceed, Goto
  <2> QED
    BY <2>1, <2>2
<1>4. ASSUME NEW c \in Callers, Recheck(c) PROVE SingleFlight'
  BY <1>4 DEF Recheck, DropInvalidEntry, UseCachedVerdict, Proceed, Goto, clocks
<1>5. ASSUME NEW c \in Callers, BecomeOwner(c) PROVE SingleFlight'
  BY <1>5 DEF BecomeOwner, Referenced, Goto, clocks
<1>6. ASSUME NEW c \in Callers, JoinFlight(c) PROVE SingleFlight'
  BY <1>6 DEF JoinFlight, QueueHasRoom, Goto, clocks
<1>7. ASSUME NEW c \in Callers, QueueFull(c) PROVE SingleFlight'
  BY <1>7 DEF QueueFull, Proceed, Goto, clocks
<1>8. ASSUME NEW c \in Callers, Wake(c) PROVE SingleFlight'
  BY <1>8 DEF Wake, DropWaiterGuard, Goto, clocks
<1>9. ASSUME NEW c \in Callers, TimedOutLookup(c) PROVE SingleFlight'
  BY <1>9 DEF TimedOutLookup, DropInvalidEntry, UseCachedVerdict, Goto, clocks
<1>10. ASSUME NEW c \in Callers, Leave(c) PROVE SingleFlight'
  BY <1>10 DEF Leave, DropWaiterGuard, Proceed, Goto, clocks
<1>11. ASSUME NEW c \in Callers, FetchEvidence(c) PROVE SingleFlight'
  BY <1>11 DEF FetchEvidence, Goto, clocks
<1>12. ASSUME NEW c \in Callers, FetchFails(c) PROVE SingleFlight'
  BY <1>12 DEF FetchFails, AfterFailure, HasOwnerGuard, Proceed, Goto, clocks
<1>13. ASSUME NEW c \in Callers, VerificationDenied(c) PROVE SingleFlight'
  BY <1>13 DEF VerificationDenied, AfterFailure, HasOwnerGuard, Proceed, Goto, clocks
<1>14. ASSUME NEW c \in Callers, VerificationAllowed(c) PROVE SingleFlight'
  <2>1. UNCHANGED <<key, mode, inFlight>>
    BY <1>14 DEF VerificationAllowed
  <2>2. \A d \in Callers : OwnsFlight(d)' <=> OwnsFlight(d)
    BY <1>14, <2>1 DEF VerificationAllowed, Proceed, Goto
  <2> QED
    BY <2>1, <2>2
<1>15. ASSUME NEW c \in Callers, StoreVerdict(c) PROVE SingleFlight'
  BY <1>15 DEF StoreVerdict, StoreCachedVerdict, NewEntry, HasOwnerGuard, Goto, clocks
<1>16. ASSUME NEW c \in Callers, Release(c) PROVE SingleFlight'
  BY <1>16 DEF Release, DropOwnerGuard, Proceed, Goto, clocks
<1>17. ASSUME NEW c \in Callers, SendAccepted(c) PROVE SingleFlight'
  BY <1>17 DEF SendAccepted, Goto, clocks
<1>18. ASSUME NEW c \in Callers, RefreshAfterKeyRotation(c) PROVE SingleFlight'
  BY <1>18 DEF RefreshAfterKeyRotation, StartRefresh, Goto, clocks
<1>19. ASSUME NEW c \in Callers, KeyRotationGivesUp(c) PROVE SingleFlight'
  BY <1>19 DEF KeyRotationGivesUp, Proceed, Goto, clocks
<1>20. ASSUME NEW c \in Callers, WaitTimeout(c) PROVE SingleFlight'
  BY <1>20 DEF WaitTimeout, Goto, clocks
<1>21. ASSUME NEW c \in Callers, CancelWaiter(c) PROVE SingleFlight'
  BY <1>21 DEF CancelWaiter, DropWaiterGuard, Proceed, Goto, clocks
<1>22. ASSUME NEW c \in Callers, CancelVerification(c) PROVE SingleFlight'
  BY <1>22 DEF CancelVerification, AfterFailure, HasOwnerGuard, Proceed, Goto, clocks
<1>23. ASSUME NEW c \in Callers, CancelSend(c) PROVE SingleFlight'
  BY <1>23 DEF CancelSend, Proceed, Goto, clocks
<1>24. ASSUME NEW k \in Keys, RotateKey(k) PROVE SingleFlight'
  BY <1>24 DEF RotateKey, callerVars, clocks
<1>25. CASE Tick
  BY <1>25 DEF Tick, callerVars
<1>26. CASE SetWallClock
  BY <1>26 DEF SetWallClock, callerVars
<1> QED
  BY <1>1, <1>2, <1>3, <1>4, <1>5, <1>6, <1>7, <1>8, <1>9, <1>10, <1>11, <1>12,
     <1>13, <1>14, <1>15, <1>16, <1>17, <1>18, <1>19, <1>20, <1>21, <1>22,
     <1>23, <1>24, <1>25, <1>26 DEF Next, CallerStep, Environment

\* WaitersQueued: a flight leaves the map only together with the wake-up.
LEMMA WaitersQueuedStep ==
    ASSUME IInv, [Next]_vars
    PROVE  WaitersQueued'
<1> USE VerificationAssumption, PolicyAssumption
    DEF IInv, TypeOK, WaitersQueued, GuardsHeld, CallPath, HoldsSlot, OwnsFlight, SingleFlight
<1>1. CASE UNCHANGED vars
  BY <1>1 DEF vars, callerVars, clocks
<1>2. ASSUME NEW c \in Callers, NEW k \in Keys, Begin(c, k) PROVE WaitersQueued'
  BY <1>2 DEF Begin, Goto, clocks
<1>3. ASSUME NEW c \in Callers, Lookup(c) PROVE WaitersQueued'
  BY <1>3 DEF Lookup, DropInvalidEntry, UseCachedVerdict, Proceed, Goto, clocks
<1>4. ASSUME NEW c \in Callers, Recheck(c) PROVE WaitersQueued'
  BY <1>4 DEF Recheck, DropInvalidEntry, UseCachedVerdict, Proceed, Goto, clocks
<1>5. ASSUME NEW c \in Callers, BecomeOwner(c) PROVE WaitersQueued'
  BY <1>5 DEF BecomeOwner, Referenced, Goto, clocks
<1>6. ASSUME NEW c \in Callers, JoinFlight(c) PROVE WaitersQueued'
  BY <1>6 DEF JoinFlight, QueueHasRoom, Goto, clocks
<1>7. ASSUME NEW c \in Callers, QueueFull(c) PROVE WaitersQueued'
  BY <1>7 DEF QueueFull, Proceed, Goto, clocks
<1>8. ASSUME NEW c \in Callers, Wake(c) PROVE WaitersQueued'
  BY <1>8 DEF Wake, DropWaiterGuard, Goto, clocks
<1>9. ASSUME NEW c \in Callers, TimedOutLookup(c) PROVE WaitersQueued'
  BY <1>9 DEF TimedOutLookup, DropInvalidEntry, UseCachedVerdict, Goto, clocks
<1>10. ASSUME NEW c \in Callers, Leave(c) PROVE WaitersQueued'
  BY <1>10 DEF Leave, DropWaiterGuard, Proceed, Goto, clocks
<1>11. ASSUME NEW c \in Callers, FetchEvidence(c) PROVE WaitersQueued'
  BY <1>11 DEF FetchEvidence, Goto, clocks
<1>12. ASSUME NEW c \in Callers, FetchFails(c) PROVE WaitersQueued'
  BY <1>12 DEF FetchFails, AfterFailure, HasOwnerGuard, Proceed, Goto, clocks
<1>13. ASSUME NEW c \in Callers, VerificationDenied(c) PROVE WaitersQueued'
  BY <1>13 DEF VerificationDenied, AfterFailure, HasOwnerGuard, Proceed, Goto, clocks
<1>14. ASSUME NEW c \in Callers, VerificationAllowed(c) PROVE WaitersQueued'
  BY <1>14 DEF VerificationAllowed, Proceed, Goto, clocks
<1>15. ASSUME NEW c \in Callers, StoreVerdict(c) PROVE WaitersQueued'
  BY <1>15 DEF StoreVerdict, StoreCachedVerdict, NewEntry, HasOwnerGuard, Goto, clocks
<1>16. ASSUME NEW c \in Callers, Release(c) PROVE WaitersQueued'
  BY <1>16 DEF Release, DropOwnerGuard, Proceed, Goto, clocks
<1>17. ASSUME NEW c \in Callers, SendAccepted(c) PROVE WaitersQueued'
  BY <1>17 DEF SendAccepted, Goto, clocks
<1>18. ASSUME NEW c \in Callers, RefreshAfterKeyRotation(c) PROVE WaitersQueued'
  BY <1>18 DEF RefreshAfterKeyRotation, StartRefresh, Goto, clocks
<1>19. ASSUME NEW c \in Callers, KeyRotationGivesUp(c) PROVE WaitersQueued'
  BY <1>19 DEF KeyRotationGivesUp, Proceed, Goto, clocks
<1>20. ASSUME NEW c \in Callers, WaitTimeout(c) PROVE WaitersQueued'
  BY <1>20 DEF WaitTimeout, Goto, clocks
<1>21. ASSUME NEW c \in Callers, CancelWaiter(c) PROVE WaitersQueued'
  BY <1>21 DEF CancelWaiter, DropWaiterGuard, Proceed, Goto, clocks
<1>22. ASSUME NEW c \in Callers, CancelVerification(c) PROVE WaitersQueued'
  BY <1>22 DEF CancelVerification, AfterFailure, HasOwnerGuard, Proceed, Goto, clocks
<1>23. ASSUME NEW c \in Callers, CancelSend(c) PROVE WaitersQueued'
  BY <1>23 DEF CancelSend, Proceed, Goto, clocks
<1>24. ASSUME NEW k \in Keys, RotateKey(k) PROVE WaitersQueued'
  BY <1>24 DEF RotateKey, callerVars, clocks
<1>25. CASE Tick
  BY <1>25 DEF Tick, callerVars
<1>26. CASE SetWallClock
  BY <1>26 DEF SetWallClock, callerVars
<1> QED
  BY <1>1, <1>2, <1>3, <1>4, <1>5, <1>6, <1>7, <1>8, <1>9, <1>10, <1>11, <1>12,
     <1>13, <1>14, <1>15, <1>16, <1>17, <1>18, <1>19, <1>20, <1>21, <1>22,
     <1>23, <1>24, <1>25, <1>26 DEF Next, CallerStep, Environment

\* UncachedKeys: every store asks the cache policy first.
LEMMA UncachedKeysStep ==
    ASSUME IInv, [Next]_vars
    PROVE  UncachedKeys'
<1> USE VerificationAssumption, PolicyAssumption
    DEF IInv, TypeOK, UncachedKeys
<1>1. CASE UNCHANGED vars
  BY <1>1 DEF vars, callerVars, clocks
<1>2. ASSUME NEW c \in Callers, NEW k \in Keys, Begin(c, k) PROVE UncachedKeys'
  BY <1>2 DEF Begin, Goto, clocks
<1>3. ASSUME NEW c \in Callers, Lookup(c) PROVE UncachedKeys'
  BY <1>3 DEF Lookup, DropInvalidEntry, UseCachedVerdict, Proceed, Goto, clocks
<1>4. ASSUME NEW c \in Callers, Recheck(c) PROVE UncachedKeys'
  BY <1>4 DEF Recheck, DropInvalidEntry, UseCachedVerdict, Proceed, Goto, clocks
<1>5. ASSUME NEW c \in Callers, BecomeOwner(c) PROVE UncachedKeys'
  BY <1>5 DEF BecomeOwner, Referenced, Goto, clocks
<1>6. ASSUME NEW c \in Callers, JoinFlight(c) PROVE UncachedKeys'
  BY <1>6 DEF JoinFlight, QueueHasRoom, Goto, clocks
<1>7. ASSUME NEW c \in Callers, QueueFull(c) PROVE UncachedKeys'
  BY <1>7 DEF QueueFull, Proceed, Goto, clocks
<1>8. ASSUME NEW c \in Callers, Wake(c) PROVE UncachedKeys'
  BY <1>8 DEF Wake, DropWaiterGuard, Goto, clocks
<1>9. ASSUME NEW c \in Callers, TimedOutLookup(c) PROVE UncachedKeys'
  BY <1>9 DEF TimedOutLookup, DropInvalidEntry, UseCachedVerdict, Goto, clocks
<1>10. ASSUME NEW c \in Callers, Leave(c) PROVE UncachedKeys'
  BY <1>10 DEF Leave, DropWaiterGuard, Proceed, Goto, clocks
<1>11. ASSUME NEW c \in Callers, FetchEvidence(c) PROVE UncachedKeys'
  BY <1>11 DEF FetchEvidence, Goto, clocks
<1>12. ASSUME NEW c \in Callers, FetchFails(c) PROVE UncachedKeys'
  BY <1>12 DEF FetchFails, AfterFailure, HasOwnerGuard, Proceed, Goto, clocks
<1>13. ASSUME NEW c \in Callers, VerificationDenied(c) PROVE UncachedKeys'
  BY <1>13 DEF VerificationDenied, AfterFailure, HasOwnerGuard, Proceed, Goto, clocks
<1>14. ASSUME NEW c \in Callers, VerificationAllowed(c) PROVE UncachedKeys'
  BY <1>14 DEF VerificationAllowed, Proceed, Goto, clocks
<1>15. ASSUME NEW c \in Callers, StoreVerdict(c) PROVE UncachedKeys'
  BY <1>15 DEF StoreVerdict, StoreCachedVerdict, NewEntry, HasOwnerGuard, Goto, clocks
<1>16. ASSUME NEW c \in Callers, Release(c) PROVE UncachedKeys'
  BY <1>16 DEF Release, DropOwnerGuard, Proceed, Goto, clocks
<1>17. ASSUME NEW c \in Callers, SendAccepted(c) PROVE UncachedKeys'
  BY <1>17 DEF SendAccepted, Goto, clocks
<1>18. ASSUME NEW c \in Callers, RefreshAfterKeyRotation(c) PROVE UncachedKeys'
  BY <1>18 DEF RefreshAfterKeyRotation, StartRefresh, Goto, clocks
<1>19. ASSUME NEW c \in Callers, KeyRotationGivesUp(c) PROVE UncachedKeys'
  BY <1>19 DEF KeyRotationGivesUp, Proceed, Goto, clocks
<1>20. ASSUME NEW c \in Callers, WaitTimeout(c) PROVE UncachedKeys'
  BY <1>20 DEF WaitTimeout, Goto, clocks
<1>21. ASSUME NEW c \in Callers, CancelWaiter(c) PROVE UncachedKeys'
  BY <1>21 DEF CancelWaiter, DropWaiterGuard, Proceed, Goto, clocks
<1>22. ASSUME NEW c \in Callers, CancelVerification(c) PROVE UncachedKeys'
  BY <1>22 DEF CancelVerification, AfterFailure, HasOwnerGuard, Proceed, Goto, clocks
<1>23. ASSUME NEW c \in Callers, CancelSend(c) PROVE UncachedKeys'
  BY <1>23 DEF CancelSend, Proceed, Goto, clocks
<1>24. ASSUME NEW k \in Keys, RotateKey(k) PROVE UncachedKeys'
  BY <1>24 DEF RotateKey, callerVars, clocks
<1>25. CASE Tick
  BY <1>25 DEF Tick, callerVars
<1>26. CASE SetWallClock
  BY <1>26 DEF SetWallClock, callerVars
<1> QED
  BY <1>1, <1>2, <1>3, <1>4, <1>5, <1>6, <1>7, <1>8, <1>9, <1>10, <1>11, <1>12,
     <1>13, <1>14, <1>15, <1>16, <1>17, <1>18, <1>19, <1>20, <1>21, <1>22,
     <1>23, <1>24, <1>25, <1>26 DEF Next, CallerStep, Environment

\* FreshEvidence: what is sent after a refresh was fetched by the sender.
LEMMA FreshEvidenceStep ==
    ASSUME IInv, [Next]_vars
    PROVE  FreshEvidence'
<1> USE VerificationAssumption, PolicyAssumption
    DEF IInv, TypeOK, FreshEvidence, CallPath, HoldsSlot, OwnsFlight, CacheHit
<1>1. CASE UNCHANGED vars
  BY <1>1 DEF vars, callerVars, clocks
<1>2. ASSUME NEW c \in Callers, NEW k \in Keys, Begin(c, k) PROVE FreshEvidence'
  BY <1>2 DEF Begin, Goto, clocks
<1>3. ASSUME NEW c \in Callers, Lookup(c) PROVE FreshEvidence'
  BY <1>3 DEF Lookup, DropInvalidEntry, UseCachedVerdict, Proceed, Goto, clocks
<1>4. ASSUME NEW c \in Callers, Recheck(c) PROVE FreshEvidence'
  BY <1>4 DEF Recheck, DropInvalidEntry, UseCachedVerdict, Proceed, Goto, clocks
<1>5. ASSUME NEW c \in Callers, BecomeOwner(c) PROVE FreshEvidence'
  BY <1>5 DEF BecomeOwner, Referenced, Goto, clocks
<1>6. ASSUME NEW c \in Callers, JoinFlight(c) PROVE FreshEvidence'
  BY <1>6 DEF JoinFlight, QueueHasRoom, Goto, clocks
<1>7. ASSUME NEW c \in Callers, QueueFull(c) PROVE FreshEvidence'
  BY <1>7 DEF QueueFull, Proceed, Goto, clocks
<1>8. ASSUME NEW c \in Callers, Wake(c) PROVE FreshEvidence'
  BY <1>8 DEF Wake, DropWaiterGuard, Goto, clocks
<1>9. ASSUME NEW c \in Callers, TimedOutLookup(c) PROVE FreshEvidence'
  BY <1>9 DEF TimedOutLookup, DropInvalidEntry, UseCachedVerdict, Goto, clocks
<1>10. ASSUME NEW c \in Callers, Leave(c) PROVE FreshEvidence'
  BY <1>10 DEF Leave, DropWaiterGuard, Proceed, Goto, clocks
<1>11. ASSUME NEW c \in Callers, FetchEvidence(c) PROVE FreshEvidence'
  BY <1>11 DEF FetchEvidence, Goto, clocks
<1>12. ASSUME NEW c \in Callers, FetchFails(c) PROVE FreshEvidence'
  BY <1>12 DEF FetchFails, AfterFailure, HasOwnerGuard, Proceed, Goto, clocks
<1>13. ASSUME NEW c \in Callers, VerificationDenied(c) PROVE FreshEvidence'
  BY <1>13 DEF VerificationDenied, AfterFailure, HasOwnerGuard, Proceed, Goto, clocks
<1>14. ASSUME NEW c \in Callers, VerificationAllowed(c) PROVE FreshEvidence'
  BY <1>14 DEF VerificationAllowed, Proceed, Goto, clocks
<1>15. ASSUME NEW c \in Callers, StoreVerdict(c) PROVE FreshEvidence'
  BY <1>15 DEF StoreVerdict, StoreCachedVerdict, NewEntry, HasOwnerGuard, Goto, clocks
<1>16. ASSUME NEW c \in Callers, Release(c) PROVE FreshEvidence'
  BY <1>16 DEF Release, DropOwnerGuard, Proceed, Goto, clocks
<1>17. ASSUME NEW c \in Callers, SendAccepted(c) PROVE FreshEvidence'
  BY <1>17 DEF SendAccepted, Goto, clocks
<1>18. ASSUME NEW c \in Callers, RefreshAfterKeyRotation(c) PROVE FreshEvidence'
  BY <1>18 DEF RefreshAfterKeyRotation, StartRefresh, Goto, clocks
<1>19. ASSUME NEW c \in Callers, KeyRotationGivesUp(c) PROVE FreshEvidence'
  BY <1>19 DEF KeyRotationGivesUp, Proceed, Goto, clocks
<1>20. ASSUME NEW c \in Callers, WaitTimeout(c) PROVE FreshEvidence'
  BY <1>20 DEF WaitTimeout, Goto, clocks
<1>21. ASSUME NEW c \in Callers, CancelWaiter(c) PROVE FreshEvidence'
  BY <1>21 DEF CancelWaiter, DropWaiterGuard, Proceed, Goto, clocks
<1>22. ASSUME NEW c \in Callers, CancelVerification(c) PROVE FreshEvidence'
  BY <1>22 DEF CancelVerification, AfterFailure, HasOwnerGuard, Proceed, Goto, clocks
<1>23. ASSUME NEW c \in Callers, CancelSend(c) PROVE FreshEvidence'
  BY <1>23 DEF CancelSend, Proceed, Goto, clocks
<1>24. ASSUME NEW k \in Keys, RotateKey(k) PROVE FreshEvidence'
  BY <1>24 DEF RotateKey, callerVars, clocks
<1>25. CASE Tick
  BY <1>25 DEF Tick, callerVars
<1>26. CASE SetWallClock
  BY <1>26 DEF SetWallClock, callerVars
<1> QED
  BY <1>1, <1>2, <1>3, <1>4, <1>5, <1>6, <1>7, <1>8, <1>9, <1>10, <1>11, <1>12,
     <1>13, <1>14, <1>15, <1>16, <1>17, <1>18, <1>19, <1>20, <1>21, <1>22,
     <1>23, <1>24, <1>25, <1>26 DEF Next, CallerStep, Environment

\* WaiterSlots: a step leaves every queue as it is, adds the caller to one, takes
\* it out of one, or starts a flight nobody has joined.
LEMMA WaiterSlotsStep ==
    ASSUME IInv, TypeOK', [Next]_vars
    PROVE  WaiterSlots'
<1> USE DEF IInv
<1>1. \A f \in Flights : waiters'[f] \in 0..MaxWaiters
  BY DEF TypeOK
<1>2. SUFFICES \A f \in Flights : waiters'[f] = Cardinality(InQueue(f)')
  BY <1>1, VerificationAssumption DEF WaiterSlots, InQueue
<1>3. \A f \in Flights : /\ IsFiniteSet(InQueue(f))
                         /\ waiters[f] = Cardinality(InQueue(f))
                         /\ waiters[f] \in Nat
  BY FS_Subset, VerificationAssumption DEF TypeOK, WaiterSlots, InQueue
<1>4. CASE UNCHANGED <<joined, waiters>>
  BY <1>3, <1>4 DEF InQueue
<1>5. ASSUME NEW c \in Callers, BecomeOwner(c)
      PROVE  \A f \in Flights : waiters'[f] = Cardinality(InQueue(f)')
  <2>1. PICK f \in Flights : ~Referenced(f) /\ waiters' = [waiters EXCEPT ![f] = 0]
    BY <1>5 DEF BecomeOwner
  <2>2. \A g \in Flights : InQueue(g)' = InQueue(g)
    BY <1>5 DEF BecomeOwner, InQueue
  <2>3. InQueue(f) = {}
    BY <2>1 DEF Referenced, InQueue
  <2> QED
    BY <1>3, <2>1, <2>2, <2>3, FS_EmptySet DEF TypeOK
<1>6. ASSUME NEW c \in Callers, JoinFlight(c)
      PROVE  \A f \in Flights : waiters'[f] = Cardinality(InQueue(f)')
  <2>1. PICK g \in Flights :
           /\ waiters' = [waiters EXCEPT ![g] = waiters[g] + 1]
           /\ joined' = [joined EXCEPT ![c] = g]
           /\ joined[c] = NoFlight
    BY <1>6 DEF JoinFlight, TypeOK, GuardsHeld, HoldsSlot
  <2>2. InQueue(g)' = InQueue(g) \cup {c} /\ c \notin InQueue(g)
    BY <2>1, VerificationAssumption DEF InQueue, TypeOK
  <2>3. Cardinality(InQueue(g) \cup {c}) = Cardinality(InQueue(g)) + 1
    BY <1>3, <2>1, <2>2, FS_AddElement
  <2>4. \A f \in Flights \ {g} : InQueue(f)' = InQueue(f)
    BY <2>1, VerificationAssumption DEF InQueue, TypeOK
  <2> QED
    BY <1>3, <2>1, <2>2, <2>3, <2>4 DEF TypeOK
<1>7. ASSUME NEW c \in Callers, HoldsSlot(c), DropWaiterGuard(c)
      PROVE  \A f \in Flights : waiters'[f] = Cardinality(InQueue(f)')
  <2>1. PICK g \in Flights : g = joined[c]
    BY <1>7, SlotCounted
  <2>2. InQueue(g)' = InQueue(g) \ {c} /\ c \in InQueue(g)
    BY <1>7, <2>1, VerificationAssumption DEF InQueue, TypeOK, DropWaiterGuard
  <2>3. Cardinality(InQueue(g) \ {c}) = Cardinality(InQueue(g)) - 1
    BY <1>3, <2>1, <2>2, FS_RemoveElement
  <2>4. \A f \in Flights \ {g} : InQueue(f)' = InQueue(f)
    BY <1>7, <2>1, VerificationAssumption DEF InQueue, TypeOK, DropWaiterGuard
  <2> QED
    BY <1>3, <1>7, <2>1, <2>2, <2>3, <2>4 DEF TypeOK, DropWaiterGuard
<1>8. \/ UNCHANGED <<joined, waiters>>
      \/ \E c \in Callers : BecomeOwner(c) \/ JoinFlight(c) \/ (HoldsSlot(c) /\ DropWaiterGuard(c))
  <2>1. CASE UNCHANGED vars
    BY <2>1 DEF vars, callerVars
  <2>2. CASE Environment
    BY <2>2 DEF Environment, RotateKey, Tick, SetWallClock, callerVars
  <2>3. CASE \E c \in Callers : \/ \E k \in Keys : Begin(c, k)
                                \/ WaitTimeout(c) \/ CancelVerification(c) \/ CancelSend(c)
    BY <2>3 DEF Begin, WaitTimeout, CancelVerification, CancelSend
  <2>4. CASE \E c \in Callers : Wake(c) \/ Leave(c) \/ CancelWaiter(c)
    BY <2>4 DEF Wake, Leave, CancelWaiter, HoldsSlot
  <2>5. CASE \E c \in Callers : BecomeOwner(c) \/ JoinFlight(c)
    BY <2>5
  <2>6. CASE \E c \in Callers : \/ Lookup(c) \/ Recheck(c) \/ QueueFull(c) \/ TimedOutLookup(c)
                                \/ FetchEvidence(c) \/ FetchFails(c) \/ VerificationDenied(c)
                                \/ VerificationAllowed(c) \/ StoreVerdict(c) \/ Release(c)
    BY <2>6 DEF Lookup, Recheck, QueueFull, TimedOutLookup, FetchEvidence, FetchFails,
                VerificationDenied, VerificationAllowed, StoreVerdict, Release
  <2>7. CASE \E c \in Callers : \/ SendAccepted(c) \/ RefreshAfterKeyRotation(c)
                                \/ KeyRotationGivesUp(c)
    BY <2>7 DEF SendAccepted, RefreshAfterKeyRotation, KeyRotationGivesUp
  <2> QED
    BY <2>1, <2>2, <2>3, <2>4, <2>5, <2>6, <2>7 DEF Next, CallerStep
<1> QED
  BY <1>4, <1>5, <1>6, <1>7, <1>8

-----------------------------------------------------------------------------
(* The theorems *)

\* A new client satisfies the inductive invariant.
LEMMA InitEstablishes == Init => IInv
<1> SUFFICES ASSUME Init PROVE IInv
  OBVIOUS
<1> USE VerificationAssumption, PolicyAssumption DEF Init
<1>1. TypeOK
  BY DEF TypeOK, Steps, Outcomes
<1>2. GuardsHeld /\ CallPath /\ WaitersQueued
  BY DEF GuardsHeld, CallPath, WaitersQueued, HoldsSlot, OwnsFlight
<1>3. SingleFlight /\ UncachedKeys /\ FreshEvidence
  BY DEF SingleFlight, UncachedKeys, FreshEvidence, OwnsFlight
<1>4. WaiterSlots
  <2>1. \A f \in Flights : {c \in Callers : joined[c] = f} = {}
    OBVIOUS
  <2> QED
    BY <2>1, FS_EmptySet DEF WaiterSlots
<1> QED
  BY <1>1, <1>2, <1>3, <1>4 DEF IInv

\* The inductive invariant holds throughout: whatever tasks race, fail, time out
\* or are dropped, for any number of them.
THEOREM Inductive == Spec => []IInv
<1>1. IInv /\ [Next]_vars => IInv'
  BY TypeStep, GuardsHeldStep, CallPathStep, SingleFlightStep, WaiterSlotsStep,
     WaitersQueuedStep, UncachedKeysStep, FreshEvidenceStep DEF IInv
<1> QED
  BY InitEstablishes, <1>1, PTL DEF Spec

\* Type correctness, and with it that no waiter counter underflows or passes
\* SINGLE_FLIGHT_MAX_WAITERS.
THEOREM TypeCorrect == Spec => []TypeOK
<1>1. IInv => TypeOK
  BY DEF IInv
<1> QED
  BY Inductive, <1>1, PTL

\* At most one owner per key, and the map has an entry exactly while there is one.
THEOREM OneFlightPerKey == Spec => []SingleFlight
<1>1. IInv => SingleFlight
  BY DEF IInv
<1> QED
  BY Inductive, <1>1, PTL

\* Waiter counters count the guards, through wake-ups, timeouts and cancellation.
THEOREM SlotsAreCounted == Spec => []WaiterSlots
<1>1. IInv => WaiterSlots
  BY DEF IInv
<1> QED
  BY Inductive, <1>1, PTL

\* No caller waits for a flight that has no owner left to wake it.
THEOREM NobodyStranded == Spec => []NoLostWakeup
<1>1. IInv => NoLostWakeup
  <2> SUFFICES ASSUME IInv, NEW c \in Callers, pc[c] = "waiting", c \notin notified
               PROVE  /\ inFlight[key[c]] = joined[c]
                      /\ \E o \in Callers : OwnsFlight(o) /\ key[o] = key[c]
    BY DEF NoLostWakeup
  <2>1. inFlight[key[c]] = joined[c]
    BY DEF IInv, WaitersQueued
  <2>2. joined[c] # NoFlight
    BY DEF IInv, GuardsHeld, HoldsSlot
  <2> QED
    BY <2>1, <2>2 DEF IInv, SingleFlight, TypeOK
<1> QED
  BY Inductive, <1>1, PTL

\* After a key rotation, and on per-request routes, only own evidence is sent.
THEOREM OwnEvidenceIsSent == Spec => []FreshEvidence
<1>1. IInv => FreshEvidence
  BY DEF IInv
<1> QED
  BY Inductive, <1>1, PTL

\* Routes that may not be cached are neither cached nor shared, for every policy.
THEOREM UncacheableStaysUncached == Spec => []PerRequestNeverCached
<1>1. IInv => PerRequestNeverCached
  BY DEF IInv, UncachedKeys, SingleFlight, CallPath, PerRequestNeverCached
<1> QED
  BY Inductive, <1>1, PTL

\* A wall clock ahead of the monotonic one is a jump that wall_clock_jump_detected
\* sees; behind it, the absolute difference may hide one.
LEMMA ForwardJumpSeen ==
    ASSUME NEW entry \in Entries, NEW now \in Nat, NEW at \in Nat,
           ~WallClockJumpDetected(entry, now, at)
    PROVE  (now - entry.insertedWall) - (at - entry.insertedAt) <= JumpThreshold
<1>1. entry.insertedWall \in Nat /\ entry.insertedAt \in Nat /\ JumpThreshold \in Nat
  BY PolicyAssumption DEF Entries
<1> QED
  BY <1>1 DEF WallClockJumpDetected, AbsDiff

\* A verdict from the cache is within the age limit of its policy and was not
\* stored before the wall clock jumped forward, for every policy, threshold and
\* movement of the clocks, and whichever of the three lookups finds it.
THEOREM HitsRespectClocks == Spec => HitRespectsClocks
<1> DEFINE Respected ==
      \A c \in Callers :
          /\ pc[c] \in {"lookup", "recheck", "timedOut"}
          /\ held'[c] # held[c]
          => LET entry == cache[key[c]]
                 age == monotonic - entry.insertedAt
             IN  /\ age <= CacheAgeLimit(key[c])
                 /\ (wall - entry.insertedWall) - age <= JumpThreshold
<1>1. IInv /\ [Next]_vars => [Respected]_vars
  <2> SUFFICES ASSUME IInv, Next, NEW c \in Callers,
                      pc[c] \in {"lookup", "recheck", "timedOut"}, held'[c] # held[c]
               PROVE  /\ monotonic - cache[key[c]].insertedAt <= CacheAgeLimit(key[c])
                      /\ (wall - cache[key[c]].insertedWall)
                            - (monotonic - cache[key[c]].insertedAt) <= JumpThreshold
    OBVIOUS
  <2>1. TypeOK
    BY DEF IInv
  <2>2. CacheHit(key[c])
    <3>1. PICK d \in Callers :
             \/ \E k \in Keys : Begin(d, k)
             \/ CallerStep(d) \/ WaitTimeout(d)
             \/ CancelWaiter(d) \/ CancelVerification(d) \/ CancelSend(d)
      BY DEF Next, Environment, RotateKey, Tick, SetWallClock, callerVars
    <3>2. held'[c] = held[c] \/ d = c
      BY <3>1, <2>1
         DEF Begin, CallerStep, Lookup, Recheck, BecomeOwner, JoinFlight, QueueFull, Wake,
             TimedOutLookup, Leave, FetchEvidence, FetchFails, VerificationDenied,
             VerificationAllowed, StoreVerdict, Release, SendAccepted,
             RefreshAfterKeyRotation, KeyRotationGivesUp, WaitTimeout, CancelWaiter,
             CancelVerification, CancelSend, UseCachedVerdict, TypeOK
    <3>3. Lookup(c) \/ Recheck(c) \/ TimedOutLookup(c)
      BY <3>1, <3>2
         DEF Begin, CallerStep, BecomeOwner, JoinFlight, QueueFull, Wake, Leave,
             FetchEvidence, FetchFails, VerificationDenied, VerificationAllowed,
             StoreVerdict, Release, SendAccepted, RefreshAfterKeyRotation,
             KeyRotationGivesUp, WaitTimeout, CancelWaiter, CancelVerification, CancelSend
    <3> QED
      BY <3>3 DEF Lookup, Recheck, TimedOutLookup
  <2>3. cache[key[c]] \in Entries /\ wall \in Nat /\ monotonic \in Nat
    BY <2>1, <2>2 DEF TypeOK, CacheHit
  <2>4. /\ monotonic - cache[key[c]].insertedAt <= CacheAgeLimit(key[c])
        /\ ~WallClockJumpDetected(cache[key[c]], wall, monotonic)
    BY <2>2 DEF CacheHit, IsValid
  <2> QED
    BY <2>3, <2>4, ForwardJumpSeen
<1> QED
  BY Inductive, <1>1, PTL DEF Spec, HitRespectsClocks
=============================================================================
