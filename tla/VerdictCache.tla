---------------------------- MODULE VerdictCache ----------------------------
(***************************************************************************)
(* The rules of the SDK's in-memory verdict cache: for how long a policy   *)
(* lets a verdict be cached at all, and when a cached entry may be served. *)
(* State and locking live in RouteVerification; this module only holds the *)
(* decisions, so that they can be model-checked and proved about alone.    *)
(*                                                                         *)
(* Two clocks matter.  A verdict expires at a WALL-clock epoch, its age in *)
(* the cache is measured on the MONOTONIC clock, and an entry is also      *)
(* dropped when the two clocks disagree about how long it has been there.  *)
(***************************************************************************)
EXTENDS Integers

CONSTANTS
    Keys,             \* VerificationCacheKey values
    PerRequestKeys,   \* keys of routes whose registry freshness class is PerRequest
    Freshness,        \* policy.freshness: "PerRequest", "PerSession" or "AllowCached"
    CachedBinding,    \* the millis of AllowCachedBindingMillis
    VerdictTtl,       \* policy.verdict_ttl_millis
    StaleAllowance,   \* millis of StaleVerdictPolicy::AllowForMillis, 0 for FailClosed
    JumpThreshold,    \* CACHE_CLOCK_JUMP_REVALIDATION_THRESHOLD_MS
    U64Max            \* the largest u64, where saturating_add stops

ASSUME PolicyAssumption ==
    /\ PerRequestKeys \subseteq Keys
    /\ Freshness \in {"PerRequest", "PerSession", "AllowCached"}
    /\ CachedBinding \in Nat
    /\ VerdictTtl \in Nat
    /\ StaleAllowance \in Nat
    /\ JumpThreshold \in Nat
    /\ U64Max \in Nat

AbsDiff(a, b) == IF a < b THEN b - a ELSE a - b

SaturatingAdd(a, b) == IF a + b > U64Max THEN U64Max ELSE a + b

(***************************************************************************)
(* cache_age_limit_millis_for: 0 stands for None.  Every limit the code    *)
(* returns is positive, so nothing is lost.                                *)
(***************************************************************************)
CacheAgeLimit(k) ==
    CASE k \in PerRequestKeys \/ Freshness = "PerRequest" -> 0
      [] k \notin PerRequestKeys /\ Freshness = "PerSession" -> VerdictTtl
      [] k \notin PerRequestKeys /\ Freshness = "AllowCached" ->
            IF VerdictTtl < CachedBinding THEN VerdictTtl ELSE CachedBinding

CacheEnabledFor(k) == CacheAgeLimit(k) > 0

\* verdict_epoch_allowed_by_stale_policy
AllowedByStalePolicy(expires, now) == now < SaturatingAdd(expires, StaleAllowance)

\* Fault: saturating_sub in place of abs_diff sees only a wall clock left behind.
WallClockJumpOneSided(entry, now, monotonic) ==
    (monotonic - entry.insertedAt) - AbsDiff(now, entry.insertedWall) > JumpThreshold

\* CachedVerdict::wall_clock_jump_detected
WallClockJumpDetected(entry, now, monotonic) ==
    LET monotonicElapsed == monotonic - entry.insertedAt
        wallElapsed == AbsDiff(now, entry.insertedWall)
    IN  AbsDiff(monotonicElapsed, wallElapsed) > JumpThreshold

\* CachedVerdict::is_valid, with the age limit cached_verdict passes for key k.
IsValid(entry, k, now, monotonic) ==
    /\ AllowedByStalePolicy(entry.verdict.expires, now)
    /\ monotonic - entry.insertedAt <= CacheAgeLimit(k)
    /\ ~WallClockJumpDetected(entry, now, monotonic)
=============================================================================
