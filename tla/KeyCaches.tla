----------------------------- MODULE KeyCaches -----------------------------
(***************************************************************************)
(* Two caches of verification keys that several verifications share:       *)
(* AmdKdsSevSnpVcekResolver (AMD VCEK certificates, failures remembered    *)
(* for a while) and the client's nras_jwt_verifier (NVIDIA's JWKS, kept    *)
(* for a TTL).  Both look under a lock, fetch without it, and store under  *)
(* it again, so fetches of one key overlap.                                *)
(***************************************************************************)
EXTENDS Integers, FiniteSets

CONSTANTS
    Lookups,      \* concurrent callers
    Certs,        \* VCEK cache keys: product, chip id, TCB
    VcekEntries,  \* VCEK_CACHE_MAX_ENTRIES
    FailureTtl,   \* VCEK_FAILURE_TTL
    JwksTtl,      \* NRAS_JWT_VERIFIER_TTL
    FetchTime,    \* the longest a fetch takes (the HTTP client's timeout)
    MaxInstant    \* bound: clock ticks

ASSUME KeyCachesAssumption ==
    /\ VcekEntries \in Nat \ {0}
    /\ {FailureTtl, JwksTtl, FetchTime, MaxInstant} \subseteq Nat

VARIABLES
    instant,   \* Instant::now
    vcek,      \* the VCEK cache: key to [good, at]
    jwks,      \* nras_jwt_verifier: at most one [at, taken]; taken is a ghost, when
               \* NVIDIA answered with these keys at the earliest
    look,      \* what each caller is doing
    age        \* ghost: how old the keys of the last JWKS lookup were when handed out

keyVars == <<instant, vcek, jwks, look, age>>

Resting == [pc |-> "idle", cert |-> "none", since |-> 0]

KeyInit ==
    /\ instant = 0 /\ vcek = <<>> /\ jwks = {} /\ age = 0
    /\ look = [l \in Lookups |-> Resting]

\* HashMap::insert and remove
Put(map, key, value) ==
    [k \in DOMAIN map \cup {key} |-> IF k = key THEN value ELSE map[k]]
Without(map, key) == [k \in DOMAIN map \ {key} |-> map[k]]

-----------------------------------------------------------------------------
(* resolve_vcek *)

CachedAnswer(cert) ==
    /\ cert \in DOMAIN vcek
    /\ vcek[cert].good \/ instant - vcek[cert].at < FailureTtl

StartVcek(l) ==
    /\ look[l].pc = "idle"
    /\ \E cert \in Certs :
          /\ ~CachedAnswer(cert)
          /\ look' = [look EXCEPT ![l] = [pc |-> "vcek", cert |-> cert, since |-> instant]]
    /\ UNCHANGED <<instant, vcek, jwks, age>>

\* Room for a new key: the oldest entry goes.
Evicted(cert) ==
    IF cert \in DOMAIN vcek \/ Cardinality(DOMAIN vcek) < VcekEntries THEN {vcek}
    ELSE {Without(vcek, old) : old \in {k \in DOMAIN vcek :
                                          \A other \in DOMAIN vcek : vcek[k].at <= vcek[other].at}}

\* Fault: the last answer wins.
FailureReplaces(map, cert) == Put(map, cert, [good |-> FALSE, at |-> instant])

\* A failure does not replace a certificate another caller has stored meanwhile.
WithFailure(map, cert) ==
    IF cert \in DOMAIN map /\ map[cert].good THEN map
    ELSE Put(map, cert, [good |-> FALSE, at |-> instant])

StoreVcek(l) ==
    LET cert == look[l].cert IN
    /\ look[l].pc = "vcek"
    /\ \E map \in Evicted(cert) :
          \/ vcek' = Put(map, cert, [good |-> TRUE, at |-> instant])
          \/ vcek' = WithFailure(map, cert)
    /\ look' = [look EXCEPT ![l] = Resting]
    /\ UNCHANGED <<instant, jwks, age>>

-----------------------------------------------------------------------------
(* gpu_attestation_verifier_for_raw_evidence *)

FreshJwks == {c \in jwks : instant - c.at < JwksTtl}

\* Fault: using the cached keys starts their TTL anew.
JwksTouched == {[c EXCEPT !.at = instant] : c \in jwks}

JwksAfterHit == jwks

HitJwks(l) ==
    /\ look[l].pc = "idle"
    /\ \E c \in FreshJwks : age' = instant - c.taken
    /\ jwks' = JwksAfterHit
    /\ UNCHANGED <<instant, vcek, look>>

StartJwks(l) ==
    /\ look[l].pc = "idle" /\ FreshJwks = {}
    /\ look' = [look EXCEPT ![l] = [pc |-> "jwks", cert |-> "none", since |-> instant]]
    /\ UNCHANGED <<instant, vcek, jwks, age>>

\* The TTL counts from when the keys are stored; a fetch that overlapped another
\* replaces what the other stored.  A failed fetch leaves the cache alone.
StoreJwks(l) ==
    /\ look[l].pc = "jwks"
    /\ \/ /\ jwks' = {[at |-> instant, taken |-> look[l].since]}
          /\ age' = instant - look[l].since
       \/ UNCHANGED <<jwks, age>>
    /\ look' = [look EXCEPT ![l] = Resting]
    /\ UNCHANGED <<instant, vcek>>

Pass ==
    /\ instant < MaxInstant
    /\ \A l \in Lookups : look[l].pc = "idle" \/ instant - look[l].since < FetchTime
    /\ instant' = instant + 1
    /\ UNCHANGED <<vcek, jwks, look, age>>

VcekNext == (\E l \in Lookups : StartVcek(l) \/ StoreVcek(l)) \/ Pass
JwksNext == (\E l \in Lookups : HitJwks(l) \/ StartJwks(l) \/ StoreJwks(l)) \/ Pass

\* A caller may want either kind of key.
KeySpec == KeyInit /\ [][VcekNext \/ JwksNext]_keyVars

-----------------------------------------------------------------------------
(* Properties *)

\* A certificate that was found stays the answer until its entry is evicted: a
\* slower lookup of the same key that failed never turns it into a failure.
FoundCertStays ==
    [][\A c \in DOMAIN vcek : (vcek[c].good /\ c \in DOMAIN vcek') => vcek'[c].good]_keyVars

\* GPU tokens are verified with keys that NVIDIA served at most the TTL and one
\* fetch ago, whichever of several overlapping fetches stored them.
JwksAgeBounded == age <= JwksTtl + FetchTime
=============================================================================
