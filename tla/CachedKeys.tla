----------------------------- MODULE CachedKeys -----------------------------
(***************************************************************************)
(* The keys and tokens kept to save a fetch: RedPill's session_cache       *)
(* (Adapters), NVIDIA's JWKS and AMD's VCEK certificates (KeyCaches).      *)
(***************************************************************************)
EXTENDS Adapters, KeyCaches

\* What is cached to save a fetch is not used past its time: GPU tokens are verified
\* with keys NVIDIA served at most a TTL and one fetch ago, and a cached RedPill
\* session never carries a token that had expired when it was captured.  And it is
\* not lost early: an AMD certificate that was found is not replaced by the failure
\* of a slower lookup.
CachedKeysCurrent == [](JwksAgeBounded /\ NoStaleToken) /\ FoundCertStays
=============================================================================
