------------------------------ MODULE Verifier ------------------------------
(***************************************************************************)
(* One request from the policy to the send: the SDK picks a route whose    *)
(* advertised guarantees cover the policy, collects evidence from the      *)
(* provider, and the verifier of the route's evidence family compares that *)
(* evidence with the policy and the signed reference values.  The request  *)
(* is sent when the verdict allows it.                                     *)
(*                                                                         *)
(* The provider chooses the evidence.  Quotes, keys, digests and nonces    *)
(* are abstracted to what the verifier learns of them: whether a quote's   *)
(* signature verifies, whether its report data binds the key and the       *)
(* nonce, whether the nonce is the one this request sent.                  *)
(***************************************************************************)
EXTENDS Integers, FiniteSets, FiniteSetsExt

CONSTANTS
    Policies,      \* verification policies a client may hold
    Routes,        \* registry routes joined with their compatibility row
    References,    \* by evidence family, the signed reference values of a route
    Evidences,     \* by evidence family, what a provider may answer with
    NoReference,   \* the artifact has no values for the provider or the route
    Nothing,       \* an absent field, evidence or verdict
    Now            \* wall clock at the verification

ClaimsFamilies == {"dstack_app_e2ee", "chutes_e2ee"}
LiveTlsFamilies == {"near_hw_verified_tls", "redpill_aci_verified_tls"}
LiveE2eeFamilies == {"chutes_live_e2ee", "ppq_ehbp"}
LiveFamilies == LiveTlsFamilies \cup LiveE2eeFamilies
Families == ClaimsFamilies \cup LiveFamilies \cup {"fixture_dstack", "tinfoil_hw_verified_tls"}

CpuKinds == {"tdx", "sev_snp"}
GpuKinds == {"nvidia_cc"}
ChannelKinds == {"tls", "e2ee", "none"}
Tiers == {"app_e2ee", "hw_verified_tls", "tee_only", "none"}
Provenances == {"image", "artifacts", "build", "source", "sbom"}
CheckResults == {"verified", "failed", "not_supported", "unknown", "not_applicable"}

\* AnyCpuTee is the requirement of one of all kinds.
PolicyType ==
    [mode: {"disabled", "observe", "enforce"},
     cpuRequired: BOOLEAN, cpus: SUBSET CpuKinds,
     gpuRequired: BOOLEAN, gpus: SUBSET GpuKinds,
     channel: {"not_required", "any", "tls", "e2ee"},
     request: BOOLEAN, response: BOOLEAN,
     integrity: {"not_required", "any", "channel", "receipt"},
     model: {"not_required", "if_supported", "required"},
     provenance: SUBSET Provenances,
     perRequest: BOOLEAN, ttl: Nat]

RouteType ==
    [family: Families, model: STRING, kind: ChannelKinds, tier: Tiers,
     request: BOOLEAN, response: BOOLEAN,
     integrity: {"not_required", "any", "channel", "receipt"},
     gpus: SUBSET GpuKinds, modelSupport: BOOLEAN, perRequest: BOOLEAN]

ReferenceType ==
    [family: Families, model: STRING, kind: ChannelKinds, key: STRING,
     spki: STRING \cup {Nothing}, cpus: SUBSET CpuKinds, measurements: SUBSET STRING,
     image: STRING, images: STRING \cup {Nothing}, artifacts: SUBSET STRING,
     routeUntil: Nat, until: Nat]

\* Where a family reads only some of the fields, the others mean nothing.
EvidenceType ==
    [schema: {"claims", "quote"},      \* Tinfoil: structured claims or a live capture
     wellFormed: BOOLEAN,              \* schema, encodings, lengths, certificate dates
     named: BOOLEAN,                   \* names this route, and for captures this request
     quoteSigned: BOOLEAN,             \* the quote verifier accepts the quote
     cpu: CpuKinds, measurement: STRING,
     gpu: {"absent", "other_nonce", "rejected", "verified"},
     nonce: {"ours", "other"},         \* whether it is the nonce of this request
     binds: BOOLEAN,                   \* report data bind the key or certificate, and the nonce
     key: STRING, spki: STRING, kind: ChannelKinds,
     requestBound: BOOLEAN, responseBound: BOOLEAN,
     tcb: BOOLEAN,                     \* the TCB info hashes to the quoted measurements
     model: {"canonical", "provider", "other", Nothing},
     image: STRING, manifest: BOOLEAN, artifacts: SUBSET STRING,
     issued: Nat, expires: Nat]

\* What a route author owes: the verifier does not look at a GPU for the families
\* outside GpuFamilies, nor at a nonce for those outside NonceFamilies, so their
\* routes must not advertise either, and the channel kind is that of the family.
GpuFamilies == LiveFamilies \cup {"chutes_e2ee"}
NonceFamilies == LiveTlsFamilies \cup {"chutes_live_e2ee", "chutes_e2ee"}
TlsFamilies == LiveTlsFamilies \cup {"tinfoil_hw_verified_tls"}

ASSUME PoliciesAssumption == Policies \subseteq PolicyType

ASSUME RoutesAssumption ==
    /\ Routes \subseteq RouteType
    /\ \A r \in Routes :
           /\ r.gpus # {} => r.family \in GpuFamilies
           /\ r.perRequest => r.family \in NonceFamilies
           /\ r.kind = IF r.family \in TlsFamilies THEN "tls" ELSE "e2ee"

ASSUME ArtifactsAssumption ==
    /\ References \in [Families -> SUBSET ReferenceType]
    /\ NoReference \notin ReferenceType
    /\ Evidences \in [Families -> SUBSET EvidenceType]

ASSUME NowAssumption == Now \in Nat

VARIABLES
    policy,      \* the client's policy
    route,       \* the route considered
    reference,   \* the reference values in force
    evidence,    \* what the provider answered
    phase,       \* "select", "collect", "verify", "judged", then how the request ended
    verdict      \* the verdict, once there is one

vars == <<policy, route, reference, evidence, phase, verdict>>

\* What a family's verifier is called with.
Request == [policy |-> policy, route |-> route, reference |-> reference, evidence |-> evidence]

----------------------------------------------------------------------------
(* Policies that the SDK offers by name; TTLs are given by the caller of a preset. *)

Disabled(ttl) ==
    [mode |-> "disabled", cpuRequired |-> FALSE, cpus |-> CpuKinds,
     gpuRequired |-> FALSE, gpus |-> {}, channel |-> "not_required",
     request |-> FALSE, response |-> FALSE, integrity |-> "not_required",
     model |-> "not_required", provenance |-> {}, perRequest |-> FALSE, ttl |-> ttl]

RequireHardware(ttl) == [Disabled(ttl) EXCEPT !.mode = "enforce", !.cpuRequired = TRUE]

Observe(ttl) == [RequireHardware(ttl) EXCEPT !.mode = "observe"]

RequireModelBinding(ttl) == [RequireHardware(ttl) EXCEPT !.model = "required"]

\* Only the two concrete kinds of channel can be asked for.
ApplyConcreteChannelBinding(p, channel) ==
    [p EXCEPT !.channel = channel, !.request = TRUE, !.response = TRUE,
              !.integrity = IF channel = "tls" THEN "channel" ELSE "any",
              !.model = IF channel = "tls" THEN p.model ELSE "if_supported"]

RequireAttestedE2ee(ttl) == ApplyConcreteChannelBinding(RequireHardware(ttl), "e2ee")

RequireHwVerifiedTls(ttl) == ApplyConcreteChannelBinding(RequireHardware(ttl), "tls")

RequireFullProvenance(ttl, channel) ==
    [ApplyConcreteChannelBinding(RequireHardware(ttl), channel) EXCEPT
        !.model = "required", !.provenance = Provenances]

RequireConfidentialGpuInference(ttl, channel) ==
    [ApplyConcreteChannelBinding(RequireHardware(ttl), channel) EXCEPT
        !.gpuRequired = TRUE, !.gpus = GpuKinds]

----------------------------------------------------------------------------
(* Selecting a route *)

Satisfies(kind, requirement) ==
    \/ requirement = "not_required"
    \/ requirement = "any" /\ kind \in {"tls", "e2ee"}
    \/ kind = requirement

\* Compares the two literally, so that a channel-bound result is not "any" bound one.
IntegrityLiterally(given, requirement) == requirement \in {"not_required", given}

\* Of a route's promise and of a verdict's result alike.
IntegritySatisfies(given, requirement) ==
    \/ requirement = "not_required"
    \/ requirement = "any" /\ given \notin {"not_required", "not_bound", "unknown"}
    \/ given = requirement

RouteSatisfiesPolicy(r, p) ==
    /\ Satisfies(r.kind, p.channel)
    /\ p.request => r.request
    /\ p.response => r.response
    /\ IntegritySatisfies(r.integrity, p.integrity)
    /\ p.cpuRequired => r.tier # "none"
    /\ p.gpuRequired => p.gpus \cap r.gpus # {}
    /\ p.model = "required" => r.modelSupport

----------------------------------------------------------------------------
(* Pieces that the families share.  q is a request record. *)

V(b) == IF b THEN "verified" ELSE "failed"

CpuMatches(q) ==
    /\ q.evidence.cpu \in q.policy.cpus
    /\ q.evidence.cpu \in q.reference.cpus
    /\ q.evidence.measurement \in q.reference.measurements

\* The GPU report answers the challenge of this evidence and the GPU verifier accepts it.
GpuMatches(q) ==
    /\ "nvidia_cc" \in q.policy.gpus
    /\ q.route.family # "ppq_ehbp"
    /\ q.evidence.gpu = "verified"

\* The SDK generates a nonce, and hands it to the verifier as the expected one.
ExpectsNonce(q) ==
    \/ q.policy.perRequest
    \/ q.route.perRequest
    \/ q.route.family = "redpill_aci_verified_tls"

\* Takes any nonce that the report data binds.
FreshnessUnchecked(q) == TRUE

FreshnessNonceMatchesPolicy(q) ==
    IF ExpectsNonce(q) THEN q.evidence.nonce = "ours" ELSE ~q.policy.perRequest

KindsMatch(q) ==
    /\ q.route.kind = q.reference.kind
    /\ Satisfies(q.route.kind, q.policy.channel)

ModelMatches(q) == q.evidence.model = "canonical" /\ q.reference.model = q.route.model

ArtifactsMatch(q) == q.reference.artifacts \subseteq q.evidence.artifacts

\* Quotes are issued when they are verified; claims carry the provider's own time.
Issued(q, quoteVerified) == IF quoteVerified THEN Now ELSE q.evidence.issued

\* Trusts issued_at of claims-only evidence.
ExpiresAtAsClaimed(q, quoteVerified, wallClockBound) ==
    Min({Issued(q, quoteVerified) + q.policy.ttl, q.evidence.expires,
         q.reference.routeUntil, q.reference.until})

ExpiresAt(q, quoteVerified, wallClockBound) ==
    Min({Issued(q, quoteVerified) + q.policy.ttl, q.evidence.expires,
         q.reference.routeUntil, q.reference.until}
        \cup (IF wallClockBound THEN {Now + q.policy.ttl} ELSE {}))

----------------------------------------------------------------------------
(* What each family establishes: the results of the checks of its own, what it
   reports of the request and the response, and the tier it claims. *)

Bound == {"channel_bound", "encrypted_bound"}

\* channel: the family's own result; bound: how the verdict words a bound channel.
Established(q, bound, channel) ==
    [cpu |-> "not_applicable", cpuReference |-> "not_applicable", gpu |-> "not_applicable",
     tls |-> "not_applicable", e2ee |-> "not_applicable", keyReference |-> "not_applicable",
     tcb |-> "not_applicable", nonce |-> "not_applicable", manifest |-> "not_applicable",
     request |-> IF channel THEN bound ELSE "not_bound",
     response |-> IF channel THEN bound ELSE "not_bound",
     integrity |-> IF channel THEN "channel" ELSE "not_bound",
     requestBound |-> channel, responseBound |-> channel, provesBytes |-> TRUE,
     hardware |-> TRUE, gpuVerified |-> TRUE, channel |-> channel,
     supportsModel |-> q.evidence.model # Nothing, modelMatches |-> ModelMatches(q),
     comparesProvenance |-> TRUE, imageMatches |-> q.evidence.image = q.reference.image,
     tier |-> "none", live |-> FALSE, expires |-> 0]

MatchedCpu(q, f) ==
    [f EXCEPT !.cpu = IF q.policy.cpuRequired THEN V(CpuMatches(q)) ELSE "not_applicable",
              !.hardware = q.policy.cpuRequired => CpuMatches(q)]

\* Claims are compared with the reference values, and never satisfy a required CPU TEE.
ClaimedCpu(q, f) ==
    [f EXCEPT !.cpu = IF q.policy.cpuRequired THEN "failed" ELSE "not_applicable",
              !.cpuReference = IF q.policy.cpuRequired THEN V(CpuMatches(q)) ELSE "not_applicable",
              !.hardware = ~q.policy.cpuRequired]

Gpu(q, f) ==
    [f EXCEPT !.gpu = IF q.policy.gpuRequired THEN V(GpuMatches(q)) ELSE "not_applicable",
              !.gpuVerified = q.policy.gpuRequired => GpuMatches(q)]

\* The claimed key of the fixture and dstack evidence, compared with the reference.
ChannelKeyMatches(q) ==
    /\ Satisfies(q.route.kind, q.policy.channel)
    /\ Satisfies(q.evidence.kind, q.policy.channel)
    /\ q.evidence.kind = q.reference.kind
    /\ q.evidence.key = q.reference.key

FixtureFacts(q) ==
    LET e == q.evidence
        channel == ChannelKeyMatches(q)
    IN  [MatchedCpu(q, Established(q, "encrypted_bound", channel)) EXCEPT
            !.e2ee = IF q.policy.channel = "not_required" THEN "not_applicable" ELSE V(channel),
            !.request = IF e.requestBound THEN "encrypted_bound" ELSE "not_bound",
            !.response = IF e.responseBound THEN "encrypted_bound" ELSE "not_bound",
            !.integrity = IF e.responseBound THEN "channel" ELSE "not_bound",
            !.requestBound = e.requestBound,
            !.responseBound = e.responseBound,
            !.supportsModel = TRUE,
            !.tier = q.route.tier,
            !.expires = ExpiresAt(q, FALSE, FALSE)]

\* Nothing shows that bytes reach the key, so a required channel is not supported.
DstackFacts(q) ==
    LET f == ClaimedCpu(q, Established(q, "unknown", q.policy.channel = "not_required"))
        hardware == f.hardware /\ q.evidence.tcb
    IN  [f EXCEPT
            !.tcb = V(q.evidence.tcb),
            !.keyReference = V(ChannelKeyMatches(q)),
            !.e2ee = IF q.policy.channel = "not_required"
                     THEN "not_applicable" ELSE "not_supported",
            !.request = "unknown", !.response = "unknown", !.integrity = "unknown",
            !.requestBound = FALSE, !.responseBound = FALSE, !.provesBytes = FALSE,
            !.hardware = hardware,
            !.manifest = IF q.policy.provenance = {}
                         THEN "not_applicable" ELSE V(q.evidence.manifest),
            !.imageMatches = q.evidence.image = q.reference.images,
            !.tier = IF hardware THEN "tee_only" ELSE "none",
            !.expires = ExpiresAt(q, FALSE, TRUE)]

ChutesFacts(q) ==
    LET nonce == q.evidence.binds /\ FreshnessNonceMatchesPolicy(q)
        channel == KindsMatch(q) /\ nonce /\ q.evidence.key = q.reference.key
        f == Gpu(q, ClaimedCpu(q, Established(q, "encrypted_bound", channel)))
    IN  [f EXCEPT
            !.e2ee = IF q.policy.channel = "not_required" THEN "not_applicable" ELSE V(channel),
            !.nonce = V(nonce),
            !.tier = IF channel THEN "app_e2ee" ELSE IF f.hardware THEN "tee_only" ELSE "none",
            !.expires = ExpiresAt(q, FALSE, TRUE)]

\* Structured claims, and live captures whose quote has been verified.
TinfoilFacts(q) ==
    LET quoteVerified == q.evidence.schema = "quote"
        tls == KindsMatch(q) /\ q.evidence.binds /\ q.evidence.spki = q.reference.spki
        unproven == Established(q, "channel_bound", tls)
        f == IF quoteVerified THEN MatchedCpu(q, unproven) ELSE ClaimedCpu(q, unproven)
    IN  [f EXCEPT
            !.tls = V(tls),
            !.tier = IF tls THEN q.route.tier ELSE IF f.hardware THEN "tee_only" ELSE "none",
            !.expires = ExpiresAt(q, quoteVerified, ~quoteVerified)]

\* RedPill and PPQ refuse evidence that does not bind; PPQ has no nonce, RedPill's is checked.
LiveFacts(q) ==
    LET family == q.route.family
        bound == q.evidence.binds /\ FreshnessNonceMatchesPolicy(q)
        attested == family \in {"redpill_aci_verified_tls", "ppq_ehbp"} \/ bound
        channel == attested /\ KindsMatch(q)
        words == IF family \in LiveTlsFamilies THEN "channel_bound" ELSE "encrypted_bound"
        f == Gpu(q, MatchedCpu(q, Established(q, words, channel)))
    IN  [f EXCEPT
            !.cpuReference = IF family = "ppq_ehbp"
                             THEN V(q.evidence.measurement \in q.reference.measurements)
                             ELSE "not_applicable",
            !.tls = IF family \in LiveTlsFamilies THEN V(channel) ELSE "not_applicable",
            !.e2ee = IF family \in LiveE2eeFamilies THEN V(channel) ELSE "not_applicable",
            !.nonce = IF family = "ppq_ehbp" THEN "not_supported" ELSE V(attested),
            !.supportsModel = family = "near_hw_verified_tls"
                              /\ q.evidence.model \in {"canonical", "provider"},
            !.modelMatches = q.reference.model = q.route.model,
            !.comparesProvenance = FALSE,
            !.tier = q.route.tier,
            !.live = TRUE,
            !.expires = ExpiresAt(q, TRUE, FALSE)]

----------------------------------------------------------------------------
(* From facts to a verdict *)

CheckNames ==
    {"route_metadata_binding", "route_binding", "cpu_tee", "cpu_measurement_reference",
     "gpu_tee", "tls_binding", "e2ee_key_binding", "e2ee_key_reference_match",
     "tcb_compose_hash", "nonce_binding", "request_key_binding", "request_encryption",
     "response_key_binding", "response_encryption", "response_channel_binding",
     "model_binding", "workload_manifest_binding", "image_provenance",
     "model_artifact_provenance", "sigstore", "contrast_manifest", "per_request_freshness"}

\* What a required binding of the request or response comes to: a family that cannot
\* prove anything of the bytes fails it, the others check theirs in any case.
KeyBinding(f, required, result) ==
    CASE f.provesBytes -> V(required => result \in Bound)
      [] ~f.provesBytes /\ required -> "failed"
      [] OTHER -> "not_applicable"

Encryption(f, required, isBound) ==
    CASE f.provesBytes -> V(isBound)
      [] ~f.provesBytes /\ required -> "unknown"
      [] OTHER -> "not_applicable"

IntegrityCheck(f, requirement) ==
    CASE f.provesBytes -> V(IntegritySatisfies(f.integrity, requirement))
      [] ~f.provesBytes /\ requirement # "not_required" -> "failed"
      [] OTHER -> "not_applicable"

ModelBinding(f, requirement) ==
    CASE requirement = "not_required" -> "not_applicable"
      [] requirement = "if_supported" /\ ~f.supportsModel -> "not_supported"
      [] OTHER -> V(f.supportsModel /\ f.modelMatches)

\* Live evidence carries no provenance at all: image or artifacts required is a failure.
Provenance(f, required, matches) ==
    CASE f.comparesProvenance -> IF required = {} THEN "not_applicable" ELSE V(matches)
      [] ~f.comparesProvenance /\ required \cap {"image", "artifacts"} # {} -> "failed"
      [] OTHER -> "not_applicable"

UnsupportedProvenance(required, kinds) ==
    IF required \cap kinds = {} THEN "not_applicable" ELSE "failed"

PerRequestFreshness(f, p) == IF p.perRequest THEN V(f.nonce = "verified") ELSE "not_applicable"

Checks(q, f) ==
    LET p == q.policy
    IN  [n \in CheckNames |->
        CASE n = "route_metadata_binding" ->
                 V(q.evidence.named /\ q.reference.model = q.route.model
                                    /\ q.reference.family = q.route.family)
          [] n = "route_binding" -> "not_supported"
          [] n = "cpu_tee" -> f.cpu
          [] n = "cpu_measurement_reference" -> f.cpuReference
          [] n = "gpu_tee" -> f.gpu
          [] n = "tls_binding" -> f.tls
          [] n = "e2ee_key_binding" -> f.e2ee
          [] n = "e2ee_key_reference_match" -> f.keyReference
          [] n = "tcb_compose_hash" -> f.tcb
          [] n = "nonce_binding" -> f.nonce
          [] n = "request_key_binding" -> KeyBinding(f, p.request, f.request)
          [] n = "request_encryption" -> Encryption(f, p.request, f.requestBound)
          [] n = "response_key_binding" -> KeyBinding(f, p.response, f.response)
          [] n = "response_encryption" -> Encryption(f, p.response, f.responseBound)
          [] n = "response_channel_binding" -> IntegrityCheck(f, p.integrity)
          [] n = "model_binding" -> ModelBinding(f, p.model)
          [] n = "workload_manifest_binding" -> f.manifest
          [] n = "image_provenance" -> Provenance(f, p.provenance, f.imageMatches)
          [] n = "model_artifact_provenance" -> Provenance(f, p.provenance, ArtifactsMatch(q))
          [] n = "sigstore" -> UnsupportedProvenance(p.provenance, {"build"})
          [] n = "contrast_manifest" -> UnsupportedProvenance(p.provenance, {"source", "sbom"})
          [] n = "per_request_freshness" -> PerRequestFreshness(f, p)]

\* Of a check that came out not supported or unknown.
CheckIsRequired(n, p) ==
    \/ n \in {"route_metadata_binding", "tcb_compose_hash"}
    \/ n \in {"cpu_tee", "cpu_measurement_reference"} /\ p.cpuRequired
    \/ n = "gpu_tee" /\ p.gpuRequired
    \/ n \in {"tls_binding", "e2ee_key_binding", "e2ee_key_reference_match"}
       /\ p.channel # "not_required"
    \/ n \in {"request_key_binding", "request_encryption"} /\ p.request
    \/ n \in {"response_key_binding", "response_encryption"} /\ p.response
    \/ n = "response_channel_binding" /\ p.integrity # "not_required"
    \/ n \in {"nonce_binding", "per_request_freshness"} /\ p.perRequest
    \/ n = "model_binding" /\ p.model = "required"
    \/ n \in {"workload_manifest_binding", "image_provenance", "model_artifact_provenance"}
       /\ p.provenance # {}
    \/ n = "sigstore" /\ "build" \in p.provenance
    \/ n = "contrast_manifest" /\ p.provenance \cap {"source", "sbom"} # {}

\* Blocks on failed checks only, and lets pass what was never proved.
BlocksOnFailuresOnly(checks, p) == \E n \in CheckNames : checks[n] = "failed"

EnforcementWouldBlock(checks, p) ==
    \E n \in CheckNames :
        \/ checks[n] = "failed"
        \/ checks[n] \in {"not_supported", "unknown"} /\ CheckIsRequired(n, p)

Status(p, f, wouldBlock) ==
    CASE p.mode = "disabled" -> "disabled"
      [] p.mode # "disabled" /\ wouldBlock -> "failed"
      [] p.mode # "disabled" /\ ~wouldBlock ->
             IF f.hardware /\ f.gpuVerified /\ f.channel THEN "verified" ELSE "partial"

TierConsistent(q, f, checks) ==
    CASE f.tier = "app_e2ee" -> q.route.kind = "e2ee" /\ f.requestBound /\ f.responseBound
      [] f.tier = "hw_verified_tls" ->
             /\ q.route.kind = "tls"
             /\ checks["tls_binding"] = "verified"
             /\ f.request = "channel_bound"
             /\ f.response = "channel_bound"
      [] f.tier = "tee_only" -> ~f.responseBound
      [] f.tier = "none" -> /\ ~f.requestBound /\ ~f.responseBound
                            /\ f.integrity # "channel"
                            /\ {f.request, f.response} \cap Bound = {}

\* validate_summary_consistency; what it asks of enforcement and of the status
\* follows from the way they are computed here.
Consistent(q, f, checks, status) ==
    /\ f.live => f.expires = Min({Now + q.policy.ttl, q.evidence.expires, q.reference.until})
    /\ f.requestBound <=> f.request \in Bound
    /\ f.requestBound => checks["request_key_binding"] = "verified"
    /\ f.responseBound <=> f.response \in Bound
    /\ f.responseBound => checks["response_key_binding"] = "verified"
    /\ f.responseBound <=> f.integrity = "channel"
    /\ f.responseBound => checks["response_channel_binding"] = "verified"
    /\ status = "verified" => TierConsistent(q, f, checks)

\* The verdict, or Nothing when the verifier returns an error.
Judge(q, f) ==
    LET checks == Checks(q, f)
        wouldBlock == EnforcementWouldBlock(checks, q.policy)
        status == Status(q.policy, f, wouldBlock)
    IN  IF Consistent(q, f, checks, status)
        THEN [allowed |-> q.policy.mode = "enforce" => ~wouldBlock, wouldBlock |-> wouldBlock,
              status |-> status, tier |-> f.tier, expires |-> f.expires]
        ELSE Nothing

----------------------------------------------------------------------------
(* Evidence that a family refuses to look at *)

LiveCaptureMatchesRequest(q) == q.evidence.wellFormed /\ q.evidence.named /\ q.evidence.quoteSigned

\* Chutes and NEAR: the GPU report must answer the nonce of this capture.
GpuAnswersCapture(q) == LiveCaptureMatchesRequest(q) /\ q.evidence.gpu # "other_nonce"

\* PPQ: the quote and the bundle's certificate bind the HPKE key.
PpqCaptureBinds(q) == LiveCaptureMatchesRequest(q) /\ q.evidence.binds

\* RedPill: two quotes and a GPU report that bind the session key and our nonce, in a
\* session that has not run out and whose measurement is pinned.
RedpillSessionBinds(q) ==
    /\ LiveCaptureMatchesRequest(q)
    /\ q.evidence.nonce = "ours"
    /\ q.evidence.binds
    /\ q.evidence.gpu = "verified"
    /\ q.evidence.expires > Now
    /\ q.evidence.measurement \in q.reference.measurements

\* Tinfoil: only captures carry a quote.
TinfoilQuoteVerified(q) == q.evidence.schema = "quote" => LiveCaptureMatchesRequest(q)

\* Schema, encodings, lengths and certificates are the evidence's well-formedness.
Accepted(q) ==
    /\ q.evidence.wellFormed
    /\ q.reference # NoReference
    /\ q.route.family \in {"chutes_live_e2ee", "near_hw_verified_tls"} => GpuAnswersCapture(q)
    /\ q.route.family = "ppq_ehbp" => PpqCaptureBinds(q)
    /\ q.route.family = "redpill_aci_verified_tls" => RedpillSessionBinds(q)
    /\ q.route.family = "tinfoil_hw_verified_tls" => TinfoilQuoteVerified(q)

FactsOf(q) ==
    CASE q.route.family = "fixture_dstack" -> FixtureFacts(q)
      [] q.route.family = "dstack_app_e2ee" -> DstackFacts(q)
      [] q.route.family = "chutes_e2ee" -> ChutesFacts(q)
      [] q.route.family = "tinfoil_hw_verified_tls" -> TinfoilFacts(q)
      [] q.route.family \in LiveFamilies -> LiveFacts(q)

\* verify_evidence, as a function of its request.
VerifyEvidence(q) == IF Accepted(q) THEN Judge(q, FactsOf(q)) ELSE Nothing

----------------------------------------------------------------------------
(* Updates of reference values *)

\* Lets an update accept measurements or CPU kinds that the current values do not.
NotWeakenedKeepsKeysOnly(current, candidate) ==
    /\ candidate.model = current.model
    /\ candidate.family = current.family
    /\ candidate.kind = current.kind
    /\ candidate.key = current.key

\* verify_not_weakened_by for a route, with the provider's measurements.  It also refuses a
\* change of trust tier, provider model or response signing key, which are left out here.
NotWeakenedBy(current, candidate) ==
    /\ candidate.model = current.model
    /\ candidate.family = current.family
    /\ candidate.kind = current.kind
    /\ candidate.key = current.key
    /\ current.spki # Nothing => candidate.spki = current.spki
    /\ current.images # Nothing => candidate.images = current.images
    /\ candidate.image = current.image
    /\ candidate.cpus \subseteq current.cpus
    /\ current.artifacts \subseteq candidate.artifacts
    /\ candidate.measurements \subseteq current.measurements

----------------------------------------------------------------------------
(* The request *)

Init ==
    /\ policy \in Policies
    /\ route \in Routes
    /\ reference \in References[route.family] \cup {NoReference}
    /\ evidence = Nothing
    /\ phase = "select"
    /\ verdict = Nothing

SelectRoute ==
    /\ phase = "select"
    /\ phase' = IF RouteSatisfiesPolicy(route, policy) THEN "collect" ELSE "refused"
    /\ UNCHANGED <<policy, route, reference, evidence, verdict>>

CollectEvidence ==
    /\ phase = "collect"
    /\ evidence' \in Evidences[route.family]
    /\ phase' = "verify"
    /\ UNCHANGED <<policy, route, reference, verdict>>

\* Takes the absence of a verdict for one.
VerifyIgnoringErrors(family) ==
    /\ phase = "verify"
    /\ route.family = family
    /\ verdict' = VerifyEvidence(Request)
    /\ phase' = "judged"
    /\ UNCHANGED <<policy, route, reference, evidence>>

\* An error of the verifier ends the attempt.
Verify(family) ==
    /\ phase = "verify"
    /\ route.family = family
    /\ verdict' = VerifyEvidence(Request)
    /\ phase' = IF verdict' = Nothing THEN "error" ELSE "judged"
    /\ UNCHANGED <<policy, route, reference, evidence>>

Send ==
    /\ phase = "judged"
    /\ phase' = IF verdict.allowed THEN "sent" ELSE "denied"
    /\ UNCHANGED <<policy, route, reference, evidence, verdict>>

Next ==
    \/ SelectRoute
    \/ CollectEvidence
    \/ \E family \in Families : Verify(family)
    \/ Send

Spec == Init /\ [][Next]_vars

----------------------------------------------------------------------------
(* Properties *)

\* Every phase goes with what has been decided by then: evidence from "verify" on,
\* a verdict exactly from "judged" on.
TypeOK ==
    /\ policy \in PolicyType
    /\ route \in RouteType
    /\ reference \in ReferenceType \cup {NoReference}
    /\ evidence \in EvidenceType \cup {Nothing}
    /\ phase \in {"select", "refused", "collect", "verify", "error", "judged", "sent", "denied"}
    /\ (phase \in {"judged", "sent", "denied"}) <=>
       (verdict \in [allowed: BOOLEAN, wouldBlock: BOOLEAN,
                     status: {"disabled", "failed", "partial", "verified"},
                     tier: Tiers, expires: Nat])
    /\ verdict # Nothing => evidence # Nothing

Enforced == phase = "sent" /\ policy.mode = "enforce"

Fixture == route.family = "fixture_dstack"

\* Under enforcement a required CPU TEE means a verified quote of an accepted kind and
\* measurement, whatever the provider claims, and a required GPU TEE a GPU report that
\* the GPU verifier accepted; only the offline fixture family passes without a quote.
HardwareProven ==
    Enforced =>
        /\ policy.cpuRequired =>
               /\ CpuMatches(Request)
               /\ Fixture \/ evidence.quoteSigned
               /\ route.family = "tinfoil_hw_verified_tls" => evidence.schema = "quote"
        /\ policy.gpuRequired => evidence.gpu = "verified"

\* Under enforcement a required channel, or confidentiality of either direction, means
\* that the attested report binds the channel's key, the channel is of a kind the policy
\* asks for, and keys that are pinned are the pinned ones.  dstack evidence, which shows
\* nothing of the bytes, never passes.
ChannelProven ==
    Enforced /\ (policy.channel # "not_required" \/ policy.request \/ policy.response) =>
        /\ Satisfies(IF route.family \in TlsFamilies THEN "tls" ELSE "e2ee", policy.channel)
        /\ Fixture \/ evidence.binds
        /\ route.family # "dstack_app_e2ee"
        /\ route.family = "tinfoil_hw_verified_tls" => evidence.spki = reference.spki
        /\ route.family = "chutes_e2ee" => evidence.key = reference.key

\* Under enforcement a per-request policy or a per-request route means evidence bound to
\* the nonce of this very request; families without a nonce never pass such a policy.
FreshnessProven ==
    Enforced /\ (policy.perRequest \/ route.perRequest) =>
        evidence.nonce = "ours" /\ evidence.binds

\* No verdict outlives the reference values, the evidence or the policy's TTL counted from
\* now, whatever time the provider writes into its claims (the fixture family excepted).
LifeBounded ==
    verdict # Nothing =>
        /\ verdict.expires <= reference.until
        /\ verdict.expires <= evidence.expires
        /\ Fixture \/ verdict.expires <= Now + policy.ttl

Allows(q) ==
    /\ RouteSatisfiesPolicy(q.route, q.policy)
    /\ LET v == VerifyEvidence(q) IN IF v = Nothing THEN FALSE ELSE v.allowed

Weaker(weak, strong) ==
    /\ weak.mode = strong.mode
    /\ weak.ttl = strong.ttl
    /\ weak.cpuRequired => strong.cpuRequired /\ strong.cpus \subseteq weak.cpus
    /\ weak.gpuRequired => strong.gpuRequired /\ strong.gpus \subseteq weak.gpus
    /\ weak.channel \in {"not_required", strong.channel}
                        \cup (IF strong.channel # "not_required" THEN {"any"} ELSE {})
    /\ weak.request => strong.request
    /\ weak.response => strong.response
    /\ weak.integrity \in {"not_required", strong.integrity}
                          \cup (IF strong.integrity # "not_required" THEN {"any"} ELSE {})
    /\ weak.model = "required" => strong.model = "required"
    /\ weak.model = "if_supported" => strong.model # "not_required"
    /\ weak.provenance \subseteq strong.provenance
    /\ weak.perRequest => strong.perRequest

\* Asking for less never loses a request: what an enforcing policy lets pass, every policy
\* that requires no more lets pass on the same route, reference values and evidence.
WeakerPolicyAllows ==
    Enforced => \A p \in Policies :
        Weaker(p, policy) => Allows([Request EXCEPT !.policy = p])

\* An accepted update of fully pinned reference values admits nothing new: what passes
\* under the values in force passed under every earlier one of the same lifetime that
\* they are an accepted update of.
UpdatesNarrow ==
    Enforced => \A older \in References[route.family] :
        /\ older.spki # Nothing /\ older.images # Nothing
        /\ older.until = reference.until /\ older.routeUntil = reference.routeUntil
        /\ NotWeakenedBy(older, reference)
        => Allows([Request EXCEPT !.reference = older])

\* What an enforced send rests on, whatever the provider answered: a required TEE was
\* proven by hardware and not by the provider's word, a required channel is bound to that
\* proof, and a send that must be fresh has evidence of its own.
VerdictProven == HardwareProven /\ ChannelProven /\ FreshnessProven

\* Verdicts move the right way: a policy that asks for less allows no less, and accepted
\* updates of the reference values admit nothing that an earlier release refused.
VerdictsMonotone == WeakerPolicyAllows /\ UpdatesNarrow

\* docs/development-status.md says that on claims-only evidence the tier stays below
\* hw-verified-tls even when the policy requires no CPU TEE.
ClaimsTierCapped ==
    verdict # Nothing /\ verdict.status = "verified" /\ route.family \in Families \ LiveFamilies
        /\ ~Fixture /\ evidence.schema = "claims" => verdict.tier # "hw_verified_tls"
=============================================================================
