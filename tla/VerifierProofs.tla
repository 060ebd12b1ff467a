--------------------------- MODULE VerifierProofs ---------------------------
(***************************************************************************)
(* What an enforced send rests on, for every set of policies, routes,      *)
(* reference values and evidence.  The inductive invariant says that a     *)
(* request has been judged only by VerifyEvidence, on the very policy,     *)
(* route and evidence it carries; the rest is a walk through the families  *)
(* from a check that did not fail to the fact it stands for.               *)
(***************************************************************************)
EXTENDS Verifier, TLAPS

\* A request that is past selection satisfied its route, one that is judged carries the
\* verifier's verdict on what it carries, no other carries one, and one that is sent was
\* allowed.
IInv ==
    /\ policy \in Policies
    /\ route \in Routes
    /\ reference \in References[route.family] \cup {NoReference}
    /\ phase \in {"select", "refused", "collect", "verify", "error", "judged", "sent", "denied"}
    /\ phase \notin {"select", "refused"} => RouteSatisfiesPolicy(route, policy)
    /\ phase \in {"verify", "judged", "sent", "denied"} => evidence \in Evidences[route.family]
    /\ phase \in {"judged", "sent", "denied"} =>
           verdict = VerifyEvidence(Request) /\ verdict # Nothing
    /\ phase \notin {"judged", "sent", "denied"} => verdict = Nothing
    /\ phase = "sent" => verdict.allowed

\* The SDK's path through select, collect, verify and send keeps the invariant.
THEOREM Inductive == Spec => []IInv
<1>1. Init => IInv
  BY DEF Init, IInv
<1>2. ASSUME IInv, [Next]_vars PROVE IInv'
  <2>1. CASE SelectRoute
    BY <1>2, <2>1 DEF IInv, SelectRoute, Request
  <2>2. CASE CollectEvidence
    BY <1>2, <2>2 DEF IInv, CollectEvidence, Request
  <2>3. ASSUME NEW family \in Families, Verify(family) PROVE IInv'
    <3>1. Request' = Request
      BY <2>3 DEF Verify, Request
    <3>2. VerifyEvidence(Request)' = VerifyEvidence(Request')
      BY <3>1, <2>3 DEF VerifyEvidence, Verify, Request
    <3> QED
      BY <1>2, <2>3, <3>1, <3>2 DEF IInv, Verify
  <2>4. CASE Send
    BY <1>2, <2>4 DEF IInv, Send, Request
  <2>5. CASE UNCHANGED vars
    BY <1>2, <2>5 DEF IInv, vars, Request
  <2> QED
    BY <1>2, <2>1, <2>2, <2>3, <2>4, <2>5 DEF Next
<1> QED
  BY <1>1, <1>2, PTL DEF Spec

----------------------------------------------------------------------------

Facts == FactsOf(Request)

\* Every request the invariant speaks of is built from typed parts.
LEMMA Typed ==
    ASSUME IInv, phase = "sent"
    PROVE  /\ policy \in PolicyType
           /\ route \in RouteType
           /\ evidence \in EvidenceType
           /\ Request.policy = policy
           /\ Request.route = route
           /\ Request.reference = reference
           /\ Request.evidence = evidence
<1>1. policy \in PolicyType /\ route \in RouteType
  BY PoliciesAssumption, RoutesAssumption DEF IInv
<1>2. route.family \in Families
  BY <1>1 DEF RouteType
<1>3. evidence \in EvidenceType
  BY <1>2, ArtifactsAssumption DEF IInv
<1> QED
  BY <1>1, <1>3 DEF Request

\* An enforced send has evidence the family accepts and no check that blocks.
LEMMA NothingBlocks ==
    ASSUME IInv, Enforced
    PROVE  /\ Accepted(Request)
           /\ \A n \in CheckNames :
                  /\ Checks(Request, Facts)[n] # "failed"
                  /\ Checks(Request, Facts)[n] \in {"not_supported", "unknown"} =>
                         ~CheckIsRequired(n, policy)
<1>1. /\ verdict = VerifyEvidence(Request)
      /\ verdict # Nothing
      /\ verdict.allowed
      /\ policy.mode = "enforce"
      /\ Request.policy = policy
  BY DEF IInv, Enforced, Request
<1>2. Accepted(Request) /\ verdict = Judge(Request, Facts)
  BY <1>1 DEF VerifyEvidence, Facts
<1> DEFINE checks == Checks(Request, Facts)
<1> DEFINE wouldBlock == EnforcementWouldBlock(checks, Request.policy)
<1> DEFINE status == Status(Request.policy, Facts, wouldBlock)
<1> DEFINE allowed == Request.policy.mode = "enforce" => ~wouldBlock
<1>3. verdict = IF Consistent(Request, Facts, checks, status)
                THEN [allowed |-> allowed, wouldBlock |-> wouldBlock, status |-> status,
                      tier |-> Facts.tier, expires |-> Facts.expires]
                ELSE Nothing
  BY <1>2 DEF Judge
<1>4. ~wouldBlock
  <2>1. verdict.allowed = allowed
    <3> DEFINE record == [allowed |-> allowed, wouldBlock |-> wouldBlock, status |-> status,
                          tier |-> Facts.tier, expires |-> Facts.expires]
    <3>1. record.allowed = allowed
      <4> HIDE DEF allowed, wouldBlock, status
      <4> QED
        OBVIOUS
    <3>2. verdict = record
      <4>1. verdict # Nothing
        BY <1>1
      <4>2. verdict = IF Consistent(Request, Facts, checks, status) THEN record ELSE Nothing
        BY <1>3
      <4> HIDE DEF record, checks, status
      <4> QED
        BY <4>1, <4>2
    <3> HIDE DEF record, allowed
    <3> QED
      BY <3>1, <3>2, Zenon
  <2>2. allowed
    <3> HIDE DEF allowed
    <3> QED
      BY <1>1, <2>1
  <2> QED
    BY <1>1, <2>2
<1> HIDE DEF checks
<1>5. \A n \in CheckNames :
          checks[n] # "failed"
          /\ (checks[n] \in {"not_supported", "unknown"} => ~CheckIsRequired(n, policy))
  BY <1>1, <1>4 DEF EnforcementWouldBlock
<1> QED
  BY <1>2, <1>5 DEF checks

\* The checks a family settles by itself.
LEMMA OwnChecks ==
    ASSUME IInv, Enforced
    PROVE  /\ Facts.cpu # "failed"
           /\ Facts.gpu # "failed"
           /\ Facts.tls # "failed"
           /\ Facts.e2ee # "failed"
           /\ Facts.nonce # "failed"
           /\ policy.perRequest => Facts.nonce = "verified"
           /\ policy.channel # "not_required" => Facts.e2ee # "not_supported"
           /\ KeyBinding(Facts, policy.request, Facts.request) # "failed"
           /\ KeyBinding(Facts, policy.response, Facts.response) # "failed"
<1> DEFINE c == Checks(Request, Facts)
<1>1. \A n \in CheckNames :
          /\ c[n] # "failed"
          /\ c[n] \in {"not_supported", "unknown"} => ~CheckIsRequired(n, policy)
  BY NothingBlocks
<1>2. Request.policy = policy
  BY DEF Request
<1>3. /\ c["cpu_tee"] = Facts.cpu
      /\ c["gpu_tee"] = Facts.gpu
      /\ c["tls_binding"] = Facts.tls
      /\ c["e2ee_key_binding"] = Facts.e2ee
      /\ c["nonce_binding"] = Facts.nonce
  BY DEF Checks, CheckNames
<1>4. /\ c["request_key_binding"] = KeyBinding(Facts, policy.request, Facts.request)
      /\ c["response_key_binding"] = KeyBinding(Facts, policy.response, Facts.response)
      /\ c["per_request_freshness"] = PerRequestFreshness(Facts, policy)
  BY <1>2 DEF Checks, CheckNames
<1> HIDE DEF c
<1>5. policy.channel # "not_required" => CheckIsRequired("e2ee_key_binding", policy)
  BY DEF CheckIsRequired
<1>6. {"cpu_tee", "gpu_tee", "tls_binding", "e2ee_key_binding", "nonce_binding",
       "request_key_binding", "response_key_binding", "per_request_freshness"}
      \subseteq CheckNames
  BY DEF CheckNames
<1>7. policy.perRequest => Facts.nonce = "verified"
  BY <1>1, <1>4, <1>6 DEF PerRequestFreshness, V
<1> QED
  BY <1>1, <1>3, <1>4, <1>5, <1>6, <1>7

----------------------------------------------------------------------------

\* Every family has its own verifier.
LEMMA FactsByFamily ==
    ASSUME NEW q
    PROVE  /\ q.route.family = "fixture_dstack" => FactsOf(q) = FixtureFacts(q)
           /\ q.route.family = "dstack_app_e2ee" => FactsOf(q) = DstackFacts(q)
           /\ q.route.family = "chutes_e2ee" => FactsOf(q) = ChutesFacts(q)
           /\ q.route.family = "tinfoil_hw_verified_tls" => FactsOf(q) = TinfoilFacts(q)
           /\ q.route.family \in LiveFamilies => FactsOf(q) = LiveFacts(q)
  BY DEF FactsOf, LiveFamilies, LiveTlsFamilies, LiveE2eeFamilies

\* The CPU check of every family when the policy requires a CPU TEE.
LEMMA CpuFacts ==
    ASSUME NEW q, q.policy.cpuRequired, q.route.family \in Families
    PROVE  /\ FactsOf(q).cpu \in {"failed", V(CpuMatches(q))}
           /\ q.route.family \in ClaimsFamilies => FactsOf(q).cpu = "failed"
           /\ q.route.family = "tinfoil_hw_verified_tls" /\ q.evidence.schema # "quote" =>
                  FactsOf(q).cpu = "failed"
<1>1. FixtureFacts(q).cpu = V(CpuMatches(q))
  BY DEF FixtureFacts, MatchedCpu, Established
<1>2. DstackFacts(q).cpu = "failed"
  BY DEF DstackFacts, ClaimedCpu, Established
<1>3. ChutesFacts(q).cpu = "failed"
  BY DEF ChutesFacts, Gpu, ClaimedCpu, Established
<1>4. TinfoilFacts(q).cpu = IF q.evidence.schema # "quote" THEN "failed" ELSE V(CpuMatches(q))
  BY DEF TinfoilFacts, MatchedCpu, ClaimedCpu, Established
<1>5. LiveFacts(q).cpu = V(CpuMatches(q))
  BY DEF LiveFacts, Gpu, MatchedCpu, Established
<1>6. \/ q.route.family \in ClaimsFamilies
      \/ q.route.family \in LiveFamilies
      \/ q.route.family = "fixture_dstack"
      \/ q.route.family = "tinfoil_hw_verified_tls"
  BY DEF Families
<1>7. q.route.family \in ClaimsFamilies => FactsOf(q).cpu = "failed"
  BY <1>2, <1>3, FactsByFamily DEF ClaimsFamilies
<1>8. q.route.family = "tinfoil_hw_verified_tls" =>
          FactsOf(q).cpu = IF q.evidence.schema # "quote" THEN "failed" ELSE V(CpuMatches(q))
  BY <1>4, FactsByFamily
<1> QED
  BY <1>1, <1>5, <1>6, <1>7, <1>8, FactsByFamily

\* The GPU check of the families that look at a GPU.
LEMMA GpuFacts ==
    ASSUME NEW q, q.policy.gpuRequired, q.route.family \in GpuFamilies
    PROVE  FactsOf(q).gpu = V(GpuMatches(q))
<1>1. ChutesFacts(q).gpu = V(GpuMatches(q))
  BY DEF ChutesFacts, Gpu, ClaimedCpu, Established
<1>2. LiveFacts(q).gpu = V(GpuMatches(q))
  BY DEF LiveFacts, Gpu, MatchedCpu, Established
<1> QED
  BY <1>1, <1>2, FactsByFamily DEF GpuFamilies

\* A required CPU or GPU TEE is proven by the evidence of every enforced send
\* (verify_evidence, verify_with_cache).
THEOREM HardwareIsProven == Spec => []HardwareProven
<1>1. ASSUME IInv, Enforced PROVE HardwareProven
  <2>1. /\ phase = "sent"
        /\ RouteSatisfiesPolicy(route, policy)
    BY <1>1 DEF IInv, Enforced
  <2>2. /\ route \in RouteType
        /\ Request.policy = policy
        /\ Request.route = route
        /\ Request.reference = reference
        /\ Request.evidence = evidence
    BY <1>1, <2>1, Typed
  <2>3. route.family \in Families
    BY <2>2 DEF RouteType
  <2>4. Accepted(Request) /\ Facts.cpu # "failed" /\ Facts.gpu # "failed"
    BY <1>1, NothingBlocks, OwnChecks
  <2>5. ASSUME policy.cpuRequired
        PROVE  /\ CpuMatches(Request)
               /\ Fixture \/ evidence.quoteSigned
               /\ route.family = "tinfoil_hw_verified_tls" => evidence.schema = "quote"
    <3>1. /\ Facts.cpu \in {"failed", V(CpuMatches(Request))}
          /\ route.family \in ClaimsFamilies => Facts.cpu = "failed"
          /\ route.family = "tinfoil_hw_verified_tls" /\ evidence.schema # "quote" =>
                 Facts.cpu = "failed"
      BY <2>2, <2>3, <2>5, CpuFacts DEF Facts
    <3>2. CpuMatches(Request)
      BY <2>4, <3>1 DEF V
    <3>3. route.family \notin ClaimsFamilies
      BY <2>4, <3>1
    <3>4. route.family = "tinfoil_hw_verified_tls" => evidence.schema = "quote"
      BY <2>4, <3>1
    <3>5. route.family \in LiveFamilies \cup {"tinfoil_hw_verified_tls"} => evidence.quoteSigned
      BY <2>2, <2>4, <3>4 DEF Accepted, LiveCaptureMatchesRequest, GpuAnswersCapture,
                              PpqCaptureBinds, RedpillSessionBinds, TinfoilQuoteVerified,
                              LiveFamilies, LiveTlsFamilies, LiveE2eeFamilies
    <3> QED
      BY <2>3, <3>2, <3>3, <3>4, <3>5 DEF Families, Fixture
  <2>6. ASSUME policy.gpuRequired PROVE evidence.gpu = "verified"
    <3>1. route.gpus # {}
      BY <2>1, <2>6 DEF RouteSatisfiesPolicy
    <3>2. route.family \in GpuFamilies
      BY <1>1, <3>1, RoutesAssumption DEF IInv
    <3>3. Facts.gpu = V(GpuMatches(Request))
      BY <2>2, <2>6, <3>2, GpuFacts DEF Facts
    <3> QED
      BY <2>2, <2>4, <3>3 DEF V, GpuMatches
  <2> QED
    BY <2>5, <2>6 DEF HardwareProven
<1>2. IInv => HardwareProven
  BY <1>1 DEF HardwareProven
<1> QED
  BY <1>2, Inductive, PTL

----------------------------------------------------------------------------

\* The nonce check of every family that does not refuse evidence outright.
LEMMA NonceFacts ==
    ASSUME NEW q, q.route.family \in Families
    PROVE  /\ q.route.family \notin NonceFamilies => FactsOf(q).nonce # "verified"
           /\ q.route.family \in NonceFamilies \ {"redpill_aci_verified_tls"} =>
                  FactsOf(q).nonce = V(q.evidence.binds /\ FreshnessNonceMatchesPolicy(q))
<1>1. FixtureFacts(q).nonce = "not_applicable"
  BY DEF FixtureFacts, MatchedCpu, Established
<1>2. DstackFacts(q).nonce = "not_applicable"
  BY DEF DstackFacts, ClaimedCpu, Established
<1>3. TinfoilFacts(q).nonce = "not_applicable"
  BY DEF TinfoilFacts, MatchedCpu, ClaimedCpu, Established
<1>4. ChutesFacts(q).nonce = V(q.evidence.binds /\ FreshnessNonceMatchesPolicy(q))
  BY DEF ChutesFacts, Gpu, ClaimedCpu, Established
<1>5. q.route.family = "ppq_ehbp" => LiveFacts(q).nonce = "not_supported"
  BY DEF LiveFacts, Gpu, MatchedCpu, Established
<1>6. q.route.family \in {"near_hw_verified_tls", "chutes_live_e2ee"} =>
          LiveFacts(q).nonce = V(q.evidence.binds /\ FreshnessNonceMatchesPolicy(q))
  BY DEF LiveFacts, Gpu, MatchedCpu, Established
<1>7. CASE q.route.family \in NonceFamilies
  <2>1. q.route.family # "redpill_aci_verified_tls" =>
            q.route.family \in {"near_hw_verified_tls", "chutes_live_e2ee", "chutes_e2ee"}
    BY <1>7 DEF NonceFamilies, LiveTlsFamilies
  <2>2. {"near_hw_verified_tls", "chutes_live_e2ee"} \subseteq LiveFamilies
    BY DEF LiveFamilies, LiveTlsFamilies, LiveE2eeFamilies
  <2> QED
    BY <1>4, <1>6, <1>7, <2>1, <2>2, FactsByFamily
<1>8. CASE q.route.family \notin NonceFamilies
  <2>1. q.route.family \in {"fixture_dstack", "dstack_app_e2ee", "tinfoil_hw_verified_tls",
                            "ppq_ehbp"}
    BY <1>8 DEF Families, NonceFamilies, ClaimsFamilies, LiveFamilies, LiveTlsFamilies,
                LiveE2eeFamilies
  <2>2. "ppq_ehbp" \in LiveFamilies
    BY DEF LiveFamilies, LiveE2eeFamilies
  <2> QED
    BY <1>1, <1>2, <1>3, <1>5, <1>8, <2>1, <2>2, FactsByFamily
<1> QED
  BY <1>7, <1>8

\* Evidence of an enforced send that must be fresh is bound to this request's nonce
\* (freshness_nonce_matches_policy).
THEOREM FreshnessIsProven == Spec => []FreshnessProven
<1>1. ASSUME IInv, Enforced, policy.perRequest \/ route.perRequest
      PROVE  evidence.nonce = "ours" /\ evidence.binds
  <2>1. /\ route \in RouteType
        /\ Request.policy = policy
        /\ Request.route = route
        /\ Request.evidence = evidence
    BY <1>1, Typed DEF Enforced
  <2>2. route.family \in Families
    BY <2>1 DEF RouteType
  <2>3. /\ Accepted(Request)
        /\ Facts.nonce # "failed"
        /\ policy.perRequest => Facts.nonce = "verified"
    BY <1>1, NothingBlocks, OwnChecks
  <2>4. route.family \in NonceFamilies
    <3>1. CASE policy.perRequest
      BY <2>1, <2>2, <2>3, <3>1, NonceFacts DEF Facts
    <3>2. CASE route.perRequest
      BY <1>1, <3>2, RoutesAssumption DEF IInv
    <3> QED
      BY <1>1, <3>1, <3>2
  <2>5. CASE route.family = "redpill_aci_verified_tls"
    BY <2>1, <2>3, <2>5 DEF Accepted, RedpillSessionBinds
  <2>6. CASE route.family # "redpill_aci_verified_tls"
    <3>1. Facts.nonce = V(evidence.binds /\ FreshnessNonceMatchesPolicy(Request))
      BY <2>1, <2>2, <2>4, <2>6, NonceFacts DEF Facts
    <3>2. evidence.binds /\ FreshnessNonceMatchesPolicy(Request)
      BY <2>3, <3>1 DEF V
    <3>3. ExpectsNonce(Request)
      BY <1>1, <2>1 DEF ExpectsNonce
    <3> QED
      BY <2>1, <3>2, <3>3 DEF FreshnessNonceMatchesPolicy
  <2> QED
    BY <2>5, <2>6
<1>2. IInv => FreshnessProven
  BY <1>1 DEF FreshnessProven
<1> QED
  BY <1>2, Inductive, PTL

----------------------------------------------------------------------------

\* What the families other than dstack make of a bound channel.
LEMMA ChutesChannel ==
    ASSUME NEW q
    PROVE  LET channel == /\ KindsMatch(q)
                          /\ q.evidence.binds /\ FreshnessNonceMatchesPolicy(q)
                          /\ q.evidence.key = q.reference.key
               f == ChutesFacts(q)
           IN  /\ f.provesBytes
               /\ q.policy.channel # "not_required" => f.e2ee = V(channel)
               /\ ~channel => f.request = "not_bound" /\ f.response = "not_bound"
  BY DEF ChutesFacts, Gpu, ClaimedCpu, Established

LEMMA TinfoilChannel ==
    ASSUME NEW q
    PROVE  TinfoilFacts(q).tls =
               V(KindsMatch(q) /\ q.evidence.binds /\ q.evidence.spki = q.reference.spki)
  BY DEF TinfoilFacts, MatchedCpu, ClaimedCpu, Established

LEMMA LiveChannel ==
    ASSUME NEW q, q.route.family \in {"near_hw_verified_tls", "chutes_live_e2ee"}
    PROVE  q.evidence.binds \/ "failed" \in {LiveFacts(q).tls, LiveFacts(q).e2ee}
<1>1. V((q.evidence.binds /\ FreshnessNonceMatchesPolicy(q)) /\ KindsMatch(q))
          \in {LiveFacts(q).tls, LiveFacts(q).e2ee}
  BY DEF LiveFacts, Gpu, MatchedCpu, Established, LiveTlsFamilies, LiveE2eeFamilies
<1> QED
  BY <1>1 DEF V

\* dstack evidence fails whatever asks for a channel.
LEMMA DstackChannel ==
    ASSUME NEW q
    PROVE  LET f == DstackFacts(q)
           IN  /\ ~f.provesBytes
               /\ q.policy.channel # "not_required" => f.e2ee = "not_supported"
  BY DEF DstackFacts, ClaimedCpu, Established

\* The channel of an enforced send is bound by the attested report, of a kind that the
\* policy asks for, and under the pinned keys (verify_evidence and the channel checks of
\* the families).
THEOREM ChannelIsProven == Spec => []ChannelProven
<1>1. ASSUME IInv, Enforced,
             policy.channel # "not_required" \/ policy.request \/ policy.response
      PROVE  ChannelProven
  <2>1. /\ route \in RouteType
        /\ Request.policy = policy
        /\ Request.route = route
        /\ Request.reference = reference
        /\ Request.evidence = evidence
    BY <1>1, Typed DEF Enforced
  <2>2. route.family \in Families
    BY <2>1 DEF RouteType
  <2>3. Accepted(Request)
    BY <1>1, NothingBlocks
  <2>4. Satisfies(IF route.family \in TlsFamilies THEN "tls" ELSE "e2ee", policy.channel)
    BY <1>1, RoutesAssumption DEF IInv, Enforced, RouteSatisfiesPolicy
  <2>5. route.family # "dstack_app_e2ee"
    <3> SUFFICES ASSUME route.family = "dstack_app_e2ee" PROVE FALSE
      OBVIOUS
    <3>1. /\ ~Facts.provesBytes
          /\ policy.channel # "not_required" => Facts.e2ee = "not_supported"
      BY <2>1, FactsByFamily, DstackChannel DEF Facts
    <3>2. policy.channel = "not_required"
      BY <1>1, <3>1, OwnChecks
    <3>3. CASE policy.request
      BY <1>1, <3>1, <3>3, OwnChecks DEF KeyBinding
    <3>4. CASE policy.response
      BY <1>1, <3>1, <3>4, OwnChecks DEF KeyBinding
    <3> QED
      BY <1>1, <3>2, <3>3, <3>4
  <2>6. CASE route.family = "chutes_e2ee"
    <3> DEFINE channel == /\ KindsMatch(Request)
                          /\ evidence.binds /\ FreshnessNonceMatchesPolicy(Request)
                          /\ evidence.key = reference.key
    <3>1. /\ Facts.provesBytes
          /\ policy.channel # "not_required" => Facts.e2ee = V(channel)
          /\ ~channel => Facts.request = "not_bound" /\ Facts.response = "not_bound"
      BY <2>1, <2>6, FactsByFamily, ChutesChannel DEF Facts
    <3>2. channel
      <4> HIDE DEF channel
      <4>1. CASE policy.channel # "not_required"
        BY <1>1, <3>1, <4>1, OwnChecks DEF V
      <4>2. CASE policy.request
        BY <1>1, <3>1, <4>2, OwnChecks DEF KeyBinding, V, Bound
      <4>3. CASE policy.response
        BY <1>1, <3>1, <4>3, OwnChecks DEF KeyBinding, V, Bound
      <4> QED
        BY <1>1, <4>1, <4>2, <4>3
    <3> QED
      BY <2>4, <2>6, <3>2 DEF ChannelProven
  <2>7. CASE route.family = "tinfoil_hw_verified_tls"
    <3>1. Facts.tls = V(KindsMatch(Request) /\ evidence.binds /\ evidence.spki = reference.spki)
      BY <2>1, <2>7, FactsByFamily, TinfoilChannel DEF Facts
    <3>2. evidence.binds /\ evidence.spki = reference.spki
      BY <1>1, <3>1, OwnChecks DEF V
    <3> QED
      BY <2>4, <2>7, <3>2 DEF ChannelProven
  <2>8. CASE route.family \in LiveFamilies
    <3>1. CASE route.family \in {"redpill_aci_verified_tls", "ppq_ehbp"}
      <4>1. evidence.binds
        BY <2>1, <2>3, <3>1 DEF Accepted, PpqCaptureBinds, RedpillSessionBinds
      <4> QED
        BY <2>4, <3>1, <4>1 DEF ChannelProven
    <3>2. CASE route.family \in {"near_hw_verified_tls", "chutes_live_e2ee"}
      <4>1. Facts = LiveFacts(Request)
        BY <2>1, <2>8, FactsByFamily DEF Facts
      <4>2. evidence.binds
        BY <1>1, <2>1, <3>2, <4>1, LiveChannel, OwnChecks
      <4> QED
        BY <2>4, <3>2, <4>2 DEF ChannelProven
    <3> QED
      BY <2>8, <3>1, <3>2 DEF LiveFamilies, LiveTlsFamilies, LiveE2eeFamilies
  <2>9. CASE route.family = "fixture_dstack"
    BY <2>4, <2>9 DEF ChannelProven, Fixture
  <2> QED
    BY <2>2, <2>5, <2>6, <2>7, <2>8, <2>9 DEF Families, ClaimsFamilies
<1>2. IInv => ChannelProven
  BY <1>1 DEF ChannelProven
<1> QED
  BY <1>2, Inductive, PTL

\* An enforced send rests on proven hardware, a proven channel and evidence of its own
\* where the policy or the route asks for them: the verifier and enforce_verdict leave no
\* combination of requirement, family and provider answer through.
THEOREM VerdictIsProven == Spec => []VerdictProven
<1>1. HardwareProven /\ ChannelProven /\ FreshnessProven => VerdictProven
  BY DEF VerdictProven
<1> QED
  BY <1>1, HardwareIsProven, ChannelIsProven, FreshnessIsProven, PTL

----------------------------------------------------------------------------
(* How long a verdict lives *)

\* The least of up to five times is one of them and no later than any.
LEMMA LeastTime ==
    ASSUME NEW a \in Int, NEW b \in Int, NEW c \in Int, NEW d \in Int, NEW e \in Int
    PROVE  Min({a, b, c, d, e}) \in Int
           /\ Min({a, b, c, d, e}) <= a /\ Min({a, b, c, d, e}) <= b /\ Min({a, b, c, d, e}) <= c
           /\ Min({a, b, c, d, e}) <= d /\ Min({a, b, c, d, e}) <= e
<1> DEFINE S == {a, b, c, d, e}
<1>1. \E x \in S : \A y \in S : x <= y
  <2>1. PICK x \in {a, b} : x <= a /\ x <= b
    OBVIOUS
  <2>2. PICK y \in {x, c} : y <= x /\ y <= c
    OBVIOUS
  <2>3. PICK z \in {y, d} : z <= y /\ z <= d
    OBVIOUS
  <2>4. PICK w \in {z, e} : w <= z /\ w <= e
    OBVIOUS
  <2>5. w \in S
    BY <2>1, <2>2, <2>3, <2>4
  <2>6. \A y0 \in S : w <= y0
    BY <2>1, <2>2, <2>3, <2>4
  <2> QED
    BY <2>5, <2>6
<1>2. Min(S) \in S /\ \A y \in S : Min(S) <= y
  <2> HIDE DEF S
  <2> QED
    BY <1>1 DEF Min
<1> HIDE DEF Min
<1> QED
  BY <1>2

\* A verdict expires no later than each time it was computed from.
LEMMA ExpiryBounded ==
    ASSUME NEW q, NEW quoteVerified \in BOOLEAN, NEW wallClockBound \in BOOLEAN,
           q.policy.ttl \in Nat, q.evidence.issued \in Nat, q.evidence.expires \in Nat,
           q.reference.routeUntil \in Nat, q.reference.until \in Nat
    PROVE  LET e == ExpiresAt(q, quoteVerified, wallClockBound)
           IN  /\ e <= q.reference.until
               /\ e <= q.evidence.expires
               /\ quoteVerified \/ wallClockBound => e <= Now + q.policy.ttl
<1> DEFINE i == Issued(q, quoteVerified) + q.policy.ttl
           x == q.evidence.expires
           r == q.reference.routeUntil
           u == q.reference.until
           n == Now + q.policy.ttl
<1>1. i \in Int /\ x \in Int /\ r \in Int /\ u \in Int /\ n \in Int
  BY NowAssumption DEF Issued
<1>2. quoteVerified => i = n
  BY DEF Issued
<1>3. ExpiresAt(q, quoteVerified, wallClockBound)
          = IF wallClockBound THEN Min({i, x, r, u, n}) ELSE Min({i, x, r, u, u})
  <2>1. CASE wallClockBound
    <3>1. {i, x, r, u} \cup {n} = {i, x, r, u, n}
      OBVIOUS
    <3> QED
      BY <2>1, <3>1, Zenon DEF ExpiresAt
  <2>2. CASE ~wallClockBound
    <3>1. {i, x, r, u} \cup {} = {i, x, r, u, u}
      OBVIOUS
    <3> QED
      BY <2>2, <3>1, Zenon DEF ExpiresAt
  <2> QED
    BY <2>1, <2>2
<1> HIDE DEF i, x, r, u, n
<1>4. /\ Min({i, x, r, u, n}) <= u /\ Min({i, x, r, u, n}) <= x
      /\ Min({i, x, r, u, n}) <= i /\ Min({i, x, r, u, n}) <= n
      /\ Min({i, x, r, u, u}) <= u /\ Min({i, x, r, u, u}) <= x
      /\ Min({i, x, r, u, u}) <= i
  BY <1>1, LeastTime
<1>5. ASSUME NEW e, e = ExpiresAt(q, quoteVerified, wallClockBound)
      PROVE  e <= u /\ e <= x /\ (quoteVerified \/ wallClockBound => e <= n)
  BY <1>2, <1>3, <1>4, <1>5
<1> QED
  BY <1>5 DEF x, u, n

\* Which expiry each family reports: every family but the fixture's counts the TTL from
\* the verification, because its quote is issued then or because of the wall clock.
LEMMA FamilyExpiry ==
    ASSUME NEW q, q.route.family \in Families
    PROVE  /\ q.route.family # "fixture_dstack" =>
                  \/ FactsOf(q).expires = ExpiresAt(q, TRUE, FALSE)
                  \/ FactsOf(q).expires = ExpiresAt(q, FALSE, TRUE)
           /\ q.route.family = "fixture_dstack" =>
                  FactsOf(q).expires = ExpiresAt(q, FALSE, FALSE)
<1>1. FixtureFacts(q).expires = ExpiresAt(q, FALSE, FALSE)
  BY Zenon DEF FixtureFacts, MatchedCpu, Established
<1>2. DstackFacts(q).expires = ExpiresAt(q, FALSE, TRUE)
  BY Zenon DEF DstackFacts, ClaimedCpu, Established
<1>3. ChutesFacts(q).expires = ExpiresAt(q, FALSE, TRUE)
  BY Zenon DEF ChutesFacts, Gpu, ClaimedCpu, Established
<1>4. \/ TinfoilFacts(q).expires = ExpiresAt(q, TRUE, FALSE)
      \/ TinfoilFacts(q).expires = ExpiresAt(q, FALSE, TRUE)
  <2>1. CASE q.evidence.schema = "quote"
    BY <2>1, Zenon DEF TinfoilFacts, MatchedCpu, Established
  <2>2. CASE q.evidence.schema # "quote"
    BY <2>2, Zenon DEF TinfoilFacts, ClaimedCpu, Established
  <2> QED
    BY <2>1, <2>2
<1>5. LiveFacts(q).expires = ExpiresAt(q, TRUE, FALSE)
  BY Zenon DEF LiveFacts, Gpu, MatchedCpu, Established
<1>6. \/ q.route.family = "fixture_dstack" \/ q.route.family = "dstack_app_e2ee"
      \/ q.route.family = "chutes_e2ee" \/ q.route.family = "tinfoil_hw_verified_tls"
      \/ q.route.family \in LiveFamilies
  BY DEF Families, ClaimsFamilies
<1>7. "fixture_dstack" \notin LiveFamilies
  BY DEF LiveFamilies, LiveTlsFamilies, LiveE2eeFamilies
<1> HIDE DEF ExpiresAt
<1> QED
  BY <1>1, <1>2, <1>3, <1>4, <1>5, <1>6, <1>7, FactsByFamily

\* A verdict is what Judge made of the family's facts.
LEMMA JudgedFields ==
    ASSUME NEW q, VerifyEvidence(q) # Nothing
    PROVE  /\ Accepted(q)
           /\ VerifyEvidence(q).expires = FactsOf(q).expires
<1> DEFINE f == FactsOf(q)
           checks == Checks(q, f)
           wouldBlock == EnforcementWouldBlock(checks, q.policy)
           status == Status(q.policy, f, wouldBlock)
           record == [allowed |-> q.policy.mode = "enforce" => ~wouldBlock,
                      wouldBlock |-> wouldBlock, status |-> status, tier |-> f.tier,
                      expires |-> f.expires]
<1>1. Accepted(q) /\ VerifyEvidence(q) = Judge(q, f)
  BY DEF VerifyEvidence
<1>2. Judge(q, f) = IF Consistent(q, f, checks, status) THEN record ELSE Nothing
  BY Zenon DEF Judge
<1>3. record.expires = f.expires
  <2> HIDE DEF wouldBlock, status, f
  <2> QED
    BY Zenon
<1> HIDE DEF record, f, checks, status
<1>4. VerifyEvidence(q) = record
  BY <1>1, <1>2
<1> QED
  BY <1>1, <1>3, <1>4 DEF f

\* No verdict outlives what it rests on, whatever time the provider claims: the TTL of a
\* verdict counts from the verification and not from the claims (expires_at of the families).
THEOREM LifeIsBounded == Spec => []LifeBounded
<1>1. ASSUME IInv, verdict # Nothing PROVE LifeBounded
  <2>1. phase \in {"judged", "sent", "denied"}
    BY <1>1 DEF IInv
  <2>2. /\ verdict = VerifyEvidence(Request)
        /\ VerifyEvidence(Request) # Nothing
    BY <1>1, <2>1 DEF IInv
  <2>3. /\ Accepted(Request)
        /\ verdict.expires = FactsOf(Request).expires
    BY <2>2, JudgedFields, Zenon
  <2>4. /\ Request.policy = policy
        /\ Request.route = route
        /\ Request.reference = reference
        /\ Request.evidence = evidence
    BY DEF Request
  <2>5. policy \in PolicyType /\ route \in RouteType
    BY <1>1, PoliciesAssumption, RoutesAssumption DEF IInv
  <2>6. route.family \in Families
    BY <2>5 DEF RouteType
  <2>7. evidence \in EvidenceType
    BY <1>1, <2>1, <2>6, ArtifactsAssumption DEF IInv
  <2>8. reference \in ReferenceType
    <3>1. reference # NoReference
      BY <2>3, <2>4 DEF Accepted
    <3> QED
      BY <1>1, <2>6, <3>1, ArtifactsAssumption DEF IInv
  <2>9. /\ policy.ttl \in Nat
        /\ evidence.issued \in Nat
        /\ evidence.expires \in Nat
        /\ reference.routeUntil \in Nat
        /\ reference.until \in Nat
    BY <2>5, <2>7, <2>8 DEF PolicyType, EvidenceType, ReferenceType
  <2> DEFINE Bounded(e) == /\ e <= reference.until
                           /\ e <= evidence.expires
                           /\ Fixture \/ e <= Now + policy.ttl
  <2>10. route.family # "fixture_dstack" =>
             Bounded(ExpiresAt(Request, TRUE, FALSE)) /\ Bounded(ExpiresAt(Request, FALSE, TRUE))
    BY <2>4, <2>9, ExpiryBounded
  <2>11. route.family = "fixture_dstack" => Bounded(ExpiresAt(Request, FALSE, FALSE))
    BY <2>4, <2>9, ExpiryBounded DEF Fixture
  <2>12. Bounded(FactsOf(Request).expires)
    <3>1. /\ route.family # "fixture_dstack" =>
                 \/ FactsOf(Request).expires = ExpiresAt(Request, TRUE, FALSE)
                 \/ FactsOf(Request).expires = ExpiresAt(Request, FALSE, TRUE)
          /\ route.family = "fixture_dstack" =>
                 FactsOf(Request).expires = ExpiresAt(Request, FALSE, FALSE)
      BY <2>4, <2>6, FamilyExpiry
    <3> HIDE DEF Bounded
    <3> QED
      BY <2>10, <2>11, <3>1, Zenon
  <2> QED
    BY <2>3, <2>12 DEF LifeBounded
<1>2. IInv => LifeBounded
  BY <1>1 DEF LifeBounded
<1> QED
  BY <1>2, Inductive, PTL

----------------------------------------------------------------------------
(* Verdicts that move the right way *)

\* Reference values that pin the same keys and admit everything the others admit.
Admits(older, newer) ==
    /\ older.model = newer.model
    /\ older.family = newer.family
    /\ older.kind = newer.kind
    /\ older.key = newer.key
    /\ older.spki = newer.spki
    /\ older.images = newer.images
    /\ older.image = newer.image
    /\ newer.cpus \subseteq older.cpus
    /\ newer.measurements \subseteq older.measurements
    /\ older.artifacts \subseteq newer.artifacts
    /\ older.until = newer.until
    /\ older.routeUntil = newer.routeUntil

\* The same evidence for the same route, judged by no more than q asks.
Eased(g, q) ==
    /\ g.route = q.route
    /\ g.evidence = q.evidence
    /\ q.policy \in PolicyType
    /\ g.policy \in PolicyType
    /\ g.reference # NoReference
    /\ Weaker(g.policy, q.policy)
    /\ Admits(g.reference, q.reference)

\* What a request that asks for no more gets from the pieces the families share.
LEMMA EasedSatisfies ==
    ASSUME NEW g, NEW q, Eased(g, q), NEW kind, Satisfies(kind, q.policy.channel)
    PROVE  Satisfies(kind, g.policy.channel)
  BY DEF Eased, Weaker, Satisfies, PolicyType

Pieces(g, q) ==
    /\ g.policy.cpuRequired => q.policy.cpuRequired /\ (CpuMatches(q) => CpuMatches(g))
    /\ g.policy.gpuRequired => q.policy.gpuRequired /\ (GpuMatches(q) => GpuMatches(g))
    /\ q.policy.channel = "not_required" => g.policy.channel = "not_required"
    /\ ChannelKeyMatches(q) => ChannelKeyMatches(g)
    /\ KindsMatch(q) => KindsMatch(g)
    /\ FreshnessNonceMatchesPolicy(q) => FreshnessNonceMatchesPolicy(g)
    /\ ModelMatches(g) <=> ModelMatches(q)
    /\ ArtifactsMatch(q) => ArtifactsMatch(g)
    /\ Accepted(q) => Accepted(g)

LEMMA EasedPieces ==
    ASSUME NEW g, NEW q, Eased(g, q)
    PROVE  Pieces(g, q)
<1>1. g.policy.cpuRequired => q.policy.cpuRequired /\ (CpuMatches(q) => CpuMatches(g))
  BY DEF Eased, Weaker, Admits, CpuMatches
<1>2. g.policy.gpuRequired => q.policy.gpuRequired /\ (GpuMatches(q) => GpuMatches(g))
  BY DEF Eased, Weaker, GpuMatches
<1>3. q.policy.channel = "not_required" => g.policy.channel = "not_required"
  BY DEF Eased, Weaker
<1>4. ChannelKeyMatches(q) => ChannelKeyMatches(g)
  <2>1. \A kind : Satisfies(kind, q.policy.channel) => Satisfies(kind, g.policy.channel)
    BY EasedSatisfies
  <2> QED
    BY <2>1 DEF Eased, Admits, ChannelKeyMatches
<1>5. KindsMatch(q) => KindsMatch(g)
  BY EasedSatisfies DEF Eased, Admits, KindsMatch
<1>6. FreshnessNonceMatchesPolicy(q) => FreshnessNonceMatchesPolicy(g)
  BY DEF Eased, Weaker, FreshnessNonceMatchesPolicy, ExpectsNonce
<1>7. ModelMatches(g) <=> ModelMatches(q)
  BY DEF Eased, Admits, ModelMatches
<1>8. ArtifactsMatch(q) => ArtifactsMatch(g)
  BY DEF Eased, Admits, ArtifactsMatch
<1>9. Accepted(q) => Accepted(g)
  BY DEF Eased, Admits, Accepted, GpuAnswersCapture, LiveCaptureMatchesRequest,
         PpqCaptureBinds, RedpillSessionBinds, TinfoilQuoteVerified
<1> QED
  BY <1>1, <1>2, <1>3, <1>4, <1>5, <1>6, <1>7, <1>8, <1>9 DEF Pieces

LEMMA EasedExpiry ==
    ASSUME NEW g, NEW q, Eased(g, q)
    PROVE  /\ ExpiresAt(g, TRUE, FALSE) = ExpiresAt(q, TRUE, FALSE)
           /\ ExpiresAt(g, FALSE, TRUE) = ExpiresAt(q, FALSE, TRUE)
           /\ ExpiresAt(g, FALSE, FALSE) = ExpiresAt(q, FALSE, FALSE)
  BY Zenon DEF Eased, Weaker, Admits, ExpiresAt, Issued

\* The result of a check that is only made where it is asked for.
Required(b, x) == IF b THEN x ELSE "not_applicable"

IsFixture(q, f) ==
    /\ f.cpu = Required(q.policy.cpuRequired, V(CpuMatches(q)))
    /\ f.cpuReference = "not_applicable"
    /\ f.gpu = "not_applicable"
    /\ f.tls = "not_applicable"
    /\ f.e2ee = Required(q.policy.channel # "not_required", V(ChannelKeyMatches(q)))
    /\ f.keyReference = "not_applicable"
    /\ f.tcb = "not_applicable"
    /\ f.nonce = "not_applicable"
    /\ f.manifest = "not_applicable"
    /\ f.request = IF q.evidence.requestBound THEN "encrypted_bound" ELSE "not_bound"
    /\ f.response = IF q.evidence.responseBound THEN "encrypted_bound" ELSE "not_bound"
    /\ f.integrity = IF q.evidence.responseBound THEN "channel" ELSE "not_bound"
    /\ f.requestBound = q.evidence.requestBound
    /\ f.responseBound = q.evidence.responseBound
    /\ f.provesBytes
    /\ f.hardware <=> (q.policy.cpuRequired => CpuMatches(q))
    /\ f.gpuVerified
    /\ f.channel <=> ChannelKeyMatches(q)
    /\ f.supportsModel
    /\ f.modelMatches <=> ModelMatches(q)
    /\ f.comparesProvenance
    /\ f.imageMatches <=> (q.evidence.image = q.reference.image)
    /\ f.tier = q.route.tier
    /\ ~f.live
    /\ f.expires = ExpiresAt(q, FALSE, FALSE)

LEMMA FixtureTable ==
    ASSUME NEW q, NEW f, f = FixtureFacts(q)
    PROVE  IsFixture(q, f)
  BY DEF FixtureFacts, MatchedCpu, Established, Required, IsFixture

IsDstack(q, f) ==
    /\ f.cpu = Required(q.policy.cpuRequired, "failed")
    /\ f.cpuReference = Required(q.policy.cpuRequired, V(CpuMatches(q)))
    /\ f.gpu = "not_applicable"
    /\ f.tls = "not_applicable"
    /\ f.e2ee = Required(q.policy.channel # "not_required", "not_supported")
    /\ f.keyReference = V(ChannelKeyMatches(q))
    /\ f.tcb = V(q.evidence.tcb)
    /\ f.nonce = "not_applicable"
    /\ f.manifest = Required(q.policy.provenance # {}, V(q.evidence.manifest))
    /\ f.request = "unknown"
    /\ f.response = "unknown"
    /\ f.integrity = "unknown"
    /\ ~f.requestBound
    /\ ~f.responseBound
    /\ ~f.provesBytes
    /\ f.hardware <=> (~q.policy.cpuRequired /\ q.evidence.tcb)
    /\ f.gpuVerified
    /\ f.channel <=> (q.policy.channel = "not_required")
    /\ f.supportsModel <=> (q.evidence.model # Nothing)
    /\ f.modelMatches <=> ModelMatches(q)
    /\ f.comparesProvenance
    /\ f.imageMatches <=> (q.evidence.image = q.reference.images)
    /\ f.tier = IF ~q.policy.cpuRequired /\ q.evidence.tcb THEN "tee_only" ELSE "none"
    /\ ~f.live
    /\ f.expires = ExpiresAt(q, FALSE, TRUE)

LEMMA DstackTable ==
    ASSUME NEW q, NEW f, f = DstackFacts(q)
    PROVE  IsDstack(q, f)
<1>1. /\ f.cpu = Required(q.policy.cpuRequired, "failed")
      /\ f.cpuReference = Required(q.policy.cpuRequired, V(CpuMatches(q)))
      /\ f.e2ee = Required(q.policy.channel # "not_required", "not_supported")
      /\ f.manifest = Required(q.policy.provenance # {}, V(q.evidence.manifest))
      /\ f.keyReference = V(ChannelKeyMatches(q))
      /\ f.tcb = V(q.evidence.tcb)
  BY DEF DstackFacts, ClaimedCpu, Established, Required
<1>2. /\ f.hardware <=> (~q.policy.cpuRequired /\ q.evidence.tcb)
      /\ f.channel <=> (q.policy.channel = "not_required")
      /\ f.supportsModel <=> (q.evidence.model # Nothing)
      /\ f.modelMatches <=> ModelMatches(q)
      /\ f.imageMatches <=> (q.evidence.image = q.reference.images)
      /\ f.tier = IF ~q.policy.cpuRequired /\ q.evidence.tcb THEN "tee_only" ELSE "none"
  BY DEF DstackFacts, ClaimedCpu, Established
<1>3. /\ f.gpu = "not_applicable"
      /\ f.tls = "not_applicable"
      /\ f.nonce = "not_applicable"
      /\ f.request = "unknown"
      /\ f.response = "unknown"
      /\ f.integrity = "unknown"
      /\ ~f.requestBound
      /\ ~f.responseBound
      /\ ~f.provesBytes
      /\ f.gpuVerified
      /\ f.comparesProvenance
      /\ ~f.live
      /\ f.expires = ExpiresAt(q, FALSE, TRUE)
  BY DEF DstackFacts, ClaimedCpu, Established
<1> QED
  BY <1>1, <1>2, <1>3, Zenon DEF IsDstack

IsChutes(q, f) ==
    LET nonce == q.evidence.binds /\ FreshnessNonceMatchesPolicy(q)
        channel == KindsMatch(q) /\ nonce /\ q.evidence.key = q.reference.key
    IN  /\ f.cpu = Required(q.policy.cpuRequired, "failed")
        /\ f.cpuReference = Required(q.policy.cpuRequired, V(CpuMatches(q)))
        /\ f.gpu = Required(q.policy.gpuRequired, V(GpuMatches(q)))
        /\ f.tls = "not_applicable"
        /\ f.e2ee = Required(q.policy.channel # "not_required", V(channel))
        /\ f.keyReference = "not_applicable"
        /\ f.tcb = "not_applicable"
        /\ f.nonce = V(nonce)
        /\ f.manifest = "not_applicable"
        /\ f.request = IF channel THEN "encrypted_bound" ELSE "not_bound"
        /\ f.response = IF channel THEN "encrypted_bound" ELSE "not_bound"
        /\ f.integrity = IF channel THEN "channel" ELSE "not_bound"
        /\ f.requestBound <=> channel
        /\ f.responseBound <=> channel
        /\ f.provesBytes
        /\ f.hardware <=> ~q.policy.cpuRequired
        /\ f.gpuVerified <=> (q.policy.gpuRequired => GpuMatches(q))
        /\ f.channel <=> channel
        /\ f.supportsModel <=> (q.evidence.model # Nothing)
        /\ f.modelMatches <=> ModelMatches(q)
        /\ f.comparesProvenance
        /\ f.imageMatches <=> (q.evidence.image = q.reference.image)
        /\ channel => f.tier = "app_e2ee"
        /\ ~f.live
        /\ f.expires = ExpiresAt(q, FALSE, TRUE)

LEMMA ChutesTable ==
    ASSUME NEW q, NEW f, f = ChutesFacts(q)
    PROVE  IsChutes(q, f)
  BY DEF ChutesFacts, Gpu, ClaimedCpu, Established, Required, IsChutes

IsTinfoil(q, f) ==
    LET quote == q.evidence.schema = "quote"
        tls == KindsMatch(q) /\ q.evidence.binds /\ q.evidence.spki = q.reference.spki
    IN  /\ f.cpu = Required(q.policy.cpuRequired,
                            IF quote THEN V(CpuMatches(q)) ELSE "failed")
        /\ f.cpuReference = IF quote THEN "not_applicable"
                            ELSE Required(q.policy.cpuRequired, V(CpuMatches(q)))
        /\ f.gpu = "not_applicable"
        /\ f.tls = V(tls)
        /\ f.e2ee = "not_applicable"
        /\ f.keyReference = "not_applicable"
        /\ f.tcb = "not_applicable"
        /\ f.nonce = "not_applicable"
        /\ f.manifest = "not_applicable"
        /\ f.request = IF tls THEN "channel_bound" ELSE "not_bound"
        /\ f.response = IF tls THEN "channel_bound" ELSE "not_bound"
        /\ f.integrity = IF tls THEN "channel" ELSE "not_bound"
        /\ f.requestBound <=> tls
        /\ f.responseBound <=> tls
        /\ f.provesBytes
        /\ f.hardware <=> (q.policy.cpuRequired => quote /\ CpuMatches(q))
        /\ f.gpuVerified
        /\ f.channel <=> tls
        /\ f.supportsModel <=> (q.evidence.model # Nothing)
        /\ f.modelMatches <=> ModelMatches(q)
        /\ f.comparesProvenance
        /\ f.imageMatches <=> (q.evidence.image = q.reference.image)
        /\ tls => f.tier = q.route.tier
        /\ ~f.live
        /\ quote => f.expires = ExpiresAt(q, TRUE, FALSE)
        /\ ~quote => f.expires = ExpiresAt(q, FALSE, TRUE)

LEMMA TinfoilTable ==
    ASSUME NEW q, NEW f, f = TinfoilFacts(q)
    PROVE  IsTinfoil(q, f)
<1>1. CASE q.evidence.schema = "quote"
  BY <1>1 DEF TinfoilFacts, MatchedCpu, Established, Required, IsTinfoil
<1>2. CASE q.evidence.schema # "quote"
  BY <1>2 DEF TinfoilFacts, ClaimedCpu, Established, Required, IsTinfoil
<1> QED
  BY <1>1, <1>2, Zenon

IsLive(q, f) ==
    LET family == q.route.family
        attested == \/ family \in {"redpill_aci_verified_tls", "ppq_ehbp"}
                    \/ q.evidence.binds /\ FreshnessNonceMatchesPolicy(q)
        channel == attested /\ KindsMatch(q)
        words == IF family \in LiveTlsFamilies THEN "channel_bound" ELSE "encrypted_bound"
    IN  /\ f.cpu = Required(q.policy.cpuRequired, V(CpuMatches(q)))
        /\ f.cpuReference = Required(family = "ppq_ehbp",
                                     V(q.evidence.measurement \in q.reference.measurements))
        /\ f.gpu = Required(q.policy.gpuRequired, V(GpuMatches(q)))
        /\ f.tls = Required(family \in LiveTlsFamilies, V(channel))
        /\ f.e2ee = Required(family \in LiveE2eeFamilies, V(channel))
        /\ f.keyReference = "not_applicable"
        /\ f.tcb = "not_applicable"
        /\ f.nonce = IF family = "ppq_ehbp" THEN "not_supported" ELSE V(attested)
        /\ f.manifest = "not_applicable"
        /\ f.request = IF channel THEN words ELSE "not_bound"
        /\ f.response = IF channel THEN words ELSE "not_bound"
        /\ f.integrity = IF channel THEN "channel" ELSE "not_bound"
        /\ f.requestBound <=> channel
        /\ f.responseBound <=> channel
        /\ f.provesBytes
        /\ f.hardware <=> (q.policy.cpuRequired => CpuMatches(q))
        /\ f.gpuVerified <=> (q.policy.gpuRequired => GpuMatches(q))
        /\ f.channel <=> channel
        /\ f.supportsModel <=> (family = "near_hw_verified_tls"
                                /\ q.evidence.model \in {"canonical", "provider"})
        /\ f.modelMatches <=> (q.reference.model = q.route.model)
        /\ ~f.comparesProvenance
        /\ f.tier = q.route.tier
        /\ f.live
        /\ f.expires = ExpiresAt(q, TRUE, FALSE)

LEMMA LiveTable ==
    ASSUME NEW q, NEW f, f = LiveFacts(q)
    PROVE  IsLive(q, f)
<1> DEFINE family == q.route.family
           attested == \/ family \in {"redpill_aci_verified_tls", "ppq_ehbp"}
                       \/ q.evidence.binds /\ FreshnessNonceMatchesPolicy(q)
           channel == attested /\ KindsMatch(q)
           words == IF family \in LiveTlsFamilies THEN "channel_bound" ELSE "encrypted_bound"
<1>1. /\ f.cpu = Required(q.policy.cpuRequired, V(CpuMatches(q)))
      /\ f.cpuReference = Required(family = "ppq_ehbp",
                                   V(q.evidence.measurement \in q.reference.measurements))
      /\ f.gpu = Required(q.policy.gpuRequired, V(GpuMatches(q)))
      /\ f.hardware <=> (q.policy.cpuRequired => CpuMatches(q))
      /\ f.gpuVerified <=> (q.policy.gpuRequired => GpuMatches(q))
  BY DEF LiveFacts, Gpu, MatchedCpu, Established, Required
<1>2. /\ f.tls = Required(family \in LiveTlsFamilies, V(channel))
      /\ f.e2ee = Required(family \in LiveE2eeFamilies, V(channel))
      /\ f.nonce = IF family = "ppq_ehbp" THEN "not_supported" ELSE V(attested)
  BY DEF LiveFacts, Gpu, MatchedCpu, Established, Required
<1>3. /\ f.request = IF channel THEN words ELSE "not_bound"
      /\ f.response = IF channel THEN words ELSE "not_bound"
      /\ f.integrity = IF channel THEN "channel" ELSE "not_bound"
  BY DEF LiveFacts, Gpu, MatchedCpu, Established
<1>4. /\ f.requestBound <=> channel
      /\ f.responseBound <=> channel
      /\ f.channel <=> channel
  BY DEF LiveFacts, Gpu, MatchedCpu, Established
<1>5. /\ f.keyReference = "not_applicable"
      /\ f.tcb = "not_applicable"
      /\ f.manifest = "not_applicable"
      /\ f.provesBytes
      /\ f.supportsModel <=> (family = "near_hw_verified_tls"
                              /\ q.evidence.model \in {"canonical", "provider"})
      /\ f.modelMatches <=> (q.reference.model = q.route.model)
      /\ ~f.comparesProvenance
      /\ f.tier = q.route.tier
      /\ f.live
      /\ f.expires = ExpiresAt(q, TRUE, FALSE)
  BY DEF LiveFacts, Gpu, MatchedCpu, Established
<1> QED
  BY <1>1, <1>2, <1>3, <1>4, <1>5, Zenon DEF IsLive

\* The facts of q have no check that blocks.
Clean(q, f) ==
    /\ f.cpu # "failed"
    /\ f.cpuReference # "failed"
    /\ f.gpu # "failed"
    /\ f.tls # "failed"
    /\ f.e2ee # "failed"
    /\ q.policy.channel # "not_required" => f.e2ee # "not_supported"
    /\ f.keyReference # "failed"
    /\ f.tcb # "failed"
    /\ f.nonce # "failed"
    /\ f.manifest # "failed"
    /\ f.provesBytes => f.requestBound

\* h establishes what f does: nothing that f passed fails in h, ...
KeepsChecks(h, f) ==
    /\ h.cpu \in {"verified", "not_applicable"}
    /\ h.cpuReference \in {"verified", "not_applicable"}
    /\ h.gpu \in {"verified", "not_applicable"}
    /\ h.e2ee \in {"verified", "not_applicable"}
    /\ h.manifest \in {"verified", "not_applicable"}
    /\ h.hardware /\ f.hardware
    /\ h.gpuVerified /\ f.gpuVerified

\* ... the verdict words it alike, ...
KeepsWords(h, f) ==
    /\ h.tls = f.tls
    /\ h.keyReference = f.keyReference
    /\ h.tcb = f.tcb
    /\ h.nonce = f.nonce
    /\ h.request = f.request
    /\ h.response = f.response
    /\ h.integrity = f.integrity
    /\ h.tier = f.tier
    /\ h.expires = f.expires

\* ... and what it was bound to and compared with is the same.
KeepsBindings(h, f) ==
    /\ h.requestBound <=> f.requestBound
    /\ h.responseBound <=> f.responseBound
    /\ h.provesBytes <=> f.provesBytes
    /\ h.channel <=> f.channel
    /\ h.supportsModel <=> f.supportsModel
    /\ h.modelMatches <=> f.modelMatches
    /\ h.comparesProvenance <=> f.comparesProvenance
    /\ f.comparesProvenance => (h.imageMatches <=> f.imageMatches)
    /\ h.live <=> f.live

Keeps(h, f) == KeepsChecks(h, f) /\ KeepsWords(h, f) /\ KeepsBindings(h, f)

LEMMA FixtureKeeps ==
    ASSUME NEW g, NEW q, Eased(g, q), NEW f, NEW h, IsFixture(q, f), IsFixture(g, h),
           Clean(q, f)
    PROVE  Keeps(h, f)
<1> USE DEF Required, V, IsFixture, Clean, Pieces
<1>1. Pieces(g, q)
  BY EasedPieces
<1>2. /\ g.route = q.route /\ g.evidence = q.evidence
      /\ g.reference.image = q.reference.image
  BY DEF Eased, Admits
<1>3. ChannelKeyMatches(g) <=> ChannelKeyMatches(q)
  <2>1. CASE q.policy.channel = "not_required"
    BY <1>1, <1>2, <2>1 DEF Eased, Admits, ChannelKeyMatches, Satisfies
  <2>2. CASE q.policy.channel # "not_required"
    BY <1>1, <2>2
  <2> QED
    BY <2>1, <2>2
<1>4. KeepsChecks(h, f)
  BY <1>1, <1>3 DEF KeepsChecks
<1>5. h.expires = f.expires
  BY EasedExpiry
<1>6. KeepsWords(h, f)
  BY <1>2, <1>3, <1>5 DEF KeepsWords
<1>7. KeepsBindings(h, f)
  BY <1>1, <1>2, <1>3 DEF KeepsBindings
<1> QED
  BY <1>4, <1>6, <1>7 DEF Keeps

\* dstack evidence passes only where no channel and no CPU TEE is asked for.
LEMMA DstackKeeps ==
    ASSUME NEW g, NEW q, Eased(g, q), NEW f, NEW h, IsDstack(q, f), IsDstack(g, h),
           Clean(q, f)
    PROVE  Keeps(h, f)
<1> USE DEF Required, V, IsDstack, Clean, Pieces
<1>1. Pieces(g, q)
  BY EasedPieces
<1>2. /\ g.route = q.route /\ g.evidence = q.evidence
      /\ g.reference.images = q.reference.images
      /\ g.policy.provenance \subseteq q.policy.provenance
  BY DEF Eased, Admits, Weaker
<1>3. /\ ~q.policy.cpuRequired /\ ~g.policy.cpuRequired
      /\ q.policy.channel = "not_required" /\ g.policy.channel = "not_required"
      /\ ChannelKeyMatches(q) /\ ChannelKeyMatches(g)
  BY <1>1
<1>4. KeepsChecks(h, f)
  BY <1>2, <1>3 DEF KeepsChecks
<1>5. h.expires = f.expires
  BY EasedExpiry
<1>6. KeepsWords(h, f)
  BY <1>2, <1>3, <1>5 DEF KeepsWords
<1>7. KeepsBindings(h, f)
  BY <1>1, <1>2, <1>3 DEF KeepsBindings
<1> QED
  BY <1>4, <1>6, <1>7 DEF Keeps

LEMMA ChutesKeeps ==
    ASSUME NEW g, NEW q, Eased(g, q), NEW f, NEW h, IsChutes(q, f), IsChutes(g, h),
           Clean(q, f)
    PROVE  Keeps(h, f)
<1> USE DEF Required, V, IsChutes, Clean, Pieces
<1>1. Pieces(g, q)
  BY EasedPieces
<1>2. /\ g.route = q.route /\ g.evidence = q.evidence
      /\ g.reference.image = q.reference.image /\ g.reference.key = q.reference.key
  BY DEF Eased, Admits
<1>3. /\ KindsMatch(q) /\ KindsMatch(g)
      /\ q.evidence.binds /\ q.evidence.key = q.reference.key
      /\ FreshnessNonceMatchesPolicy(q) /\ FreshnessNonceMatchesPolicy(g)
      /\ ~q.policy.cpuRequired /\ ~g.policy.cpuRequired
  BY <1>1
<1>4. KeepsChecks(h, f)
  BY <1>1, <1>2, <1>3 DEF KeepsChecks
<1>5. h.expires = f.expires
  BY EasedExpiry
<1>6. KeepsWords(h, f)
  BY <1>2, <1>3, <1>5 DEF KeepsWords
<1>7. KeepsBindings(h, f)
  BY <1>1, <1>2, <1>3 DEF KeepsBindings
<1> QED
  BY <1>4, <1>6, <1>7 DEF Keeps

LEMMA TinfoilKeeps ==
    ASSUME NEW g, NEW q, Eased(g, q), NEW f, NEW h, IsTinfoil(q, f), IsTinfoil(g, h),
           Clean(q, f)
    PROVE  Keeps(h, f)
<1> USE DEF Required, V, IsTinfoil, Clean, Pieces
<1>1. Pieces(g, q)
  BY EasedPieces
<1>2. /\ g.route = q.route /\ g.evidence = q.evidence
      /\ g.reference.image = q.reference.image /\ g.reference.spki = q.reference.spki
  BY DEF Eased, Admits
<1>3. /\ KindsMatch(q) /\ KindsMatch(g)
      /\ q.evidence.binds /\ q.evidence.spki = q.reference.spki
  BY <1>1
<1>4. KeepsChecks(h, f)
  BY <1>1, <1>2, <1>3 DEF KeepsChecks
<1>5. h.expires = f.expires
  <2>1. /\ q.evidence.schema = "quote" => /\ f.expires = ExpiresAt(q, TRUE, FALSE)
                                          /\ h.expires = ExpiresAt(g, TRUE, FALSE)
        /\ q.evidence.schema # "quote" => /\ f.expires = ExpiresAt(q, FALSE, TRUE)
                                          /\ h.expires = ExpiresAt(g, FALSE, TRUE)
    BY <1>2, Zenon
  <2>2. /\ ExpiresAt(g, TRUE, FALSE) = ExpiresAt(q, TRUE, FALSE)
        /\ ExpiresAt(g, FALSE, TRUE) = ExpiresAt(q, FALSE, TRUE)
    <3> HIDE DEF Required, V, Clean, Pieces, IsTinfoil
    <3> QED
      BY EasedExpiry
  <2> QED
    BY <2>1, <2>2, Zenon
<1>6. KeepsWords(h, f)
  BY <1>2, <1>3, <1>5 DEF KeepsWords
<1>7. KeepsBindings(h, f)
  BY <1>1, <1>2, <1>3 DEF KeepsBindings
<1> QED
  BY <1>4, <1>6, <1>7 DEF Keeps

LEMMA LiveKeeps ==
    ASSUME NEW g, NEW q, Eased(g, q), NEW f, NEW h, IsLive(q, f), IsLive(g, h),
           Clean(q, f)
    PROVE  Keeps(h, f)
<1> USE DEF Required, V, IsLive, Clean, Pieces
<1>1. Pieces(g, q)
  BY EasedPieces
<1>2. /\ g.route = q.route /\ g.evidence = q.evidence
      /\ g.reference.model = q.reference.model
      /\ q.reference.measurements \subseteq g.reference.measurements
  BY DEF Eased, Admits
<1>3. /\ KindsMatch(q) /\ KindsMatch(g)
      /\ \/ q.route.family \in {"redpill_aci_verified_tls", "ppq_ehbp"}
         \/ /\ q.evidence.binds
            /\ FreshnessNonceMatchesPolicy(q) /\ FreshnessNonceMatchesPolicy(g)
  BY <1>1
<1>4. KeepsChecks(h, f)
  BY <1>1, <1>2, <1>3 DEF KeepsChecks
<1>5. h.expires = f.expires
  <2>1. f.expires = ExpiresAt(q, TRUE, FALSE) /\ h.expires = ExpiresAt(g, TRUE, FALSE)
    BY Zenon
  <2>2. /\ ExpiresAt(g, TRUE, FALSE) = ExpiresAt(q, TRUE, FALSE)
        /\ ExpiresAt(g, FALSE, TRUE) = ExpiresAt(q, FALSE, TRUE)
    <3> HIDE DEF Required, V, Clean, Pieces, IsLive
    <3> QED
      BY EasedExpiry
  <2> QED
    BY <2>1, <2>2, Zenon
<1>6. KeepsWords(h, f)
  <2>1. h.tls = f.tls /\ h.nonce = f.nonce
    BY <1>2, <1>3
  <2>2. h.request = f.request /\ h.response = f.response /\ h.integrity = f.integrity
    BY <1>2, <1>3
  <2>3. h.keyReference = f.keyReference /\ h.tcb = f.tcb /\ h.tier = f.tier
    BY <1>2
  <2> QED
    BY <1>5, <2>1, <2>2, <2>3, Zenon DEF KeepsWords
<1>7. KeepsBindings(h, f)
  BY <1>1, <1>2, <1>3 DEF KeepsBindings
<1> QED
  BY <1>4, <1>6, <1>7 DEF Keeps

\* Facts that pass keep what they establish under a request that asks for no more.
LEMMA FactsKeep ==
    ASSUME NEW g, NEW q, Eased(g, q), q.route.family \in Families, Clean(q, FactsOf(q))
    PROVE  Keeps(FactsOf(g), FactsOf(q))
<1>1. g.route.family = q.route.family
  BY DEF Eased
<1>2. CASE q.route.family = "fixture_dstack"
  <2>1. FactsOf(q) = FixtureFacts(q) /\ FactsOf(g) = FixtureFacts(g)
    BY <1>1, <1>2, FactsByFamily
  <2>2. IsFixture(q, FactsOf(q)) /\ IsFixture(g, FactsOf(g))
    BY <2>1, FixtureTable
  <2> QED
    BY <2>2, FixtureKeeps
<1>3. CASE q.route.family = "dstack_app_e2ee"
  <2>1. FactsOf(q) = DstackFacts(q) /\ FactsOf(g) = DstackFacts(g)
    BY <1>1, <1>3, FactsByFamily
  <2>2. IsDstack(q, FactsOf(q)) /\ IsDstack(g, FactsOf(g))
    BY <2>1, DstackTable
  <2> QED
    BY <2>2, DstackKeeps
<1>4. CASE q.route.family = "chutes_e2ee"
  <2>1. FactsOf(q) = ChutesFacts(q) /\ FactsOf(g) = ChutesFacts(g)
    BY <1>1, <1>4, FactsByFamily
  <2>2. IsChutes(q, FactsOf(q)) /\ IsChutes(g, FactsOf(g))
    BY <2>1, ChutesTable
  <2> QED
    BY <2>2, ChutesKeeps
<1>5. CASE q.route.family = "tinfoil_hw_verified_tls"
  <2>1. FactsOf(q) = TinfoilFacts(q) /\ FactsOf(g) = TinfoilFacts(g)
    BY <1>1, <1>5, FactsByFamily
  <2>2. IsTinfoil(q, FactsOf(q)) /\ IsTinfoil(g, FactsOf(g))
    BY <2>1, TinfoilTable
  <2> QED
    BY <2>2, TinfoilKeeps
<1>6. CASE q.route.family \in LiveFamilies
  <2>1. FactsOf(q) = LiveFacts(q) /\ FactsOf(g) = LiveFacts(g)
    BY <1>1, <1>6, FactsByFamily
  <2>2. IsLive(q, FactsOf(q)) /\ IsLive(g, FactsOf(g))
    BY <2>1, LiveTable
  <2> QED
    BY <2>2, LiveKeeps
<1> QED
  BY <1>2, <1>3, <1>4, <1>5, <1>6 DEF Families, ClaimsFamilies

\* Nothing among the checks blocks.
Passes(q, f) ==
    \A n \in CheckNames :
        /\ Checks(q, f)[n] # "failed"
        /\ Checks(q, f)[n] \in {"not_supported", "unknown"} => ~CheckIsRequired(n, q.policy)

\* The family's own facts are clean when no check blocks.
LEMMA PassesClean ==
    ASSUME NEW q, NEW f, Passes(q, f)
    PROVE  Clean(q, f)
<1> DEFINE c == Checks(q, f)
<1>1. \A n \in CheckNames :
          /\ c[n] # "failed"
          /\ c[n] \in {"not_supported", "unknown"} => ~CheckIsRequired(n, q.policy)
  BY DEF Passes
<1>2. /\ c["cpu_tee"] = f.cpu
      /\ c["cpu_measurement_reference"] = f.cpuReference
      /\ c["gpu_tee"] = f.gpu
      /\ c["tls_binding"] = f.tls
      /\ c["e2ee_key_binding"] = f.e2ee
      /\ c["e2ee_key_reference_match"] = f.keyReference
      /\ c["tcb_compose_hash"] = f.tcb
      /\ c["nonce_binding"] = f.nonce
      /\ c["workload_manifest_binding"] = f.manifest
      /\ c["request_encryption"] = Encryption(f, q.policy.request, f.requestBound)
  BY DEF Checks, CheckNames
<1> HIDE DEF c
<1>3. {"cpu_tee", "cpu_measurement_reference", "gpu_tee", "tls_binding", "e2ee_key_binding",
       "e2ee_key_reference_match", "tcb_compose_hash", "nonce_binding",
       "workload_manifest_binding", "request_encryption"} \subseteq CheckNames
  BY DEF CheckNames
<1>4. q.policy.channel # "not_required" => CheckIsRequired("e2ee_key_binding", q.policy)
  BY DEF CheckIsRequired
<1>5. f.provesBytes => f.requestBound
  BY <1>1, <1>2, <1>3 DEF Encryption, V
<1> QED
  BY <1>1, <1>2, <1>3, <1>4, <1>5 DEF Clean

\* A request that asks for no more has no check that blocks where the other has none.
LEMMA ChecksKeep ==
    ASSUME NEW g, NEW q, Eased(g, q), NEW f, NEW h, Passes(q, f), Keeps(h, f)
    PROVE  Passes(g, h)
<1> DEFINE c == Checks(q, f)
           d == Checks(g, h)
           Fine(n, p, r) == /\ r # "failed"
                            /\ r \in {"not_supported", "unknown"} => ~CheckIsRequired(n, p)
<1>1. \A n \in CheckNames : Fine(n, q.policy, c[n])
  BY DEF Passes
<1>2. Pieces(g, q)
  BY EasedPieces
<1>3. /\ g.route = q.route /\ g.evidence = q.evidence
      /\ g.reference.model = q.reference.model /\ g.reference.family = q.reference.family
  BY DEF Eased, Admits
<1>4. Weaker(g.policy, q.policy) /\ g.policy \in PolicyType /\ q.policy \in PolicyType
  BY DEF Eased
<1>5. KeepsChecks(h, f) /\ KeepsWords(h, f) /\ KeepsBindings(h, f)
  BY DEF Keeps
<1>6. Fine("route_metadata_binding", g.policy, d["route_metadata_binding"])
  <2>1. d["route_metadata_binding"] = c["route_metadata_binding"]
    BY <1>3 DEF Checks, CheckNames
  <2>2. c["route_metadata_binding"] \in {"verified", "failed"}
    BY DEF Checks, CheckNames, V
  <2>3. "route_metadata_binding" \in CheckNames
    BY DEF CheckNames
  <2> HIDE DEF c, d
  <2> QED
    BY <1>1, <2>1, <2>2, <2>3
<1>7. Fine("route_binding", g.policy, d["route_binding"])
  <2>1. d["route_binding"] = "not_supported"
    BY DEF Checks, CheckNames
  <2> HIDE DEF d
  <2> QED
    BY <2>1 DEF CheckIsRequired
<1>8. /\ Fine("cpu_tee", g.policy, d["cpu_tee"])
      /\ Fine("cpu_measurement_reference", g.policy, d["cpu_measurement_reference"])
      /\ Fine("gpu_tee", g.policy, d["gpu_tee"])
      /\ Fine("e2ee_key_binding", g.policy, d["e2ee_key_binding"])
      /\ Fine("workload_manifest_binding", g.policy, d["workload_manifest_binding"])
  <2>1. /\ d["cpu_tee"] = h.cpu
        /\ d["cpu_measurement_reference"] = h.cpuReference
        /\ d["gpu_tee"] = h.gpu
        /\ d["e2ee_key_binding"] = h.e2ee
        /\ d["workload_manifest_binding"] = h.manifest
    BY DEF Checks, CheckNames
  <2> HIDE DEF d
  <2> QED
    BY <1>5, <2>1 DEF KeepsChecks
<1>9. /\ Fine("tls_binding", g.policy, d["tls_binding"])
      /\ Fine("e2ee_key_reference_match", g.policy, d["e2ee_key_reference_match"])
      /\ Fine("tcb_compose_hash", g.policy, d["tcb_compose_hash"])
      /\ Fine("nonce_binding", g.policy, d["nonce_binding"])
  <2>1. /\ d["tls_binding"] = h.tls /\ c["tls_binding"] = f.tls
        /\ d["e2ee_key_reference_match"] = h.keyReference
        /\ c["e2ee_key_reference_match"] = f.keyReference
        /\ d["tcb_compose_hash"] = h.tcb /\ c["tcb_compose_hash"] = f.tcb
        /\ d["nonce_binding"] = h.nonce /\ c["nonce_binding"] = f.nonce
    BY DEF Checks, CheckNames
  <2>2. {"tls_binding", "e2ee_key_reference_match", "tcb_compose_hash", "nonce_binding"}
        \subseteq CheckNames
    BY DEF CheckNames
  <2>3. \A n \in {"tls_binding", "e2ee_key_reference_match", "tcb_compose_hash", "nonce_binding"} :
            CheckIsRequired(n, g.policy) => CheckIsRequired(n, q.policy)
    BY <1>4 DEF CheckIsRequired, Weaker, PolicyType
  <2> HIDE DEF c, d
  <2> QED
    BY <1>1, <1>5, <2>1, <2>2, <2>3 DEF KeepsWords
<1>10. /\ Fine("request_key_binding", g.policy, d["request_key_binding"])
       /\ Fine("request_encryption", g.policy, d["request_encryption"])
  <2>1. /\ d["request_key_binding"] = KeyBinding(h, g.policy.request, h.request)
        /\ c["request_key_binding"] = KeyBinding(f, q.policy.request, f.request)
        /\ d["request_encryption"] = Encryption(h, g.policy.request, h.requestBound)
        /\ c["request_encryption"] = Encryption(f, q.policy.request, f.requestBound)
    BY DEF Checks, CheckNames
  <2>2. {"request_key_binding", "request_encryption"} \subseteq CheckNames
    BY DEF CheckNames
  <2>3. g.policy.request => q.policy.request
    BY <1>4 DEF Weaker
  <2>4. q.policy.request => CheckIsRequired("request_encryption", q.policy)
    BY DEF CheckIsRequired
  <2>5. h.request = f.request /\ (h.requestBound <=> f.requestBound)
        /\ (h.provesBytes <=> f.provesBytes)
    BY <1>5 DEF KeepsWords, KeepsBindings
  <2> HIDE DEF c, d
  <2>6. d["request_key_binding"] \in {"verified", "not_applicable"}
    BY <1>1, <2>1, <2>2, <2>3, <2>5 DEF KeyBinding, V
  <2>7. d["request_encryption"] \in {"verified", "not_applicable"}
    BY <1>1, <2>1, <2>2, <2>3, <2>4, <2>5 DEF Encryption, V
  <2> QED
    BY <2>6, <2>7
<1>11. /\ Fine("response_key_binding", g.policy, d["response_key_binding"])
       /\ Fine("response_encryption", g.policy, d["response_encryption"])
  <2>1. /\ d["response_key_binding"] = KeyBinding(h, g.policy.response, h.response)
        /\ c["response_key_binding"] = KeyBinding(f, q.policy.response, f.response)
        /\ d["response_encryption"] = Encryption(h, g.policy.response, h.responseBound)
        /\ c["response_encryption"] = Encryption(f, q.policy.response, f.responseBound)
    BY DEF Checks, CheckNames
  <2>2. {"response_key_binding", "response_encryption"} \subseteq CheckNames
    BY DEF CheckNames
  <2>3. g.policy.response => q.policy.response
    BY <1>4 DEF Weaker
  <2>4. q.policy.response => CheckIsRequired("response_encryption", q.policy)
    BY DEF CheckIsRequired
  <2>5. h.response = f.response /\ (h.responseBound <=> f.responseBound)
        /\ (h.provesBytes <=> f.provesBytes)
    BY <1>5 DEF KeepsWords, KeepsBindings
  <2> HIDE DEF c, d
  <2>6. d["response_key_binding"] \in {"verified", "not_applicable"}
    BY <1>1, <2>1, <2>2, <2>3, <2>5 DEF KeyBinding, V
  <2>7. d["response_encryption"] \in {"verified", "not_applicable"}
    BY <1>1, <2>1, <2>2, <2>3, <2>4, <2>5 DEF Encryption, V
  <2> QED
    BY <2>6, <2>7
<1>12. Fine("response_channel_binding", g.policy, d["response_channel_binding"])
  <2>1. /\ d["response_channel_binding"] = IntegrityCheck(h, g.policy.integrity)
        /\ c["response_channel_binding"] = IntegrityCheck(f, q.policy.integrity)
    BY DEF Checks, CheckNames
  <2>2. "response_channel_binding" \in CheckNames
    BY DEF CheckNames
  <2>3. h.integrity = f.integrity /\ (h.provesBytes <=> f.provesBytes)
    BY <1>5 DEF KeepsWords, KeepsBindings
  <2>4. IntegritySatisfies(f.integrity, q.policy.integrity) =>
            IntegritySatisfies(f.integrity, g.policy.integrity)
    BY <1>4 DEF IntegritySatisfies, Weaker, PolicyType
  <2>5. q.policy.integrity = "not_required" => g.policy.integrity = "not_required"
    BY <1>4 DEF Weaker
  <2> HIDE DEF c, d
  <2>6. d["response_channel_binding"] \in {"verified", "not_applicable"}
    BY <1>1, <2>1, <2>2, <2>3, <2>4, <2>5 DEF IntegrityCheck, V
  <2> QED
    BY <2>6
<1>13. Fine("model_binding", g.policy, d["model_binding"])
  <2>1. /\ d["model_binding"] = ModelBinding(h, g.policy.model)
        /\ c["model_binding"] = ModelBinding(f, q.policy.model)
    BY DEF Checks, CheckNames
  <2>2. "model_binding" \in CheckNames
    BY DEF CheckNames
  <2>3. /\ h.supportsModel <=> f.supportsModel
        /\ h.modelMatches <=> f.modelMatches
    BY <1>5 DEF KeepsBindings
  <2>4. /\ g.policy.model = "required" => q.policy.model = "required"
        /\ g.policy.model = "if_supported" => q.policy.model # "not_required"
        /\ g.policy.model \in {"not_required", "if_supported", "required"}
        /\ q.policy.model \in {"not_required", "if_supported", "required"}
    BY <1>4 DEF Weaker, PolicyType
  <2>5. CheckIsRequired("model_binding", g.policy) <=> g.policy.model = "required"
    BY DEF CheckIsRequired
  <2> HIDE DEF c, d
  <2>6. \/ d["model_binding"] \in {"verified", "not_applicable"}
        \/ d["model_binding"] = "not_supported" /\ g.policy.model = "if_supported"
    BY <1>1, <2>1, <2>2, <2>3, <2>4 DEF ModelBinding, V
  <2> QED
    BY <2>5, <2>6
<1>14. /\ Fine("image_provenance", g.policy, d["image_provenance"])
       /\ Fine("model_artifact_provenance", g.policy, d["model_artifact_provenance"])
       /\ Fine("sigstore", g.policy, d["sigstore"])
       /\ Fine("contrast_manifest", g.policy, d["contrast_manifest"])
  <2>1. /\ d["image_provenance"] = Provenance(h, g.policy.provenance, h.imageMatches)
        /\ c["image_provenance"] = Provenance(f, q.policy.provenance, f.imageMatches)
        /\ d["model_artifact_provenance"] = Provenance(h, g.policy.provenance, ArtifactsMatch(g))
        /\ c["model_artifact_provenance"] = Provenance(f, q.policy.provenance, ArtifactsMatch(q))
    BY DEF Checks, CheckNames
  <2>2. /\ d["sigstore"] = UnsupportedProvenance(g.policy.provenance, {"build"})
        /\ c["sigstore"] = UnsupportedProvenance(q.policy.provenance, {"build"})
        /\ d["contrast_manifest"] = UnsupportedProvenance(g.policy.provenance, {"source", "sbom"})
        /\ c["contrast_manifest"] = UnsupportedProvenance(q.policy.provenance, {"source", "sbom"})
    BY DEF Checks, CheckNames
  <2>3. {"image_provenance", "model_artifact_provenance", "sigstore", "contrast_manifest"}
        \subseteq CheckNames
    BY DEF CheckNames
  <2>4. /\ h.comparesProvenance <=> f.comparesProvenance
        /\ f.comparesProvenance => (h.imageMatches <=> f.imageMatches)
        /\ ArtifactsMatch(q) => ArtifactsMatch(g)
        /\ g.policy.provenance \subseteq q.policy.provenance
    BY <1>2, <1>4, <1>5 DEF KeepsBindings, Pieces, Weaker
  <2> HIDE DEF c, d
  <2>5. d["image_provenance"] \in {"verified", "not_applicable"}
    BY <1>1, <2>1, <2>3, <2>4 DEF Provenance, V
  <2>6. d["model_artifact_provenance"] \in {"verified", "not_applicable"}
    BY <1>1, <2>1, <2>3, <2>4 DEF Provenance, V
  <2>7. d["sigstore"] = "not_applicable"
    BY <1>1, <2>2, <2>3, <2>4 DEF UnsupportedProvenance
  <2>8. d["contrast_manifest"] = "not_applicable"
    BY <1>1, <2>2, <2>3, <2>4 DEF UnsupportedProvenance
  <2> QED
    BY <2>5, <2>6, <2>7, <2>8
<1>15. Fine("per_request_freshness", g.policy, d["per_request_freshness"])
  <2>1. /\ d["per_request_freshness"] = PerRequestFreshness(h, g.policy)
        /\ c["per_request_freshness"] = PerRequestFreshness(f, q.policy)
    BY DEF Checks, CheckNames
  <2>2. "per_request_freshness" \in CheckNames
    BY DEF CheckNames
  <2>3. h.nonce = f.nonce /\ (g.policy.perRequest => q.policy.perRequest)
    BY <1>4, <1>5 DEF KeepsWords, Weaker
  <2> HIDE DEF c, d
  <2>4. d["per_request_freshness"] \in {"verified", "not_applicable"}
    BY <1>1, <2>1, <2>2, <2>3 DEF PerRequestFreshness, V
  <2> QED
    BY <2>4
<1> HIDE DEF Fine, c, d
<1>16. \A n \in CheckNames : Fine(n, g.policy, d[n])
  BY <1>6, <1>7, <1>8, <1>9, <1>10, <1>11, <1>12, <1>13, <1>14, <1>15 DEF CheckNames
<1> QED
  BY <1>16 DEF Passes, Fine, d

\* An allowed verdict under enforcement is consistent and nothing in it blocks.
LEMMA AllowedPasses ==
    ASSUME NEW q, q.policy.mode = "enforce", VerifyEvidence(q) # Nothing,
           VerifyEvidence(q).allowed
    PROVE  LET f == FactsOf(q)
               checks == Checks(q, f)
               wouldBlock == EnforcementWouldBlock(checks, q.policy)
           IN  /\ Accepted(q)
               /\ ~wouldBlock
               /\ Consistent(q, f, checks, Status(q.policy, f, wouldBlock))
               /\ Passes(q, f)
<1> DEFINE f == FactsOf(q)
           checks == Checks(q, f)
           wouldBlock == EnforcementWouldBlock(checks, q.policy)
           status == Status(q.policy, f, wouldBlock)
           allowed == q.policy.mode = "enforce" => ~wouldBlock
           record == [allowed |-> allowed, wouldBlock |-> wouldBlock, status |-> status,
                      tier |-> f.tier, expires |-> f.expires]
<1>1. Accepted(q) /\ VerifyEvidence(q) = Judge(q, f)
  BY DEF VerifyEvidence
<1>2. Judge(q, f) = IF Consistent(q, f, checks, status) THEN record ELSE Nothing
  BY Zenon DEF Judge
<1>3. record.allowed = allowed
  <2> HIDE DEF allowed, wouldBlock, status, f
  <2> QED
    BY Zenon
<1>4. Consistent(q, f, checks, status) /\ VerifyEvidence(q) = record
  <2> HIDE DEF record, f, checks, status
  <2> QED
    BY <1>1, <1>2
<1>5. allowed
  <2> HIDE DEF record, allowed
  <2> QED
    BY <1>3, <1>4
<1>6. ~wouldBlock
  BY <1>5
<1>7. Passes(q, f)
  <2> HIDE DEF f, checks
  <2>1. \A n \in CheckNames :
            /\ checks[n] # "failed"
            /\ checks[n] \in {"not_supported", "unknown"} => ~CheckIsRequired(n, q.policy)
    BY <1>6 DEF EnforcementWouldBlock
  <2> QED
    BY <2>1 DEF Passes, checks
<1> QED
  BY <1>1, <1>4, <1>6, <1>7, Zenon

\* A verdict that passes its second look passes it when less is asked for.
LEMMA ConsistencyKeeps ==
    ASSUME NEW g, NEW q, Eased(g, q), NEW f, NEW h, Passes(q, f), Passes(g, h), Keeps(h, f),
           NEW status, Consistent(q, f, Checks(q, f), status)
    PROVE  Consistent(g, h, Checks(g, h), status)
<1> DEFINE c == Checks(q, f)
           d == Checks(g, h)
<1>1. KeepsWords(h, f) /\ KeepsBindings(h, f)
  BY DEF Keeps
<1>2. /\ c["tls_binding"] = f.tls /\ d["tls_binding"] = h.tls
      /\ c["request_key_binding"] = KeyBinding(f, q.policy.request, f.request)
      /\ d["request_key_binding"] = KeyBinding(h, g.policy.request, h.request)
      /\ c["response_key_binding"] = KeyBinding(f, q.policy.response, f.response)
      /\ d["response_key_binding"] = KeyBinding(h, g.policy.response, h.response)
      /\ c["response_channel_binding"] = IntegrityCheck(f, q.policy.integrity)
      /\ d["response_channel_binding"] = IntegrityCheck(h, g.policy.integrity)
  BY DEF Checks, CheckNames
<1>3. /\ d["request_key_binding"] # "failed"
      /\ d["response_key_binding"] # "failed"
      /\ d["response_channel_binding"] # "failed"
  <2>1. {"request_key_binding", "response_key_binding", "response_channel_binding"}
        \subseteq CheckNames
    BY DEF CheckNames
  <2> QED
    BY <2>1 DEF Passes
<1>4. /\ f.live => f.expires = Min({Now + q.policy.ttl, q.evidence.expires, q.reference.until})
      /\ f.requestBound <=> f.request \in Bound
      /\ f.requestBound => c["request_key_binding"] = "verified"
      /\ f.responseBound <=> f.response \in Bound
      /\ f.responseBound => c["response_key_binding"] = "verified"
      /\ f.responseBound <=> f.integrity = "channel"
      /\ f.responseBound => c["response_channel_binding"] = "verified"
      /\ status = "verified" => TierConsistent(q, f, c)
  BY Zenon DEF Consistent
<1>5. h.live => h.expires = Min({Now + g.policy.ttl, g.evidence.expires, g.reference.until})
  <2>1. /\ g.policy.ttl = q.policy.ttl
        /\ g.evidence = q.evidence
        /\ g.reference.until = q.reference.until
    BY DEF Eased, Weaker, Admits
  <2> HIDE DEF c
  <2> QED
    BY <1>1, <1>4, <2>1 DEF KeepsWords, KeepsBindings
<1> HIDE DEF c, d
<1>6. h.requestBound => d["request_key_binding"] = "verified"
  BY <1>1, <1>2, <1>3, <1>4 DEF KeepsWords, KeepsBindings, KeyBinding, V
<1>7. h.responseBound => d["response_key_binding"] = "verified"
  BY <1>1, <1>2, <1>3, <1>4 DEF KeepsWords, KeepsBindings, KeyBinding, V
<1>8. h.responseBound => d["response_channel_binding"] = "verified"
  BY <1>1, <1>2, <1>3, <1>4 DEF KeepsWords, KeepsBindings, IntegrityCheck, V
<1>9. status = "verified" => TierConsistent(g, h, d)
  <2>1. g.route = q.route
    BY DEF Eased
  <2>2. TierConsistent(q, f, c) => TierConsistent(g, h, d)
    BY <1>1, <1>2, <2>1 DEF KeepsWords, KeepsBindings, TierConsistent
  <2> QED
    BY <1>4, <2>2
<1>10. /\ h.requestBound <=> h.request \in Bound
       /\ h.responseBound <=> h.response \in Bound
       /\ h.responseBound <=> h.integrity = "channel"
  BY <1>1, <1>4 DEF KeepsWords, KeepsBindings
<1> QED
  BY <1>5, <1>6, <1>7, <1>8, <1>9, <1>10, Zenon DEF Consistent, d

\* What is allowed stays allowed, with the very same verdict, when less is asked for.
LEMMA VerdictKeeps ==
    ASSUME NEW g, NEW q, Eased(g, q), q.route.family \in Families, q.policy.mode = "enforce",
           VerifyEvidence(q) # Nothing, VerifyEvidence(q).allowed
    PROVE  VerifyEvidence(g) = VerifyEvidence(q)
<1> DEFINE f == FactsOf(q)
           h == FactsOf(g)
           c == Checks(q, f)
           d == Checks(g, h)
           w == EnforcementWouldBlock(c, q.policy)
           x == EnforcementWouldBlock(d, g.policy)
           s == Status(q.policy, f, w)
           t == Status(g.policy, h, x)
<1>1. Accepted(q) /\ ~w /\ Consistent(q, f, c, s) /\ Passes(q, f)
  BY AllowedPasses, Zenon
<1>2. Keeps(h, f)
  BY <1>1, PassesClean, FactsKeep
<1>3. Passes(g, h)
  BY <1>1, <1>2, ChecksKeep
<1>4. ~x
  <2>1. \A n \in CheckNames :
            /\ d[n] # "failed"
            /\ d[n] \in {"not_supported", "unknown"} => ~CheckIsRequired(n, g.policy)
    BY <1>3 DEF Passes
  <2> HIDE DEF d
  <2> QED
    BY <2>1 DEF EnforcementWouldBlock
<1>5. t = s
  <2>1. /\ h.hardware /\ f.hardware /\ h.gpuVerified /\ f.gpuVerified
        /\ h.channel <=> f.channel
    BY <1>2 DEF Keeps, KeepsChecks, KeepsBindings
  <2>2. g.policy.mode = "enforce"
    BY DEF Eased, Weaker
  <2> HIDE DEF w, x, f, h
  <2>3. s = IF f.channel THEN "verified" ELSE "partial"
    BY <1>1, <2>1 DEF Status
  <2>4. t = IF h.channel THEN "verified" ELSE "partial"
    BY <1>4, <2>1, <2>2 DEF Status
  <2> QED
    BY <2>1, <2>3, <2>4
<1>6. Accepted(g)
  BY <1>1, EasedPieces DEF Pieces
<1>7. Consistent(g, h, d, t)
  <2> HIDE DEF f, h, s, t
  <2>1. Consistent(g, h, d, s)
    BY <1>1, <1>2, <1>3, ConsistencyKeeps
  <2> QED
    BY <1>5, <2>1
<1> DEFINE a == q.policy.mode = "enforce" => ~w
           b == g.policy.mode = "enforce" => ~x
           record == [allowed |-> a, wouldBlock |-> w, status |-> s,
                      tier |-> f.tier, expires |-> f.expires]
           other == [allowed |-> b, wouldBlock |-> x, status |-> t,
                     tier |-> h.tier, expires |-> h.expires]
<1>8. VerifyEvidence(q) = record
  <2>1. VerifyEvidence(q) = Judge(q, f)
    BY <1>1, Zenon DEF VerifyEvidence
  <2>2. Judge(q, f) = IF Consistent(q, f, c, s) THEN record ELSE Nothing
    BY Zenon DEF Judge
  <2> HIDE DEF f, c, s, record
  <2> QED
    BY <1>1, <2>1, <2>2
<1>9. VerifyEvidence(g) = other
  <2>1. VerifyEvidence(g) = Judge(g, h)
    BY <1>6, Zenon DEF VerifyEvidence
  <2>2. Judge(g, h) = IF Consistent(g, h, d, t) THEN other ELSE Nothing
    BY Zenon DEF Judge
  <2> HIDE DEF h, d, t, other
  <2> QED
    BY <1>7, <2>1, <2>2
<1>10. a = TRUE /\ b = TRUE /\ w = FALSE /\ x = FALSE
  <2>1. a /\ b /\ ~w /\ ~x
    BY <1>1, <1>4, Zenon
  <2>2. w \in BOOLEAN /\ x \in BOOLEAN
    <3> HIDE DEF c, d
    <3> QED
      BY Zenon DEF EnforcementWouldBlock
  <2>3. a \in BOOLEAN /\ b \in BOOLEAN
    <3> HIDE DEF w, x
    <3> QED
      BY Zenon
  <2> HIDE DEF a, b, w, x
  <2> QED
    BY <2>1, <2>2, <2>3
<1>11. h.tier = f.tier /\ h.expires = f.expires
  BY <1>2 DEF Keeps, KeepsWords
<1>12. record = other
  <2> HIDE DEF a, b, w, x, s, t, f, h
  <2> QED
    BY <1>5, <1>10, <1>11, Zenon
<1> HIDE DEF record, other
<1> QED
  BY <1>8, <1>9, <1>12

\* A route that covers a policy covers every weaker one.
LEMMA RouteKeeps ==
    ASSUME NEW g, NEW q, Eased(g, q), RouteSatisfiesPolicy(q.route, q.policy),
           q.route \in RouteType
    PROVE  RouteSatisfiesPolicy(g.route, g.policy)
<1>1. Satisfies(g.route.kind, g.policy.channel)
  BY EasedSatisfies DEF RouteSatisfiesPolicy, Eased
<1>2. IntegritySatisfies(g.route.integrity, g.policy.integrity)
  BY DEF RouteSatisfiesPolicy, Eased, Weaker, IntegritySatisfies, PolicyType, RouteType
<1>3. g.policy.gpuRequired => g.policy.gpus \cap g.route.gpus # {}
  BY DEF RouteSatisfiesPolicy, Eased, Weaker
<1> QED
  BY <1>1, <1>2, <1>3 DEF RouteSatisfiesPolicy, Eased, Weaker

\* Verdicts move the right way, for every policy, route, reference values and evidence: a
\* policy that asks for less allows no less, and an accepted update of fully pinned
\* reference values admits nothing new (verify_evidence, verify_not_weakened_by).
THEOREM VerdictsStayMonotone == Spec => []VerdictsMonotone
<1>1. ASSUME IInv, Enforced PROVE VerdictsMonotone
  <2>1. /\ phase = "sent"
        /\ RouteSatisfiesPolicy(route, policy)
        /\ verdict = VerifyEvidence(Request) /\ verdict # Nothing /\ verdict.allowed
        /\ policy.mode = "enforce"
    BY <1>1 DEF IInv, Enforced
  <2>2. /\ policy \in PolicyType
        /\ route \in RouteType
        /\ Request.policy = policy
        /\ Request.route = route
        /\ Request.reference = reference
        /\ Request.evidence = evidence
    BY <1>1, <2>1, Typed
  <2>3. route.family \in Families
    BY <2>2 DEF RouteType
  <2>4. Accepted(Request)
    BY <1>1, NothingBlocks
  <2>5. reference # NoReference
    BY <2>2, <2>4 DEF Accepted
  <2>6. ASSUME NEW g, Eased(g, Request) PROVE Allows(g)
    <3>1. VerifyEvidence(g) = verdict
      BY <2>1, <2>2, <2>3, <2>6, VerdictKeeps
    <3>2. RouteSatisfiesPolicy(g.route, g.policy)
      BY <2>1, <2>2, <2>6, RouteKeeps
    <3> QED
      BY <2>1, <3>1, <3>2 DEF Allows
  <2>7. WeakerPolicyAllows
    <3> SUFFICES ASSUME NEW p \in Policies, Weaker(p, policy)
                 PROVE  Allows([Request EXCEPT !.policy = p])
      BY DEF WeakerPolicyAllows
    <3> DEFINE g == [Request EXCEPT !.policy = p]
    <3>1. /\ g.policy = p /\ g.route = route
          /\ g.reference = reference /\ g.evidence = evidence
      BY DEF Request
    <3>2. p \in PolicyType
      BY PoliciesAssumption
    <3>3. Admits(reference, reference)
      BY DEF Admits
    <3> HIDE DEF g
    <3>4. Eased(g, Request)
      BY <2>2, <2>5, <3>1, <3>2, <3>3 DEF Eased
    <3>5. Allows(g)
      BY <2>6, <3>4
    <3> QED
      BY <3>5 DEF g
  <2>8. UpdatesNarrow
    <3> SUFFICES ASSUME NEW older \in References[route.family],
                        older.spki # Nothing, older.images # Nothing,
                        older.until = reference.until, older.routeUntil = reference.routeUntil,
                        NotWeakenedBy(older, reference)
                 PROVE  Allows([Request EXCEPT !.reference = older])
      BY DEF UpdatesNarrow
    <3> DEFINE g == [Request EXCEPT !.reference = older]
    <3>1. /\ g.policy = policy /\ g.route = route
          /\ g.reference = older /\ g.evidence = evidence
      BY DEF Request
    <3>2. older # NoReference
      BY <2>3, ArtifactsAssumption
    <3>3. Admits(older, reference)
      BY DEF Admits, NotWeakenedBy
    <3>4. Weaker(policy, policy)
      BY <2>2 DEF Weaker, PolicyType
    <3> HIDE DEF g
    <3>5. Eased(g, Request)
      BY <2>2, <3>1, <3>2, <3>3, <3>4 DEF Eased
    <3>6. Allows(g)
      BY <2>6, <3>5
    <3> QED
      BY <3>6 DEF g
  <2> QED
    BY <2>7, <2>8 DEF VerdictsMonotone
<1>2. IInv => VerdictsMonotone
  BY <1>1 DEF VerdictsMonotone, WeakerPolicyAllows, UpdatesNarrow
<1> QED
  BY <1>2, Inductive, PTL
=============================================================================
