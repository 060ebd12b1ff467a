----------------------------- MODULE MCVerifier -----------------------------
(* Small instances of Verifier. *)
EXTENDS Verifier

Ttl == 4

Routine ==
    {Disabled(Ttl), Observe(Ttl), RequireHardware(Ttl), RequireModelBinding(Ttl),
     RequireAttestedE2ee(Ttl), RequireHwVerifiedTls(Ttl)}
    \cup {RequireFullProvenance(Ttl, c) : c \in {"tls", "e2ee"}}
    \cup {RequireConfidentialGpuInference(Ttl, c) : c \in {"tls", "e2ee"}}

\* The presets and the ways in which callers adjust them.
MCPolicies ==
    Routine
    \cup {[p EXCEPT !.perRequest = TRUE] :
            p \in {RequireHardware(Ttl), RequireAttestedE2ee(Ttl), RequireHwVerifiedTls(Ttl)}}
    \cup {[p EXCEPT !.cpuRequired = FALSE] :
            p \in {RequireHardware(Ttl), RequireAttestedE2ee(Ttl), RequireHwVerifiedTls(Ttl),
                   RequireConfidentialGpuInference(Ttl, "e2ee")}}
    \cup {[RequireHardware(Ttl) EXCEPT !.cpus = {"tdx"}],
          [RequireAttestedE2ee(Ttl) EXCEPT !.channel = "any"],
          [RequireHardware(Ttl) EXCEPT !.cpuRequired = FALSE, !.channel = "any"],
          [RequireHardware(Ttl) EXCEPT !.cpuRequired = FALSE, !.request = TRUE],
          [RequireHardware(Ttl) EXCEPT !.cpuRequired = FALSE, !.response = TRUE,
                                       !.integrity = "any"],
          [RequireHwVerifiedTls(Ttl) EXCEPT !.integrity = "receipt"],
          [RequireHardware(Ttl) EXCEPT !.provenance = {"image"}],
          [RequireHardware(Ttl) EXCEPT !.provenance = {"build"}],
          [RequireAttestedE2ee(Ttl) EXCEPT !.cpuRequired = FALSE,
                                           !.provenance = {"image", "artifacts"}]}

Routed(family, tier, gpus, modelSupport, perRequest) ==
    [family |-> family, model |-> "m", kind |-> IF family \in TlsFamilies THEN "tls" ELSE "e2ee",
     tier |-> tier, request |-> TRUE, response |-> TRUE, integrity |-> "channel",
     gpus |-> gpus, modelSupport |-> modelSupport, perRequest |-> perRequest]

MCRoutes ==
    {Routed("fixture_dstack", "app_e2ee", {}, TRUE, FALSE),
     Routed("dstack_app_e2ee", "app_e2ee", {}, TRUE, FALSE),
     Routed("chutes_e2ee", "app_e2ee", GpuKinds, FALSE, FALSE),
     Routed("chutes_e2ee", "app_e2ee", GpuKinds, FALSE, TRUE),
     Routed("chutes_live_e2ee", "app_e2ee", GpuKinds, FALSE, TRUE),
     Routed("near_hw_verified_tls", "hw_verified_tls", {}, TRUE, FALSE),
     Routed("redpill_aci_verified_tls", "hw_verified_tls", GpuKinds, FALSE, TRUE),
     Routed("ppq_ehbp", "app_e2ee", {}, FALSE, FALSE),
     Routed("tinfoil_hw_verified_tls", "hw_verified_tls", {}, FALSE, FALSE),
     [Routed("tinfoil_hw_verified_tls", "tee_only", {}, TRUE, FALSE) EXCEPT !.request = FALSE]}

Pinned(family) ==
    [family |-> family, model |-> "m", kind |-> IF family \in TlsFamilies THEN "tls" ELSE "e2ee",
     key |-> "k", spki |-> "s", cpus |-> CpuKinds, measurements |-> {"m1", "m2"},
     image |-> "i", images |-> "i", artifacts |-> {}, routeUntil |-> 9, until |-> 9]

MCReferences ==
    [f \in Families |->
        {Pinned(f),
         [Pinned(f) EXCEPT !.cpus = {"tdx"}, !.measurements = {"m1"}],
         [Pinned(f) EXCEPT !.measurements = {"m2"}, !.artifacts = {"a"}],
         [Pinned(f) EXCEPT !.spki = Nothing, !.images = Nothing],
         [Pinned(f) EXCEPT !.model = "other"],
         [Pinned(f) EXCEPT !.kind = "none"],
         [Pinned(f) EXCEPT !.key = "k2", !.spki = "s2", !.measurements = {"m2"}],
         [Pinned(f) EXCEPT !.until = 5],
         [Pinned(f) EXCEPT !.routeUntil = 5]}]

\* A provider with nothing to hide.
Honest ==
    [schema |-> "quote", wellFormed |-> TRUE, named |-> TRUE, quoteSigned |-> TRUE,
     cpu |-> "tdx", measurement |-> "m1", gpu |-> "verified", nonce |-> "ours", binds |-> TRUE,
     key |-> "k", spki |-> "s", kind |-> "e2ee", requestBound |-> TRUE, responseBound |-> TRUE,
     tcb |-> TRUE, model |-> "canonical", image |-> "i", manifest |-> TRUE, artifacts |-> {"a"},
     issued |-> 2, expires |-> 8]

Alternatives ==
    [schema |-> {"claims"}, wellFormed |-> {FALSE}, named |-> {FALSE}, quoteSigned |-> {FALSE},
     cpu |-> {"sev_snp"}, measurement |-> {"m2", "m3"}, gpu |-> {"absent", "other_nonce", "rejected"},
     nonce |-> {"other"}, binds |-> {FALSE}, key |-> {"k2"}, spki |-> {"s2"}, kind |-> {"none"},
     requestBound |-> {FALSE}, responseBound |-> {FALSE}, tcb |-> {FALSE},
     model |-> {"other", "provider", Nothing}, image |-> {"i2"}, manifest |-> {FALSE},
     artifacts |-> {{}}, issued |-> {5}, expires |-> {2}]

\* The fields that some verifier of the family reads.
Read(family) ==
    {"wellFormed", "named", "cpu", "measurement", "expires"} \cup
    CASE family = "fixture_dstack" ->
             {"key", "kind", "requestBound", "responseBound", "model", "image", "artifacts", "issued"}
      [] family = "dstack_app_e2ee" ->
             {"tcb", "key", "kind", "model", "manifest", "image", "artifacts", "issued"}
      [] family = "chutes_e2ee" ->
             {"gpu", "nonce", "binds", "key", "model", "image", "artifacts", "issued"}
      [] family = "tinfoil_hw_verified_tls" ->
             {"schema", "quoteSigned", "binds", "spki", "model", "image", "artifacts", "issued"}
      [] OTHER -> {"quoteSigned", "gpu", "nonce", "binds", "model"}

\* Evidence that differs from e in one field.
Deviating(e, fields) == UNION {{[e EXCEPT ![n] = v] : v \in Alternatives[n]} : n \in fields}

MCEvidences ==
    [f \in Families |->
        LET once == Deviating(Honest, Read(f))
        IN  {Honest} \cup once \cup UNION {Deviating(e, Read(f)) : e \in once}]
=============================================================================
