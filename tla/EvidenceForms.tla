---------------------------- MODULE EvidenceForms ----------------------------
(***************************************************************************)
(* The layouts of attestation documents that the dstack and Chutes         *)
(* normalisers understand: each fact under several names, at the top, in   *)
(* one nested object or in the entries of a list.                          *)
(*                                                                         *)
(* A JSON object is a function from paths to values.  A document has an    *)
(* object at its top and the lists all_attestations and                    *)
(* model_attestations.                                                     *)
(***************************************************************************)
EXTENDS WorkloadImages, TLC

CONSTANTS
    Absent,      \* no value
    Blank,       \* an empty string
    Spellings,   \* which of the names of a fact a document uses: indices
    MaxFacts     \* bound on the facts a document states

\* A document: which facts it states in which place (facts: pairs), in which spelling at
\* its top and elsewhere, in which list its entries stand ("schema" for a document that is
\* evidence already), under which key its nested object, and what is wrong with the first
VARIABLE form

formVars == <<form>>

\* sha256 of a key that a document gives in full
Digest(key) == <<"sha256", key>>

-----------------------------------------------------------------------------
(* Lookups *)

StringField(object, path) ==
    IF path \in DOMAIN object /\ object[path] # Blank THEN object[path] ELSE Absent

\* Path by path, the top of the document before its nested object
FirstAt(at(_, _), top, nested, paths) ==
    LET value(path) == IF at(top, path) # Absent THEN at(top, path) ELSE at(nested, path)
        found == {i \in DOMAIN paths : value(paths[i]) # Absent}
    IN  IF found = {} THEN Absent ELSE value(paths[Min(found)])
ValuePath(object, path) == IF path \in DOMAIN object THEN object[path] ELSE Absent
FirstString(top, nested, paths) == FirstAt(StringField, top, nested, paths)
FirstValue(top, nested, paths) == FirstAt(ValuePath, top, nested, paths)

\* The object under a key, empty when there is none
Nested(object, key) ==
    LET inner == {Tail(p) : p \in {q \in DOMAIN object : Len(q) > 1 /\ Head(q) = key}}
    IN  [p \in inner |-> object[<<key>> \o p]]

Among(value, values) == \E i \in DOMAIN values : values[i] = value
Else(value, default) == IF value # Absent THEN value ELSE default

-----------------------------------------------------------------------------
(* What both normalisers do *)

\* route: [id, canonical, pmodel]; canonical is the second part of its id, or Absent
NormalizeAttestedModel(route, request, raw) ==
    LET canonical == Else(route.canonical, request.model) IN
    IF raw = Absent THEN Absent
    ELSE IF raw \in {route.pmodel, canonical, request.model} THEN canonical ELSE Rejected

\* A time is a number of milliseconds; a written one may be unreadable.
EvidenceTtl == 5
EvidenceTimes(top, now) ==
    LET read(path) == LET t == StringField(top, path)
                      IN  IF t = Absent \/ t = -1 THEN Absent ELSE t
        written == IF StringField(top, <<"issued_at">>) # Absent THEN read(<<"issued_at">>)
                   ELSE IF StringField(top, <<"timestamp">>) # Absent THEN read(<<"timestamp">>)
                   ELSE now
        issued == Else(read(<<"issued_at_epoch_ms">>), Else(written, now))
    IN  [issued |-> issued,
         expires |-> Else(read(<<"expires_at_epoch_ms">>), Else(read(<<"expires_at">>), issued + EvidenceTtl))]

ExtractTeeMeasurement(top) ==
    FirstString(top, <<>>, <<<<"tee_measurement">>, <<"measurement">>, <<"tdx", "tee_measurement">>>>)
ExtractCpuTee(top) ==
    LET cpu == FirstString(top, <<>>, <<<<"hardware", "cpu">>, <<"tee_hardware">>>>)
    IN  IF cpu \in {"sev_snp", "nitro"} THEN cpu ELSE "tdx"
ExtractModelArtifacts(top, nested) ==
    LET digest == FirstString(top, nested, <<<<"model_artifact_digest">>, <<"weights_digest">>,
                                             <<"model_weights_digest">>>>)
        name == FirstString(top, nested, <<<<"model">>, <<"model_name">>>>)
    IN  Else(FirstValue(top, nested, <<<<"model_artifacts">>>>),
             IF digest = Absent THEN <<>> ELSE <<[kind |-> "weights", name |-> Else(name, "model"), digest |-> digest]>>)

ModelPaths == <<<<"attested_model">>, <<"model">>, <<"model_name">>, <<"upstream_model">>>>
QuotePaths == <<<<"intel_quote">>, <<"quote">>, <<"tdx_quote">>, <<"attestation", "intel_quote">>>>

-----------------------------------------------------------------------------
(* dstack *)

DstackPaths ==
    [quote |-> QuotePaths, model |-> ModelPaths,
     tcb |-> <<<<"tcb_info">>, <<"info", "tcb_info">>, <<"attestation", "info", "tcb_info">>>>,
     hash |-> <<<<"compose_hash">>, <<"info", "compose_hash">>, <<"attestation", "info", "compose_hash">>>>,
     mrtd |-> <<<<"quote_measurements", "mr_td">>, <<"quote_measurements", "mrtd">>, <<"tdx", "mr_td">>,
                <<"measurements", "mr_td">>, <<"mr_td">>>>,
     rtmr0 |-> <<<<"quote_measurements", "rtmr0">>, <<"quote_measurements", "rt_mr0">>, <<"tdx", "rtmr0">>,
                 <<"tdx", "rt_mr0">>, <<"measurements", "rtmr0">>, <<"rtmr0">>>>,
     digest |-> <<<<"channel_binding", "public_key_digest">>, <<"e2ee_public_key_digest">>,
                  <<"public_key_digest">>, <<"signing_public_key_digest">>>>,
     key |-> <<<<"signing_public_key">>, <<"e2e_pubkey">>, <<"e2e_public_key">>, <<"e2ee_public_key">>,
               <<"public_key">>>>,
     gpu |-> <<<<"nvidia_payload">>, <<"gpu_evidence">>, <<"nvidia">>, <<"hardware", "gpu">>>>]

PrimaryModelAttestation(document) ==
    IF document.models # <<>> THEN document.models[1]
    ELSE IF document.all # <<>> THEN document.all[1]
    ELSE IF Nested(document.top, "model_attestation") # <<>> THEN Nested(document.top, "model_attestation")
    ELSE Nested(document.top, "attestation")

\* The explicit measurements, both of them, before those of the quote
ExtractQuoteMeasurements(mrtd, rtmr0, quote) ==
    IF mrtd # Absent /\ rtmr0 # Absent THEN [mrtd |-> mrtd, rtmr0 |-> rtmr0]
    ELSE IF quote = Absent \/ ~quote.tdx THEN Rejected
    ELSE [mrtd |-> quote.mrtd, rtmr0 |-> quote.rtmr0]

ExtractPublicKeyDigest(digest, key) ==
    IF digest # Absent THEN digest ELSE IF key # Absent THEN Digest(key) ELSE Rejected

\* tcb_info itself: [compose, hash, mrtd, rtmr0]; its own compose hash comes first
ExtractTcbInfo(tcb, hash) ==
    IF tcb = Absent THEN Rejected
    ELSE IF Among(Absent, <<tcb.compose, Else(tcb.hash, hash), tcb.mrtd, tcb.rtmr0>>) THEN Rejected
    ELSE [tcb EXCEPT !.hash = Else(@, hash)]

NormalizeDstackEvidence(route, request, document, now) ==
    LET nested == PrimaryModelAttestation(document)
        field(name) == FirstString(document.top, nested, DstackPaths[name])
        tcb == ExtractTcbInfo(FirstValue(document.top, nested, DstackPaths.tcb), field("hash"))
        measured == ExtractQuoteMeasurements(field("mrtd"), field("rtmr0"), field("quote"))
        digest == ExtractPublicKeyDigest(field("digest"), field("key"))
        model == NormalizeAttestedModel(route, request, field("model"))
        images == IF tcb = Rejected THEN Rejected ELSE ParseDstackWorkloadImages(tcb.compose)
    IN  IF Among(Rejected, <<tcb, measured, digest, model, images>>) THEN Rejected
        ELSE [provider |-> "dstack", route |-> route.id, tcb |-> tcb, measured |-> measured, key |-> digest,
              model |-> model, images |-> images, cpu |-> ExtractCpuTee(document.top),
              measurement |-> Else(ExtractTeeMeasurement(document.top), measured.mrtd),
              gpu |-> FirstValue(document.top, nested, DstackPaths.gpu) # Absent,
              artifacts |-> ExtractModelArtifacts(document.top, nested),
              times |-> EvidenceTimes(document.top, now)]

\* verify_dstack_tcb_compose_hash; a hash is that of one compose file
TcbComposeHash(tcb, measured) ==
    IF tcb.mrtd # measured.mrtd \/ tcb.rtmr0 # measured.rtmr0 THEN "MeasurementMismatch"
    ELSE IF tcb.hash = Digest(tcb.compose) THEN "Verified"
    ELSE "ComposeHashMismatch"

-----------------------------------------------------------------------------
(* Chutes *)

ChutesPaths ==
    [quote |-> QuotePaths, model |-> ModelPaths,
     report |-> <<<<"report_data">>, <<"tdx", "report_data">>, <<"attestation", "report_data">>>>,
     nonce |-> <<<<"nonce">>, <<"request_nonce">>, <<"attestation", "nonce">>>>,
     key |-> <<<<"e2e_pubkey">>, <<"e2e_public_key">>, <<"e2ee_public_key">>, <<"public_key">>>>,
     gpu |-> <<<<"gpu_evidence">>, <<"nvidia_payload">>, <<"nvidia">>>>,
     token |-> <<<<"nras_token">>, <<"nvidia_nras_token">>, <<"nvidia_attestation_token">>,
                 <<"attestation_token">>, <<"token">>>>]

\* An entry that could be bound to a key by itself
CompleteEntry(entry) ==
    /\ StringField(entry, <<"nonce">>) # Absent
    /\ FirstString(entry, <<>>, SubSeq(ChutesPaths.key, 1, 3)) # Absent
    /\ FirstString(entry, <<>>, <<<<"report_data">>, <<"intel_quote">>>>) # Absent

\* Fault: the first entry of the list is taken, complete or not.
FirstChutesAttestation(document) ==
    IF document.all # <<>> THEN document.all[1] ELSE Nested(document.top, "attestation")

PrimaryChutesAttestation(document) ==
    LET complete == {i \in DOMAIN document.all : CompleteEntry(document.all[i])}
    IN  IF complete # {} THEN document.all[Min(complete)]
        ELSE IF document.all # <<>> THEN document.all[1]
        ELSE Nested(document.top, "attestation")

\* chutes_provider_nonce: a canonical nonce itself, else one derived from it
ChutesProviderNonce(nonce) == <<IF nonce.canonical THEN "lower case" ELSE "derived", nonce.text>>
ValidateChutesRequestNonce(request, nonce) ==
    request.nonce = Absent \/ nonce = ChutesProviderNonce(request.nonce)

ExtractGpuAttestation(top, nested, nonce) ==
    LET payload == FirstValue(top, nested, ChutesPaths.gpu)
        token == FirstString(top, nested, ChutesPaths.token)
    IN  IF payload = Absent THEN Absent
        ELSE [nonce |-> nonce, payload |-> payload,
              token |-> Else(token, IF payload = Blank THEN Absent ELSE payload.token)]

NormalizeChutesEvidence(route, request, document, now) ==
    LET nested == PrimaryChutesAttestation(document)
        field(name) == FirstString(document.top, nested, ChutesPaths[name])
        quote == field("quote")
        report == Else(field("report"), IF quote = Absent THEN Absent ELSE quote.report)
        model == NormalizeAttestedModel(route, request, field("model"))
    IN  IF \/ quote # Absent /\ ~quote.tdx
           \/ Among(Absent, <<report, field("nonce"), field("key")>>)
           \/ ~ValidateChutesRequestNonce(request, field("nonce"))
           \/ model = Rejected
        THEN Rejected
        ELSE [provider |-> "chutes", route |-> route.id, report |-> report, nonce |-> field("nonce"),
              key |-> field("key"), model |-> model, cpu |-> ExtractCpuTee(document.top),
              measurement |-> Else(ExtractTeeMeasurement(document.top), IF quote = Absent THEN Absent ELSE quote.mrtd),
              gpu |-> ExtractGpuAttestation(document.top, nested, field("nonce")),
              artifacts |-> ExtractModelArtifacts(document.top, nested),
              times |-> EvidenceTimes(document.top, now)]

\* A document that already has the evidence's schema is taken as it is; of a Chutes one
\* the nonce is checked first.
NormalizeBytes(route, request, document, now) ==
    IF document.schema
    THEN IF /\ document.provider = "chutes"
            /\ ~ValidateChutesRequestNonce(request, ValuePath(document.top, <<"nonce">>))
         THEN Rejected ELSE document.top
    ELSE IF document.provider = "chutes" THEN NormalizeChutesEvidence(route, request, document, now)
    ELSE NormalizeDstackEvidence(route, request, document, now)

-----------------------------------------------------------------------------
(* Documents.  Two instances answer behind an endpoint. *)

Instances == {1, 2}
RouteOf == [id |-> "r", canonical |-> "small", pmodel |-> "p-small"]
RequestNonce == [canonical |-> FALSE, text |-> "n"]
ComposeOf(i) == (<<Services, <<".web">>, ImageKey>>) :> [string |-> TRUE, repository |-> "r", digest |-> <<"d1", "d2">>[i]]

\* What an instance states of itself
Fact(i, fact, flaw) ==
    CASE fact = "quote" -> [tdx |-> flaw # "quote", mrtd |-> i, rtmr0 |-> i, report |-> i]
      [] fact = "nonce" -> IF flaw = "nonce" THEN <<"derived", "old">> ELSE ChutesProviderNonce(RequestNonce)
      [] fact = "tcb" -> [compose |-> ComposeOf(i), mrtd |-> i, rtmr0 |-> i,
                          hash |-> IF flaw = "hash" THEN Absent ELSE Digest(ComposeOf(i))]
      [] fact = "hash" -> Digest(ComposeOf(i))
      [] fact = "digest" -> Digest(i)
      [] fact = "model" -> IF flaw = "model" THEN "other" ELSE "p-small"
      [] fact = "gpu" -> [token |-> i]
      [] fact = "key" /\ flaw = "key" -> Blank
      [] OTHER -> i

Tables == [chutes |-> ChutesPaths, dstack |-> DstackPaths]
Spelt(paths, spelling) == paths[Min({spelling, Len(paths)})]

\* The object that stands in a place
Object(f, place, prefix, i, spelling, flaw) ==
    LET facts == {q[2] : q \in {p \in f.facts : p[1] = place}}
        path(fact) == prefix \o Spelt(Tables[f.provider][fact], spelling)
    IN  [p \in {path(fact) : fact \in facts} |->
            Fact(i, CHOOSE fact \in facts : path(fact) = p, flaw)]

Entries(f) ==
    IF \A p \in f.facts : p[1] \notin Instances THEN <<>>
    ELSE <<Object(f, 1, <<>>, 1, f.spelling, f.flaw), Object(f, 2, <<>>, 2, f.spelling, "none")>>

Document(f) ==
    [provider |-> f.provider, schema |-> f.list = "schema",
     top |-> Object(f, 0, <<>>, 1, f.above, IF f.list \in {"none", "schema"} THEN f.flaw ELSE "none")
             @@ Object(f, 3, <<f.nest>>, 1, f.spelling, f.flaw),
     all |-> IF f.list = "all" THEN Entries(f) ELSE <<>>,
     models |-> IF f.list = "models" THEN Entries(f) ELSE <<>>]

FormInit ==
    \E provider \in DOMAIN Tables, above, spelling \in Spellings,
       flaw \in {"none", "nonce", "quote", "key", "hash", "model"}, list \in {"none", "all", "models", "schema"},
       nest \in {"attestation", "model_attestation"} :
        /\ provider = "chutes" => list # "models" /\ nest = "attestation"
        /\ list # "none" => nest = "attestation"
        /\ above \in {1, spelling} /\ (flaw # "none" => spelling = 1)
        /\ form = [provider |-> provider, above |-> above, spelling |-> spelling, flaw |-> flaw,
                   list |-> list, nest |-> nest, facts |-> {}]

\* Places: 0 the top, 1 and 2 the entries, 3 the nested object.  With entries below it the
\* top states what they share; without, a fact is stated once.
StateFact(place, fact) ==
    /\ Cardinality(form.facts) < MaxFacts
    /\ place # 0 => (place \in Instances <=> form.list # "none") /\ form.list # "schema"
    /\ place = 0 /\ form.list \in {"all", "models"} => fact \in {"nonce", "model"}
    /\ form.list \in {"none", "schema"} => \A p \in form.facts : p[2] # fact
    /\ form.provider = "dstack" /\ place = 2 => fact \in {"quote", "key"}
    /\ form' = [form EXCEPT !.facts = @ \cup {<<place, fact>>}]

FormNext ==
    \E place \in 0..3, fact \in DOMAIN Tables[form.provider] \ {"token"} : StateFact(place, fact)

-----------------------------------------------------------------------------
(* Properties *)

\* Every part of some evidence comes from one instance.
FromInstance(evidence, i) ==
    IF evidence.provider = "chutes"
    THEN /\ evidence.report = i /\ evidence.key = i /\ evidence.measurement \in {i, Absent}
         /\ evidence.gpu # Absent => evidence.gpu.token = i /\ evidence.gpu.nonce = evidence.nonce
    ELSE /\ evidence.measured = [mrtd |-> i, rtmr0 |-> i] /\ evidence.key = Digest(i)
         /\ evidence.images = ParseDstackWorkloadImages(ComposeOf(i))
         /\ TcbComposeHash(evidence.tcb, evidence.measured) = "Verified"

Stated(place) == {p[2] : p \in {q \in form.facts : q[1] = place}}
Suffices(facts) ==
    IF form.provider = "chutes" THEN {"nonce", "key"} \subseteq facts /\ facts \cap {"report", "quote"} # {}
    ELSE /\ "tcb" \in facts /\ facts \cap {"digest", "key"} # {}
         /\ {"mrtd", "rtmr0"} \subseteq facts \/ "quote" \in facts

\* The instance a document must be read as: the only one, the first of a dstack list, the
\* first entry of a Chutes list that is whole (under the names that count); 0 for none
Speaker ==
    IF form.list = "none" THEN (IF Suffices(Stated(0) \cup Stated(3)) THEN 1 ELSE 0)
    ELSE IF form.provider = "dstack" THEN (IF Suffices(Stated(1)) THEN 1 ELSE 0)
    ELSE IF form.spelling # 1 THEN 0
    ELSE IF Suffices(Stated(1)) /\ form.flaw # "key" THEN 1
    ELSE IF Suffices(Stated(2)) THEN 2 ELSE 0

\* One attestation is read the same in every layout a provider may use.  Whatever names
\* and nesting a document uses, and however incomplete the entries before it, the
\* evidence made of it is that of one instance (key, report data, measurements, compose
\* file and images together), answers the nonce of the request, and is there when that
\* instance stated enough: lookups go name by name over two objects at once, so an order
\* of names that mixes two instances would pass every single lookup.
FormsAgree ==
    \A nonce \in {RequestNonce, Absent} :
        LET evidence == NormalizeBytes(RouteOf, [nonce |-> nonce, model |-> "small"], Document(form), 0) IN
        IF form.list = "schema"
        THEN evidence # Rejected /\ form.provider = "chutes" /\ nonce # Absent =>
                evidence[<<"nonce">>] = ChutesProviderNonce(nonce)
        ELSE
        /\ evidence # Rejected =>
              /\ \E i \in Instances : FromInstance(evidence, i)
              /\ form.provider = "chutes" /\ nonce # Absent => evidence.nonce = ChutesProviderNonce(nonce)
        /\ form.flaw = "none" \/ Speaker = 2 =>
              (Speaker # 0 => evidence # Rejected /\ FromInstance(evidence, Speaker))
=============================================================================
