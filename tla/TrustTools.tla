----------------------------- MODULE TrustTools -----------------------------
(***************************************************************************)
(* The trust command line (trust-cli main.rs, ppq.rs, redpill.rs and       *)
(* reference_values_generator.rs).  keygen makes an operator's signing     *)
(* key; pin captures a provider's evidence several times, verifies each    *)
(* capture, for Tinfoil and PPQ also against the latest signed release,    *)
(* puts what it saw into a registry, reference values and a compatibility  *)
(* matrix, signs them, loads them into a client as a check, and writes     *)
(* four files one after the other.  The provider may roll out a new        *)
(* deployment, and a release may appear, between any two captures; the     *)
(* command may be interrupted at any point.  Clients use the configuration *)
(* file, or the three artifact files, whatever is on disk.                 *)
(***************************************************************************)
EXTENDS Integers, Sequences, FiniteSets

CONSTANTS
    KeyDirs,      \* key directories of the operator
    Commands,     \* pin commands: [provider, models, smoke]
    Deployments,  \* what a provider may run: sets of functions of the model
    Measurements, \* release digest to its signed measurement (Provenance)
    Captures,     \* --captures
    ValidFor,     \* --valid-days, and the seven days of RedPill
    QuoteLife,    \* life of a verified quote
    MaxTime,      \* bound on the clock
    MaxRollouts,  \* bound on rollouts and releases
    MaxPins,      \* bound on pin commands
    Nothing

\* A file whose writing was cut short
Partial == [torn |-> TRUE]

Pinnable == {"chutes", "tinfoil", "ppq", "redpill"}

\* A capture writes into evidence when it ends.  One of a model that is not served
\* fails, so commands name models that are.
ASSUME TrustToolsAssumption ==
    /\ \A p \in Pinnable : Deployments[p] # {}
    /\ \A c \in Commands :
          /\ c.provider \in Pinnable
          /\ c.models \in Seq([name : STRING, provider : STRING, private : BOOLEAN])
          /\ \A d \in Deployments[c.provider], i \in DOMAIN c.models :
                "expires" \in DOMAIN d[c.models[i].provider]
    /\ Captures \in Nat \ {0} /\ ValidFor \in Nat \ {0} /\ QuoteLife \in Nat \ {0}
    /\ MaxTime \in Nat /\ MaxRollouts \in Nat /\ MaxPins \in Nat

VARIABLES
    seeds,    \* key directory to the private key in it
    entries,  \* key directory to the public key entry in it
    running,  \* the deployment of each provider and model
    latest,   \* digest of the latest release
    rollouts, \* rollouts and releases so far
    now,      \* the clock
    pins,     \* pin commands so far
    command,  \* the running command
    files,    \* the output directory
    proved    \* history: provider and measurement of every capture whose quote was good

toolVars == <<seeds, entries, running, latest, rollouts, now, pins, command, files, proved>>

FileNames == <<"registry", "reference", "matrix", "config">>
ReleasePinned == {"tinfoil", "ppq"}
Idle == [stage |-> "idle"]

-----------------------------------------------------------------------------
(* Keys and signatures *)

Sign(key, payload) == [signer |-> key, payload |-> payload]

\* The first trusted key with the signature's signer and key identifier decides.
VerifiesWith(envelope, keys) == \E key \in keys : envelope.signer = key

Stage(s) == command.stage = s

\* keygen refuses a directory that holds a private key.
KeygenSeed(dir) ==
    /\ Stage("idle") /\ seeds[dir] = Nothing
    /\ seeds' = [seeds EXCEPT ![dir] = dir]
    /\ command' = [stage |-> "keygen", dir |-> dir]
    /\ UNCHANGED <<entries, running, latest, rollouts, now, pins, files, proved>>

KeygenEntry ==
    /\ Stage("keygen")
    /\ entries' = [entries EXCEPT ![command.dir] = seeds[command.dir]]
    /\ command' = Idle
    /\ UNCHANGED <<seeds, running, latest, rollouts, now, pins, files, proved>>

LoadSigningKey(dir) == seeds[dir] # Nothing /\ entries[dir] = seeds[dir]

-----------------------------------------------------------------------------
(* Arguments *)

\* Model and canonical names in pairs, neither repeated
ParseModels(models) ==
    /\ models # <<>>
    /\ \A i, j \in DOMAIN models : i # j => models[i].name # models[j].name
                                            /\ models[i].provider # models[j].provider

StartPin(dir, c) ==
    /\ Stage("idle") /\ pins < MaxPins
    /\ ParseModels(c.models) /\ LoadSigningKey(dir)
    /\ pins' = pins + 1
    /\ command' = [stage |-> IF c.provider \in ReleasePinned THEN "release" ELSE "capture",
                   key |-> seeds[dir], provider |-> c.provider, models |-> c.models,
                   smoke |-> c.smoke, digest |-> Nothing, at |-> Nothing, seen |-> <<>>]
    /\ UNCHANGED <<seeds, entries, running, latest, rollouts, now, files, proved>>

\* PPQ serves names under private/ alone, and looks at them once it has the release.
ModelsValid ==
    command.provider = "ppq" => \A i \in DOMAIN command.models : command.models[i].private

\* The latest release, its digest and its measurement.  PPQ fixes its version here.
FetchRelease ==
    /\ Stage("release") /\ ModelsValid
    /\ command' = [command EXCEPT !.stage = "capture", !.digest = latest,
                                  !.at = IF command.provider = "ppq" THEN now ELSE Nothing]
    /\ UNCHANGED <<seeds, entries, running, latest, rollouts, now, pins, files, proved>>

-----------------------------------------------------------------------------
(* Captures *)

CapturesPerModel == IF command.provider = "chutes" THEN Captures ELSE 2
ModelOf(i) == command.models[1 + ((i - 1) \div CapturesPerModel)]

\* A release is a SEV-SNP measurement, and the quote must have it.
AnyMeasurement(digest, quote) == quote.format = "snp"
VerifyReleaseMeasurement(digest, quote) ==
    quote.format = "snp" /\ quote.measurement = Measurements[digest]

\* The compose file of a RedPill workload is the measured one and lets nobody in.
ForbiddenAllowedEnvs == {"DSTACK_ROOT_PUBLIC_KEY", "DSTACK_AUTHORIZED_KEYS", "DSTACK_ROOT_PASSWORD"}
EnforceComposePolicy(compose, measured) ==
    /\ compose.hash = measured
    /\ compose.allowedEnvs \cap ForbiddenAllowedEnvs = {}
    /\ ~compose.scriptsKeys

\* A fault: the report data is not looked at.
ChutesMeasurement(quote) == quote.gpu

\* The nonce, the key and the certificate are bound, and the GPU vouched for.
VerifiedChutesMeasurement(quote) == quote.gpu /\ quote.bound

\* The capture is the route's, its quote is of a supported kind and bound to the TLS key.
VerifiedTinfoilCapture(quote) == quote.format \in {"snp", "tdx"} /\ quote.bound

RequireLatestRelease(digest) == digest = command.digest

VerifiedPpqCapture(quote) ==
    /\ RequireLatestRelease(quote.digest)
    /\ quote.bound
    /\ VerifyReleaseMeasurement(quote.digest, quote)

VerifiedRedpillMeasurement(quote) ==
    /\ quote.gpu /\ quote.bound
    /\ EnforceComposePolicy(quote.gateway, quote.gatewayHash)
    /\ EnforceComposePolicy(quote.workload, quote.workloadHash)

VerifiedCapture(quote) ==
    CASE command.provider = "chutes" -> VerifiedChutesMeasurement(quote)
      [] command.provider = "tinfoil" -> VerifiedTinfoilCapture(quote)
      [] command.provider = "ppq" -> VerifiedPpqCapture(quote)
      [] command.provider = "redpill" -> VerifiedRedpillMeasurement(quote)

TinfoilProfileMatches(first, second) ==
    \A f \in {"format", "measurement", "model", "spki"} : first[f] = second[f]

\* What the two captures of one model must share, and all captures of the command
TinfoilAgree(first, second, seen) ==
    /\ VerifyReleaseMeasurement(command.digest, first)
    /\ VerifyReleaseMeasurement(command.digest, second)
    /\ TinfoilProfileMatches(first, second)
    /\ \A i \in DOMAIN seen : seen[i].format = second.format

PpqAgree(first, second, seen) ==
    /\ first.digest = second.digest /\ first.format = second.format
    /\ \A i \in DOMAIN seen : seen[i].measurement = second.measurement

RedpillAgree(first, second) == first.measurement = second.measurement

\* The last capture of a model: Chutes keeps all it saw; the others compare.
CapturesAgree(seen) ==
    LET n == Len(seen)
    IN  CASE command.provider = "chutes" \/ n % 2 # 0 -> TRUE
          [] command.provider = "tinfoil" /\ n % 2 = 0 -> TinfoilAgree(seen[n - 1], seen[n], seen)
          [] command.provider = "ppq" /\ n % 2 = 0 -> PpqAgree(seen[n - 1], seen[n], seen)
          [] command.provider = "redpill" /\ n % 2 = 0 -> RedpillAgree(seen[n - 1], seen[n])

\* Ground truth: the answer is the enclave's own, and of RedPill the compose files that were
\* measured, not only the ones it presents, let nobody in.
Honest(quote) ==
    /\ quote.bound
    /\ command.provider = "redpill" =>
          /\ quote.gateway.hash = quote.gatewayHash /\ quote.workload.hash = quote.workloadHash
          /\ \A compose \in {quote.gateway, quote.workload} :
                ~compose.scriptsKeys /\ compose.allowedEnvs \cap ForbiddenAllowedEnvs = {}

Capture ==
    /\ Stage("capture")
    /\ LET i == Len(command.seen) + 1
           quote == [running[command.provider][ModelOf(i).provider] EXCEPT !.expires = now + QuoteLife]
           seen == Append(command.seen, quote)
       IN  /\ VerifiedCapture(quote) /\ CapturesAgree(seen)
           /\ command' = [command EXCEPT
                  !.seen = seen,
                  !.stage = IF i = Len(command.models) * CapturesPerModel THEN "assemble" ELSE @]
           /\ proved' = IF Honest(quote)
                        THEN proved \cup {[provider |-> command.provider,
                                           measurement |-> quote.measurement]}
                        ELSE proved
    /\ UNCHANGED <<seeds, entries, running, latest, rollouts, now, pins, files>>

-----------------------------------------------------------------------------
(* Artifacts *)

\* Captures of the k-th model
Seen(k) == {command.seen[i] : i \in (k - 1) * CapturesPerModel + 1 .. k * CapturesPerModel}
First(k) == command.seen[(k - 1) * CapturesPerModel + 1]

Least(times) == CHOOSE t \in times : \A u \in times : t <= u

\* What each provider's references say of the k-th model
ChutesReference(k) == [model |-> command.models[k].provider, until |-> now + ValidFor, spki |-> Nothing]

\* The quote names no model, and ends when its first capture does.
TinfoilReference(k) ==
    [model |-> command.models[k].provider, until |-> First(k).expires, spki |-> First(k).spki]
TinfoilReferenceValid(k) ==
    /\ First(k).format = "snp" => First(k).model = Nothing
    /\ First(k).format = "tdx" => First(k).model = command.models[k].name
    /\ First(k).bound

PpqReference(k) == [model |-> command.models[k].provider, spki |-> Nothing,
                    until |-> Least({quote.expires : quote \in Seen(k)})]

RedpillReference(k) == [model |-> command.models[k].provider, until |-> now + ValidFor, spki |-> Nothing]

GenerateReference(k) ==
    CASE command.provider = "chutes" -> ChutesReference(k)
      [] command.provider = "tinfoil" -> TinfoilReference(k)
      [] command.provider = "ppq" -> PpqReference(k)
      [] command.provider = "redpill" -> RedpillReference(k)

Version == IF command.at = Nothing THEN now ELSE command.at

\* The routes' references together: measurements are the provider's, and the first expiry counts.
MergeReferences ==
    [provider |-> command.provider, version |-> Version, digest |-> command.digest,
     until |-> Least({GenerateReference(k).until : k \in DOMAIN command.models}),
     measurements |-> {quote.measurement : quote \in UNION {Seen(k) : k \in DOMAIN command.models}},
     routes |-> [name \in {command.models[k].name : k \in DOMAIN command.models} |->
                    GenerateReference(CHOOSE k \in DOMAIN command.models :
                                          command.models[k].name = name)]]

BuildRegistry ==
    [provider |-> command.provider, version |-> Version,
     routes |-> [name \in {command.models[k].name : k \in DOMAIN command.models} |->
                    command.models[CHOOSE k \in DOMAIN command.models :
                                       command.models[k].name = name].provider]]

\* The routes the command writes into the registry
ChutesRoute == [tier |-> "app_e2ee", channel |-> "e2ee", freshness |-> "request", encrypt |-> TRUE,
                streaming |-> FALSE, gpu |-> TRUE]
TinfoilRoute == [tier |-> "hw_verified_tls", channel |-> "tls", freshness |-> "session",
                 encrypt |-> FALSE, streaming |-> TRUE, gpu |-> FALSE]
PpqRoute == [tier |-> "app_e2ee", channel |-> "e2ee", freshness |-> "session", encrypt |-> TRUE,
             streaming |-> FALSE, gpu |-> FALSE]
RedpillRoute == [tier |-> "hw_verified_tls", channel |-> "tls", freshness |-> "request",
                 encrypt |-> FALSE, streaming |-> FALSE, gpu |-> TRUE]

RouteOf(p) == CASE p = "chutes" -> ChutesRoute [] p = "tinfoil" -> TinfoilRoute
                [] p = "ppq" -> PpqRoute [] p = "redpill" -> RedpillRoute

\* The bundled profiles, changed into those of the live provider.  encrypts says who encrypts.
Bundled == [tier |-> "app_e2ee", freshness |-> "session", encrypt |-> TRUE, streaming |-> FALSE,
            executable |-> FALSE, encrypts |-> "sdk", binds |-> TRUE]
ChutesMatrix == [Bundled EXCEPT !.freshness = "request", !.executable = TRUE, !.encrypts = "adapter"]
TinfoilMatrix(snp) == [Bundled EXCEPT !.tier = "hw_verified_tls", !.encrypt = FALSE, !.streaming = TRUE,
                                      !.executable = TRUE, !.encrypts = "nobody", !.binds = ~snp]
PpqMatrix == [Bundled EXCEPT !.executable = TRUE, !.encrypts = "adapter", !.binds = FALSE]
RedpillMatrix == [Bundled EXCEPT !.tier = "hw_verified_tls", !.freshness = "request", !.encrypt = FALSE,
                                 !.executable = TRUE, !.encrypts = "nobody", !.binds = FALSE]

CompatibilityMatrix ==
    [provider |-> command.provider,
     profile |-> CASE command.provider = "chutes" -> ChutesMatrix
                   [] command.provider = "tinfoil" -> TinfoilMatrix(First(1).format = "snp")
                   [] command.provider = "ppq" -> PpqMatrix
                   [] command.provider = "redpill" -> RedpillMatrix]

ValidateRegistryRoutes(matrix) ==
    /\ matrix.profile.executable
    /\ \A f \in {"tier", "freshness", "encrypt", "streaming"} :
           matrix.profile[f] = RouteOf(matrix.provider)[f]

Artifacts ==
    [registry |-> Sign(command.key, BuildRegistry), reference |-> Sign(command.key, MergeReferences),
     matrix |-> Sign(command.key, CompatibilityMatrix)]

\* Builder::build with the operator's key as the only trusted one
Loads(registry, reference, matrix, key) ==
    /\ VerifiesWith(registry, {key}) /\ VerifiesWith(reference, {key})
    /\ registry.payload.provider = matrix.payload.provider
    /\ now < reference.payload.until

\* A client accepts the evidence of a route: its reference is there and knows the measurement.
AcceptsEvidence(registry, reference, name, quote) ==
    /\ name \in DOMAIN registry.payload.routes
    /\ registry.payload.provider = reference.payload.provider
    /\ name \in DOMAIN reference.payload.routes
    /\ reference.payload.routes[name].model = registry.payload.routes[name]
    /\ quote.measurement \in reference.payload.measurements
    /\ now < reference.payload.routes[name].until
    /\ reference.payload.routes[name].spki \in {Nothing, quote.spki}

\* RedPill verifies its routes before it writes; Tinfoil and PPQ chat first when asked to.
SmokeFirst == command.provider = "redpill" \/ (command.smoke /\ command.provider \in ReleasePinned)

Assemble ==
    /\ Stage("assemble")
    /\ LET a == Artifacts
       IN  /\ ValidateRegistryRoutes(a.matrix.payload)
           /\ command.provider = "tinfoil" =>
                  \A k \in DOMAIN command.models : TinfoilReferenceValid(k)
           /\ Loads(a.registry, a.reference, a.matrix, command.key)
           /\ command' = [stage |-> IF SmokeFirst THEN "smoke" ELSE "write",
                          key |-> command.key, provider |-> command.provider,
                          models |-> command.models, content |-> a, at |-> 1]
    /\ UNCHANGED <<seeds, entries, running, latest, rollouts, now, pins, files, proved>>

\* A chat, or RedPill's verification, through the client: it needs evidence that is accepted now.
Smoke ==
    /\ Stage("smoke")
    /\ \A k \in DOMAIN command.models :
           LET quote == running[command.provider][command.models[k].provider]
           IN  quote.bound
               /\ AcceptsEvidence(command.content.registry, command.content.reference,
                                  command.models[k].name, quote)
    /\ command' = [command EXCEPT !.stage = "write"]
    /\ UNCHANGED <<seeds, entries, running, latest, rollouts, now, pins, files, proved>>

-----------------------------------------------------------------------------
(* Files *)

Content(name) ==
    LET c == command.content
    IN  CASE name = "registry" -> c.registry [] name = "reference" -> c.reference
          [] name = "matrix" -> c.matrix
          [] name = "config" -> [key |-> command.key, registry |-> c.registry,
                                 reference |-> c.reference, matrix |-> c.matrix]

\* A fault: written in place.
WriteInPlace ==
    /\ Stage("write")
    /\ files' = [files EXCEPT ![FileNames[command.at]] = Partial]
    /\ command' = [command EXCEPT !.stage = "rename"]
    /\ UNCHANGED <<seeds, entries, running, latest, rollouts, now, pins, proved>>

\* write_json: a temporary file, then a rename.
WriteTemporary ==
    /\ Stage("write")
    /\ files' = [files EXCEPT !.temporary = Partial]
    /\ command' = [command EXCEPT !.stage = "rename"]
    /\ UNCHANGED <<seeds, entries, running, latest, rollouts, now, pins, proved>>

RenameFile ==
    /\ Stage("rename")
    /\ files' = [files EXCEPT !.temporary = Nothing,
                              ![FileNames[command.at]] = Content(FileNames[command.at])]
    /\ command' = IF command.at = Len(FileNames) THEN Idle
                  ELSE [command EXCEPT !.stage = "write", !.at = @ + 1]
    /\ UNCHANGED <<seeds, entries, running, latest, rollouts, now, pins, proved>>

-----------------------------------------------------------------------------
(* The world *)

\* Any error or interruption of the process ends the command; what it has written stays.  A loss of
\* power, after which a renamed file may be empty as nothing is synced, is not modelled.
Fail ==
    /\ ~Stage("idle")
    /\ command' = Idle
    /\ UNCHANGED <<seeds, entries, running, latest, rollouts, now, pins, files, proved>>

Rollout(p) ==
    /\ rollouts < MaxRollouts
    /\ \E d \in Deployments[p] : d # running[p] /\ running' = [running EXCEPT ![p] = d]
    /\ rollouts' = rollouts + 1
    /\ UNCHANGED <<seeds, entries, latest, now, pins, command, files, proved>>

Release ==
    /\ rollouts < MaxRollouts
    /\ \E digest \in DOMAIN Measurements : digest # latest /\ latest' = digest
    /\ rollouts' = rollouts + 1
    /\ UNCHANGED <<seeds, entries, running, now, pins, command, files, proved>>

Tick ==
    /\ now < MaxTime
    /\ now' = now + 1
    /\ UNCHANGED <<seeds, entries, running, latest, rollouts, pins, command, files, proved>>

NoFiles == [name \in {"registry", "reference", "matrix", "config", "temporary"} |-> Nothing]

ToolsInit ==
    /\ seeds = [dir \in KeyDirs |-> Nothing] /\ entries = seeds
    /\ running = [p \in Pinnable |-> CHOOSE d \in Deployments[p] : TRUE]
    /\ latest \in DOMAIN Measurements
    /\ rollouts = 0 /\ now = 0 /\ pins = 0
    /\ command = Idle
    /\ files = NoFiles
    /\ proved = {}

ToolsNext ==
    \/ \E dir \in KeyDirs : KeygenSeed(dir)
    \/ KeygenEntry
    \/ \E dir \in KeyDirs, c \in Commands : StartPin(dir, c)
    \/ FetchRelease \/ Capture \/ Assemble \/ Smoke \/ WriteTemporary \/ RenameFile
    \/ Fail \/ Release \/ Tick
    \/ \E p \in Pinnable : Rollout(p)

ToolsSpec == ToolsInit /\ [][ToolsNext]_toolVars

-----------------------------------------------------------------------------
(* Properties *)

\* The reference values name the release they come from, and accept nothing but its measurement.
FromItsRelease(reference) ==
    reference.payload.provider \in ReleasePinned =>
        reference.payload.measurements \subseteq {Measurements[reference.payload.digest]}

\* Where captures of a model are compared, a route brings one measurement: a rollout between two of
\* its captures leaves no reference values that accept both sides of it.
OnePerRoute(reference) ==
    reference.payload.provider # "chutes" =>
        \E of \in [DOMAIN reference.payload.routes -> reference.payload.measurements] :
            reference.payload.measurements = {of[name] : name \in DOMAIN reference.payload.routes}

\* However the command is interrupted, operator-config.json is never torn: its parts are of one pin,
\* signed with the key it trusts, and its reference values end no later than any of its routes,
\* accept only the release they name, and one measurement for each route whose captures are compared.
ConfigIsOnePin ==
    LET c == files["config"]
    IN  c # Nothing =>
            /\ c # Partial
            /\ \A f \in {"registry", "reference", "matrix"} : VerifiesWith(c[f], {c.key})
            /\ c.registry.payload.version = c.reference.payload.version
            /\ c.registry.payload.provider = c.reference.payload.provider
            /\ DOMAIN c.registry.payload.routes = DOMAIN c.reference.payload.routes
            /\ \A name \in DOMAIN c.reference.payload.routes :
                   c.reference.payload.until <= c.reference.payload.routes[name].until
            /\ FromItsRelease(c.reference) /\ OnePerRoute(c.reference)

\* However interrupted commands have mixed the three artifact files, a client that loads them
\* accepts no measurement that was not verified for its provider.
OnlyProvedAccepted ==
    \A key \in KeyDirs :
        LET registry == files["registry"]
            reference == files["reference"]
            matrix == files["matrix"]
        IN  (/\ {registry, reference, matrix} \cap {Nothing, Partial} = {}
             /\ Loads(registry, reference, matrix, key))
            => \A name \in DOMAIN registry.payload.routes, d \in Deployments[registry.payload.provider] :
                   \A model \in DOMAIN d :
                       AcceptsEvidence(registry, reference, name, d[model]) =>
                           [provider |-> registry.payload.provider,
                            measurement |-> d[model].measurement] \in proved
=============================================================================
