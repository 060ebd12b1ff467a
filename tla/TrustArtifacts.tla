--------------------------- MODULE TrustArtifacts ---------------------------
(***************************************************************************)
(* How a client build chooses its provider registry and its reference      *)
(* values: bundled, supplied by the caller, or remote with a fallback and  *)
(* a cache file that outlives the process.  The two artifacts go through   *)
(* twin functions (select_remote_registry and                              *)
(* select_remote_reference_values); the module follows one of them.        *)
(*                                                                         *)
(* Several builds, in one process or in several, may share a cache path.   *)
(* A build may crash between any two of its steps and be started again.    *)
(* The file system is that of POSIX: names refer to inodes, opening with   *)
(* truncation empties the inode other writers may hold, rename is atomic   *)
(* and the inode moves with its writers.                                   *)
(***************************************************************************)
EXTENDS Naturals, FiniteSets

CONSTANTS
    Builders,     \* builds that run one after another under one configuration each
    Envelopes,    \* the envelopes anybody can produce
    Configs,      \* builder configurations
    Bundled,      \* the envelope compiled into the SDK
    Measurements, \* what reference values may accept
    Routes,       \* what an artifact may describe
    Issuers,
    Inodes,
    NoFile,       \* a name without a file
    Nothing,      \* no envelope: Option::None
    Broken,       \* file contents that do not parse
    \* Bounds of the model, not of the code.
    MaxBuilds,    \* builds per configuration
    MaxNow        \* ticks of the wall clock

\* Signing keys: the operator's, the fixture keys compiled into the SDK, and any other.
Signers == {"operator", "fixture", "stranger"}

\* versions are compared by compare_artifact_versions, a total preorder.
Payloads == [issuer : Issuers, version : Nat, minimum : Nat, epoch : Nat, from : Nat,
             measurements : SUBSET Measurements, routes : SUBSET Routes]

\* wellFormed: validate_for_activation (schema, timestamps, pinned images).
EnvelopeType == [payload : Payloads, signer : Signers, wellFormed : BOOLEAN]

\* ReferenceValuesPin.  No minimum is a minimum of zero, no identities is {}.
Pins == [payload : Payloads \cup {Nothing}, version : Nat \cup {Nothing}, minimum : Nat,
         epoch : Nat, signers : SUBSET Signers, maxAge : Nat \cup {Nothing}]

\* exclusive: exclusive_trusted_artifact_signing_keys; supplied: the envelope of a
\* custom source, or the fallback of a remote one.
ConfigType == [source : {"bundled", "remote", "custom"}, supplied : Envelopes,
               cachePath : BOOLEAN, demo : BOOLEAN, operator : SUBSET Signers,
               exclusive : SUBSET Signers \cup {Nothing}, pin : Pins \cup {Nothing}]

ASSUME ArtifactAssumption ==
    /\ Envelopes \subseteq EnvelopeType
    /\ Configs \subseteq ConfigType
    /\ Bundled \in Envelopes
    /\ Bundled.signer = "fixture" /\ Bundled.wellFormed
    /\ Nothing \notin Envelopes /\ Broken \notin Envelopes /\ NoFile \notin Inodes
    /\ IsFiniteSet(Builders)
    /\ MaxBuilds \in Nat
    /\ MaxNow \in Nat

VARIABLES
    pc,         \* where each build is
    config,     \* its configuration
    builds,     \* how often it has been started
    startedAt,  \* build_now_epoch_millis
    cached,     \* the accepted cache envelope, or Nothing
    candidate,  \* the envelope about to be activated
    open,       \* the inode a build is writing to
    active,     \* what the last successful build under this configuration activated
    tmp,        \* inode of the ".tmp" name
    cacheFile,  \* inode of the cache path
    content,    \* what each inode holds
    now         \* the wall clock

fileVars == <<tmp, cacheFile, content>>
vars == <<pc, config, builds, startedAt, cached, candidate, open, active, fileVars, now>>

Steps == {"idle", "start", "read", "fetch", "open", "write", "rename", "activate"}

TypeOK ==
    /\ pc \in [Builders -> Steps]
    /\ config \in [Builders -> Configs]
    /\ builds \in [Builders -> 0..MaxBuilds]
    /\ startedAt \in [Builders -> Nat]
    /\ cached \in [Builders -> Envelopes \cup {Nothing}]
    /\ candidate \in [Builders -> Envelopes \cup {Nothing}]
    /\ open \in [Builders -> Inodes \cup {NoFile}]
    /\ active \in [Builders -> Envelopes \cup {Nothing}]
    /\ tmp \in Inodes \cup {NoFile}
    /\ cacheFile \in Inodes \cup {NoFile}
    /\ content \in [Inodes -> Envelopes \cup {Broken}]
    /\ now \in Nat

Init ==
    /\ pc = [b \in Builders |-> "idle"]
    /\ config \in [Builders -> Configs]
    /\ builds = [b \in Builders |-> 0]
    /\ startedAt = [b \in Builders |-> 0]
    /\ cached = [b \in Builders |-> Nothing]
    /\ candidate = [b \in Builders |-> Nothing]
    /\ open = [b \in Builders |-> NoFile]
    /\ active = [b \in Builders |-> Nothing]
    /\ tmp = NoFile
    /\ cacheFile = NoFile
    /\ content = [i \in Inodes |-> Broken]
    /\ now = 0

-----------------------------------------------------------------------------
(* Trust in one envelope *)

OperatorKeys(c) == IF c.exclusive # Nothing THEN c.exclusive ELSE c.operator

BundledKeys(c) ==
    IF c.exclusive # Nothing THEN c.exclusive
    ELSE IF c.demo THEN c.operator \cup {"fixture"} ELSE c.operator

BundledTrustAvailable(c) == IF c.exclusive # Nothing THEN c.exclusive # {} ELSE c.demo

\* The checks build() makes before it looks at any artifact.
SourceHasTrust(c) ==
    IF c.source = "bundled" THEN BundledTrustAvailable(c) ELSE OperatorKeys(c) # {}

\* verify_signature_with_keys
VerifySignature(envelope, keys) == envelope.wellFormed /\ envelope.signer \in keys

\* ReferenceValuesPayload::verify_update_to.  Routes keep everything the code
\* calls fail_if_changed; what may shrink is in measurements, what may grow in routes.
VerifyUpdateTo(current, update) ==
    /\ update.issuer = current.issuer
    /\ update.version >= current.version
    /\ update.version >= current.minimum
    /\ update.minimum >= current.minimum
    /\ update.epoch >= current.epoch
    /\ update.measurements \subseteq current.measurements
    /\ current.routes \subseteq update.routes

\* ReferenceValuesPin::verify_envelope_with_digest_at
PinAdmits(pin, envelope, at) ==
    pin # Nothing =>
        /\ pin.signers # {} => envelope.signer \in pin.signers
        /\ pin.payload # Nothing => envelope.payload = pin.payload
        /\ pin.version # Nothing => envelope.payload.version = pin.version
        /\ envelope.payload.version >= pin.minimum
        /\ envelope.payload.epoch >= pin.epoch
        /\ pin.maxAge # Nothing =>
              /\ envelope.payload.from <= at
              /\ at - envelope.payload.from <= pin.maxAge

\* Fault: cached and fetched envelopes are verified like the fallback.
AcceptedWithBundledKeys(b, envelope, baseline) ==
    /\ VerifySignature(envelope, BundledKeys(config[b]))
    /\ VerifyUpdateTo(baseline, envelope.payload)
    /\ PinAdmits(config[b].pin, envelope, startedAt[b])

\* accepted_reference_values_update
AcceptedUpdate(b, envelope, baseline) ==
    /\ VerifySignature(envelope, OperatorKeys(config[b]))
    /\ VerifyUpdateTo(baseline, envelope.payload)
    /\ PinAdmits(config[b].pin, envelope, startedAt[b])

\* Fault: a fetched envelope is compared with the fallback only.
BaselineIsFallback(b) == config[b].supplied.payload

\* What a fetched envelope must not weaken.
Baseline(b) == IF cached[b] # Nothing THEN cached[b].payload ELSE config[b].supplied.payload

\* Fault: any fixture-signed fallback will do in demo mode.
AnyFallbackTrusted(c) == VerifySignature(c.supplied, BundledKeys(c))

\* A fallback that only the fixture keys vouch for must be the bundled artifact itself.
FallbackTrusted(c) ==
    /\ VerifySignature(c.supplied, BundledKeys(c))
    /\ VerifySignature(c.supplied, OperatorKeys(c)) \/ c.supplied.payload = Bundled.payload

-----------------------------------------------------------------------------
(* One build *)

Goto(b, step) == pc' = [pc EXCEPT ![b] = step]

\* build() returns; without Activate's assignment, with an error.
Return(b) ==
    /\ Goto(b, "idle")
    /\ cached' = [cached EXCEPT ![b] = Nothing]
    /\ candidate' = [candidate EXCEPT ![b] = Nothing]
    /\ open' = [open EXCEPT ![b] = NoFile]

Choose(b, envelope) ==
    /\ candidate' = [candidate EXCEPT ![b] = envelope]
    /\ Goto(b, "activate")

Build(b) ==
    /\ pc[b] = "idle"
    /\ builds[b] < MaxBuilds
    /\ SourceHasTrust(config[b])
    /\ builds' = [builds EXCEPT ![b] = @ + 1]
    /\ startedAt' = [startedAt EXCEPT ![b] = now]
    /\ Goto(b, "start")
    /\ UNCHANGED <<config, cached, candidate, open, active, fileVars, now>>

\* into_envelope_and_source, the sources that are a single envelope.
UseSingleSource(b) ==
    LET c == config[b]
        envelope == IF c.source = "bundled" THEN Bundled ELSE c.supplied
        keys == IF c.source = "bundled" THEN BundledKeys(c) ELSE OperatorKeys(c)
    IN  /\ pc[b] = "start"
        /\ c.source # "remote"
        /\ IF VerifySignature(envelope, keys)
           THEN Choose(b, envelope) /\ UNCHANGED <<cached, open>>
           ELSE Return(b)
        /\ UNCHANGED <<config, builds, startedAt, active, fileVars, now>>

CheckFallback(b) ==
    /\ pc[b] = "start"
    /\ config[b].source = "remote"
    /\ IF FallbackTrusted(config[b])
       THEN Goto(b, IF config[b].cachePath THEN "read" ELSE "fetch")
            /\ UNCHANGED <<cached, candidate, open>>
       ELSE Return(b)
    /\ UNCHANGED <<config, builds, startedAt, active, fileVars, now>>

\* Fault: a cache file that exists is used as it is.
AnyCacheUsable(b) == cacheFile # NoFile

\* Fault: a cache file is not compared with the fallback.
CacheSignedOnly(b) ==
    /\ cacheFile # NoFile
    /\ content[cacheFile] # Broken
    /\ VerifySignature(content[cacheFile], OperatorKeys(config[b]))

\* read_reference_values_cache, judged against the fallback.
CacheUsable(b) ==
    /\ cacheFile # NoFile
    /\ content[cacheFile] # Broken
    /\ AcceptedUpdate(b, content[cacheFile], config[b].supplied.payload)

\* A cache that is missing, unreadable, unparsable or not acceptable is ignored.
ReadCache(b) ==
    /\ pc[b] = "read"
    /\ cached' = [cached EXCEPT ![b] = IF CacheUsable(b) THEN content[cacheFile] ELSE Nothing]
    /\ Goto(b, "fetch")
    /\ UNCHANGED <<config, builds, startedAt, candidate, open, active, fileVars, now>>

\* The remote answers with something acceptable.
FetchAccepted(b) ==
    /\ pc[b] = "fetch"
    /\ \E envelope \in Envelopes :
          /\ AcceptedUpdate(b, envelope, Baseline(b))
          /\ candidate' = [candidate EXCEPT ![b] = envelope]
    /\ Goto(b, IF config[b].cachePath THEN "open" ELSE "activate")
    /\ UNCHANGED <<config, builds, startedAt, cached, open, active, fileVars, now>>

\* It does not answer, or with something that is refused: the cache, else the fallback.
FetchRefused(b) ==
    /\ pc[b] = "fetch"
    /\ Choose(b, IF cached[b] # Nothing THEN cached[b] ELSE config[b].supplied)
    /\ UNCHANGED <<config, builds, startedAt, cached, open, active, fileVars, now>>

\* build() judges whatever was chosen by the pin once more.
Activate(b) ==
    /\ pc[b] = "activate"
    /\ IF PinAdmits(config[b].pin, candidate[b], startedAt[b])
       THEN active' = [active EXCEPT ![b] = candidate[b]]
       ELSE UNCHANGED active
    /\ Return(b)
    /\ UNCHANGED <<config, builds, startedAt, fileVars, now>>

-----------------------------------------------------------------------------
(* write_reference_values_cache *)

Free(i) == i \notin {tmp, cacheFile} \cup {open[b] : b \in Builders}

\* Fault: the cache file is written in place.
OpenInPlace(b) ==
    \E i \in Inodes :
        /\ i = cacheFile \/ (cacheFile = NoFile /\ Free(i))
        /\ cacheFile' = i
        /\ open' = [open EXCEPT ![b] = i]
        /\ content' = [content EXCEPT ![i] = Broken]
        /\ UNCHANGED tmp

\* std::fs::write opens with create and truncate; every build uses the same name.
OpenTmp(b) ==
    \E i \in Inodes :
        /\ i = tmp \/ (tmp = NoFile /\ Free(i))
        /\ tmp' = i
        /\ open' = [open EXCEPT ![b] = i]
        /\ content' = [content EXCEPT ![i] = Broken]
        /\ UNCHANGED cacheFile

CreateTmp(b) ==
    /\ pc[b] = "open"
    /\ OpenTmp(b)
    /\ Goto(b, "write")
    /\ UNCHANGED <<config, builds, startedAt, cached, candidate, active, now>>

\* The bytes land in the inode that was opened, under whatever name it has by
\* now.  Where another build has written since, the longer document's tail stays.
WriteTmp(b) ==
    /\ pc[b] = "write"
    /\ \E written \in {candidate[b]} \cup (IF content[open[b]] # Broken THEN {Broken} ELSE {}) :
          content' = [content EXCEPT ![open[b]] = written]
    /\ open' = [open EXCEPT ![b] = NoFile]
    /\ Goto(b, "rename")
    /\ UNCHANGED <<config, builds, startedAt, cached, candidate, active, tmp, cacheFile, now>>

\* No space, no permission: build() fails and leaves what it wrote.
WriteFails(b) ==
    /\ pc[b] \in {"open", "write"}
    /\ \/ UNCHANGED content
       \/ open[b] # NoFile /\ content' = [content EXCEPT ![open[b]] = Broken]
    /\ Return(b)
    /\ UNCHANGED <<config, builds, startedAt, active, tmp, cacheFile, now>>

RenameTmp(b) ==
    /\ pc[b] = "rename"
    /\ tmp # NoFile
    /\ cacheFile' = tmp
    /\ tmp' = NoFile
    /\ Goto(b, "activate")
    /\ UNCHANGED <<config, builds, startedAt, cached, candidate, open, active, content, now>>

\* Another build has renamed the shared name away, or the system refuses; the
\* name is removed, if that succeeds, whoever it belongs to.
RenameFails(b) ==
    /\ pc[b] = "rename"
    /\ tmp' \in {NoFile, tmp}
    /\ Return(b)
    /\ UNCHANGED <<config, builds, startedAt, active, cacheFile, content, now>>

-----------------------------------------------------------------------------
(* The environment *)

\* The process dies, possibly in the middle of a write.
Crash(b) ==
    /\ pc[b] # "idle"
    /\ \/ UNCHANGED content
       \/ pc[b] = "write" /\ content' = [content EXCEPT ![open[b]] = Broken]
    /\ Return(b)
    /\ UNCHANGED <<config, builds, startedAt, active, tmp, cacheFile, now>>

Tick ==
    /\ now < MaxNow
    /\ now' = now + 1
    /\ UNCHANGED <<pc, config, builds, startedAt, cached, candidate, open, active, fileVars>>

-----------------------------------------------------------------------------
BuildStep(b) ==
    \/ Build(b) \/ UseSingleSource(b) \/ CheckFallback(b)
    \/ ReadCache(b) \/ FetchAccepted(b) \/ FetchRefused(b) \/ Activate(b)
    \/ CreateTmp(b) \/ WriteTmp(b) \/ WriteFails(b) \/ RenameTmp(b) \/ RenameFails(b)

Next ==
    \/ \E b \in Builders : BuildStep(b) \/ Crash(b)
    \/ Tick

Spec == Init /\ [][Next]_vars

-----------------------------------------------------------------------------
(* Properties *)

\* "The fixture keys are only ever applied to bundled artifacts ... an exclusive
\* set wins for every artifact" (with_demo_provider): whatever source, fallback,
\* cache file or remote, an active artifact is vouched for by the operator's keys,
\* or it is the bundled one, in demo mode, without an exclusive key set.
FixtureTrustConfined ==
    \A b \in Builders : active[b] # Nothing =>
        \/ VerifySignature(active[b], OperatorKeys(config[b]))
        \/ /\ active[b].payload = Bundled.payload
           /\ config[b].demo
           /\ config[b].exclusive = Nothing

\* A remote source never activates anything weaker than its fallback, although a
\* fetched artifact is compared with the cached one only, and whatever other
\* builds or crashes leave in the cache file.
NeverWeakerThanFallback ==
    \A b \in Builders : active[b] # Nothing /\ config[b].source = "remote" =>
        \/ active[b] = config[b].supplied
        \/ VerifyUpdateTo(config[b].supplied.payload, active[b].payload)

\* The cache path has been used by one deployment only.
Unshared == Cardinality({b \in Builders : builds[b] > 0}) <= 1

\* The pin sets no maximum age: what it admits once it admits at any later time.
Ageless(c) == c.pin = Nothing \/ c.pin.maxAge = Nothing

\* With a cache path of its own, a deployment that is built again and again,
\* through crashes and failed writes at any point, never activates an artifact
\* that weakens the last active one.  Where the pin sets a maximum age the cached
\* artifact is forgotten once it is too old, and the fallback is the floor again.
NoRollback ==
    [][\A b \in Builders :
          /\ Unshared
          /\ active'[b] # active[b] /\ active[b] # Nothing
          /\ config[b].source = "remote" /\ config[b].cachePath
          /\ Ageless(config[b])
          => VerifyUpdateTo(active[b].payload, active'[b].payload)]_vars

\* The cache file of a single deployment always parses: a crash or a failed write
\* only ever leaves a broken ".tmp" file behind.
CacheFileWhole == Unshared /\ cacheFile # NoFile => content[cacheFile] # Broken
=============================================================================
