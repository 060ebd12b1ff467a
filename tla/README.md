# A TLA+ model of the Confidential Inference SDK

The SDK sends chat, streaming and embedding requests to confidential-inference
providers, and only after it has verified a provider's attestation evidence against
signed reference values and a policy. These modules model the parts of it that decide
*whether* a request may leave, *under which evidence*, *how often*, *in which form*, and
*what the caller is told*: from the language bindings and the local proxy, through the
client's verdict cache, dispatch loops and route selection, to the adapters, the
verifier, the formats of evidence, and the tools that pin what is trusted.

## 1. The system

| Component | State | Operations | Hard part |
|---|---|---|---|
| Route verification (`sdk/src/lib.rs`) | verdict cache, in-flight map, per-flight waiter counter and `Notify`, two clocks | lookup, join or own a flight, fetch and verify, store, release, refresh | concurrent callers, two mutexes, drop guards run by cancellation, wait timeout, clock jumps |
| Request dispatch (`sdk/src/lib.rs`, `providers/src/provider.rs`) | candidate list, left-out providers, attempts, refresh counter | verify, dispatch, refresh, fall back, give up | a retry must never replay work; the error must tell the truth |
| Local proxy (`proxy/src/lib.rs`) | accept loop, one task per connection, bytes read so far | start, accept, read, gate, forward, answer, stop | pieces of any size, limits, timeouts, order of the gates |
| C ABI (`ffi/src/lib.rs`) | registries of live handles, `live_operations`, `JoinHandle` slot, event queue | new, free, stream start/next/cancel/free, the stream task | host threads race; addresses are reused; a task may panic or be aborted |
| Bindings (`bindings/go`, `node`, `python`) | handle, in-flight counter and lock of each object | call, start, next, cancel, iterate, close | close racing calls; a stale address names another object |
| Trust artifacts (`sdk`, `reference_values.rs`, `registry.rs`) | bundled, cached and remote artifacts, cache file | fetch, verify signature, check that an update weakens nothing, write then rename | rollback, crash or second process between write and rename |
| Registry, selection (`registry.rs`, `compatibility.rs`, `sdk`) | the registry in force, the built client | update, diff, build, list, select, encode | chains of updates; two functions that must agree |
| Adapters (`http.rs`, `near.rs`, `ppq.rs`, `chutes_live.rs`, `redpill.rs`, `provider.rs`) | bounded store of per-evidence state, pinned clients, one-use nonces, sessions | fetch evidence, send, check receipts | eviction racing a send; identity moving between check and use; lost answers |
| Collateral and key caches (`dcap_tdx.rs`, `sev_snp.rs`, `sdk`) | bundles in memory, store and file, fetch slots; VCEK and JWKS with expiry | look up, queue, fetch, store | stale or failed entries, concurrent refills, shared temporary file |
| Streams, envelopes, redaction (`http.rs`, `sdk`, `provider.rs`, `ehbp.rs`) | buffers; keys | parse, seal, open, redact | arbitrary cuts of the bytes; mixed-up messages; hand-written scanners |
| Verifier, policy, verdict rules (`attestation/src`) | one request: policy, route, reference values, evidence, verdict | evidence to verdict, consistency, policy | many conditions that must agree |
| Evidence formats (`chutes.rs`, `dstack.rs`, `contrast.rs`, `sev_snp.rs`, `tdx.rs`, `gpu.rs`, `sigstore*.rs`) | documents, reports, quotes, tokens, log proofs | normalise, check, bind to a session | alternative layouts, rolled-back firmware, replayed or outdated pieces |
| Trust CLI (`trust-cli/src`) | key directory, captured pins, four output files | keygen, pin | a rollout between captures, an interruption between files |

How they interact. The bindings call the C ABI; the C ABI and the proxy hold an SDK
client. A send path of the client selects routes, obtains a `VerifiedRoute` for one (from
the verdict cache, from another caller's flight, or by fetching evidence through the
provider's adapter and running the verifier), and hands the request to the adapter. The
adapter keeps per-evidence state and reports a *key rotation* when it can no longer reach
the key its evidence attested; the send path then refreshes the verification and tries
again. A failure that proves that the provider did no work lets the send path move to the
next candidate. The trust CLI writes the registry and reference values that the client
builder and the verifier later start from.

What must be true, component by component:

* *Route verification.* One verification per key at a time; waiters are counted, bounded
  and always woken; a request that must have fresh evidence is sent with evidence fetched
  for itself; a cached verdict respects its age, its expiry and clock jumps; every caller
  returns.
* *Dispatch and proxy.* No request is worked on twice; the reported outcome never claims
  less than happened, also after the proxy has turned it into an HTTP answer; only
  admissible, whole requests are forwarded; every request, read and shutdown ends.
* *C ABI and bindings.* No freed handle is dereferenced or freed twice; a client is not
  freed under its streams or its calls; every stream becomes terminal; what a host sees of
  a stream is the abstract `EventStream`; iterators leave no stream behind.
* *Trust artifacts, registry, CLI.* The active artifact is signed, in date and no weaker
  than the bundled one and than what was accepted before; no crash or race makes a torn
  file or a mixed configuration active; nothing unproved is ever pinned.
* *Adapters and caches.* A request is executed by the peer its verdict is about, once; a
  nonce is sent once; nothing cached is used past its time; every fetch slot comes back.
* *Formats and verdicts.* A verdict that allows a request has every claim the policy
  demands; a claim names the session it is used for; what was patched stays patched;
  chunking, field names and document layout do not change the result.

## 2. Modules and the code

`VerdictCache` holds the decisions of the cache as operators: `CacheAgeLimit`
(`cache_age_limit_millis_for`), `AllowedByStalePolicy`, `WallClockJumpDetected`, `IsValid`.
Arithmetic that saturates at u64 in the code saturates at the constant `U64Max`.

`RouteVerification` has the state. A *caller* is one task in one call of a send path; a
*step* is what the code does between two points where another task can run, that is a lock
acquisition or an await. `verdict_cache` and `in_flight_verifications` are under different
mutexes, so looking at one and changing the other are two steps (`Recheck`, then
`BecomeOwner`, `JoinFlight` or `QueueFull`). The drop guards are operators
(`DropOwnerGuard`, `DropWaiterGuard`) used by every action that drops them, including the
cancellation of the caller's future at an await. A flight is the identity of a
`VerificationFlightState` allocation; a waiter's guard keeps the flight it joined, which
may no longer be the one in the map. What a verdict says is abstracted to whose fetch it
rests on, for which request, which provider key it attests and when it expires.

`RouteDispatch` is one request in one of the three send paths. Verification is its result;
the adapter is its answer. The ghost `worked` counts what really happened at the providers,
which the code cannot see. What an answer may mean is the contract between SDK and adapters
(`AdapterFails`): `Unavailable` and key rotation are raised before bytes leave, or by
RedPill's gateway refusing a superseded session with 412; 429 and 503 mean not processed;
everything else is open.

`FfiStreams` has host threads inside the C ABI. A step is one critical section (registry,
join slot, stream state) or one atomic operation. Boxes live at addresses from a small set
so that a freed address is soon allocated again; identities of the `Arc`s are numbers that
are never reused, which is what `Arc::ptr_eq` compares. The task's pushes, its abort at an
await, its panic and tokio's `is_finished` are separate actions.

`TrustArtifacts` is a client build that chooses an artifact: bundled, supplied, or remote
with a fallback and a cache file. Registry and reference values go through twin functions;
the module follows one. The cache file outlives the build, so its state is the file system:
two names, the inodes behind them and what each holds. Builds share the cache path and the
one `.tmp` name; opening truncates an inode that another build may be writing, rename is
atomic and takes the writers along. A build may crash between any two steps, and in the
middle of a write. An artifact is its issuer, version, minimum version, epoch and start of
validity, and the sets that an update may only narrow (`measurements`) or widen (`routes`).

`Verifier` is one request from the policy to the send: `SelectRoute`
(`route_satisfies_policy`), `CollectEvidence`, `Verify` (`verify_evidence`) and `Send`
(`enforce_verdict`). The provider chooses the evidence freely. The verifier is pure, so it is
operators: `Accepted` is what a family refuses with an error, `FactsOf` what each of the eight
evidence families establishes (`FixtureFacts`, `DstackFacts`, `ChutesFacts`, `TinfoilFacts`,
and `LiveFacts` for the four live families, which share `verify_provider_live_evidence`),
`Checks` the named check results, `EnforcementWouldBlock` and `Judge` the verdict, and
`Consistent` the second look of `validate_summary_consistency`, whose refusal is an error.
The source repeats the common checks in every family; the model has each once and a field of
the facts where families differ. A quote, certificate or GPU report is reduced to whether its
signature verifies and what it binds; keys and digests to equality with the pinned ones.
`NotWeakenedBy` is the route part of the update rule of reference values.

`RoutesAssumption` is a duty of the registry's authors that the verifier does not check: the
fixture, dstack and Tinfoil verifiers report the GPU check as not applicable, which never
blocks, so that their routes must list no GPU for route selection to refuse them; likewise a
route of class per-request must belong to a family that has a nonce, and a route's channel
kind must be that of its family. The pinning tools write routes of this form.

`EventStream` is the abstract specification of a stream: verdict, chunks, usage, done, cut
short at any point by one error or one cancellation, every event delivered once, `closed`
last. `FfiStreams` states the refinement mapping (`Promise`), and `ImplementsEventStream`
is the abstract specification as a property of the detailed one. It is
as loose as the code: a cancellation may still follow `done`.

`Bindings` puts the Go, Node and Python objects on top of the C ABI, each of whose calls is
one step here. The three bindings differ in how an operation is protected (`GoProtects`,
`NodeProtects`, `PythonProtects`): *counted* in the in-flight counter that `close` looks at,
*held* on the one JavaScript thread, or *bare*, when the handle is read first and used
later. Addresses come from a small set, so that a bare call may find another object there.

`Proxy` is start-up validation, accept loop with its pause after an error, shutdown, and per
connection the reading of header and body, the gates of `handle` in their order, the call and
the answer. Bytes are counted; a parsed request is the record of the facts the gates look at.
Alone it leaves the client open: a call ends in any outcome that keeps the contract of
`ClientError::dispatch_outcome`. `Serving` composes it with `RouteDispatch`, and
`ServedImplementsProxy` shows that the composition takes steps of `Proxy` only.

`Adapters` has the evidence store with its eviction, the cache of pinned clients and the five
live adapters between fetch and answer, with the SDK's verification and refresh around them.
The provider is external: it changes identity, session or keys at any time, and loses answers.
`Collateral` is the TDX collateral resolver (memory, store, file, slots, queue timeout,
retries, a file system of inodes); `KeyCaches` the VCEK and JWKS caches; `CachedKeys` states
what the caches of the adapters and of the keys have in common.

`Registry` and `Selection` model the signed registry, its update rule, diff and lookups, the
client builder's checks and the choice of routes, with `Lists` for what the code filters.
Versions are sequences of character codes,
because updates rest on their order. `Streams` cuts a body into parts of any size and runs
the adapter's `take_sse_frame` and the SDK's parser over it. `Envelopes` seals and opens
bodies in the three encryptions over a network that mixes them up, with symbolic keys.
`Redaction` runs the redaction scanner over texts of atoms: the turns of the loop that takes out
JSON values, then the reader that splits what is left into tokens, redacts and joins them; keys,
labels and the beginnings of other values stand around the secret as well. `WorkloadImages` and
`EvidenceForms` read compose files, Contrast manifests and attestation documents in their
alternative layouts.

`Provenance` is the offline check of a Sigstore bundle against a growing Merkle log;
`TrustTools` the trust CLI over a provider that rolls out releases, with the process interrupted
between any two steps; `SnpReports`, `TdxQuotes` and `GpuTokens` the checks of hardware
evidence against machines, services and attestation keys that change under the client, and
`HardwareEvidence` the three together. The Merkle tree is kept level by level, and the places
where an NRAS answer may hold its token one inside the other, at most four deep.

The modules of one run that share no state are explored side by side: a variable `part`,
chosen at the start, says which of them moves, so that the run has the sum and not the product
of their states. `MCRouteVerification`, `MCFreshness`, `MCFfiStreams`, `MCServing`,
`MCAdapters`, `MCRules`, `MCEvidence`, `MCTrustArtifacts` and `MCVerifier` hold the instances.
`RouteVerificationProofs`, `ServingProofs` (dispatch, proxy and their composition),
`FfiStreamsProofs` (C ABI and bindings), `AdaptersProofs` (adapters, collateral and key caches),
`SelectionProofs` (registry, builder, route selection and event streams), `TrustArtifactsProofs` (artifacts and
provenance), `VerifierProofs` and `EvidenceProofs` (reports, quotes, GPU tokens, envelopes, the
trust CLI, workload images and redaction) hold the theorems. Operators marked *Fault* are the plausible bugs that show that a property
can fail; nothing in a specification uses them.

## 3. Runs

| Run | Instance | Checks |
|---|---|---|
| `single_flight` | three callers, one cacheable route, one waiter slot, fair scheduling | `SingleFlight`, `WaiterSlots`, `CallersReturn` |
| `freshness` | two callers with two requests each, a cacheable and a per-request route, key rotations and refreshes; or one caller, four ticks, the wall clock set anywhere in 0..6 | `FreshEvidence`, `HitRespectsClocks` |
| `serving` | up to three candidates over two providers, both refresh limits, every path and answer; the proxy with two connections, every configuration and a request for every branch of `handle`; the proxy in front of the client | `NeverReplayed`, `OutcomeIsHonest`, `WholeBoundedRequests`, `WorkNeverLooksRefused`, `ForwardsOnlyAdmitted`, `ServedImplementsProxy`, `NothingHangs` |
| `ffi` | three threads on one stream and two clients at one address, or two threads on two streams at one address; three hosts on two clients and two streams of each binding | `HandlesSound`, `NoOrphanStream`, `BindingsSound`, `ImplementsEventStream` |
| `artifacts` | one deployment built up to four times under every source, fallback, demo flag and key set and under five pins, or two deployments with different fallbacks and keys on one cache path; a remote that serves anything | `CacheFileWhole`, `FixtureTrustConfined`, `NeverWeakerThanFallback`, `NoRollback` |
| `verifier` | 26 policies (all presets, and presets with one more or one less requirement), ten routes over the eight families, nine reference values per family and none, evidence that differs from an honest provider's in up to two fields | `VerdictProven`, `LifeBounded`, `VerdictsMonotone` |
| `adapters` | each of the five adapters with two requests, one rotation of the provider, a store of one entry, one-use nonces, expiring tokens; three resolves over one or two slots, with and without queue timeout and offline bundles, a crash; two overlapping lookups | `VerifiedPeerOnly`, `NothingTwice`, `CollateralSound`, `CachedKeysCurrent`, `WorkEnds` |
| `rules` | chains of registries, clients built from them, bodies cut everywhere, envelopes of two exchanges, error texts with a secret written in seven ways and up to three pieces (single atoms, a sensitive key, a key and the beginning of its value) before, in or after it, compose files and Contrast texts, attestation documents with several instances | `UpdatesAreSafe`, `SelectionSound`, `ChunkingIrrelevant`, `OpensOnlyItsOwn`, `SecretsNeverShown`, `OnlyPinnedImages`, `FormsAgree` |
| `evidence` | logs of up to five entries with bundles whose parts are exchanged, pins with rollouts and interruptions, two guests over four firmware levels, two quotes under changing collateral, tokens of two nonces | `ReleasesAsLogged`, `ConfigIsOnePin`, `OnlyProvedAccepted`, `PatchedStaysPatched`, `EvidenceNamesSession` |

Some properties are named conjunctions, each part of which is defined and explained in its
module: `HandlesSound` (`NoDanglingHandle`, `OnlyTerminalFreed`, `BusyNotMissed`),
`BindingsSound` (`ObjectsOwnHandles`, `OnlyBareCallsMiss`, `CountedStayOpen`,
`IteratedStreamsFreed`), `NothingHangs` (`RequestEnds`, `CallEnds`, `ReadingEnds`,
`ShutdownEnds`), `VerdictProven` (`HardwareProven`, `ChannelProven`, `FreshnessProven`),
`VerdictsMonotone` (`WeakerPolicyAllows`, `UpdatesNarrow`), `VerifiedPeerOnly`, `NothingTwice`,
`CollateralSound`, `CachedKeysCurrent`, `UpdatesAreSafe`, `SelectionSound`,
`ReleasesAsLogged`, `PatchedStaysPatched` and `EvidenceNamesSession`. The type invariants of
`RouteVerification` and `TrustArtifacts` are proved (section 4) and not run.

*Why the bounds are enough to be interesting.* Three callers are an owner, a waiter and one
that finds the queue full or owns the next flight while the first waiter still holds the
old one; three flight identities let all of them be alive at once. Two requests per caller
let a later request meet what an earlier one left. In `freshness` the age limit (3), the TTL
(4), the stale allowance (1) and the jump threshold (1) are all smaller than the range of
both clocks, so that each boundary is crossed; an action constraint keeps the two halves of
that run apart, since two callers over every clock reading would be out of reach. In
`evidence` the operator's keys are made before the first pin and the second pin is of one
model, and once a flaw is known only the piece that tells of it is issued anew. Three candidates over two providers give a
left-out provider with a further route. The proxy reads pieces of two bytes against limits of
two, so that headers end within, at and beyond the limit and carry some of the body, all of it
or more. One address for two streams forces the reuse that `stream_free` and the bindings
must survive; a third thread lets a poll, a cancel and a free meet. The releases of
`MCTrustArtifacts` contain a pair that neither weakens the other, a wider one, and one each
that is refused for issuer, routes, signature or form; four builds are one to fill the cache,
one that crashes and two to look at what is left; three inodes are a cache file, a `.tmp` and
one renamed away under its writer. In `verifier` the TTL counted from now, the TTL counted
from the provider's time, the evidence, the route and the reference values are each the
shortest lifetime in some instance; one deviating field of the evidence shows what a check
catches, two what one check hides from another. A store of one entry makes every second
capture evict the first; one rotation suffices to move the provider between check and use, and
requests refresh as often as the code lets them. Five log entries give Merkle paths of
up to three levels, with borders and without; that the levels make the tree of RFC 6962 is
compared with the RFC's own recursive definitions for trees of up to nine leaves
(`TreeAsInRfc6962`). In `adapters` RedPill's sessions end with the last tick of the clock, by
which at most one of the two requests is still under way (`LastTickAlone`); before it they
interleave freely. The TDX sessions contain two whose nonce and key
differ and whose concatenation is the same.

What the verifier's properties say is about enforcement: `Observe` and `Disabled` send
whatever the evidence is. The offline fixture family carries no quote and is excepted where
a property is about quotes. `WeakerPolicyAllows` and `UpdatesNarrow` compare two runs of the
verifier; the second asks that the older values pin a TLS key and images, because an update
may pin them where the older values did not and so make evidence pass that nothing could
match before.

What the artifact properties do not say: `NoRollback` and `CacheFileWhole` are about one
deployment that builds one at a time. Overlapping builds share the fixed `.tmp` name, so
that one of them may fail on its rename and the cache file may be torn; later builds ignore
a torn file, and trust does not depend on it. `NoRollback` is about pins without a maximum age.
Under a maximum age the cached artifact is one day refused as too old, and then the floor is the
fallback again: a remote may have an artifact activated that is weaker than the one before it.
It is not enough that the pin admits the *active* artifact, as an earlier form of the property
had it: a build that crashes between the rename of the cache file and its activation leaves an
artifact in the cache that was never active, and it is the age of that one that counts. The
attempt to prove the earlier form showed this. `ChunkingIrrelevant` is about bodies whose
events all end alike, see below.

Runs say `CHECK_DEADLOCK FALSE` because the number of requests, clients, streams and builds is
bounded: when all are answered and nothing is running the model stops, as the program
does. That nobody waits for ever before that is `CallersReturn`, `NothingHangs`, `WorkEnds`
and `NoOrphanStream`.

*Fairness.* `RouteVerification!FairSpec` has weak fairness for each caller's own steps: a
task that can run is polled, and an evidence fetch ends because every HTTP client has a
total timeout. There is none for new requests, cancellation, key rotation, the clocks or
the wait timeout, so `CallersReturn` does not rest on the timeout. `MCServing` has weak
fairness for the task that runs the dispatch loop, for the accept loop's look at the shutdown
signal, for each connection's read timeout (a timer of the runtime), and for the polling of a
client call; none for peers, so a peer that stops sending is one of the behaviours.
`MCAdapters` has it for the one action `SomethingMoves`, some request, resolve or lookup goes
on: a caller polls, and HTTP ends by its timeout; there is none for rotations, restarts or time, and `WorkEnds` also
holds where the resolver has no queue timeout. `FfiStreams` and `Bindings` have no
liveness property: a stream ends only if its host keeps polling, cancelling or freeing.

### Disagreements found

* `clock_jump`: `wall_clock_jump_detected` compares elapsed times by absolute difference. A
  wall clock set back by about twice the entry's age looks like normal progress, and the
  entry is served, even past its expiry. The test of the backward jump has an entry of age
  zero. What does hold is `HitRespectsClocks`.
* `expired_reference`: verdicts computed after the reference values' `valid_until` carry an
  expiry in the past, and the send paths of the client do not look at it.
* `tier_capped`: the documentation says that on claims-only evidence the tier stays below
  hw-verified-tls. Structured Tinfoil evidence whose TLS binding matches is reported with the
  route's own tier, hw-verified-tls, and status verified, when the policy requires no CPU TEE.
  What does hold is `HardwareProven`.

Also seen while modelling, without a run of their own:

* *Dispatch and C ABI.* Several failed attempts are folded into `RouteAttemptsFailed`, whose
  outcome is `NotDispatched` although a provider may have answered 429 or 503 (what holds is
  `OutcomeIsHonest`). A cancel between the stream task's push of `done` and its end appends
  `cancelled` after `done`.
* *Bindings.* Go and Python `Cancel`, and Python's `start_stream`, use a handle that may have
  been freed and given to another object meanwhile; the C ABI's registry keeps this
  memory-safe, and the call then acts on the other object. `sdk_free` does not count blocking
  calls, so that the in-flight counter of the bindings is what keeps a client under them.
* *Artifacts.* Of two overlapping builds the one with the older artifact may rename last and
  put the cache file back.
* *Verdicts.* A policy that asks for receipt-bound integrity makes the verifier return a
  malformed-verdict error rather than a failed verdict, and so does a live verdict whose
  shortest lifetime is the route's `valid_until`, because the validity window does not list it.
* *Registry.* `validate_security_invariants` does not reject duplicate route ids; a canonical
  model name may be another model's alias or provider name; the freshness class of a route may
  change in an accepted update, which only the diff shows.
* *Streams.* `take_sse_frame` and the SDK look for `\r\n\r\n` in the whole buffer before
  `\n\n`, so with mixed line ends the frame taken is not the first. The adapter uses the
  first non-empty `data:` line of a frame, the SDK joins them. A raw stream that ends in
  `data: [DONE]` and one line end is an error.
* *Envelopes.* An EHBP body may be cut at a chunk boundary, which only the JSON parser
  notices. The SDK's salt is a concatenation without separators; its additional data is not.
* *Collateral.* Several verifications fetch the JWKS at once although a comment says at most
  once per TTL. Two resolves of one process share the temporary file name, so that the second
  rename fails; a reader may remove a file that was just replaced by a good one. A CRL without
  `nextUpdate` puts no bound on its bundle.
* *Evidence.* The SNP firmware check compares the build number also when major or minor are
  newer. Rekor's key validity takes whole seconds only, those of the CA and CT log fractions.
  Chutes entries that spell their key `public_key` or their quote `quote` are not taken for
  complete although the normaliser reads these names. Contrast images without a dotted
  registry are ignored, and a policy whose SAN is `workload-coordinator` counts as the
  coordinator without having the role.
* *Redaction.* In two kinds of text a secret is shown, and `SecretsNeverShown` leaves exactly
  these out. Only the word right after a label is replaced: of `invalid token Authorization: abc`
  that is `Authorization:`, and `abc` stays (`LabelBefore`; `redact_sensitive`). And the search for
  JSON values goes over raw text: a sensitive key whose string value is not closed, or is still to
  come, takes the next quote for it, so that after `"token":` the key of the secret is replaced
  and its value stays (`ValueOpen`; `sensitive_json_string_value_range`). The second cannot happen
  in well-formed JSON, where a quoted key never stands at the place of a value. No document of the
  repository promises more, hence no run that is expected to fail.
* *Trust CLI.* Chutes and RedPill pins are provider-wide although a comment in `ppq.rs` says
  that this is not safe for several deployments; a Tinfoil reference expires with its first
  capture; the TDX path of `pin` for Tinfoil cannot succeed; two pins at once share one
  `.tmp` name; smoke chats run after the files are written.

## 4. Proofs

Each theorem is about every value of the constants that satisfies the named assumptions of its
module: any number of callers, threads, hosts, connections, requests, addresses, bundles,
deployments or files. The assumptions are types, finiteness where something is counted, and what
the comments beside them say of the environment. All safety theorems follow one pattern: an
inductive invariant, a lemma that each step keeps it (one step of the proof for each action),
and an implication. The properties themselves are seldom inductive; what had to be added is the
interesting part:

*`RouteVerificationProofs`* (`PolicyAssumption`, `VerificationAssumption`): `TypeCorrect`,
`OneFlightPerKey`, `SlotsAreCounted`, `NobodyStranded`, `OwnEvidenceIsSent`,
`UncacheableStaysUncached`, and `HitsRespectClocks`, an action property.

    IInv == TypeOK /\ GuardsHeld /\ CallPath /\ SingleFlight /\ WaiterSlots
            /\ WaitersQueued /\ UncachedKeys /\ FreshEvidence

`GuardsHeld` ties a caller's step to the guard it holds (it has joined a flight exactly while it
waits, times out or leaves); `CallPath` says which mode a caller can be in at which step;
`WaitersQueued` says that a waiter not yet notified has joined the flight that is in the map,
which makes the owner's wake-up reach it; `UncachedKeys` adds to the cache property that nobody
is on the single-flight path with such a key. `SlotsAreCounted` needs a counting lemma
(`SlotCounted`) for a caller joining or leaving a flight. `HitsRespectClocks` rests on
`ForwardJumpSeen`: the comparison of elapsed times by absolute difference, which misses some
backward jumps, misses no forward one, the saturation at `U64Max` included.

*`ServingProofs`*, the dispatch loop (`DispatchAssumption`): `NoReplay` and `HonestOutcome`. The
invariant is `WorkStops`: as soon as a dispatch may have been worked on, the path is done and its
result does not allow a fallback. It rests on two facts about the answer tables: an answer under
which a provider may have worked, and a discarded response, map to an outcome that
`AllowsRouteFallback` refuses. The proxy (`LimitsAssumption`, `PeersAssumption`):
`RequestsStayWhole`, `WorkIsAdmitted`, the action property `OnlyAdmittedForwarded` and
`ProxyTypesKept`. `ProxyInv` says of each connection how many bytes it can have read in its phase
(`Reads`), that a request is held exactly between parsing and answer (`Holds`), and what an answer
may say given what was forwarded and worked on (`Says`). The composition (`ServedAssumption`):
`ServedIsProxy` shows step by step that the proxy in front of the dispatch loop takes only steps
of the proxy with an open client; the heart is `ErrorsAsPromised`, that every error the dispatch
loop can end with keeps the contract that `Proxy` assumes of its client. `ServedEndToEnd` has the
guarantees of both for the composed system.

*`FfiStreamsProofs`* (`FfiAssumption`): `TypesKept`, `HandlesStaySound`, `NoStreamOrphaned`, and
the refinement `QueueImplementsEventStream`. To `HandlesSound` the invariant adds which section of
a call may hold which client or stream (`CallsTyped`), that a registered address is the box of
exactly one live object (`ClientBoxes`, `StreamBoxes`), that only a terminal stream is on its way
out (`FreeingTerminal`), that each live operation is counted (`BusyNotMissed`), and that a stream
that is not terminal has a task or a handle to join (`Joinable`). The refinement adds `SaidSoFar`:
what was pushed to a queue is a beginning of what the abstract stream says. `StepIsEventStep`
sorts every step of the C ABI into the few things it can do to a stream, and `EventStepRefines`
maps these to steps of `EventStream` or to stutters.

The bindings (`BindingAssumption`): `BindingsStaySound` and `BindingTypesKept`. The
invariant ties the in-flight counter of an object to the calls under way (`Counts`), its lock to
the call that holds it (`Locks`), each native handle to one object (`NativeOnce`), and says what
a call of each language has read and protected at each of its points (`Shaped`, `Closing`,
`Protected`, `Making`).

*`AdaptersProofs`*, the adapters (`AdaptersAssumption`): `PeersStayVerified`, `NothingGoesTwice`,
`TokensStayAlive`. `PeerInv` relates what a request has decided on, the store entry its evidence
digest names, the sessions and the work done; `NoncesKept` says of one-use nonces that each is in
one place only: in a store entry, with one request that is about to send it, or sent. The
collateral resolver (`CollateralAssumption`): `CollateralStaysSound`; `DataInv` says which bundles
may lie under which key and in which file, `SlotInv` that permits and queue places add up to the
resolves that hold them. The caches (`KeyCachesAssumption`): `JwksStayCurrent`, `FoundCertsStay`,
and with the adapters `CachedKeysStayCurrent`.

*`SelectionProofs`* (`RegistryAssumption`, `ConfigsAssumption`): `VersionOrder`,
`RegistryUpdatesAreSafe`, `RequestsAreSealed`, `SelectionIsSound`. `verify_update_to` compares an
update with its predecessor only, so `ChainInv` says that the registry in force supersedes the
first one: what is compared has to compose. For the ranks of `NotWeakenedBy` that is
`NotWeakenedTransitive`; for versions, whose runs are compared as numbers or as bytes according to
what they meet, it is `VersionsCompose`, from one law of lexicographic orders (`LexComposes`) used
twice. `SilentDiff`, that a diff without entries means that nothing changed, needs route ids to be
distinct, which the code does not check (see above). `ClientInv` says that a client is what some
configuration builds from a registry; the rest relates the list a user is shown to the routes a
request tries, two loops over the same models that filter in different places
(`ServedAsListed`, `ServedAsOrdered`). The laws of filters and concatenations that this needs are
proved for all sequences. `ErrorsEndStreams`, of any body and any limits: every step that returns
something is taken before the stream is done, one that returns an error ends it, and the stream
knows the usage just when it has returned the chunk that carries it (`StepReturns`).

*`TrustArtifactsProofs`*, the artifacts (`ArtifactAssumption`): `TypeCorrect`, `FixtureKeysConfined`,
`FallbackIsFloor`, `CacheStaysWhole`, and the action property `RollbackPrevented`. The first
invariant says of each variable on the way to `active` that what it holds is trusted and no weaker
than the fallback; a fetched artifact is only compared with the cached one, and that it is then no
weaker than the fallback is the lemma `UpdatesCompose`. `FilesInv` says that names and inodes
stay apart and that the cache file of a builder on its own is whole. `MemoryInv` follows the
cached artifact through crashes: what the file holds is accepted by the pin (`FileAccepted`), is
what a build has read or written (`CacheRead`, `UpdateWritten`, `FileActivated`), and is no weaker
than what was last active (`FileNoOlder`). Provenance (`ProvenanceAssumption`: Rekor's key is the
first of the trusted root, the root's authorities can be read, and what a workflow signed in time
was logged and stamped by logs of the root): `ReleasesStayAsLogged`. That a release verifies under
every later log head is `AuditPathLeads`, for trees of every size: the hash of the leaf's ancestor
at each level is the one `verify_proof` has computed when it has used up the path that far, below
`inner` because index and last index differ there, above it because only ones of the index bring
a hash (`Parents`, `PathLevels`, `OnesCounted`); the shifts of the code are the halvings of the
level numbers (`Shifts`, `ApartIs`). That nothing else is accepted is `PromiseDecides`: of all the
parts of a bundle Rekor's promise alone decides, since it names the body of an entry and the body
names statement, signature and certificate.

*`VerifierProofs`* (`PoliciesAssumption`, `RoutesAssumption`, `ArtifactsAssumption`,
`NowAssumption`): `HardwareIsProven`, `FreshnessIsProven`, `ChannelIsProven` and their conjunction
`VerdictIsProven`; `LifeIsBounded`; `VerdictsStayMonotone`. The invariant says that a judged
request carries `VerifyEvidence` of exactly the policy, route, reference values and evidence it
was selected and collected with, and that a sent one was allowed. `NothingBlocks` turns an allowed
verdict under enforcement into checks that did not fail and required ones that were made, and one
lemma per kind of fact walks through the families. `VerdictsStayMonotone` compares two runs of the
verifier: a request *eased* in its policy or its reference values (`Eased`) keeps every check,
word and binding of each family (`FactsKeep`, `ChecksKeep`), and stays consistent
(`ConsistencyKeeps`).

*`EvidenceProofs`* (`SnpReportsAssumption`, `TdxQuotesAssumption`, `GpuTokensAssumption`,
`EnvelopesAssumption`, `TrustToolsAssumption`, `ImagesAssumption`): `ReportsStayPatched`, from the order of a chip's levels (`ChipOrdered`)
and what the committed level of an accepted report was (`CommittedPatched`, `GuestAccepted`);
`FlawsEndVerdicts`, from what every stored, saved or built-in piece of collateral can know of a
flaw (`Current`, `EndsInTime`), and both together as `HardwareStaysPatched`; `QuotesNameSessions`,
where `FirstPartsDecide` shows that a hash without separator names nonce and key because nonces
have one length, and with the GPU tokens `EvidenceNamesSessions`: the token under check is one
that NRAS minted, and one judged good is the overall token of its answer, wherever in the answer
it stands (`GpuInv`, `OverallTokenFound`). `EnvelopesOpenOwn` ties every envelope to the one request it was sealed for
(`SealedFor`) and every box of an answer to the request and workload whose shared key seals it
(`AnsweredTo`). `ConfigStaysOnePin` and `OnlyProvedIsAccepted` follow a pin through its captures
(`Capturing`: each is proved, and but for the last one of an unfinished pair that of the release;
the second of a pair has the measurement of the first, `Paired`) and files (`Writing`, `FilesOK`).
Since no two models of a command have one name, each route then brings one measurement
(`OneMeasurement`). `ImagesArePinned` is about compose files and initdata texts of
any size. `ComposeInv`: no scalar stands where others are, so that the key image at which the walk
over a file stops is the one that names an image (`FieldsListed`); together with the refusal of a
second image of one service this makes the list a bijection (`ListedOnce`). `TextInv`: a quote
ends the name after each marker, so that the loop, which goes on behind the value it has read,
passes no marker (`MarkerFound`). `NoSecretIsShown` is about messages of any length, made as
`MessageInv` says, with keys, labels and quotes anywhere around the secret; its two exceptions are
those of section 3. For a JSON value (`JsonHidden`): a turn of the loop that jumps over the value of
another key jumps over all of the secret's or ends before its key, unless that other value is still
open there (`RangeClosed`); and the quotes in the value are escaped (`EscapedSpans`), so that the
turn at its key ends where it ends. For a word (`WordsHidden`) the loop over JSON values either takes
the word out with a value around it or keeps it with its lead (`LoopEnds`, `Behind`). The reader then
comes to the lead `Along` the text: `redact_next` is set there only if the text itself has a label
right before it, since a word from which a value was taken is no label (`MarkNoLabel`). A lead leaves
the reader with `redact_next` or inside a token that is redacted whatever follows (`Armed`,
`LeadsOver`), and that lasts until the token ends (`ArmedOver`).

Three things about the form of the modules come from the provers: `CASE` guards are disjoint,
because a `CASE` with two true guards stands for either value; a file cut short (`Partial`) is a
record that is no artifact rather than an unknown value; and specifications of the components of `MCEvidence` and
`MCRules` (`SnpSpec`, `TdxSpec`, `EnvelopeSpec`, `ToolsSpec`, `RedactionSpec` and others) are stated for themselves, while the
runs interleave them by `part`.

Only model-checked:

* `CallersReturn`, `NothingHangs` and `WorkEnds`: liveness under fairness, and `ENABLED`, are out
  of the prover's reach;
* `FormsAgree`: the normalisers are tables of names whose every combination is a case of its own;
* `ChunkingIrrelevant`, but for its part `ErrorsEnd`: that the chunks are those the events say needs
  the inverse of the rendering of events, line by line and piece by piece, for two parsers.

The induction theorems of the library take an operator, which the provers cannot instantiate.
Where a proof needs induction over numbers or sequences, the claim is a set (`NatInductive`,
`SeqInductive`, from the well-foundedness of the natural numbers), and recursive functions are
first shown to have a solution on every initial segment (`HalvesExist`, `LevelsExist`,
`FlatExists`, `TurnsExist`, `ReadsExist`).

## 5. Not modelled

Cryptographic primitives (signatures, hashes, HPKE and ML-KEM are free constructors or
accepted-or-not facts), HTTP and TLS libraries, JSON and YAML syntax, logging, the verdict log
and metrics, poisoned mutexes and forked processes; the blocking calls of the C ABI, which
clone the client's `Arc` and change no handle, and its strings and `last_error`; stored
responses (`manage_response`); parsing of command lines and configuration; test fixtures, fuzz
targets, the demo and the OpenAI-compatible data types. In the bindings: JSON conversion,
library lookup and the ABI version check, and a Python iterator cancelled a second time while
it drains its worker call.

The files of a pin and the artifact cache are written to a temporary name and renamed,
without `fsync`. What is modelled is that the process ends at any point; after a loss of power the
renamed file may be empty, and nothing here speaks of that. Of the four files of a pin only
`operator-config.json` is of one pin; the three artifact files may be mixed, which is why
`OnlyProvedAccepted` is about every mixture. Go and Python calls that use a handle without counting
themselves (section 3) are named in `OnlyBareCallsMiss` and left out of it: no property covers them.

Checks left out or not exercised, in the places where this makes the model accept no less than the
code, or makes no difference to a property: `verify_not_weakened_by` also refuses a change of the
trust tier, the provider's model name and the response signing key, which the reference values of
`Verifier` do not have, so that `UpdatesNarrow` holds for more updates than the code accepts; the
reserved bytes of a TCB version in an SNP report; the key hint of a checkpoint signature (that the
key made the signature is checked); the route status that a request looks at before it sends, which
`VerifiedRoute::chat` does not look at again. Tokens of NRAS name their key, issuer and version, so
that a token without `kid` beside a single key, and other issuers and versions, are not met; offline
bundles of collateral are valid for the whole run, and the resolver has a cache directory. Parts of
bundles are exchanged, but none has a forged issuer or lacks its SCT.

## 6. What is left

1. The rest of the proof about `Streams`: that both parsers find the events of a body as they were
   rendered, from any event on and in any prefix.
2. The stored responses of `manage_response`.
