----------------------------- MODULE MCEvidence -----------------------------
(***************************************************************************)
(* What evidence is accepted and why: the release log and the trust tools  *)
(* that pin from it, SEV-SNP reports, TDX quotes and GPU tokens.  They     *)
(* share no state; part, chosen at the start, says which of them moves.    *)
(***************************************************************************)
EXTENDS Provenance, TrustTools, HardwareEvidence

VARIABLE part

mcVars == <<part, log, toolVars, snpVars, tdxVars, gpuVars>>

-----------------------------------------------------------------------------
(* Releases *)

Valid(start, end) == [start |-> start, end |-> end]

Fulcio == [subject |-> "fulcio", key |-> "fulcioKey", issuer |-> "sigstore", signer |-> "rootKey",
           from |-> 1, to |-> 20]
RootCa == [subject |-> "sigstore", key |-> "rootKey", issuer |-> "sigstore", signer |-> "rootKey",
           from |-> 1, to |-> 20]

\* Two generations of the authority: the newer starts within a second.
MCRoot ==
    [authorities |-> <<[valid |-> Valid(2500, Open), chain |-> <<Fulcio, RootCa>>],
                       [valid |-> Valid(1000, 9000), chain |-> <<Fulcio>>]>>,
     tlogs |-> <<[id |-> "rekor", keyHash |-> "rekor", key |-> "rekorKey", sha256 |-> TRUE,
                  valid |-> Valid(1000, 8000)]>>,
     ctlogs |-> <<[id |-> "ct1", keyHash |-> "ct1", key |-> "ct1Key", sha256 |-> TRUE,
                   valid |-> Valid(1000, 2000)],
                  [id |-> "ct2", keyHash |-> "ct2", key |-> "ct2Key", sha256 |-> TRUE,
                   valid |-> Valid(2001, Open)]>>]

Tbs(repo, ref, key, from) ==
    [workflow |-> repo, workflowRef |-> ref, source |-> repo, sourceRef |-> ref, key |-> key,
     runner |-> "github_actions", usage |-> "code_signing", issuer |-> "fulcio",
     signer |-> "fulcioKey", from |-> from, to |-> from + 1, poisoned |-> FALSE]

Stamped(tbs) ==
    LET at == tbs.from * 1000
        ct == IF at <= 2000 THEN "ct1" ELSE "ct2"
    IN  [scts |-> <<[log |-> "ct0", at |-> at, sig |-> Signed("ct0Key", <<at, "fulcioKey", tbs>>)],
                    [log |-> ct, at |-> at,
                     sig |-> Signed(ct \o "Key", <<at, "fulcioKey", tbs>>)]>>] @@ tbs

Says(subjects, snp) == [kind |-> "snp_tdx_multiplatform", subjects |-> subjects, tdx |-> TRUE,
                        snp |-> snp]

MCReleases ==
    {[statement |-> Says({"d1"}, "m1"), cert |-> Stamped(Tbs("router", "tag", "k1", 1)), at |-> 2],
     \* signed with the same key, logged when the certificate had ended
     [statement |-> Says({"d1"}, "m2"), cert |-> Stamped(Tbs("router", "tag", "k1", 1)), at |-> 3],
     [statement |-> Says({"d1", "d2"}, "m3"), cert |-> Stamped(Tbs("router", "tag", "k3", 2)), at |-> 3],
     [statement |-> Says({"d1"}, "m4"), cert |-> Stamped(Tbs("router", "branch", "k4", 3)), at |-> 3],
     [statement |-> Says({"d1"}, "m5"), cert |-> Stamped(Tbs("fork", "tag", "k5", 3)), at |-> 4]}

MCAsked == {[repo |-> "router", digest |-> d] : d \in {"d1", "d2"}}

-----------------------------------------------------------------------------
(* Pins *)

Named(name) == [name |-> name, provider |-> "p-" \o name, private |-> TRUE]

MCCommands ==
    {[provider |-> p, models |-> <<Named("a")>>, smoke |-> TRUE] : p \in Pinnable}
    \cup {[provider |-> p, models |-> <<Named("a"), Named("b")>>, smoke |-> FALSE] : p \in Pinnable \ {"redpill"}}
    \cup {[provider |-> "ppq", models |-> <<[Named("a") EXCEPT !.private = FALSE]>>, smoke |-> FALSE],
          [provider |-> "chutes", models |-> <<Named("a"), Named("a")>>, smoke |-> FALSE]}

Composed(hash) == [hash |-> hash, allowedEnvs |-> {"MODEL"}, scriptsKeys |-> FALSE]
Runs(measurement, digest, spki) ==
    [measurement |-> measurement, digest |-> digest, spki |-> spki, format |-> "snp",
     model |-> Nothing, bound |-> TRUE, gpu |-> TRUE, gateway |-> Composed("h1"), gatewayHash |-> "h1",
     workload |-> Composed("h2"), workloadHash |-> "h2", expires |-> Nothing]

MCMeasurements == ("d1" :> "m1") @@ ("d2" :> "m2")

\* Both models on one deployment, or on two; swapped presents another compose file than it measured.
Both(x, y) == ("p-a" :> x) @@ ("p-b" :> y)
MCDeployments ==
    [p \in Pinnable |->
        LET old == Runs("m1", "d1", "s1")
            new == Runs("m2", "d2", "s1")
            swapped == [old EXCEPT !.workload.hash = "h3", !.measurement = "m4"]
            odd == CASE p = "chutes" -> [old EXCEPT !.bound = FALSE, !.measurement = "m3"]
                     [] p = "redpill" -> [old EXCEPT !.workload.scriptsKeys = TRUE, !.measurement = "m3"]
                     [] p = "tinfoil" -> [old EXCEPT !.spki = "s2"]
                     [] p = "ppq" -> [old EXCEPT !.measurement = "m3"]
        IN  {Both(old, old), Both(old, new), Both(old, odd)}
            \cup IF p = "redpill" THEN {Both(new, new), Both(swapped, swapped)} ELSE {}]

-----------------------------------------------------------------------------
(* SEV-SNP *)

Level(snp, ucode, tee, major, minor, build) ==
    [tcb |-> [boot |-> 7, tee |-> tee, snp |-> snp, ucode |-> ucode],
     firmware |-> [major |-> major, minor |-> minor, build |-> build]]

\* Below the minimum TCB; only the firmware below; the minimum; a newer major version
MCLevels == <<Level(13, 72, 0, 1, 53, 40), Level(14, 72, 0, 1, 54, 30), Level(14, 72, 0, 1, 55, 21),
              Level(14, 73, 1, 2, 0, 25)>>
MCMinTcb == Level(14, 72, 0, 1, 55, 21).tcb
MCMinFirmware == Level(14, 72, 0, 1, 55, 21).firmware
MCVcekLife == [from |-> 1, to |-> 2]

Usual == {"smt", "reserved_one"}
MCPolicies == {Usual, Usual \cup {"debug"}}

GoodShape == [schema |-> "v1", inflated |-> "within limit", format |-> "snp", whole |-> TRUE,
              version |-> 3, algorithm |-> 1, nonzero |-> {}, platform |-> {"smt", "tsme"}]
MCShapes ==
    {GoodShape, [GoodShape EXCEPT !.inflated = "too long"], [GoodShape EXCEPT !.format = "tdx"], [GoodShape EXCEPT !.whole = FALSE],
     [GoodShape EXCEPT !.version = 1], [GoodShape EXCEPT !.version = 6],
     [GoodShape EXCEPT !.algorithm = 2], [GoodShape EXCEPT !.nonzero = {"signer"}],
     [GoodShape EXCEPT !.nonzero = {"cpuid"}],
     [GoodShape EXCEPT !.version = 2, !.nonzero = {"cpuid"}], [GoodShape EXCEPT !.platform = {"smt"}]}

-----------------------------------------------------------------------------
(* TDX *)

MCLife == [p \in Pieces |-> IF p = "pck_crl" THEN 1 ELSE 2]

Session(nonce, key, spki) == [nonce |-> nonce, key |-> key, spki |-> spki]
S1 == Session(<<"0">>, <<"f", "0">>, <<"cert1">>)
S2 == Session(<<"f">>, <<"0">>, <<"cert2">>)
\* The same characters as S1's, split elsewhere
S3 == Session(<<"0", "f">>, <<"0">>, <<"cert1">>)
MCSessions == {S1, S2, S3}

MCQuotes_ == {[report |-> "TD15", provider |-> "chutes", session |-> S1],
              [report |-> "TD10", provider |-> "tinfoil", session |-> S2]}

-----------------------------------------------------------------------------
NoTools ==
    /\ seeds = [dir \in KeyDirs |-> Nothing] /\ entries = seeds /\ running = <<>> /\ latest = "d1"
    /\ rollouts = 0 /\ now = 0 /\ pins = 0 /\ command = Idle /\ files = NoFiles /\ proved = {}

Init ==
    /\ part \in {"provenance", "tools", "snp", "tdx", "gpu"}
    /\ ProvenanceInit
    /\ IF part = "tools" THEN ToolsInit ELSE NoTools
    /\ SnpInit /\ TdxInit /\ GpuInit

Next ==
    /\ UNCHANGED part
    /\ \/ /\ part = "provenance" /\ AppendEntry
          /\ UNCHANGED <<toolVars, snpVars, tdxVars, gpuVars>>
       \/ part = "tools" /\ ToolsNext /\ UNCHANGED <<log, snpVars, tdxVars, gpuVars>>
       \/ part = "snp" /\ SnpNext /\ UNCHANGED <<log, toolVars, tdxVars, gpuVars>>
       \/ part = "tdx" /\ TdxNext /\ UNCHANGED <<log, toolVars, snpVars, gpuVars>>
       \/ part = "gpu" /\ GpuNext /\ UNCHANGED <<log, toolVars, snpVars, tdxVars>>

Symmetry == Permutations(KeyDirs) \cup Permutations(Guests)

\* At most two of the log's entries are releases; the keys are made before the first pin, and
\* the second pin is of one model; one piece of collateral has been issued anew, the flawed one
\* once a flaw is known; one quote is being checked or was accepted; two tokens are about.
Bounds ==
    /\ Cardinality(Released) <= 2
    /\ pins > 0 => \A dir \in KeyDirs : seeds[dir] # Nothing
    /\ pins > 1 /\ "models" \in DOMAIN command => Len(command.models) = 1
    /\ Cardinality({p \in Pieces : issued[p] # [until |-> Life[p], bad |-> FALSE]}) <= 1
    /\ \A p \in Pieces : issued[p] # [until |-> Life[p], bad |-> FALSE] => flaw.piece \in {Unset, p}
    /\ Cardinality({q \in Quotes : verifier[q] # Unset}) + Cardinality({q \in Quotes : quoteOk[q] # Unset}) <= 1
    /\ Cardinality(minted) <= 2

Spec == Init /\ [][Next]_mcVars

-----------------------------------------------------------------------------
(* The tree as RFC 6962 defines it: split at the largest power of two below n *)

RECURSIVE SplitAt(_)
SplitAt(n) == IF n <= 2 THEN 1 ELSE 2 * SplitAt((n + 1) \div 2)

RECURSIVE MerkleTreeHash(_)
MerkleTreeHash(data) ==
    LET k == SplitAt(Len(data))
    IN  IF Len(data) = 1 THEN Leaf(data[1])
        ELSE Node(MerkleTreeHash(SubSeq(data, 1, k)), MerkleTreeHash(SubSeq(data, k + 1, Len(data))))

RECURSIVE MerklePath(_, _)
MerklePath(m, data) ==
    LET k == SplitAt(Len(data))
        low == SubSeq(data, 1, k)
        high == SubSeq(data, k + 1, Len(data))
    IN  CASE Len(data) = 1 -> <<>>
          [] Len(data) > 1 /\ m < k -> Append(MerklePath(m, low), MerkleTreeHash(high))
          [] OTHER -> Append(MerklePath(m - k, high), MerkleTreeHash(low))

\* The levels of Provenance make that tree and its audit paths.
ASSUME TreeAsInRfc6962 ==
    \A n \in 1..9 :
        LET data == [i \in 1..n |-> i]
        IN  /\ TreeHash(data) = MerkleTreeHash(data)
            /\ \A m \in 0..(n - 1) : AuditPath(m, data) = MerklePath(m, data)
=============================================================================
