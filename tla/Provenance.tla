----------------------------- MODULE Provenance -----------------------------
(***************************************************************************)
(* Release provenance (sigstore.rs, sigstore_rekor.rs, sigstore_sct.rs):   *)
(* the offline check of a Sigstore bundle.  A release workflow signs a     *)
(* statement with the key of a short-lived certificate; Rekor appends the  *)
(* signed statement to its Merkle tree and promises to keep it;            *)
(* verify_tinfoil_sigstore_bundle accepts the bundle when the log entry,   *)
(* its inclusion proof, the certificate chain, the workflow's identity,    *)
(* the certificate's own log timestamps and the signature all hold, and    *)
(* returns the signed measurement.                                         *)
(*                                                                         *)
(* Hashes and signatures are free constructors.  Times of certificates and *)
(* entries are seconds; those of the trusted root are milliseconds, which  *)
(* stand for its sub-second RFC 3339 times.                                *)
(***************************************************************************)
EXTENDS Integers, Sequences, FiniteSets, Functions

CONSTANTS
    Releases,   \* what workflows sign: [statement, cert, at]
    Root,       \* trusted root: [authorities, tlogs, ctlogs], each a sequence
    Asked,      \* what is asked of a bundle: [repo, digest]
    MaxLog,     \* entries of the log
    ShardBase,  \* an entry's index in the whole log less its index in its tree
    Refused,    \* no measurement
    Open        \* no end of validity

VARIABLE log    \* the entries of Rekor's tree

-----------------------------------------------------------------------------
(* Rekor, as far as the bundle shows it *)

Signed(key, message) == [by |-> key, over |-> message]

Leaf(body) == <<"leaf", body>>
Node(left, right) == <<"node", left, right>>

\* n >> k, and a bit of n
Shr(n, k) == LET half[i \in Nat] == IF i = 0 THEN n ELSE half[i - 1] \div 2 IN half[k]
Bit(n, i) == Shr(n, i) % 2

\* The tree of RFC 6962, level by level: neighbours make a node, and one without a
\* neighbour goes up as it is
NextLevel(nodes) ==
    [i \in 1..((Len(nodes) + 1) \div 2) |->
        IF 2 * i <= Len(nodes) THEN Node(nodes[2 * i - 1], nodes[2 * i]) ELSE nodes[2 * i - 1]]

TreeLevels(entries) ==
    LET level[k \in 0..Len(entries)] ==
            IF k = 0 THEN [i \in 1..Len(entries) |-> Leaf(entries[i])] ELSE NextLevel(level[k - 1])
    IN  level

TreeHash(entries) == TreeLevels(entries)[Len(entries)][1]

\* The neighbour of the index-th node from 0, if it has one
Neighbour(nodes, index) ==
    IF index % 2 = 1 THEN <<nodes[index]>>
    ELSE IF index + 1 < Len(nodes) THEN <<nodes[index + 2]>> ELSE <<>>

\* The audit path of a leaf, nearest hash first
AuditPath(index, entries) ==
    LET levels == TreeLevels(entries)
        path[k \in 0..Len(entries)] ==
            IF k = 0 THEN <<>> ELSE path[k - 1] \o Neighbour(levels[k - 1], Shr(index, k - 1))
    IN  path[Len(entries)]

IsRelease(entry) == "statement" \in DOMAIN entry

\* What Rekor stores of a release: the hash of the payload, the signature and its certificate
Body(release) ==
    [payload |-> <<"hash", release.statement>>, cert |-> release.cert,
     signature |-> Signed(release.cert.key, release.statement)]

EntryBody(entry) == IF IsRelease(entry) THEN Body(entry) ELSE entry
Bodies(n) == [i \in 1..n |-> EntryBody(log[i])]

\* The bundle of the i-th entry as of tree size n
Bundle(i, n) ==
    LET release == log[i]
        rekor == Root.tlogs[1]
        root == TreeHash(Bodies(n))
        index == ShardBase + i - 1
    IN  [envelope |-> [statement |-> release.statement,
                       sigs |-> <<Signed(release.cert.key, release.statement)>>],
         certificate |-> release.cert,
         body |-> Body(release),
         stamp |-> [integrated |-> release.at, index |-> index, log |-> rekor.id],
         promise |-> Signed(rekor.key, <<Body(release), release.at, index, rekor.id>>),
         proof |-> [index |-> i - 1, size |-> n, hashes |-> AuditPath(i - 1, Bodies(n)), root |-> root,
                    checkpoint |-> [size |-> n, root |-> root,
                                    sigs |-> <<Signed("witness", <<n, root>>),
                                               Signed(rekor.key, <<n, root>>)>>]]]

-----------------------------------------------------------------------------
(* Inclusion *)

\* Levels up to which two leaves have different ancestors
Apart(m, n) == CHOOSE k \in 0..(m + n) : /\ Shr(m, k) = Shr(n, k)
                                         /\ \A j \in 0..(k - 1) : Shr(m, j) # Shr(n, j)

\* A fault: counted from the leaf to come
InnerOfNext(index, size) == Apart(index, size)

\* From the leaf to the path of the last leaf
Inner(index, size) == Apart(index, size - 1)

OnesFrom(n, k) == Cardinality({i \in k..(k + n) : Bit(n, i) = 1})
Border(index, size) == OnesFrom(index, Inner(index, size))

\* The root that the audit path leads to
PathRoot(index, inner, body, hashes) ==
    LET up[i \in 0..Len(hashes)] ==
            IF i = 0 THEN Leaf(body)
            ELSE IF i - 1 >= inner \/ Bit(index, i - 1) = 1 THEN Node(hashes[i], up[i - 1])
            ELSE Node(up[i - 1], hashes[i])
    IN  up[Len(hashes)]

\* A signature by the key; that it also carries the key's hint is left out.
VerifyCheckpoint(checkpoint, size, root, key) ==
    /\ Len(checkpoint.sigs) <= 8
    /\ checkpoint.size = size /\ checkpoint.root = root
    /\ \E i \in DOMAIN checkpoint.sigs : checkpoint.sigs[i] = Signed(key, <<size, root>>)

VerifyProof(proof, body, key) ==
    /\ proof.index < proof.size
    /\ Len(proof.hashes) = Inner(proof.index, proof.size) + Border(proof.index, proof.size)
    /\ PathRoot(proof.index, Inner(proof.index, proof.size), body, proof.hashes) = proof.root
    /\ VerifyCheckpoint(proof.checkpoint, proof.size, proof.root, key)

-----------------------------------------------------------------------------
(* The entry *)

\* A fault: the entry is not compared with the envelope.
BindingButEnvelope(body, envelope, certificate) ==
    Len(envelope.sigs) = 1 /\ body.cert = certificate

VerifyBinding(body, envelope, certificate) ==
    /\ body.payload = <<"hash", envelope.statement>>
    /\ Len(envelope.sigs) = 1 /\ body.signature = envelope.sigs[1]
    /\ body.cert = certificate

\* Only whole seconds are understood in the validity of a Rekor key.
WholeSeconds(ms) == ms % 1000 = 0
KeyValidAt(valid, seconds) ==
    /\ seconds # 0
    /\ WholeSeconds(valid.start) /\ seconds >= valid.start \div 1000
    /\ valid.end # Open => WholeSeconds(valid.end) /\ seconds <= valid.end \div 1000

VerifyRekor(b) ==
    LET known == {i \in DOMAIN Root.tlogs : Root.tlogs[i].id = b.stamp.log}
        tlog == Root.tlogs[CHOOSE i \in known : \A j \in known : i <= j]
    IN  /\ VerifyBinding(b.body, b.envelope, b.certificate)
        /\ known # {}
        /\ tlog.sha256 /\ tlog.keyHash = b.stamp.log
        /\ KeyValidAt(tlog.valid, b.stamp.integrated)
        /\ b.promise = Signed(tlog.key, <<b.body, b.stamp.integrated, b.stamp.index, b.stamp.log>>)
        /\ VerifyProof(b.proof, b.body, tlog.key)

-----------------------------------------------------------------------------
(* The certificate *)

CheckTime(cert, seconds) == cert.from <= seconds /\ seconds <= cert.to
CheckIssued(cert, issuer) == cert.issuer = issuer.subject /\ cert.signer = issuer.key

Unreadable(authority) ==
    \/ authority.valid.start = Refused
    \/ authority.valid.end \notin {Open} /\ authority.valid.end < authority.valid.start

WithinMs(valid, ms) == ms >= valid.start /\ (valid.end # Open => ms <= valid.end)

Issues(authority, leaf, seconds) ==
    /\ WithinMs(authority.valid, seconds * 1000)
    /\ authority.chain # <<>>
    /\ CheckTime(leaf, seconds) /\ CheckIssued(leaf, authority.chain[1])
    /\ \A i \in DOMAIN authority.chain : CheckTime(authority.chain[i], seconds)
    /\ \A i \in 1..(Len(authority.chain) - 1) : CheckIssued(authority.chain[i], authority.chain[i + 1])

\* The first authority that fits decides, unless one before it cannot be read.
VerifyChain(leaf, seconds) ==
    LET decisive == {i \in DOMAIN Root.authorities : \/ Unreadable(Root.authorities[i])
                                                     \/ Issues(Root.authorities[i], leaf, seconds)}
        chosen == Root.authorities[CHOOSE i \in decisive : \A j \in decisive : i <= j]
    IN  IF decisive = {} THEN Refused
        ELSE IF Unreadable(chosen) THEN Refused
        ELSE chosen.chain[1]

\* A tag workflow of the repository, on GitHub's runners, with a code-signing key of its own
CheckIdentity(cert, repo) ==
    /\ cert.usage = "code_signing"
    /\ cert.workflow = repo /\ cert.workflowRef = "tag"
    /\ cert.runner = "github_actions"
    /\ cert.source = repo /\ cert.sourceRef = "tag"

\* What a certificate log signs: the certificate without its timestamps
PreCert(cert) == [f \in DOMAIN cert \ {"scts"} |-> cert[f]]

VerifyOne(sct, cert, issuer) ==
    \E i \in DOMAIN Root.ctlogs :
        LET ctlog == Root.ctlogs[i]
        IN  /\ ctlog.sha256 /\ ctlog.id = sct.log /\ ctlog.keyHash = sct.log
            /\ WithinMs(ctlog.valid, sct.at)
            /\ sct.sig = Signed(ctlog.key, <<sct.at, issuer.key, PreCert(cert)>>)

VerifySct(cert, issuer) ==
    /\ ~cert.poisoned
    /\ \E i \in DOMAIN cert.scts : VerifyOne(cert.scts[i], cert, issuer)

-----------------------------------------------------------------------------
(* The bundle *)

\* The statement is one of ours, about the artifact, with both kinds of measurement.
Measures(statement, digest) ==
    /\ statement.kind = "snp_tdx_multiplatform"
    /\ digest \in statement.subjects
    /\ statement.tdx /\ statement.snp # Refused

VerifyTinfoilSigstoreBundle(b, repo, digest) ==
    LET issuer == VerifyChain(b.certificate, b.stamp.integrated)
    IN  IF /\ VerifyRekor(b)
           /\ issuer # Refused
           /\ CheckIdentity(b.certificate, repo)
           /\ VerifySct(b.certificate, issuer)
           /\ b.envelope.sigs = <<Signed(b.certificate.key, b.envelope.statement)>>
           /\ Measures(b.envelope.statement, digest)
        THEN b.envelope.statement.snp
        ELSE Refused

-----------------------------------------------------------------------------
(* Releases, as workflows make them and the root knows them *)

\* A certificate log of the root has seen the certificate of a release.
Stamps(ctlog, sct, cert) ==
    /\ ctlog.sha256 /\ ctlog.id = sct.log /\ ctlog.keyHash = sct.log /\ WithinMs(ctlog.valid, sct.at)
    /\ sct.sig = Signed(ctlog.key, <<sct.at, cert.signer, PreCert(cert)>>)

ASSUME ProvenanceAssumption ==
    /\ {MaxLog, ShardBase} \subseteq Nat
    \* Rekor's key is the first of the root's, and all of its authorities can be read.
    /\ Root.tlogs \in Seq(Range(Root.tlogs)) /\ Root.tlogs # <<>>
    /\ Root.tlogs[1].sha256 /\ Root.tlogs[1].keyHash = Root.tlogs[1].id
    /\ Root.authorities \in Seq(Range(Root.authorities))
    /\ \A authority \in Range(Root.authorities) :
          /\ ~Unreadable(authority)
          /\ authority.chain \in Seq(Range(authority.chain)) /\ Refused \notin Range(authority.chain)
    \* What a workflow signed while its certificate was valid was logged while Rekor's key
    \* was, and the certificate was issued by an authority and seen by a certificate log.
    /\ \A r \in Releases :
          /\ r = [statement |-> r.statement, cert |-> r.cert, at |-> r.at]
          /\ {r.at, r.cert.from, r.cert.to} \subseteq Nat
          /\ r.at \in r.cert.from..r.cert.to =>
                /\ KeyValidAt(Root.tlogs[1].valid, r.at)
                /\ \E authority \in Range(Root.authorities) : Issues(authority, r.cert, r.at)
                /\ r.cert.scts # <<>> => \E i \in DOMAIN r.cert.scts, j \in DOMAIN Root.ctlogs :
                                            Stamps(Root.ctlogs[j], r.cert.scts[i], r.cert)

-----------------------------------------------------------------------------
ProvenanceInit == log = <<>>

\* Rekor appends a release or somebody else's entry.
AppendEntry ==
    /\ Len(log) < MaxLog
    /\ \E entry \in {r \in Releases : \A i \in DOMAIN log : log[i] # r} \cup {[other |-> Len(log)]} :
           log' = Append(log, entry)

ProvenanceSpec == ProvenanceInit /\ [][AppendEntry]_log

-----------------------------------------------------------------------------
(* Properties *)

Released == {i \in DOMAIN log : IsRelease(log[i])}

\* What a good release is, said of the release itself
Good(release, asked) ==
    /\ release.at \in release.cert.from..release.cert.to
    /\ release.cert.scts # <<>> /\ release.cert.usage = "code_signing" /\ ~release.cert.poisoned
    /\ release.cert.runner = "github_actions"
    /\ {release.cert.workflow, release.cert.source} = {asked.repo}
    /\ {release.cert.workflowRef, release.cert.sourceRef} = {"tag"}
    /\ asked.digest \in release.statement.subjects
    /\ release.statement.kind = "snp_tdx_multiplatform"
    /\ release.statement.tdx /\ release.statement.snp # Refused

\* Completeness of verify_proof and of the whole check: a good release verifies with the proof of
\* every tree size from its own entry on, wherever it stands in the tree.
GoodReleaseVerifies ==
    \A i \in Released, asked \in Asked :
        Good(log[i], asked) =>
            \A n \in i..Len(log) :
                VerifyTinfoilSigstoreBundle(Bundle(i, n), asked.repo, asked.digest) = log[i].statement.snp

\* What is accepted is the measurement of a logged good release.
BundleSound(b, asked) ==
    LET result == VerifyTinfoilSigstoreBundle(b, asked.repo, asked.digest)
    IN  result = Refused \/ \E k \in Released : Good(log[k], asked) /\ log[k].statement.snp = result

\* Soundness: whatever parts of two bundles are put together, an accepted measurement is that of a
\* logged good release for the repository and the artifact that were asked for.
AcceptedIsReleased ==
    \A i, j \in Released, asked \in Asked :
        \A n \in i..Len(log), m \in {j, Len(log)} :
            LET b == Bundle(i, n)
                other == Bundle(j, m)
            IN  /\ \A f \in DOMAIN b : BundleSound([b EXCEPT ![f] = other[f]], asked)
                /\ \A f \in DOMAIN b.proof : BundleSound([b EXCEPT !.proof[f] = other.proof[f]], asked)

\* A release's bundle verifies if and only if it is whole: every release of the log
\* verifies with an inclusion proof of any later log head, and what is accepted is
\* a release of the asked repository and digest, with all of its parts its own.
ReleasesAsLogged == GoodReleaseVerifies /\ AcceptedIsReleased
=============================================================================
