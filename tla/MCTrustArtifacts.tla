-------------------------- MODULE MCTrustArtifacts --------------------------
(* Small instances of TrustArtifacts: a line of releases and what may go wrong with them. *)
EXTENDS TrustArtifacts, TLC

Release(version, minimum, epoch, measurements, from) ==
    [issuer |-> "issuer", version |-> version, minimum |-> minimum, epoch |-> epoch,
     from |-> from, measurements |-> measurements, routes |-> {"r1"}]

Signed(signer, payload) == [signer |-> signer, wellFormed |-> TRUE, payload |-> payload]

First == Release(1, 1, 0, {"m1", "m2"}, 0)
Second == Release(2, 1, 1, {"m1", "m2"}, 1)
Narrow == Release(2, 1, 1, {"m1"}, 0)
Third == Release(3, 2, 1, {"m1"}, 0)
Wide == Release(3, 2, 1, {"m1", "m2", "m3"}, 1)

MCBundled == Signed("fixture", First)

MCEnvelopes ==
    {MCBundled}
    \cup {Signed("operator", p) : p \in {First, Second, Narrow, Third, Wide}}
    \cup {Signed("operator", [Third EXCEPT !.issuer = "other"]),
          Signed("operator", [Third EXCEPT !.routes = {}]),
          Signed("fixture", Second),
          Signed("stranger", Third),
          [Signed("operator", Third) EXCEPT !.wellFormed = FALSE]}

\* Enough for two deployments with different fallbacks and keys.
MCFewEnvelopes ==
    {MCBundled, Signed("fixture", Second)}
    \cup {Signed("operator", p) : p \in {First, Second, Wide}}

AnyPin == [payload |-> Nothing, version |-> Nothing, minimum |-> 0, epoch |-> 0,
           signers |-> {}, maxAge |-> Nothing]

Remote == [source |-> "remote", supplied |-> MCBundled, cachePath |-> TRUE, demo |-> TRUE,
           operator |-> {"operator"}, exclusive |-> Nothing, pin |-> Nothing]

\* One deployment with a remote source and a cache path, without and with pins.
MCRemotes ==
    {Remote,
     [Remote EXCEPT !.pin = [AnyPin EXCEPT !.minimum = 2, !.signers = {"operator"}]],
     [Remote EXCEPT !.pin = [AnyPin EXCEPT !.maxAge = 1, !.epoch = 0]],
     [Remote EXCEPT !.pin = [AnyPin EXCEPT !.payload = Narrow, !.version = 2, !.epoch = 1]],
     [Remote EXCEPT !.demo = FALSE, !.supplied = Signed("operator", Second)]}

\* Every source and key set.
MCSources ==
    {[Remote EXCEPT !.source = source, !.supplied = supplied, !.cachePath = (source = "remote"),
                    !.demo = demo, !.operator = operator, !.exclusive = exclusive] :
        source \in {"bundled", "remote", "custom"},
        supplied \in {MCBundled, Signed("fixture", Second), Signed("operator", First)},
        demo \in BOOLEAN,
        operator \in {{}, {"operator"}},
        exclusive \in {Nothing, {}, {"operator"}}}
    \cup {[Remote EXCEPT !.cachePath = FALSE]}

Symmetry == Permutations(Inodes)

\* Deployments that should not share a cache path, and do: one trusts the fixture
\* keys as operator keys, one has a newer fallback.
MCShared ==
    {[Remote EXCEPT !.operator = {"operator", "fixture"}],
     [Remote EXCEPT !.supplied = Signed("operator", Second)]}

MCConfigs == MCRemotes \cup MCSources \cup MCShared

CONSTANT Other    \* the deployment that shares the cache path, or does not exist

VARIABLE shared

\* Either one deployment under any configuration, or two that share a path.
MCInit ==
    /\ Init
    /\ shared \in BOOLEAN
    /\ IF shared THEN \A b \in Builders : config[b] \in MCShared
       ELSE config[Other] = Remote

OneDeployment == builds'[Other] = 0

TwoDeployments ==
    /\ now' = 0
    /\ \A b \in Builders :
          builds'[b] <= 2 /\ candidate'[b] \in MCFewEnvelopes \cup {Nothing}

MCNext ==
    /\ Next
    /\ IF shared THEN TwoDeployments ELSE OneDeployment
    /\ UNCHANGED shared

MCSpec == MCInit /\ [][MCNext]_<<vars, shared>>
=============================================================================
