------------------------------- MODULE MCRules -------------------------------
(***************************************************************************)
(* The rules that turn one document into another or into a decision:       *)
(* registries, route selection, event streams, request envelopes, redacted *)
(* messages, image lists and evidence documents.  They share no state;     *)
(* part, chosen at the start, says which of them moves.                    *)
(***************************************************************************)
EXTENDS Selection, Streams, Envelopes, Redaction, EvidenceForms, TLC

VARIABLE part

mcVars == <<part, registryVars, selectionVars, streamVars, envelopeVars, redactionVars, imageVars, formVars>>

-----------------------------------------------------------------------------
(* Registries *)

\* "1.9", "1.09", "1.10" and "1.10-b"
MCVersions == {<<49, 46, 57>>, <<49, 46, 48, 57>>, <<49, 46, 49, 48>>, <<49, 46, 49, 48, 45, 98>>}
Newest == <<49, 46, 49, 48, 45, 98>>

Plain == [id |-> "a", status |-> "active", provider |-> "tinfoil", pmodel |-> "t-small",
          family |-> "tinfoil_hw_verified_tls", api |-> "t", endpoint |-> "t", adapter |-> 1,
          freshness |-> "session", channel |-> "tls", tier |-> "tee_only", request |-> TRUE,
          response |-> FALSE, integrity |-> "any", gpus |-> {}, encrypt |-> FALSE,
          decrypt |-> FALSE, streaming |-> "supported", alias |-> "override",
          credentials |-> FALSE]

Sealed == [Plain EXCEPT !.id = "b", !.provider = "chutes", !.pmodel = "c-small", !.api = "c",
                        !.family = "chutes_live_e2ee", !.encrypt = TRUE, !.decrypt = TRUE,
                        !.streaming = "unsupported", !.freshness = "request"]

Fixture == [Sealed EXCEPT !.id = "d", !.provider = "demo", !.pmodel = "d-small", !.api = "d",
                          !.family = "fixture_dstack"]

Other == [Plain EXCEPT !.id = "e", !.provider = "acme", !.pmodel = "small", !.api = "e",
                       !.family = "dstack_app_e2ee", !.encrypt = TRUE, !.decrypt = TRUE,
                       !.streaming = "if_encryption"]

Second == [Plain EXCEPT !.id = "z"]

\* A route and what releases make of it: stronger, weaker, different or broken.
Versions(route) ==
    {route,
     [route EXCEPT !.tier = "full", !.gpus = {"g"}],
     [route EXCEPT !.status = "verification_only"],
     [route EXCEPT !.endpoint = "elsewhere"],
     [route EXCEPT !.freshness = "request", !.alias = "curated"],
     [route EXCEPT !.alias = "algorithmic"],
     [route EXCEPT !.credentials = TRUE]}

Model(name, aliases, routes) ==
    [canonical |-> name, display |-> name, kin |-> "k", aliases |-> aliases, routes |-> routes]

Published(version, models) ==
    [schema |-> 1, stamped |-> TRUE, synced |-> 1, version |-> version, enveloped |-> TRUE,
     signed |-> TRUE, signer |-> "operator", models |-> models]

Chain ==
    {Published(v, "small" :> Model("small", aliases, routes)) :
        v \in MCVersions, aliases \in {<<"little">>, <<"little", "tiny">>},
        routes \in {<<a>> : a \in Versions(Plain)} \cup {<<Sealed, a>> : a \in Versions(Plain)}
                   \cup {<<a, Second>> : a \in Versions(Plain)}
                   \cup {<<Plain, [Sealed EXCEPT !.status = s]>> : s \in {"blocked", "verification_only"}}}

Two ==
    {Published(v, ("small" :> Model("small", <<"little">>, <<Plain, Sealed>>))
                  @@ ("large" :> Model("large", aliases, <<[Other EXCEPT !.pmodel = p]>>))) :
        v \in {Newest}, aliases \in {<<>>, <<"little">>, <<"big">>}, p \in {"small", "e-large"}}

Bad ==
    {[Published(Newest, "small" :> Model("small", <<"little">>, <<Plain>>)) EXCEPT !.signed = FALSE],
     [Published(Newest, "small" :> Model("small", <<"little">>, <<Plain>>)) EXCEPT !.synced = Malformed],
     Published(Newest, "small" :> Model("large", <<"little">>, <<Plain>>))}

Demo == {[Published(Newest, "small" :> Model("small", <<>>, <<Fixture, Plain, Sealed>>))
             EXCEPT !.signer = "fixture"],
         Published(Newest, "small" :> Model("small", <<>>, <<Fixture, Plain, Sealed>>))}

MCRegistries == Chain \cup Two \cup Bad \cup Demo
MCNameOrder == <<"large", "small">>
MCNames == {"small", "large", "little", "tiny", "big", "t-small", "c-small"}

-----------------------------------------------------------------------------
(* Clients *)

Profile(route, execution) ==
    [f \in {"provider", "api", "freshness", "tier", "encrypt", "decrypt", "streaming",
            "credentials"} |-> route[f]]
    @@ [execution |-> execution, endpoints |-> {"chat", "embeddings"}, e2ee |-> FALSE,
        managed |-> FALSE]

Profiles ==
    ("tinfoil" :> Profile(Plain, "executable"))
    @@ ("chutes" :> [Profile(Sealed, "executable") EXCEPT !.managed = TRUE])
    @@ ("demo" :> Profile(Fixture, "executable_fixture"))
    @@ ("acme" :> [Profile(Other, "executable") EXCEPT !.e2ee = TRUE])

MCMatrices ==
    {Profiles,
     [Profiles EXCEPT !["chutes"] = [Profile(Sealed, "executable") EXCEPT !.e2ee = TRUE]],
     [Profiles EXCEPT !["chutes"] = Profile(Sealed, "executable_fixture")],
     [Profiles EXCEPT !["chutes"] = [@ EXCEPT !.encrypt = FALSE, !.decrypt = FALSE, !.managed = FALSE]],
     [Profiles EXCEPT !["acme"] = [@ EXCEPT !.encrypt = FALSE, !.decrypt = FALSE]],
     [Profiles EXCEPT !["tinfoil"] = [@ EXCEPT !.execution = "verification_only"]],
     [p \in DOMAIN Profiles \ {"acme"} |-> Profiles[p]]}

MCPins == {Nothing,
           [signers |-> {"operator"}, digest |-> Nothing, version |-> Nothing,
            minimum |-> <<49, 46, 57>>, maxAge |-> 1]}

MCOrders == {<<>>, "small" :> <<"chutes">>, "small" :> <<"chutes", "tinfoil">>,
             "small" :> <<"tinfoil", "chutes">>, "large" :> <<"tinfoil">>}

MCConfigs ==
    {[demo |-> demo, keys |-> keys, adapters |-> adapters, matrix |-> matrix, routing |-> routing,
      accepted |-> accepted, enforce |-> TRUE, insecure |-> FALSE, pin |-> pin] :
        demo \in BOOLEAN, keys \in {{"tinfoil", "acme"}, {"tinfoil", "chutes"}},
        adapters \in {<<>>, "demo" :> "demo"}, matrix \in MCMatrices, routing \in MCOrders,
        accepted \in {{"a", "b", "d", "e"}, {"a", "d", "e"}}, pin \in MCPins}

-----------------------------------------------------------------------------
(* Streams *)

MCEvents == {<<<<"data:", "a", "b">>>>, <<<<"data:", "u">>>>, <<<<"data:", "a">>>>,
             <<<<"data:", "e">>>>, <<<<"data:">>>>, <<<<":">>>>, <<<<"data:", "[DONE]">>>>,
             <<<<"event:">>, <<"data:", "u">>>>, <<<<"data:", "a", "b">>, <<"data:", "e">>>>}

MCBodies ==
    {[events |-> events, crlf |-> crlf, missing |-> missing] :
        crlf \in BOOLEAN, missing \in 0..2,
        events \in {<<e, f>> : e, f \in MCEvents}
                   \cup {<<<<<<"data:", "a", "b">>>>, e, <<<<"data:", "u">>>>>> : e \in MCEvents}}

-----------------------------------------------------------------------------
(* Envelopes *)

Way(id, scheme, key) ==
    [id |-> id, provider |-> "p", pmodel |-> "m", scheme |-> scheme, keyId |-> 1, key |-> key]

MCParts == <<1, 2>>

\* Two routes to one workload, one to another, and two workloads of each other scheme
MCWays == {Way("r1", "sdk", "k1"), Way("r2", "sdk", "k1"), Way("r1", "ehbp", "k2"),
           Way("r2", "ehbp", "k3"), Way("r1", "chutes", "k4"), Way("r2", "chutes", "k5")}

-----------------------------------------------------------------------------
(* Images and evidence documents *)

Key(segment) == <<segment>>
Web == Key(".web")
MCComposePaths ==
    {<<Services>>, <<Services, Web>>, <<Services, Web, ImageKey>>, <<Services, Key(".db"), ImageKey>>,
     <<Services, Web, Key(".build")>>, <<Services, NonString, ImageKey>>, <<Services, Key("[0]"), ImageKey>>,
     <<ImageKey>>, <<Web, ImageKey>>, <<Web, Key(".db"), ImageKey>>, <<<<".web", ".db">>, ImageKey>>,
     <<Web, Key("[0]"), ImageKey>>, <<<<".web", "[0]">>, ImageKey>>, <<Web, ImageKey, Key(".name")>>,
     <<NonString, ImageKey>>}
Scalar(string, repository, digest) == [string |-> string, repository |-> repository, digest |-> digest]
MCScalars == {Scalar(TRUE, "r", "d1"), Scalar(TRUE, "r", "d2"), Scalar(TRUE, "r", "none"), Scalar(TRUE, "", "d1"),
              Scalar(FALSE, "", "none")}
MCMentions == {<<>>, <<"r.io/app">>, <<"r.io/app", "@sha256:", "hex64">>, <<"r.io/app", "@sha256:", "hex">>,
               <<"r.io/app", "@sha256:", "hex64", "hex">>, <<"lib/app">>, <<"app", "@sha256:", "hex64">>,
               <<"r.io/app", "@sha256:", "hex", "@sha256:", "hex64">>}
Policy(role, workload) == [role |-> role, workload |-> workload]
Active(sha, measurement, policies, coordinator, proxy) ==
    [manifest |-> [sha256 |-> sha, references |-> {[measurement |-> measurement]}, policies |-> policies],
     coordinator |-> coordinator, proxyPath |-> proxy, expectedPath |-> "v1/m"]
Mesh == {Policy("coordinator", ""), Policy("", "web")}
MCActives ==
    {Active("m", "t", Mesh, TRUE, "v1/m"), Active("other", "t", Mesh, TRUE, "v1/m"), Active("m", "", Mesh, TRUE, "v1/m"),
     Active("m", "t", {Policy("", "web")}, TRUE, "v1/m"), Active("m", "t", Mesh, FALSE, "v1/m"),
     Active("m", "t", Mesh, TRUE, "v1/n")}

-----------------------------------------------------------------------------

NoStream == /\ answer = [events |-> <<>>, crlf |-> FALSE, missing |-> 0] /\ body = <<>> /\ arrived = 0 /\ raw = FALSE /\ frames = <<>> /\ buffer = <<>>
            /\ ended = FALSE /\ done = FALSE /\ out = <<>> /\ usage = FALSE /\ cut = FALSE

Init ==
    /\ part \in {"registry", "selection", "streams", "envelopes", "redaction", "images", "forms"}
    /\ \/ part = "registry" /\ RegistryInit
       \/ part = "selection" /\ registry \in Two \cup Demo /\ first = registry
       \/ part \notin {"registry", "selection"} /\ registry = Nothing /\ first = Nothing
    /\ SelectionInit
    /\ IF part = "streams" THEN StreamInit ELSE NoStream
    /\ EnvelopeInit
    /\ IF part = "redaction" THEN RedactionInit
       ELSE message = [way |-> "key", prefix |-> <<>>, value |-> <<"secret">>, suffix |-> <<>>, pieces |-> 0]
    /\ IF part = "images" THEN ImageInit
       ELSE compose = <<>> /\ initdata = <<>>
    /\ IF part = "forms" THEN FormInit
       ELSE form = [provider |-> "dstack", above |-> 1, spelling |-> 1, flaw |-> "none", list |-> "none",
                    nest |-> "attestation", facts |-> {}]

\* Which part moves, with its variables; the others keep theirs.
Others(moving) ==
    /\ IF moving = "registry" THEN TRUE ELSE UNCHANGED registryVars
    /\ IF moving = "selection" THEN TRUE ELSE UNCHANGED selectionVars
    /\ IF moving = "streams" THEN TRUE ELSE UNCHANGED streamVars
    /\ IF moving = "envelopes" THEN TRUE ELSE UNCHANGED envelopeVars
    /\ IF moving = "redaction" THEN TRUE ELSE UNCHANGED redactionVars
    /\ IF moving = "images" THEN TRUE ELSE UNCHANGED imageVars
    /\ IF moving = "forms" THEN TRUE ELSE UNCHANGED formVars

Next ==
    /\ UNCHANGED part
    /\ \/ part = "registry" /\ UpdateRegistry
       \/ part = "selection" /\ SelectionNext
       \/ part = "streams" /\ StreamNext
       \/ part = "envelopes" /\ EnvelopeNext
       \/ part = "redaction" /\ RedactionNext
       \/ part = "images" /\ ImageNext
       \/ part = "forms" /\ FormNext
    /\ Others(part)

Spec == Init /\ [][Next]_mcVars
=============================================================================
