----------------------------- MODULE Selection -----------------------------
(***************************************************************************)
(* Building a client from a registry, a compatibility matrix and the       *)
(* application's credentials; which routes a request may use; in which     *)
(* form its body leaves.                                                   *)
(*                                                                         *)
(* Which routes the policy accepts is the set accepted of their ids: the   *)
(* comparison of a route with a policy is RouteSatisfiesPolicy of module   *)
(* Verifier.                                                               *)
(***************************************************************************)
EXTENDS Registry

CONSTANTS
    Configs,    \* what applications set on the builder
    Now         \* the clock of the build

VARIABLES
    client,     \* the client that was built, or Nothing
    sent        \* the last request: its route, purpose and form, or why it was refused

selectionVars == <<client, sent>>

Modes == {"chat", "stream", "embeddings"}
Executions == {"executable", "executable_fixture", "shape_fixture", "verification_only"}

\* A profile's execution is of the enum, a provider order a list.
ASSUME ConfigsAssumption ==
    \A config \in Configs :
        /\ \A p \in DOMAIN config.matrix : config.matrix[p].execution \in Executions
        /\ \A m \in DOMAIN config.routing : config.routing[m] \in Seq(ToSet(config.routing[m]))

-----------------------------------------------------------------------------
(* ProviderCompatibilityMatrix.  A profile has the fields of ProviderCompatibility. *)

Required(profile) == profile.encrypt \/ profile.decrypt

ProfileValid(provider, profile) ==
    /\ profile.provider = provider
    /\ profile.api # "" /\ ~profile.credentials
    /\ "chat" \in profile.endpoints
    /\ profile.managed => /\ profile.execution = "executable"
                          /\ profile.encrypt /\ profile.decrypt
                          /\ ~profile.e2ee

MatrixValid(matrix) == \A p \in DOMAIN matrix : ProfileValid(p, matrix[p])

\* Fault: what the profile encrypts is not compared with what the route requires.
ValidateRouteButEncryption(profile, route) ==
    /\ ~profile.credentials /\ ~route.credentials
    /\ \A f \in {"provider", "api", "freshness", "tier", "streaming"} : route[f] = profile[f]

ValidateRoute(profile, route) ==
    /\ ~profile.credentials /\ ~route.credentials
    /\ \A f \in {"provider", "api", "freshness", "tier", "encrypt", "decrypt", "streaming"} :
          route[f] = profile[f]

ValidateRegistryRoutes(matrix, r) ==
    \A model \in Models(r) : \A route \in Sensitive(model) :
        route.provider \in DOMAIN matrix /\ ValidateRoute(matrix[route.provider], route)

AllowsChatExecution(profile) == profile.execution \in {"executable", "executable_fixture"}

\* request_confidentiality_for_chat: the form of a body, or an error
RequestConfidentiality(profile) ==
    IF ~Required(profile) THEN "plaintext"
    ELSE CASE profile.execution \in {"executable_fixture", "shape_fixture"} -> "fixture"
           [] profile.execution = "verification_only" -> "error"
           [] profile.execution = "executable" ->
                 IF profile.e2ee THEN "sdk" ELSE IF profile.managed THEN "adapter" ELSE "error"

\* adapt_chat_request and adapt_embeddings_request.  The model id becomes the
\* provider's, and max_tokens may be renamed.
AdaptRequest(profile, mode) ==
    IF \/ (IF mode = "embeddings" THEN "embeddings" ELSE "chat") \notin profile.endpoints
       \/ mode = "stream" /\ profile.streaming = "unsupported"
    THEN "error"
    ELSE RequestConfidentiality(profile)

-----------------------------------------------------------------------------
(* Adapters *)

\* install_default_credential_adapters: the adapter of an API key depends on the
\* provider and on the families of its active routes.
DefaultAdapter(provider, families) ==
    LET live == [chutes |-> "chutes_live_e2ee", near |-> "near_hw_verified_tls",
                 ppq |-> "ppq_ehbp", redpill |-> "redpill_aci_verified_tls"]
    IN  IF provider = "tinfoil" \/ (provider \in DOMAIN live /\ live[provider] \in families)
        THEN provider
        ELSE IF families \cap {"dstack_app_e2ee", "chutes_e2ee"} # {}
             THEN "confidential" ELSE "openai"

ActiveFamilies(r, provider) ==
    {route.family : route \in {x \in UNION {RoutesOf(model) : model \in Models(r)} :
                                  x.provider = provider /\ SelectableForChat(x)}}

InstalledAdapters(r, keys, adapters) ==
    LET default == {p \in keys \ DOMAIN adapters : ActiveFamilies(r, p) # {}}
    IN  [p \in DOMAIN adapters \cup default |->
            IF p \in default THEN DefaultAdapter(p, ActiveFamilies(r, p)) ELSE adapters[p]]

\* The collateral sources the active routes need: without one, verification fails
LiveCollateralNeeds(r) ==
    LET tinfoil == "tinfoil_hw_verified_tls" \in ActiveFamilies(r, "tinfoil")
        families == UNION {ActiveFamilies(r, route.provider) :
                              route \in UNION {RoutesOf(model) : model \in Models(r)}}
    IN  [vcek |-> tinfoil,
         tdx |-> tinfoil \/ families \cap {"chutes_live_e2ee", "near_hw_verified_tls", "ppq_ehbp",
                                           "redpill_aci_verified_tls"} # {}]

\* The forms in which an adapter takes a body.  Adapters without streaming or
\* embeddings inherit the refusal of the trait.
Accepts(adapter, mode) ==
    CASE adapter = "demo" /\ mode # "stream" -> {"fixture"}
      [] adapter \in {"openai", "tinfoil"} /\ mode = "stream" -> {"plaintext"}
      [] adapter \in {"openai", "tinfoil", "confidential"} /\ mode # "stream" -> {"plaintext", "sdk"}
      [] adapter \in {"near", "redpill", "tinfoil_fixture"} /\ mode = "chat" -> {"plaintext"}
      [] adapter \in {"ppq", "chutes"} /\ mode = "chat" -> {"adapter"}
      [] OTHER -> {}

-----------------------------------------------------------------------------
(* Selection *)

\* route_satisfies_policy
RouteSatisfies(c, route, profile, purpose) ==
    /\ IF purpose = "verify" THEN SelectableForVerification(route) ELSE SelectableForChat(route)
    /\ route.id \in c.accepted
    /\ purpose # "verify" => AllowsChatExecution(profile) /\ purpose \in profile.endpoints

\* sort_by_key is stable: all of the first provider, then all of the second, ...
InOrder(order, candidates) ==
    FlattenSeq([i \in DOMAIN order |->
        Keep(candidates, {c \in ToSet(candidates) : c.route.provider = order[i]})])

\* Fault: the configured order is ignored.
CandidatesUnordered(c, provider, name, purpose) == MatchingRoutes(c.registry, provider, name)

\* The provider order is that of the first candidate's model.
Candidates(c, provider, name, purpose) ==
    LET matching == MatchingRoutes(c.registry, provider, name)
    IN  IF /\ matching # <<>> /\ provider = "any" /\ purpose # "verify"
           /\ matching[1].model \in DOMAIN c.routing
        THEN InOrder(c.routing[matching[1].model], matching)
        ELSE matching

\* select_routes.  An error, here no candidate, where a candidate with an adapter
\* has no profile or one that disagrees with the route.
SelectRoutes(c, provider, name, purpose) ==
    LET candidates == Candidates(c, provider, name, purpose)
        installed == {x \in ToSet(candidates) : x.route.provider \in DOMAIN c.adapters}
    IN  IF \A x \in installed : /\ x.route.provider \in DOMAIN c.matrix
                               /\ ValidateRoute(c.matrix[x.route.provider], x.route)
        THEN Keep(candidates, {x \in installed :
                RouteSatisfies(c, x.route, c.matrix[x.route.provider], purpose)})
        ELSE <<>>

\* send_chat_completion_request and the stream: routes that may stream
Streamable(candidates) ==
    Keep(candidates, {x \in ToSet(candidates) :
        x.route.streaming # "unsupported" /\ ~x.route.encrypt /\ ~x.route.decrypt})

\* verify_route_for: without a model, the first of the provider that has a route
VerifyRouteFor(c, provider, name, purpose) ==
    LET offered == Keep(NameOrder, {m \in DOMAIN c.registry.models :
                      \E route \in RoutesOf(c.registry.models[m]) : route.provider = provider})
        tried == IF name = "" THEN offered ELSE <<name>>
        found == Keep(tried, {m \in ToSet(tried) : SelectRoutes(c, provider, m, purpose) # <<>>})
    IN  IF found = <<>> THEN Nothing ELSE SelectRoutes(c, provider, found[1], purpose)[1]

\* confidential_route and confidential_model: what the application is shown
ConfidentialRoutes(c, model) ==
    LET listed == Keep(model.routes, {route \in RoutesOf(model) :
                     /\ SelectableForVerification(route)
                     /\ route.provider \in DOMAIN c.adapters
                     /\ route.provider \in DOMAIN c.matrix
                     /\ ValidateRoute(c.matrix[route.provider], route)
                     /\ RouteSatisfies(c, route, c.matrix[route.provider], "verify")})
        order == c.routing[model.canonical]
        rest == Keep(listed, {route \in ToSet(listed) : ~Contains(order, route.provider)})
        named == FlattenSeq([i \in DOMAIN order |->
                    Keep(listed, {route \in ToSet(listed) : route.provider = order[i]})])
    IN  IF model.canonical \in DOMAIN c.routing THEN named \o rest ELSE listed

ChatExecutable(c, model, route) ==
    /\ model.canonical \in DOMAIN c.routing => Contains(c.routing[model.canonical], route.provider)
    /\ RouteSatisfies(c, route, c.matrix[route.provider], "chat")

ChatRoutes(c, model) ==
    LET shown == ConfidentialRoutes(c, model)
    IN  Keep(shown, {route \in ToSet(shown) : ChatExecutable(c, model, route)})

ListedModels(c) == {model \in Models(c.registry) : ChatRoutes(c, model) # <<>>}

-----------------------------------------------------------------------------
(* ConfidentialInferenceBuilder::build *)

FixtureFamily(family) == family \in {"fixture_dstack"}

\* Outside demo mode routes with fixture evidence are dropped, and models without routes.
DropFixtureRoutes(r) ==
    LET Kept(m) == Keep(r.models[m].routes,
                        {route \in RoutesOf(r.models[m]) : ~FixtureFamily(route.family)})
    IN  [r EXCEPT !.models = [m \in {x \in DOMAIN r.models : Kept(x) # <<>>} |->
            [r.models[m] EXCEPT !.routes = Kept(m)]]]

\* validate_provider_routing
RoutingValid(c) ==
    \A m \in DOMAIN c.routing :
        /\ m \in DOMAIN c.registry.models
        /\ c.routing[m] # <<>> /\ Distinct(c.routing[m])
        /\ \A p \in ToSet(c.routing[m]) :
              /\ p \in DOMAIN c.adapters /\ p \in DOMAIN c.matrix
              /\ \E route \in RoutesOf(c.registry.models[m]) :
                    /\ route.provider = p
                    /\ ValidateRoute(c.matrix[p], route)
                    /\ RouteSatisfies(c, route, c.matrix[p], "chat")

\* The operator's keys, or in demo mode the fixture keys, have signed the registry.
SourceTrusted(config, r) == r.enveloped /\ r.signed /\ (r.signer = "fixture" => config.demo)

Built(config, r) ==
    LET used == IF config.demo THEN r ELSE DropFixtureRoutes(r)
    IN  [registry |-> used, matrix |-> config.matrix, routing |-> config.routing,
         adapters |-> InstalledAdapters(used, config.keys, config.adapters),
         accepted |-> config.accepted, demo |-> config.demo, needs |-> LiveCollateralNeeds(used)]

Build(config) ==
    /\ client = Nothing
    /\ config.enforce \/ config.insecure
    /\ SourceTrusted(config, registry) /\ ValidateSecurityInvariants(registry)
    /\ config.pin # Nothing => PinAccepts(config.pin, registry, Now)
    /\ MatrixValid(config.matrix)
    /\ ValidateRegistryRoutes(config.matrix, Built(config, registry).registry)
    /\ RoutingValid(Built(config, registry))
    /\ client' = Built(config, registry)
    /\ UNCHANGED sent

\* Requests try the selected routes in turn (module RouteDispatch): any of them may
\* be the one that is used.  Its body is adapted, then handed to its adapter.  A chat on a
\* VerifiedRoute sends on the route it verified and does not look at its status again.
Send(provider, name, mode) ==
    LET purpose == IF mode = "stream" THEN "chat" ELSE mode
        selected == IF provider = "any" THEN SelectRoutes(client, provider, name, purpose)
                    ELSE LET one == VerifyRouteFor(client, provider, name, purpose)
                         IN  IF one = Nothing THEN <<>> ELSE <<one>>
        candidates == IF mode = "stream" THEN Streamable(selected) ELSE selected
    IN  /\ client # Nothing
        /\ \E x \in ToSet(candidates) :
              LET form == AdaptRequest(client.matrix[x.route.provider], mode)
                  adapter == client.adapters[x.route.provider]
              IN  /\ form # "error" /\ form \in Accepts(adapter, mode)
                  /\ sent' = [route |-> x.route, mode |-> mode, form |-> form, adapter |-> adapter]
        /\ UNCHANGED client

SelectionInit == client = Nothing /\ sent = Nothing

SelectionNext ==
    \/ \E config \in Configs : Build(config)
    \/ \E provider \in {"any"} \cup {route.provider : route \in UNION {RoutesOf(m) : m \in Models(registry)}},
          name \in Names \cup {""}, mode \in Modes : Send(provider, name, mode)

SelectionSpec ==
    /\ registry \in Registries /\ first = registry /\ SelectionInit
    /\ [][SelectionNext /\ UNCHANGED registryVars]_<<registryVars, selectionVars>>

-----------------------------------------------------------------------------
(* Properties *)

\* models() and select_routes decide alike, in different code: a model is listed
\* if and only if a chat request for its canonical name finds routes, and these are
\* the routes confidential_models marks executable, in the same order.  (For names
\* that no other model of the registry answers to.)
ListedIsServed ==
    client # Nothing =>
        \A model \in Models(client.registry) :
            LET name == model.canonical
                served == SelectRoutes(client, "any", name, "chat")
            IN  (\A x \in Matched(client.registry, "any", name) : x.model = name) =>
                    ChatRoutes(client, model) = [i \in DOMAIN served |-> served[i].route]

\* What the signed registry says must be encrypted is never handed to an adapter in
\* the clear, although the form of a body is decided by the compatibility matrix
\* alone; the fixture cipher, which hides nothing, never reaches an adapter that
\* sends; streams carry only what may be plaintext; and without the demo provider
\* no route with fixture evidence is ever used.
NothingInTheClear ==
    sent # Nothing =>
        /\ sent.route.encrypt \/ sent.route.decrypt => sent.form # "plaintext"
        /\ sent.form = "fixture" => sent.adapter = "demo"
        /\ sent.mode = "stream" => ~sent.route.encrypt /\ ~sent.route.decrypt
        /\ FixtureFamily(sent.route.family) => client.demo

\* What the model list offers is what a request gets, in the configured order, and
\* no route that must encrypt is served by an adapter that would not.
SelectionSound == ListedIsServed /\ NothingInTheClear
=============================================================================
