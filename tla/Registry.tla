------------------------------ MODULE Registry ------------------------------
(***************************************************************************)
(* The signed provider registry: which models exist, under which names,    *)
(* and over which routes.  An operator replaces a registry by a candidate  *)
(* when verify_update_to accepts it; diff_to tells a reviewer what a       *)
(* candidate changes; matching_routes answers requests from the registry   *)
(* in force.                                                               *)
(*                                                                         *)
(* Names, endpoints and evidence families are small sets.  A version is a  *)
(* sequence of character codes, since its order is what updates rest on.   *)
(***************************************************************************)
EXTENDS Integers, Sequences, FiniteSets, SequencesExt, Lists

CONSTANTS
    Registries,  \* the registries an operator's pipeline may sign
    NameOrder,   \* canonical names in the order of the registry's BTreeMap
    Names,       \* model names that requests use
    Nothing      \* no value

VARIABLES
    registry,    \* the registry in force, Nothing before one is loaded
    first        \* ghost: the registry the chain of updates started from

registryVars == <<registry, first>>

-----------------------------------------------------------------------------
(* What is deserialised: ProviderRegistry, ModelDefinition, RouteDefinition *)

RouteFields == {"id", "status", "provider", "pmodel", "family", "api", "endpoint", "adapter",
                "freshness", "channel", "tier", "request", "response", "integrity", "gpus",
                "encrypt", "decrypt", "streaming", "alias", "credentials"}

RouteTypeOK(route) ==
    /\ route = [f \in RouteFields |-> route[f]]
    /\ route.alias \in {"algorithmic", "provider", "override", "curated"}
    /\ {route.encrypt, route.decrypt, route.credentials} \subseteq BOOLEAN

ModelTypeOK(model) ==
    /\ {"canonical", "aliases", "routes"} \subseteq DOMAIN model
    /\ model.aliases \in Seq(ToSet(model.aliases))
    /\ model.routes \in Seq(ToSet(model.routes))
    /\ \A route \in ToSet(model.routes) : RouteTypeOK(route)

\* NameOrder is the order of the names of all registries.
ASSUME RegistryAssumption ==
    /\ NameOrder \in Seq(ToSet(NameOrder))
    /\ \A i, j \in DOMAIN NameOrder : NameOrder[i] = NameOrder[j] => i = j
    /\ \A r \in Registries :
          /\ {"version", "models"} \subseteq DOMAIN r
          /\ r.version \in Seq(Nat)
          /\ DOMAIN r.models \subseteq ToSet(NameOrder)
          /\ \A m \in DOMAIN r.models : ModelTypeOK(r.models[m])

-----------------------------------------------------------------------------
(* compare_artifact_versions *)

Digit(c) == c \in 48..57

\* Maximal runs of digits and of other characters
Runs(v) ==
    LET starts == {i \in DOMAIN v : i = 1 \/ Digit(v[i]) # Digit(v[i - 1])}
        from == Keep([i \in DOMAIN v |-> i], starts)
        To(i) == CHOOSE j \in i..Len(v) : /\ j = Len(v) \/ j + 1 \in starts
                                         /\ \A x \in (i + 1)..j : x \notin starts
    IN  [k \in DOMAIN from |-> SubSeq(v, from[k], To(from[k]))]

\* str::cmp: the first different byte decides, and a prefix comes first
Bytewise(a, b) ==
    LET common == DOMAIN a \cap DOMAIN b
        differ == {i \in common : a[i] # b[i]}
        i == CHOOSE x \in differ : \A y \in differ : x <= y
    IN  IF differ = {} THEN Len(a) - Len(b) ELSE a[i] - b[i]

TrimZeros(run) ==
    LET kept == {i \in DOMAIN run : \E j \in 1..i : run[j] # 48}
    IN  SubSeq(run, Len(run) - Cardinality(kept) + 1, Len(run))

CompareRuns(a, b) ==
    IF Digit(a[1]) /\ Digit(b[1])
    THEN LET left == TrimZeros(a)  right == TrimZeros(b)
         IN  IF Len(left) # Len(right) THEN Len(left) - Len(right) ELSE Bytewise(left, right)
    ELSE Bytewise(a, b)

\* Negative, zero or positive, as Ordering is Less, Equal or Greater
CompareArtifactVersions(left, right) ==
    LET l == Runs(left)  r == Runs(right)
        differ == {i \in DOMAIN l \cap DOMAIN r : CompareRuns(l[i], r[i]) # 0}
        i == CHOOSE x \in differ : \A y \in differ : x <= y
    IN  IF differ = {} THEN Len(l) - Len(r) ELSE CompareRuns(l[i], r[i])

-----------------------------------------------------------------------------
(* RouteDefinition *)

SelectableForVerification(route) == route.status \in {"active", "verification_only"}
SelectableForChat(route) == route.status = "active"
SecuritySensitive(route) == SelectableForVerification(route)

LifecycleRank(status) ==
    CASE status = "active" -> 2 [] status = "verification_only" -> 1 [] OTHER -> 0
TierRank(tier) ==
    CASE tier = "none" -> 0 [] tier = "tee_only" -> 1 [] OTHER -> 2
IntegrityRank(requirement) ==
    CASE requirement = "not_required" -> 0 [] requirement = "any" -> 1 [] OTHER -> 2
ConfidenceRank(alias) ==
    CASE alias = "algorithmic" -> 0 [] alias = "provider" -> 1 [] alias = "override" -> 2
      [] OTHER -> 3

AliasAllowedByDefault(alias) == alias \in {"curated", "override"}

MatchesRequestModel(route, model, name) ==
    \/ route.pmodel = name
    \/ model.canonical = name
    \/ AliasAllowedByDefault(route.alias) /\ Contains(model.aliases, name)

IdentityFields == {"provider", "pmodel", "family", "api", "endpoint", "adapter"}

\* verify_not_weakened_by.  What is bound or encrypted is a Boolean of the route.
NotWeakenedBy(current, candidate) ==
    /\ LifecycleRank(candidate.status) >= LifecycleRank(current.status)
    /\ \A f \in IdentityFields : candidate[f] = current[f]
    /\ TierRank(candidate.tier) >= TierRank(current.tier)
    /\ candidate.channel = current.channel
    /\ current.request => candidate.request
    /\ current.response => candidate.response
    /\ IntegrityRank(candidate.integrity) >= IntegrityRank(current.integrity)
    /\ IntegrityRank(current.integrity) >= 2 => candidate.integrity = current.integrity
    /\ current.gpus \subseteq candidate.gpus
    /\ current.encrypt => candidate.encrypt
    /\ current.decrypt => candidate.decrypt
    /\ ConfidenceRank(candidate.alias) >= ConfidenceRank(current.alias)
    /\ current.streaming = "unsupported" => candidate.streaming = "unsupported"

-----------------------------------------------------------------------------
(* ProviderRegistry *)

Models(r) == {r.models[m] : m \in DOMAIN r.models}
RoutesOf(model) == ToSet(model.routes)
Distinct(seq) == Cardinality(ToSet(seq)) = Len(seq)
Sensitive(model) == {route \in RoutesOf(model) : SecuritySensitive(route)}

Malformed == 0 - 1  \* a timestamp that does not parse

\* validate_security_invariants.  An empty name is "", and a URL with credentials is
\* a field of the route.
ValidateSecurityInvariants(r) ==
    /\ r.schema = 1 /\ r.stamped /\ r.synced # Malformed
    /\ \A m \in DOMAIN r.models :
          LET model == r.models[m] IN
          /\ model.canonical = m
          /\ ~Contains(model.aliases, "") /\ Distinct(model.aliases)
          /\ \A other \in DOMAIN r.models \ {m} :
                /\ ToSet(model.aliases) \cap ToSet(r.models[other].aliases) = {}
                /\ \A a \in Sensitive(model), b \in Sensitive(r.models[other]) :
                      <<a.provider, a.pmodel>> # <<b.provider, b.pmodel>>
          /\ \A route \in RoutesOf(model) :
                /\ "" \notin {route.id, route.provider, route.pmodel}
                /\ ~route.credentials
                /\ SecuritySensitive(route) => route.alias # "algorithmic"

\* Fault: the first candidate route of the same provider is taken for the route.
FindRouteByProvider(routes, route) ==
    {routes[i] : i \in {j \in DOMAIN routes :
        /\ routes[j].provider = route.provider
        /\ \A k \in 1..(j - 1) : routes[k].provider # route.provider}}

\* The candidate route that stands for a current one: find takes the first of its id.
FindRoute(routes, route) ==
    {routes[i] : i \in {j \in DOMAIN routes :
        routes[j].id = route.id /\ \A k \in 1..(j - 1) : routes[k].id # route.id}}

\* verify_update_to
VerifyUpdateTo(current, candidate) ==
    /\ ValidateSecurityInvariants(current) /\ ValidateSecurityInvariants(candidate)
    /\ CompareArtifactVersions(candidate.version, current.version) >= 0
    /\ \A m \in DOMAIN current.models :
          /\ m \in DOMAIN candidate.models
          /\ candidate.models[m].canonical = current.models[m].canonical
          /\ ToSet(current.models[m].aliases) \subseteq ToSet(candidate.models[m].aliases)
          /\ \A route \in Sensitive(current.models[m]) :
                \E found \in FindRoute(candidate.models[m].routes, route) : NotWeakenedBy(route, found)

\* into_verified_update_from_with_keys: schema and signature of the envelope first
IntoVerifiedUpdate(current, candidate) ==
    /\ candidate.enveloped /\ candidate.signed
    /\ VerifyUpdateTo(current, candidate)

\* matching_routes: models in name order, the routes of each as they are listed
Matches(model, route, provider, name) ==
    /\ SelectableForVerification(route)
    /\ provider \in {"any", route.provider}
    /\ MatchesRequestModel(route, model, name)

RoutesMatching(model, provider, name) ==
    LET found == Keep(model.routes,
                      {route \in RoutesOf(model) : Matches(model, route, provider, name)})
    IN  [i \in DOMAIN found |-> [model |-> model.canonical, route |-> found[i]]]

MatchingRoutes(r, provider, name) ==
    LET present == Keep(NameOrder, DOMAIN r.models)
    IN  FlattenSeq([k \in DOMAIN present |-> RoutesMatching(r.models[present[k]], provider, name)])

Matched(r, provider, name) == ToSet(MatchingRoutes(r, provider, name))

\* ProviderRegistryPin, against the envelope, its digest and the time.  Equal
\* payloads and only those have one digest.
PinAccepts(pin, r, now) ==
    /\ pin.signers = {} \/ r.signer \in pin.signers
    /\ pin.digest \in {Nothing, r}
    /\ pin.version \in {Nothing, r.version}
    /\ pin.minimum # Nothing => CompareArtifactVersions(r.version, pin.minimum) >= 0
    /\ pin.maxAge # Nothing => r.synced <= now /\ now - r.synced <= pin.maxAge

-----------------------------------------------------------------------------
(* diff_to *)

Change(kind, model, route, field, review) ==
    [kind |-> kind, model |-> model, route |-> route, field |-> field, review |-> review]

\* The fields of a route that are compared: all but its id; URLs carry no credentials.
Compared(route) == DOMAIN route \ {"id", "credentials"}

\* route_map keeps the last of several routes with one id.
RouteMap(model) ==
    {model.routes[i] : i \in {j \in DOMAIN model.routes :
        \A k \in DOMAIN model.routes : k > j => model.routes[k].id # model.routes[j].id}}

\* Fault: routes that only the candidate has are not reported.
RouteChangesOfCurrent(m, current, candidate) ==
    UNION {
        IF \A other \in RouteMap(candidate) : other.id # route.id
        THEN {Change("route_removed", m, route.id, "", SecuritySensitive(route))}
        ELSE UNION {{Change("field_changed", m, route.id, f, TRUE) :
                        f \in {g \in Compared(route) : other[g] # route[g]}} :
                    other \in {x \in RouteMap(candidate) : x.id = route.id}} :
        route \in RouteMap(current)}

RouteChanges(m, current, candidate) ==
    RouteChangesOfCurrent(m, current, candidate)
    \cup {Change("route_added", m, route.id, "", SecuritySensitive(route)) :
            route \in {x \in RouteMap(candidate) : \A y \in RouteMap(current) : y.id # x.id}}

ModelChanges(m, current, candidate) ==
    {Change("field_changed", m, "", f, FALSE) :
        f \in {g \in {"display", "kin"} : current[g] # candidate[g]}}
    \cup {Change("alias_added", m, "", a, TRUE) :
            a \in ToSet(candidate.aliases) \ ToSet(current.aliases)}
    \cup {Change("alias_removed", m, "", a, TRUE) :
            a \in ToSet(current.aliases) \ ToSet(candidate.aliases)}
    \cup RouteChanges(m, current, candidate)

DiffTo(current, candidate) ==
    LET old == DOMAIN current.models  new == DOMAIN candidate.models IN
    {Change("model_removed", m, "", "", TRUE) : m \in old \ new}
    \cup (UNION {ModelChanges(m, current.models[m], candidate.models[m]) : m \in old \cap new})
    \cup {Change("model_added", m, "", "", Sensitive(candidate.models[m]) # {}) : m \in new \ old}

ReviewRequired(changes) == \E c \in changes : c.review

-----------------------------------------------------------------------------
(* The chain of updates *)

RegistryInit ==
    /\ registry \in {r \in Registries : r.enveloped /\ r.signed /\ ValidateSecurityInvariants(r)}
    /\ first = registry

\* An update is applied; what verify_update_to refuses is not.
UpdateRegistry ==
    /\ \E candidate \in Registries :
          IntoVerifiedUpdate(registry, candidate) /\ registry' = candidate
    /\ UNCHANGED first

RegistrySpec == RegistryInit /\ [][UpdateRegistry]_registryVars

-----------------------------------------------------------------------------
(* Properties *)

\* However many accepted updates lie between them, whatever a request could be
\* matched to in the first registry it can still be matched to, over the same
\* endpoint and with nothing weakened, and the version has not gone back.  Each
\* update is only compared with its predecessor.
ChainKeepsRoutes ==
    registry # Nothing =>
    /\ CompareArtifactVersions(registry.version, first.version) >= 0
    /\ \A name \in Names : \A old \in Matched(first, "any", name) :
          \E new \in Matched(registry, "any", name) :
              /\ new.model = old.model /\ new.route.id = old.route.id
              /\ SelectableForChat(old.route) => SelectableForChat(new.route)
              /\ NotWeakenedBy(old.route, new.route)

\* No model of the registry has two routes of one id.
DistinctIds(r) ==
    \A m \in DOMAIN r.models : LET routes == r.models[m].routes IN
        \A i, j \in DOMAIN routes : routes[i].id = routes[j].id => i = j

\* A reviewer who looks at a candidate only when diff_to asks for a review misses
\* nothing: otherwise every request is matched to the very same routes.
SilentDiffIsHarmless ==
    registry # Nothing =>
    \A candidate \in Registries :
        (/\ ValidateSecurityInvariants(candidate)
         /\ DistinctIds(registry) /\ DistinctIds(candidate)
         /\ ~ReviewRequired(DiffTo(registry, candidate))) =>
            \A name \in Names : Matched(registry, "any", name) = Matched(candidate, "any", name)

\* However long the chain of accepted registry updates, no route loses what the
\* first registry promised, and a diff that reports nothing hides no change that
\* matters.
UpdatesAreSafe == ChainKeepsRoutes /\ SilentDiffIsHarmless
=============================================================================
