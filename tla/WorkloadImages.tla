--------------------------- MODULE WorkloadImages ---------------------------
(***************************************************************************)
(* Which container images an attested workload runs, and whether each is   *)
(* pinned by digest: parse_dstack_workload_images over a compose file, and *)
(* the Privatemode Contrast manifest and initdata.                         *)
(*                                                                         *)
(* A YAML document is a function from the paths of its scalars to their    *)
(* values.  A path is a sequence of keys, a key a sequence of segments:    *)
(* the key "a.b" is <<".a", ".b">>, the first item of a list <<"[0]">>.    *)
(* Putting the segments in a row is what format!("{path}.{key}") does.     *)
(***************************************************************************)
EXTENDS Integers, Sequences, SequencesExt, FiniteSetsExt

CONSTANTS
    Rejected,       \* a refusal
    ComposePaths,   \* where scalars of a compose file may stand
    Scalars,        \* and what they may be: [string, repository, digest]
    MaxScalars,     \* bound on the scalars of a compose file
    Mentions,       \* runs of image-reference tokens an initdata text may hold
    MaxMentions,    \* bound on how many it holds
    Actives         \* what else a Contrast deployment shows:
                    \* [manifest, coordinator, proxyPath, expectedPath]

ASSUME ImagesAssumption ==
    /\ ComposePaths \subseteq Seq(Seq(STRING)) \ {<<>>}
    /\ Mentions \subseteq Seq({"label", "r.io/app", "lib/app", "app", "@sha256:", "hex64", "hex"})

VARIABLES
    compose,    \* the compose file
    initdata    \* the initdata text, a sequence of tokens

imageVars == <<compose, initdata>>

Services == <<".services">>
ImageKey == <<".image">>
NonString == <<".<non-string>">>
BlankKey == <<". ">>
IsIndex(key) == key[1] = "[0]"

-----------------------------------------------------------------------------
(* parse_dstack_workload_images *)

Under(document, prefix) == {p \in DOMAIN document : IsStrictPrefix(prefix, p)}
IsMapping(document, prefix) ==
    Under(document, prefix) # {} /\ \A p \in Under(document, prefix) : ~IsIndex(p[Len(prefix) + 1])

RawImage(document, path, service) ==
    IF path \in DOMAIN document /\ document[path].string
    THEN [at |-> path, service |-> service, reference |-> document[path]]
    ELSE Rejected

ServiceImages(document) ==
    IF ~IsMapping(document, <<Services>>) THEN {Rejected}
    ELSE {IF name \notin {NonString, BlankKey} /\ IsMapping(document, <<Services, name>>)
          THEN RawImage(document, <<Services, name, ImageKey>>, name)
          ELSE Rejected : name \in {p[2] : p \in Under(document, <<Services>>)}}

\* Fault: the walk does not go into lists.
CollectMappingsOnly(document) ==
    {RawImage(document, p, FlattenSeq(Front(p))) :
        p \in {q \in DOMAIN document : Last(q) = ImageKey /\ \A k \in DOMAIN q : ~IsIndex(q[k])}}

\* The walk stops at the key image, whose value must be a string.
CollectDstackImageFields(document) ==
    {RawImage(document, p, FlattenSeq(Front(p))) :
        p \in {SubSeq(q, 1, SelectInSeq(q, LAMBDA key : key = ImageKey)) :
                  q \in {q \in DOMAIN document : ImageKey \in Range(q)}}}

ParseDigestPinnedImage(raw) ==
    IF raw.reference.repository # "" /\ raw.reference.digest \in {"d1", "d2"}
    THEN [service |-> raw.service, digest |-> raw.reference.digest]
    ELSE Rejected

\* The images of a compose file: at most one of each service
ParseDstackWorkloadImages(document) ==
    LET services == \E p \in DOMAIN document : p # <<>> /\ p[1] = Services
        raw == IF services THEN ServiceImages(document) ELSE CollectDstackImageFields(document)
        images == {ParseDigestPinnedImage(image) : image \in raw}
    IN  IF \/ Rejected \in raw \/ Rejected \in images
           \/ \E a, b \in raw : a # b /\ a.service = b.service
        THEN Rejected
        ELSE images

-----------------------------------------------------------------------------
(* Contrast initdata.  label opens and label escaped are the two markers; label is *)
(* made of characters an image reference may have, the rest of a marker is not.    *)

RefTokens == {"label", "r.io/app", "lib/app", "app", "@sha256:", "hex64", "hex"}
HexTokens == {"hex64", "hex"}

\* The run of tokens of a kind that starts at an index
RunFrom(text, from, kind) ==
    LET stops == {i \in from..Len(text) : text[i] \notin kind}
    IN  SubSeq(text, from, (IF stops = {} THEN Len(text) + 1 ELSE Min(stops)) - 1)

\* The registry, all that stands before the first slash, has a dot.
LooksLikeContainerImageRef(value) ==
    \E i \in DOMAIN value :
        /\ value[i] \in {"r.io/app", "lib/app"} /\ \A j \in 1..(i - 1) : value[j] \notin {"r.io/app", "lib/app"}
        /\ value[i] = "r.io/app" \/ \E j \in 1..(i - 1) : value[j] = "label"

\* Where a marker starts, and the offset at which the loop goes on after it
Markers(text, opens, offset) == {i \in offset..(Len(text) - 1) : text[i] = "label" /\ text[i + 1] = opens}
MarkerValue(text, opens, offset) == RunFrom(text, Min(Markers(text, opens, offset)) + 2, RefTokens)
NextOffset(text, opens, offset) ==
    IF Markers(text, opens, offset) = {} THEN offset
    ELSE Min(Markers(text, opens, offset)) + 2 + Max({1, Len(MarkerValue(text, opens, offset))})

\* The values found round by round; every round but the last goes on further right.
ExtractMarkerImageValues(text, opens) ==
    LET offset[k \in 0..Len(text)] == IF k = 0 THEN 1 ELSE NextOffset(text, opens, offset[k - 1])
        rounds == {k \in 0..Len(text) : Markers(text, opens, offset[k]) # {}}
    IN  {value \in {MarkerValue(text, opens, offset[k]) : k \in rounds} : LooksLikeContainerImageRef(value)}

\* Each run of reference characters around an @sha256: that 64 hex digits follow
ExtractDigestPinnedImageRefs(text) ==
    LET pins == {i \in DOMAIN text : text[i] = "@sha256:" /\ "hex64" \in Range(RunFrom(text, i + 1, HexTokens))}
        start(i) == Min({j \in 1..i : \A k \in j..i : text[k] \in RefTokens})
    IN  {value \in {RunFrom(text, start(i), RefTokens) : i \in pins} : LooksLikeContainerImageRef(value)}

HasValidSha256Pin(value) ==
    LET at == SelectInSeq(value, LAMBDA token : token = "@sha256:")
    IN  at # 0 /\ SubSeq(value, at + 1, Len(value)) = <<"hex64">>

\* The images an initdata text names; the pinned references in it when it names none
InitdataImages(text) ==
    LET names == ExtractMarkerImageValues(text, "escaped") \cup ExtractMarkerImageValues(text, "opens")
    IN  IF names = {} THEN ExtractDigestPinnedImageRefs(text) ELSE names

RequireImagesVerified(images) == images # {} /\ \A image \in images : HasValidSha256Pin(image)

-----------------------------------------------------------------------------
(* Contrast manifest *)

ExtractReferenceValues(manifest) == {entry \in manifest.references : entry.measurement # ""}

\* A policy is the coordinator by its role, or by the name its certificate carries.
ExtractManifestWorkloads(manifest) ==
    {IF policy.role = "coordinator" THEN "coordinator" ELSE policy.workload : policy \in manifest.policies} \ {""}

RequireManifestActive(manifest) ==
    ExtractReferenceValues(manifest) # {} /\ "coordinator" \in ExtractManifestWorkloads(manifest)

RequiredModelPath(path) == path # ""

VerifyActiveEvidence(evidence, text, expected) ==
    /\ evidence.manifest.sha256 = expected
    /\ RequireManifestActive(evidence.manifest)
    /\ RequireImagesVerified(InitdataImages(text))
    /\ evidence.coordinator
    /\ RequiredModelPath(evidence.expectedPath) /\ RequiredModelPath(evidence.proxyPath)
    /\ evidence.proxyPath = evidence.expectedPath

-----------------------------------------------------------------------------
(* Compose files and initdata texts, written piece by piece *)

ImageInit == compose = <<>> /\ initdata = <<>>

\* A path holds a scalar or leads to others, and a node is a list or a mapping.
Fits(path) ==
    \A p \in DOMAIN compose :
        /\ ~IsPrefix(p, path) /\ ~IsPrefix(path, p)
        /\ \A k \in DOMAIN path \cap DOMAIN p :
              SubSeq(p, 1, k - 1) = SubSeq(path, 1, k - 1) => (IsIndex(p[k]) <=> IsIndex(path[k]))

WriteScalar(path, scalar) ==
    /\ Cardinality(DOMAIN compose) < MaxScalars /\ Fits(path)
    /\ compose' = [p \in DOMAIN compose \cup {path} |-> IF p = path THEN scalar ELSE compose[p]]
    /\ UNCHANGED initdata

\* A name after a marker, or some other text; a quote closes it.
WriteText(before, mention) ==
    /\ Cardinality({i \in DOMAIN initdata : initdata[i] = "quote"}) < MaxMentions
    /\ initdata' = initdata \o before \o mention \o <<"quote">>
    /\ UNCHANGED compose

ImageNext ==
    \/ initdata = <<>> /\ \E path \in ComposePaths, scalar \in Scalars : WriteScalar(path, scalar)
    \/ /\ compose = <<>>
       /\ \E mention \in Mentions, before \in {<<>>, <<"label", "opens">>, <<"label", "escaped">>} :
             WriteText(before, mention)

ImageSpec == ImageInit /\ [][ImageNext]_imageVars

-----------------------------------------------------------------------------
(* Properties *)

\* The key image of a mapping names an image the deployment runs, at any depth.  With
\* services in the file, only they do.
RefRuns(document) ==
    {p \in DOMAIN document :
        /\ Last(p) = ImageKey
        /\ (\E q \in DOMAIN document : q[1] = Services) => Len(p) = 3 /\ p[1] = Services}

\* Whatever a workload is made to run is on the list its verdict is about: an accepted
\* compose file lists the digest of every image it runs, under a service of its own (two
\* places with one printed path are refused, not merged), and an accepted Contrast
\* deployment pins every image that a marker of its initdata names, however many pinned
\* references to other images stand around it.
OnlyPinnedImages ==
    /\ LET images == ParseDstackWorkloadImages(compose) IN
       images # Rejected =>
          /\ {image.digest : image \in images} = {compose[p].digest : p \in RefRuns(compose)}
          /\ Cardinality(images) = Cardinality(RefRuns(compose))
          /\ \A image \in images : image.digest \in {"d1", "d2"}
    /\ (\E active \in Actives : VerifyActiveEvidence(active, initdata, "m")) =>
          \A i \in DOMAIN initdata :
             initdata[i] \in {"opens", "escaped"} =>
                LET name == RunFrom(initdata, i + 1, RefTokens)
                IN  (name # <<>> /\ name[1] = "r.io/app") => HasValidSha256Pin(name)
=============================================================================
