------------------------ MODULE TrustArtifactsProofs ------------------------
(***************************************************************************)
(* What a build activates is trusted and no weaker than its fallback, for  *)
(* any configurations, envelopes, number of builds and crashes.            *)
(*                                                                         *)
(* The cache file is shared with other builds and is never trusted: what   *)
(* the first invariant follows is the envelope in a build's hands, from    *)
(* the cache or the remote to its activation.  The second and the third    *)
(* follow the files of a deployment alone on its cache path: they are      *)
(* whole, and they remember what it has activated.                         *)
(*                                                                         *)
(* The last part is about what reference values are made from: the bundle  *)
(* of a release verifies if and only if it is whole, in a log of any size  *)
(* and under any root.                                                     *)
(***************************************************************************)
EXTENDS TrustArtifacts, Provenance, SequenceTheorems, FiniteSetTheorems,
        WellFoundedInduction, TLAPS

Trusted(c, envelope) ==
    \/ VerifySignature(envelope, OperatorKeys(c))
    \/ envelope.payload = Bundled.payload /\ c.demo /\ c.exclusive = Nothing

NotWeaker(c, envelope) ==
    c.source = "remote" =>
        envelope = c.supplied \/ VerifyUpdateTo(c.supplied.payload, envelope.payload)

\* What a build has read from the cache and kept.
CachedSound ==
    \A b \in Builders : cached[b] # Nothing =>
        /\ VerifySignature(cached[b], OperatorKeys(config[b]))
        /\ VerifyUpdateTo(config[b].supplied.payload, cached[b].payload)

\* A build past its first check trusts its fallback.
FallbackSound ==
    \A b \in Builders : pc[b] \in {"read", "fetch"} =>
        config[b].source = "remote" /\ FallbackTrusted(config[b])

\* What a build has chosen.
CandidateSound ==
    \A b \in Builders : pc[b] \in {"open", "write", "rename", "activate"} =>
        /\ candidate[b] \in Envelopes
        /\ Trusted(config[b], candidate[b])
        /\ NotWeaker(config[b], candidate[b])

ActiveSound ==
    \A b \in Builders : active[b] # Nothing =>
        Trusted(config[b], active[b]) /\ NotWeaker(config[b], active[b])

\* An inode is open only while it is written to.
OpenHeld == \A b \in Builders : pc[b] = "write" => open[b] \in Inodes

IInv ==
    /\ TypeOK
    /\ FallbackSound
    /\ CachedSound
    /\ CandidateSound
    /\ ActiveSound
    /\ OpenHeld

-----------------------------------------------------------------------------
(* What a deployment alone on its cache path may rely on *)

Alone(b) == \A a \in Builders : a # b => builds[a] = 0

\* Nothing has been done for a deployment that was never built.
Unborn ==
    /\ \A b \in Builders : builds[b] = 0 => pc[b] = "idle" /\ active[b] = Nothing
    /\ cacheFile # NoFile => \E b \in Builders : builds[b] > 0

NamesApart == tmp # NoFile => tmp # cacheFile

\* The cache file parses, and what the build at hand is about to rename is what
\* it has written.
Whole(b) ==
    /\ cacheFile # NoFile => content[cacheFile] \in Envelopes
    /\ IF pc[b] = "write" THEN open[b] = tmp /\ content[tmp] = Broken ELSE open[b] = NoFile
    /\ pc[b] = "rename" => tmp # NoFile /\ content[tmp] = candidate[b]

FilesInv ==
    /\ Unborn
    /\ NamesApart
    /\ \A b \in Builders : Alone(b) => Whole(b)

\* A deployment whose cache file remembers what it has activated.
Remembers(b) == config[b].source = "remote" /\ config[b].cachePath /\ Ageless(config[b])

\* The cache file holds an acceptable update, no older than the active artifact;
\* a build has read it, writes an update of it, and activates what it holds.
FileAccepted(b) ==
    cacheFile # NoFile => AcceptedUpdate(b, content[cacheFile], config[b].supplied.payload)

CacheRead(b) ==
    pc[b] \in {"fetch", "open", "write", "rename"} =>
        cached[b] = IF cacheFile # NoFile THEN content[cacheFile] ELSE Nothing

UpdateWritten(b) ==
    pc[b] \in {"open", "write", "rename"} => AcceptedUpdate(b, candidate[b], Baseline(b))

FileActivated(b) ==
    pc[b] = "activate" =>
        candidate[b] = IF cacheFile # NoFile THEN content[cacheFile] ELSE config[b].supplied

FileNoOlder(b) ==
    active[b] # Nothing =>
        \/ active[b] = config[b].supplied
        \/ /\ cacheFile # NoFile
           /\ \/ active[b] = content[cacheFile]
              \/ VerifyUpdateTo(active[b].payload, content[cacheFile].payload)

Remembered(b) ==
    FileAccepted(b) /\ CacheRead(b) /\ UpdateWritten(b) /\ FileActivated(b) /\ FileNoOlder(b)

MemoryInv == \A b \in Builders : Alone(b) /\ Remembers(b) => Remembered(b)

-----------------------------------------------------------------------------
\* Updates compose: verify_update_to from the fallback to the cached artifact and
\* from there to a fetched one is an update of the fallback.
LEMMA UpdatesCompose ==
    ASSUME NEW p \in Payloads, NEW q \in Payloads, NEW r \in Payloads,
           VerifyUpdateTo(p, q), VerifyUpdateTo(q, r)
    PROVE  VerifyUpdateTo(p, r)
BY DEF VerifyUpdateTo, Payloads

\* The payload of an envelope has the type of payloads.
LEMMA PayloadType ==
    ASSUME NEW e \in Envelopes
    PROVE  e.payload \in Payloads
BY ArtifactAssumption DEF EnvelopeType

\* A fallback that passed the checks of select_remote_reference_values is trusted.
LEMMA FallbackIsTrusted ==
    ASSUME NEW c \in Configs, FallbackTrusted(c)
    PROVE  Trusted(c, c.supplied)
BY DEF FallbackTrusted, Trusted, VerifySignature, BundledKeys, OperatorKeys

\* The bundled artifact, when its signature verifies under the bundled keys, is trusted.
LEMMA BundledIsTrusted ==
    ASSUME NEW c \in Configs, VerifySignature(Bundled, BundledKeys(c))
    PROVE  Trusted(c, Bundled)
BY DEF Trusted, VerifySignature, BundledKeys, OperatorKeys

\* The initial state satisfies the invariant: nothing is in anybody's hands.
LEMMA InitEstablishes == Init => IInv
BY ArtifactAssumption
   DEF Init, IInv, TypeOK, Steps, FallbackSound, CachedSound, CandidateSound, ActiveSound, OpenHeld

\* Types are preserved by every step.
LEMMA TypeStep == IInv /\ [Next]_vars => TypeOK'
<1> SUFFICES ASSUME IInv, [Next]_vars
             PROVE  TypeOK'
  OBVIOUS
<1> USE ArtifactAssumption DEF IInv, TypeOK, Steps, Goto, Return, Choose, fileVars
<1>1. ASSUME NEW b \in Builders, Build(b)
      PROVE  TypeOK'
  BY <1>1 DEF Build
<1>2. ASSUME NEW b \in Builders, UseSingleSource(b)
      PROVE  TypeOK'
  <2>1. (IF config[b].source = "bundled" THEN Bundled ELSE config[b].supplied) \in Envelopes
    BY DEF ConfigType
  <2> QED
    BY <1>2, <2>1 DEF UseSingleSource
<1>3. ASSUME NEW b \in Builders, CheckFallback(b)
      PROVE  TypeOK'
  BY <1>3 DEF CheckFallback
<1>4. ASSUME NEW b \in Builders, ReadCache(b)
      PROVE  TypeOK'
  BY <1>4 DEF ReadCache, CacheUsable
<1>5. ASSUME NEW b \in Builders, FetchAccepted(b)
      PROVE  TypeOK'
  BY <1>5 DEF FetchAccepted
<1>6. ASSUME NEW b \in Builders, FetchRefused(b)
      PROVE  TypeOK'
  <2>1. (IF cached[b] # Nothing THEN cached[b] ELSE config[b].supplied) \in Envelopes
    BY DEF ConfigType
  <2> QED
    BY <1>6, <2>1 DEF FetchRefused
<1>7. ASSUME NEW b \in Builders, Activate(b)
      PROVE  TypeOK'
  BY <1>7 DEF Activate
<1>8. ASSUME NEW b \in Builders, CreateTmp(b)
      PROVE  TypeOK'
  BY <1>8 DEF CreateTmp, OpenTmp
<1>9. ASSUME NEW b \in Builders, WriteTmp(b)
      PROVE  TypeOK'
  <2>1. candidate[b] \in Envelopes
    BY <1>9 DEF WriteTmp, CandidateSound
  <2> QED
    BY <1>9, <2>1 DEF WriteTmp
<1>10. ASSUME NEW b \in Builders, WriteFails(b)
       PROVE  TypeOK'
  BY <1>10 DEF WriteFails
<1>11. ASSUME NEW b \in Builders, RenameTmp(b)
       PROVE  TypeOK'
  BY <1>11 DEF RenameTmp
<1>12. ASSUME NEW b \in Builders, RenameFails(b)
       PROVE  TypeOK'
  BY <1>12 DEF RenameFails
<1>13. ASSUME NEW b \in Builders, Crash(b)
       PROVE  TypeOK'
  BY <1>13 DEF Crash
<1>14. CASE Tick
  BY <1>14 DEF Tick
<1>15. CASE UNCHANGED vars
  BY <1>15 DEF vars
<1> QED
  BY <1>1, <1>2, <1>3, <1>4, <1>5, <1>6, <1>7, <1>8, <1>9, <1>10, <1>11, <1>12, <1>13,
     <1>14, <1>15 DEF Next, BuildStep

\* What is in a build's hands stays sound in every step.
LEMMA SoundStep ==
    IInv /\ [Next]_vars => FallbackSound' /\ CachedSound' /\ CandidateSound' /\ ActiveSound' /\ OpenHeld'
<1> SUFFICES ASSUME IInv, [Next]_vars
             PROVE  FallbackSound' /\ CachedSound' /\ CandidateSound' /\ ActiveSound' /\ OpenHeld'
  OBVIOUS
<1> DEFINE Sound == FallbackSound /\ CachedSound /\ CandidateSound /\ ActiveSound /\ OpenHeld
<1> USE ArtifactAssumption
    DEF IInv, TypeOK, Goto, Return, Choose, fileVars,
        FallbackSound, CachedSound, CandidateSound, ActiveSound, OpenHeld
<1>1. ASSUME NEW b \in Builders, Build(b)
      PROVE  Sound'
  BY <1>1 DEF Build
<1>2. ASSUME NEW b \in Builders, UseSingleSource(b)
      PROVE  Sound'
  <2> DEFINE e == IF config[b].source = "bundled" THEN Bundled ELSE config[b].supplied
  <2> DEFINE k == IF config[b].source = "bundled" THEN BundledKeys(config[b])
                                                  ELSE OperatorKeys(config[b])
  <2>1. e \in Envelopes
    BY DEF ConfigType
  <2>2. VerifySignature(e, k) => Trusted(config[b], e) /\ NotWeaker(config[b], e)
    <3>1. CASE config[b].source = "bundled"
      BY <3>1, BundledIsTrusted DEF NotWeaker
    <3>2. CASE config[b].source # "bundled"
      BY <3>2, <1>2 DEF UseSingleSource, NotWeaker, Trusted
    <3> QED
      BY <3>1, <3>2
  <2> HIDE DEF e, k
  <2>3. IF VerifySignature(e, k) THEN Choose(b, e) /\ UNCHANGED <<cached, open>> ELSE Return(b)
    BY <1>2 DEF UseSingleSource, e, k
  <2>4. UNCHANGED <<config, active>> /\ pc[b] = "start"
    BY <1>2 DEF UseSingleSource
  <2> QED
    BY <2>1, <2>2, <2>3, <2>4
<1>3. ASSUME NEW b \in Builders, CheckFallback(b)
      PROVE  Sound'
  BY <1>3 DEF CheckFallback
<1>4. ASSUME NEW b \in Builders, ReadCache(b)
      PROVE  Sound'
  BY <1>4 DEF ReadCache, CacheUsable, AcceptedUpdate
<1>5. ASSUME NEW b \in Builders, FetchAccepted(b)
      PROVE  Sound'
  <2>1. PICK e \in Envelopes : /\ AcceptedUpdate(b, e, Baseline(b))
                               /\ candidate' = [candidate EXCEPT ![b] = e]
    BY <1>5 DEF FetchAccepted
  <2>2. config[b].supplied \in Envelopes
    BY DEF ConfigType
  <2>3. VerifyUpdateTo(config[b].supplied.payload, e.payload)
    <3>1. CASE cached[b] = Nothing
      BY <3>1, <2>1 DEF AcceptedUpdate, Baseline
    <3>2. CASE cached[b] # Nothing
      BY <3>2, <2>1, <2>2, PayloadType, UpdatesCompose DEF AcceptedUpdate, Baseline
    <3> QED
      BY <3>1, <3>2
  <2>4. Trusted(config[b], e) /\ NotWeaker(config[b], e)
    BY <2>1, <2>3 DEF AcceptedUpdate, Trusted, NotWeaker
  <2> QED
    BY <1>5, <2>1, <2>4 DEF FetchAccepted
<1>6. ASSUME NEW b \in Builders, FetchRefused(b)
      PROVE  Sound'
  <2> DEFINE e == IF cached[b] # Nothing THEN cached[b] ELSE config[b].supplied
  <2>1. e \in Envelopes
    BY DEF ConfigType
  <2>2. FallbackTrusted(config[b])
    BY <1>6 DEF FetchRefused
  <2>3. Trusted(config[b], e) /\ NotWeaker(config[b], e)
    <3>1. CASE cached[b] = Nothing
      BY <3>1, <2>2, FallbackIsTrusted DEF NotWeaker
    <3>2. CASE cached[b] # Nothing
      BY <3>2 DEF Trusted, NotWeaker
    <3> QED
      BY <3>1, <3>2
  <2> HIDE DEF e
  <2>4. Choose(b, e) /\ UNCHANGED <<config, cached, open, active>>
    BY <1>6 DEF FetchRefused, e
  <2> QED
    BY <2>1, <2>3, <2>4
<1>7. ASSUME NEW b \in Builders, Activate(b)
      PROVE  Sound'
  BY <1>7 DEF Activate
<1>8. ASSUME NEW b \in Builders, CreateTmp(b)
      PROVE  Sound'
  BY <1>8 DEF CreateTmp, OpenTmp
<1>9. ASSUME NEW b \in Builders, WriteTmp(b)
      PROVE  Sound'
  BY <1>9 DEF WriteTmp
<1>10. ASSUME NEW b \in Builders, WriteFails(b)
       PROVE  Sound'
  BY <1>10 DEF WriteFails
<1>11. ASSUME NEW b \in Builders, RenameTmp(b)
       PROVE  Sound'
  BY <1>11 DEF RenameTmp
<1>12. ASSUME NEW b \in Builders, RenameFails(b)
       PROVE  Sound'
  BY <1>12 DEF RenameFails
<1>13. ASSUME NEW b \in Builders, Crash(b)
       PROVE  Sound'
  BY <1>13 DEF Crash
<1>14. CASE Tick
  BY <1>14 DEF Tick
<1>15. CASE UNCHANGED vars
  BY <1>15 DEF vars
<1> QED
  BY <1>1, <1>2, <1>3, <1>4, <1>5, <1>6, <1>7, <1>8, <1>9, <1>10, <1>11, <1>12, <1>13,
     <1>14, <1>15 DEF Next, BuildStep

\* The invariant holds in every reachable state.
THEOREM Inductive == Spec => []IInv
<1>1. IInv /\ [Next]_vars => IInv'
  BY TypeStep, SoundStep DEF IInv
<1> QED
  BY InitEstablishes, <1>1, PTL DEF Spec

\* Type correctness for every set of configurations and envelopes: in particular
\* what a build holds is always an envelope, never a broken file.
THEOREM TypeCorrect == Spec => []TypeOK
<1>1. IInv => TypeOK
  BY DEF IInv
<1> QED
  BY Inductive, <1>1, PTL

\* Fixture keys vouch for the bundled artifact only, in demo mode and without an
\* exclusive key set, for every configuration and whatever the cache file holds.
THEOREM FixtureKeysConfined == Spec => []FixtureTrustConfined
<1>1. IInv => FixtureTrustConfined
  BY DEF IInv, ActiveSound, Trusted, FixtureTrustConfined
<1> QED
  BY Inductive, <1>1, PTL

\* A remote source never activates anything weaker than its fallback.
THEOREM FallbackIsFloor == Spec => []NeverWeakerThanFallback
<1>1. IInv => NeverWeakerThanFallback
  BY DEF IInv, ActiveSound, NotWeaker, NeverWeakerThanFallback
<1> QED
  BY Inductive, <1>1, PTL

-----------------------------------------------------------------------------
(* One deployment on its cache path *)

\* Past its start a build has been counted.
LEMMA BusyIsBuilt ==
    ASSUME Unborn, TypeOK, NEW b \in Builders, pc[b] # "idle"
    PROVE  builds[b] > 0
BY DEF Unborn, TypeOK

\* Only Build starts anything, and it counts the build: as long as the others were
\* never built, every step is one of the deployment's own.
LEMMA OnlyOneActs ==
    ASSUME TypeOK, Unborn, [Next]_vars, NEW b \in Builders, Alone(b)'
    PROVE  /\ Alone(b)
           /\ BuildStep(b) \/ Crash(b) \/ Tick \/ UNCHANGED vars
<1> USE ArtifactAssumption
<1>1. ASSUME NEW a \in Builders, Build(a)
      PROVE  Alone(b) /\ a = b
  <2>1. builds' = [builds EXCEPT ![a] = @ + 1]
    BY <1>1 DEF Build
  <2>2. builds'[a] # 0
    BY <2>1 DEF TypeOK
  <2>3. a = b
    BY <2>2 DEF Alone
  <2> QED
    BY <2>1, <2>3 DEF Alone, TypeOK
<1>2. ASSUME NEW a \in Builders, pc[a] # "idle", builds' = builds
      PROVE  Alone(b) /\ a = b
  BY <1>2, BusyIsBuilt DEF Alone
<1>3. ASSUME NEW a \in Builders, BuildStep(a) \/ Crash(a)
      PROVE  Alone(b) /\ a = b
  <2>1. Build(a) \/ (pc[a] # "idle" /\ builds' = builds)
    BY <1>3
       DEF BuildStep, UseSingleSource, CheckFallback, ReadCache, FetchAccepted, FetchRefused,
           Activate, CreateTmp, WriteTmp, WriteFails, RenameTmp, RenameFails, Crash
  <2> QED
    BY <2>1, <1>1, <1>2
<1>4. CASE Tick \/ UNCHANGED vars
  BY <1>4 DEF Tick, vars, Alone
<1> QED
  BY <1>3, <1>4 DEF Next

\* What was never built stays untouched.
LEMMA UnbornStep ==
    ASSUME TypeOK, Unborn, [Next]_vars
    PROVE  Unborn'
<1>1. ASSUME NEW b \in Builders, BuildStep(b) \/ Crash(b)
      PROVE  Unborn'
  <2>1. /\ builds'[b] > 0
        /\ \A a \in Builders : builds'[a] >= builds[a]
        /\ \A a \in Builders \ {b} : pc'[a] = pc[a] /\ active'[a] = active[a]
    <3>1. CASE Build(b)
      BY <3>1 DEF Build, Goto, TypeOK
    <3>2. CASE ~Build(b)
      <4>1. pc[b] # "idle" /\ builds' = builds
        BY <1>1, <3>2
           DEF BuildStep, UseSingleSource, CheckFallback, ReadCache, FetchAccepted, FetchRefused,
               Activate, CreateTmp, WriteTmp, WriteFails, RenameTmp, RenameFails, Crash
      <4>2. \A a \in Builders \ {b} : pc'[a] = pc[a] /\ active'[a] = active[a]
        BY <1>1, <3>2
           DEF BuildStep, UseSingleSource, CheckFallback, ReadCache, FetchAccepted, FetchRefused,
               Activate, CreateTmp, WriteTmp, WriteFails, RenameTmp, RenameFails, Crash,
               Goto, Return, Choose, TypeOK
      <4> QED
        BY <4>1, <4>2, BusyIsBuilt DEF TypeOK
    <3> QED
      BY <3>1, <3>2
  <2>2. \A a \in Builders : builds'[a] = 0 => pc'[a] = "idle" /\ active'[a] = Nothing
    <3> TAKE a \in Builders
    <3> HAVE builds'[a] = 0
    <3>1. a # b /\ builds[a] = 0
      BY <2>1 DEF TypeOK
    <3> QED
      BY <3>1, <2>1 DEF Unborn
  <2> QED
    BY <2>1, <2>2 DEF Unborn
<1>2. CASE Tick \/ UNCHANGED vars
  BY <1>2 DEF Tick, vars, fileVars, Unborn
<1> QED
  BY <1>1, <1>2 DEF Next

\* The ".tmp" name and the cache path never name one inode.
LEMMA NamesStep ==
    ASSUME TypeOK, NamesApart, [Next]_vars
    PROVE  NamesApart'
<1> USE ArtifactAssumption DEF NamesApart
<1>1. ASSUME NEW b \in Builders, BuildStep(b) \/ Crash(b)
      PROVE  NamesApart'
  <2>1. CASE CreateTmp(b)
    BY <2>1 DEF CreateTmp, OpenTmp, Free, TypeOK
  <2>2. CASE RenameTmp(b)
    BY <2>2 DEF RenameTmp
  <2>3. CASE RenameFails(b)
    BY <2>3 DEF RenameFails
  <2>4. CASE UNCHANGED <<tmp, cacheFile>>
    BY <2>4
  <2> QED
    BY <1>1, <2>1, <2>2, <2>3, <2>4
       DEF BuildStep, Build, UseSingleSource, CheckFallback, ReadCache, FetchAccepted,
           FetchRefused, Activate, WriteTmp, WriteFails, Crash, fileVars
<1>2. CASE Tick \/ UNCHANGED vars
  BY <1>2 DEF Tick, vars, fileVars
<1> QED
  BY <1>1, <1>2 DEF Next

\* Steps of a deployment alone on its path keep its files whole: only RenameTmp
\* touches the cache path, and it installs what was written in full.
LEMMA WholeStep ==
    ASSUME NEW b \in Builders, IInv, NamesApart, Whole(b),
           BuildStep(b) \/ Crash(b) \/ Tick \/ UNCHANGED vars
    PROVE  Whole(b)'
<1> USE ArtifactAssumption DEF IInv, TypeOK
<1>1. CASE CreateTmp(b)
  <2>1. PICK i \in Inodes : /\ i = tmp \/ (tmp = NoFile /\ Free(i))
                            /\ tmp' = i
                            /\ open' = [open EXCEPT ![b] = i]
                            /\ content' = [content EXCEPT ![i] = Broken]
                            /\ UNCHANGED cacheFile
    BY <1>1 DEF CreateTmp, OpenTmp
  <2>2. i # cacheFile
    BY <2>1 DEF NamesApart, Free
  <2>3. pc'[b] = "write"
    BY <1>1 DEF CreateTmp, Goto
  <2> QED
    BY <2>1, <2>2, <2>3 DEF Whole
<1>2. CASE WriteTmp(b)
  <2>1. open[b] = tmp /\ content[tmp] = Broken /\ tmp \in Inodes
    BY <1>2 DEF WriteTmp, Whole, OpenHeld
  <2>2. content' = [content EXCEPT ![tmp] = candidate[b]]
    BY <1>2, <2>1 DEF WriteTmp
  <2>3. tmp # cacheFile
    BY <2>1 DEF NamesApart
  <2>4. pc'[b] = "rename" /\ open'[b] = NoFile /\ UNCHANGED <<tmp, cacheFile, candidate>>
    BY <1>2 DEF WriteTmp, Goto
  <2> QED
    BY <2>1, <2>2, <2>3, <2>4 DEF Whole
<1>3. CASE RenameTmp(b)
  <2>1. pc'[b] = "activate" /\ open'[b] = NoFile /\ candidate[b] \in Envelopes
    BY <1>3 DEF RenameTmp, Goto, CandidateSound, Whole
  <2> QED
    BY <1>3, <2>1 DEF RenameTmp, Whole
<1>4. ASSUME WriteFails(b) \/ Crash(b)
      PROVE  Whole(b)'
  <2>1. pc'[b] = "idle" /\ open'[b] = NoFile /\ UNCHANGED cacheFile
    BY <1>4 DEF WriteFails, Crash, Return, Goto
  <2>2. content' = content \/ (pc[b] = "write" /\ content' = [content EXCEPT ![open[b]] = Broken])
        \/ (pc[b] = "open" /\ open[b] # NoFile /\ content' = [content EXCEPT ![open[b]] = Broken])
    BY <1>4 DEF WriteFails, Crash
  <2>3. cacheFile # NoFile => content'[cacheFile] = content[cacheFile]
    BY <2>2 DEF Whole, NamesApart, OpenHeld
  <2> QED
    BY <2>1, <2>3 DEF Whole
<1>5. CASE RenameFails(b)
  BY <1>5 DEF RenameFails, Return, Goto, Whole
<1>6. ASSUME UNCHANGED fileVars,
             \/ UNCHANGED <<pc, candidate, open>>
             \/ /\ pc[b] # "write" /\ pc'[b] \notin {"write", "rename"}
                /\ open'[b] \in {open[b], NoFile}
      PROVE  Whole(b)'
  BY <1>6 DEF Whole, fileVars
<1>7. CASE Build(b) \/ UseSingleSource(b) \/ CheckFallback(b) \/ ReadCache(b)
           \/ FetchAccepted(b) \/ FetchRefused(b) \/ Activate(b)
  BY <1>7, <1>6
     DEF Build, UseSingleSource, CheckFallback, ReadCache, FetchAccepted, FetchRefused, Activate,
         Goto, Return, Choose
<1>8. CASE Tick \/ UNCHANGED vars
  BY <1>8, <1>6 DEF Tick, vars
<1> QED
  BY <1>1, <1>2, <1>3, <1>4, <1>5, <1>7, <1>8 DEF BuildStep

\* The names and files are as FilesInv says in every reachable state.
LEMMA FilesInductive == Spec => []FilesInv
<1>1. Init => FilesInv
  BY ArtifactAssumption DEF Init, FilesInv, Unborn, NamesApart, Alone, Whole
<1>2. IInv /\ FilesInv /\ [Next]_vars => FilesInv'
  <2> SUFFICES ASSUME IInv, FilesInv, [Next]_vars
               PROVE  FilesInv'
    OBVIOUS
  <2>1. TypeOK /\ Unborn /\ NamesApart
    BY DEF IInv, FilesInv
  <2>2. ASSUME NEW b \in Builders, Alone(b)'
        PROVE  Whole(b)'
    BY <2>1, <2>2, OnlyOneActs, WholeStep DEF FilesInv
  <2> QED
    BY <2>1, <2>2, UnbornStep, NamesStep DEF FilesInv
<1> QED
  BY Inductive, <1>1, <1>2, PTL DEF Spec

\* One deployment has used the path: the others were never built.
LEMMA UnsharedIsAlone ==
    ASSUME Unshared, TypeOK, NEW b \in Builders, builds[b] > 0
    PROVE  Alone(b)
<1> DEFINE S == {x \in Builders : builds[x] > 0}
<1>1. SUFFICES ASSUME NEW a \in Builders, a # b, builds[a] # 0
               PROVE  FALSE
  BY DEF Alone
<1>2. IsFiniteSet(S)
  BY ArtifactAssumption, FS_Subset
<1>3. {a, b} \subseteq S
  BY <1>1 DEF TypeOK
<1>4. Cardinality({a, b}) = 2
  <2>1. IsFiniteSet({a}) /\ Cardinality({a}) = 1
    BY FS_Singleton
  <2>2. Cardinality({a} \cup {b}) = 2
    BY <2>1, <1>1, FS_AddElement
  <2>3. {a} \cup {b} = {a, b}
    OBVIOUS
  <2> QED
    BY <2>2, <2>3
<1>5. Cardinality({a, b}) <= Cardinality(S)
  BY <1>2, <1>3, FS_Subset
<1>6. Cardinality(S) \in Nat /\ Cardinality(S) <= 1
  BY <1>2, FS_CardinalityType DEF Unshared
<1> QED
  BY <1>4, <1>5, <1>6

\* A single deployment's cache file always parses, wherever its builds crash or
\* fail: what it renames is what it has written in full.
THEOREM CacheStaysWhole == Spec => []CacheFileWhole
<1>1. IInv /\ FilesInv => CacheFileWhole
  <2> SUFFICES ASSUME IInv, FilesInv, Unshared, cacheFile # NoFile
               PROVE  content[cacheFile] # Broken
    BY DEF CacheFileWhole
  <2>1. PICK b \in Builders : builds[b] > 0
    BY DEF FilesInv, Unborn
  <2>2. Whole(b)
    BY <2>1, UnsharedIsAlone DEF IInv, FilesInv
  <2> QED
    BY <2>2, ArtifactAssumption DEF Whole
<1> QED
  BY Inductive, FilesInductive, <1>1, PTL

-----------------------------------------------------------------------------
(* What the cache file remembers *)

\* Without a maximum age a pin does not look at the clock.
LEMMA AgelessPins ==
    ASSUME NEW c, Ageless(c), NEW e, NEW s, NEW t, PinAdmits(c.pin, e, s)
    PROVE  PinAdmits(c.pin, e, t)
BY DEF Ageless, PinAdmits

\* A build on its way to the cache file holds what the file remembers; a step that
\* leaves the file, the configuration and the active artifact alone keeps that.
LEMMA MemoryFrame ==
    ASSUME NEW b \in Builders, Remembers(b), Remembered(b),
           UNCHANGED <<config, cacheFile, active>>,
           cacheFile # NoFile => content'[cacheFile] = content[cacheFile]
    PROVE  FileAccepted(b)' /\ FileNoOlder(b)'
<1>1. FileNoOlder(b)'
  BY DEF Remembered, FileNoOlder
<1>2. FileAccepted(b)'
  <2> SUFFICES ASSUME cacheFile # NoFile
               PROVE  AcceptedUpdate(b, content[cacheFile], config[b].supplied.payload)'
    BY DEF FileAccepted
  <2>1. /\ VerifySignature(content[cacheFile], OperatorKeys(config[b]))
        /\ VerifyUpdateTo(config[b].supplied.payload, content[cacheFile].payload)
        /\ PinAdmits(config[b].pin, content[cacheFile], startedAt[b])
    BY DEF Remembered, FileAccepted, AcceptedUpdate
  <2>2. PinAdmits(config[b].pin, content[cacheFile], startedAt'[b])
    BY <2>1, AgelessPins DEF Remembers
  <2> QED
    BY <2>1, <2>2 DEF AcceptedUpdate
<1> QED
  BY <1>1, <1>2

\* Every step of a deployment alone on its path keeps what the file remembers.
LEMMA MemoryStep ==
    ASSUME NEW b \in Builders, IInv, NamesApart, Whole(b), Remembers(b), Remembered(b),
           BuildStep(b) \/ Crash(b) \/ Tick \/ UNCHANGED vars
    PROVE  Remembered(b)'
<1> USE ArtifactAssumption DEF IInv, TypeOK
<1>1. config[b].supplied \in Envelopes
  BY DEF ConfigType
<1>2. CASE Build(b) \/ CheckFallback(b)
  <2>1. FileAccepted(b)' /\ FileNoOlder(b)'
    BY <1>2, MemoryFrame DEF Build, CheckFallback, fileVars
  <2>2. pc'[b] \in {"idle", "start", "read"}
    BY <1>2 DEF Build, CheckFallback, Goto, Return, Remembers
  <2> QED
    BY <2>1, <2>2 DEF Remembered, CacheRead, UpdateWritten, FileActivated
<1>3. CASE UseSingleSource(b)
  BY <1>3 DEF UseSingleSource, Remembers
<1>4. CASE ReadCache(b)
  <2>1. FileAccepted(b)' /\ FileNoOlder(b)'
    BY <1>4, MemoryFrame DEF ReadCache, fileVars
  <2>2. CacheUsable(b) <=> cacheFile # NoFile
    BY DEF CacheUsable, Whole, Remembered, FileAccepted
  <2>3. CacheRead(b)' /\ pc'[b] = "fetch"
    BY <1>4, <2>2 DEF ReadCache, Goto, CacheRead, fileVars
  <2> QED
    BY <2>1, <2>3 DEF Remembered, UpdateWritten, FileActivated
<1>5. CASE FetchAccepted(b)
  <2>1. FileAccepted(b)' /\ FileNoOlder(b)'
    BY <1>5, MemoryFrame DEF FetchAccepted, fileVars
  <2>2. pc[b] = "fetch" /\ pc'[b] = "open" /\ UNCHANGED <<config, startedAt, cached, fileVars>>
    BY <1>5 DEF FetchAccepted, Goto, Remembers
  <2>3. CacheRead(b)'
    BY <2>2 DEF Remembered, CacheRead, fileVars
  <2>4. UpdateWritten(b)'
    <3>1. PICK e \in Envelopes : /\ AcceptedUpdate(b, e, Baseline(b))
                                 /\ candidate' = [candidate EXCEPT ![b] = e]
      BY <1>5 DEF FetchAccepted
    <3>2. candidate'[b] = e
      BY <3>1
    <3> QED
      BY <3>1, <3>2, <2>2 DEF UpdateWritten, AcceptedUpdate, Baseline
  <2> QED
    BY <2>1, <2>2, <2>3, <2>4 DEF Remembered, FileActivated
<1>6. CASE FetchRefused(b)
  <2>1. FileAccepted(b)' /\ FileNoOlder(b)'
    BY <1>6, MemoryFrame DEF FetchRefused, fileVars
  <2>2. cached[b] = IF cacheFile # NoFile THEN content[cacheFile] ELSE Nothing
    BY <1>6 DEF FetchRefused, Remembered, CacheRead
  <2>3. candidate'[b] = IF cacheFile # NoFile THEN content[cacheFile] ELSE config[b].supplied
    BY <1>6, <2>2 DEF FetchRefused, Choose, Whole
  <2>4. pc'[b] = "activate" /\ UNCHANGED <<config, fileVars>>
    BY <1>6 DEF FetchRefused, Choose, Goto
  <2> QED
    BY <2>1, <2>3, <2>4 DEF Remembered, CacheRead, UpdateWritten, FileActivated, fileVars
<1>7. CASE Activate(b)
  <2>1. pc'[b] = "idle" /\ UNCHANGED <<config, startedAt, cacheFile, content>>
    BY <1>7 DEF Activate, Return, Goto, fileVars
  <2>2. active'[b] \in {active[b], candidate[b]}
    BY <1>7 DEF Activate
  <2>3. candidate[b] = IF cacheFile # NoFile THEN content[cacheFile] ELSE config[b].supplied
    BY <1>7 DEF Activate, Remembered, FileActivated
  <2>4. FileNoOlder(b)'
    BY <2>1, <2>2, <2>3 DEF Remembered, FileNoOlder
  <2>5. FileAccepted(b)'
    BY <2>1 DEF Remembered, FileAccepted, AcceptedUpdate
  <2> QED
    BY <2>1, <2>4, <2>5 DEF Remembered, CacheRead, UpdateWritten, FileActivated
<1>8. CASE CreateTmp(b) \/ WriteTmp(b)
  <2>1. cacheFile # NoFile => content'[cacheFile] = content[cacheFile]
    <3>1. CASE CreateTmp(b)
      BY <3>1 DEF CreateTmp, OpenTmp, NamesApart, Free
    <3>2. CASE WriteTmp(b)
      <4>1. open[b] = tmp /\ tmp \in Inodes /\ tmp # cacheFile
        BY <3>2 DEF WriteTmp, Whole, OpenHeld, NamesApart
      <4> QED
        BY <3>2, <4>1 DEF WriteTmp
    <3> QED
      BY <1>8, <3>1, <3>2
  <2>2. /\ pc[b] \in {"open", "write"} /\ pc'[b] \in {"write", "rename"}
        /\ UNCHANGED <<config, startedAt, cached, candidate, active, cacheFile>>
    BY <1>8 DEF CreateTmp, OpenTmp, WriteTmp, Goto
  <2>3. FileAccepted(b)' /\ FileNoOlder(b)'
    BY <2>1, <2>2, MemoryFrame
  <2>4. CacheRead(b)'
    BY <2>1, <2>2 DEF Remembered, CacheRead
  <2>5. UpdateWritten(b)'
    BY <2>2 DEF Remembered, UpdateWritten, AcceptedUpdate, Baseline
  <2> QED
    BY <2>2, <2>3, <2>4, <2>5 DEF Remembered, FileActivated
<1>9. CASE RenameTmp(b)
  <2>1. /\ pc'[b] = "activate" /\ cacheFile' = tmp /\ tmp # NoFile
        /\ UNCHANGED <<config, startedAt, cached, candidate, active, content>>
    BY <1>9 DEF RenameTmp, Goto
  <2>2. content[tmp] = candidate[b]
    BY <1>9 DEF RenameTmp, Whole
  <2>3. AcceptedUpdate(b, candidate[b], Baseline(b))
    BY <1>9 DEF RenameTmp, Remembered, UpdateWritten
  <2>4. Baseline(b) = IF cacheFile # NoFile THEN content[cacheFile].payload
                                            ELSE config[b].supplied.payload
    BY <1>9 DEF RenameTmp, Remembered, CacheRead, Baseline, Whole
  <2>5. candidate[b] \in Envelopes
    BY <1>9 DEF RenameTmp, CandidateSound
  <2> DEFINE new == candidate[b].payload
  <2>6. new \in Payloads /\ config[b].supplied.payload \in Payloads
    BY <2>5, <1>1, PayloadType
  <2>7. cacheFile # NoFile =>
            /\ content[cacheFile].payload \in Payloads
            /\ VerifyUpdateTo(config[b].supplied.payload, content[cacheFile].payload)
            /\ VerifyUpdateTo(content[cacheFile].payload, new)
    BY <2>3, <2>4, PayloadType DEF Whole, Remembered, FileAccepted, AcceptedUpdate
  <2>8. VerifyUpdateTo(config[b].supplied.payload, new)
    BY <2>3, <2>4, <2>6, <2>7, UpdatesCompose DEF AcceptedUpdate
  <2>9. FileAccepted(b)'
    BY <2>1, <2>2, <2>3, <2>8 DEF FileAccepted, AcceptedUpdate
  <2>10. active[b] # Nothing => VerifyUpdateTo(active[b].payload, new)
    <3> SUFFICES ASSUME active[b] # Nothing
                 PROVE  VerifyUpdateTo(active[b].payload, new)
      OBVIOUS
    <3>1. active[b].payload \in Payloads
      BY PayloadType
    <3>2. CASE active[b] = config[b].supplied
      BY <3>2, <2>8
    <3>3. CASE active[b] # config[b].supplied
      <4>1. /\ cacheFile # NoFile
            /\ \/ active[b] = content[cacheFile]
               \/ VerifyUpdateTo(active[b].payload, content[cacheFile].payload)
        BY <3>3 DEF Remembered, FileNoOlder
      <4> QED
        BY <4>1, <3>1, <2>6, <2>7, UpdatesCompose
    <3> QED
      BY <3>2, <3>3
  <2>11. FileNoOlder(b)'
    BY <2>1, <2>2, <2>10 DEF FileNoOlder
  <2>12. FileActivated(b)'
    BY <2>1, <2>2 DEF FileActivated
  <2> QED
    BY <2>1, <2>9, <2>11, <2>12 DEF Remembered, CacheRead, UpdateWritten
<1>10. CASE WriteFails(b) \/ RenameFails(b) \/ Crash(b)
  <2>1. pc'[b] = "idle" /\ UNCHANGED <<config, active, cacheFile>>
    BY <1>10 DEF WriteFails, RenameFails, Crash, Return, Goto
  <2>2. content' = content \/ content' = [content EXCEPT ![open[b]] = Broken]
    BY <1>10 DEF WriteFails, RenameFails, Crash
  <2>3. open[b] = NoFile \/ (open[b] = tmp /\ tmp # NoFile)
    BY DEF Whole, OpenHeld
  <2>4. cacheFile # NoFile => content'[cacheFile] = content[cacheFile]
    BY <2>2, <2>3 DEF NamesApart
  <2>5. FileAccepted(b)' /\ FileNoOlder(b)'
    BY <2>1, <2>4, MemoryFrame
  <2> QED
    BY <2>1, <2>5 DEF Remembered, CacheRead, UpdateWritten, FileActivated
<1>11. CASE Tick \/ UNCHANGED vars
  <2>1. UNCHANGED <<pc, config, startedAt, cached, candidate, active, cacheFile, content>>
    BY <1>11 DEF Tick, vars, fileVars
  <2> QED
    BY <2>1 DEF Remembered, FileAccepted, CacheRead, UpdateWritten, FileActivated, FileNoOlder,
                AcceptedUpdate, Baseline
<1> QED
  BY <1>2, <1>3, <1>4, <1>5, <1>6, <1>7, <1>8, <1>9, <1>10, <1>11 DEF BuildStep

\* The cache file remembers the active artifact in every reachable state.
LEMMA MemoryInductive == Spec => []MemoryInv
<1>1. Init => MemoryInv
  BY DEF Init, MemoryInv, Remembered, FileAccepted, CacheRead, UpdateWritten, FileActivated,
         FileNoOlder
<1>2. IInv /\ FilesInv /\ MemoryInv /\ [Next]_vars => MemoryInv'
  <2> SUFFICES ASSUME IInv, FilesInv, MemoryInv, [Next]_vars, NEW b \in Builders,
                      Alone(b)', Remembers(b)'
               PROVE  Remembered(b)'
    BY DEF MemoryInv
  <2>1. /\ Alone(b)
        /\ BuildStep(b) \/ Crash(b) \/ Tick \/ UNCHANGED vars
    BY OnlyOneActs DEF IInv, FilesInv
  <2>2. config' = config
    BY <2>1 DEF BuildStep, Build, UseSingleSource, CheckFallback, ReadCache, FetchAccepted,
                FetchRefused, Activate, CreateTmp, WriteTmp, WriteFails, RenameTmp, RenameFails,
                Crash, Tick, vars
  <2>3. Remembers(b)
    BY <2>2 DEF Remembers
  <2> QED
    BY <2>1, <2>3, MemoryStep DEF FilesInv, MemoryInv
<1> QED
  BY Inductive, FilesInductive, <1>1, <1>2, PTL DEF Spec

\* No rollback: a deployment with a cache path of its own, and a pin without a
\* maximum age, never activates an artifact that weakens the last active one, for
\* any releases, any answers of the remote, any number of builds and any crashes.
THEOREM RollbackPrevented == Spec => NoRollback
<1> DEFINE Kept == \A b \in Builders :
                      /\ Unshared
                      /\ active'[b] # active[b] /\ active[b] # Nothing
                      /\ config[b].source = "remote" /\ config[b].cachePath
                      /\ Ageless(config[b])
                      => VerifyUpdateTo(active[b].payload, active'[b].payload)
<1>1. IInv /\ FilesInv /\ MemoryInv /\ [Next]_vars => [Kept]_vars
  <2> SUFFICES ASSUME IInv, FilesInv, MemoryInv, Next, NEW b \in Builders,
                      Unshared, active'[b] # active[b], active[b] # Nothing, Remembers(b)
               PROVE  VerifyUpdateTo(active[b].payload, active'[b].payload)
    BY DEF Remembers
  <2>1. builds[b] > 0
    BY DEF IInv, TypeOK, FilesInv, Unborn
  <2>2. Remembered(b)
    BY <2>1, UnsharedIsAlone DEF IInv, MemoryInv
  <2>3. PICK a \in Builders : Activate(a)
    BY DEF Next, BuildStep, Build, UseSingleSource, CheckFallback, ReadCache, FetchAccepted,
           FetchRefused, CreateTmp, WriteTmp, WriteFails, RenameTmp, RenameFails, Crash, Tick
  <2>4. a = b /\ active'[b] = candidate[b]
    BY <2>3 DEF Activate, IInv, TypeOK
  <2>5. candidate[b] = IF cacheFile # NoFile THEN content[cacheFile] ELSE config[b].supplied
    BY <2>2, <2>3, <2>4 DEF Remembered, FileActivated, Activate
  <2> QED
    BY <2>2, <2>4, <2>5 DEF Remembered, FileNoOlder, FileAccepted, AcceptedUpdate
<1> QED
  BY Inductive, FilesInductive, MemoryInductive, <1>1, PTL DEF Spec, NoRollback

-----------------------------------------------------------------------------
(***************************************************************************)
(* Provenance.  A release verifies because its audit path leads to the     *)
(* root, whatever the size of the tree; that is shown level by level.  It  *)
(* verifies only as itself because Rekor's promise names the logged entry, *)
(* and the entry names the statement and the certificate.                  *)
(***************************************************************************)

\* Induction over a set of numbers.
LEMMA NatInductive ==
    ASSUME NEW P, 0 \in P, \A n \in Nat : n \in P => n + 1 \in P
    PROVE  Nat \subseteq P
<1> DEFINE R == {ss \in Nat \X Nat : ss[1] < ss[2]}
           Bad == {n \in Nat : n \notin P}
<1>1. IsWellFoundedOn(R, Nat)
  BY NatLessThanWellFounded DEF OpToRel
<1> HIDE DEF R
<1>2. SUFFICES ASSUME Bad # {} PROVE FALSE
  OBVIOUS
<1>3. Bad \subseteq Nat
  OBVIOUS
<1> HIDE DEF Bad
<1>4. \E x \in Bad : \A y \in Bad : ~(<<y, x>> \in R)
  BY <1>1, <1>2, <1>3, WFMin
<1>5. PICK x \in Bad : \A y \in Bad : ~(<<y, x>> \in R)
  BY <1>4
<1>6. x \in Nat /\ x # 0 /\ x - 1 \in Nat /\ x - 1 < x
  BY <1>5 DEF Bad
<1>7. x - 1 \notin Bad
  BY <1>5, <1>6 DEF R, Bad
<1> QED
  BY <1>6, <1>7, (x - 1) + 1 = x DEF Bad

\* A set of numbers that is not empty has a least one.
LEMMA LeastExists ==
    ASSUME NEW T, T \subseteq Nat, T # {}
    PROVE  \E x \in T : \A y \in T : x <= y
<1> DEFINE R == {ss \in Nat \X Nat : ss[1] < ss[2]}
<1>1. IsWellFoundedOn(R, Nat)
  BY NatLessThanWellFounded DEF OpToRel
<1> HIDE DEF R
<1>2. \E x \in T : \A y \in T : ~(<<y, x>> \in R)
  BY <1>1, WFMin
<1>3. PICK x \in T : \A y \in T : ~(<<y, x>> \in R)
  BY <1>2
<1>4. ASSUME NEW y \in T PROVE x <= y
  <2>1. x \in Nat /\ y \in Nat
    OBVIOUS
  <2>2. y < x => <<y, x>> \in R
    BY <2>1 DEF R
  <2>3. ~(<<y, x>> \in R)
    BY <1>3
  <2> QED
    BY <2>1, <2>2, <2>3
<1> QED
  BY <1>4

-----------------------------------------------------------------------------
(* Shifts.  The recursion is solved on 0..k for every k, and the solutions  *)
(* agree.                                                                   *)

HalvesTo(g, n, k) == g \in [0..k -> Nat] /\ g[0] = n /\ \A i \in 1..k : g[i] = g[i - 1] \div 2

\* The recursion in Shr has a solution up to any k.
LEMMA HalvesExist ==
    ASSUME NEW n \in Nat, NEW k \in Nat
    PROVE  \E g : HalvesTo(g, n, k)
<1> DEFINE P == {j \in Nat : \E g : HalvesTo(g, n, j)}
<1>1. 0 \in P
  <2>1. HalvesTo([i \in 0..0 |-> n], n, 0)
    BY DEF HalvesTo
  <2> QED
    BY <2>1
<1>2. ASSUME NEW j \in Nat, j \in P PROVE j + 1 \in P
  <2>1. PICK g : HalvesTo(g, n, j)
    BY <1>2
  <2> DEFINE h == [i \in 0..(j + 1) |-> IF i <= j THEN g[i] ELSE g[j] \div 2]
  <2>2. h \in [0..(j + 1) -> Nat]
    BY <2>1 DEF HalvesTo
  <2>3. h[0] = n
    BY <2>1 DEF HalvesTo
  <2>4. \A i \in 1..(j + 1) : h[i] = h[i - 1] \div 2
    <3>1. SUFFICES ASSUME NEW i \in 1..(j + 1) PROVE h[i] = h[i - 1] \div 2
      OBVIOUS
    <3>2. CASE i <= j
      BY <2>1, <3>2 DEF HalvesTo
    <3>3. CASE i = j + 1
      BY <2>1, <3>3 DEF HalvesTo
    <3> QED
      BY <3>2, <3>3
  <2>5. HalvesTo(h, n, j + 1)
    BY <2>2, <2>3, <2>4 DEF HalvesTo
  <2> QED
    BY <2>5
<1>3. Nat \subseteq P
  <2> HIDE DEF P
  <2> QED
    BY <1>1, <1>2, NatInductive
<1> QED
  BY <1>3

\* Two solutions agree as far as both go.
LEMMA HalvesAgree ==
    ASSUME NEW n \in Nat, NEW k \in Nat, NEW j \in Nat, k <= j, NEW g, NEW h,
           HalvesTo(g, n, k), HalvesTo(h, n, j)
    PROVE  g[k] = h[k]
<1> DEFINE P == {i \in Nat : i <= k => g[i] = h[i]}
<1>1. 0 \in P
  BY DEF HalvesTo
<1>2. ASSUME NEW i \in Nat, i \in P PROVE i + 1 \in P
  <2>1. SUFFICES ASSUME i + 1 <= k PROVE g[i + 1] = h[i + 1]
    OBVIOUS
  <2>2. i + 1 \in 1..k /\ i + 1 \in 1..j /\ (i + 1) - 1 = i /\ g[i] = h[i]
    BY <1>2, <2>1
  <2>3. g[i + 1] = g[(i + 1) - 1] \div 2 /\ h[i + 1] = h[(i + 1) - 1] \div 2
    BY <2>2 DEF HalvesTo
  <2> QED
    BY <2>2, <2>3
<1>3. Nat \subseteq P
  <2> HIDE DEF P
  <2> QED
    BY <1>1, <1>2, NatInductive
<1> QED
  BY <1>3

HalvesOn(f, n) == f = [i \in Nat |-> IF i = 0 THEN n ELSE f[i - 1] \div 2]

\* Shr is that solution.
LEMMA ShrIs ==
    ASSUME NEW n \in Nat
    PROVE  \E f \in [Nat -> Nat] : HalvesOn(f, n) /\ \A k : Shr(n, k) = f[k]
<1> DEFINE part(k) == CHOOSE g : HalvesTo(g, n, k)
           f == [k \in Nat |-> part(k)[k]]
<1>1. ASSUME NEW k \in Nat PROVE HalvesTo(part(k), n, k)
  BY HalvesExist
<1> HIDE DEF part
<1>2. ASSUME NEW k \in Nat PROVE f[k] \in Nat /\ f[k] = IF k = 0 THEN n ELSE f[k - 1] \div 2
  <2>1. HalvesTo(part(k), n, k) /\ k \in 0..k
    BY <1>1
  <2>2. f[k] = part(k)[k] /\ part(k)[k] \in Nat
    BY <2>1 DEF HalvesTo
  <2>3. CASE k = 0
    BY <2>1, <2>2, <2>3 DEF HalvesTo
  <2>4. CASE k # 0
    <3>1. PICK j : j = k - 1
      OBVIOUS
    <3>2. j \in Nat /\ j <= k /\ k \in 1..k
      BY <2>4, <3>1
    <3>3. HalvesTo(part(j), n, j)
      BY <3>2, <1>1
    <3>4. part(j)[j] = part(k)[j]
      BY <2>1, <3>2, <3>3, HalvesAgree
    <3>5. part(k)[k] = part(k)[k - 1] \div 2
      BY <2>1, <3>2 DEF HalvesTo
    <3> QED
      BY <2>2, <2>4, <3>1, <3>2, <3>4, <3>5
  <2> QED
    BY <2>2, <2>3, <2>4
<1>3. f \in [Nat -> Nat]
  BY <1>2
<1>4. HalvesOn(f, n)
  BY <1>2 DEF HalvesOn
<1> HIDE DEF f
<1>5. \E g : HalvesOn(g, n)
  BY <1>4
<1> DEFINE chosen == CHOOSE g : HalvesOn(g, n)
<1>6. HalvesOn(chosen, n)
  BY <1>5
<1>7. \A k : Shr(n, k) = chosen[k]
  BY DEF Shr, HalvesOn
<1> HIDE DEF chosen
<1>8. chosen \in [Nat -> Nat]
  <2> DEFINE P == {k \in Nat : chosen[k] \in Nat}
  <2>1. 0 \in P
    BY <1>6 DEF HalvesOn
  <2>2. ASSUME NEW k \in Nat, k \in P PROVE k + 1 \in P
    <3>1. k + 1 \in Nat /\ k + 1 # 0 /\ (k + 1) - 1 = k /\ chosen[k] \in Nat
      BY <2>2
    <3>2. chosen[k + 1] = chosen[(k + 1) - 1] \div 2
      BY <1>6, <3>1 DEF HalvesOn
    <3> QED
      BY <3>1, <3>2
  <2>3. Nat \subseteq P
    <3> HIDE DEF P
    <3> QED
      BY <2>1, <2>2, NatInductive
  <2> QED
    BY <1>6, <2>3 DEF HalvesOn
<1> QED
  BY <1>6, <1>7, <1>8

\* A shift by one more halves.
LEMMA Shifts ==
    ASSUME NEW n \in Nat, NEW k \in Nat
    PROVE  Shr(n, 0) = n /\ Shr(n, k) \in Nat /\ Shr(n, k + 1) = Shr(n, k) \div 2
<1>1. PICK f \in [Nat -> Nat] : HalvesOn(f, n) /\ \A i : Shr(n, i) = f[i]
  BY ShrIs
<1>2. k + 1 \in Nat /\ k + 1 # 0 /\ (k + 1) - 1 = k
  OBVIOUS
<1>3. f[0] = n /\ f[k + 1] = f[(k + 1) - 1] \div 2
  BY <1>1, <1>2 DEF HalvesOn
<1> QED
  BY <1>1, <1>2, <1>3

\* n has no bits from n on.
LEMMA ShiftsOut ==
    ASSUME NEW n \in Nat, NEW k \in Nat, n <= k
    PROVE  Shr(n, k) = 0
<1> DEFINE P == {j \in Nat : Shr(n, j) = 0 \/ Shr(n, j) + j <= n}
<1>1. 0 \in P
  BY Shifts
<1>2. ASSUME NEW j \in Nat, j \in P PROVE j + 1 \in P
  <2>1. Shr(n, j) \in Nat /\ Shr(n, j + 1) = Shr(n, j) \div 2
    BY Shifts
  <2> QED
    BY <1>2, <2>1
<1>3. Nat \subseteq P
  <2> HIDE DEF P
  <2> QED
    BY <1>1, <1>2, NatInductive
<1>4. Shr(n, k) \in Nat
  BY Shifts
<1> QED
  BY <1>3, <1>4

\* Shifts keep the order, and what is equal stays equal.
LEMMA ShiftsOrdered ==
    ASSUME NEW m \in Nat, NEW n \in Nat, m <= n, NEW k \in Nat
    PROVE  Shr(m, k) <= Shr(n, k)
<1> DEFINE P == {j \in Nat : Shr(m, j) <= Shr(n, j)}
<1>1. 0 \in P
  BY Shifts
<1>2. ASSUME NEW j \in Nat, j \in P PROVE j + 1 \in P
  <2>1. /\ Shr(n, j) \in Nat /\ Shr(n, j + 1) = Shr(n, j) \div 2
        /\ Shr(m, j) \in Nat /\ Shr(m, j + 1) = Shr(m, j) \div 2
    BY Shifts
  <2> QED
    BY <1>2, <2>1
<1>3. Nat \subseteq P
  <2> HIDE DEF P
  <2> QED
    BY <1>1, <1>2, NatInductive
<1> QED
  BY <1>3

\* Ancestors that are the same have the same ancestors.
LEMMA ShiftsStayEqual ==
    ASSUME NEW m \in Nat, NEW n \in Nat, NEW k \in Nat, Shr(m, k) = Shr(n, k), NEW l \in Nat, k <= l
    PROVE  Shr(m, l) = Shr(n, l)
<1> DEFINE P == {j \in Nat : k <= j => Shr(m, j) = Shr(n, j)}
<1>1. 0 \in P
  OBVIOUS
<1>2. ASSUME NEW j \in Nat, j \in P PROVE j + 1 \in P
  <2>1. Shr(n, j + 1) = Shr(n, j) \div 2 /\ Shr(m, j + 1) = Shr(m, j) \div 2
    BY Shifts
  <2>2. CASE k <= j
    BY <1>2, <2>1, <2>2
  <2>3. CASE k = j + 1
    BY <2>3
  <2> QED
    BY <2>2, <2>3
<1>3. Nat \subseteq P
  <2> HIDE DEF P
  <2> QED
    BY <1>1, <1>2, NatInductive
<1> QED
  BY <1>3

\* Apart is the first level at which the ancestors are the same.
LEMMA ApartIs ==
    ASSUME NEW m \in Nat, NEW n \in Nat, m <= n
    PROVE  /\ Apart(m, n) \in Nat /\ Apart(m, n) <= n
           /\ \A k \in Nat : Apart(m, n) <= k <=> Shr(m, k) = Shr(n, k)
<1> DEFINE Same == {k \in Nat : Shr(m, k) = Shr(n, k)}
<1>1. n \in Same
  BY ShiftsOut
<1>2. PICK a \in Same : \A k \in Same : a <= k
  <2> HIDE DEF Same
  <2>1. Same \subseteq Nat
    BY DEF Same
  <2> QED
    BY <1>1, <2>1, LeastExists
<1>3. a \in 0..(m + n) /\ a \in Nat /\ a <= n
  BY <1>1, <1>2
<1>4. Shr(m, a) = Shr(n, a) /\ \A j \in 0..(a - 1) : Shr(m, j) # Shr(n, j)
  BY <1>2, <1>3
<1>5. PICK x \in 0..(m + n) : /\ x = Apart(m, n) /\ Shr(m, x) = Shr(n, x)
                              /\ \A j \in 0..(x - 1) : Shr(m, j) # Shr(n, j)
  BY <1>3, <1>4 DEF Apart
<1>6. x = a
  BY <1>2, <1>3, <1>4, <1>5
<1>7. ASSUME NEW k \in Nat PROVE a <= k <=> Shr(m, k) = Shr(n, k)
  BY <1>2, <1>3, <1>4, ShiftsStayEqual
<1> QED
  BY <1>3, <1>5, <1>6, <1>7

-----------------------------------------------------------------------------
(* The tree *)

Leaves(e) == [i \in 1..Len(e) |-> Leaf(e[i])]

LevelsTo(g, e, n) == g = [k \in 0..n |-> IF k = 0 THEN Leaves(e) ELSE NextLevel(g[k - 1])]

\* The recursion in TreeLevels has a solution.
LEMMA LevelsExist ==
    ASSUME NEW e, NEW n \in Nat
    PROVE  \E g : LevelsTo(g, e, n)
<1> DEFINE P == {k \in Nat : \E g : LevelsTo(g, e, k)}
<1>1. 0 \in P
  <2>1. LevelsTo([k \in 0..0 |-> Leaves(e)], e, 0)
    BY DEF LevelsTo
  <2> QED
    BY <2>1
<1>2. ASSUME NEW j \in Nat, j \in P PROVE j + 1 \in P
  <2>1. PICK g : LevelsTo(g, e, j)
    BY <1>2
  <2> DEFINE h == [k \in 0..(j + 1) |-> IF k <= j THEN g[k] ELSE NextLevel(g[j])]
  <2>2. ASSUME NEW k \in 0..(j + 1)
        PROVE  h[k] = IF k = 0 THEN Leaves(e) ELSE NextLevel(h[k - 1])
    <3>1. CASE k <= j
      BY <2>1, <3>1 DEF LevelsTo
    <3>2. CASE k = j + 1
      BY <2>1, <3>2 DEF LevelsTo
    <3> QED
      BY <3>1, <3>2
  <2>3. LevelsTo(h, e, j + 1)
    BY <2>2 DEF LevelsTo
  <2> QED
    BY <2>3
<1>3. Nat \subseteq P
  <2> HIDE DEF P
  <2> QED
    BY <1>1, <1>2, NatInductive
<1> QED
  BY <1>3

\* A function on 1..n is a sequence.
LEMMA OnRange ==
    ASSUME NEW n \in Nat, NEW w, w = [i \in 1..n |-> w[i]]
    PROVE  w \in Seq({w[i] : i \in 1..n}) /\ Len(w) = n /\ DOMAIN w = 1..n
<1>1. w \in [1..n -> {w[i] : i \in 1..n}]
  OBVIOUS
<1>2. w \in Seq({w[i] : i \in 1..n})
  BY <1>1, IsASeq
<1> QED
  BY <1>1, <1>2, LenProperties

\* Level by level: the last index is shifted.
LEMMA LevelShape ==
    ASSUME NEW S, NEW e \in Seq(S), NEW m \in Nat, Len(e) = m + 1, NEW k \in Nat, k <= m + 1
    PROVE  /\ k = 0 => TreeLevels(e)[k] = Leaves(e)
           /\ k # 0 => TreeLevels(e)[k] = NextLevel(TreeLevels(e)[k - 1])
           /\ Shr(m, k) \in Nat /\ Len(TreeLevels(e)[k]) = Shr(m, k) + 1
           /\ TreeLevels(e)[k] = [i \in 1..(Shr(m, k) + 1) |-> TreeLevels(e)[k][i]]
<1>1. PICK n : n = Len(e)
  OBVIOUS
<1>2. n \in Nat /\ n # 0 /\ n - 1 \in Nat
  BY <1>1
<1>3. m = n - 1 /\ m \in Nat
  BY <1>1
<1>4. LevelsTo(TreeLevels(e), e, n)
  <2>1. \E g : LevelsTo(g, e, n)
    BY <1>2, LevelsExist
  <2> QED
    BY <2>1, <1>1 DEF TreeLevels, LevelsTo, Leaves
<1> DEFINE W == TreeLevels(e)
           Shape(j) == /\ Len(W[j]) = Shr(m, j) + 1
                       /\ W[j] = [i \in 1..(Shr(m, j) + 1) |-> W[j][i]]
           P == {j \in Nat : j <= n => Shape(j)}
<1>5. W[0] = Leaves(e)
  BY <1>2, <1>4 DEF LevelsTo
<1>6. ASSUME NEW j \in Nat, j + 1 <= n PROVE W[j + 1] = NextLevel(W[j])
  <2>1. j + 1 \in 0..n /\ j + 1 # 0 /\ (j + 1) - 1 = j
    BY <1>2, <1>6
  <2> QED
    BY <1>4, <2>1 DEF LevelsTo
<1> HIDE DEF W
<1>7. 0 \in P
  <2>1. Shr(m, 0) + 1 = n /\ n \in Nat
    BY <1>2, <1>3, Shifts
  <2>2. W[0] = [i \in 1..n |-> W[0][i]]
    BY <1>1, <1>5 DEF Leaves
  <2>3. Len(W[0]) = n
    BY <2>1, <2>2, OnRange
  <2> QED
    BY <2>1, <2>2, <2>3
<1>8. ASSUME NEW j \in Nat, j \in P PROVE j + 1 \in P
  <2>1. SUFFICES ASSUME j + 1 <= n PROVE Shape(j + 1)
    OBVIOUS
  <2>2. Len(W[j]) = Shr(m, j) + 1
    BY <1>2, <1>8, <2>1
  <2>3. Shr(m, j) \in Nat /\ Shr(m, j + 1) = Shr(m, j) \div 2
    BY <1>3, Shifts
  <2>4. PICK l : l = (Len(W[j]) + 1) \div 2
    OBVIOUS
  <2>5. l = Shr(m, j + 1) + 1 /\ l \in Nat
    BY <2>2, <2>3, <2>4
  <2>6. W[j + 1] = [i \in 1..l |-> W[j + 1][i]]
    BY <1>6, <2>1, <2>4 DEF NextLevel
  <2>7. Len(W[j + 1]) = l
    <3>1. PICK w : w = W[j + 1]
      OBVIOUS
    <3>2. w = [i \in 1..l |-> w[i]]
      BY <2>6, <3>1
    <3> QED
      BY <2>5, <3>1, <3>2, OnRange
  <2> QED
    BY <2>5, <2>6, <2>7
<1>9. Nat \subseteq P
  <2> HIDE DEF P
  <2> QED
    BY <1>7, <1>8, NatInductive
<1>10. k \in Nat /\ k <= n
  BY <1>1, <1>2
<1>11. Shape(k) /\ Shr(m, k) \in Nat
  BY <1>3, <1>9, <1>10, Shifts
<1>12. k # 0 => W[k] = NextLevel(W[k - 1])
  <2>1. SUFFICES ASSUME k # 0 PROVE W[k] = NextLevel(W[k - 1])
    OBVIOUS
  <2>2. PICK j : j = k - 1
    OBVIOUS
  <2>3. j \in Nat /\ j + 1 = k
    BY <1>10, <2>1, <2>2
  <2> QED
    BY <1>6, <1>10, <2>2, <2>3
<1> QED
  BY <1>1, <1>3, <1>5, <1>11, <1>12 DEF W

-----------------------------------------------------------------------------
(* The audit path and its check *)

PathTo(p, W, index, n) ==
    p = [k \in 0..n |-> IF k = 0 THEN <<>> ELSE p[k - 1] \o Neighbour(W[k - 1], Shr(index, k - 1))]

\* The recursion in AuditPath has a solution.
LEMMA PathsExist ==
    ASSUME NEW W, NEW index, NEW n \in Nat
    PROVE  \E p : PathTo(p, W, index, n)
<1> DEFINE P == {k \in Nat : \E p : PathTo(p, W, index, k)}
<1>1. 0 \in P
  <2>1. PathTo([k \in 0..0 |-> <<>>], W, index, 0)
    BY DEF PathTo
  <2> QED
    BY <2>1
<1>2. ASSUME NEW j \in Nat, j \in P PROVE j + 1 \in P
  <2>1. PICK p : PathTo(p, W, index, j)
    BY <1>2
  <2> DEFINE h == [k \in 0..(j + 1) |-> IF k <= j THEN p[k] ELSE p[j] \o Neighbour(W[j], Shr(index, j))]
  <2>2. ASSUME NEW k \in 0..(j + 1)
        PROVE  h[k] = IF k = 0 THEN <<>> ELSE h[k - 1] \o Neighbour(W[k - 1], Shr(index, k - 1))
    <3>1. CASE k <= j
      BY <2>1, <3>1 DEF PathTo
    <3>2. CASE k = j + 1
      BY <2>1, <3>2 DEF PathTo
    <3> QED
      BY <3>1, <3>2
  <2>3. PathTo(h, W, index, j + 1)
    BY <2>2 DEF PathTo
  <2> QED
    BY <2>3
<1>3. Nat \subseteq P
  <2> HIDE DEF P
  <2> QED
    BY <1>1, <1>2, NatInductive
<1> QED
  BY <1>3

UpTo(u, index, inner, body, hashes, n) ==
    u = [i \in 0..n |->
            IF i = 0 THEN Leaf(body)
            ELSE IF i - 1 >= inner \/ Bit(index, i - 1) = 1 THEN Node(hashes[i], u[i - 1])
            ELSE Node(u[i - 1], hashes[i])]

\* The recursion in PathRoot has a solution.
LEMMA UpsExist ==
    ASSUME NEW index, NEW inner, NEW body, NEW hashes, NEW n \in Nat
    PROVE  \E u : UpTo(u, index, inner, body, hashes, n)
<1> DEFINE P == {k \in Nat : \E u : UpTo(u, index, inner, body, hashes, k)}
<1>1. 0 \in P
  <2>1. UpTo([i \in 0..0 |-> Leaf(body)], index, inner, body, hashes, 0)
    BY DEF UpTo
  <2> QED
    BY <2>1
<1>2. ASSUME NEW j \in Nat, j \in P PROVE j + 1 \in P
  <2>1. PICK u : UpTo(u, index, inner, body, hashes, j)
    BY <1>2
  <2> DEFINE next == IF j >= inner \/ Bit(index, j) = 1 THEN Node(hashes[j + 1], u[j])
                     ELSE Node(u[j], hashes[j + 1])
             h == [i \in 0..(j + 1) |-> IF i <= j THEN u[i] ELSE next]
  <2>2. ASSUME NEW i \in 0..(j + 1)
        PROVE  h[i] = IF i = 0 THEN Leaf(body)
                      ELSE IF i - 1 >= inner \/ Bit(index, i - 1) = 1 THEN Node(hashes[i], h[i - 1])
                      ELSE Node(h[i - 1], hashes[i])
    <3>1. CASE i <= j
      <4>1. h[i] = u[i] /\ (i # 0 => h[i - 1] = u[i - 1])
        BY <3>1
      <4>2. u[i] = IF i = 0 THEN Leaf(body)
                   ELSE IF i - 1 >= inner \/ Bit(index, i - 1) = 1 THEN Node(hashes[i], u[i - 1])
                   ELSE Node(u[i - 1], hashes[i])
        BY <2>1, <3>1 DEF UpTo
      <4> QED
        BY <4>1, <4>2
    <3>2. CASE i = j + 1
      <4>1. i # 0 /\ i - 1 = j /\ h[i] = next /\ h[j] = u[j]
        BY <3>2
      <4> QED
        BY <3>2, <4>1
    <3> QED
      BY <3>1, <3>2
  <2>3. UpTo(h, index, inner, body, hashes, j + 1)
    BY <2>2 DEF UpTo
  <2> QED
    BY <2>3
<1>3. Nat \subseteq P
  <2> HIDE DEF P
  <2> QED
    BY <1>1, <1>2, NatInductive
<1> QED
  BY <1>3

\* Division by two
LEMMA Halved ==
    ASSUME NEW x \in Nat
    PROVE  x \div 2 \in Nat /\ (x % 2 = 1 => x = 2 * (x \div 2) + 1) /\ (x % 2 # 1 => x = 2 * (x \div 2))
OBVIOUS

\* A node and its neighbour make the node above.
LEMMA Parents ==
    ASSUME NEW S, NEW e \in Seq(S), NEW m \in Nat, Len(e) = m + 1, NEW k \in Nat, k <= m,
           NEW index \in Nat, index <= m
    PROVE  LET w == TreeLevels(e)[k]
               v == TreeLevels(e)[k + 1]
               x == Shr(index, k)
               parent == v[Shr(index, k + 1) + 1]
               last == Shr(m, k)
           IN  /\ x % 2 = 1 => /\ Neighbour(w, x) = <<w[x]>> /\ x \in DOMAIN w
                               /\ parent = Node(w[x], w[x + 1])
               /\ x % 2 # 1 /\ x # last => /\ Neighbour(w, x) = <<w[x + 2]>> /\ x + 2 \in DOMAIN w
                                           /\ parent = Node(w[x + 1], w[x + 2])
               /\ x % 2 # 1 /\ x = last => Neighbour(w, x) = <<>> /\ parent = w[x + 1]
<1>1. PICK w, v, x, y, last : /\ w = TreeLevels(e)[k] /\ v = TreeLevels(e)[k + 1] /\ x = Shr(index, k)
                              /\ y = Shr(index, k + 1) /\ last = Shr(m, k)
  OBVIOUS
<1>2. Len(w) = last + 1 /\ last \in Nat /\ w = [i \in 1..(last + 1) |-> w[i]]
  <2>1. k <= m + 1
    OBVIOUS
  <2> QED
    BY <1>1, <2>1, LevelShape
<1>3. Len(w) = last + 1 /\ last \in Nat
  BY <1>2
<1>4. x \in Nat /\ y = x \div 2
  BY <1>1, Shifts
<1>5. x <= last
  BY <1>1, ShiftsOrdered
<1>6. v = NextLevel(w)
  <2>1. PICK j : j = k + 1
    OBVIOUS
  <2>2. j \in Nat /\ j <= m + 1 /\ j # 0 /\ j - 1 = k
    BY <2>1
  <2>3. TreeLevels(e)[j] = NextLevel(TreeLevels(e)[j - 1])
    BY <2>2, LevelShape
  <2> QED
    BY <1>1, <2>1, <2>2, <2>3
<1>7. ASSUME NEW j \in 1..((Len(w) + 1) \div 2)
      PROVE  v[j] = IF 2 * j <= Len(w) THEN Node(w[2 * j - 1], w[2 * j]) ELSE w[2 * j - 1]
  BY <1>6, <1>7 DEF NextLevel
<1>8. y + 1 \in 1..((Len(w) + 1) \div 2)
  BY <1>3, <1>4, <1>5
<1>9. v[y + 1] = IF 2 * (y + 1) <= Len(w) THEN Node(w[2 * (y + 1) - 1], w[2 * (y + 1)])
                  ELSE w[2 * (y + 1) - 1]
  BY <1>7, <1>8
<1>10. CASE x % 2 = 1
  <2>1. 2 * (y + 1) = x + 1 /\ 2 * (y + 1) - 1 = x /\ x \in 1..(last + 1) /\ x + 1 <= Len(w)
    <3>1. x = 2 * y + 1 /\ y \in Nat
      BY <1>4, <1>10, Halved
    <3> QED
      BY <1>3, <1>5, <3>1
  <2>2. v[y + 1] = Node(w[x], w[x + 1])
    BY <1>9, <2>1
  <2>3. Neighbour(w, x) = <<w[x]>>
    BY <1>10 DEF Neighbour
  <2>4. x \in DOMAIN w
    BY <1>2, <2>1
  <2> QED
    BY <1>1, <1>10, <2>2, <2>3, <2>4
<1>11. CASE x % 2 # 1 /\ x # last
  <2>1. 2 * (y + 1) = x + 2 /\ 2 * (y + 1) - 1 = x + 1 /\ x + 2 \in 1..(last + 1) /\ x + 2 <= Len(w)
    <3>1. x = 2 * y /\ y \in Nat
      BY <1>4, <1>11, Halved
    <3>2. x + 1 <= last
      BY <1>3, <1>4, <1>5, <1>11
    <3> QED
      BY <1>3, <3>1, <3>2
  <2>2. v[y + 1] = Node(w[x + 1], w[x + 2])
    BY <1>9, <2>1
  <2>3. Neighbour(w, x) = <<w[x + 2]>>
    BY <1>11, <1>2, <2>1 DEF Neighbour
  <2>4. x + 2 \in DOMAIN w
    BY <1>2, <2>1
  <2> QED
    BY <1>1, <1>11, <2>2, <2>3, <2>4
<1>12. CASE x % 2 # 1 /\ x = last
  <2>1. 2 * (y + 1) - 1 = x + 1 /\ ~(2 * (y + 1) <= Len(w))
    <3>1. x = 2 * y /\ y \in Nat
      BY <1>4, <1>12, Halved
    <3>2. Len(w) = x + 1
      BY <1>3, <1>12
    <3> QED
      BY <3>1, <3>2
  <2>2. v[y + 1] = w[x + 1]
    BY <1>9, <2>1
  <2>3. Neighbour(w, x) = <<>>
    BY <1>12, <1>2 DEF Neighbour
  <2> QED
    BY <1>1, <1>12, <2>2, <2>3
<1> QED
  BY <1>10, <1>11, <1>12, <1>1

\* A path with one more hash.
LEMMA OneMore ==
    ASSUME NEW U, NEW a \in Seq(U), NEW b \in U
    PROVE  /\ a \o <<b>> \in Seq(U) /\ Len(a \o <<b>>) = Len(a) + 1 /\ (a \o <<b>>)[Len(a) + 1] = b
           /\ \A i \in 1..Len(a) : (a \o <<b>>)[i] = a[i]
<1>1. a \o <<b>> = Append(a, b)
  OBVIOUS
<1> QED
  BY <1>1, AppendProperties, LenProperties

\* The path level by level: its length, that it only grows, and where it leads
PathGrows(p, e, m, index, U) ==
    \A d \in 0..(m + 1) :
       /\ p[d] \in Seq(U)
       /\ d <= m =>
             LET w == TreeLevels(e)[d]
                 x == Shr(index, d)
                 c == Len(p[d])
             IN  /\ x % 2 = 1 => Len(p[d + 1]) = c + 1 /\ p[d + 1][c + 1] = w[x]
                 /\ x % 2 # 1 /\ x # Shr(m, d) => Len(p[d + 1]) = c + 1 /\ p[d + 1][c + 1] = w[x + 2]
                 /\ x % 2 # 1 /\ x = Shr(m, d) => p[d + 1] = p[d]
                 /\ c <= Len(p[d + 1]) /\ \A i \in 1..c : p[d + 1][i] = p[d][i]

LEMMA PathLevels ==
    ASSUME NEW S, NEW e \in Seq(S), NEW m \in Nat, Len(e) = m + 1, NEW index \in Nat, index <= m,
           NEW p, PathTo(p, TreeLevels(e), index, m + 1)
    PROVE  \E U : PathGrows(p, e, m, index, U)
<1> DEFINE W == TreeLevels(e)
           U == UNION {{W[k][i] : i \in DOMAIN W[k]} : k \in 0..(m + 1)}
<1>1. p[0] = <<>>
  BY DEF PathTo
<1>2. ASSUME NEW d \in Nat, d <= m PROVE p[d + 1] = p[d] \o Neighbour(W[d], Shr(index, d))
  <2>1. d + 1 \in 0..(m + 1) /\ d + 1 # 0 /\ (d + 1) - 1 = d
    BY <1>2
  <2> QED
    BY <2>1 DEF PathTo
<1>3. ASSUME NEW d \in Nat, d <= m, p[d] \in Seq(U)
      PROVE  /\ p[d + 1] \in Seq(U)
             /\ LET w == W[d]
                    x == Shr(index, d)
                    c == Len(p[d])
                IN  /\ x % 2 = 1 => Len(p[d + 1]) = c + 1 /\ p[d + 1][c + 1] = w[x]
                    /\ x % 2 # 1 /\ x # Shr(m, d) => Len(p[d + 1]) = c + 1 /\ p[d + 1][c + 1] = w[x + 2]
                    /\ x % 2 # 1 /\ x = Shr(m, d) => p[d + 1] = p[d]
                    /\ c <= Len(p[d + 1]) /\ \A i \in 1..c : p[d + 1][i] = p[d][i]
  <2>1. PICK w, x, a, b, last : w = W[d] /\ x = Shr(index, d) /\ a = p[d] /\ b = p[d + 1] /\ last = Shr(m, d)
    OBVIOUS
  <2>2. b = a \o Neighbour(w, x) /\ a \in Seq(U)
    BY <1>2, <1>3, <2>1
  <2>3. ASSUME NEW i \in DOMAIN w PROVE w[i] \in U
    BY <1>3, <2>1, <2>3
  <2>4. /\ x % 2 = 1 => Neighbour(w, x) = <<w[x]>> /\ x \in DOMAIN w
        /\ x % 2 # 1 /\ x # last => Neighbour(w, x) = <<w[x + 2]>> /\ x + 2 \in DOMAIN w
        /\ x % 2 # 1 /\ x = last => Neighbour(w, x) = <<>>
    BY <1>3, <2>1, Parents
  <2> HIDE DEF U
  <2>5. Len(a) \in Nat
    BY <2>2, LenProperties
  <2>6. CASE x % 2 = 1
    <3>1. PICK z : z = w[x] /\ z \in U
      BY <2>3, <2>4, <2>6
    <3>2. b = a \o <<z>>
      BY <2>2, <2>4, <2>6, <3>1
    <3>3. b \in Seq(U) /\ Len(b) = Len(a) + 1 /\ b[Len(a) + 1] = z /\ \A i \in 1..Len(a) : b[i] = a[i]
      BY <2>2, <3>1, <3>2, OneMore
    <3> QED
      BY <2>1, <2>5, <2>6, <3>1, <3>3
  <2>7. CASE x % 2 # 1 /\ x # last
    <3>1. PICK z : z = w[x + 2] /\ z \in U
      BY <2>3, <2>4, <2>7
    <3>2. b = a \o <<z>>
      BY <2>2, <2>4, <2>7, <3>1
    <3>3. b \in Seq(U) /\ Len(b) = Len(a) + 1 /\ b[Len(a) + 1] = z /\ \A i \in 1..Len(a) : b[i] = a[i]
      BY <2>2, <3>1, <3>2, OneMore
    <3> QED
      BY <2>1, <2>5, <2>7, <3>1, <3>3
  <2>8. CASE x % 2 # 1 /\ x = last
    <3>1. b = a
      BY <2>2, <2>4, <2>8
    <3>2. p[d + 1] = p[d] /\ Len(p[d]) \in Nat /\ p[d + 1] \in Seq(U)
      BY <1>3, <2>1, <2>5, <3>1
    <3>3. Shr(index, d) % 2 # 1 /\ Shr(index, d) = Shr(m, d)
      BY <2>1, <2>8
    <3>4. Len(p[d]) <= Len(p[d + 1]) /\ \A i \in 1..Len(p[d]) : p[d + 1][i] = p[d][i]
      BY <3>2
    <3> QED
      BY <3>2, <3>3, <3>4
  <2> QED
    BY <2>6, <2>7, <2>8
<1> DEFINE P == {d \in Nat : d <= m + 1 => p[d] \in Seq(U)}
<1> HIDE DEF U
<1>4. 0 \in P
  BY <1>1, EmptySeq
<1>5. ASSUME NEW d \in Nat, d \in P PROVE d + 1 \in P
  BY <1>3, <1>5
<1>6. Nat \subseteq P
  <2> HIDE DEF P
  <2> QED
    BY <1>4, <1>5, NatInductive
<1>7. \A d \in 0..(m + 1) : p[d] \in Seq(U)
  BY <1>6
<1>8. ASSUME NEW d \in 0..(m + 1) PROVE d \in Nat /\ p[d] \in Seq(U)
  BY <1>7
<1>9. PathGrows(p, e, m, index, U)
  BY <1>3, <1>8 DEF PathGrows
<1> QED
  BY <1>9

\* The bits of a number from one level to another
OnesBetween(n, from, to) == {i \in from..(to - 1) : Bit(n, i) = 1}

\* Cardinality of these bits, one level at a time.
LEMMA OnesCounted ==
    ASSUME NEW n, NEW from \in Nat, NEW d \in Nat, from <= d
    PROVE  /\ Cardinality(OnesBetween(n, from, from)) = 0
           /\ Cardinality(OnesBetween(n, from, d)) \in Nat
           /\ Bit(n, d) = 1 => Cardinality(OnesBetween(n, from, d + 1)) = Cardinality(OnesBetween(n, from, d)) + 1
           /\ Bit(n, d) # 1 => OnesBetween(n, from, d + 1) = OnesBetween(n, from, d)
<1>1. OnesBetween(n, from, from) = {}
  BY DEF OnesBetween
<1>2. IsFiniteSet(OnesBetween(n, from, d))
  <2>1. IsFiniteSet(from..(d - 1))
    BY FS_Interval
  <2>2. OnesBetween(n, from, d) \subseteq from..(d - 1)
    BY DEF OnesBetween
  <2> QED
    BY <2>1, <2>2, FS_Subset
<1>3. d \notin OnesBetween(n, from, d)
  BY DEF OnesBetween
<1>4. Bit(n, d) = 1 => OnesBetween(n, from, d + 1) = OnesBetween(n, from, d) \cup {d}
  BY DEF OnesBetween
<1>5. Bit(n, d) # 1 => OnesBetween(n, from, d + 1) = OnesBetween(n, from, d)
  BY DEF OnesBetween
<1>6. Cardinality(OnesBetween(n, from, d) \cup {d}) = Cardinality(OnesBetween(n, from, d)) + 1
  BY <1>2, <1>3, FS_AddElement
<1>7. Cardinality(OnesBetween(n, from, d)) \in Nat
  BY <1>2, FS_CardinalityType
<1> QED
  BY <1>1, <1>4, <1>5, <1>6, <1>7, FS_EmptySet

\* For every tree and every leaf: the path has the length that verify_proof expects,
\* and leads to the root of the tree.
LEMMA AuditPathLeads ==
    ASSUME NEW S, NEW e \in Seq(S), NEW m \in Nat, Len(e) = m + 1, NEW index \in Nat, index <= m
    PROVE  LET hashes == AuditPath(index, e)
               inner == Inner(index, m + 1)
           IN  /\ Len(hashes) = inner + Border(index, m + 1)
               /\ PathRoot(index, inner, e[index + 1], hashes) = TreeHash(e)
<1>1. PICK n, a, W : n = m + 1 /\ a = Apart(index, m) /\ W = TreeLevels(e)
  OBVIOUS
<1>2. n \in Nat /\ n - 1 = m
  BY <1>1
<1>3. Inner(index, m + 1) = a
  BY <1>1, <1>2 DEF Inner
<1>4. a \in Nat /\ a <= m /\ \A k \in Nat : a <= k <=> Shr(index, k) = Shr(m, k)
  <2>1. /\ Apart(index, m) \in Nat /\ Apart(index, m) <= m
        /\ \A k \in Nat : Apart(index, m) <= k <=> Shr(index, k) = Shr(m, k)
    BY ApartIs
  <2> QED
    BY <1>1, <2>1
<1>5. PICK p : PathTo(p, W, index, n) /\ AuditPath(index, e) = p[n]
  <2>1. \E p : PathTo(p, W, index, n)
    BY <1>2, PathsExist
  <2> DEFINE chosen == CHOOSE p : PathTo(p, W, index, n)
  <2>2. PathTo(chosen, W, index, n)
    BY <2>1
  <2>3. AuditPath(index, e) = chosen[n]
    BY <1>1 DEF AuditPath, PathTo
  <2> QED
    BY <2>2, <2>3
<1> DEFINE x(d) == Shr(index, d)
           c(d) == Len(p[d])
<1>6. PICK U : \A d \in 0..n :
              /\ p[d] \in Seq(U)
              /\ d <= m =>
                    /\ x(d) % 2 = 1 => c(d + 1) = c(d) + 1 /\ p[d + 1][c(d) + 1] = W[d][x(d)]
                    /\ x(d) % 2 # 1 /\ x(d) # Shr(m, d) => c(d + 1) = c(d) + 1 /\ p[d + 1][c(d) + 1] = W[d][x(d) + 2]
                    /\ x(d) % 2 # 1 /\ x(d) = Shr(m, d) => p[d + 1] = p[d]
                    /\ c(d) <= c(d + 1) /\ \A i \in 1..c(d) : p[d + 1][i] = p[d][i]
  <2>1. PathTo(p, TreeLevels(e), index, m + 1)
    BY <1>1, <1>5
  <2>2. PICK U : PathGrows(p, e, m, index, U)
    BY <2>1, PathLevels
  <2> QED
    BY <1>1, <2>2 DEF PathGrows
<1>7. ASSUME NEW d \in 0..n PROVE c(d) \in Nat
  BY <1>6, LenProperties
<1>8. p[0] = <<>> /\ c(0) = 0
  BY <1>2, <1>5, EmptySeq DEF PathTo
<1>9. ASSUME NEW d \in Nat, d <= m
      PROVE  /\ d \in 0..n /\ d + 1 \in 0..n
             /\ x(d) % 2 = 1 => c(d + 1) = c(d) + 1 /\ p[d + 1][c(d) + 1] = W[d][x(d)]
             /\ x(d) % 2 # 1 /\ x(d) # Shr(m, d) => c(d + 1) = c(d) + 1 /\ p[d + 1][c(d) + 1] = W[d][x(d) + 2]
             /\ x(d) % 2 # 1 /\ x(d) = Shr(m, d) => p[d + 1] = p[d]
             /\ c(d) <= c(d + 1) /\ \A i \in 1..c(d) : p[d + 1][i] = p[d][i]
  <2>1. d \in 0..n /\ d + 1 \in 0..n
    BY <1>1, <1>9
  <2> QED
    BY <1>6, <1>9, <2>1
<1> HIDE DEF x, c
<1>10. ASSUME NEW d \in 0..n
       PROVE  (d <= a => c(d) = d) /\ (a <= d => c(d) = a + Cardinality(OnesBetween(index, a, d)))
  <2> DEFINE Good_(k) == (k <= a => c(k) = k) /\ (a <= k => c(k) = a + Cardinality(OnesBetween(index, a, k)))
             P == {k \in Nat : k <= n => Good_(k)}
  <2>1. 0 \in P
    <3>1. a <= 0 => a = 0 /\ Cardinality(OnesBetween(index, a, 0)) = 0
      BY <1>4, OnesCounted
    <3> QED
      BY <1>4, <1>8, <3>1
  <2>2. ASSUME NEW k \in Nat, k \in P PROVE k + 1 \in P
    <3>1. SUFFICES ASSUME k + 1 <= n PROVE Good_(k + 1)
      OBVIOUS
    <3>2. k <= m /\ k <= n /\ Good_(k)
      BY <1>1, <1>2, <2>2, <3>1
    <3>3. CASE k < a
      <4>1. x(k) # Shr(m, k) /\ c(k) = k
        BY <1>4, <3>2, <3>3 DEF x
      <4>2. c(k + 1) = k + 1
        BY <1>9, <3>2, <4>1
      <4>3. k + 1 = a => Cardinality(OnesBetween(index, a, k + 1)) = 0
        <5>1. Cardinality(OnesBetween(index, a, a)) = 0
          BY <1>4, OnesCounted
        <5> QED
          BY <5>1
      <4> QED
        BY <1>4, <3>3, <4>2, <4>3
    <3>4. CASE a <= k
      <4>1. x(k) = Shr(m, k) /\ c(k) = a + Cardinality(OnesBetween(index, a, k))
        BY <1>4, <3>2, <3>4 DEF x
      <4>2. x(k) % 2 = Bit(index, k)
        BY DEF x, Bit
      <4>3. /\ Cardinality(OnesBetween(index, a, k)) \in Nat
            /\ Bit(index, k) = 1 => Cardinality(OnesBetween(index, a, k + 1)) = Cardinality(OnesBetween(index, a, k)) + 1
            /\ Bit(index, k) # 1 => OnesBetween(index, a, k + 1) = OnesBetween(index, a, k)
        BY <1>4, <3>4, OnesCounted
      <4>4. CASE Bit(index, k) = 1
        <5>1. c(k + 1) = c(k) + 1
          BY <1>9, <3>2, <4>2, <4>4
        <5> QED
          BY <1>4, <3>4, <4>1, <4>3, <4>4, <5>1
      <4>5. CASE Bit(index, k) # 1
        <5>1. p[k + 1] = p[k]
          BY <1>9, <3>2, <4>1, <4>2, <4>5
        <5>2. c(k + 1) = c(k)
          BY <5>1 DEF c
        <5> QED
          BY <1>4, <3>4, <4>1, <4>3, <4>5, <5>2
      <4> QED
        BY <4>4, <4>5
    <3> QED
      BY <1>4, <3>3, <3>4
  <2>3. Nat \subseteq P
    <3> HIDE DEF P
    <3> QED
      BY <2>1, <2>2, NatInductive
  <2> QED
    BY <1>2, <2>3
<1>11. Border(index, m + 1) = Cardinality(OnesBetween(index, a, n))
  <2>1. {i \in a..(a + index) : Bit(index, i) = 1} = OnesBetween(index, a, n)
    <3>1. ASSUME NEW i \in Nat, Bit(index, i) = 1 PROVE i < index
      <4>1. SUFFICES ASSUME index <= i PROVE FALSE
        OBVIOUS
      <4>2. Shr(index, i) = 0
        BY <4>1, ShiftsOut
      <4> QED
        BY <3>1, <4>2 DEF Bit
    <3>2. \A i : i \in a..(a + index) /\ Bit(index, i) = 1 <=> i \in a..(n - 1) /\ Bit(index, i) = 1
      BY <1>2, <1>4, <3>1
    <3> QED
      BY <3>2 DEF OnesBetween
  <2> QED
    BY <1>3, <2>1 DEF Border, OnesFrom
<1>12. Len(AuditPath(index, e)) = a + Border(index, m + 1)
  <2>1. n \in 0..n /\ a <= n
    BY <1>1, <1>2, <1>4
  <2> QED
    BY <1>5, <1>10, <1>11, <2>1 DEF c
\* What is on the path stays on it.
<1>13. ASSUME NEW d \in 0..n PROVE c(d) <= c(n) /\ \A i \in 1..c(d) : p[n][i] = p[d][i]
  <2> DEFINE P == {k \in Nat : d <= k /\ k <= n => c(d) <= c(k) /\ \A i \in 1..c(d) : p[k][i] = p[d][i]}
  <2>0. d \in Nat /\ c(d) \in Nat
    BY <1>2, <1>7
  <2>1. 0 \in P
    <3>1. d <= 0 => d = 0
      BY <2>0
    <3> QED
      BY <2>0, <3>1
  <2>2. ASSUME NEW k \in Nat, k \in P PROVE k + 1 \in P
    <3>1. SUFFICES ASSUME d <= k + 1, k + 1 <= n
                   PROVE  c(d) <= c(k + 1) /\ \A i \in 1..c(d) : p[k + 1][i] = p[d][i]
      OBVIOUS
    <3>2. CASE d = k + 1
      BY <2>0, <3>2
    <3>3. CASE d <= k
      <4>1. k <= m /\ k <= n
        BY <1>1, <1>2, <3>1
      <4>2. c(d) <= c(k) /\ \A i \in 1..c(d) : p[k][i] = p[d][i]
        BY <2>2, <3>3, <4>1
      <4>3. c(k) <= c(k + 1) /\ (\A i \in 1..c(k) : p[k + 1][i] = p[k][i]) /\ k \in 0..n /\ k + 1 \in 0..n
        BY <1>9, <4>1
      <4>4. c(k) \in Nat /\ c(k + 1) \in Nat
        BY <1>7, <4>3
      <4> QED
        BY <2>0, <4>2, <4>3, <4>4
    <3> QED
      BY <2>0, <3>1, <3>2, <3>3
  <2>3. Nat \subseteq P
    <3> HIDE DEF P
    <3> QED
      BY <2>1, <2>2, NatInductive
  <2> QED
    BY <1>2, <2>3
<1>14. PICK u : /\ UpTo(u, index, a, e[index + 1], p[n], c(n))
                /\ PathRoot(index, a, e[index + 1], p[n]) = u[c(n)]
  <2>1. n \in 0..n
    BY <1>2
  <2>2. \E u : UpTo(u, index, a, e[index + 1], p[n], c(n))
    BY <1>7, <2>1, UpsExist
  <2> DEFINE chosen == CHOOSE u : UpTo(u, index, a, e[index + 1], p[n], c(n))
  <2>3. UpTo(chosen, index, a, e[index + 1], p[n], c(n))
    BY <2>2
  <2>4. PathRoot(index, a, e[index + 1], p[n]) = chosen[c(n)]
    BY DEF PathRoot, UpTo, c
  <2> QED
    BY <2>3, <2>4
<1>15. ASSUME NEW i \in Nat, i < c(n)
       PROVE  u[i + 1] = IF i >= a \/ Bit(index, i) = 1 THEN Node(p[n][i + 1], u[i])
                         ELSE Node(u[i], p[n][i + 1])
  <2>1. n \in 0..n /\ c(n) \in Nat
    BY <1>2, <1>7
  <2>2. i + 1 \in 0..c(n) /\ i + 1 # 0 /\ (i + 1) - 1 = i
    BY <1>15, <2>1
  <2> QED
    BY <1>14, <2>2 DEF UpTo
<1>16. ASSUME NEW d \in 0..n PROVE u[c(d)] = W[d][x(d) + 1]
  <2> DEFINE P == {k \in Nat : k <= n => u[c(k)] = W[k][x(k) + 1]}
  <2>1. 0 \in P
    <3>1. x(0) = index
      BY Shifts DEF x
    <3>2. W[0] = Leaves(e)
      <4>1. PICK z : z = 0
        OBVIOUS
      <4>2. z \in Nat /\ z <= m + 1
        BY <4>1
      <4>3. TreeLevels(e)[z] = Leaves(e)
        BY <4>1, <4>2, LevelShape
      <4> QED
        BY <1>1, <4>1, <4>3
    <3>3. Leaves(e)[index + 1] = Leaf(e[index + 1])
      BY DEF Leaves
    <3>4. u[0] = Leaf(e[index + 1])
      <4>1. 0 \in 0..c(n)
        BY <1>2, <1>7
      <4> QED
        BY <1>14, <4>1 DEF UpTo
    <3> QED
      BY <1>8, <3>1, <3>2, <3>3, <3>4
  <2>2. ASSUME NEW k \in Nat, k \in P PROVE k + 1 \in P
    <3>1. SUFFICES ASSUME k + 1 <= n PROVE u[c(k + 1)] = W[k + 1][x(k + 1) + 1]
      OBVIOUS
    <3>2. k <= m /\ k <= n /\ k \in 0..n /\ k + 1 \in 0..n
      BY <1>1, <1>2, <3>1
    <3>3. u[c(k)] = W[k][x(k) + 1]
      BY <2>2, <3>2
    <3>4. c(k) \in Nat /\ c(k + 1) \in Nat
      BY <1>7, <3>2
    <3>5. /\ x(k) % 2 = 1 => W[k + 1][x(k + 1) + 1] = Node(W[k][x(k)], W[k][x(k) + 1])
          /\ x(k) % 2 # 1 /\ x(k) # Shr(m, k) =>
                W[k + 1][x(k + 1) + 1] = Node(W[k][x(k) + 1], W[k][x(k) + 2])
          /\ x(k) % 2 # 1 /\ x(k) = Shr(m, k) => W[k + 1][x(k + 1) + 1] = W[k][x(k) + 1]
      BY <1>1, <3>2, Parents DEF x
    <3>6. Bit(index, k) = x(k) % 2
      BY DEF Bit, x
    <3>7. (k <= a => c(k) = k) /\ (a <= k => c(k) >= a)
      <4>1. a <= k => Cardinality(OnesBetween(index, a, k)) \in Nat
        BY <1>4, OnesCounted
      <4> QED
        BY <1>4, <1>10, <3>2, <4>1
    <3>8. c(k + 1) <= c(n) /\ \A i \in 1..c(k + 1) : p[n][i] = p[k + 1][i]
      BY <1>13, <3>2
    <3>9. n \in 0..n /\ c(n) \in Nat
      BY <1>2, <1>7
    <3>10. CASE x(k) % 2 = 1
      <4>1. c(k + 1) = c(k) + 1 /\ p[k + 1][c(k) + 1] = W[k][x(k)]
        BY <1>9, <3>2, <3>10
      <4>2. p[n][c(k) + 1] = W[k][x(k)] /\ c(k) < c(n)
        BY <3>4, <3>8, <3>9, <4>1
      <4>3. c(k) >= a \/ Bit(index, c(k)) = 1
        BY <1>4, <3>6, <3>7, <3>10
      <4>4. u[c(k) + 1] = Node(p[n][c(k) + 1], u[c(k)])
        BY <1>15, <3>4, <4>2, <4>3
      <4> QED
        BY <3>3, <3>5, <3>10, <4>1, <4>2, <4>4
    <3>11. CASE x(k) % 2 # 1 /\ x(k) # Shr(m, k)
      <4>1. c(k + 1) = c(k) + 1 /\ p[k + 1][c(k) + 1] = W[k][x(k) + 2]
        BY <1>9, <3>2, <3>11
      <4>2. p[n][c(k) + 1] = W[k][x(k) + 2] /\ c(k) < c(n)
        BY <3>4, <3>8, <3>9, <4>1
      <4>3. ~(a <= k)
        BY <1>4, <3>11 DEF x
      <4>4. c(k) = k /\ ~(c(k) >= a) /\ Bit(index, c(k)) # 1
        BY <1>4, <3>6, <3>7, <3>11, <4>3
      <4>5. u[c(k) + 1] = Node(u[c(k)], p[n][c(k) + 1])
        BY <1>15, <3>4, <4>2, <4>4
      <4> QED
        BY <3>3, <3>5, <3>11, <4>1, <4>2, <4>5
    <3>12. CASE x(k) % 2 # 1 /\ x(k) = Shr(m, k)
      <4>1. p[k + 1] = p[k]
        BY <1>9, <3>2, <3>12
      <4>2. c(k + 1) = c(k)
        BY <4>1 DEF c
      <4> QED
        BY <3>3, <3>5, <3>12, <4>2
    <3> QED
      BY <3>10, <3>11, <3>12
  <2>3. Nat \subseteq P
    <3> HIDE DEF P
    <3> QED
      BY <2>1, <2>2, NatInductive
  <2> QED
    BY <1>2, <2>3
<1>17. PathRoot(index, a, e[index + 1], AuditPath(index, e)) = TreeHash(e)
  <2>1. x(n) = 0
    BY <1>1, <1>2, ShiftsOut DEF x
  <2>2. n \in 0..n
    BY <1>2
  <2>3. u[c(n)] = W[n][1]
    BY <1>16, <2>1, <2>2
  <2> QED
    BY <1>1, <1>5, <1>14, <2>3 DEF TreeHash
<1> QED
  BY <1>3, <1>12, <1>17

-----------------------------------------------------------------------------
(* Bundles *)

LogType == log \in Seq(Releases \cup {[other |-> k] : k \in Nat})

\* A released entry is one of the releases.
LEMMA ReleasedAre ==
    ASSUME LogType, NEW i \in Released
    PROVE  /\ log[i] \in Releases /\ i \in 1..Len(log) /\ Len(log) \in Nat /\ i \in Nat /\ i # 0
           /\ IsRelease(log[i])
<1>1. i \in 1..Len(log) /\ Len(log) \in Nat /\ IsRelease(log[i])
  BY LenProperties DEF LogType, Released
<1>2. log[i] \in Releases \cup {[other |-> k] : k \in Nat}
  BY <1>1, ElementOfSeq DEF LogType
<1>3. ASSUME NEW k PROVE ~IsRelease([other |-> k])
  BY DEF IsRelease
<1> QED
  BY <1>1, <1>2, <1>3

\* The proof of an entry's inclusion, as of any later size of the tree, is accepted.
LEMMA InclusionVerifies ==
    ASSUME LogType, NEW i \in Released, NEW n \in i..Len(log)
    PROVE  VerifyProof(Bundle(i, n).proof, Body(log[i]), Root.tlogs[1].key)
<1>1. i \in Nat /\ i # 0 /\ n \in Nat /\ i <= n /\ n <= Len(log) /\ IsRelease(log[i])
  BY ReleasedAre
<1>2. PICK e : e = Bodies(n)
  OBVIOUS
<1>3. e = [k \in 1..n |-> e[k]] /\ e[i] = Body(log[i])
  BY <1>1, <1>2 DEF Bodies, EntryBody
<1>4. PICK S : e \in Seq(S) /\ Len(e) = n
  BY <1>1, <1>3, OnRange
<1>5. PICK m, index : m = n - 1 /\ index = i - 1
  OBVIOUS
<1>6. m \in Nat /\ index \in Nat /\ index <= m /\ Len(e) = m + 1 /\ n = m + 1 /\ index + 1 = i
  BY <1>1, <1>4, <1>5
<1>7. /\ Len(AuditPath(index, e)) = Inner(index, m + 1) + Border(index, m + 1)
      /\ PathRoot(index, Inner(index, m + 1), e[index + 1], AuditPath(index, e)) = TreeHash(e)
  BY <1>4, <1>6, AuditPathLeads
<1>8. PICK proof : proof = Bundle(i, n).proof
  OBVIOUS
<1>9. /\ proof.index = index /\ proof.size = n /\ proof.hashes = AuditPath(index, e)
      /\ proof.root = TreeHash(e)
  BY <1>2, <1>5, <1>8 DEF Bundle
<1>10. PICK cp, key : cp = proof.checkpoint /\ key = Root.tlogs[1].key
  OBVIOUS
<1>11. /\ cp.size = n /\ cp.root = TreeHash(e)
       /\ cp.sigs = <<Signed("witness", <<n, TreeHash(e)>>), Signed(key, <<n, TreeHash(e)>>)>>
  BY <1>2, <1>8, <1>10 DEF Bundle
<1>12. VerifyCheckpoint(cp, n, TreeHash(e), key)
  <2>1. PICK root : root = TreeHash(e)
    OBVIOUS
  <2>2. Len(cp.sigs) = 2 /\ 2 \in DOMAIN cp.sigs /\ cp.sigs[2] = Signed(key, <<n, root>>)
    BY <1>11, <2>1
  <2> QED
    BY <1>11, <2>1, <2>2 DEF VerifyCheckpoint
<1> QED
  BY <1>3, <1>6, <1>7, <1>8, <1>9, <1>10, <1>12 DEF VerifyProof

\* The authority that decides issued the certificate.
LEMMA DecidingAuthority ==
    ASSUME NEW cert, NEW at
    PROVE  /\ (\E a \in Range(Root.authorities) : Issues(a, cert, at)) => VerifyChain(cert, at) # Refused
           /\ VerifyChain(cert, at) # Refused =>
                 CheckTime(cert, at) /\ cert.signer = VerifyChain(cert, at).key
<1> DEFINE decisive == {i \in DOMAIN Root.authorities : \/ Unreadable(Root.authorities[i])
                                                        \/ Issues(Root.authorities[i], cert, at)}
           least == CHOOSE i \in decisive : \A j \in decisive : i <= j
           chosen == Root.authorities[least]
<1>1. decisive \subseteq Nat
  BY ProvenanceAssumption, LenProperties
<1>2. VerifyChain(cert, at) = IF decisive = {} THEN Refused
                              ELSE IF Unreadable(chosen) THEN Refused ELSE chosen.chain[1]
  BY DEF VerifyChain
<1>3. decisive # {} => least \in decisive
  <2> HIDE DEF decisive
  <2>1. decisive # {} => \E i \in decisive : \A j \in decisive : i <= j
    BY <1>1, LeastExists
  <2> QED
    BY <2>1
<1> HIDE DEF least
<1>4. decisive # {} => /\ ~Unreadable(chosen) /\ Issues(chosen, cert, at)
                       /\ chosen.chain \in Seq(Range(chosen.chain)) /\ Refused \notin Range(chosen.chain)
  BY <1>3, ProvenanceAssumption DEF Range
<1>5. (\E a \in Range(Root.authorities) : Issues(a, cert, at)) => decisive # {}
  BY DEF Range
<1> HIDE DEF decisive, chosen
<1>6. decisive # {} => chosen.chain[1] # Refused
  <2>1. SUFFICES ASSUME decisive # {} PROVE chosen.chain[1] # Refused
    OBVIOUS
  <2>2. PICK chain : chain = chosen.chain
    OBVIOUS
  <2>3. chain \in Seq(Range(chain)) /\ chain # <<>> /\ Refused \notin Range(chain)
    BY <1>4, <2>1, <2>2 DEF Issues
  <2>4. 1 \in DOMAIN chain
    BY <2>3, EmptySeq, LenProperties
  <2> QED
    BY <2>2, <2>3, <2>4 DEF Range
<1>7. decisive # {} => CheckTime(cert, at) /\ cert.signer = chosen.chain[1].key
  BY <1>4 DEF Issues, CheckIssued
<1> QED
  BY <1>2, <1>4, <1>5, <1>6, <1>7

\* Completeness: a good release verifies, whatever the log has grown to.
LEMMA GoodVerifies ==
    ASSUME LogType, NEW i \in Released, NEW asked, Good(log[i], asked), NEW n \in i..Len(log)
    PROVE  VerifyTinfoilSigstoreBundle(Bundle(i, n), asked.repo, asked.digest) = log[i].statement.snp
<1>1. PICK b, r, rekor : b = Bundle(i, n) /\ r = log[i] /\ rekor = Root.tlogs[1]
  OBVIOUS
<1>2. r \in Releases /\ i \in Nat
  BY <1>1, ReleasedAre
<1>3. /\ b.envelope = [statement |-> r.statement, sigs |-> <<Signed(r.cert.key, r.statement)>>]
      /\ b.certificate = r.cert /\ b.body = Body(r)
      /\ b.stamp = [integrated |-> r.at, index |-> ShardBase + i - 1, log |-> rekor.id]
      /\ b.promise = Signed(rekor.key, <<Body(r), r.at, ShardBase + i - 1, rekor.id>>)
  BY <1>1 DEF Bundle
<1>4. /\ r.at \in r.cert.from..r.cert.to /\ r.cert.scts # <<>>
      /\ KeyValidAt(rekor.valid, r.at)
      /\ \E authority \in Range(Root.authorities) : Issues(authority, r.cert, r.at)
      /\ \E k \in DOMAIN r.cert.scts, j \in DOMAIN Root.ctlogs :
            Stamps(Root.ctlogs[j], r.cert.scts[k], r.cert)
  BY <1>1, <1>2, ProvenanceAssumption DEF Good
<1>5. PICK issuer : issuer = VerifyChain(b.certificate, b.stamp.integrated)
  OBVIOUS
<1>6. issuer # Refused /\ r.cert.signer = issuer.key
  BY <1>3, <1>4, <1>5, DecidingAuthority
<1>7. VerifySct(b.certificate, issuer)
  <2>1. PICK k \in DOMAIN r.cert.scts, j \in DOMAIN Root.ctlogs :
           Stamps(Root.ctlogs[j], r.cert.scts[k], r.cert)
    BY <1>4
  <2>2. VerifyOne(r.cert.scts[k], r.cert, issuer)
    BY <1>6, <2>1 DEF VerifyOne, Stamps
  <2>3. ~r.cert.poisoned
    BY <1>1 DEF Good
  <2> QED
    BY <1>3, <2>2, <2>3 DEF VerifySct
<1>8. CheckIdentity(b.certificate, asked.repo)
  BY <1>1, <1>3 DEF CheckIdentity, Good
<1>9. Measures(b.envelope.statement, asked.digest)
  BY <1>1, <1>3 DEF Measures, Good
<1>10. VerifyRekor(b)
  <2> DEFINE known == {k \in DOMAIN Root.tlogs : Root.tlogs[k].id = b.stamp.log}
             first == CHOOSE k \in known : \A j \in known : k <= j
  <2>1. known \subseteq Nat \ {0} /\ 1 \in known
    <3>1. DOMAIN Root.tlogs = 1..Len(Root.tlogs) /\ Len(Root.tlogs) \in Nat /\ Len(Root.tlogs) # 0
      BY ProvenanceAssumption, LenProperties, EmptySeq
    <3> QED
      BY <1>1, <1>3, <3>1
  <2>2. first = 1
    <3> HIDE DEF known
    <3>1. \E k \in known : \A j \in known : k <= j
      BY <2>1
    <3>2. PICK least : least = first
      OBVIOUS
    <3>3. least \in known /\ \A j \in known : least <= j
      BY <3>1, <3>2
    <3> HIDE DEF first
    <3>4. least \in Nat /\ least # 0 /\ least <= 1
      BY <2>1, <3>3
    <3>5. least = 1
      BY <3>4
    <3> QED
      BY <3>2, <3>5
  <2>3. VerifyBinding(b.body, b.envelope, b.certificate)
    BY <1>3 DEF VerifyBinding, Body
  <2>4. rekor.sha256 /\ rekor.keyHash = b.stamp.log
    BY <1>1, <1>3, ProvenanceAssumption
  <2>5. b.promise = Signed(rekor.key, <<b.body, b.stamp.integrated, b.stamp.index, b.stamp.log>>)
    BY <1>3
  <2>6. VerifyProof(b.proof, b.body, rekor.key)
    BY <1>1, <1>3, InclusionVerifies
  <2>7. KeyValidAt(rekor.valid, b.stamp.integrated)
    BY <1>3, <1>4
  <2>8. Root.tlogs[first] = rekor /\ known # {}
    BY <1>1, <2>1, <2>2
  <2> HIDE DEF first
  <2>9. VerifyRekor(b) = (/\ VerifyBinding(b.body, b.envelope, b.certificate)
                          /\ known # {}
                          /\ Root.tlogs[first].sha256 /\ Root.tlogs[first].keyHash = b.stamp.log
                          /\ KeyValidAt(Root.tlogs[first].valid, b.stamp.integrated)
                          /\ b.promise = Signed(Root.tlogs[first].key,
                                                <<b.body, b.stamp.integrated, b.stamp.index, b.stamp.log>>)
                          /\ VerifyProof(b.proof, b.body, Root.tlogs[first].key))
    BY DEF VerifyRekor, first
  <2> HIDE DEF known
  <2> QED
    BY <2>3, <2>4, <2>5, <2>6, <2>7, <2>8, <2>9
<1>11. b.envelope.sigs = <<Signed(b.certificate.key, b.envelope.statement)>>
  BY <1>3
<1>12. VerifyTinfoilSigstoreBundle(b, asked.repo, asked.digest) = b.envelope.statement.snp
  BY <1>5, <1>6, <1>7, <1>8, <1>9, <1>10, <1>11 DEF VerifyTinfoilSigstoreBundle
<1> QED
  BY <1>1, <1>3, <1>12

\* Soundness: whatever else a bundle holds, if Rekor's promise in it is one for a release,
\* then what is accepted is that release, and it is good.
LEMMA PromiseDecides ==
    ASSUME LogType, NEW i \in Released, NEW n, NEW asked, NEW b, b.promise = Bundle(i, n).promise,
           VerifyTinfoilSigstoreBundle(b, asked.repo, asked.digest) # Refused
    PROVE  /\ Good(log[i], asked)
           /\ VerifyTinfoilSigstoreBundle(b, asked.repo, asked.digest) = log[i].statement.snp
<1>1. PICK r, rekor, index : r = log[i] /\ rekor = Root.tlogs[1] /\ index = ShardBase + i - 1
  OBVIOUS
<1>2. r \in Releases
  BY <1>1, ReleasedAre
<1>3. b.promise = Signed(rekor.key, <<Body(r), r.at, index, rekor.id>>)
  BY <1>1 DEF Bundle
<1>4. PICK issuer : issuer = VerifyChain(b.certificate, b.stamp.integrated)
  OBVIOUS
<1>5. /\ VerifyRekor(b) /\ issuer # Refused /\ CheckIdentity(b.certificate, asked.repo)
      /\ VerifySct(b.certificate, issuer) /\ Measures(b.envelope.statement, asked.digest)
      /\ VerifyTinfoilSigstoreBundle(b, asked.repo, asked.digest) = b.envelope.statement.snp
  BY <1>4 DEF VerifyTinfoilSigstoreBundle
<1>6. PICK key : b.promise = Signed(key, <<b.body, b.stamp.integrated, b.stamp.index, b.stamp.log>>)
  BY <1>5 DEF VerifyRekor
<1>7. b.body = Body(r) /\ b.stamp.integrated = r.at
  BY <1>3, <1>6 DEF Signed
<1>8. VerifyBinding(b.body, b.envelope, b.certificate)
  BY <1>5 DEF VerifyRekor
<1>9. b.envelope.statement = r.statement /\ b.certificate = r.cert
  BY <1>7, <1>8 DEF VerifyBinding, Body
<1>10. CheckTime(r.cert, r.at)
  BY <1>4, <1>5, <1>7, <1>9, DecidingAuthority
<1>11. r.at \in r.cert.from..r.cert.to
  BY <1>2, <1>10, ProvenanceAssumption DEF CheckTime
<1>12. r.cert.scts # <<>> /\ ~r.cert.poisoned
  BY <1>5, <1>9 DEF VerifySct
<1>13. Good(r, asked)
  BY <1>5, <1>9, <1>11, <1>12 DEF Good, CheckIdentity, Measures
<1> QED
  BY <1>1, <1>5, <1>9, <1>13

\* For every log, root and release: bundles verify if and only if they are whole.
THEOREM ReleasesStayAsLogged == ProvenanceSpec => []ReleasesAsLogged
<1>1. ProvenanceInit => LogType
  BY EmptySeq DEF ProvenanceInit, LogType
<1>2. LogType /\ [AppendEntry]_log => LogType'
  <2> SUFFICES ASSUME LogType, AppendEntry PROVE LogType'
    BY DEF LogType
  <2> DEFINE E == Releases \cup {[other |-> k] : k \in Nat}
  <2>1. PICK entry \in Releases \cup {[other |-> Len(log)]} : log' = Append(log, entry)
    BY DEF AppendEntry
  <2>2. entry \in E
    BY LenProperties DEF LogType
  <2> HIDE DEF E
  <2>3. Append(log, entry) \in Seq(E)
    BY <2>2, AppendProperties DEF LogType, E
  <2> QED
    BY <2>1, <2>3 DEF LogType, E
<1>3. LogType => ReleasesAsLogged
  <2> SUFFICES ASSUME LogType PROVE ReleasesAsLogged
    OBVIOUS
  <2>1. GoodReleaseVerifies
    BY GoodVerifies DEF GoodReleaseVerifies
  <2>2. AcceptedIsReleased
    <3>1. ASSUME NEW i \in Released, NEW j \in Released, NEW asked \in Asked, NEW n, NEW m,
                 NEW c, c.promise = Bundle(i, n).promise \/ c.promise = Bundle(j, m).promise
          PROVE  BundleSound(c, asked)
      <4>1. SUFFICES ASSUME VerifyTinfoilSigstoreBundle(c, asked.repo, asked.digest) # Refused
                     PROVE  BundleSound(c, asked)
        BY DEF BundleSound
      <4>2. CASE c.promise = Bundle(i, n).promise
        BY <4>1, <4>2, PromiseDecides DEF BundleSound
      <4>3. CASE c.promise = Bundle(j, m).promise
        BY <4>1, <4>3, PromiseDecides DEF BundleSound
      <4> QED
        BY <3>1, <4>2, <4>3
    <3>2. ASSUME NEW i, NEW j, NEW n, NEW m, NEW f \in DOMAIN Bundle(i, n)
          PROVE  \/ [Bundle(i, n) EXCEPT ![f] = Bundle(j, m)[f]].promise = Bundle(i, n).promise
                 \/ [Bundle(i, n) EXCEPT ![f] = Bundle(j, m)[f]].promise = Bundle(j, m).promise
      BY DEF Bundle
    <3>3. ASSUME NEW i, NEW j, NEW n, NEW m, NEW f \in DOMAIN Bundle(i, n).proof
          PROVE  [Bundle(i, n) EXCEPT !.proof[f] = Bundle(j, m).proof[f]].promise = Bundle(i, n).promise
      BY DEF Bundle
    <3>4. ASSUME NEW i \in Released, NEW j \in Released, NEW asked \in Asked, NEW n, NEW m,
                 NEW f \in DOMAIN Bundle(i, n)
          PROVE  BundleSound([Bundle(i, n) EXCEPT ![f] = Bundle(j, m)[f]], asked)
      <4>1. PICK c : c = [Bundle(i, n) EXCEPT ![f] = Bundle(j, m)[f]]
        OBVIOUS
      <4>2. c.promise = Bundle(i, n).promise \/ c.promise = Bundle(j, m).promise
        BY <3>2, <3>4, <4>1
      <4> QED
        BY <3>1, <4>1, <4>2
    <3>5. ASSUME NEW i \in Released, NEW j \in Released, NEW asked \in Asked, NEW n, NEW m,
                 NEW f \in DOMAIN Bundle(i, n).proof
          PROVE  BundleSound([Bundle(i, n) EXCEPT !.proof[f] = Bundle(j, m).proof[f]], asked)
      <4>1. PICK c : c = [Bundle(i, n) EXCEPT !.proof[f] = Bundle(j, m).proof[f]]
        OBVIOUS
      <4>2. c.promise = Bundle(i, n).promise
        BY <3>3, <3>5, <4>1
      <4> QED
        BY <3>1, <4>1, <4>2
    <3> QED
      BY <3>4, <3>5 DEF AcceptedIsReleased
  <2> QED
    BY <2>1, <2>2 DEF ReleasesAsLogged
<1> QED
  BY <1>1, <1>2, <1>3, PTL DEF ProvenanceSpec
=============================================================================
