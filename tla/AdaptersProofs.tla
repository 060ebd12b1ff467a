--------------------------- MODULE AdaptersProofs ---------------------------
(***************************************************************************)
(* Proofs about the state the adapters share between requests: the         *)
(* evidence store and one-use nonces (Adapters), the collateral resolver   *)
(* (Collateral) and the key caches (KeyCaches), for any number of          *)
(* requests, resolves, entries and lookups.                                *)
(***************************************************************************)
EXTENDS CachedKeys, Collateral, FiniteSetTheorems, SequenceTheorems, TLAPS

-----------------------------------------------------------------------------
(* Sequences *)

\* The elements of a sequence without one of its positions.
LEMMA RemoveAtElements ==
    ASSUME NEW S, NEW s \in Seq(S), NEW i \in 1..Len(s)
    PROVE  /\ RemoveAt(s, i) \in Seq(S)
           /\ Len(RemoveAt(s, i)) = Len(s) - 1
           /\ \A j \in 1..(Len(s) - 1) :
                 RemoveAt(s, i)[j] = IF j < i THEN s[j] ELSE s[j + 1]
<1> DEFINE a == SubSeq(s, 1, i - 1)
           b == SubSeq(s, i + 1, Len(s))
<1>1. Len(s) \in Nat /\ i \in Nat /\ i >= 1 /\ i <= Len(s)
  BY LenProperties
<1>2. /\ a \in Seq(S) /\ Len(a) = i - 1
      /\ \A j \in 1..(i - 1) : a[j] = s[j]
  BY <1>1, SubSeqProperties
<1>3. /\ b \in Seq(S) /\ Len(b) = Len(s) - i
      /\ \A j \in 1..(Len(s) - i) : b[j] = s[i + j]
  BY <1>1, SubSeqProperties
<1> HIDE DEF a, b
<1>4. /\ a \o b \in Seq(S) /\ Len(a \o b) = Len(a) + Len(b)
      /\ \A j \in 1..(Len(a) + Len(b)) :
            (a \o b)[j] = IF j <= Len(a) THEN a[j] ELSE b[j - Len(a)]
  BY <1>2, <1>3, ConcatProperties
<1>5. RemoveAt(s, i) = a \o b
  BY DEF RemoveAt, a, b
<1>6. ASSUME NEW j \in 1..(Len(s) - 1)
      PROVE  (a \o b)[j] = IF j < i THEN s[j] ELSE s[j + 1]
  <2>1. j \in 1..(Len(a) + Len(b))
    BY <1>1, <1>2, <1>3
  <2>2. CASE j < i
    BY <1>1, <1>2, <1>4, <2>1, <2>2
  <2>3. CASE ~(j < i)
    <3>1. (a \o b)[j] = b[j - (i - 1)]
      BY <1>1, <1>2, <1>4, <2>1, <2>3
    <3>2. j - (i - 1) \in 1..(Len(s) - i) /\ i + (j - (i - 1)) = j + 1
      BY <1>1, <2>3
    <3> QED
      BY <1>3, <2>3, <3>1, <3>2
  <2> QED
    BY <2>2, <2>3
<1>7. Len(a \o b) = Len(s) - 1
  BY <1>1, <1>2, <1>3, <1>4
<1> QED
  BY <1>4, <1>5, <1>6, <1>7

-----------------------------------------------------------------------------
(* KeyCaches *)

\* A fetch lasts at most FetchTime, and what it stores is no older than that.
KeyInv ==
    /\ instant \in Nat
    /\ look \in [Lookups -> [pc : {"idle", "vcek", "jwks"}, cert : Certs \cup {"none"},
                             since : Nat]]
    /\ \A l \in Lookups :
          look[l].pc # "idle" => look[l].since <= instant /\ instant - look[l].since <= FetchTime
    /\ \A c \in jwks : /\ c.at \in Nat /\ c.taken \in Nat
                       /\ c.taken <= c.at /\ c.at - c.taken <= FetchTime
    /\ age \in Int /\ JwksAgeBounded

\* The steps of callers and of the clock keep it.
LEMMA KeyStep == KeyInv /\ [VcekNext \/ JwksNext]_keyVars => KeyInv'
<1> SUFFICES ASSUME KeyInv, [VcekNext \/ JwksNext]_keyVars PROVE KeyInv'
  OBVIOUS
<1>0. JwksTtl \in Nat /\ FetchTime \in Nat
  BY KeyCachesAssumption
<1> USE <1>0
<1>1. CASE UNCHANGED keyVars
  BY <1>1 DEF keyVars, KeyInv, JwksAgeBounded
<1>2. CASE Pass
  BY <1>2 DEF Pass, KeyInv, JwksAgeBounded
<1>3. ASSUME NEW l \in Lookups, StartVcek(l) \/ StoreVcek(l) PROVE KeyInv'
  BY <1>3 DEF StartVcek, StoreVcek, KeyInv, JwksAgeBounded, Resting
<1>4. ASSUME NEW l \in Lookups, HitJwks(l) PROVE KeyInv'
  <2>1. PICK c \in jwks : instant - c.at < JwksTtl /\ age' = instant - c.taken
    BY <1>4 DEF HitJwks, FreshJwks
  <2>2. c.at \in Nat /\ c.taken \in Nat /\ c.at - c.taken <= FetchTime /\ instant \in Nat
    BY DEF KeyInv
  <2>3. age' \in Int /\ age' <= JwksTtl + FetchTime
    BY <2>1, <2>2
  <2> QED
    BY <1>4, <2>3 DEF HitJwks, JwksAfterHit, KeyInv, JwksAgeBounded
<1>5. ASSUME NEW l \in Lookups, StartJwks(l) PROVE KeyInv'
  BY <1>5 DEF StartJwks, KeyInv, JwksAgeBounded
<1>6. ASSUME NEW l \in Lookups, StoreJwks(l) PROVE KeyInv'
  BY <1>6 DEF StoreJwks, KeyInv, JwksAgeBounded, Resting
<1> QED
  BY <1>1, <1>2, <1>3, <1>4, <1>5, <1>6 DEF VcekNext, JwksNext

\* GPU tokens are verified with keys that are at most a TTL and one fetch old, however
\* many callers fetch them at once.
THEOREM JwksStayCurrent == KeySpec => []JwksAgeBounded
<1>1. KeyInit => KeyInv
  BY KeyCachesAssumption DEF KeyInit, KeyInv, JwksAgeBounded, Resting
<1>2. KeyInv => JwksAgeBounded
  BY DEF KeyInv
<1> QED
  BY <1>1, <1>2, KeyStep, PTL DEF KeySpec

\* A slower lookup that failed never turns a certificate that was found into a failure,
\* evictions between its look and its store included.
THEOREM FoundCertsStay == KeySpec => FoundCertStays
<1>1. [VcekNext \/ JwksNext]_keyVars =>
        [\A c \in DOMAIN vcek : (vcek[c].good /\ c \in DOMAIN vcek') => vcek'[c].good]_keyVars
  <2> SUFFICES ASSUME VcekNext \/ JwksNext, NEW c \in DOMAIN vcek, vcek[c].good,
                      c \in DOMAIN vcek'
               PROVE  vcek'[c].good
    OBVIOUS
  <2>1. CASE vcek' = vcek
    BY <2>1
  <2>2. ASSUME NEW l \in Lookups, StoreVcek(l) PROVE vcek'[c].good
    <3>1. PICK cert : cert = look[l].cert
      OBVIOUS
    <3>2. PICK map \in Evicted(cert) :
            \/ vcek' = Put(map, cert, [good |-> TRUE, at |-> instant])
            \/ vcek' = WithFailure(map, cert)
      BY <2>2, <3>1 DEF StoreVcek
    <3>3. c # cert => c \in DOMAIN map /\ map[c] = vcek[c]
      BY <3>2 DEF Evicted, Without, Put, WithFailure
    <3>4. c = cert => map = vcek
      BY <3>2 DEF Evicted
    <3>5. CASE vcek' = Put(map, cert, [good |-> TRUE, at |-> instant])
      BY <3>3, <3>5 DEF Put
    <3>6. CASE vcek' = WithFailure(map, cert)
      BY <3>3, <3>4, <3>6 DEF WithFailure, Put
    <3> QED
      BY <3>2, <3>5, <3>6
  <2> QED
    BY <2>1, <2>2 DEF VcekNext, JwksNext, StartVcek, Pass, HitJwks, StartJwks, StoreJwks
<1> QED
  BY <1>1, PTL DEF KeySpec, FoundCertStays

-----------------------------------------------------------------------------
(* Collateral: what a resolve may be handed *)

BundleType == [pck : Resolves \cup {Nothing}, until : Int]

ResolveType ==
    [pc : {"start", "file", "remove", "slot", "enter", "done"} \cup Queueing \cup Holding,
     asked : Nat, attempt : Nat, bundle : BundleType, inode : Resolves,
     result : {"none", "ok", "full", "timeout", "failed", "lost"}]

\* The bundle of a resolve at each step: fetched for its own quote, or shared.
Mine(r, x) == x.bundle.pck \in {Nothing, r}
BundleOK(r, x) ==
    /\ x.result = "ok" => x.pc = "done" /\ x.asked < x.bundle.until /\ Mine(r, x)
    /\ x.pc = "insert" => x.bundle.pck = r /\ x.bundle.until \in Nat
    /\ x.pc \in {"open", "write", "rename", "finish"} => Mine(r, x) /\ x.bundle.until \in Nat

\* An entry of the store is a platform's, without a chain, or of the one quote its key
\* is the hash of.
KeyFits(key, bundle) ==
    IF key \in PlatformKeys THEN bundle.pck = Nothing
    ELSE bundle.pck \in Resolves /\ policy.key[bundle.pck] = key

HeldOK(entries) ==
    /\ entries \in Seq([key : Keys, bundle : BundleType])
    /\ \A i \in 1..Len(entries) : KeyFits(entries[i].key, entries[i].bundle)

DataInv ==
    /\ time \in Nat /\ policy \in Policies
    /\ resolve \in [Resolves -> ResolveType]
    /\ \A r \in Resolves : BundleOK(r, resolve[r])
    /\ HeldOK(held)
    /\ file \in [Keys -> Resolves \cup {Nothing}]
    /\ temp \in [Keys -> Resolves \cup {Nothing}]
    /\ content \in [Resolves -> BundleType]

\* The policies of the assumption, one fact at a time.
LEMMA PolicyFacts ==
    ASSUME DataInv
    PROVE  /\ policy.key \in [Resolves -> Keys] /\ policy.concurrent \in Nat
           /\ \A q, r \in Resolves :
                 policy.key[q] = policy.key[r] /\ policy.key[q] \notin PlatformKeys => q = r
<1>1. policy \in Policies
  BY DEF DataInv
<1>2. policy.key \in [Resolves -> Keys] /\ policy.concurrent \in Nat
  BY <1>1, CollateralAssumption
<1> QED
  BY <1>1, <1>2, CollateralAssumption

\* Storing a fitting bundle leaves fitting entries only.
LEMMA InsertFits ==
    ASSUME HeldOK(held), NEW key \in Keys, NEW bundle \in BundleType, KeyFits(key, bundle)
    PROVE  HeldOK(InsertHeld(key, bundle))
<1> DEFINE E == [key : Keys, bundle : BundleType]
           new == [key |-> key, bundle |-> bundle]
           others == WithoutKey(key)
           all == Append(others, new)
<1>1. held \in Seq(E) /\ \A i \in 1..Len(held) : KeyFits(held[i].key, held[i].bundle)
  BY DEF HeldOK
<1>2. others \in Seq(E) /\ \A j \in 1..Len(others) : KeyFits(others[j].key, others[j].bundle)
  <2> DEFINE mine == {i \in DOMAIN held : held[i].key = key}
  <2>1. CASE mine = {}
    BY <1>1, <2>1 DEF WithoutKey
  <2>2. CASE mine # {}
    <3> DEFINE i == CHOOSE j \in mine : TRUE
    <3>0. i \in mine
      BY <2>2
    <3>1. i \in 1..Len(held) /\ others = RemoveAt(held, i)
      BY <1>1, <2>2, <3>0 DEF WithoutKey
    <3> HIDE DEF i
    <3>2. /\ others \in Seq(E) /\ Len(others) = Len(held) - 1
          /\ \A j \in 1..(Len(held) - 1) :
                others[j] = IF j < i THEN held[j] ELSE held[j + 1]
      BY <1>1, <3>1, RemoveAtElements
    <3>3. Len(held) \in Nat
      BY <1>1, LenProperties
    <3>4. \A j \in 1..(Len(held) - 1) : j \in 1..Len(held) /\ j + 1 \in 1..Len(held)
      BY <3>3
    <3> HIDE DEF others
    <3> QED
      BY <1>1, <3>2, <3>4
  <2> QED
    BY <2>1, <2>2
<1>3. new \in E /\ KeyFits(new.key, new.bundle)
  OBVIOUS
<1> HIDE DEF others, new
<1>4. /\ all \in Seq(E) /\ Len(all) = Len(others) + 1 /\ all # <<>>
      /\ \A j \in 1..Len(others) : all[j] = others[j]
      /\ all[Len(others) + 1] = new
  BY <1>2, <1>3, AppendProperties
<1>5. Len(others) \in Nat
  BY <1>2, LenProperties
<1> HIDE DEF all
<1>6. \A j \in 1..Len(all) : KeyFits(all[j].key, all[j].bundle)
  <2> SUFFICES ASSUME NEW j \in 1..Len(all) PROVE KeyFits(all[j].key, all[j].bundle)
    OBVIOUS
  <2>1. j \in 1..Len(others) \/ j = Len(others) + 1
    BY <1>4, <1>5
  <2> QED
    BY <1>2, <1>3, <1>4, <2>1
<1>7. /\ Tail(all) \in Seq(E) /\ Len(Tail(all)) = Len(all) - 1
      /\ \A j \in 1..Len(Tail(all)) : Tail(all)[j] = all[j + 1]
  BY <1>4, HeadTailProperties
<1>8. \A j \in 1..Len(Tail(all)) : KeyFits(Tail(all)[j].key, Tail(all)[j].bundle)
  <2>1. \A j \in 1..Len(Tail(all)) : j + 1 \in 1..Len(all)
    BY <1>4, <1>5, <1>7
  <2> QED
    BY <1>6, <1>7, <2>1
<1> QED
  <2>1. InsertHeld(key, bundle) = IF Len(all) > StoreSize THEN Tail(all) ELSE all
    BY DEF InsertHeld, all, others, new
  <2> QED
    BY <1>4, <1>6, <1>7, <1>8, <2>1 DEF HeldOK

\* A step that changes one resolve leaves the others in order.
LEMMA OneResolve ==
    ASSUME DataInv, NEW r \in Resolves, NEW y \in ResolveType, BundleOK(r, y),
           resolve' = [resolve EXCEPT ![r] = y]
    PROVE  /\ resolve' \in [Resolves -> ResolveType]
           /\ \A q \in Resolves : BundleOK(q, resolve'[q])
           /\ \A q \in Resolves : resolve'[q] = IF q = r THEN y ELSE resolve[q]
  BY DEF DataInv

\* What a resolve that ends is left with.
LEMMA EndedOK ==
    ASSUME NEW r \in Resolves, NEW asked \in Nat, NEW bundle \in BundleType,
           NEW what \in {"ok", "full", "timeout", "failed", "lost"},
           what = "ok" => asked < bundle.until /\ bundle.pck \in {Nothing, r}
    PROVE  /\ Ended(r, what, asked, bundle) \in ResolveType
           /\ BundleOK(r, Ended(r, what, asked, bundle))
           /\ Ended(r, what, asked, bundle).pc = "done"
  BY DEF Ended, ResolveType, BundleOK, Mine

\* A torn bundle is of the type.
LEMMA TornType == Torn \in BundleType
  BY DEF Torn, Bundle, BundleType

\* A permit that is given back goes to the first waiter, who was waiting.
LEMMA ReleaseData ==
    ASSUME DataInv, NEW r \in Resolves, NEW y \in ResolveType, BundleOK(r, y),
           Release(r, [resolve EXCEPT ![r] = y]),
           waiters # <<>> => Head(waiters) \in Resolves \ {r} /\ resolve[Head(waiters)].pc = "waiting"
    PROVE  /\ resolve' \in [Resolves -> ResolveType]
           /\ \A q \in Resolves : BundleOK(q, resolve'[q])
           /\ resolve'[r] = y
           /\ \A q \in Resolves \ {r} :
                 resolve'[q].pc = IF waiters # <<>> /\ q = Head(waiters) THEN "granted"
                                  ELSE resolve[q].pc
<1> DEFINE answered == [resolve EXCEPT ![r] = y]
<1>1. /\ answered \in [Resolves -> ResolveType]
      /\ \A q \in Resolves : BundleOK(q, answered[q])
      /\ \A q \in Resolves : answered[q] = IF q = r THEN y ELSE resolve[q]
  BY DEF DataInv
<1>2. CASE waiters = <<>>
  <2>1. resolve' = answered
    BY <1>2 DEF Release
  <2> HIDE DEF answered
  <2> QED
    BY <1>1, <1>2, <2>1
<1>3. CASE waiters # <<>>
  <2>1. PICK w \in Resolves : w = Head(waiters) /\ w # r /\ resolve[w].pc = "waiting"
    BY <1>3
  <2>2. resolve' = [answered EXCEPT ![w] = [answered[w] EXCEPT !.pc = "granted"]]
    BY <1>3, <2>1 DEF Release
  <2> HIDE DEF answered
  <2>3. answered[w] = resolve[w] /\ resolve[w] \in ResolveType /\ BundleOK(w, resolve[w])
    BY <1>1, <2>1 DEF DataInv
  <2> DEFINE z == [answered[w] EXCEPT !.pc = "granted"]
  <2>4. /\ z \in ResolveType /\ z.pc = "granted" /\ z.result = resolve[w].result
        /\ z.bundle = resolve[w].bundle /\ z.asked = resolve[w].asked
    BY <2>3 DEF ResolveType, Queueing
  <2> HIDE DEF z
  <2>5. BundleOK(w, z)
    BY <2>1, <2>3, <2>4 DEF BundleOK
  <2>6. resolve' = [answered EXCEPT ![w] = z]
    BY <2>2 DEF z
  <2>7. /\ resolve' \in [Resolves -> ResolveType]
        /\ \A q \in Resolves : resolve'[q] = IF q = w THEN z ELSE answered[q]
    BY <1>1, <2>4, <2>6
  <2> QED
    BY <1>1, <1>3, <2>1, <2>4, <2>5, <2>7
<1> QED
  BY <1>2, <1>3

-----------------------------------------------------------------------------
(* Collateral: places in the queue and permits *)

\* The waiters are the resolves that wait, each once.
WaitersExact ==
    /\ waiters \in Seq(Resolves)
    /\ \A i, j \in 1..Len(waiters) : waiters[i] = waiters[j] => i = j
    /\ \A r \in Resolves : resolve[r].pc = "waiting" <=> \E i \in 1..Len(waiters) : waiters[i] = r

SlotInv ==
    /\ permits \in Nat /\ queued \in Nat
    /\ WaitersExact
    /\ SlotsAccounted

\* The resolves at some step are finitely many, and a step of one adds or removes it.
LEMMA AtStep ==
    ASSUME NEW r \in Resolves, NEW S,
           \A q \in Resolves \ {r} : resolve'[q].pc = resolve[q].pc
    PROVE  /\ Cardinality(At(S)) \in Nat /\ Cardinality(At(S)') \in Nat
           /\ (resolve[r].pc \in S <=> resolve'[r].pc \in S) =>
                 At(S)' = At(S)
           /\ resolve[r].pc \notin S /\ resolve'[r].pc \in S =>
                 Cardinality(At(S)') = Cardinality(At(S)) + 1
           /\ resolve[r].pc \in S /\ resolve'[r].pc \notin S =>
                 Cardinality(At(S)') = Cardinality(At(S)) - 1
<1> DEFINE A == At(S)
           B == At(S)'
<1>1. IsFiniteSet(Resolves) /\ A \subseteq Resolves /\ B \subseteq Resolves
  BY CollateralAssumption DEF At
<1>2. IsFiniteSet(A) /\ IsFiniteSet(B)
  BY <1>1, FS_Subset
<1>3. Cardinality(A) \in Nat /\ Cardinality(B) \in Nat
  BY <1>2, FS_CardinalityType
<1>4. (resolve[r].pc \in S <=> resolve'[r].pc \in S) => B = A
  BY DEF At
<1>5. ASSUME resolve[r].pc \notin S, resolve'[r].pc \in S PROVE Cardinality(B) = Cardinality(A) + 1
  <2>1. B = A \cup {r} /\ r \notin A
    BY <1>5 DEF At
  <2> HIDE DEF A, B
  <2> QED
    BY <1>2, <2>1, FS_AddElement
<1>6. ASSUME resolve[r].pc \in S, resolve'[r].pc \notin S PROVE Cardinality(B) = Cardinality(A) - 1
  <2>1. B = A \ {r} /\ r \in A
    BY <1>6 DEF At
  <2> HIDE DEF A, B
  <2> QED
    BY <1>2, <2>1, FS_RemoveElement
<1> QED
  BY <1>3, <1>4, <1>5, <1>6

\* Fewer steps, fewer resolves.
LEMMA AtSubset ==
    ASSUME NEW S, NEW T, S \subseteq T
    PROVE  Cardinality(At(S)) <= Cardinality(At(T))
<1>1. IsFiniteSet(At(T)) /\ At(S) \subseteq At(T)
  BY CollateralAssumption, FS_Subset DEF At
<1> QED
  BY <1>1, FS_Subset

\* A step outside the queue that neither takes nor gives back a permit.
LEMMA NeutralStep ==
    ASSUME SlotInv, NEW r \in Resolves, UNCHANGED <<slots, policy>>,
           \A q \in Resolves \ {r} : resolve'[q].pc = resolve[q].pc,
           resolve[r].pc \notin Queueing, resolve'[r].pc \notin Queueing,
           resolve[r].pc \in Holding <=> resolve'[r].pc \in Holding
    PROVE  SlotInv'
<1>1. /\ At({"waiting", "granted"})' = At({"waiting", "granted"})
      /\ At(Queueing)' = At(Queueing)
      /\ At(Holding \cup {"granted"})' = At(Holding \cup {"granted"})
  BY AtStep DEF Queueing
<1>2. WaitersExact'
  BY DEF SlotInv, WaitersExact, slots, Queueing
<1> QED
  BY <1>1, <1>2 DEF SlotInv, SlotsAccounted, slots

CollateralInv == DataInv /\ SlotInv

-----------------------------------------------------------------------------
(* Collateral: the steps *)

\* Frame of a step: what it leaves in the store still fits.
LEMMA HeldFrame ==
    ASSUME UNCHANGED policy, NEW entries, HeldOK(entries), held' = entries
    PROVE  HeldOK(held)'
  BY DEF HeldOK, KeyFits

\* Memory: an offline bundle, a stored one, or on to the file.
LEMMA LookInMemoryStep ==
    ASSUME CollateralInv, NEW r \in Resolves, LookInMemory(r) PROVE CollateralInv'
<1>1. /\ DataInv /\ SlotInv /\ resolve[r] \in ResolveType /\ BundleOK(r, resolve[r])
      /\ resolve[r].pc = "start" /\ UNCHANGED <<time, policy, held, slots, disk>>
      /\ time \in Nat
  BY DEF CollateralInv, DataInv, LookInMemory
<1>2. HeldOK(held)'
  BY <1>1, HeldFrame DEF DataInv
<1>3. ASSUME NEW y \in ResolveType, BundleOK(r, y), y.pc \in {"done", "file"},
             resolve' = [resolve EXCEPT ![r] = y]
      PROVE  CollateralInv'
  <2>1. /\ resolve' \in [Resolves -> ResolveType]
        /\ \A q \in Resolves : BundleOK(q, resolve'[q])
        /\ \A q \in Resolves : resolve'[q] = IF q = r THEN y ELSE resolve[q]
    BY <1>1, <1>3, OneResolve
  <2>2. DataInv'
    BY <1>1, <1>2, <2>1 DEF DataInv, disk
  <2>3. SlotInv'
    BY <1>1, <1>3, <2>1, NeutralStep DEF Queueing, Holding
  <2> QED
    BY <2>2, <2>3 DEF CollateralInv
<1>4. ASSUME NEW bundle \in BundleType, time < bundle.until, bundle.pck \in {Nothing, r},
             resolve' = [resolve EXCEPT ![r] = Ended(r, "ok", time, bundle)]
      PROVE  CollateralInv'
  BY <1>1, <1>3, <1>4, EndedOK
<1>5. CASE policy.offline /\ r \in Offline
  <2>1. resolve' = [resolve EXCEPT ![r] = Ended(r, "ok", time, Bundle(r, time + Validity))]
    BY <1>5 DEF LookInMemory
  <2>2. /\ Bundle(r, time + Validity) \in BundleType
        /\ Bundle(r, time + Validity).pck = r
        /\ Bundle(r, time + Validity).until = time + Validity
        /\ time < time + Validity
    BY <1>1, CollateralAssumption DEF Bundle, BundleType
  <2> QED
    BY <1>4, <2>1, <2>2
<1>6. CASE ~(policy.offline /\ r \in Offline)
           /\ \E e \in HeldFor(policy.key[r]) : time < e.bundle.until
  <2>1. PICK e \in HeldFor(policy.key[r]) :
          /\ time < e.bundle.until
          /\ resolve' = [resolve EXCEPT ![r] = Ended(r, "ok", time, e.bundle)]
    BY <1>6 DEF LookInMemory
  <2>2. PICK i \in 1..Len(held) : held[i] = e
    BY <1>1 DEF HeldFor, ToSet, DataInv, HeldOK
  <2>a. e.key = policy.key[r]
    BY DEF HeldFor
  <2>b. HeldOK(held)
    BY <1>1 DEF DataInv
  <2>c. held \in Seq([key : Keys, bundle : BundleType]) /\ KeyFits(held[i].key, held[i].bundle)
    BY <2>b DEF HeldOK
  <2>d. held[i] \in [key : Keys, bundle : BundleType]
    BY <2>2, <2>c, ElementOfSeq
  <2>3. e \in [key : Keys, bundle : BundleType] /\ KeyFits(e.key, e.bundle) /\ e.key = policy.key[r]
    BY <2>2, <2>a, <2>c, <2>d
  <2>4. e.bundle \in BundleType /\ e.bundle.pck \in {Nothing, r}
    BY <1>1, <2>3, PolicyFacts DEF KeyFits
  <2> QED
    BY <1>4, <2>1, <2>4
<1>7. CASE ~(policy.offline /\ r \in Offline)
           /\ ~(\E e \in HeldFor(policy.key[r]) : time < e.bundle.until)
  <2> DEFINE y == [resolve[r] EXCEPT !.pc = "file", !.asked = time]
  <2>1. resolve' = [resolve EXCEPT ![r] = y]
    BY <1>7 DEF LookInMemory
  <2>2. y \in ResolveType /\ y.pc = "file" /\ y.result = resolve[r].result
    BY <1>1 DEF ResolveType
  <2> HIDE DEF y
  <2>3. BundleOK(r, y)
    BY <1>1, <2>2 DEF BundleOK
  <2> QED
    BY <1>3, <2>1, <2>2, <2>3
<1> QED
  BY <1>5, <1>6, <1>7

\* A resolve moves on with its data: no bundle is looked at, none is stored.
LEMMA GotoData ==
    ASSUME DataInv, NEW r \in Resolves, NEW pc \in {"file", "remove", "slot", "enter", "fetch"} \cup Queueing,
           Goto(r, pc), resolve[r].pc # "done"
    PROVE  /\ resolve' \in [Resolves -> ResolveType]
           /\ \A q \in Resolves : BundleOK(q, resolve'[q])
           /\ resolve'[r].pc = pc
           /\ \A q \in Resolves \ {r} : resolve'[q] = resolve[q]
<1> DEFINE y == [resolve[r] EXCEPT !.pc = pc]
<1>1. resolve[r] \in ResolveType /\ BundleOK(r, resolve[r])
  BY DEF DataInv
<1>2. y \in ResolveType /\ y.pc = pc /\ y.result = resolve[r].result
  BY <1>1 DEF ResolveType, Holding
<1>3. resolve' = [resolve EXCEPT ![r] = y]
  BY DEF Goto
<1> HIDE DEF y
<1>4. BundleOK(r, y)
  BY <1>1, <1>2 DEF BundleOK, Queueing
<1> QED
  BY <1>2, <1>3, <1>4, OneResolve

\* The file: none, a usable one that goes into the store too, or one to remove.
LEMMA FileStep ==
    ASSUME CollateralInv, NEW r \in Resolves, ReadFile(r) \/ RemoveFile(r) PROVE CollateralInv'
<1>1. /\ DataInv /\ SlotInv /\ resolve[r] \in ResolveType
      /\ resolve[r].pc \in {"file", "remove"} /\ UNCHANGED <<time, policy, slots, temp, content>>
  BY DEF CollateralInv, DataInv, ReadFile, RemoveFile, disk
<1>2. policy.key[r] \in Keys
  BY <1>1, PolicyFacts
<1>3. file' \in [Keys -> Resolves \cup {Nothing}]
  BY <1>1, <1>2 DEF DataInv, ReadFile, RemoveFile, disk
<1>4. ASSUME NEW pc \in {"slot", "remove"}, Goto(r, pc), UNCHANGED held PROVE CollateralInv'
  <2>1. /\ resolve' \in [Resolves -> ResolveType]
        /\ \A q \in Resolves : BundleOK(q, resolve'[q])
        /\ resolve'[r].pc = pc
        /\ \A q \in Resolves \ {r} : resolve'[q] = resolve[q]
    BY <1>1, <1>4, GotoData
  <2>2. HeldOK(held)'
    BY <1>1, <1>4, HeldFrame DEF DataInv
  <2>3. DataInv'
    BY <1>1, <1>3, <2>1, <2>2 DEF DataInv
  <2>4. SlotInv'
    BY <1>1, <2>1, NeutralStep DEF Queueing, Holding
  <2> QED
    BY <2>3, <2>4 DEF CollateralInv
<1>5. ASSUME NEW bundle \in BundleType, UsableFile(r, bundle), Serve(r, bundle),
             held' = InsertHeld(policy.key[r], bundle)
      PROVE  CollateralInv'
  <2> DEFINE y == Ended(r, "ok", resolve[r].asked, bundle)
  <2>1. /\ resolve[r].asked \in Nat /\ resolve[r].asked < bundle.until
        /\ bundle.pck \in {Nothing, r} /\ KeyFits(policy.key[r], bundle)
    BY <1>1, <1>5 DEF UsableFile, KeyFits, ResolveType
  <2>2. y \in ResolveType /\ BundleOK(r, y) /\ y.pc = "done"
    BY <2>1, EndedOK
  <2>3. resolve' = [resolve EXCEPT ![r] = y]
    BY <1>5 DEF Serve
  <2> HIDE DEF y
  <2>4. /\ resolve' \in [Resolves -> ResolveType]
        /\ \A q \in Resolves : BundleOK(q, resolve'[q])
        /\ \A q \in Resolves : resolve'[q] = IF q = r THEN y ELSE resolve[q]
    BY <1>1, <2>2, <2>3, OneResolve
  <2>5. HeldOK(InsertHeld(policy.key[r], bundle))
    BY <1>1, <1>2, <2>1, InsertFits DEF DataInv
  <2>6. HeldOK(held)'
    BY <1>1, <1>5, <2>5, HeldFrame
  <2>7. DataInv'
    BY <1>1, <1>3, <2>4, <2>6 DEF DataInv
  <2>8. SlotInv'
    BY <1>1, <2>2, <2>4, NeutralStep DEF Queueing, Holding
  <2> QED
    BY <2>7, <2>8 DEF CollateralInv
<1>6. CASE ReadFile(r) /\ file[policy.key[r]] # Nothing
  <2>1. content[file[policy.key[r]]] \in BundleType
    BY <1>1, <1>2, <1>6 DEF DataInv
  <2> QED
    BY <1>4, <1>5, <1>6, <2>1 DEF ReadFile
<1> QED
  BY <1>4, <1>6 DEF ReadFile, RemoveFile

\* Frame of a step that changes resolves only.
LEMMA DataFrame ==
    ASSUME DataInv, UNCHANGED <<time, policy, held, disk>>,
           resolve' \in [Resolves -> ResolveType],
           \A q \in Resolves : BundleOK(q, resolve'[q])
    PROVE  DataInv'
<1>1. HeldOK(held)'
  BY HeldFrame DEF DataInv
<1> QED
  BY <1>1 DEF DataInv, disk

\* The waiters stay the ones that wait when nobody starts or stops to.
LEMMA WaitersFrame ==
    ASSUME WaitersExact, UNCHANGED waiters,
           \A q \in Resolves : resolve'[q].pc = "waiting" <=> resolve[q].pc = "waiting"
    PROVE  WaitersExact'
  BY DEF WaitersExact

\* 1 when a resolve at pc is counted, else 0.
Counted(pc, S) == IF pc \in S THEN 1 ELSE 0
Inside == {"waiting", "granted"}
WithPermit == Holding \cup {"granted"}

LEMMA CountStep ==
    ASSUME NEW r \in Resolves, NEW S,
           \A q \in Resolves \ {r} : resolve'[q].pc = resolve[q].pc
    PROVE  /\ Cardinality(At(S)) \in Nat /\ Cardinality(At(S)') \in Nat
           /\ Cardinality(At(S)') =
                Cardinality(At(S)) + Counted(resolve'[r].pc, S) - Counted(resolve[r].pc, S)
  BY AtStep DEF Counted

\* What the three counts of SlotsAccounted become when one resolve moves.
LEMMA CountsStep ==
    ASSUME SlotInv, NEW r \in Resolves, UNCHANGED policy,
           \A q \in Resolves \ {r} : resolve'[q].pc = resolve[q].pc,
           queued' = queued + Counted(resolve'[r].pc, Queueing) - Counted(resolve[r].pc, Queueing),
           permits' = permits - Counted(resolve'[r].pc, WithPermit) + Counted(resolve[r].pc, WithPermit),
           resolve'[r].pc \in Inside /\ resolve[r].pc \notin Inside => queued < MaxQueued,
           permits' \in Nat, WaitersExact',
           waiters' # <<>> => permits' = 0
    PROVE  SlotInv'
<1> DEFINE cw == Cardinality(At(Inside))
           cq == Cardinality(At(Queueing))
           ch == Cardinality(At(WithPermit))
           dw == Cardinality(At(Inside)')
           dq == Cardinality(At(Queueing)')
           dh == Cardinality(At(WithPermit)')
<1>1. cw \in Nat /\ dw \in Nat /\ dw = cw + Counted(resolve'[r].pc, Inside) - Counted(resolve[r].pc, Inside)
  BY CountStep
<1>2. cq \in Nat /\ dq \in Nat /\ dq = cq + Counted(resolve'[r].pc, Queueing) - Counted(resolve[r].pc, Queueing)
  BY CountStep
<1>3. ch \in Nat /\ dh \in Nat /\ dh = ch + Counted(resolve'[r].pc, WithPermit) - Counted(resolve[r].pc, WithPermit)
  BY CountStep
<1>4. cw <= cq
  BY AtSubset DEF Queueing, Inside
<1>5. /\ cw <= MaxQueued /\ queued = cq /\ permits + ch = policy.concurrent /\ permits \in Nat
      /\ queued \in Nat
  BY DEF SlotInv, SlotsAccounted, Inside, WithPermit
<1>6. MaxQueued \in Nat
  BY CollateralAssumption
<1> HIDE DEF cw, cq, ch, dw, dq, dh
<1>7. dw <= MaxQueued
  BY <1>1, <1>2, <1>4, <1>5, <1>6 DEF Counted
<1>8. queued' = dq /\ queued' \in Nat
  BY <1>2, <1>5
<1>9. permits' + dh = policy.concurrent
  <2>1. Counted(resolve'[r].pc, WithPermit) \in Int /\ Counted(resolve[r].pc, WithPermit) \in Int
    BY DEF Counted
  <2> QED
    BY <1>3, <1>5, <2>1, SMTT(30)
<1> QED
  BY <1>7, <1>8, <1>9 DEF SlotInv, SlotsAccounted, dw, dq, dh, Inside, WithPermit

\* A permit at once, or on to the queue.
LEMMA TryAcquireStep ==
    ASSUME CollateralInv, NEW r \in Resolves, TryAcquire(r) PROVE CollateralInv'
<1>1. /\ DataInv /\ SlotInv /\ WaitersExact /\ permits \in Nat
      /\ resolve[r].pc = "slot" /\ UNCHANGED <<time, policy, held, waiters, queued, disk>>
      /\ waiters # <<>> => permits = 0
  BY DEF CollateralInv, SlotInv, SlotsAccounted, TryAcquire
<1>2. PICK pc \in {"fetch", "enter"} :
        /\ Goto(r, pc)
        /\ pc = "fetch" => permits > 0 /\ permits' = permits - 1
        /\ pc = "enter" => permits' = permits
  BY DEF TryAcquire
<1>3. /\ resolve' \in [Resolves -> ResolveType]
      /\ \A q \in Resolves : BundleOK(q, resolve'[q])
      /\ resolve'[r].pc = pc
      /\ \A q \in Resolves \ {r} : resolve'[q] = resolve[q]
  BY <1>1, <1>2, GotoData
<1>4. DataInv'
  BY <1>1, <1>3, DataFrame
<1>5. WaitersExact'
  BY <1>1, <1>3, WaitersFrame
<1>6. CASE pc = "fetch"
  <2>1. permits' \in Nat /\ permits' = permits - 1 + 0 /\ queued' = queued + 0 - 0
        /\ (waiters' # <<>> => permits' = 0)
    BY <1>1, <1>2, <1>6 DEF SlotInv
  <2>2. SlotInv'
    BY <1>1, <1>3, <1>5, <1>6, <2>1, CountsStep
      DEF Counted, Queueing, Holding, Inside, WithPermit
  <2> QED
    BY <1>4, <2>2 DEF CollateralInv
<1>7. CASE pc = "enter"
  <2>1. permits' \in Nat /\ permits' = permits - 0 + 0 /\ queued' = queued + 0 - 0
        /\ (waiters' # <<>> => permits' = 0)
    BY <1>1, <1>2, <1>7 DEF SlotInv
  <2>2. SlotInv'
    BY <1>1, <1>3, <1>5, <1>7, <2>1, CountsStep
      DEF Counted, Queueing, Holding, Inside, WithPermit
  <2> QED
    BY <1>4, <2>2 DEF CollateralInv
<1> QED
  BY <1>6, <1>7

\* The queue: over the limit, a permit freed in between, or a place.
LEMMA EnterQueueStep ==
    ASSUME CollateralInv, NEW r \in Resolves, EnterQueue(r) PROVE CollateralInv'
<1>1. /\ DataInv /\ SlotInv /\ WaitersExact /\ permits \in Nat /\ queued \in Nat
      /\ resolve[r].pc = "enter" /\ UNCHANGED <<time, policy, held, disk>>
      /\ waiters # <<>> => permits = 0
      /\ queued' = queued + 1
  BY DEF CollateralInv, SlotInv, SlotsAccounted, EnterQueue
<1>2. PICK pc \in Queueing :
        /\ Goto(r, pc)
        /\ pc # "leaving" => ~QueueFull(queued)
        /\ IF pc = "granted" THEN permits > 0 /\ permits' = permits - 1 ELSE permits' = permits
        /\ IF pc = "waiting" THEN permits = 0 /\ waiters' = Append(waiters, r)
           ELSE waiters' = waiters
  BY DEF EnterQueue, Queueing
<1>3. /\ resolve' \in [Resolves -> ResolveType]
      /\ \A q \in Resolves : BundleOK(q, resolve'[q])
      /\ resolve'[r].pc = pc
      /\ \A q \in Resolves \ {r} : resolve'[q] = resolve[q]
  BY <1>1, <1>2, GotoData
<1>4. DataInv'
  BY <1>1, <1>3, DataFrame
<1>5. WaitersExact'
  <2>1. CASE pc # "waiting"
    BY <1>1, <1>2, <1>3, <2>1, WaitersFrame
  <2>2. CASE pc = "waiting"
    <3>1. waiters \in Seq(Resolves) /\ waiters' = Append(waiters, r)
      BY <1>1, <1>2, <2>2 DEF WaitersExact
    <3>2. /\ waiters' \in Seq(Resolves) /\ Len(waiters') = Len(waiters) + 1 /\ Len(waiters) \in Nat
          /\ \A i \in 1..Len(waiters) : waiters'[i] = waiters[i]
          /\ waiters'[Len(waiters) + 1] = r
      BY <3>1, AppendProperties, LenProperties
    <3>3. \A i \in 1..Len(waiters) : waiters[i] # r
      BY <1>1 DEF WaitersExact
    <3>4. \A i \in 1..Len(waiters') : i \in 1..Len(waiters) \/ i = Len(waiters) + 1
      BY <3>2
    <3>5. \A i, j \in 1..Len(waiters') : waiters'[i] = waiters'[j] => i = j
      BY <1>1, <3>2, <3>3, <3>4 DEF WaitersExact
    <3>6. ASSUME NEW q \in Resolves
          PROVE  resolve'[q].pc = "waiting" <=> \E i \in 1..Len(waiters') : waiters'[i] = q
      <4>1. CASE q = r
        <5>1. Len(waiters) + 1 \in 1..Len(waiters')
          BY <3>2
        <5> QED
          BY <1>3, <2>2, <3>2, <4>1, <5>1
      <4>2. CASE q # r
        <5>1. resolve[q].pc = "waiting" <=> \E i \in 1..Len(waiters) : waiters[i] = q
          BY <1>1 DEF WaitersExact
        <5>2. 1..Len(waiters) \subseteq 1..Len(waiters')
          BY <3>2
        <5> QED
          BY <1>3, <3>2, <3>4, <4>2, <5>1, <5>2
      <4> QED
        BY <4>1, <4>2
    <3> QED
      BY <3>2, <3>5, <3>6 DEF WaitersExact
  <2> QED
    BY <2>1, <2>2
<1>6. pc # "leaving" => queued < MaxQueued
  BY <1>1, <1>2, CollateralAssumption DEF QueueFull
<1>7. permits' \in Nat /\ (waiters' # <<>> => permits' = 0)
  BY <1>1, <1>2
<1>8. CASE pc = "granted"
  <2>1. permits' = permits - 1 + 0 /\ queued' = queued + 1 - 0
    BY <1>1, <1>2, <1>8
  <2>2. SlotInv'
    BY <1>1, <1>3, <1>5, <1>6, <1>7, <1>8, <2>1, CountsStep
      DEF Counted, Queueing, Holding, Inside, WithPermit
  <2> QED
    BY <1>4, <2>2 DEF CollateralInv
<1>9. CASE pc \in {"leaving", "waiting"}
  <2>1. permits' = permits - 0 + 0 /\ queued' = queued + 1 - 0
    BY <1>1, <1>2, <1>9
  <2>2. SlotInv'
    BY <1>1, <1>3, <1>5, <1>6, <1>7, <1>9, <2>1, CountsStep
      DEF Counted, Queueing, Holding, Inside, WithPermit
  <2> QED
    BY <1>4, <2>2 DEF CollateralInv
<1> QED
  BY <1>8, <1>9 DEF Queueing

\* A resolve that ends without a bundle.
LEMMA AnswerData ==
    ASSUME DataInv, NEW r \in Resolves, NEW what \in {"full", "timeout", "failed"}, Answer(r, what)
    PROVE  /\ resolve' \in [Resolves -> ResolveType]
           /\ \A q \in Resolves : BundleOK(q, resolve'[q])
           /\ resolve'[r].pc = "done"
           /\ \A q \in Resolves \ {r} : resolve'[q] = resolve[q]
<1> DEFINE y == Ended(r, what, resolve[r].asked, Torn)
<1>1. resolve[r].asked \in Nat
  BY DEF DataInv, ResolveType
<1>2. y \in ResolveType /\ BundleOK(r, y) /\ y.pc = "done"
  BY <1>1, TornType, EndedOK
<1>3. resolve' = [resolve EXCEPT ![r] = y]
  BY DEF Answer, Answered
<1> HIDE DEF y
<1> QED
  BY <1>2, <1>3, OneResolve

\* The queue was full: the place counted on the way in is given back.
LEMMA LeaveFullQueueStep ==
    ASSUME CollateralInv, NEW r \in Resolves, LeaveFullQueue(r) PROVE CollateralInv'
<1>1. /\ DataInv /\ SlotInv /\ WaitersExact /\ permits \in Nat /\ queued \in Nat
      /\ resolve[r].pc = "leaving" /\ UNCHANGED <<time, policy, held, permits, waiters, disk>>
      /\ waiters # <<>> => permits = 0
      /\ queued' = queued - 1 /\ Answer(r, "full")
  BY DEF CollateralInv, SlotInv, SlotsAccounted, LeaveFullQueue, DropGuard
<1>3. /\ resolve' \in [Resolves -> ResolveType]
      /\ \A q \in Resolves : BundleOK(q, resolve'[q])
      /\ resolve'[r].pc = "done"
      /\ \A q \in Resolves \ {r} : resolve'[q] = resolve[q]
  BY <1>1, AnswerData
<1>4. DataInv'
  BY <1>1, <1>3, DataFrame
<1>5. WaitersExact'
  BY <1>1, <1>3, WaitersFrame
<1>6. permits' = permits - 0 + 0 /\ queued' = queued + 0 - 1
  BY <1>1
<1>7. SlotInv'
  BY <1>1, <1>3, <1>5, <1>6, CountsStep DEF Counted, Queueing, Holding, Inside, WithPermit
<1> QED
  BY <1>4, <1>7 DEF CollateralInv

\* A waiter that was granted a permit leaves the queue and fetches.
LEMMA StartFetchStep ==
    ASSUME CollateralInv, NEW r \in Resolves, StartFetch(r) PROVE CollateralInv'
<1>1. /\ DataInv /\ SlotInv /\ WaitersExact /\ permits \in Nat /\ queued \in Nat
      /\ resolve[r].pc = "granted" /\ UNCHANGED <<time, policy, held, permits, waiters, disk>>
      /\ waiters # <<>> => permits = 0
      /\ queued' = queued - 1 /\ Goto(r, "fetch")
  BY DEF CollateralInv, SlotInv, SlotsAccounted, StartFetch, DropGuard
<1>3. /\ resolve' \in [Resolves -> ResolveType]
      /\ \A q \in Resolves : BundleOK(q, resolve'[q])
      /\ resolve'[r].pc = "fetch"
      /\ \A q \in Resolves \ {r} : resolve'[q] = resolve[q]
  BY <1>1, GotoData
<1>4. DataInv'
  BY <1>1, <1>3, DataFrame
<1>5. WaitersExact'
  BY <1>1, <1>3, WaitersFrame
<1>6. permits' = permits - 1 + 1 /\ queued' = queued + 0 - 1
  BY <1>1
<1>7. SlotInv'
  BY <1>1, <1>3, <1>5, <1>6, CountsStep DEF Counted, Queueing, Holding, Inside, WithPermit
<1> QED
  BY <1>4, <1>7 DEF CollateralInv

\* A waiter gives up: it leaves the queue, the others keep their order.
LEMMA TimeOutStep ==
    ASSUME CollateralInv, NEW r \in Resolves, TimeOut(r) PROVE CollateralInv'
<1> DEFINE i == CHOOSE j \in DOMAIN waiters : waiters[j] = r
<1>1. /\ DataInv /\ SlotInv /\ WaitersExact /\ permits \in Nat /\ queued \in Nat
      /\ resolve[r].pc = "waiting" /\ UNCHANGED <<time, policy, held, permits, disk>>
      /\ waiters # <<>> => permits = 0
      /\ queued' = queued - 1 /\ Answer(r, "timeout")
      /\ waiters' = RemoveAt(waiters, i)
  BY DEF CollateralInv, SlotInv, SlotsAccounted, TimeOut, DropGuard
<1>2. waiters \in Seq(Resolves) /\ i \in 1..Len(waiters) /\ waiters[i] = r
  BY <1>1 DEF WaitersExact
<1> HIDE DEF i
<1>3. /\ resolve' \in [Resolves -> ResolveType]
      /\ \A q \in Resolves : BundleOK(q, resolve'[q])
      /\ resolve'[r].pc = "done"
      /\ \A q \in Resolves \ {r} : resolve'[q] = resolve[q]
  BY <1>1, AnswerData
<1>4. DataInv'
  BY <1>1, <1>3, DataFrame
<1>5. /\ waiters' \in Seq(Resolves) /\ Len(waiters') = Len(waiters) - 1
      /\ \A j \in 1..(Len(waiters) - 1) :
            waiters'[j] = IF j < i THEN waiters[j] ELSE waiters[j + 1]
  BY <1>1, <1>2, RemoveAtElements
<1>6. Len(waiters) \in Nat
  BY <1>2, LenProperties
<1>7. \A j \in 1..Len(waiters') :
        \E k \in 1..Len(waiters) : /\ k = IF j < i THEN j ELSE j + 1
                                   /\ waiters'[j] = waiters[k]
  BY <1>5, <1>6
<1>8. \A k \in 1..Len(waiters) : k # i =>
        \E j \in 1..Len(waiters') : waiters'[j] = waiters[k]
  <2> SUFFICES ASSUME NEW k \in 1..Len(waiters), k # i
               PROVE  \E j \in 1..Len(waiters') : waiters'[j] = waiters[k]
    OBVIOUS
  <2>1. CASE k < i
    <3>1. k \in 1..(Len(waiters) - 1)
      BY <1>2, <1>6, <2>1
    <3> QED
      BY <1>5, <2>1, <3>1
  <2>2. CASE i < k
    <3>1. k - 1 \in 1..(Len(waiters) - 1) /\ ~(k - 1 < i) /\ k - 1 + 1 = k
      BY <1>2, <1>6, <2>2
    <3> QED
      BY <1>5, <3>1
  <2> QED
    BY <1>2, <1>6, <2>1, <2>2
<1>9. WaitersExact'
  <2>1. \A k, l \in 1..Len(waiters) : waiters[k] = waiters[l] => k = l
    BY <1>1 DEF WaitersExact
  <2>2. \A j, l \in 1..Len(waiters') : waiters'[j] = waiters'[l] => j = l
    BY <1>2, <1>5, <1>6, <1>7, <2>1
  <2>3. ASSUME NEW q \in Resolves
        PROVE  resolve'[q].pc = "waiting" <=> \E j \in 1..Len(waiters') : waiters'[j] = q
    <3>1. resolve[q].pc = "waiting" <=> \E k \in 1..Len(waiters) : waiters[k] = q
      BY <1>1 DEF WaitersExact
    <3>2. CASE q # r
      BY <1>2, <1>3, <1>7, <1>8, <3>1, <3>2, SMTT(30)
    <3>3. CASE q = r
      <4>1. \A j \in 1..Len(waiters') : waiters'[j] # r
        <5> SUFFICES ASSUME NEW j \in 1..Len(waiters'), waiters'[j] = r PROVE FALSE
          OBVIOUS
        <5>1. PICK k \in 1..Len(waiters) : k = (IF j < i THEN j ELSE j + 1) /\ waiters[k] = r
          BY <1>7
        <5>2. k = i
          BY <1>2, <2>1, <5>1
        <5> QED
          BY <1>2, <1>5, <1>6, <5>1, <5>2
      <4> QED
        BY <1>3, <3>3, <4>1
    <3> QED
      BY <3>2, <3>3
  <2> QED
    BY <1>5, <2>2, <2>3 DEF WaitersExact
<1>10. permits' = permits - 0 + 0 /\ queued' = queued + 0 - 1 /\ (waiters' # <<>> => permits' = 0)
  BY <1>1, <1>2
<1>11. SlotInv'
  BY <1>1, <1>3, <1>9, <1>10, CountsStep DEF Counted, Queueing, Holding, Inside, WithPermit
<1> QED
  BY <1>4, <1>11 DEF CollateralInv

\* Steps of a fetch that hold their permit: the data of the one resolve.
LEMMA HoldingStep ==
    ASSUME CollateralInv, NEW r \in Resolves, resolve[r].pc \in Holding,
           NEW y \in ResolveType, BundleOK(r, y), y.pc \in Holding,
           resolve' = [resolve EXCEPT ![r] = y],
           UNCHANGED <<time, policy, slots>>, HeldOK(held)',
           file' \in [Keys -> Resolves \cup {Nothing}],
           temp' \in [Keys -> Resolves \cup {Nothing}],
           content' \in [Resolves -> BundleType]
    PROVE  CollateralInv'
<1>1. DataInv /\ SlotInv
  BY DEF CollateralInv
<1>2. /\ resolve' \in [Resolves -> ResolveType]
      /\ \A q \in Resolves : BundleOK(q, resolve'[q])
      /\ \A q \in Resolves : resolve'[q] = IF q = r THEN y ELSE resolve[q]
  BY <1>1, OneResolve
<1>3. DataInv'
  BY <1>1, <1>2 DEF DataInv
<1>4. resolve[r].pc \notin Queueing /\ y.pc \notin Queueing
  BY DEF Queueing, Holding
<1>5. SlotInv'
  BY <1>1, <1>2, <1>4, NeutralStep
<1> QED
  BY <1>3, <1>5 DEF CollateralInv

\* The bundle arrives, or another attempt is made.
LEMMA FetchStep ==
    ASSUME CollateralInv, NEW r \in Resolves, Fetch(r) \/ RetryFetch(r) PROVE CollateralInv'
<1>1. /\ DataInv /\ resolve[r] \in ResolveType /\ BundleOK(r, resolve[r]) /\ time \in Nat
      /\ resolve[r].pc = "fetch" /\ UNCHANGED <<time, policy, held, slots, disk>>
  BY DEF CollateralInv, DataInv, Fetch, RetryFetch
<1>2. HeldOK(held)'
  BY <1>1, HeldFrame DEF DataInv
<1>3. ASSUME NEW y \in ResolveType, BundleOK(r, y), y.pc \in Holding,
             resolve' = [resolve EXCEPT ![r] = y]
      PROVE  CollateralInv'
  BY <1>1, <1>2, <1>3, HoldingStep DEF DataInv, disk, Holding
<1>4. CASE Fetch(r)
  <2> DEFINE b == Bundle(r, time + Validity)
             y == [resolve[r] EXCEPT !.pc = "insert", !.attempt = 1, !.bundle = b]
  <2>0. Validity \in Nat
    BY CollateralAssumption
  <2>1. b \in BundleType /\ b.pck = r /\ b.until \in Nat
    BY <1>1, <2>0 DEF Bundle, BundleType
  <2>2. resolve' = [resolve EXCEPT ![r] = y]
    BY <1>4 DEF Fetch
  <2> HIDE DEF b
  <2>3. y \in ResolveType /\ y.pc = "insert" /\ y.bundle = b /\ y.result = resolve[r].result
    BY <1>1, <2>1 DEF ResolveType, Holding
  <2> HIDE DEF y
  <2>4. BundleOK(r, y)
    BY <1>1, <2>1, <2>3 DEF BundleOK
  <2> QED
    BY <1>3, <2>2, <2>3, <2>4 DEF Holding
<1>5. CASE RetryFetch(r)
  <2> DEFINE y == [resolve[r] EXCEPT !.attempt = resolve[r].attempt + 1]
  <2>2. resolve' = [resolve EXCEPT ![r] = y]
    BY <1>5 DEF RetryFetch
  <2>3. y \in ResolveType /\ y.pc = "fetch" /\ y.result = resolve[r].result
    BY <1>1 DEF ResolveType
  <2> HIDE DEF y
  <2>4. BundleOK(r, y)
    BY <1>1, <2>3 DEF BundleOK
  <2> QED
    BY <1>3, <2>2, <2>3, <2>4 DEF Holding
<1> QED
  BY <1>4, <1>5

\* The fetched bundle goes into the store, a platform's without its chain.
LEMMA InsertFetchedStep ==
    ASSUME CollateralInv, NEW r \in Resolves, InsertFetched(r) PROVE CollateralInv'
<1> DEFINE b == StoredForm(policy.key[r], resolve[r].bundle)
           y == [resolve[r] EXCEPT !.pc = "open", !.bundle = b]
<1>1. /\ DataInv /\ resolve[r] \in ResolveType /\ BundleOK(r, resolve[r])
      /\ resolve[r].pc = "insert" /\ UNCHANGED <<time, policy, slots, disk>>
      /\ held' = InsertHeld(policy.key[r], b)
      /\ resolve' = [resolve EXCEPT ![r] = y]
  BY DEF CollateralInv, DataInv, InsertFetched
<1>2. policy.key[r] \in Keys /\ resolve[r].bundle \in BundleType
      /\ resolve[r].bundle.pck = r /\ resolve[r].bundle.until \in Nat
  BY <1>1, PolicyFacts DEF ResolveType, BundleOK
<1>3. /\ b \in BundleType /\ b.pck \in {Nothing, r} /\ b.until \in Nat
      /\ KeyFits(policy.key[r], b)
  BY <1>2 DEF StoredForm, Bundle, BundleType, KeyFits
<1> HIDE DEF b
<1>4. HeldOK(InsertHeld(policy.key[r], b))
  BY <1>1, <1>2, <1>3, InsertFits DEF DataInv
<1>5. HeldOK(held)'
  BY <1>1, <1>4, HeldFrame
<1>6. y \in ResolveType /\ y.pc = "open" /\ y.bundle = b /\ y.result = resolve[r].result
  BY <1>1, <1>3 DEF ResolveType, Holding
<1> HIDE DEF y
<1>7. BundleOK(r, y)
  BY <1>1, <1>3, <1>6 DEF BundleOK, Mine
<1> QED
  BY <1>1, <1>5, <1>6, <1>7, HoldingStep DEF DataInv, disk, Holding

\* The temporary file is opened (maybe another resolve's) and written.
LEMMA TempStep ==
    ASSUME CollateralInv, NEW r \in Resolves, OpenTemp(r) \/ WriteTemp(r) PROVE CollateralInv'
<1>1. /\ DataInv /\ resolve[r] \in ResolveType /\ BundleOK(r, resolve[r])
      /\ resolve[r].pc \in {"open", "write"} /\ UNCHANGED <<time, policy, held, slots, file>>
      /\ resolve[r].bundle \in BundleType /\ resolve[r].inode \in Resolves
  BY DEF CollateralInv, DataInv, OpenTemp, WriteTemp, ResolveType
<1>2. HeldOK(held)'
  BY <1>1, HeldFrame DEF DataInv
<1>3. policy.key[r] \in Keys
  BY <1>1, PolicyFacts
<1>4. ASSUME NEW y \in ResolveType, y.pc \in {"write", "rename"}, y.bundle = resolve[r].bundle,
             y.result = resolve[r].result, resolve' = [resolve EXCEPT ![r] = y],
             temp' \in [Keys -> Resolves \cup {Nothing}], content' \in [Resolves -> BundleType]
      PROVE  CollateralInv'
  <2>1. BundleOK(r, y)
    BY <1>1, <1>4 DEF BundleOK, Mine
  <2> QED
    BY <1>1, <1>2, <1>4, <2>1, HoldingStep DEF DataInv, Holding
<1>5. CASE OpenTemp(r)
  <2> DEFINE inode == IF temp[policy.key[r]] = Nothing THEN r ELSE temp[policy.key[r]]
             y == [resolve[r] EXCEPT !.pc = "write", !.inode = inode]
  <2>1. inode \in Resolves
    BY <1>1, <1>3 DEF DataInv
  <2>2. /\ resolve' = [resolve EXCEPT ![r] = y]
        /\ temp' = [temp EXCEPT ![policy.key[r]] = inode]
        /\ content' = [content EXCEPT ![inode] = Torn]
    BY <1>5 DEF OpenTemp
  <2> HIDE DEF inode
  <2>3. y \in ResolveType /\ y.pc = "write" /\ y.bundle = resolve[r].bundle
        /\ y.result = resolve[r].result
    BY <1>1, <2>1 DEF ResolveType, Holding
  <2> HIDE DEF y
  <2>4. temp' \in [Keys -> Resolves \cup {Nothing}] /\ content' \in [Resolves -> BundleType]
    BY <1>1, <2>1, <2>2, TornType DEF DataInv
  <2> QED
    BY <1>4, <2>2, <2>3, <2>4
<1>6. CASE WriteTemp(r)
  <2> DEFINE y == [resolve[r] EXCEPT !.pc = "rename"]
  <2>1. /\ resolve' = [resolve EXCEPT ![r] = y] /\ temp' = temp
        /\ content' = [content EXCEPT ![resolve[r].inode] = resolve[r].bundle]
    BY <1>6 DEF WriteTemp, Goto
  <2>2. y \in ResolveType /\ y.pc = "rename" /\ y.bundle = resolve[r].bundle
        /\ y.result = resolve[r].result
    BY <1>1 DEF ResolveType, Holding
  <2> HIDE DEF y
  <2>3. temp' \in [Keys -> Resolves \cup {Nothing}] /\ content' \in [Resolves -> BundleType]
    BY <1>1, <2>1 DEF DataInv
  <2> QED
    BY <1>4, <2>1, <2>2, <2>3
<1> QED
  BY <1>5, <1>6

\* A resolve that holds a permit ends: the permit is free again, or the first waiter's.
LEMMA ReleaseStep ==
    ASSUME CollateralInv, NEW r \in Resolves, resolve[r].pc \in Holding,
           NEW y \in ResolveType, BundleOK(r, y), y.pc = "done",
           Release(r, [resolve EXCEPT ![r] = y]),
           UNCHANGED <<time, policy, held, queued, disk>>
    PROVE  CollateralInv'
<1>1. /\ DataInv /\ SlotInv /\ WaitersExact /\ permits \in Nat /\ queued \in Nat
      /\ waiters \in Seq(Resolves)
      /\ waiters # <<>> => permits = 0
  BY DEF CollateralInv, SlotInv, SlotsAccounted, WaitersExact
<1>2. waiters # <<>> => Head(waiters) \in Resolves \ {r} /\ resolve[Head(waiters)].pc = "waiting"
  <2> SUFFICES ASSUME waiters # <<>>
               PROVE  Head(waiters) \in Resolves \ {r} /\ resolve[Head(waiters)].pc = "waiting"
    OBVIOUS
  <2>1. Head(waiters) = waiters[1] /\ 1 \in 1..Len(waiters) /\ Head(waiters) \in Resolves
    BY <1>1, HeadTailProperties, EmptySeq, LenProperties
  <2>2. resolve[Head(waiters)].pc = "waiting"
    BY <1>1, <2>1 DEF WaitersExact
  <2> QED
    BY <2>1, <2>2 DEF Holding
<1>3. /\ resolve' \in [Resolves -> ResolveType]
      /\ \A q \in Resolves : BundleOK(q, resolve'[q])
      /\ resolve'[r] = y
      /\ \A q \in Resolves \ {r} :
            resolve'[q].pc = IF waiters # <<>> /\ q = Head(waiters) THEN "granted"
                             ELSE resolve[q].pc
  BY <1>1, <1>2, ReleaseData
<1>4. DataInv'
  BY <1>1, <1>3, DataFrame
<1>5. CASE waiters = <<>>
  <2>1. /\ permits' = permits + 1 /\ waiters' = waiters
        /\ \A q \in Resolves \ {r} : resolve'[q].pc = resolve[q].pc
    BY <1>3, <1>5 DEF Release
  <2>2. resolve[r].pc \notin Queueing /\ resolve[r].pc \notin Inside /\ resolve[r].pc \in WithPermit
        /\ resolve[r].pc # "waiting"
    BY DEF Queueing, Inside, WithPermit, Holding
  <2>3. WaitersExact'
    BY <1>1, <1>3, <2>1, <2>2, WaitersFrame
  <2>4. y.pc \notin Queueing /\ y.pc \notin Inside /\ y.pc \notin WithPermit
    BY DEF Queueing, Inside, WithPermit, Holding
  <2>5. permits' = permits - 0 + 1 /\ queued' = queued + 0 - 0 /\ permits' \in Nat
    BY <1>1, <2>1
  <2>6. SlotInv'
    BY <1>1, <1>3, <1>5, <2>1, <2>2, <2>3, <2>4, <2>5, CountsStep DEF Counted
  <2> QED
    BY <1>4, <2>6 DEF CollateralInv
<1>6. CASE waiters # <<>>
  <2>1. PICK w \in Resolves : w = Head(waiters) /\ w # r /\ resolve[w].pc = "waiting"
    BY <1>2, <1>6
  <2>2. /\ resolve'[w].pc = "granted" /\ resolve'[r].pc = "done"
        /\ \A q \in Resolves \ {r, w} : resolve'[q].pc = resolve[q].pc
        /\ waiters' = Tail(waiters) /\ permits' = permits
    BY <1>3, <1>6, <2>1 DEF Release
  <2>3. At(Inside)' = At(Inside) /\ At(Queueing)' = At(Queueing)
    BY <2>1, <2>2 DEF At, Inside, Queueing, Holding
  <2>4. At(WithPermit)' = (At(WithPermit) \ {r}) \cup {w} /\ r \in At(WithPermit)
        /\ w \notin At(WithPermit)
    BY <2>1, <2>2 DEF At, WithPermit, Holding
  <2>5. Cardinality(At(WithPermit)') = Cardinality(At(WithPermit))
    <3> DEFINE A == At(WithPermit)
               B == At(WithPermit)'
    <3>1. IsFiniteSet(A)
      BY CollateralAssumption, FS_Subset DEF At
    <3> HIDE DEF A, B
    <3>2. B = (A \ {r}) \cup {w} /\ r \in A /\ w \notin A
      BY <2>4 DEF A, B
    <3>3. IsFiniteSet(A \ {r}) /\ Cardinality(A \ {r}) = Cardinality(A) - 1
      BY <3>1, <3>2, FS_RemoveElement
    <3>4. Cardinality((A \ {r}) \cup {w}) = Cardinality(A \ {r}) + 1
      BY <3>2, <3>3, FS_AddElement
    <3>5. Cardinality(A) \in Nat
      BY <3>1, FS_CardinalityType
    <3> QED
      BY <3>2, <3>3, <3>4, <3>5 DEF A, B
  <2>6. WaitersExact'
    <3>1. /\ waiters' \in Seq(Resolves) /\ Len(waiters') = Len(waiters) - 1 /\ Len(waiters) \in Nat
          /\ \A j \in 1..Len(waiters') : waiters'[j] = waiters[j + 1]
          /\ waiters[1] = w /\ 1 \in 1..Len(waiters)
      BY <1>1, <1>6, <2>1, <2>2, HeadTailProperties, EmptySeq, LenProperties
    <3>2. \A i, j \in 1..Len(waiters) : waiters[i] = waiters[j] => i = j
      BY <1>1 DEF WaitersExact
    <3>3. \A j \in 1..Len(waiters') : j + 1 \in 1..Len(waiters)
      BY <3>1
    <3>4. \A i, j \in 1..Len(waiters') : waiters'[i] = waiters'[j] => i = j
      BY <3>1, <3>2, <3>3
    <3>5. \A j \in 1..Len(waiters') : waiters'[j] # w
      <4> SUFFICES ASSUME NEW j \in 1..Len(waiters'), waiters'[j] = w PROVE FALSE
        OBVIOUS
      <4>1. waiters[j + 1] = waiters[1]
        BY <3>1
      <4>2. j + 1 = 1
        BY <3>1, <3>2, <3>3, <4>1
      <4> QED
        BY <3>1, <4>2
    <3>6. ASSUME NEW q \in Resolves
          PROVE  resolve'[q].pc = "waiting" <=> \E j \in 1..Len(waiters') : waiters'[j] = q
      <4>1. resolve[q].pc = "waiting" <=> \E k \in 1..Len(waiters) : waiters[k] = q
        BY <1>1 DEF WaitersExact
      <4>2. CASE q = w
        BY <2>2, <3>5, <4>2
      <4>3. CASE q = r
        <5>1. resolve[r].pc # "waiting"
          BY DEF Holding
        <5> QED
          BY <2>2, <3>1, <3>3, <4>1, <4>3, <5>1
      <4>4. CASE q \notin {r, w}
        <5>1. \A k \in 1..Len(waiters) : waiters[k] = q =>
                /\ k - 1 \in 1..Len(waiters') /\ waiters'[k - 1] = q
          <6> SUFFICES ASSUME NEW k \in 1..Len(waiters), waiters[k] = q
                       PROVE  k - 1 \in 1..Len(waiters') /\ waiters'[k - 1] = q
            OBVIOUS
          <6>1. k # 1
            BY <3>1, <4>4
          <6>2. k - 1 \in 1..Len(waiters') /\ k - 1 + 1 = k
            BY <3>1, <6>1
          <6> QED
            BY <3>1, <6>2
        <5> QED
          BY <2>2, <3>1, <3>3, <4>1, <4>4, <5>1
      <4> QED
        BY <4>2, <4>3, <4>4
    <3> QED
      BY <3>1, <3>4, <3>6 DEF WaitersExact
  <2>7. SlotInv'
    BY <1>1, <1>6, <2>2, <2>3, <2>5, <2>6 DEF SlotInv, SlotsAccounted, Inside, WithPermit
  <2> QED
    BY <1>4, <2>7 DEF CollateralInv
<1> QED
  BY <1>5, <1>6

\* A fetch that fails, at the network or at the rename, gives its permit back.
LEMMA FailedStep ==
    ASSUME CollateralInv, NEW r \in Resolves, resolve[r].pc \in Holding,
           Release(r, Answered(r, "failed")), UNCHANGED <<time, policy, held, queued, disk>>
    PROVE  CollateralInv'
<1> DEFINE y == Ended(r, "failed", resolve[r].asked, Torn)
<1>1. resolve[r].asked \in Nat
  BY DEF CollateralInv, DataInv, ResolveType
<1>2. y \in ResolveType /\ BundleOK(r, y) /\ y.pc = "done"
  BY <1>1, TornType, EndedOK
<1>3. Answered(r, "failed") = [resolve EXCEPT ![r] = y]
  BY DEF Answered
<1>4. Release(r, [resolve EXCEPT ![r] = y])
  BY <1>3
<1> HIDE DEF y
<1> QED
  BY <1>2, <1>4, ReleaseStep

\* The rename, or its failure when another resolve has renamed the shared file already.
LEMMA RenameTempStep ==
    ASSUME CollateralInv, NEW r \in Resolves, RenameTemp(r) PROVE CollateralInv'
<1>1. /\ DataInv /\ resolve[r] \in ResolveType /\ BundleOK(r, resolve[r])
      /\ resolve[r].pc = "rename" /\ UNCHANGED <<time, policy, held, content>>
  BY DEF CollateralInv, DataInv, RenameTemp
<1>2. CASE temp[policy.key[r]] # Nothing
  <2> DEFINE y == [resolve[r] EXCEPT !.pc = "finish"]
  <2>1. /\ resolve' = [resolve EXCEPT ![r] = y] /\ UNCHANGED slots
        /\ file' = [file EXCEPT ![policy.key[r]] = temp[policy.key[r]]]
        /\ temp' = [temp EXCEPT ![policy.key[r]] = Nothing]
    BY <1>2 DEF RenameTemp, Goto
  <2>2. y \in ResolveType /\ y.pc = "finish" /\ y.bundle = resolve[r].bundle
        /\ y.result = resolve[r].result
    BY <1>1 DEF ResolveType, Holding
  <2> HIDE DEF y
  <2>3. BundleOK(r, y)
    BY <1>1, <2>2 DEF BundleOK, Mine
  <2>4. policy.key[r] \in Keys
    BY <1>1, PolicyFacts
  <2>5. /\ file' \in [Keys -> Resolves \cup {Nothing}] /\ temp' \in [Keys -> Resolves \cup {Nothing}]
        /\ content' \in [Resolves -> BundleType]
    BY <1>1, <2>1, <2>4 DEF DataInv
  <2>6. HeldOK(held)'
    BY <1>1, HeldFrame DEF DataInv
  <2> QED
    BY <1>1, <2>1, <2>2, <2>3, <2>5, <2>6, HoldingStep DEF Holding
<1>3. CASE temp[policy.key[r]] = Nothing
  <2>1. Release(r, Answered(r, "failed")) /\ UNCHANGED <<file, temp, queued>>
    BY <1>3 DEF RenameTemp
  <2> QED
    BY <1>1, <2>1, FailedStep DEF Holding, disk
<1> QED
  BY <1>2, <1>3

\* The verifier is built at the time the resolve was asked.
LEMMA FinishStep ==
    ASSUME CollateralInv, NEW r \in Resolves, Finish(r) PROVE CollateralInv'
<1>1. /\ DataInv /\ resolve[r] \in ResolveType /\ BundleOK(r, resolve[r])
      /\ resolve[r].pc = "finish" /\ UNCHANGED <<time, policy, held, queued, disk>>
      /\ resolve[r].asked \in Nat /\ resolve[r].bundle \in BundleType
  BY DEF CollateralInv, DataInv, Finish, ResolveType
<1>2. CASE resolve[r].asked < resolve[r].bundle.until
  <2> DEFINE y == Ended(r, "ok", resolve[r].asked, resolve[r].bundle)
  <2>1. resolve[r].bundle.pck \in {Nothing, r}
    BY <1>1 DEF BundleOK, Mine
  <2>2. y \in ResolveType /\ BundleOK(r, y) /\ y.pc = "done"
    BY <1>1, <1>2, <2>1, EndedOK
  <2>3. Answered(r, "ok") = [resolve EXCEPT ![r] = y]
    BY DEF Answered
  <2>4. Release(r, Answered(r, "ok"))
    BY <1>2 DEF Finish
  <2>5. Release(r, [resolve EXCEPT ![r] = y])
    BY <2>3, <2>4
  <2> HIDE DEF y
  <2> QED
    BY <1>1, <2>2, <2>5, ReleaseStep DEF Holding
<1>3. CASE ~(resolve[r].asked < resolve[r].bundle.until)
  <2>1. Release(r, Answered(r, "failed"))
    BY <1>3 DEF Finish
  <2> QED
    BY <1>1, <2>1, FailedStep DEF Holding
<1> QED
  BY <1>2, <1>3

\* Nobody is at a step of S: the count is zero.
LEMMA NobodyAt ==
    ASSUME NEW S, \A r \in Resolves : resolve[r].pc \notin S PROVE Cardinality(At(S)) = 0
<1>1. At(S) = {}
  BY DEF At
<1> QED
  BY <1>1, FS_EmptySet

\* Before the first step, and after a crash, nobody queues or holds a permit.
LEMMA NobodyInside ==
    ASSUME DataInv, waiters = <<>>, queued = 0, permits = policy.concurrent,
           \A r \in Resolves : resolve[r].pc \in {"start", "done"}
    PROVE  SlotInv
<1>1. policy.concurrent \in Nat /\ MaxQueued \in Nat
  BY PolicyFacts, CollateralAssumption
<1>2. /\ \A r \in Resolves : resolve[r].pc \notin Inside
      /\ \A r \in Resolves : resolve[r].pc \notin Queueing
      /\ \A r \in Resolves : resolve[r].pc \notin WithPermit
  BY DEF Inside, Queueing, Holding, WithPermit
<1>3. /\ Cardinality(At(Inside)) = 0 /\ Cardinality(At(Queueing)) = 0
      /\ Cardinality(At(WithPermit)) = 0
  BY <1>2, NobodyAt
<1>4. Len(waiters) = 0 /\ waiters \in Seq(Resolves)
  BY EmptySeq
<1>5. WaitersExact
  BY <1>2, <1>4 DEF WaitersExact, Inside
<1>6. SlotsAccounted
  BY <1>1, <1>3 DEF SlotsAccounted, Inside, WithPermit
<1> QED
  BY <1>1, <1>5, <1>6 DEF SlotInv

\* The process dies: memory is gone, the files stay.
LEMMA RestartStep ==
    ASSUME CollateralInv, Restart PROVE CollateralInv'
<1>1. /\ DataInv /\ UNCHANGED <<time, policy, file, content>>
      /\ held' = <<>> /\ permits' = policy.concurrent /\ waiters' = <<>> /\ queued' = 0
      /\ temp' = [k \in Keys |-> Nothing]
      /\ resolve' = [r \in Resolves |->
                      IF resolve[r].pc \in {"start", "done"} THEN resolve[r]
                      ELSE Ended(r, "lost", 0, Torn)]
  BY DEF CollateralInv, Restart
<1>2. \A r \in Resolves : /\ Ended(r, "lost", 0, Torn) \in ResolveType
                          /\ BundleOK(r, Ended(r, "lost", 0, Torn))
                          /\ Ended(r, "lost", 0, Torn).pc = "done"
  BY TornType, EndedOK
<1>3. \A r \in Resolves : /\ resolve'[r] \in ResolveType /\ BundleOK(r, resolve'[r])
                          /\ resolve'[r].pc \in {"start", "done"}
  <2> SUFFICES ASSUME NEW r \in Resolves
               PROVE  /\ resolve'[r] \in ResolveType /\ BundleOK(r, resolve'[r])
                      /\ resolve'[r].pc \in {"start", "done"}
    OBVIOUS
  <2>1. resolve[r] \in ResolveType /\ BundleOK(r, resolve[r])
    BY <1>1 DEF DataInv
  <2>2. resolve'[r] = IF resolve[r].pc \in {"start", "done"} THEN resolve[r]
                      ELSE Ended(r, "lost", 0, Torn)
    BY <1>1
  <2> QED
    BY <1>2, <2>1, <2>2
<1>4. resolve' \in [Resolves -> ResolveType]
  BY <1>1, <1>3
<1>5. HeldOK(<<>>)
  BY DEF HeldOK
<1>6. HeldOK(held)'
  BY <1>1, <1>5, HeldFrame
<1>7. DataInv'
  BY <1>1, <1>3, <1>4, <1>6 DEF DataInv
<1>8. /\ waiters' = <<>> /\ queued' = 0 /\ permits' = policy'.concurrent
      /\ \A r \in Resolves : resolve'[r].pc \in {"start", "done"}
  BY <1>1, <1>3
<1>9. SlotInv'
  <2>1. policy.concurrent \in Nat /\ MaxQueued \in Nat
    BY <1>1, PolicyFacts, CollateralAssumption
  <2>2. At(Inside)' = {} /\ At(Queueing)' = {} /\ At(WithPermit)' = {}
    BY <1>8 DEF At, Inside, Queueing, Holding, WithPermit
  <2>3. /\ Cardinality(At(Inside)') = 0 /\ Cardinality(At(Queueing)') = 0
        /\ Cardinality(At(WithPermit)') = 0
    BY <2>2, FS_EmptySet
  <2>4. WaitersExact'
    BY <1>8 DEF WaitersExact
  <2> QED
    BY <1>8, <2>1, <2>3, <2>4, <1>1 DEF SlotInv, SlotsAccounted, Inside, WithPermit
<1> QED
  BY <1>7, <1>9 DEF CollateralInv

\* A verifier is only built from whole collateral, valid when it was asked for and never
\* with another quote's chain, and no path out of a resolve leaks a place or a permit:
\* for any number of resolves, keys and permits, with crashes.
THEOREM CollateralStaysSound == CollateralSpec => []CollateralSound
<1>1. CollateralInit => CollateralInv
  <2> SUFFICES ASSUME CollateralInit PROVE CollateralInv
    OBVIOUS
  <2>1. \A r \in Resolves : /\ Fresh(r) \in ResolveType /\ BundleOK(r, Fresh(r))
                            /\ Fresh(r).pc = "start"
    BY TornType DEF Fresh, ResolveType, BundleOK, Mine
  <2>2. HeldOK(<<>>)
    BY DEF HeldOK
  <2>3. DataInv
    BY <2>1, <2>2, TornType DEF CollateralInit, DataInv
  <2>4. SlotInv
    BY <2>1, <2>3, NobodyInside DEF CollateralInit
  <2> QED
    BY <2>3, <2>4 DEF CollateralInv
<1>2. CollateralInv /\ [CollateralNext]_collateralVars => CollateralInv'
  <2> SUFFICES ASSUME CollateralInv, [CollateralNext]_collateralVars PROVE CollateralInv'
    OBVIOUS
  <2>1. ASSUME NEW r \in Resolves, ResolveStep(r) PROVE CollateralInv'
    <3>1. ASSUME FetchGivesUp(r) PROVE CollateralInv'
      <4>1. /\ resolve[r].pc \in Holding /\ Release(r, Answered(r, "failed"))
            /\ UNCHANGED <<time, policy, held, queued, disk>>
        BY <3>1 DEF FetchGivesUp, Holding
      <4> QED
        BY <4>1, FailedStep
    <3> QED
      BY <2>1, <3>1, LookInMemoryStep, FileStep, TryAcquireStep, EnterQueueStep,
         LeaveFullQueueStep, TimeOutStep, StartFetchStep, FetchStep, InsertFetchedStep,
         TempStep, RenameTempStep, FinishStep DEF ResolveStep
  <2>2. ASSUME UNCHANGED <<policy, resolve, held, slots, disk>>, time' \in Nat PROVE CollateralInv'
    <3>1. HeldOK(held)'
      BY <2>2, HeldFrame DEF CollateralInv, DataInv
    <3>2. DataInv'
      BY <2>2, <3>1 DEF CollateralInv, DataInv, disk
    <3>3. SlotInv'
      BY <2>2 DEF CollateralInv, SlotInv, SlotsAccounted, WaitersExact, slots, At
    <3> QED
      BY <3>2, <3>3 DEF CollateralInv
  <2>3. CASE TickTime
    BY <2>2, <2>3 DEF TickTime, CollateralInv, DataInv
  <2>4. CASE UNCHANGED collateralVars
    BY <2>2, <2>4 DEF collateralVars, slots, disk, CollateralInv, DataInv
  <2>5. CASE Restart
    BY <2>5, RestartStep
  <2> QED
    BY <2>1, <2>3, <2>4, <2>5 DEF CollateralNext, SomeResolveStep
<1>3. CollateralInv => CollateralSound
  <2> SUFFICES ASSUME CollateralInv, NEW r \in Served
               PROVE  /\ resolve[r].bundle # Torn
                      /\ resolve[r].asked < resolve[r].bundle.until
                      /\ resolve[r].bundle.pck \in {Nothing, r}
    BY DEF CollateralSound, ServedBundleFits, CollateralInv, SlotInv
  <2>1. /\ r \in Resolves /\ resolve[r] \in ResolveType /\ BundleOK(r, resolve[r])
        /\ resolve[r].result = "ok"
    BY DEF Served, CollateralInv, DataInv
  <2>2. /\ resolve[r].asked < resolve[r].bundle.until /\ resolve[r].bundle.pck \in {Nothing, r}
        /\ resolve[r].asked \in Nat
    BY <2>1 DEF BundleOK, Mine, ResolveType
  <2>3. Torn.until = -1
    BY DEF Torn, Bundle
  <2> QED
    BY <2>2, <2>3
<1> QED
  BY <1>1, <1>2, <1>3, PTL DEF CollateralSpec

-----------------------------------------------------------------------------
(* Adapters: the types *)

NonceIds == Requests \X Nat \X Nat
ValueType ==
    [identity : Nat, nonces : Seq(NonceIds), session : Nat, token : Nat, keyUntil : Nat, at : Nat]
DigestType == [nonce : (Requests \X Nat) \cup {<<>>}, identity : Nat, session : Nat]
ReqType ==
    [pc : {"idle", "fetch", "evidence", "sessions", "session", "capture", "verify", "chat",
           "send", "receipt", "done"},
     op : {"chat", "embeddings", "stream"}, digest : DigestType, value : ValueType,
     nonce : NonceIds \cup {<<>>}, refreshes : Nat,
     result : {None, "ok", "NotSent", "KeyRotation", "Http", "HttpStatus", "Adapter"}]
EntryType == [digest : DigestType, value : ValueType]
SessionType == [est : Nat, exp : Nat]
CachedType == [session : Nat, token : Nat, notAfter : Nat]
WorkType == [request : Requests, digest : DigestType, identity : Nat, session : Nat, at : Nat]

AdapterTypes ==
    /\ kind \in Kinds /\ now \in Nat
    /\ remote \in [identity : Nat, keyUntil : Nat]
    /\ sessions \in Seq(SessionType)
    /\ store \in Seq(EntryType)
    /\ cached \in Seq(CachedType)
    /\ verdict \in DigestType
    /\ req \in [Requests -> ReqType]
    /\ sends \in Seq(NonceIds \cup {<<>>})
    /\ work \in Seq(WorkType)

-----------------------------------------------------------------------------
(* Adapters: the peer *)

\* The state an evidence was captured with is what its digest says, and RedPill's names
\* a session the gateway established.
SessionKnown(value) == kind = "redpill" => value.session \in 1..Len(sessions)
Fits(digest, value) ==
    /\ value.identity = digest.identity /\ value.session = digest.session
    /\ SessionKnown(value)

\* A request that is sent carries the state of its own verdict; a capture is the work
\* of the adapter it belongs to, and RedPill's has a token that was alive.
ReqOK(x) ==
    /\ x.result # None => x.pc = "done"
    /\ x.pc \in {"send", "receipt"} => Fits(x.digest, x.value)
    /\ x.pc = "evidence" => kind = "chutes"
    /\ x.pc \in {"sessions", "session", "receipt"} => kind = "redpill"
    /\ x.pc \in {"session", "capture", "verify"} => SessionKnown(x.value)
    /\ kind = "redpill" /\ x.pc = "session" => x.value.at <= now
    /\ kind = "redpill" /\ x.pc \in {"capture", "verify"} => x.value.at < x.value.token

\* Sessions are established one after the other and live equally long.
SessionsInOrder ==
    /\ \A i \in 1..Len(sessions) :
          sessions[i].est <= now /\ sessions[i].exp = sessions[i].est + SessionLife
    /\ \A i, j \in 1..Len(sessions) : i <= j => sessions[i].est <= sessions[j].est

\* What was executed for a request: once, under its verdict, and only for a request
\* that is past its send.
WorkOnce ==
    /\ \A i \in 1..Len(work) :
          /\ work[i].digest.identity = work[i].identity
          /\ req[work[i].request].pc \in {"receipt", "done"}
    /\ \A i, j \in 1..Len(work) : work[i].request = work[j].request => i = j

\* The executed request whose receipt is asked for, and the one that was answered.
ServedBy(i) ==
    /\ work[i].digest.session = work[i].session
    /\ sessions[work[i].session].est <= work[i].at
    /\ work[i].at < sessions[work[i].session].exp
    /\ work[i].session \in 1..Len(sessions)
WorkKnown(r) ==
    /\ req[r].pc = "receipt" =>
          \E i \in 1..Len(work) : work[i].request = r /\ work[i].digest = req[r].digest
    /\ kind = "redpill" /\ req[r].result = "ok" =>
          \E i \in 1..Len(work) : work[i].request = r /\ ServedBy(i)

PeerInv ==
    /\ AdapterTypes
    /\ \A r \in Requests : ReqOK(req[r])
    /\ \A i \in 1..Len(store) : Fits(store[i].digest, store[i].value)
    /\ Len(cached) <= 1 /\ \A c \in 1..Len(cached) : cached[c].notAfter <= cached[c].token
    /\ SessionsInOrder
    /\ WorkOnce
    /\ \A r \in Requests : WorkKnown(r)

-----------------------------------------------------------------------------
(* Adapters: the one-use nonces *)

\* The k-th evidence of a request is captured, or will never be.
Late == {"verify", "chat", "send", "receipt"}
Past(x, k) ==
    \/ x.pc = "done"
    \/ k < x.refreshes
    \/ k = x.refreshes /\ x.pc \in Late

\* Nonce n was handed out with the evidence whose tag is t.
OfTag(n, t) == n \in NonceIds /\ n[1] = t[1] /\ n[2] = t[2]

\* The nonces of a capture under way are its own and new.
NonceOK(r, x) ==
    x.pc \in {"evidence", "capture"} =>
        \A j \in 1..Len(x.value.nonces) : x.value.nonces[j] = <<r, x.refreshes, j>>

EntryNonces(e) ==
    /\ e.digest.nonce \in Requests \X Nat
    /\ \A j \in 1..Len(e.value.nonces) : OfTag(e.value.nonces[j], e.digest.nonce)
    /\ \A j, k \in 1..Len(e.value.nonces) : e.value.nonces[j] = e.value.nonces[k] => j = k

InStore(n) == \E i \in 1..Len(store) : \E j \in 1..Len(store[i].value.nonces) :
                  store[i].value.nonces[j] = n
Sent(n) == \E i \in 1..Len(sends) : sends[i] = n
Known(t) == Past(req[t[1]], t[2])

NonceInv ==
    /\ \A i \in 1..Len(store) : EntryNonces(store[i]) /\ Known(store[i].digest.nonce)
    /\ \A i, j \in 1..Len(store) : store[i].digest.nonce = store[j].digest.nonce => i = j
    /\ \A i \in 1..Len(sends) : sends[i] \in NonceIds /\ Known(sends[i]) /\ ~InStore(sends[i])
    /\ \A i, j \in 1..Len(sends) : sends[i] = sends[j] => i = j
    /\ \A r \in Requests : req[r].pc = "send" =>
          /\ req[r].nonce \in NonceIds /\ Known(req[r].nonce)
          /\ ~InStore(req[r].nonce) /\ ~Sent(req[r].nonce)
    /\ \A q, r \in Requests :
          req[q].pc = "send" /\ req[r].pc = "send" /\ req[q].nonce = req[r].nonce => q = r
    /\ \A r \in Requests : NonceOK(r, req[r])

NoncesKept == IF kind = "chutes" THEN NonceInv ELSE sends = <<>>

-----------------------------------------------------------------------------
(* Adapters: records *)

\* The bounds of the assumption as numbers.
LEMMA AdapterBounds ==
    /\ MaxEntries \in Nat \ {0} /\ NoncesEach \in Nat \ {0} /\ SessionLife \in Nat \ {0}
    /\ TokenLife \in Nat \ {0} /\ MaxNow \in Nat /\ Never \in Nat
<1>1. /\ MaxEntries \in Nat \ {0} /\ NoncesEach \in Nat \ {0} /\ SessionLife \in Nat \ {0}
      /\ TokenLife \in Nat \ {0} /\ MaxNow \in Nat
  BY AdaptersAssumption
<1> QED
  BY <1>1 DEF Never

LEMMA ValueFields ==
    ASSUME NEW identity \in Nat, NEW nonces \in Seq(NonceIds), NEW token \in Nat,
           NEW keyUntil \in Nat
    PROVE  /\ Value(identity, nonces, 0, token, keyUntil) \in ValueType
           /\ Value(identity, nonces, 0, token, keyUntil).identity = identity
           /\ Value(identity, nonces, 0, token, keyUntil).nonces = nonces
           /\ Value(identity, nonces, 0, token, keyUntil).at = 0
           /\ Value(identity, nonces, 0, token, keyUntil).session = 0
  BY DEF Value, ValueType

LEMMA DigestFields ==
    ASSUME NEW nonce \in (Requests \X Nat) \cup {<<>>}, NEW value \in ValueType
    PROVE  /\ Digest(nonce, value) \in DigestType
           /\ Digest(nonce, value).nonce = nonce
           /\ SessionKnown(value) => Fits(Digest(nonce, value), value)
  BY DEF Digest, DigestType, ValueType, Fits

\* A request before its first step.
LEMMA IdleFields ==
    /\ Idle \in ReqType /\ NoValue \in ValueType /\ NoDigest \in DigestType
    /\ Idle.pc = "idle" /\ Idle.result = None /\ Idle.refreshes = 0
<1>1. <<>> \in Seq(NonceIds)
  BY EmptySeq
<1>2. NoValue \in ValueType
  BY <1>1, ValueFields DEF NoValue
<1>3. NoDigest \in DigestType
  BY <1>2, DigestFields DEF NoDigest
<1> HIDE DEF NoValue, NoDigest
<1> QED
  BY <1>2, <1>3 DEF Idle, ReqType, None

\* A request that has ended.
LEMMA DoneFields ==
    ASSUME NEW r \in Requests, AdapterTypes,
           NEW what \in {"ok", "NotSent", "KeyRotation", "Http", "HttpStatus", "Adapter"}, Done(r, what)
    PROVE  \E y \in ReqType : /\ req' = [req EXCEPT ![r] = y]
                              /\ y.pc = "done" /\ y.result = what /\ ReqOK(y)
<1> DEFINE y == [Idle EXCEPT !.pc = "done", !.result = what]
<1>1. req' = [req EXCEPT ![r] = y]
  BY DEF Done
<1>2. y \in ReqType /\ y.pc = "done" /\ y.result = what
  BY IdleFields DEF ReqType
<1> HIDE DEF y
<1>3. ReqOK(y)
  BY <1>2 DEF ReqOK
<1> QED
  BY <1>1, <1>2, <1>3

\* A failed dispatch: the error, or another evidence after a rotation.
LEMMA ChatFailsFields ==
    ASSUME NEW r \in Requests, AdapterTypes, NEW error \in {"KeyRotation", "Http", "Adapter"},
           ChatFails(r, error)
    PROVE  \E y \in ReqType : /\ req' = [req EXCEPT ![r] = y] /\ ReqOK(y) /\ y.result # "ok"
                              /\ \/ y.pc = "done"
                                 \/ /\ y.pc = "fetch" /\ y.refreshes = req[r].refreshes + 1
                                    /\ error = "KeyRotation"
<1>1. CASE Refresh(r) /\ error = "KeyRotation"
  <2> DEFINE y == [Idle EXCEPT !.pc = "fetch", !.op = req[r].op,
                               !.refreshes = req[r].refreshes + 1]
  <2>1. req' = [req EXCEPT ![r] = y]
    BY <1>1 DEF Refresh
  <2>2. req[r] \in ReqType
    BY DEF AdapterTypes
  <2>a. req[r].refreshes + 1 \in Nat /\ req[r].op \in {"chat", "embeddings", "stream"}
    BY <2>2 DEF ReqType
  <2>3. y \in ReqType /\ y.pc = "fetch" /\ y.result = None /\ y.refreshes = req[r].refreshes + 1
    BY <2>a, IdleFields DEF ReqType
  <2> HIDE DEF y
  <2>4. ReqOK(y) /\ y.result # "ok"
    BY <2>3 DEF ReqOK, None
  <2> QED
    BY <1>1, <2>1, <2>3, <2>4
<1>2. CASE Done(r, error)
  BY <1>2, DoneFields
<1> QED
  BY <1>1, <1>2 DEF ChatFails

\* A step of one request leaves the others where they are.
LEMMA OneReq ==
    ASSUME AdapterTypes, NEW r \in Requests, NEW y \in ReqType, req' = [req EXCEPT ![r] = y]
    PROVE  /\ req' \in [Requests -> ReqType]
           /\ \A q \in Requests : req'[q] = IF q = r THEN y ELSE req[q]
  BY DEF AdapterTypes

\* A step of one request that executes nothing.
LEMMA PeerFrame ==
    ASSUME PeerInv, NEW r \in Requests, NEW y \in ReqType, ReqOK(y),
           req' = [req EXCEPT ![r] = y],
           UNCHANGED <<kind, now, remote, sessions, work>>,
           verdict' \in DigestType, sends' \in Seq(NonceIds \cup {<<>>}),
           store' \in Seq(EntryType),
           \A i \in 1..Len(store') : Fits(store'[i].digest, store'[i].value),
           cached' \in Seq(CachedType), Len(cached') <= 1,
           \A c \in 1..Len(cached') : cached'[c].notAfter <= cached'[c].token,
           req[r].pc \in {"receipt", "done"} => y.pc = "done",
           y.pc # "receipt",
           kind = "redpill" /\ y.result = "ok" =>
               \E i \in 1..Len(work) : work[i].request = r /\ ServedBy(i)
    PROVE  PeerInv'
<1>1. /\ req' \in [Requests -> ReqType]
      /\ \A q \in Requests : req'[q] = IF q = r THEN y ELSE req[q]
  BY OneReq DEF PeerInv
<1>2. AdapterTypes'
  BY <1>1 DEF PeerInv, AdapterTypes
<1>3. \A q \in Requests : ReqOK(req[q])'
  BY <1>1 DEF PeerInv, ReqOK, Fits, SessionKnown
<1>4. \A i \in 1..Len(store') : Fits(store[i].digest, store[i].value)'
  BY DEF Fits, SessionKnown
<1>5. SessionsInOrder'
  BY DEF PeerInv, SessionsInOrder
<1>6. WorkOnce'
  <2>a. work \in Seq(WorkType)
    BY DEF PeerInv, AdapterTypes
  <2>b. \A i \in 1..Len(work) : work[i] \in WorkType
    BY <2>a, ElementOfSeq
  <2>1. \A i \in 1..Len(work) : work[i].request \in Requests
    BY <2>b DEF WorkType
  <2> QED
    BY <1>1, <2>1 DEF PeerInv, WorkOnce
<1>7. \A i \in 1..Len(work) : ServedBy(i)' <=> ServedBy(i)
  BY DEF ServedBy
<1>8. \A q \in Requests : WorkKnown(q)'
  <2> SUFFICES ASSUME NEW q \in Requests PROVE WorkKnown(q)'
    OBVIOUS
  <2>1. WorkKnown(q)
    BY DEF PeerInv
  <2>2. CASE q = r
    BY <1>1, <1>7, <2>2 DEF WorkKnown
  <2>3. CASE q # r
    BY <1>1, <1>7, <2>1, <2>3 DEF WorkKnown
  <2> QED
    BY <2>2, <2>3
<1> QED
  BY <1>2, <1>3, <1>4, <1>5, <1>6, <1>8 DEF PeerInv

-----------------------------------------------------------------------------
(* Adapters: the steps that neither send nor store *)

\* The k-th evidence of a request never becomes a later one.
Moves(x, y) ==
    \/ y.pc = "done"
    \/ y.refreshes = x.refreshes + 1
    \/ y.refreshes = x.refreshes /\ (x.pc \in Late => y.pc \in Late)

Quiet(r, y) ==
    /\ req' = [req EXCEPT ![r] = y]
    /\ ReqOK(y) /\ y.result # "ok"
    /\ kind = "chutes" => NonceOK(r, y)
    /\ Moves(req[r], y)
    /\ req[r].pc \notin {"send", "receipt", "done"} /\ y.pc \notin {"send", "receipt"}
    /\ verdict' \in DigestType
    /\ UNCHANGED <<kind, now, remote, sessions, store, cached, sends, work>>

AdapterInv == PeerInv /\ NoncesKept

LEMMA ReqFacts ==
    ASSUME PeerInv, NEW r \in Requests
    PROVE  /\ AdapterTypes /\ req[r] \in ReqType /\ ReqOK(req[r])
           /\ req[r].value \in ValueType /\ req[r].digest \in DigestType
           /\ req[r].refreshes \in Nat /\ verdict \in DigestType /\ now \in Nat
           /\ remote.identity \in Nat /\ remote.keyUntil \in Nat
  BY DEF PeerInv, AdapterTypes, ReqType

\* A request that ends without an answer.
LEMMA QuietDone ==
    ASSUME PeerInv, NEW r \in Requests, Done(r, "NotSent"),
           req[r].pc \notin {"send", "receipt", "done"},
           UNCHANGED <<world, now, store, cached, sends, work>>, verdict' \in DigestType
    PROVE  \E y \in ReqType : Quiet(r, y)
<1>1. PICK y \in ReqType : /\ req' = [req EXCEPT ![r] = y]
                           /\ y.pc = "done" /\ y.result = "NotSent" /\ ReqOK(y)
  BY ReqFacts, DoneFields
<1>2. Quiet(r, y)
  BY <1>1 DEF Quiet, Moves, NonceOK, world
<1> QED
  BY <1>2

\* A failed dispatch before anything was sent.
LEMMA QuietFails ==
    ASSUME PeerInv, NEW r \in Requests, ChatFails(r, "KeyRotation"),
           req[r].pc \notin {"send", "receipt", "done"},
           UNCHANGED <<world, now, store, cached, verdict, sends, work>>
    PROVE  \E y \in ReqType : Quiet(r, y)
<1>0. AdapterTypes /\ verdict \in DigestType
  BY ReqFacts
<1>1. PICK y \in ReqType : /\ req' = [req EXCEPT ![r] = y] /\ ReqOK(y) /\ y.result # "ok"
                           /\ \/ y.pc = "done"
                              \/ y.pc = "fetch" /\ y.refreshes = req[r].refreshes + 1
  BY <1>0, ChatFailsFields
<1>2. Quiet(r, y)
  BY <1>0, <1>1 DEF Quiet, Moves, NonceOK, world
<1> QED
  BY <1>2

LEMMA BeginQuiet ==
    ASSUME PeerInv, NEW r \in Requests, Begin(r) PROVE \E y \in ReqType : Quiet(r, y)
<1>1. /\ AdapterTypes /\ req[r] \in ReqType /\ ReqOK(req[r]) /\ verdict \in DigestType
      /\ req[r].pc = "idle" /\ UNCHANGED <<world, now, store, cached, verdict, sends, work>>
  BY ReqFacts DEF Begin
<1>2. PICK op \in {"chat", "embeddings", "stream"} :
          \/ req' = [req EXCEPT ![r] = [req[r] EXCEPT !.pc = "chat", !.op = op, !.digest = verdict]]
          \/ req' = [req EXCEPT ![r] = [req[r] EXCEPT !.pc = "fetch", !.op = op]]
  BY DEF Begin
<1>3. ASSUME NEW y \in ReqType, req' = [req EXCEPT ![r] = y], y.pc \in {"chat", "fetch"},
             y.result = req[r].result, y.refreshes = req[r].refreshes
      PROVE  Quiet(r, y)
  <2>1. ReqOK(y) /\ y.result # "ok"
    BY <1>1, <1>3 DEF ReqOK, None
  <2>2. Moves(req[r], y)
    BY <1>1, <1>3 DEF Moves, Late
  <2> QED
    BY <1>1, <1>3, <2>1, <2>2 DEF Quiet, NonceOK, world
<1>4. CASE req' = [req EXCEPT ![r] = [req[r] EXCEPT !.pc = "chat", !.op = op, !.digest = verdict]]
  <2> DEFINE y == [req[r] EXCEPT !.pc = "chat", !.op = op, !.digest = verdict]
  <2>1. /\ y \in ReqType /\ y.pc = "chat" /\ y.result = req[r].result
        /\ y.refreshes = req[r].refreshes
    BY <1>1 DEF ReqType
  <2> QED
    BY <1>3, <1>4, <2>1
<1>5. CASE req' = [req EXCEPT ![r] = [req[r] EXCEPT !.pc = "fetch", !.op = op]]
  <2> DEFINE y == [req[r] EXCEPT !.pc = "fetch", !.op = op]
  <2>1. /\ y \in ReqType /\ y.pc = "fetch" /\ y.result = req[r].result
        /\ y.refreshes = req[r].refreshes
    BY <1>1 DEF ReqType
  <2> QED
    BY <1>3, <1>5, <2>1
<1> QED
  BY <1>2, <1>4, <1>5

\* The first answer of a fetch.
LEMMA ReportQuiet ==
    ASSUME PeerInv, NEW r \in Requests,
           NEW next \in {"capture", "evidence", "sessions"}, NEW nonces \in Seq(NonceIds),
           Report(r, next, nonces),
           next = "capture" => kind \notin {"chutes", "redpill"},
           next = "sessions" => kind = "redpill",
           next = "evidence" => /\ kind = "chutes"
                                /\ \A n \in 1..Len(nonces) : nonces[n] = <<r, req[r].refreshes, n>>
    PROVE  \E y \in ReqType : Quiet(r, y)
<1> DEFINE value == Value(remote.identity, nonces, 0, Never, remote.keyUntil)
           y == [req[r] EXCEPT !.pc = next, !.value = value]
<1>1. /\ AdapterTypes /\ req[r] \in ReqType /\ ReqOK(req[r]) /\ verdict \in DigestType
      /\ req[r].pc = "fetch" /\ UNCHANGED <<world, now, store, cached, verdict, sends, work>>
      /\ remote.identity \in Nat /\ remote.keyUntil \in Nat
      /\ req' = [req EXCEPT ![r] = y]
  BY ReqFacts DEF Report
<1>a. remote.identity \in Nat /\ remote.keyUntil \in Nat /\ Never \in Nat
  BY <1>1, AdapterBounds
<1>2. value \in ValueType /\ value.nonces = nonces
  <2>1. PICK i \in Nat, u \in Nat, t \in Nat : i = remote.identity /\ u = remote.keyUntil /\ t = Never
    BY <1>a
  <2>2. Value(i, nonces, 0, t, u) \in ValueType /\ Value(i, nonces, 0, t, u).nonces = nonces
    BY ValueFields
  <2> QED
    BY <2>1, <2>2
<1> HIDE DEF value
<1>3. /\ y \in ReqType /\ y.pc = next /\ y.result = req[r].result
      /\ y.refreshes = req[r].refreshes /\ y.value = value
  BY <1>1, <1>2 DEF ReqType
<1> HIDE DEF y
<1>4. ReqOK(y) /\ y.result # "ok"
  BY <1>1, <1>3 DEF ReqOK, None, SessionKnown
<1>5. Moves(req[r], y)
  BY <1>1, <1>3 DEF Moves, Late
<1>6. kind = "chutes" => NonceOK(r, y)
  BY <1>2, <1>3 DEF NonceOK
<1>7. Quiet(r, y)
  BY <1>1, <1>3, <1>4, <1>5, <1>6 DEF Quiet, world
<1> QED
  BY <1>3, <1>7

LEMMA ReportsQuiet ==
    ASSUME PeerInv, NEW r \in Requests,
           \/ TinfoilReport(r) \/ NearReport(r) \/ PpqBundle(r) \/ DiscoverInstance(r)
           \/ RedpillReport(r)
    PROVE  \E y \in ReqType : Quiet(r, y)
<1>1. <<>> \in Seq(NonceIds)
  BY EmptySeq
<1>2. CASE Report(r, "capture", <<>>) /\ kind \in {"tinfoil", "near", "ppq"}
  BY <1>1, <1>2, ReportQuiet
<1>3. CASE Report(r, "sessions", <<>>) /\ kind = "redpill"
  BY <1>1, <1>3, ReportQuiet
<1>4. CASE DiscoverInstance(r)
  <2> DEFINE nonces == [n \in 1..NoncesEach |-> <<r, req[r].refreshes, n>>]
  <2>1. req[r].refreshes \in Nat /\ NoncesEach \in Nat
    BY ReqFacts, AdapterBounds
  <2>2. nonces \in Seq(NonceIds) /\ \A n \in 1..Len(nonces) : nonces[n] = <<r, req[r].refreshes, n>>
    BY <2>1 DEF NonceIds
  <2>3. Report(r, "evidence", nonces) /\ kind = "chutes"
    BY <1>4 DEF DiscoverInstance
  <2> HIDE DEF nonces
  <2> QED
    BY <2>2, <2>3, ReportQuiet
<1> QED
  BY <1>2, <1>3, <1>4 DEF TinfoilReport, NearReport, PpqBundle, RedpillReport

\* The gateway's newest session is one it has: the last one lives longest.
LEMMA NewestListed ==
    ASSUME PeerInv, Listed # {}
    PROVE  Newest \in Listed /\ Newest \in Nat /\ Newest \in 1..Len(sessions)
<1>1. sessions \in Seq(SessionType) /\ SessionsInOrder /\ now \in Nat /\ SessionLife \in Nat
  BY AdapterBounds DEF PeerInv, AdapterTypes
<1>2. PICK s \in DOMAIN sessions : now < sessions[s].exp
  BY DEF Listed
<1>3. s \in 1..Len(sessions) /\ Len(sessions) \in 1..Len(sessions) /\ s <= Len(sessions)
  BY <1>1, <1>2, LenProperties
<1>4. /\ sessions[s] \in SessionType /\ sessions[Len(sessions)] \in SessionType
  BY <1>1, <1>3, ElementOfSeq
<1>5. now < sessions[Len(sessions)].exp
  BY <1>1, <1>2, <1>3, <1>4, SMTT(30) DEF SessionsInOrder, SessionType
<1>6. Len(sessions) \in Listed
  BY <1>1, <1>3, <1>5 DEF Listed
<1>7. \A other \in Listed : sessions[other].est <= sessions[Len(sessions)].est
  BY <1>1, <1>3 DEF Listed, SessionsInOrder
<1>8. Newest \in Listed
  BY <1>6, <1>7 DEF Newest
<1> QED
  BY <1>1, <1>8 DEF Listed

LEMMA ListSessionsQuiet ==
    ASSUME PeerInv, NEW r \in Requests, ListSessions(r) PROVE \E y \in ReqType : Quiet(r, y)
<1>1. /\ AdapterTypes /\ req[r] \in ReqType /\ ReqOK(req[r]) /\ verdict \in DigestType
      /\ req[r].pc = "sessions" /\ UNCHANGED <<world, now, store, cached, verdict, sends, work>>
      /\ req[r].value \in ValueType /\ now \in Nat
      /\ kind = "redpill"
  BY ReqFacts DEF ListSessions, ReqOK
<1>2. CASE Done(r, "NotSent")
  BY <1>1, <1>2, QuietDone
<1>3. CASE ~Done(r, "NotSent")
  <2> DEFINE value == [req[r].value EXCEPT !.session = Newest, !.at = now]
  <2>1. /\ Listed # {}
        /\ \/ /\ MatchesListed(Newest)
              /\ req' = [req EXCEPT ![r] = [req[r] EXCEPT
                           !.pc = "capture", !.value = [value EXCEPT !.token = cached[1].token]]]
           \/ req' = [req EXCEPT ![r] = [req[r] EXCEPT !.pc = "session", !.value = value]]
    BY <1>3 DEF ListSessions
  <2>2. Newest \in Nat /\ Newest \in 1..Len(sessions)
    BY <2>1, NewestListed
  <2>3. value \in ValueType /\ value.at = now /\ value.session = Newest
    BY <1>1, <2>2 DEF ValueType
  <2> HIDE DEF value
  <2>4. ASSUME NEW v \in ValueType, NEW pc \in {"capture", "session"},
               req' = [req EXCEPT ![r] = [req[r] EXCEPT !.pc = pc, !.value = v]],
               v.at = now, pc = "capture" => v.at < v.token, SessionKnown(v)
        PROVE  \E y \in ReqType : Quiet(r, y)
    <3> DEFINE y == [req[r] EXCEPT !.pc = pc, !.value = v]
    <3>1. /\ y \in ReqType /\ y.pc = pc /\ y.result = req[r].result
          /\ y.refreshes = req[r].refreshes /\ y.value = v
      BY <1>1 DEF ReqType
    <3>2. req' = [req EXCEPT ![r] = y]
      BY <2>4
    <3> HIDE DEF y
    <3>3. ReqOK(y) /\ y.result # "ok"
      BY <1>1, <2>4, <3>1 DEF ReqOK, None
    <3>4. Moves(req[r], y)
      BY <1>1, <3>1 DEF Moves, Late
    <3>5. Quiet(r, y)
      BY <1>1, <2>4, <3>1, <3>2, <3>3, <3>4 DEF Quiet, world
    <3> QED
      BY <3>1, <3>5
  <2>5. CASE req' = [req EXCEPT ![r] = [req[r] EXCEPT !.pc = "session", !.value = value]]
    BY <2>2, <2>3, <2>4, <2>5 DEF SessionKnown
  <2>6. CASE /\ MatchesListed(Newest)
             /\ req' = [req EXCEPT ![r] = [req[r] EXCEPT
                          !.pc = "capture", !.value = [value EXCEPT !.token = cached[1].token]]]
    <3>1. PICK c \in DOMAIN cached : cached[c].notAfter > now
      BY <2>6 DEF MatchesListed
    <3>2. /\ cached \in Seq(CachedType) /\ Len(cached) <= 1 /\ Len(cached) \in Nat
          /\ \A k \in 1..Len(cached) : cached[k].notAfter <= cached[k].token
      BY LenProperties DEF PeerInv, AdapterTypes
    <3>3. c = 1 /\ 1 \in 1..Len(cached)
      BY <3>1, <3>2
    <3>4. cached[1] \in CachedType
      BY <3>2, <3>3, ElementOfSeq
    <3>5. cached[1].token \in Nat /\ now < cached[1].token
      BY <1>1, <3>1, <3>2, <3>3, <3>4 DEF CachedType
    <3> DEFINE v == [value EXCEPT !.token = cached[1].token]
    <3>6. v \in ValueType /\ v.at = now /\ v.token = cached[1].token /\ v.session = Newest
      BY <2>3, <3>5 DEF ValueType
    <3>7. req' = [req EXCEPT ![r] = [req[r] EXCEPT !.pc = "capture", !.value = v]]
      BY <2>6
    <3> HIDE DEF v
    <3> QED
      BY <2>2, <2>4, <3>5, <3>6, <3>7 DEF SessionKnown
  <2> QED
    BY <2>1, <2>5, <2>6
<1> QED
  BY <1>2, <1>3

LEMMA FetchSessionQuiet ==
    ASSUME PeerInv, NEW r \in Requests, FetchSession(r) PROVE \E y \in ReqType : Quiet(r, y)
<1>1. /\ AdapterTypes /\ req[r] \in ReqType /\ ReqOK(req[r]) /\ verdict \in DigestType
      /\ req[r].pc = "session" /\ UNCHANGED <<world, now, store, cached, verdict, sends, work>>
      /\ req[r].value \in ValueType /\ now \in Nat /\ TokenLife \in Nat \ {0}
      /\ kind = "redpill" /\ req[r].value.at <= now
  BY ReqFacts, AdapterBounds DEF FetchSession, ReqOK
<1>2. CASE Done(r, "NotSent")
  BY <1>1, <1>2, QuietDone
<1>3. CASE ~Done(r, "NotSent")
  <2> DEFINE v == [req[r].value EXCEPT !.token = now + TokenLife]
             y == [req[r] EXCEPT !.pc = "capture", !.value = v]
  <2>1. req' = [req EXCEPT ![r] = y]
    BY <1>3 DEF FetchSession
  <2>2. /\ v \in ValueType /\ v.at = req[r].value.at /\ v.token = now + TokenLife
        /\ v.session = req[r].value.session
    BY <1>1, SMTT(30) DEF ValueType
  <2> HIDE DEF v
  <2>3. v.at < v.token
    BY <1>1, <2>2, SMTT(30) DEF ValueType
  <2>4. /\ y \in ReqType /\ y.pc = "capture" /\ y.result = req[r].result
        /\ y.refreshes = req[r].refreshes /\ y.value = v
    BY <1>1, <2>2 DEF ReqType
  <2> HIDE DEF y
  <2>5. ReqOK(y) /\ y.result # "ok"
    BY <1>1, <2>2, <2>3, <2>4 DEF ReqOK, None, SessionKnown
  <2>6. Moves(req[r], y)
    BY <1>1, <2>4 DEF Moves, Late
  <2>7. Quiet(r, y)
    BY <1>1, <2>1, <2>4, <2>5, <2>6 DEF Quiet, world
  <2> QED
    BY <2>4, <2>7
<1> QED
  BY <1>2, <1>3

\* Chutes: the evidence of the instance that handed the nonces out.
LEMMA InstanceEvidenceQuiet ==
    ASSUME AdapterInv, NEW r \in Requests, FetchInstanceEvidence(r)
    PROVE  \E y \in ReqType : Quiet(r, y)
<1>1. /\ PeerInv /\ AdapterTypes /\ req[r] \in ReqType /\ ReqOK(req[r]) /\ verdict \in DigestType
      /\ req[r].pc = "evidence" /\ UNCHANGED <<world, now, store, cached, verdict, sends, work>>
      /\ kind = "chutes"
  BY ReqFacts DEF AdapterInv, FetchInstanceEvidence, ReqOK
<1>2. CASE Done(r, "NotSent")
  BY <1>1, <1>2, QuietDone
<1>3. CASE ~Done(r, "NotSent")
  <2> DEFINE y == [req[r] EXCEPT !.pc = "capture"]
  <2>1. req' = [req EXCEPT ![r] = y]
    BY <1>3 DEF FetchInstanceEvidence
  <2>2. /\ y \in ReqType /\ y.pc = "capture" /\ y.result = req[r].result
        /\ y.refreshes = req[r].refreshes /\ y.value = req[r].value
    BY <1>1 DEF ReqType
  <2> HIDE DEF y
  <2>3. ReqOK(y) /\ y.result # "ok"
    BY <1>1, <2>2 DEF ReqOK, None, SessionKnown
  <2>4. Moves(req[r], y)
    BY <1>1, <2>2 DEF Moves, Late
  <2>5. NonceOK(r, req[r])
    BY <1>1 DEF AdapterInv, NoncesKept, NonceInv
  <2>6. NonceOK(r, y)
    BY <1>1, <2>2, <2>5 DEF NonceOK
  <2>7. Quiet(r, y)
    BY <1>1, <2>1, <2>2, <2>3, <2>4, <2>6 DEF Quiet, world
  <2> QED
    BY <2>2, <2>7
<1> QED
  BY <1>2, <1>3

LEMMA VerifyQuiet ==
    ASSUME PeerInv, NEW r \in Requests, Verify(r) PROVE \E y \in ReqType : Quiet(r, y)
<1>1. /\ AdapterTypes /\ req[r] \in ReqType /\ ReqOK(req[r]) /\ verdict \in DigestType
      /\ req[r].pc = "verify" /\ UNCHANGED <<world, now, store, cached, sends, work>>
      /\ req[r].digest \in DigestType
  BY ReqFacts DEF Verify
<1>2. CASE Done(r, "NotSent") /\ verdict' = verdict
  BY <1>1, <1>2, QuietDone
<1>3. CASE /\ verdict' = req[r].digest
           /\ req' = [req EXCEPT ![r] = [req[r] EXCEPT !.pc = "chat", !.value = NoValue]]
  <2> DEFINE y == [req[r] EXCEPT !.pc = "chat", !.value = NoValue]
  <2>1. req' = [req EXCEPT ![r] = y]
    BY <1>3
  <2>2. /\ y \in ReqType /\ y.pc = "chat" /\ y.result = req[r].result
        /\ y.refreshes = req[r].refreshes
    BY <1>1, IdleFields DEF ReqType
  <2> HIDE DEF y
  <2>3. ReqOK(y) /\ y.result # "ok"
    BY <1>1, <2>2 DEF ReqOK, None
  <2>4. Moves(req[r], y)
    BY <1>1, <2>2 DEF Moves, Late
  <2>5. Quiet(r, y)
    BY <1>1, <1>3, <2>1, <2>2, <2>3, <2>4 DEF Quiet, NonceOK, world
  <2> QED
    BY <2>2, <2>5
<1> QED
  BY <1>2, <1>3 DEF Verify

\* A capture that is past stays past.
LEMMA KnownKept ==
    ASSUME AdapterTypes, NEW r \in Requests, NEW y \in ReqType, req' = [req EXCEPT ![r] = y],
           req[r].pc # "done", Moves(req[r], y),
           NEW t, t[1] \in Requests, t[2] \in Nat, Known(t)
    PROVE  Known(t)'
<1>1. \A q \in Requests : req'[q] = IF q = r THEN y ELSE req[q]
  BY OneReq
<1>2. PICK q \in Requests : q = t[1]
  OBVIOUS
<1>3. PICK k \in Nat : k = t[2]
  OBVIOUS
<1>4. Past(req[q], k)
  BY <1>2, <1>3 DEF Known
<1>5. req[q] \in ReqType /\ req[r] \in ReqType
  BY DEF AdapterTypes
<1>6. Past(req'[q], k)
  <2>1. CASE q # r
    BY <1>1, <1>4, <2>1
  <2>2. CASE q = r
    <3>1. req[r].refreshes \in Nat /\ y.refreshes \in Nat /\ req'[q] = y
      BY <1>1, <1>5, <2>2 DEF ReqType
    <3> QED
      BY <1>4, <2>2, <3>1 DEF Past, Moves
  <2> QED
    BY <2>1, <2>2
<1> QED
  BY <1>2, <1>3, <1>6 DEF Known

\* What the tags and nonces of NonceInv are.
LEMMA NonceFacts ==
    ASSUME NonceInv
    PROVE  /\ \A i \in 1..Len(store) :
                 /\ store[i].digest.nonce[1] \in Requests /\ store[i].digest.nonce[2] \in Nat
                 /\ Known(store[i].digest.nonce)
           /\ \A i \in 1..Len(sends) :
                 sends[i][1] \in Requests /\ sends[i][2] \in Nat /\ Known(sends[i])
           /\ \A q \in Requests : req[q].pc = "send" =>
                 req[q].nonce[1] \in Requests /\ req[q].nonce[2] \in Nat /\ Known(req[q].nonce)
<1>1. \A t \in Requests \X Nat : t[1] \in Requests /\ t[2] \in Nat
  OBVIOUS
<1>2. \A n \in NonceIds : n[1] \in Requests /\ n[2] \in Nat
  BY DEF NonceIds
<1>3. \A i \in 1..Len(store) : /\ store[i].digest.nonce \in Requests \X Nat
                               /\ Known(store[i].digest.nonce)
  BY DEF NonceInv, EntryNonces
<1>4. \A i \in 1..Len(sends) : sends[i] \in NonceIds /\ Known(sends[i])
  BY DEF NonceInv
<1>5. \A q \in Requests : req[q].pc = "send" => req[q].nonce \in NonceIds /\ Known(req[q].nonce)
  BY DEF NonceInv
<1> QED
  BY <1>1, <1>2, <1>3, <1>4, <1>5

\* A step that neither captures, takes nor sends a nonce.
LEMMA QuietNonces ==
    ASSUME AdapterTypes, NonceInv, NEW r \in Requests, NEW y \in ReqType,
           req' = [req EXCEPT ![r] = y], Moves(req[r], y), NonceOK(r, y),
           req[r].pc \notin {"send", "done"}, y.pc # "send", UNCHANGED <<store, sends>>
    PROVE  NonceInv'
<1>1. /\ \A q \in Requests : req'[q] = IF q = r THEN y ELSE req[q]
      /\ \A q \in Requests : req'[q].pc = "send" => req[q].pc = "send" /\ req'[q] = req[q]
  BY OneReq
<1>2. \A i \in 1..Len(store) : Known(store[i].digest.nonce)'
  BY NonceFacts, KnownKept
<1>3. \A i \in 1..Len(sends) : Known(sends[i])'
  BY NonceFacts, KnownKept
<1>4. \A q \in Requests : req[q].pc = "send" => Known(req[q].nonce)'
  <2> SUFFICES ASSUME NEW q \in Requests, req[q].pc = "send" PROVE Known(req[q].nonce)'
    OBVIOUS
  <2>1. q # r /\ req'[q] = req[q]
    BY <1>1
  <2>2. PICK t : t = req[q].nonce
    OBVIOUS
  <2>3. Known(t)'
    BY <2>2, NonceFacts, KnownKept
  <2> QED
    BY <2>1, <2>2, <2>3 DEF Known
<1>5. \A n : (InStore(n)' <=> InStore(n)) /\ (Sent(n)' <=> Sent(n))
  BY DEF InStore, Sent
<1>6. \A i \in 1..Len(store') : EntryNonces(store[i])' /\ Known(store[i].digest.nonce)'
  BY <1>2 DEF NonceInv, EntryNonces
<1>7. \A i \in 1..Len(sends') : /\ sends'[i] \in NonceIds /\ Known(sends[i])'
                                /\ ~InStore(sends[i])'
  BY <1>3 DEF NonceInv, InStore
<1>8. \A q \in Requests : req'[q].pc = "send" =>
          /\ req'[q].nonce \in NonceIds /\ Known(req[q].nonce)'
          /\ ~InStore(req[q].nonce)' /\ ~Sent(req[q].nonce)'
  BY <1>1, <1>4 DEF NonceInv, InStore, Sent
<1>9. \A q \in Requests : NonceOK(q, req[q])'
  BY <1>1 DEF NonceInv, NonceOK
<1> QED
  BY <1>1, <1>6, <1>7, <1>8, <1>9 DEF NonceInv

LEMMA QuietStep ==
    ASSUME AdapterInv, NEW r \in Requests, NEW y \in ReqType, Quiet(r, y) PROVE AdapterInv'
<1>1. /\ PeerInv /\ NoncesKept /\ AdapterTypes /\ store \in Seq(EntryType) /\ cached \in Seq(CachedType)
      /\ sends \in Seq(NonceIds \cup {<<>>})
      /\ \A i \in 1..Len(store) : Fits(store[i].digest, store[i].value)
      /\ Len(cached) <= 1 /\ \A c \in 1..Len(cached) : cached[c].notAfter <= cached[c].token
  BY DEF AdapterInv, PeerInv, AdapterTypes
<1>2. PeerInv'
  BY <1>1, PeerFrame DEF Quiet
<1>3. NoncesKept'
  <2>1. CASE kind = "chutes"
    <3>1. NonceInv'
      BY <1>1, <2>1, QuietNonces DEF Quiet, NoncesKept
    <3> QED
      BY <2>1, <3>1 DEF NoncesKept, Quiet
  <2>2. CASE kind # "chutes"
    BY <1>1, <2>2 DEF NoncesKept, Quiet
  <2> QED
    BY <2>1, <2>2
<1> QED
  BY <1>2, <1>3 DEF AdapterInv

-----------------------------------------------------------------------------
(* Adapters: the store *)

\* What is in the store after an insert: the new entry and old ones.
LEMMA InsertEntries ==
    ASSUME store \in Seq(EntryType), NEW digest \in DigestType, NEW value \in ValueType
    PROVE  /\ Insert(digest, value) \in Seq(EntryType)
           /\ \A i \in 1..Len(Insert(digest, value)) :
                 \/ Insert(digest, value)[i] = [digest |-> digest, value |-> value]
                 \/ \E k \in 1..Len(store) : Insert(digest, value)[i] = store[k]
           /\ Entries(digest) = {} =>
                 \E d \in Nat : \A i \in 1..Len(Insert(digest, value)) :
                    /\ i + d \in 1..(Len(store) + 1)
                    /\ Insert(digest, value)[i] =
                         IF i + d = Len(store) + 1 THEN [digest |-> digest, value |-> value]
                         ELSE store[i + d]
<1> DEFINE e == [digest |-> digest, value |-> value]
           kept == WithoutEntry(digest)
           all == Append(kept, e)
           m == Len(all) - MaxEntries + 1
           short == SubSeq(all, m, Len(all))
<1>1. e \in EntryType
  BY DEF EntryType
<1>2. /\ kept \in Seq(EntryType) /\ \A j \in 1..Len(kept) : \E k \in 1..Len(store) : kept[j] = store[k]
      /\ Entries(digest) = {} => kept = store
  <2>1. CASE Entries(digest) = {}
    BY <2>1 DEF WithoutEntry
  <2>2. CASE Entries(digest) # {}
    <3> DEFINE i == CHOOSE j \in Entries(digest) : TRUE
    <3>0. i \in Entries(digest)
      BY <2>2
    <3>1. i \in 1..Len(store) /\ kept = RemoveAt(store, i)
      BY <2>2, <3>0 DEF WithoutEntry, Entries
    <3> HIDE DEF i
    <3>2. /\ kept \in Seq(EntryType) /\ Len(kept) = Len(store) - 1
          /\ \A j \in 1..(Len(store) - 1) : kept[j] = IF j < i THEN store[j] ELSE store[j + 1]
      BY <3>1, RemoveAtElements
    <3>3. Len(store) \in Nat
      BY LenProperties
    <3>4. \A j \in 1..(Len(store) - 1) : j \in 1..Len(store) /\ j + 1 \in 1..Len(store)
      BY <3>3
    <3> HIDE DEF kept
    <3> QED
      BY <2>2, <3>2, <3>4
  <2> QED
    BY <2>1, <2>2
<1> HIDE DEF kept, e
<1>3. /\ all \in Seq(EntryType) /\ Len(all) = Len(kept) + 1
      /\ \A j \in 1..Len(kept) : all[j] = kept[j]
      /\ all[Len(kept) + 1] = e
  BY <1>1, <1>2, AppendProperties
<1>4. Len(kept) \in Nat /\ MaxEntries \in Nat \ {0}
  BY <1>2, LenProperties, AdapterBounds
<1> HIDE DEF all
<1>5. \A j \in 1..Len(all) : all[j] = e \/ \E k \in 1..Len(store) : all[j] = store[k]
  <2> SUFFICES ASSUME NEW j \in 1..Len(all)
               PROVE  all[j] = e \/ \E k \in 1..Len(store) : all[j] = store[k]
    OBVIOUS
  <2>1. j \in 1..Len(kept) \/ j = Len(kept) + 1
    BY <1>3, <1>4
  <2> QED
    BY <1>2, <1>3, <2>1
<1>6. \A j \in 1..Len(all) : all[j] \in EntryType
  BY <1>3, ElementOfSeq
<1>7. ASSUME Len(all) > MaxEntries
      PROVE  /\ short \in Seq(EntryType) /\ Len(short) = MaxEntries
             /\ \A i \in 1..MaxEntries : i + (m - 1) \in 1..Len(all) /\ short[i] = all[i + (m - 1)]
             /\ m - 1 \in Nat
  <2>1. m \in Int /\ Len(all) \in Int /\ m - 1 \in Nat /\ m <= Len(all)
        /\ Len(all) - m + 1 = MaxEntries
    BY <1>3, <1>4, <1>7
  <2>2. \A i \in m..Len(all) : all[i] \in EntryType
    BY <1>6, <2>1
  <2> HIDE DEF m
  <2>3. /\ short \in Seq(EntryType) /\ Len(short) = MaxEntries
        /\ \A i \in 1..MaxEntries : short[i] = all[m + i - 1]
    BY <2>1, <2>2, SubSeqProperties
  <2>4. \A i \in 1..MaxEntries : i + (m - 1) \in 1..Len(all) /\ m + i - 1 = i + (m - 1)
    BY <1>4, <2>1
  <2> QED
    BY <2>1, <2>3, <2>4
<1>8. Insert(digest, value) = IF Len(all) > MaxEntries THEN short ELSE all
  BY DEF Insert, all, kept, e
<1> HIDE DEF short, m
<1>9. Entries(digest) = {} =>
        \A j \in 1..Len(all) : /\ j \in 1..(Len(store) + 1)
                               /\ all[j] = IF j = Len(store) + 1 THEN e ELSE store[j]
  <2> SUFFICES ASSUME Entries(digest) = {}, NEW j \in 1..Len(all)
               PROVE  /\ j \in 1..(Len(store) + 1)
                      /\ all[j] = IF j = Len(store) + 1 THEN e ELSE store[j]
    OBVIOUS
  <2>1. kept = store /\ Len(all) = Len(store) + 1
    BY <1>2, <1>3
  <2>2. j \in 1..Len(kept) \/ j = Len(kept) + 1
    BY <1>3, <1>4
  <2> QED
    BY <1>3, <1>4, <2>1, <2>2
<1>10. CASE Len(all) > MaxEntries
  <2>1. Insert(digest, value) = short
    BY <1>8, <1>10
  <2>2. \A i \in 1..Len(short) : short[i] = e \/ \E k \in 1..Len(store) : short[i] = store[k]
    BY <1>5, <1>7, <1>10
  <2>3. PICK d \in Nat : d = m - 1
    BY <1>7, <1>10
  <2>4. Entries(digest) = {} => \A i \in 1..Len(short) :
            /\ i + d \in 1..(Len(store) + 1)
            /\ short[i] = IF i + d = Len(store) + 1 THEN e ELSE store[i + d]
    BY <1>7, <1>9, <1>10, <2>3
  <2> QED
    BY <1>7, <1>10, <2>1, <2>2, <2>4 DEF e
<1>11. CASE ~(Len(all) > MaxEntries)
  <2>1. Insert(digest, value) = all
    BY <1>8, <1>11
  <2>2. Entries(digest) = {} => \A i \in 1..Len(all) :
            /\ i + 0 \in 1..(Len(store) + 1)
            /\ all[i] = IF i + 0 = Len(store) + 1 THEN e ELSE store[i + 0]
    <3>1. \A i \in 1..Len(all) : i + 0 = i
      BY <1>3, <1>4
    <3> QED
      BY <1>9, <3>1
  <2> QED
    BY <1>3, <1>5, <2>1, <2>2 DEF e
<1> QED
  BY <1>10, <1>11

\* Chutes: a capture adds nonces nobody has seen.
LEMMA CaptureNonces ==
    ASSUME AdapterTypes, NonceInv, NEW r \in Requests, NEW y \in ReqType,
           NEW digest \in DigestType, NEW value \in ValueType,
           req' = [req EXCEPT ![r] = y], req[r].pc = "capture", y.pc = "verify",
           y.refreshes = req[r].refreshes, value = req[r].value,
           digest.nonce = <<r, req[r].refreshes>>,
           store' = Insert(digest, value), UNCHANGED sends
    PROVE  NonceInv'
<1> DEFINE k == req[r].refreshes
           e == [digest |-> digest, value |-> value]
<1>0. k \in Nat /\ store \in Seq(EntryType)
  BY DEF AdapterTypes, ReqType
<1>1. /\ \A q \in Requests : req'[q] = IF q = r THEN y ELSE req[q]
      /\ \A q \in Requests : req'[q].pc = "send" => req[q].pc = "send" /\ req'[q] = req[q]
  BY OneReq
<1>2. Moves(req[r], y) /\ NonceOK(r, y)
  BY DEF Moves, Late, NonceOK
<1>3. ~Past(req[r], k)
  BY <1>0 DEF Past, Late
<1>4. Past(y, k)
  BY DEF Past, Late
<1> HIDE DEF k
<1>5. \A t : Known(t) /\ t[1] = r => t[2] # k
  BY <1>3 DEF Known
<1>6. \A i \in 1..Len(store) : store[i].digest.nonce # digest.nonce
  <2> SUFFICES ASSUME NEW i \in 1..Len(store), store[i].digest.nonce = digest.nonce PROVE FALSE
    OBVIOUS
  <2>1. Known(digest.nonce)
    BY NonceFacts
  <2>2. digest.nonce[1] = r /\ digest.nonce[2] = k
    BY DEF k
  <2> QED
    BY <1>5, <2>1, <2>2
<1>7. Entries(digest) = {}
  BY <1>0, <1>6 DEF Entries
<1>8. PICK d \in Nat : \A i \in 1..Len(store') :
        /\ i + d \in 1..(Len(store) + 1)
        /\ store'[i] = IF i + d = Len(store) + 1 THEN e ELSE store[i + d]
  <2> DEFINE ins == Insert(digest, value)
  <2>1. \E d \in Nat : \A i \in 1..Len(ins) :
           /\ i + d \in 1..(Len(store) + 1)
           /\ ins[i] = IF i + d = Len(store) + 1 THEN e ELSE store[i + d]
    BY <1>0, <1>7, InsertEntries
  <2>2. store' = ins
    OBVIOUS
  <2> HIDE DEF ins
  <2> QED
    BY <2>1, <2>2
<1>9. store' \in Seq(EntryType) /\ Len(store') \in Nat /\ Len(store) \in Nat
  BY <1>0, InsertEntries, LenProperties
<1>10. \A i \in 1..Len(store') :
        \/ i + d = Len(store) + 1 /\ store'[i] = e
        \/ i + d \in 1..Len(store) /\ store'[i] = store[i + d]
  BY <1>8, <1>9
<1>11. e.digest = digest /\ e.value = value
  OBVIOUS
<1>12. /\ \A j \in 1..Len(value.nonces) : value.nonces[j] = <<r, k, j>>
       /\ Len(value.nonces) \in Nat
  <2>1. NonceOK(r, req[r])
    BY DEF NonceInv
  <2>2. value.nonces \in Seq(NonceIds)
    BY DEF ValueType
  <2> QED
    BY <2>1, <2>2, LenProperties DEF NonceOK, k
<1> HIDE DEF e
<1>13. EntryNonces(e)
  <2>1. digest.nonce \in Requests \X Nat /\ digest.nonce[1] = r /\ digest.nonce[2] = k
    BY <1>0 DEF k
  <2>2. \A j \in 1..Len(value.nonces) : OfTag(value.nonces[j], digest.nonce)
    <3> SUFFICES ASSUME NEW j \in 1..Len(value.nonces) PROVE OfTag(value.nonces[j], digest.nonce)
      OBVIOUS
    <3>1. j \in Nat /\ value.nonces[j] = <<r, k, j>>
      BY <1>12
    <3>2. <<r, k, j>> \in NonceIds
      BY <1>0, <3>1 DEF NonceIds
    <3> QED
      BY <2>1, <3>1, <3>2 DEF OfTag
  <2>3. \A i, j \in 1..Len(value.nonces) : value.nonces[i] = value.nonces[j] => i = j
    BY <1>12
  <2> QED
    BY <1>11, <2>1, <2>2, <2>3 DEF EntryNonces
<1>14. \A n : n \in NonceIds /\ Known(n) /\ ~InStore(n) => ~InStore(n)'
  <2> SUFFICES ASSUME NEW n, n \in NonceIds, Known(n), ~InStore(n), InStore(n)' PROVE FALSE
    OBVIOUS
  <2>1. PICK i \in 1..Len(store') : \E j \in 1..Len(store'[i].value.nonces) :
            store'[i].value.nonces[j] = n
    BY DEF InStore
  <2>2. CASE i + d \in 1..Len(store) /\ store'[i] = store[i + d]
    BY <2>1, <2>2 DEF InStore
  <2>3. CASE store'[i] = e
    <3>1. PICK j \in 1..Len(value.nonces) : value.nonces[j] = n
      BY <1>11, <2>1, <2>3
    <3>2. n[1] = r /\ n[2] = k
      BY <1>12, <3>1
    <3> QED
      BY <1>5, <3>2
  <2> QED
    BY <1>10, <2>2, <2>3
<1>15. \A i \in 1..Len(store') : EntryNonces(store'[i]) /\ Known(store[i].digest.nonce)'
  <2> SUFFICES ASSUME NEW i \in 1..Len(store')
               PROVE  EntryNonces(store'[i]) /\ Known(store[i].digest.nonce)'
    OBVIOUS
  <2>1. CASE i + d \in 1..Len(store) /\ store'[i] = store[i + d]
    <3>1. PICK o \in 1..Len(store) : store'[i] = store[o]
      BY <2>1
    <3>2. PICK t : t = store[o].digest.nonce
      OBVIOUS
    <3>3. Known(t)'
      BY <1>2, <3>2, NonceFacts, KnownKept
    <3>4. EntryNonces(store[o])
      BY DEF NonceInv
    <3> QED
      BY <3>1, <3>2, <3>3, <3>4 DEF Known
  <2>2. CASE store'[i] = e
    <3>1. digest.nonce[1] = r /\ digest.nonce[2] = k /\ req'[r] = y
      BY <1>1 DEF k
    <3> QED
      BY <1>4, <1>11, <1>13, <2>2, <3>1 DEF Known
  <2> QED
    BY <1>10, <2>1, <2>2
<1>16. \A i, j \in 1..Len(store') : store'[i].digest.nonce = store'[j].digest.nonce => i = j
  <2> SUFFICES ASSUME NEW i \in 1..Len(store'), NEW j \in 1..Len(store'),
                      store'[i].digest.nonce = store'[j].digest.nonce
               PROVE  i = j
    OBVIOUS
  <2>1. \A a, b \in 1..Len(store) : store[a].digest.nonce = store[b].digest.nonce => a = b
    BY DEF NonceInv
  <2>2. i + d = j + d
    BY <1>6, <1>10, <1>11, <2>1, ZenonT(60)
  <2> QED
    BY <1>9, <2>2
<1>17. \A i \in 1..Len(sends') : /\ sends'[i] \in NonceIds /\ Known(sends[i])'
                                /\ ~InStore(sends[i])'
  <2> SUFFICES ASSUME NEW i \in 1..Len(sends)
               PROVE  sends[i] \in NonceIds /\ Known(sends[i])' /\ ~InStore(sends[i])'
    OBVIOUS
  <2>1. PICK t : t = sends[i]
    OBVIOUS
  <2>2. t \in NonceIds /\ Known(t) /\ ~InStore(t)
    BY <2>1 DEF NonceInv
  <2>3. Known(t)' /\ ~InStore(t)'
    BY <1>2, <1>14, <2>1, <2>2, NonceFacts, KnownKept
  <2> QED
    BY <2>1, <2>2, <2>3 DEF Known, InStore
<1>18. \A q \in Requests : req'[q].pc = "send" =>
          /\ req'[q].nonce \in NonceIds /\ Known(req[q].nonce)'
          /\ ~InStore(req[q].nonce)' /\ ~Sent(req[q].nonce)'
  <2> SUFFICES ASSUME NEW q \in Requests, req'[q].pc = "send"
               PROVE  /\ req'[q].nonce \in NonceIds /\ Known(req[q].nonce)'
                      /\ ~InStore(req[q].nonce)' /\ ~Sent(req[q].nonce)'
    OBVIOUS
  <2>1. req[q].pc = "send" /\ req'[q] = req[q]
    BY <1>1
  <2>2. PICK t : t = req[q].nonce
    OBVIOUS
  <2>3. t \in NonceIds /\ Known(t) /\ ~InStore(t) /\ ~Sent(t)
    BY <2>1, <2>2 DEF NonceInv
  <2>4. Known(t)' /\ ~InStore(t)' /\ ~Sent(t)'
    BY <1>2, <1>14, <2>1, <2>2, <2>3, NonceFacts, KnownKept DEF Sent
  <2> QED
    BY <2>1, <2>2, <2>3, <2>4 DEF Known, InStore, Sent
<1>19. \A q \in Requests : NonceOK(q, req[q])'
  BY <1>1, <1>2 DEF NonceInv, NonceOK
<1>20. \A i \in 1..Len(store') : EntryNonces(store[i])' /\ Known(store[i].digest.nonce)'
  BY <1>15 DEF EntryNonces, OfTag, Known
<1> QED
  BY <1>1, <1>16, <1>17, <1>18, <1>19, <1>20 DEF NonceInv

LEMMA CaptureStep ==
    ASSUME AdapterInv, NEW r \in Requests, Capture(r) PROVE AdapterInv'
<1> DEFINE nonce == IF kind = "ppq" THEN <<>> ELSE <<r, req[r].refreshes>>
           value == req[r].value
           digest == Digest(nonce, value)
           y == [req[r] EXCEPT !.pc = "verify", !.digest = digest]
<1>1. /\ PeerInv /\ NoncesKept /\ AdapterTypes /\ req[r] \in ReqType /\ ReqOK(req[r])
      /\ verdict \in DigestType /\ value \in ValueType /\ req[r].refreshes \in Nat
      /\ req[r].pc = "capture" /\ UNCHANGED <<world, now, cached, verdict, sends, work>>
      /\ store' = Insert(digest, value)
      /\ req' = [req EXCEPT ![r] = y]
  BY ReqFacts DEF AdapterInv, Capture
<1>2. nonce \in (Requests \X Nat) \cup {<<>>}
  BY <1>1
<1>3. digest \in DigestType /\ digest.nonce = nonce /\ Fits(digest, value)
  <2>1. SessionKnown(value)
    BY <1>1 DEF ReqOK
  <2> QED
    BY <1>1, <1>2, <2>1, DigestFields
<1> HIDE DEF digest
<1>4. /\ y \in ReqType /\ y.pc = "verify" /\ y.result = req[r].result
      /\ y.refreshes = req[r].refreshes /\ y.value = value
  BY <1>1, <1>3 DEF ReqType
<1> HIDE DEF y
<1>5. ReqOK(y) /\ y.result # "ok"
  BY <1>1, <1>4 DEF ReqOK, None
<1>6. store \in Seq(EntryType) /\ \A i \in 1..Len(store) : Fits(store[i].digest, store[i].value)
  BY <1>1 DEF PeerInv, AdapterTypes
<1>7. /\ store' \in Seq(EntryType)
      /\ \A i \in 1..Len(store') : \/ store'[i] = [digest |-> digest, value |-> value]
                                   \/ \E k \in 1..Len(store) : store'[i] = store[k]
  <2> DEFINE ins == Insert(digest, value)
  <2>1. /\ ins \in Seq(EntryType)
        /\ \A i \in 1..Len(ins) : \/ ins[i] = [digest |-> digest, value |-> value]
                                  \/ \E k \in 1..Len(store) : ins[i] = store[k]
    BY <1>1, <1>3, <1>6, InsertEntries
  <2>2. store' = ins
    BY <1>1
  <2> HIDE DEF ins
  <2> QED
    BY <2>1, <2>2
<1>8. \A i \in 1..Len(store') : Fits(store'[i].digest, store'[i].value)
  <2> SUFFICES ASSUME NEW i \in 1..Len(store') PROVE Fits(store'[i].digest, store'[i].value)
    OBVIOUS
  <2>1. CASE store'[i] = [digest |-> digest, value |-> value]
    <3>1. store'[i].digest = digest /\ store'[i].value = value
      BY <2>1
    <3> QED
      BY <1>3, <3>1
  <2>2. CASE \E k \in 1..Len(store) : store'[i] = store[k]
    BY <1>6, <2>2
  <2> QED
    BY <1>7, <2>1, <2>2
<1>9. PeerInv'
  <2>1. /\ cached' \in Seq(CachedType) /\ Len(cached') <= 1
        /\ \A c \in 1..Len(cached') : cached'[c].notAfter <= cached'[c].token
        /\ sends' \in Seq(NonceIds \cup {<<>>})
    BY <1>1 DEF PeerInv, AdapterTypes
  <2> QED
    BY <1>1, <1>4, <1>5, <1>7, <1>8, <2>1, PeerFrame DEF world
<1>10. NoncesKept'
  <2>1. CASE kind = "chutes"
    <3>1. digest.nonce = <<r, req[r].refreshes>>
      BY <1>3, <2>1
    <3>2. NonceInv
      BY <1>1, <2>1 DEF NoncesKept
    <3>3. NonceInv'
      BY <1>1, <1>3, <1>4, <3>1, <3>2, CaptureNonces
    <3> QED
      BY <1>1, <2>1, <3>3 DEF NoncesKept, world
  <2>2. CASE kind # "chutes"
    BY <1>1, <2>2 DEF NoncesKept, world
  <2> QED
    BY <2>1, <2>2
<1> QED
  BY <1>9, <1>10 DEF AdapterInv

\* The state found for a digest is of the types and is what the digest says.
LEMMA GetFacts ==
    ASSUME PeerInv, NEW digest \in DigestType, NEW value \in Get(digest)
    PROVE  /\ value \in ValueType /\ Fits(digest, value)
           /\ \E i \in 1..Len(store) : store[i].digest = digest /\ store[i].value = value
<1>1. store \in Seq(EntryType) /\ \A i \in 1..Len(store) : Fits(store[i].digest, store[i].value)
  BY DEF PeerInv, AdapterTypes
<1>2. PICK i \in 1..Len(store) : store[i].digest = digest /\ store[i].value = value
  BY <1>1 DEF Get, Entries
<1>3. store[i] \in EntryType /\ Fits(store[i].digest, store[i].value)
  BY <1>1, <1>2, ElementOfSeq
<1> QED
  BY <1>2, <1>3 DEF EntryType

\* The request as it leaves: with the state of its own verdict.
LEMMA PreparedFields ==
    ASSUME PeerInv, NEW r \in Requests, req[r].pc = "chat", NEW value \in Get(req[r].digest),
           NEW nonce \in NonceIds \cup {<<>>}, Prepared(r, value, nonce)
    PROVE  \E y \in ReqType :
              /\ req' = [req EXCEPT ![r] = y] /\ ReqOK(y)
              /\ y.pc = "send" /\ y.nonce = nonce /\ y.result # "ok"
              /\ y.refreshes = req[r].refreshes /\ Moves(req[r], y)
<1> DEFINE y == [req[r] EXCEPT !.pc = "send", !.value = value, !.nonce = nonce]
<1>1. req[r] \in ReqType /\ ReqOK(req[r]) /\ req[r].digest \in DigestType
  BY ReqFacts
<1>2. value \in ValueType /\ Fits(req[r].digest, value)
  BY <1>1, GetFacts
<1>3. req' = [req EXCEPT ![r] = y]
  BY DEF Prepared
<1>4. /\ y \in ReqType /\ y.pc = "send" /\ y.nonce = nonce /\ y.result = req[r].result
      /\ y.refreshes = req[r].refreshes /\ y.value = value /\ y.digest = req[r].digest
  BY <1>1, <1>2 DEF ReqType
<1> HIDE DEF y
<1>5. ReqOK(y) /\ y.result # "ok"
  BY <1>1, <1>2, <1>4 DEF ReqOK, None
<1>6. Moves(req[r], y)
  BY <1>4 DEF Moves, Late
<1> QED
  BY <1>3, <1>4, <1>5, <1>6

\* Every adapter but Chutes: the store is only read.
LEMMA PreparedStep ==
    ASSUME AdapterInv, NEW r \in Requests, req[r].pc = "chat", kind # "chutes",
           NEW value \in Get(req[r].digest), Prepared(r, value, <<>>), UNCHANGED store,
           cached' \in Seq(CachedType), Len(cached') <= 1,
           \A c \in 1..Len(cached') : cached'[c].notAfter <= cached'[c].token
    PROVE  AdapterInv'
<1>1. /\ PeerInv /\ NoncesKept /\ AdapterTypes /\ verdict \in DigestType
      /\ UNCHANGED <<world, now, verdict, sends, work>>
      /\ store \in Seq(EntryType) /\ \A i \in 1..Len(store) : Fits(store[i].digest, store[i].value)
      /\ sends \in Seq(NonceIds \cup {<<>>})
  BY DEF AdapterInv, PeerInv, AdapterTypes, Prepared
<1>2. PICK y \in ReqType :
         /\ req' = [req EXCEPT ![r] = y] /\ ReqOK(y) /\ y.pc = "send" /\ y.result # "ok"
  BY <1>1, PreparedFields
<1>3. PeerInv'
  BY <1>1, <1>2, PeerFrame DEF world
<1>4. NoncesKept'
  BY <1>1 DEF NoncesKept, world
<1> QED
  BY <1>3, <1>4 DEF AdapterInv

LEMMA PinnedChatStep ==
    ASSUME AdapterInv, NEW r \in Requests,
           \/ TinfoilChat(r) \/ TinfoilEmbeddings(r) \/ TinfoilChatStream(r)
           \/ NearChat(r) \/ PpqChat(r)
    PROVE  AdapterInv'
<1>1. PICK value \in Get(req[r].digest) :
        /\ Prepared(r, value, <<>>) /\ UNCHANGED <<store, cached>>
        /\ req[r].pc = "chat" /\ kind # "chutes"
  BY DEF TinfoilChat, TinfoilEmbeddings, TinfoilChatStream, NearChat, PpqChat, Ready
<1>2. /\ cached' \in Seq(CachedType) /\ Len(cached') <= 1
      /\ \A c \in 1..Len(cached') : cached'[c].notAfter <= cached'[c].token
  BY <1>1 DEF AdapterInv, PeerInv, AdapterTypes
<1> QED
  BY <1>1, <1>2, PreparedStep

\* RedPill: an entry of session_cache expires no later than its token.
LEMMA RedpillChatStep ==
    ASSUME AdapterInv, NEW r \in Requests, RedpillChat(r) PROVE AdapterInv'
<1>0. PeerInv /\ req[r].digest \in DigestType /\ now \in Nat /\ sessions \in Seq(SessionType)
  BY ReqFacts DEF AdapterInv, PeerInv, AdapterTypes
<1>1. PICK value \in Get(req[r].digest) :
        \/ Rotated(r)
        \/ /\ now < sessions[value.session].exp
           /\ Prepared(r, value, <<>>) /\ UNCHANGED store
           /\ cached' = <<[session |-> value.session, token |-> value.token,
                           notAfter |-> CacheNotAfter(value)]>>
  BY DEF RedpillChat
<1>2. /\ req[r].pc = "chat" /\ kind = "redpill" /\ value \in ValueType
      /\ value.session \in 1..Len(sessions)
  BY <1>0, GetFacts DEF RedpillChat, Ready, Fits, SessionKnown
<1>3. CASE Rotated(r)
  <2>1. \E y \in ReqType : Quiet(r, y)
    BY <1>0, <1>2, <1>3, QuietFails DEF Rotated
  <2> QED
    BY <2>1, QuietStep
<1>4. CASE /\ Prepared(r, value, <<>>) /\ UNCHANGED store
           /\ cached' = <<[session |-> value.session, token |-> value.token,
                           notAfter |-> CacheNotAfter(value)]>>
  <2> DEFINE c == [session |-> value.session, token |-> value.token,
                   notAfter |-> CacheNotAfter(value)]
  <2>0. sessions[value.session] \in SessionType
    BY <1>0, <1>2, ElementOfSeq
  <2>a. sessions[value.session].exp \in Nat /\ value.token \in Nat
    BY <1>2, <2>0 DEF ValueType, SessionType
  <2>1. CacheNotAfter(value) \in Nat /\ CacheNotAfter(value) <= value.token
    BY <2>a DEF CacheNotAfter
  <2>2. c \in CachedType /\ c.notAfter <= c.token
    BY <1>2, <2>1 DEF CachedType, ValueType
  <2> HIDE DEF c
  <2>3. cached' = <<c>>
    BY <1>4 DEF c
  <2>4. /\ cached' \in Seq(CachedType) /\ Len(cached') <= 1
        /\ \A i \in 1..Len(cached') : cached'[i].notAfter <= cached'[i].token
    BY <2>2, <2>3
  <2> QED
    BY <1>2, <1>4, <2>4, PreparedStep
<1> QED
  BY <1>1, <1>3, <1>4

-----------------------------------------------------------------------------
(* Adapters: taking and sending nonces *)

\* pop_front changes the one entry of the digest.
LEMMA PopShape ==
    ASSUME AdapterTypes, NonceInv, NEW o \in 1..Len(store), NEW value,
           store[o].value.nonces # <<>>, store' = PopNonce(store[o].digest, value)
    PROVE  /\ store' \in Seq(EntryType) /\ Len(store') = Len(store)
           /\ \A i \in 1..Len(store) :
                 /\ store'[i].digest = store[i].digest
                 /\ store'[i].value.identity = store[i].value.identity
                 /\ store'[i].value.session = store[i].value.session
                 /\ i # o => store'[i] = store[i]
           /\ store'[o].value.nonces = Tail(store[o].value.nonces)
<1> DEFINE new(i) == IF store[i].digest = store[o].digest
                     THEN [store[i] EXCEPT !.value.nonces = Tail(store[i].value.nonces)]
                     ELSE store[i]
<1>1. store \in Seq(EntryType) /\ Len(store) \in Nat /\ DOMAIN store = 1..Len(store)
  BY LenProperties DEF AdapterTypes
<1>2. store' = [i \in 1..Len(store) |-> new(i)]
  BY <1>1 DEF PopNonce
<1>3. \A i \in 1..Len(store) : store[i] \in EntryType
  BY <1>1, ElementOfSeq
<1>4. \A i \in 1..Len(store) : store[i].digest = store[o].digest <=> i = o
  BY DEF NonceInv
<1>5. PICK e \in EntryType : e = store[o] /\ e.value \in ValueType /\ e.value.nonces # <<>>
  BY <1>3 DEF EntryType
<1>6. Tail(e.value.nonces) \in Seq(NonceIds)
  BY <1>5, HeadTailProperties DEF ValueType
<1>7. PICK t \in Seq(NonceIds) : t = Tail(e.value.nonces)
  BY <1>6
<1>8. /\ [e EXCEPT !.value.nonces = t] \in EntryType
      /\ [e EXCEPT !.value.nonces = t].digest = e.digest
      /\ [e EXCEPT !.value.nonces = t].value.identity = e.value.identity
      /\ [e EXCEPT !.value.nonces = t].value.session = e.value.session
      /\ [e EXCEPT !.value.nonces = t].value.nonces = t
  BY <1>5 DEF EntryType, ValueType
<1>9. new(o) = [e EXCEPT !.value.nonces = t]
  BY <1>5, <1>7
<1>10. \A i \in 1..Len(store) : i # o => new(i) = store[i]
  BY <1>4
<1> HIDE DEF new
<1>11. \A i \in 1..Len(store) : new(i) \in EntryType
  BY <1>3, <1>8, <1>9, <1>10
<1>12. store' \in Seq(EntryType) /\ Len(store') = Len(store)
  BY <1>1, <1>2, <1>11
<1>13. \A i \in 1..Len(store) : store'[i] = new(i)
  BY <1>2
<1> QED
  BY <1>5, <1>7, <1>8, <1>9, <1>10, <1>12, <1>13

\* The popped nonce is in flight, and nowhere else.
LEMMA PopNonces ==
    ASSUME AdapterTypes, NonceInv, NEW r \in Requests, NEW y \in ReqType,
           req' = [req EXCEPT ![r] = y], req[r].pc = "chat", y.pc = "send", Moves(req[r], y),
           NEW o \in 1..Len(store), NEW value, store[o].value.nonces # <<>>,
           store' = PopNonce(store[o].digest, value),
           y.nonce = Head(store[o].value.nonces), UNCHANGED sends
    PROVE  NonceInv'
<1> DEFINE all == store[o].value.nonces
<1>0. PICK n : n = Head(all)
  OBVIOUS
<1>1. /\ store' \in Seq(EntryType) /\ Len(store') = Len(store) /\ Len(store) \in Nat
      /\ \A i \in 1..Len(store) :
            store'[i].digest = store[i].digest /\ (i # o => store'[i] = store[i])
      /\ store'[o].value.nonces = Tail(all)
  BY PopShape, LenProperties DEF AdapterTypes
<1>2. /\ all \in Seq(NonceIds) /\ all # <<>> /\ Len(all) \in Nat /\ 1 \in 1..Len(all)
      /\ n = all[1] /\ n \in NonceIds /\ Tail(all) \in Seq(NonceIds)
      /\ Len(Tail(all)) = Len(all) - 1
      /\ \A j \in 1..Len(Tail(all)) : Tail(all)[j] = all[j + 1]
  <2>1. store[o] \in EntryType
    BY ElementOfSeq DEF AdapterTypes
  <2>2. all \in Seq(NonceIds)
    BY <2>1 DEF EntryType, ValueType
  <2> HIDE DEF all
  <2>3. all # <<>>
    BY DEF all
  <2> QED
    BY <1>0, <2>2, <2>3, HeadTailProperties, LenProperties, EmptySeq
<1>3. /\ EntryNonces(store[o]) /\ Known(store[o].digest.nonce)
      /\ \A j \in 1..Len(all) : OfTag(all[j], store[o].digest.nonce)
      /\ \A j, k \in 1..Len(all) : all[j] = all[k] => j = k
  BY DEF NonceInv, EntryNonces
<1>4. InStore(n)
  BY <1>2, SMTT(30) DEF InStore
<1>5. OfTag(n, store[o].digest.nonce) /\ Known(n)
  BY <1>2, <1>3 DEF OfTag, Known
<1>6. \A j \in 1..Len(Tail(all)) : j + 1 \in 1..Len(all)
  BY <1>2
<1>7. \A m : InStore(m)' => InStore(m)
  <2> SUFFICES ASSUME NEW m, InStore(m)' PROVE InStore(m)
    OBVIOUS
  <2>1. PICK i \in 1..Len(store) : \E j \in 1..Len(store'[i].value.nonces) :
            store'[i].value.nonces[j] = m
    BY <1>1 DEF InStore
  <2>2. CASE i # o
    BY <1>1, <2>1, <2>2 DEF InStore
  <2>3. CASE i = o
    <3>1. PICK j \in 1..Len(Tail(all)) : Tail(all)[j] = m
      BY <1>1, <2>1, <2>3
    <3>2. j + 1 \in 1..Len(all) /\ all[j + 1] = m
      BY <1>2, <1>6, <3>1
    <3> QED
      BY <3>2 DEF InStore
  <2> QED
    BY <2>2, <2>3
<1>8. ~InStore(n)'
  <2> SUFFICES ASSUME InStore(n)' PROVE FALSE
    OBVIOUS
  <2>1. PICK i \in 1..Len(store) : \E j \in 1..Len(store'[i].value.nonces) :
            store'[i].value.nonces[j] = n
    BY <1>1 DEF InStore
  <2>2. CASE i # o
    <3>1. PICK j \in 1..Len(store[i].value.nonces) : store[i].value.nonces[j] = n
      BY <1>1, <2>1, <2>2
    <3>2. OfTag(n, store[i].digest.nonce)
      BY <3>1 DEF NonceInv, EntryNonces
    <3>3. /\ store[i].digest.nonce \in Requests \X Nat /\ store[o].digest.nonce \in Requests \X Nat
      BY DEF NonceInv, EntryNonces
    <3>a. \A s, t \in Requests \X Nat : s[1] = t[1] /\ s[2] = t[2] => s = t
      OBVIOUS
    <3>4. store[i].digest.nonce = store[o].digest.nonce
      BY <1>5, <3>2, <3>3, <3>a DEF OfTag
    <3> QED
      BY <2>2, <3>4 DEF NonceInv
  <2>3. CASE i = o
    <3>1. PICK j \in 1..Len(Tail(all)) : Tail(all)[j] = n
      BY <1>1, <2>1, <2>3
    <3>2. all[j + 1] = all[1] /\ j + 1 \in 1..Len(all)
      BY <1>2, <1>6, <3>1
    <3>3. j + 1 = 1
      BY <1>2, <1>3, <3>2
    <3> QED
      BY <1>2, <3>1, <3>3
  <2> QED
    BY <2>2, <2>3
<1>9. \A q \in Requests : req'[q] = IF q = r THEN y ELSE req[q]
  BY OneReq
<1>10. \A q \in Requests : req[q].pc = "send" => req[q].nonce # n /\ q # r
  BY <1>4 DEF NonceInv
<1>11. ~Sent(n)
  BY <1>4 DEF NonceInv, Sent
<1>12. \A i \in 1..Len(store') : EntryNonces(store[i])' /\ Known(store[i].digest.nonce)'
  <2> SUFFICES ASSUME NEW i \in 1..Len(store)
               PROVE  EntryNonces(store[i])' /\ Known(store[i].digest.nonce)'
    BY <1>1
  <2>1. PICK t : t = store[i].digest.nonce
    OBVIOUS
  <2>2. Known(t)'
    BY <2>1, NonceFacts, KnownKept
  <2>3. Known(store[i].digest.nonce)'
    BY <1>1, <2>1, <2>2 DEF Known
  <2>4. EntryNonces(store[i])
    BY Zenon DEF NonceInv
  <2>5. CASE i # o
    BY <1>1, <2>3, <2>4, <2>5 DEF EntryNonces
  <2>6. CASE i = o
    <3>1. \A j \in 1..Len(Tail(all)) : OfTag(Tail(all)[j], store[o].digest.nonce)
      BY <1>2, <1>3, <1>6
    <3>2. \A j, k \in 1..Len(Tail(all)) : Tail(all)[j] = Tail(all)[k] => j = k
      BY <1>2, <1>3, <1>6
    <3>3. store'[o].digest.nonce = store[o].digest.nonce /\ store'[o].value.nonces = Tail(all)
      BY <1>1
    <3> HIDE DEF all
    <3> QED
      BY <2>3, <2>4, <2>6, <3>1, <3>2, <3>3 DEF EntryNonces, OfTag
  <2> QED
    BY <2>5, <2>6
<1>13. \A i, j \in 1..Len(store') : store'[i].digest.nonce = store'[j].digest.nonce => i = j
  BY <1>1, SMTT(30) DEF NonceInv
<1>14. \A i \in 1..Len(sends') : /\ sends'[i] \in NonceIds /\ Known(sends[i])'
                                /\ ~InStore(sends[i])'
  <2> SUFFICES ASSUME NEW i \in 1..Len(sends)
               PROVE  sends[i] \in NonceIds /\ Known(sends[i])' /\ ~InStore(sends[i])'
    OBVIOUS
  <2>1. PICK t : t = sends[i]
    OBVIOUS
  <2>2. t \in NonceIds /\ Known(t) /\ ~InStore(t)
    BY <2>1 DEF NonceInv
  <2>3. Known(t)' /\ ~InStore(t)'
    BY <1>7, <2>1, <2>2, NonceFacts, KnownKept
  <2> QED
    BY <2>1, <2>2, <2>3 DEF Known, InStore
<1>15. \A q \in Requests : req'[q].pc = "send" =>
          /\ req'[q].nonce \in NonceIds /\ Known(req[q].nonce)'
          /\ ~InStore(req[q].nonce)' /\ ~Sent(req[q].nonce)'
  <2> SUFFICES ASSUME NEW q \in Requests, req'[q].pc = "send"
               PROVE  /\ req'[q].nonce \in NonceIds /\ Known(req[q].nonce)'
                      /\ ~InStore(req[q].nonce)' /\ ~Sent(req[q].nonce)'
    OBVIOUS
  <2>1. PICK t : t = req'[q].nonce
    OBVIOUS
  <2>2. t \in NonceIds /\ Known(t) /\ ~InStore(t)' /\ ~Sent(t)
    <3>1. CASE q = r
      <4>1. t = n
        BY <1>0, <1>9, <2>1, <3>1
      <4> QED
        BY <1>2, <1>5, <1>8, <1>11, <4>1
    <3>2. CASE q # r
      BY <1>7, <1>9, <2>1, <3>2 DEF NonceInv
    <3> QED
      BY <3>1, <3>2
  <2>3. t[1] \in Requests /\ t[2] \in Nat
    BY <2>2 DEF NonceIds
  <2>4. Known(t)' /\ ~Sent(t)'
    BY <2>2, <2>3, KnownKept DEF Sent
  <2> QED
    BY <2>1, <2>2, <2>4 DEF Known, InStore, Sent
<1>16. \A p, q \in Requests :
          req'[p].pc = "send" /\ req'[q].pc = "send" /\ req'[p].nonce = req'[q].nonce => p = q
  BY <1>0, <1>9, <1>10 DEF NonceInv
<1>17. \A q \in Requests : NonceOK(q, req[q])'
  BY <1>9 DEF NonceInv, NonceOK
<1>18. \A i, j \in 1..Len(sends') : sends'[i] = sends'[j] => i = j
  BY DEF NonceInv
<1> QED
  BY <1>12, <1>13, <1>14, <1>15, <1>16, <1>17, <1>18 DEF NonceInv

LEMMA ChutesChatStep ==
    ASSUME AdapterInv, NEW r \in Requests, ChutesChat(r) PROVE AdapterInv'
<1>1. /\ PeerInv /\ NonceInv /\ AdapterTypes /\ kind = "chutes" /\ req[r].pc = "chat"
      /\ req[r].digest \in DigestType /\ verdict \in DigestType
      /\ store \in Seq(EntryType) /\ \A i \in 1..Len(store) : Fits(store[i].digest, store[i].value)
      /\ sends \in Seq(NonceIds \cup {<<>>}) /\ cached \in Seq(CachedType) /\ Len(cached) <= 1
      /\ \A c \in 1..Len(cached) : cached[c].notAfter <= cached[c].token
  BY ReqFacts DEF AdapterInv, PeerInv, AdapterTypes, NoncesKept, ChutesChat, Ready
<1>2. PICK value \in Get(req[r].digest) :
        \/ Rotated(r)
        \/ /\ value.nonces # <<>>
           /\ Prepared(r, value, Head(value.nonces))
           /\ store' = PopNonce(req[r].digest, value)
           /\ UNCHANGED cached
  BY DEF ChutesChat
<1>3. CASE Rotated(r)
  <2>1. \E y \in ReqType : Quiet(r, y)
    BY <1>1, <1>3, QuietFails DEF Rotated
  <2> QED
    BY <2>1, QuietStep
<1>4. CASE /\ value.nonces # <<>>
           /\ Prepared(r, value, Head(value.nonces))
           /\ store' = PopNonce(req[r].digest, value)
           /\ UNCHANGED cached
  <2>1. PICK o \in 1..Len(store) : store[o].digest = req[r].digest /\ store[o].value = value
    BY <1>1, GetFacts
  <2>2. value \in ValueType
    BY <1>1, GetFacts
  <2>3. PICK n \in NonceIds : n = Head(value.nonces)
    BY <1>4, <2>2, HeadTailProperties DEF ValueType
  <2>4. PICK y \in ReqType :
          /\ req' = [req EXCEPT ![r] = y] /\ ReqOK(y)
          /\ y.pc = "send" /\ y.nonce = n /\ y.result # "ok" /\ Moves(req[r], y)
    BY <1>1, <1>4, <2>3, PreparedFields
  <2>5. /\ UNCHANGED <<kind, now, remote, sessions, sends, work>> /\ UNCHANGED verdict
    BY <1>4 DEF Prepared, world
  <2>6. /\ store[o].value.nonces # <<>> /\ store' = PopNonce(store[o].digest, value)
        /\ y.nonce = Head(store[o].value.nonces)
    BY <1>4, <2>1, <2>3, <2>4
  <2>7. NonceInv'
    BY <1>1, <2>4, <2>5, <2>6, PopNonces
  <2>8. /\ store' \in Seq(EntryType) /\ Len(store') = Len(store)
        /\ \A i \in 1..Len(store) :
              /\ store'[i].digest = store[i].digest
              /\ store'[i].value.identity = store[i].value.identity
              /\ store'[i].value.session = store[i].value.session
    BY <1>1, <2>6, PopShape
  <2>9. \A i \in 1..Len(store') : Fits(store'[i].digest, store'[i].value)
    BY <1>1, <2>8 DEF Fits, SessionKnown
  <2>10. PeerInv'
    BY <1>1, <1>4, <2>4, <2>5, <2>8, <2>9, PeerFrame
  <2> QED
    BY <1>1, <2>5, <2>7, <2>10 DEF AdapterInv, NoncesKept
<1> QED
  BY <1>2, <1>3, <1>4

\* A nonce that leaves was in flight for one request, which is past its send then.
LEMMA SendNonces ==
    ASSUME AdapterTypes, NonceInv, NEW r \in Requests, NEW y \in ReqType,
           req' = [req EXCEPT ![r] = y], req[r].pc = "send", Moves(req[r], y),
           y.pc \in {"fetch", "receipt", "done"},
           sends' = Append(sends, req[r].nonce), UNCHANGED store
    PROVE  NonceInv'
<1>0. PICK n : n = req[r].nonce
  OBVIOUS
<1>1. \A q \in Requests : req'[q] = IF q = r THEN y ELSE req[q]
  BY OneReq
<1>2. n \in NonceIds /\ Known(n) /\ ~InStore(n) /\ ~Sent(n)
  BY <1>0 DEF NonceInv
<1>3. sends \in Seq(NonceIds \cup {<<>>}) /\ n \in NonceIds \cup {<<>>}
  BY <1>2 DEF AdapterTypes
<1>4. /\ Len(sends') = Len(sends) + 1 /\ Len(sends) \in Nat
      /\ \A i \in 1..Len(sends) : sends'[i] = sends[i]
      /\ sends'[Len(sends) + 1] = n
  BY <1>0, <1>3, AppendProperties, LenProperties
<1>5. \A i \in 1..Len(sends') : i \in 1..Len(sends) \/ i = Len(sends) + 1
  BY <1>4
<1>6. \A t : (InStore(t)' <=> InStore(t)) /\ (Sent(t)' => Sent(t) \/ t = n)
  <2>1. \A t : InStore(t)' <=> InStore(t)
    BY DEF InStore
  <2>2. \A t : Sent(t)' => Sent(t) \/ t = n
    BY <1>4, <1>5 DEF Sent
  <2> QED
    BY <2>1, <2>2
<1>7. \A t \in NonceIds : Known(t) => Known(t)'
  <2>1. \A t \in NonceIds : t[1] \in Requests /\ t[2] \in Nat
    BY DEF NonceIds
  <2> QED
    BY <2>1, KnownKept
<1>8. \A i \in 1..Len(store') : EntryNonces(store[i])' /\ Known(store[i].digest.nonce)'
  <2>1. \A i \in 1..Len(store) : Known(store[i].digest.nonce)'
    BY NonceFacts, KnownKept
  <2> QED
    BY <2>1 DEF NonceInv, EntryNonces
<1>9. \A i \in 1..Len(sends') : /\ sends'[i] \in NonceIds /\ Known(sends[i])'
                                /\ ~InStore(sends[i])'
  <2> SUFFICES ASSUME NEW i \in 1..Len(sends')
               PROVE  sends'[i] \in NonceIds /\ Known(sends[i])' /\ ~InStore(sends[i])'
    OBVIOUS
  <2>1. PICK t : t = sends'[i]
    OBVIOUS
  <2>2. t \in NonceIds /\ Known(t) /\ ~InStore(t)
    <3>1. CASE i \in 1..Len(sends)
      BY <1>4, <2>1, <3>1 DEF NonceInv
    <3>2. CASE i = Len(sends) + 1
      BY <1>2, <1>4, <2>1, <3>2
    <3> QED
      BY <1>5, <3>1, <3>2
  <2>3. Known(t)' /\ ~InStore(t)'
    BY <1>6, <1>7, <2>2
  <2> QED
    BY <2>1, <2>2, <2>3 DEF Known, InStore
<1>10. \A i, j \in 1..Len(sends') : sends'[i] = sends'[j] => i = j
  <2>1. \A i \in 1..Len(sends) : sends[i] # n
    BY <1>2 DEF Sent
  <2> QED
    BY <1>4, <1>5, <2>1 DEF NonceInv
<1>11. \A q \in Requests : req'[q].pc = "send" =>
          /\ req'[q].nonce \in NonceIds /\ Known(req[q].nonce)'
          /\ ~InStore(req[q].nonce)' /\ ~Sent(req[q].nonce)'
  <2> SUFFICES ASSUME NEW q \in Requests, req'[q].pc = "send"
               PROVE  /\ req'[q].nonce \in NonceIds /\ Known(req[q].nonce)'
                      /\ ~InStore(req[q].nonce)' /\ ~Sent(req[q].nonce)'
    OBVIOUS
  <2>1. q # r /\ req'[q] = req[q] /\ req[q].pc = "send"
    BY <1>1
  <2>2. PICK t : t = req[q].nonce
    OBVIOUS
  <2>3. t \in NonceIds /\ Known(t) /\ ~InStore(t) /\ ~Sent(t) /\ t # n
    BY <1>0, <2>1, <2>2 DEF NonceInv
  <2>4. Known(t)' /\ ~InStore(t)' /\ ~Sent(t)'
    BY <1>6, <1>7, <2>3
  <2> QED
    BY <2>1, <2>2, <2>3, <2>4 DEF Known, InStore, Sent
<1>12. \A p, q \in Requests :
          req'[p].pc = "send" /\ req'[q].pc = "send" /\ req'[p].nonce = req'[q].nonce => p = q
  BY <1>1 DEF NonceInv
<1>13. \A q \in Requests : NonceOK(q, req[q])'
  BY <1>1 DEF NonceInv, NonceOK
<1>14. \A i, j \in 1..Len(store') : store'[i].digest.nonce = store'[j].digest.nonce => i = j
  BY DEF NonceInv
<1> QED
  BY <1>8, <1>9, <1>10, <1>11, <1>12, <1>13, <1>14 DEF NonceInv

\* Sending, for every adapter: the nonce leaves if there is one.
LEMMA SendKeepsNonces ==
    ASSUME AdapterInv, NEW r \in Requests, NEW y \in ReqType,
           req' = [req EXCEPT ![r] = y], req[r].pc = "send", Moves(req[r], y),
           y.pc \in {"fetch", "receipt", "done"}, UNCHANGED <<kind, store>>,
           sends' = IF kind = "chutes" THEN Append(sends, req[r].nonce) ELSE sends
    PROVE  NoncesKept' /\ sends' \in Seq(NonceIds \cup {<<>>})
<1>1. AdapterTypes /\ NoncesKept /\ sends \in Seq(NonceIds \cup {<<>>})
      /\ req[r].nonce \in NonceIds \cup {<<>>}
  BY DEF AdapterInv, PeerInv, AdapterTypes, ReqType
<1>2. CASE kind = "chutes"
  <2>1. NonceInv'
    BY <1>1, <1>2, SendNonces DEF NoncesKept
  <2>2. sends' = Append(sends, req[r].nonce)
    BY <1>2
  <2>3. sends' \in Seq(NonceIds \cup {<<>>})
    BY <1>1, <2>2, AppendProperties
  <2> QED
    BY <1>2, <2>1, <2>3 DEF NoncesKept
<1>3. CASE kind # "chutes"
  BY <1>1, <1>3 DEF NoncesKept
<1> QED
  BY <1>2, <1>3

\* The request does not reach the provider it was prepared for, or is refused before
\* any work.
LEMMA NotExecutedStep ==
    ASSUME AdapterInv, NEW r \in Requests,
           SendToOther(r) \/ RefuseSession(r) \/ SendFails(r)
    PROVE  AdapterInv'
<1>1. /\ PeerInv /\ AdapterTypes /\ req[r] \in ReqType /\ ReqOK(req[r]) /\ verdict \in DigestType
      /\ req[r].pc = "send"
      /\ UNCHANGED <<world, now, store, cached, verdict, work>>
      /\ sends' = IF kind = "chutes" THEN Append(sends, req[r].nonce) ELSE sends
      /\ store \in Seq(EntryType) /\ \A i \in 1..Len(store) : Fits(store[i].digest, store[i].value)
      /\ cached \in Seq(CachedType) /\ Len(cached) <= 1
      /\ \A c \in 1..Len(cached) : cached[c].notAfter <= cached[c].token
  BY ReqFacts DEF AdapterInv, PeerInv, AdapterTypes, SendToOther, RefuseSession, SendFails
<1>2. \/ \E e \in {"KeyRotation", "Http"} : ChatFails(r, e)
      \/ Done(r, "HttpStatus")
  BY DEF SendToOther, RefuseSession, SendFails, MapSendError
<1>3. PICK y \in ReqType : /\ req' = [req EXCEPT ![r] = y] /\ ReqOK(y) /\ y.result # "ok"
                           /\ \/ y.pc = "done"
                              \/ y.pc = "fetch" /\ y.refreshes = req[r].refreshes + 1
  BY <1>1, <1>2, ChatFailsFields, DoneFields
<1>4. Moves(req[r], y)
  BY <1>3 DEF Moves
<1>5. NoncesKept' /\ sends' \in Seq(NonceIds \cup {<<>>})
  BY <1>1, <1>3, <1>4, SendKeepsNonces DEF world
<1>6. PeerInv'
  BY <1>1, <1>3, <1>5, PeerFrame DEF world
<1> QED
  BY <1>5, <1>6 DEF AdapterInv

-----------------------------------------------------------------------------
(* Adapters: executing *)

\* The receipt of a request is of the one time it was executed.
LEMMA OneReceipt ==
    ASSUME PeerInv, NEW i \in 1..Len(work), NEW r, work[i].request = r
    PROVE  Receipt(r) = work[i]
<1>1. work \in Seq(WorkType) /\ DOMAIN work = 1..Len(work) /\ Len(work) \in Nat
  BY LenProperties DEF PeerInv, AdapterTypes
<1>2. \A j \in 1..Len(work) : work[j].request = r => j = i
  BY DEF PeerInv, WorkOnce
<1>3. {j \in DOMAIN work : work[j].request = r} = {i}
  BY <1>1, <1>2
<1>4. (CHOOSE k \in {i} : \A j \in {i} : j <= k) = i
  BY <1>1
<1> QED
  BY <1>3, <1>4 DEF Receipt

LEMMA ExecuteStep ==
    ASSUME AdapterInv, NEW r \in Requests, Execute(r) PROVE AdapterInv'
<1>1. /\ PeerInv /\ AdapterTypes /\ req[r] \in ReqType /\ ReqOK(req[r])
      /\ req[r].digest \in DigestType /\ remote.identity \in Nat /\ now \in Nat
      /\ req[r].pc = "send" /\ remote.identity = req[r].value.identity
      /\ UNCHANGED <<world, now, store, cached, verdict>>
      /\ sends' = IF kind = "chutes" THEN Append(sends, req[r].nonce) ELSE sends
      /\ Fits(req[r].digest, req[r].value)
  BY ReqFacts DEF AdapterInv, Execute, ReqOK
<1>2. PICK y \in ReqType :
        /\ req' = [req EXCEPT ![r] = y] /\ ReqOK(y) /\ Moves(req[r], y)
        /\ y.pc \in {"receipt", "done"}
        /\ y.pc = "receipt" => kind = "redpill" /\ y.digest = req[r].digest /\ y.result # "ok"
        /\ kind = "redpill" => y.result # "ok"
  <2>1. CASE kind = "redpill" /\ req' = [req EXCEPT ![r].pc = "receipt"]
    <3> DEFINE y == [req[r] EXCEPT !.pc = "receipt"]
    <3>1. req' = [req EXCEPT ![r] = y]
      BY <2>1
    <3>2. /\ y \in ReqType /\ y.pc = "receipt" /\ y.digest = req[r].digest
          /\ y.value = req[r].value /\ y.result = req[r].result /\ y.refreshes = req[r].refreshes
      BY <1>1 DEF ReqType
    <3> HIDE DEF y
    <3>3. ReqOK(y) /\ y.result # "ok"
      BY <1>1, <2>1, <3>2 DEF ReqOK, None
    <3>4. Moves(req[r], y)
      BY <3>2 DEF Moves, Late
    <3> QED
      BY <2>1, <3>1, <3>2, <3>3, <3>4
  <2>2. CASE kind # "redpill" /\ Done(r, "ok")
    <3>1. PICK y \in ReqType : /\ req' = [req EXCEPT ![r] = y]
                               /\ y.pc = "done" /\ ReqOK(y)
      BY <1>1, <2>2, DoneFields
    <3>2. Moves(req[r], y)
      BY <3>1 DEF Moves
    <3> QED
      BY <2>2, <3>1, <3>2
  <2>3. CASE ChatFails(r, "Http")
    <3>1. PICK y \in ReqType : /\ req' = [req EXCEPT ![r] = y] /\ y.result # "ok"
                               /\ y.pc = "done" /\ ReqOK(y)
      BY <1>1, <2>3, ChatFailsFields
    <3>2. Moves(req[r], y)
      BY <3>1 DEF Moves
    <3> QED
      BY <3>1, <3>2
  <2> QED
    BY <2>1, <2>2, <2>3 DEF Execute, MapSendError
<1>3. NoncesKept' /\ sends' \in Seq(NonceIds \cup {<<>>})
  BY <1>1, <1>2, SendKeepsNonces DEF world
<1>4. /\ req' \in [Requests -> ReqType]
      /\ \A q \in Requests : req'[q] = IF q = r THEN y ELSE req[q]
  BY <1>1, <1>2, OneReq
<1>5. sessions \in Seq(SessionType)
  BY <1>1 DEF AdapterTypes
<1>6. PICK w \in WorkType :
        /\ work' = Append(work, w)
        /\ w.request = r /\ w.digest = req[r].digest /\ w.identity = remote.identity
  <2>1. PICK session \in (IF kind = "redpill" THEN DOMAIN sessions ELSE {0}) : Executed(r, session)
    BY DEF Execute
  <2>2. session \in Nat
    BY <1>5, <2>1
  <2>3. [request |-> r, digest |-> req[r].digest, identity |-> remote.identity,
         session |-> session, at |-> now] \in WorkType
    BY <1>1, <2>2 DEF WorkType
  <2> QED
    BY <2>1, <2>3 DEF Executed
<1>7. /\ work \in Seq(WorkType) /\ work' \in Seq(WorkType)
      /\ Len(work') = Len(work) + 1 /\ Len(work) \in Nat
      /\ \A i \in 1..Len(work) : work'[i] = work[i]
      /\ work'[Len(work) + 1] = w
  <2>1. work \in Seq(WorkType)
    BY <1>1 DEF AdapterTypes
  <2> QED
    BY <1>6, <2>1, AppendProperties, LenProperties
<1>8. \A i \in 1..Len(work') : i \in 1..Len(work) \/ i = Len(work) + 1
  BY <1>7
<1>a. Len(work) + 1 \in 1..Len(work') /\ 1..Len(work) \subseteq 1..Len(work')
  BY <1>7
<1>9. \A i \in 1..Len(work) : work[i].request \in Requests \ {r}
  <2>1. \A i \in 1..Len(work) : work[i] \in WorkType
    BY <1>7, ElementOfSeq
  <2>2. \A i \in 1..Len(work) : work[i].request \in Requests
    BY <2>1 DEF WorkType
  <2>3. \A i \in 1..Len(work) : req[work[i].request].pc \in {"receipt", "done"}
    BY <1>1 DEF PeerInv, WorkOnce
  <2> QED
    BY <1>1, <2>2, <2>3
<1>10. WorkOnce'
  <2>1. \A i \in 1..Len(work') : /\ work'[i].digest.identity = work'[i].identity
                                 /\ req'[work'[i].request].pc \in {"receipt", "done"}
    <3> SUFFICES ASSUME NEW i \in 1..Len(work')
                 PROVE  /\ work'[i].digest.identity = work'[i].identity
                        /\ req'[work'[i].request].pc \in {"receipt", "done"}
      OBVIOUS
    <3>1. CASE i \in 1..Len(work)
      BY <1>1, <1>4, <1>7, <1>9, <3>1 DEF PeerInv, WorkOnce
    <3>2. CASE i = Len(work) + 1
      BY <1>1, <1>2, <1>4, <1>6, <1>7, <3>2 DEF Fits
    <3> QED
      BY <1>8, <3>1, <3>2
  <2>2. \A i, j \in 1..Len(work') : work'[i].request = work'[j].request => i = j
    <3>1. \A i, j \in 1..Len(work) : work[i].request = work[j].request => i = j
      BY <1>1 DEF PeerInv, WorkOnce
    <3> QED
      BY <1>6, <1>7, <1>8, <1>9, <3>1
  <2> QED
    BY <2>1, <2>2 DEF WorkOnce
<1>11. \A i \in 1..Len(work) : ServedBy(i) => ServedBy(i)'
  BY <1>1, <1>7 DEF ServedBy, world
<1>12. \A q \in Requests : WorkKnown(q)'
  <2> SUFFICES ASSUME NEW q \in Requests PROVE WorkKnown(q)'
    OBVIOUS
  <2>1. WorkKnown(q)
    BY <1>1 DEF PeerInv
  <2>2. CASE q = r
    BY <1>1, <1>2, <1>4, <1>6, <1>7, <1>a, <2>2 DEF WorkKnown, world
  <2>3. CASE q # r
    BY <1>1, <1>4, <1>7, <1>11, <1>a, <2>1, <2>3 DEF WorkKnown, world
  <2> QED
    BY <2>2, <2>3
<1>13. AdapterTypes'
  BY <1>1, <1>3, <1>4, <1>7 DEF AdapterTypes, world
<1>14. \A q \in Requests : ReqOK(req[q])'
  BY <1>1, <1>2, <1>4 DEF PeerInv, ReqOK, Fits, SessionKnown, world
<1>15. SessionsInOrder'
  BY <1>1 DEF PeerInv, SessionsInOrder, world
<1>16. /\ \A i \in 1..Len(store') : Fits(store[i].digest, store[i].value)'
       /\ Len(cached') <= 1 /\ \A c \in 1..Len(cached') : cached'[c].notAfter <= cached'[c].token
  BY <1>1 DEF PeerInv, Fits, SessionKnown, world
<1>17. PeerInv'
  BY <1>10, <1>12, <1>13, <1>14, <1>15, <1>16 DEF PeerInv
<1> QED
  BY <1>3, <1>17 DEF AdapterInv

\* The receipt decides whether the caller gets the answer.
LEMMA FetchReceiptStep ==
    ASSUME AdapterInv, NEW r \in Requests, FetchReceipt(r) PROVE AdapterInv'
<1>1. /\ PeerInv /\ NoncesKept /\ AdapterTypes /\ req[r] \in ReqType /\ ReqOK(req[r])
      /\ verdict \in DigestType /\ kind = "redpill"
      /\ req[r].pc = "receipt" /\ Fits(req[r].digest, req[r].value)
      /\ UNCHANGED <<world, now, store, cached, verdict, sends, work>>
      /\ store \in Seq(EntryType) /\ \A i \in 1..Len(store) : Fits(store[i].digest, store[i].value)
      /\ sends \in Seq(NonceIds \cup {<<>>}) /\ cached \in Seq(CachedType) /\ Len(cached) <= 1
      /\ \A c \in 1..Len(cached) : cached[c].notAfter <= cached[c].token
  BY ReqFacts DEF AdapterInv, PeerInv, AdapterTypes, FetchReceipt, ReqOK
<1>2. PICK y \in ReqType :
        /\ req' = [req EXCEPT ![r] = y] /\ ReqOK(y) /\ y.pc = "done"
        /\ y.result = "ok" => VerifyReceipt(Receipt(r), req[r].value)
  <2>1. CASE ChatFails(r, "Adapter")
    <3>1. PICK y \in ReqType : /\ req' = [req EXCEPT ![r] = y] /\ y.result # "ok"
                               /\ y.pc = "done" /\ ReqOK(y)
      BY <1>1, <2>1, ChatFailsFields
    <3> QED
      BY <3>1
  <2>2. CASE Done(r, "ok") /\ VerifyReceipt(Receipt(r), req[r].value)
    BY <1>1, <2>2, DoneFields
  <2>3. CASE Done(r, "Adapter")
    <3>1. PICK y \in ReqType : /\ req' = [req EXCEPT ![r] = y]
                               /\ y.pc = "done" /\ y.result = "Adapter" /\ ReqOK(y)
      BY <1>1, <2>3, DoneFields
    <3> QED
      BY <3>1
  <2> QED
    BY <2>1, <2>2, <2>3 DEF FetchReceipt
<1>3. PICK i \in 1..Len(work) : work[i].request = r /\ work[i].digest = req[r].digest
  BY <1>1 DEF PeerInv, WorkKnown
<1>4. Receipt(r) = work[i]
  BY <1>1, <1>3, OneReceipt
<1>5. y.result = "ok" => ServedBy(i)
  BY <1>1, <1>2, <1>3, <1>4 DEF VerifyReceipt, ServedBy, Fits, SessionKnown
<1>6. PeerInv'
  BY <1>1, <1>2, <1>3, <1>5, PeerFrame DEF world
<1>7. NoncesKept'
  BY <1>1 DEF NoncesKept, world
<1> QED
  BY <1>6, <1>7 DEF AdapterInv

-----------------------------------------------------------------------------
(* Adapters: the provider, the clock, and the theorems *)

\* Nothing a request holds is disturbed when the provider changes or time passes.
LEMMA WorldStep ==
    ASSUME AdapterInv, RotateIdentity \/ EstablishSession \/ Tick PROVE AdapterInv'
<1>1. /\ PeerInv /\ NoncesKept /\ AdapterTypes /\ now \in Nat /\ SessionLife \in Nat
      /\ sessions \in Seq(SessionType) /\ Len(sessions) \in Nat /\ SessionsInOrder
      /\ UNCHANGED <<kind, store, cached, verdict, req, sends, work>>
  BY AdapterBounds, LenProperties
    DEF AdapterInv, PeerInv, AdapterTypes, RotateIdentity, EstablishSession, Tick, world
<1>2. /\ now' \in Nat /\ now <= now'
      /\ remote' \in [identity : Nat, keyUntil : Nat]
      /\ sessions' = sessions \/ /\ now' = now
                                 /\ sessions' = Append(sessions, [est |-> now, exp |-> now + SessionLife])
  <2>1. remote \in [identity : Nat, keyUntil : Nat]
    BY <1>1 DEF AdapterTypes
  <2>2. CASE RotateIdentity
    BY <1>1, <2>1, <2>2 DEF RotateIdentity
  <2>3. CASE EstablishSession
    BY <1>1, <2>1, <2>3 DEF EstablishSession
  <2>4. CASE Tick
    BY <1>1, <2>1, <2>4 DEF Tick, world
  <2> QED
    BY <2>2, <2>3, <2>4
<1>3. /\ sessions' \in Seq(SessionType) /\ Len(sessions) <= Len(sessions') /\ Len(sessions') \in Nat
      /\ \A i \in 1..Len(sessions) : i \in 1..Len(sessions') /\ sessions'[i] = sessions[i]
      /\ SessionsInOrder'
  <2>1. CASE sessions' = sessions
    <3>1. \A i \in 1..Len(sessions) : sessions[i].est \in Nat
      <4>1. \A i \in 1..Len(sessions) : sessions[i] \in SessionType
        BY <1>1, ElementOfSeq
      <4> QED
        BY <4>1 DEF SessionType
    <3> QED
      BY <1>1, <1>2, <2>1, <3>1 DEF SessionsInOrder
  <2>2. CASE now' = now /\ sessions' = Append(sessions, [est |-> now, exp |-> now + SessionLife])
    <3> DEFINE s == [est |-> now, exp |-> now + SessionLife]
    <3>1. s \in SessionType /\ s.est = now /\ s.exp = now + SessionLife
      BY <1>1 DEF SessionType
    <3>2. sessions' = Append(sessions, s)
      BY <2>2
    <3> HIDE DEF s
    <3>3. /\ sessions' \in Seq(SessionType) /\ Len(sessions') = Len(sessions) + 1
          /\ \A i \in 1..Len(sessions) : sessions'[i] = sessions[i]
          /\ sessions'[Len(sessions) + 1] = s
      BY <1>1, <3>1, <3>2, AppendProperties
    <3>4. \A i \in 1..Len(sessions') : i \in 1..Len(sessions) \/ i = Len(sessions) + 1
      BY <1>1, <3>3
    <3>5. \A i \in 1..Len(sessions) : i \in 1..Len(sessions')
      BY <1>1, <3>3
    <3>6. \A i \in 1..Len(sessions') :
             sessions'[i].est <= now' /\ sessions'[i].exp = sessions'[i].est + SessionLife
      BY <1>1, <2>2, <3>1, <3>3, <3>4 DEF SessionsInOrder
    <3>7. \A i, j \in 1..Len(sessions') : i <= j => sessions'[i].est <= sessions'[j].est
      <4> SUFFICES ASSUME NEW i \in 1..Len(sessions'), NEW j \in 1..Len(sessions'), i <= j
                   PROVE  sessions'[i].est <= sessions'[j].est
        OBVIOUS
      <4>1. CASE j = Len(sessions) + 1
        BY <2>2, <3>1, <3>3, <3>6, <4>1
      <4>2. CASE j \in 1..Len(sessions)
        <5>1. i \in 1..Len(sessions)
          BY <1>1, <4>2
        <5> QED
          BY <1>1, <3>3, <4>2, <5>1 DEF SessionsInOrder
      <4> QED
        BY <3>4, <4>1, <4>2
    <3> QED
      BY <1>1, <3>3, <3>5, <3>6, <3>7, SMTT(30) DEF SessionsInOrder
  <2> QED
    BY <1>2, <2>1, <2>2
<1>4. AdapterTypes'
  BY <1>1, <1>2, <1>3 DEF AdapterTypes
<1>5. \A value : SessionKnown(value) => SessionKnown(value)'
  BY <1>1, <1>3 DEF SessionKnown
<1>6. \A digest, value : Fits(digest, value) => Fits(digest, value)'
  BY <1>5 DEF Fits
<1>7. \A q \in Requests : ReqOK(req[q])'
  <2> SUFFICES ASSUME NEW q \in Requests PROVE ReqOK(req[q])'
    OBVIOUS
  <2>1. PICK x : x = req[q]
    OBVIOUS
  <2>2. ReqOK(x) /\ x \in ReqType
    BY <1>1, <2>1 DEF PeerInv, AdapterTypes
  <2>3. x.value \in ValueType /\ x.value.at \in Nat
    BY <2>2 DEF ReqType, ValueType
  <2>4. x.value.at <= now => x.value.at <= now'
    BY <1>1, <1>2, <2>3
  <2>5. ReqOK(x)'
    BY <1>1, <1>5, <1>6, <2>2, <2>4 DEF ReqOK
  <2> QED
    BY <1>1, <2>1, <2>5 DEF ReqOK, Fits, SessionKnown
<1>8. \A i \in 1..Len(store') : Fits(store[i].digest, store[i].value)'
  <2> SUFFICES ASSUME NEW i \in 1..Len(store) PROVE Fits(store[i].digest, store[i].value)'
    BY <1>1
  <2>1. PICK e : e = store[i]
    OBVIOUS
  <2>2. Fits(e.digest, e.value)'
    BY <1>1, <1>6, <2>1 DEF PeerInv
  <2> QED
    BY <1>1, <2>1, <2>2 DEF Fits, SessionKnown
<1>9. WorkOnce'
  BY <1>1 DEF PeerInv, WorkOnce
<1>10. \A i \in 1..Len(work) : ServedBy(i) => ServedBy(i)'
  BY <1>1, <1>3 DEF ServedBy
<1>11. \A q \in Requests : WorkKnown(q)'
  BY <1>1, <1>10 DEF PeerInv, WorkKnown
<1>12. PeerInv'
  BY <1>1, <1>3, <1>4, <1>7, <1>8, <1>9, <1>11 DEF PeerInv
<1>13. NoncesKept'
  <2>1. store' = store /\ sends' = sends /\ req' = req
    BY <1>1
  <2>2. \A n : Known(n)' <=> Known(n)
    BY <2>1 DEF Known
  <2>3. \A n : InStore(n)' <=> InStore(n)
    BY <2>1 DEF InStore
  <2>4. \A n : Sent(n)' <=> Sent(n)
    BY <2>1 DEF Sent
  <2>5. NonceInv => NonceInv'
    BY <2>1, <2>2, <2>3, <2>4 DEF NonceInv
  <2> QED
    BY <1>1, <2>5 DEF NoncesKept
<1> QED
  BY <1>12, <1>13 DEF AdapterInv

\* The inductive invariant of the adapters.
LEMMA AdapterInvHolds == AdapterSpec => []AdapterInv
<1>1. AdapterInit => AdapterInv
  <2> SUFFICES ASSUME AdapterInit PROVE AdapterInv
    OBVIOUS
  <2>0. SessionLife \in Nat
    BY AdapterBounds
  <2>1. ReqOK(Idle) /\ Idle.result # "ok"
    BY IdleFields DEF ReqOK, None
  <2>2. /\ req \in [Requests -> ReqType] /\ \A r \in Requests : req[r] = Idle
    BY IdleFields DEF AdapterInit
  <2>3. /\ store = <<>> /\ cached = <<>> /\ sends = <<>> /\ work = <<>>
        /\ store \in Seq(EntryType) /\ cached \in Seq(CachedType)
        /\ sends \in Seq(NonceIds \cup {<<>>}) /\ work \in Seq(WorkType)
        /\ Len(store) = 0 /\ Len(cached) = 0 /\ Len(sends) = 0 /\ Len(work) = 0
    BY EmptySeq DEF AdapterInit
  <2>4. /\ sessions \in Seq(SessionType) /\ SessionsInOrder
    <3> DEFINE s == [est |-> 0, exp |-> SessionLife]
    <3>1. s \in SessionType /\ s.est = 0 /\ s.exp = SessionLife
      BY <2>0 DEF SessionType
    <3>2. sessions = <<s>> /\ now = 0
      BY DEF AdapterInit
    <3> HIDE DEF s
    <3>3. sessions \in Seq(SessionType) /\ Len(sessions) = 1 /\ sessions[1] = s
      BY <3>1, <3>2
    <3> QED
      BY <2>0, <3>1, <3>2, <3>3 DEF SessionsInOrder
  <2>5. AdapterTypes
    <3>1. remote \in [identity : Nat, keyUntil : Nat]
      BY <2>0 DEF AdapterInit
    <3> QED
      BY <2>2, <2>3, <2>4, <3>1, IdleFields DEF AdapterInit, AdapterTypes
  <2>6. PeerInv
    BY <2>1, <2>2, <2>3, <2>4, <2>5, IdleFields DEF PeerInv, WorkOnce, WorkKnown
  <2>7. NonceInv
    BY <2>2, <2>3, IdleFields DEF NonceInv, NonceOK
  <2> QED
    BY <2>3, <2>6, <2>7 DEF AdapterInv, NoncesKept
<1>2. AdapterInv /\ [AdapterNext]_adapterVars => AdapterInv'
  <2> SUFFICES ASSUME AdapterInv, [AdapterNext]_adapterVars PROVE AdapterInv'
    OBVIOUS
  <2>1. ASSUME NEW r \in Requests, RequestStep(r) PROVE AdapterInv'
    <3>0. PeerInv /\ verdict \in DigestType
      BY DEF AdapterInv, PeerInv, AdapterTypes
    <3>1. ASSUME \E y \in ReqType : Quiet(r, y) PROVE AdapterInv'
      BY <3>1, QuietStep
    <3>2. CASE FetchFails(r)
      <4>1. /\ Done(r, "NotSent") /\ req[r].pc \notin {"send", "receipt", "done"}
            /\ UNCHANGED <<world, now, store, cached, sends, work>> /\ verdict' \in DigestType
        BY <3>0, <3>2 DEF FetchFails
      <4> QED
        BY <3>0, <3>1, <4>1, QuietDone
    <3>3. CASE StateMissing(r)
      <4>1. /\ ChatFails(r, "KeyRotation") /\ req[r].pc \notin {"send", "receipt", "done"}
            /\ UNCHANGED <<world, now, store, cached, verdict, sends, work>>
        BY <3>3 DEF StateMissing
      <4> QED
        BY <3>0, <3>1, <4>1, QuietFails
    <3>4. CASE \/ Begin(r) \/ TinfoilReport(r) \/ NearReport(r) \/ PpqBundle(r)
               \/ DiscoverInstance(r) \/ RedpillReport(r) \/ FetchInstanceEvidence(r)
               \/ ListSessions(r) \/ FetchSession(r) \/ Verify(r)
      BY <3>0, <3>1, <3>4, BeginQuiet, ReportsQuiet, InstanceEvidenceQuiet, ListSessionsQuiet,
         FetchSessionQuiet, VerifyQuiet
    <3>5. CASE \/ Capture(r) \/ TinfoilChat(r) \/ TinfoilEmbeddings(r) \/ TinfoilChatStream(r)
               \/ NearChat(r) \/ PpqChat(r) \/ ChutesChat(r) \/ RedpillChat(r)
      BY <3>5, CaptureStep, PinnedChatStep, ChutesChatStep, RedpillChatStep
    <3>6. CASE SendToOther(r) \/ RefuseSession(r) \/ Execute(r) \/ SendFails(r) \/ FetchReceipt(r)
      BY <3>6, NotExecutedStep, ExecuteStep, FetchReceiptStep
    <3> QED
      BY <2>1, <3>2, <3>3, <3>4, <3>5, <3>6 DEF RequestStep
  <2>2. CASE UNCHANGED adapterVars
    <3>1. PeerInv'
      BY <2>2 DEF AdapterInv, adapterVars, PeerInv, AdapterTypes, ReqOK, Fits, SessionKnown,
                  SessionsInOrder, WorkOnce, WorkKnown, ServedBy
    <3>2. NoncesKept'
      BY <2>2 DEF AdapterInv, adapterVars, NoncesKept, NonceInv, EntryNonces, Known, Past,
                  InStore, Sent, NonceOK
    <3> QED
      BY <3>1, <3>2 DEF AdapterInv
  <2> QED
    BY <2>1, <2>2, WorldStep DEF AdapterNext, SomeRequestStep
<1> QED
  BY <1>1, <1>2, PTL DEF AdapterSpec

\* Whatever the provider executes, it executes under the identity the request's own
\* verdict is about, and RedPill's answers come from the session that was verified: for
\* any number of requests, entries, rotations and sessions.
THEOREM PeersStayVerified == AdapterSpec => []VerifiedPeerOnly
<1>1. AdapterInv => VerifiedPeerOnly
  <2> SUFFICES ASSUME AdapterInv PROVE VerifiedPeerOnly
    OBVIOUS
  <2>0. PeerInv /\ work \in Seq(WorkType) /\ DOMAIN work = 1..Len(work)
    BY LenProperties DEF AdapterInv, PeerInv, AdapterTypes
  <2>1. WorkUnderVerifiedIdentity
    BY <2>0 DEF PeerInv, WorkOnce, WorkUnderVerifiedIdentity
  <2>2. ASSUME NEW r \in Requests, kind = "redpill" /\ req[r].result = "ok"
        PROVE  /\ Receipt(r).digest.session = Receipt(r).session
               /\ sessions[Receipt(r).session].est <= Receipt(r).at
               /\ Receipt(r).at < sessions[Receipt(r).session].exp
    <3>1. PICK i \in 1..Len(work) : work[i].request = r /\ ServedBy(i)
      BY <2>0, <2>2 DEF PeerInv, WorkKnown
    <3>2. Receipt(r) = work[i]
      BY <2>0, <3>1, OneReceipt
    <3> QED
      BY <3>1, <3>2 DEF ServedBy
  <2>3. AnswerFromVerifiedSession
    BY <2>2 DEF AnswerFromVerifiedSession
  <2> QED
    BY <2>1, <2>3 DEF VerifiedPeerOnly
<1> QED
  BY <1>1, AdapterInvHolds, PTL

\* No request is executed a second time and no one-use nonce leaves a second time,
\* through refreshes, evictions, lost answers and concurrent chats on one evidence.
THEOREM NothingGoesTwice == AdapterSpec => []NothingTwice
<1>1. AdapterInv => NothingTwice
  <2> SUFFICES ASSUME AdapterInv PROVE NothingTwice
    OBVIOUS
  <2>1. /\ DOMAIN work = 1..Len(work) /\ DOMAIN sends = 1..Len(sends)
    BY LenProperties DEF AdapterInv, PeerInv, AdapterTypes
  <2>2. WorkedAtMostOnce
    BY <2>1 DEF AdapterInv, PeerInv, WorkOnce, WorkedAtMostOnce
  <2>3. NonceSentOnce
    <3>1. CASE kind = "chutes"
      BY <2>1, <3>1 DEF AdapterInv, NoncesKept, NonceInv, NonceSentOnce
    <3>2. CASE kind # "chutes"
      BY <2>1, <3>2 DEF AdapterInv, NoncesKept, NonceSentOnce
    <3> QED
      BY <3>1, <3>2
  <2> QED
    BY <2>2, <2>3 DEF NothingTwice
<1> QED
  BY <1>1, AdapterInvHolds, PTL

\* RedPill: a capture made from a cached session carries a token that was alive when the
\* gateway listed the session.
THEOREM TokensStayAlive == AdapterSpec => []NoStaleToken
<1>1. AdapterInv => NoStaleToken
  BY DEF AdapterInv, PeerInv, ReqOK, NoStaleToken
<1> QED
  BY <1>1, AdapterInvHolds, PTL

\* What is cached to save a fetch is not used past its time and is not lost early, with
\* the adapters and the key caches running side by side.
THEOREM CachedKeysStayCurrent == AdapterSpec /\ KeySpec => CachedKeysCurrent
<1>1. AdapterSpec /\ KeySpec => [](JwksAgeBounded /\ NoStaleToken)
  BY JwksStayCurrent, TokensStayAlive, PTL
<1>2. AdapterSpec /\ KeySpec => FoundCertStays
  BY FoundCertsStay
<1> QED
  BY <1>1, <1>2 DEF CachedKeysCurrent
=============================================================================
