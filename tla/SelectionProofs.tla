-------------------------- MODULE SelectionProofs --------------------------
(***************************************************************************)
(* Proofs about the signed registry and the selection of routes, for every *)
(* set of registries and builder configurations: however long the chain of *)
(* accepted updates, nothing the first registry promised is lost           *)
(* (UpdatesAreSafe), and what the model list offers is what a request gets *)
(* and what must be encrypted never leaves in the clear (SelectionSound).  *)
(*                                                                         *)
(* Each update is compared only with its predecessor, so the inductive     *)
(* invariant of the chain (ChainInv) needs that what verify_update_to      *)
(* compares composes: the ranks of NotWeakenedBy and, above all, the       *)
(* version order, whose runs are compared as numbers or as bytes according *)
(* to what they meet.  The invariant of the client (ClientInv) says that   *)
(* it is what some configuration builds from the registry in force.  The   *)
(* rest is about lists: filters, stable sorts and concatenations, whose    *)
(* laws are proved first by an induction in which the claim is a set.      *)
(*                                                                         *)
(* The last part is about a streamed answer: an error is the last thing    *)
(* that next() returns, whatever the body (ErrorsEnd).                     *)
(***************************************************************************)
EXTENDS Selection, Streams, SequenceTheorems, FiniteSetTheorems, WellFoundedInduction, TLAPS

-----------------------------------------------------------------------------
(* Induction over sets: the goal is a set of numbers or of sequences.       *)

\* Induction on numbers, the claim being membership in a set.
LEMMA NatInductive ==
    ASSUME NEW P, 0 \in P, \A n \in Nat : n \in P => n + 1 \in P
    PROVE  Nat \subseteq P
<1> DEFINE R == {ss \in Nat \X Nat : ss[1] < ss[2]}
           Bad == {n \in Nat : n \notin P}
<1>1. IsWellFoundedOn(R, Nat)
  BY NatLessThanWellFounded DEF OpToRel
<1> HIDE DEF R
<1>2. SUFFICES ASSUME Bad # {} PROVE FALSE
  OBVIOUS
<1>3. Bad \subseteq Nat
  OBVIOUS
<1> HIDE DEF Bad
<1>4. \E x \in Bad : \A y \in Bad : ~(<<y, x>> \in R)
  BY <1>1, <1>2, <1>3, WFMin
<1>5. PICK x \in Bad : \A y \in Bad : ~(<<y, x>> \in R)
  BY <1>4
<1>6. x \in Nat /\ x # 0 /\ x - 1 \in Nat /\ x - 1 < x
  BY <1>5 DEF Bad
<1>7. x - 1 \notin Bad
  BY <1>5, <1>6 DEF R, Bad
<1> QED
  BY <1>6, <1>7, (x - 1) + 1 = x DEF Bad

\* A set of natural numbers has a least element.
LEMMA LeastExists ==
    ASSUME NEW T, T \subseteq Nat, T # {}
    PROVE  \E x \in T : \A y \in T : x <= y
<1> DEFINE R == {ss \in Nat \X Nat : ss[1] < ss[2]}
<1>1. IsWellFoundedOn(R, Nat)
  BY NatLessThanWellFounded DEF OpToRel
<1> HIDE DEF R
<1>2. \E x \in T : \A y \in T : ~(<<y, x>> \in R)
  BY <1>1, WFMin
<1>3. PICK x \in T : \A y \in T : ~(<<y, x>> \in R)
  BY <1>2
<1>4. ASSUME NEW y \in T PROVE x <= y
  <2>1. x \in Nat /\ y \in Nat
    OBVIOUS
  <2>2. y < x => <<y, x>> \in R
    BY <2>1 DEF R
  <2>3. ~(<<y, x>> \in R)
    BY <1>3
  <2> QED
    BY <2>1, <2>2, <2>3
<1> QED
  BY <1>4

\* Induction on sequences, one element appended at a time.
LEMMA SeqInductive ==
    ASSUME NEW S, NEW P, <<>> \in P,
           \A s \in Seq(S), x \in S : s \in P => Append(s, x) \in P
    PROVE  Seq(S) \subseteq P
<1> DEFINE Q == {n \in Nat : \A s \in Seq(S) : Len(s) = n => s \in P}
<1>1. 0 \in Q
  BY EmptySeq
<1>2. ASSUME NEW n \in Nat, n \in Q PROVE n + 1 \in Q
  <2>1. SUFFICES ASSUME NEW s \in Seq(S), Len(s) = n + 1 PROVE s \in P
    OBVIOUS
  <2>2. PICK t \in Seq(S), x \in S : s = Append(t, x)
    BY <2>1, SequenceEmptyOrAppend, EmptySeq
  <2>3. Len(t) = n
    BY <2>1, <2>2, AppendProperties, LenProperties
  <2> QED
    BY <1>2, <2>2, <2>3
<1>3. Nat \subseteq Q
  <2> HIDE DEF Q
  <2> QED
    BY <1>1, <1>2, NatInductive
<1> QED
  BY <1>3, LenProperties

-----------------------------------------------------------------------------
(* Keep: the recursion has a solution, and what it computes.                *)

KeptStep(g, s, set, n) ==
    g = [i \in 0..n |-> IF i = 0 THEN <<>>
                        ELSE IF s[i] \in set THEN Append(g[i - 1], s[i]) ELSE g[i - 1]]

\* The recursion in Keep has a solution: each prefix extends the one before it.
LEMMA KeptExists ==
    ASSUME NEW s, NEW set, NEW n \in Nat
    PROVE  \E g : KeptStep(g, s, set, n)
<1> DEFINE P == {k \in Nat : \E g : KeptStep(g, s, set, k)}
<1>1. 0 \in P
  <2> DEFINE g == [i \in 0..0 |-> <<>>]
  <2>1. KeptStep(g, s, set, 0)
    BY DEF KeptStep
  <2> QED
    BY <2>1
<1>2. ASSUME NEW k \in Nat, k \in P PROVE k + 1 \in P
  <2>1. PICK g : KeptStep(g, s, set, k)
    BY <1>2
  <2> DEFINE h == [i \in 0..(k + 1) |->
                     IF i <= k THEN g[i]
                     ELSE IF s[i] \in set THEN Append(g[i - 1], s[i]) ELSE g[i - 1]]
  <2>2. ASSUME NEW i \in 0..(k + 1)
        PROVE  h[i] = IF i = 0 THEN <<>>
                      ELSE IF s[i] \in set THEN Append(h[i - 1], s[i]) ELSE h[i - 1]
    <3>1. CASE i = 0
      BY <2>1, <3>1 DEF KeptStep
    <3>2. CASE i # 0
      <4>1. i - 1 \in 0..k /\ h[i - 1] = g[i - 1]
        BY <3>2
      <4>2. CASE i <= k
        <5>1. i \in 0..k /\ h[i] = g[i]
          BY <4>2
        <5>2. g[i] = IF s[i] \in set THEN Append(g[i - 1], s[i]) ELSE g[i - 1]
          BY <2>1, <3>2, <5>1 DEF KeptStep
        <5> QED
          BY <5>1, <5>2, <4>1, <3>2
      <4>3. CASE ~(i <= k)
        BY <4>1, <4>3, <3>2
      <4> QED
        BY <4>2, <4>3
    <3> QED
      BY <3>1, <3>2
  <2>3. KeptStep(h, s, set, k + 1)
    BY <2>2 DEF KeptStep
  <2> QED
    BY <2>3
<1>3. Nat \subseteq P
  <2> HIDE DEF P
  <2> QED
    BY <1>1, <1>2, NatInductive
<1> QED
  BY <1>3

\* Keep is that solution, at the full length.
LEMMA KeptIs ==
    ASSUME NEW S, NEW s \in Seq(S), NEW set
    PROVE  \E g : KeptStep(g, s, set, Len(s)) /\ Keep(s, set) = g[Len(s)]
<1>1. Len(s) \in Nat
  BY LenProperties
<1>2. \E g : KeptStep(g, s, set, Len(s))
  BY <1>1, KeptExists
<1> QED
  BY <1>2 DEF Keep, KeptStep

\* Nothing is kept of nothing.
LEMMA KeepEmpty ==
    ASSUME NEW set
    PROVE  Keep(<<>>, set) = <<>>
<1>1. <<>> \in Seq({}) /\ Len(<<>>) = 0
  BY EmptySeq
<1>2. PICK g : KeptStep(g, <<>>, set, 0) /\ Keep(<<>>, set) = g[0]
  BY <1>1, KeptIs
<1> QED
  BY <1>2 DEF KeptStep

\* Two solutions agree where both are defined, if the sequences do.
LEMMA KeptAgree ==
    ASSUME NEW s, NEW t, NEW set, NEW n \in Nat, NEW k \in Nat, n <= k, NEW g, NEW h,
           \A i \in 1..n : s[i] = t[i],
           KeptStep(g, s, set, n), KeptStep(h, t, set, k)
    PROVE  \A i \in 0..n : g[i] = h[i]
<1> DEFINE P == {i \in Nat : i <= n => g[i] = h[i]}
<1>1. 0 \in P
  BY DEF KeptStep
<1>2. ASSUME NEW i \in Nat, i \in P PROVE i + 1 \in P
  <2>1. SUFFICES ASSUME i + 1 <= n PROVE g[i + 1] = h[i + 1]
    OBVIOUS
  <2>2. i + 1 \in 0..n /\ i + 1 \in 0..k /\ i + 1 # 0 /\ (i + 1) - 1 = i /\ s[i + 1] = t[i + 1]
    BY <2>1
  <2>3. g[i] = h[i]
    BY <1>2, <2>1
  <2>4. g[i + 1] = IF s[i + 1] \in set THEN Append(g[(i + 1) - 1], s[i + 1]) ELSE g[(i + 1) - 1]
    BY <2>2 DEF KeptStep
  <2>5. h[i + 1] = IF t[i + 1] \in set THEN Append(h[(i + 1) - 1], t[i + 1]) ELSE h[(i + 1) - 1]
    BY <2>2 DEF KeptStep
  <2> QED
    BY <2>2, <2>3, <2>4, <2>5
<1>3. Nat \subseteq P
  <2> HIDE DEF P
  <2> QED
    BY <1>1, <1>2, NatInductive
<1> QED
  BY <1>3

\* The last element is kept or not, after what is kept of the others.
LEMMA KeepAppend ==
    ASSUME NEW S, NEW s \in Seq(S), NEW x \in S, NEW set
    PROVE  Keep(Append(s, x), set) = IF x \in set THEN Append(Keep(s, set), x) ELSE Keep(s, set)
<1>1. PICK t, n : t = Append(s, x) /\ n = Len(s)
  OBVIOUS
<1>2. /\ t \in Seq(S) /\ Len(t) = n + 1 /\ n \in Nat
      /\ \A i \in 1..n : s[i] = t[i]
      /\ t[n + 1] = x
  BY <1>1, AppendProperties, LenProperties
<1>3. PICK g : KeptStep(g, s, set, n) /\ Keep(s, set) = g[n]
  BY <1>1, KeptIs
<1>4. PICK h : KeptStep(h, t, set, n + 1) /\ Keep(t, set) = h[n + 1]
  BY <1>2, KeptIs
<1>5. /\ n + 1 \in Nat /\ n <= n + 1 /\ n \in 0..n
      /\ n + 1 \in 0..(n + 1) /\ n + 1 # 0 /\ (n + 1) - 1 = n
  BY <1>2
<1>6. \A i \in 0..n : g[i] = h[i]
  <2>1. n \in Nat /\ n + 1 \in Nat /\ n <= n + 1
    BY <1>5, <1>2
  <2>2. KeptStep(g, s, set, n)
    BY <1>3
  <2>3. KeptStep(h, t, set, n + 1)
    BY <1>4
  <2>4. \A i \in 1..n : s[i] = t[i]
    BY <1>2
  <2>5. PICK k : k = n + 1
    OBVIOUS
  <2>6. k \in Nat /\ n <= k /\ KeptStep(h, t, set, k)
    BY <2>1, <2>3, <2>5
  <2> HIDE <2>1, <2>3, <2>5
  <2>7. n \in Nat
    BY <1>2
  <2> QED
    BY <2>7, <2>2, <2>4, <2>6, KeptAgree
<1>7. h[n + 1] = IF t[n + 1] \in set THEN Append(h[(n + 1) - 1], t[n + 1]) ELSE h[(n + 1) - 1]
  BY <1>4, <1>5 DEF KeptStep
<1> QED
  BY <1>1, <1>2, <1>3, <1>4, <1>5, <1>6, <1>7

\* The elements of a sequence and one more
LEMMA AppendSet ==
    ASSUME NEW S, NEW s \in Seq(S), NEW x \in S
    PROVE  Append(s, x) \in Seq(S) /\ ToSet(Append(s, x)) = ToSet(s) \cup {x}
<1>1. /\ Append(s, x) \in Seq(S) /\ Len(s) \in Nat /\ DOMAIN s = 1..Len(s)
      /\ DOMAIN Append(s, x) = 1..(Len(s) + 1)
      /\ \A i \in 1..Len(s) : Append(s, x)[i] = s[i]
      /\ Append(s, x)[Len(s) + 1] = x
  BY AppendProperties, LenProperties
<1>2. 1..(Len(s) + 1) = 1..Len(s) \cup {Len(s) + 1}
  BY <1>1
<1> QED
  BY <1>1, <1>2 DEF ToSet

\* What is kept: the elements that are in the set.
LEMMA KeepSet ==
    ASSUME NEW S, NEW s \in Seq(S), NEW set
    PROVE  Keep(s, set) \in Seq(S) /\ ToSet(Keep(s, set)) = ToSet(s) \cap set
<1> DEFINE P == {t \in Seq(S) : Keep(t, set) \in Seq(S) /\ ToSet(Keep(t, set)) = ToSet(t) \cap set}
<1>1. <<>> \in P
  <2>1. <<>> \in Seq(S) /\ ToSet(<<>>) = {}
    BY EmptySeq DEF ToSet
  <2> QED
    BY <2>1, KeepEmpty
<1>2. ASSUME NEW t \in Seq(S), NEW x \in S, t \in P PROVE Append(t, x) \in P
  <2>1. \A u \in Seq(S) : Append(u, x) \in Seq(S) /\ ToSet(Append(u, x)) = ToSet(u) \cup {x}
    BY AppendSet
  <2>2. Keep(Append(t, x), set) = IF x \in set THEN Append(Keep(t, set), x) ELSE Keep(t, set)
    BY KeepAppend
  <2>3. /\ Keep(t, set) \in Seq(S) /\ ToSet(Keep(t, set)) = ToSet(t) \cap set
    BY <1>2
  <2> QED
    BY <2>1, <2>2, <2>3
<1>3. Seq(S) \subseteq P
  <2> HIDE DEF P
  <2> QED
    BY <1>1, <1>2, SeqInductive
<1> QED
  BY <1>3

\* An element may be appended before or after a concatenation.
LEMMA ConcatAppend ==
    ASSUME NEW S, NEW s \in Seq(S), NEW t \in Seq(S), NEW x \in S
    PROVE  s \o Append(t, x) = Append(s \o t, x)
<1>1. Append(t, x) = t \o <<x>> /\ s \o t \in Seq(S) /\ <<x>> \in Seq(S)
  BY AppendIsConcat, ConcatProperties
<1>2. Append(s \o t, x) = (s \o t) \o <<x>>
  BY <1>1, AppendIsConcat
<1> QED
  BY <1>1, <1>2, ConcatAssociative

\* A sequence without elements is the empty one.
LEMMA EmptyIffNoElement ==
    ASSUME NEW S, NEW s \in Seq(S)
    PROVE  ToSet(s) = {} <=> s = <<>>
<1>1. ToSet(<<>>) = {}
  BY EmptySeq DEF ToSet
<1>2. ASSUME s # <<>> PROVE ToSet(s) # {}
  <2>1. Len(s) \in Nat \ {0} /\ DOMAIN s = 1..Len(s)
    BY <1>2, EmptySeq, LenProperties
  <2>2. 1 \in DOMAIN s
    BY <2>1
  <2> QED
    BY <2>2 DEF ToSet
<1> QED
  BY <1>1, <1>2

\* A filter acts on each part of a concatenation.
LEMMA KeepConcat ==
    ASSUME NEW S, NEW s \in Seq(S), NEW t \in Seq(S), NEW set
    PROVE  Keep(s \o t, set) = Keep(s, set) \o Keep(t, set)
<1> DEFINE P == {u \in Seq(S) : Keep(s \o u, set) = Keep(s, set) \o Keep(u, set)}
<1>0. Keep(s, set) \in Seq(S)
  BY KeepSet
<1>1. <<>> \in P
  <2>1. <<>> \in Seq(S) /\ s \o <<>> = s /\ Keep(s, set) \o <<>> = Keep(s, set)
    BY <1>0, EmptySeq, ConcatEmptySeq
  <2> QED
    BY <2>1, KeepEmpty
<1>2. ASSUME NEW u \in Seq(S), NEW x \in S, u \in P PROVE Append(u, x) \in P
  <2>1. /\ s \o Append(u, x) = Append(s \o u, x) /\ s \o u \in Seq(S)
        /\ Append(u, x) \in Seq(S) /\ Keep(u, set) \in Seq(S)
    BY ConcatAppend, ConcatProperties, AppendProperties, KeepSet
  <2>2. Keep(Append(s \o u, x), set)
          = IF x \in set THEN Append(Keep(s \o u, set), x) ELSE Keep(s \o u, set)
    BY <2>1, KeepAppend
  <2>3. Keep(Append(u, x), set) = IF x \in set THEN Append(Keep(u, set), x) ELSE Keep(u, set)
    BY KeepAppend
  <2>4. Keep(s, set) \o Append(Keep(u, set), x) = Append(Keep(s, set) \o Keep(u, set), x)
    BY <1>0, <2>1, ConcatAppend
  <2> QED
    BY <1>2, <2>1, <2>2, <2>3, <2>4
<1>3. Seq(S) \subseteq P
  <2> HIDE DEF P
  <2> QED
    BY <1>1, <1>2, SeqInductive
<1> QED
  BY <1>3

\* Two filters are one.
LEMMA KeepKeep ==
    ASSUME NEW S, NEW s \in Seq(S), NEW set, NEW other
    PROVE  Keep(Keep(s, set), other) = Keep(s, set \cap other)
<1>0. PICK both : both = set \cap other
  OBVIOUS
<1> DEFINE P == {u \in Seq(S) : Keep(Keep(u, set), other) = Keep(u, both)}
<1>1. <<>> \in P
  BY KeepEmpty, EmptySeq
<1>2. ASSUME NEW u \in Seq(S), NEW x \in S, u \in P PROVE Append(u, x) \in P
  <2>1. Append(u, x) \in Seq(S) /\ Keep(u, set) \in Seq(S)
    BY AppendProperties, KeepSet
  <2>2. Keep(Append(u, x), set) = IF x \in set THEN Append(Keep(u, set), x) ELSE Keep(u, set)
    BY KeepAppend
  <2>3. Keep(Append(Keep(u, set), x), other)
          = IF x \in other THEN Append(Keep(Keep(u, set), other), x) ELSE Keep(Keep(u, set), other)
    BY <2>1, KeepAppend
  <2>4. Keep(Append(u, x), both) = IF x \in both THEN Append(Keep(u, both), x) ELSE Keep(u, both)
    BY KeepAppend
  <2>5. Keep(Keep(u, set), other) = Keep(u, both)
    BY <1>2
  <2>6. x \in both <=> x \in set /\ x \in other
    BY <1>0
  <2>7. Keep(Keep(Append(u, x), set), other) = Keep(Append(u, x), both)
    BY <2>2, <2>3, <2>4, <2>5, <2>6
  <2> QED
    BY <2>1, <2>7
<1>3. Seq(S) \subseteq P
  <2> HIDE DEF P
  <2> QED
    BY <1>1, <1>2, SeqInductive
<1> QED
  BY <1>0, <1>3

\* Only membership of the sequence's own elements matters.
LEMMA KeepSame ==
    ASSUME NEW S, NEW s \in Seq(S), NEW set, NEW other,
           \A x \in ToSet(s) : x \in set <=> x \in other
    PROVE  Keep(s, set) = Keep(s, other)
<1> DEFINE P == {u \in Seq(S) : (\A x \in ToSet(u) : x \in set <=> x \in other) =>
                                    Keep(u, set) = Keep(u, other)}
<1>1. <<>> \in P
  BY KeepEmpty, EmptySeq
<1>2. ASSUME NEW u \in Seq(S), NEW x \in S, u \in P PROVE Append(u, x) \in P
  <2>1. Append(u, x) \in Seq(S) /\ ToSet(Append(u, x)) = ToSet(u) \cup {x}
    BY AppendSet
  <2>2. Keep(Append(u, x), set) = IF x \in set THEN Append(Keep(u, set), x) ELSE Keep(u, set)
    BY KeepAppend
  <2>3. Keep(Append(u, x), other) = IF x \in other THEN Append(Keep(u, other), x) ELSE Keep(u, other)
    BY KeepAppend
  <2>4. SUFFICES ASSUME \A y \in ToSet(Append(u, x)) : y \in set <=> y \in other
                 PROVE  Keep(Append(u, x), set) = Keep(Append(u, x), other)
    BY <2>1
  <2>5. (x \in set <=> x \in other) /\ Keep(u, set) = Keep(u, other)
    BY <1>2, <2>1, <2>4
  <2> QED
    BY <2>2, <2>3, <2>5
<1>3. Seq(S) \subseteq P
  <2> HIDE DEF P
  <2> QED
    BY <1>1, <1>2, SeqInductive
<1> QED
  BY <1>3

\* A list without repetitions keeps none.
LEMMA KeepInjective ==
    ASSUME NEW S, NEW s \in Seq(S), NEW set, \A i, j \in DOMAIN s : s[i] = s[j] => i = j
    PROVE  LET k == Keep(s, set) IN \A i, j \in DOMAIN k : k[i] = k[j] => i = j
<1> DEFINE Once(u) == \A i, j \in DOMAIN u : u[i] = u[j] => i = j
           P == {u \in Seq(S) : Once(u) => Once(Keep(u, set))}
<1>0. ASSUME NEW u \in Seq(S), NEW x \in S
      PROVE  Once(Append(u, x)) <=> Once(u) /\ x \notin ToSet(u)
  <2>1. /\ Append(u, x) \in Seq(S) /\ Len(u) \in Nat /\ DOMAIN u = 1..Len(u)
        /\ DOMAIN Append(u, x) = 1..(Len(u) + 1)
        /\ \A i \in 1..Len(u) : Append(u, x)[i] = u[i]
        /\ Append(u, x)[Len(u) + 1] = x
    BY AppendProperties, LenProperties
  <2>2. \A i \in 1..(Len(u) + 1) : i \in 1..Len(u) \/ i = Len(u) + 1
    BY <2>1
  <2>3. \A i \in 1..Len(u) : i \in 1..(Len(u) + 1) /\ i # Len(u) + 1
    BY <2>1
  <2>4. Len(u) + 1 \in 1..(Len(u) + 1)
    BY <2>1
  <2> QED
    BY <2>1, <2>2, <2>3, <2>4 DEF ToSet
<1>1. <<>> \in P
  BY KeepEmpty, EmptySeq
<1>2. ASSUME NEW u \in Seq(S), NEW x \in S, u \in P PROVE Append(u, x) \in P
  <2>1. Append(u, x) \in Seq(S) /\ Keep(u, set) \in Seq(S) /\ ToSet(Keep(u, set)) \subseteq ToSet(u)
    BY AppendProperties, KeepSet
  <2>2. Keep(Append(u, x), set) = IF x \in set THEN Append(Keep(u, set), x) ELSE Keep(u, set)
    BY KeepAppend
  <2>3. Once(Append(u, x)) => Once(u) /\ x \notin ToSet(u)
    BY <1>0
  <2>4. Once(Append(Keep(u, set), x)) <=> Once(Keep(u, set)) /\ x \notin ToSet(Keep(u, set))
    BY <1>0, <2>1
  <2> HIDE DEF Once
  <2> QED
    BY <1>2, <2>1, <2>2, <2>3, <2>4
<1>3. Seq(S) \subseteq P
  <2> HIDE DEF P
  <2> QED
    BY <1>1, <1>2, SeqInductive
<1> QED
  BY <1>3

-----------------------------------------------------------------------------
(* FlattenSeq *)

FlatStep(g, ss, n) == g = [i \in 1..n |-> IF i = 1 THEN ss[i] ELSE g[i - 1] \o ss[i]]

\* The recursion in FlattenSeq has a solution.
LEMMA FlatExists ==
    ASSUME NEW ss, NEW n \in Nat
    PROVE  \E g : FlatStep(g, ss, n)
<1> DEFINE P == {k \in Nat : \E g : FlatStep(g, ss, k)}
<1>1. 0 \in P
  <2> DEFINE g == [i \in 1..0 |-> <<>>]
  <2>1. FlatStep(g, ss, 0)
    BY DEF FlatStep
  <2> QED
    BY <2>1
<1>2. ASSUME NEW k \in Nat, k \in P PROVE k + 1 \in P
  <2>1. PICK g : FlatStep(g, ss, k)
    BY <1>2
  <2> DEFINE h == [i \in 1..(k + 1) |->
                     IF i <= k THEN g[i] ELSE IF i = 1 THEN ss[i] ELSE g[i - 1] \o ss[i]]
  <2>2. ASSUME NEW i \in 1..(k + 1)
        PROVE  h[i] = IF i = 1 THEN ss[i] ELSE h[i - 1] \o ss[i]
    <3>1. CASE i <= k
      <4>1. i \in 1..k /\ h[i] = g[i]
        BY <3>1
      <4>2. g[i] = IF i = 1 THEN ss[i] ELSE g[i - 1] \o ss[i]
        BY <2>1, <4>1 DEF FlatStep
      <4>3. i # 1 => h[i - 1] = g[i - 1]
        BY <3>1
      <4> QED
        BY <4>1, <4>2, <4>3
    <3>2. CASE ~(i <= k)
      <4>1. i # 1 => h[i - 1] = g[i - 1]
        BY <3>2
      <4> QED
        BY <4>1, <3>2
    <3> QED
      BY <3>1, <3>2
  <2>3. FlatStep(h, ss, k + 1)
    BY <2>2 DEF FlatStep
  <2> QED
    BY <2>3
<1>3. Nat \subseteq P
  <2> HIDE DEF P
  <2> QED
    BY <1>1, <1>2, NatInductive
<1> QED
  BY <1>3

\* FlattenSeq is that solution, at the full length.
LEMMA FlatIs ==
    ASSUME NEW S, NEW ss \in Seq(S), ss # <<>>
    PROVE  \E g : FlatStep(g, ss, Len(ss)) /\ FlattenSeq(ss) = g[Len(ss)]
<1>1. Len(ss) \in Nat /\ Len(ss) # 0
  BY LenProperties, EmptySeq
<1>2. \E g : FlatStep(g, ss, Len(ss))
  BY <1>1, FlatExists
<1> QED
  BY <1>1, <1>2 DEF FlattenSeq, FlatStep

\* Sequences that agree up to n are flattened alike up to n.
LEMMA FlatAgree ==
    ASSUME NEW ss, NEW tt, NEW n \in Nat, NEW k \in Nat, n <= k, NEW g, NEW h,
           \A i \in 1..n : ss[i] = tt[i],
           FlatStep(g, ss, n), FlatStep(h, tt, k)
    PROVE  n # 0 => g[n] = h[n]
<1> DEFINE P == {i \in Nat : i + 1 <= n => g[i + 1] = h[i + 1]}
<1>1. 0 \in P
  BY DEF FlatStep
<1>2. ASSUME NEW i \in Nat, i \in P PROVE i + 1 \in P
  <2>1. SUFFICES ASSUME NEW j, j = i + 2, j <= n PROVE g[j] = h[j]
    BY (i + 1) + 1 = i + 2
  <2>2. j \in 1..n /\ j \in 1..k /\ j # 1 /\ j - 1 = i + 1 /\ ss[j] = tt[j]
    BY <2>1
  <2>3. g[i + 1] = h[i + 1]
    BY <1>2, <2>1
  <2>4. g[j] = g[j - 1] \o ss[j]
    BY <2>2 DEF FlatStep
  <2>5. h[j] = h[j - 1] \o tt[j]
    BY <2>2 DEF FlatStep
  <2> QED
    BY <2>2, <2>3, <2>4, <2>5
<1>3. Nat \subseteq P
  <2> HIDE DEF P
  <2> QED
    BY <1>1, <1>2, NatInductive
<1>4. n # 0 => n - 1 \in P /\ (n - 1) + 1 = n
  BY <1>3
<1> QED
  BY <1>4

\* No sequences are flattened to the empty one.
LEMMA FlattenEmpty == FlattenSeq(<<>>) = <<>>
  BY EmptySeq DEF FlattenSeq

\* The last sequence is put after the others.
LEMMA FlattenAppend ==
    ASSUME NEW S, NEW ss \in Seq(Seq(S)), NEW s \in Seq(S)
    PROVE  FlattenSeq(Append(ss, s)) = FlattenSeq(ss) \o s
<1>1. PICK tt, n, k : tt = Append(ss, s) /\ n = Len(ss) /\ k = n + 1
  OBVIOUS
<1>2. /\ tt \in Seq(Seq(S)) /\ Len(tt) = k /\ n \in Nat /\ tt # <<>>
      /\ \A i \in 1..n : ss[i] = tt[i]
      /\ tt[k] = s
  BY <1>1, AppendProperties, LenProperties
<1>3. PICK h : FlatStep(h, tt, k) /\ FlattenSeq(tt) = h[k]
  BY <1>2, FlatIs
<1>4. CASE ss = <<>>
  <2>1. k = 1 /\ h[k] = tt[k]
    BY <1>1, <1>3, <1>4, EmptySeq DEF FlatStep
  <2> QED
    BY <1>1, <1>2, <1>3, <1>4, <2>1, FlattenEmpty, ConcatEmptySeq
<1>5. CASE ss # <<>>
  <2>1. PICK g : FlatStep(g, ss, n) /\ FlattenSeq(ss) = g[n]
    BY <1>1, <1>5, FlatIs
  <2>2. n # 0 /\ k \in Nat /\ n <= k /\ n \in 1..n /\ k \in 1..k /\ k # 1 /\ k - 1 = n
    BY <1>1, <1>2, <1>5, EmptySeq
  <2>3. n # 0 => g[n] = h[n]
    <3>1. n \in Nat
      BY <1>2
    <3>2. k \in Nat /\ n <= k
      BY <2>2
    <3>3. FlatStep(g, ss, n)
      BY <2>1
    <3>4. FlatStep(h, tt, k)
      BY <1>3
    <3>5. \A i \in 1..n : ss[i] = tt[i]
      BY <1>2
    <3> QED
      BY <3>1, <3>2, <3>3, <3>4, <3>5, FlatAgree
  <2>4. h[k] = h[k - 1] \o tt[k]
    BY <1>3, <2>2 DEF FlatStep
  <2> QED
    BY <1>1, <1>2, <1>3, <2>1, <2>2, <2>3, <2>4
<1> QED
  BY <1>4, <1>5

\* The elements of a concatenation.
LEMMA ConcatSet ==
    ASSUME NEW S, NEW s \in Seq(S), NEW t \in Seq(S)
    PROVE  s \o t \in Seq(S) /\ ToSet(s \o t) = ToSet(s) \cup ToSet(t)
<1>1. /\ s \o t \in Seq(S) /\ Len(s) \in Nat /\ Len(t) \in Nat
      /\ DOMAIN s = 1..Len(s) /\ DOMAIN t = 1..Len(t)
      /\ DOMAIN (s \o t) = 1..(Len(s) + Len(t))
      /\ \A i \in 1..(Len(s) + Len(t)) : (s \o t)[i] = IF i <= Len(s) THEN s[i] ELSE t[i - Len(s)]
  BY ConcatProperties, LenProperties
<1>2. ASSUME NEW x \in ToSet(s \o t) PROVE x \in ToSet(s) \cup ToSet(t)
  <2>1. PICK i \in 1..(Len(s) + Len(t)) : x = (s \o t)[i]
    BY <1>1 DEF ToSet
  <2>2. IF i <= Len(s) THEN i \in DOMAIN s ELSE i - Len(s) \in DOMAIN t
    BY <1>1
  <2> QED
    BY <1>1, <2>1, <2>2 DEF ToSet
<1>3. ASSUME NEW x \in ToSet(s) PROVE x \in ToSet(s \o t)
  <2>1. PICK i \in 1..Len(s) : x = s[i]
    BY <1>1 DEF ToSet
  <2>2. i \in 1..(Len(s) + Len(t)) /\ (s \o t)[i] = x
    BY <1>1, <2>1
  <2> QED
    BY <1>1, <2>2 DEF ToSet
<1>4. ASSUME NEW x \in ToSet(t) PROVE x \in ToSet(s \o t)
  <2>1. PICK i \in 1..Len(t) : x = t[i]
    BY <1>1 DEF ToSet
  <2>2. PICK j : j = i + Len(s)
    OBVIOUS
  <2>3. j \in 1..(Len(s) + Len(t)) /\ ~(j <= Len(s)) /\ j - Len(s) = i
    BY <1>1, <2>2
  <2>4. (s \o t)[j] = x
    BY <1>1, <2>1, <2>3
  <2> QED
    BY <1>1, <2>3, <2>4 DEF ToSet
<1> QED
  BY <1>1, <1>2, <1>3, <1>4

\* What a flattened sequence holds
AllOf(ss) == UNION {ToSet(s) : s \in ToSet(ss)}

\* The elements of what is flattened.
LEMMA FlattenHolds ==
    ASSUME NEW S, NEW ss \in Seq(Seq(S))
    PROVE  FlattenSeq(ss) \in Seq(S) /\ ToSet(FlattenSeq(ss)) = AllOf(ss)
<1> DEFINE P == {u \in Seq(Seq(S)) : FlattenSeq(u) \in Seq(S) /\ ToSet(FlattenSeq(u)) = AllOf(u)}
<1>1. <<>> \in P
  <2>1. <<>> \in Seq(S) /\ <<>> \in Seq(Seq(S)) /\ ToSet(<<>>) = {}
    BY EmptySeq DEF ToSet
  <2> QED
    BY <2>1, FlattenEmpty DEF AllOf
<1>2. ASSUME NEW u \in Seq(Seq(S)), NEW x \in Seq(S), u \in P PROVE Append(u, x) \in P
  <2>1. Append(u, x) \in Seq(Seq(S)) /\ ToSet(Append(u, x)) = ToSet(u) \cup {x}
    BY AppendSet
  <2>2. FlattenSeq(Append(u, x)) = FlattenSeq(u) \o x
    BY FlattenAppend
  <2>3. FlattenSeq(u) \o x \in Seq(S) /\ ToSet(FlattenSeq(u) \o x) = ToSet(FlattenSeq(u)) \cup ToSet(x)
    BY <1>2, ConcatSet
  <2>4. AllOf(Append(u, x)) = AllOf(u) \cup ToSet(x)
    BY <2>1 DEF AllOf
  <2> QED
    BY <1>2, <2>1, <2>2, <2>3, <2>4
<1>3. Seq(Seq(S)) \subseteq P
  <2> HIDE DEF P
  <2> QED
    BY <1>1, <1>2, SeqInductive
<1> QED
  BY <1>3

\* A sequence of functions' values: f applied to each element
Each(f, s) == [i \in DOMAIN s |-> f[s[i]]]

\* A function on all elements, the last one included.
LEMMA EachAppend ==
    ASSUME NEW S, NEW f, NEW s \in Seq(S), NEW x \in S
    PROVE  Each(f, Append(s, x)) = Append(Each(f, s), f[x])
<1>0. PICK n, T : n = Len(s) /\ T = {f[y] : y \in S}
  OBVIOUS
<1>1. /\ Append(s, x) \in Seq(S) /\ n \in Nat /\ DOMAIN s = 1..n
      /\ s \in [1..n -> S]
      /\ DOMAIN Append(s, x) = 1..(n + 1)
      /\ \A i \in 1..n : Append(s, x)[i] = s[i]
      /\ Append(s, x)[n + 1] = x
  BY <1>0, AppendProperties, LenProperties
<1>2. Each(f, s) \in [1..n -> T] /\ Len(Each(f, s)) = n /\ Each(f, s) \in Seq(T)
  BY <1>0, <1>1 DEF Each
<1>3. Each(f, Append(s, x)) \in Seq(T) /\ Len(Each(f, Append(s, x))) = n + 1
  <2>1. Append(s, x) \in [1..(n + 1) -> S]
    BY <1>1, LenProperties
  <2> QED
    BY <1>0, <1>1, <2>1 DEF Each
<1>4. /\ Append(Each(f, s), f[x]) \in Seq(T) /\ Len(Append(Each(f, s), f[x])) = n + 1
      /\ \A i \in 1..n : Append(Each(f, s), f[x])[i] = Each(f, s)[i]
      /\ Append(Each(f, s), f[x])[n + 1] = f[x]
  BY <1>0, <1>2, f[x] \in T, AppendProperties
<1>5. ASSUME NEW i \in 1..(n + 1)
      PROVE  Each(f, Append(s, x))[i] = Append(Each(f, s), f[x])[i]
  <2>1. Each(f, Append(s, x))[i] = f[Append(s, x)[i]]
    BY <1>1 DEF Each
  <2>2. CASE i \in 1..n
    BY <1>1, <1>4, <2>1, <2>2 DEF Each
  <2>3. CASE i = n + 1
    BY <1>1, <1>4, <2>1, <2>3
  <2>4. n \in Nat
    BY <1>1
  <2>5. i \in 1..n \/ i = n + 1
    BY <2>4
  <2> QED
    BY <2>2, <2>3, <2>5
<1>6. n + 1 \in Nat
  BY <1>1
<1> QED
  BY <1>3, <1>4, <1>5, <1>6, SeqEqual

\* A function on no elements.
LEMMA EachEmpty ==
    ASSUME NEW f
    PROVE  Each(f, <<>>) = <<>>
  BY EmptySeq DEF Each

\* The elements of f on a sequence.
LEMMA EachType ==
    ASSUME NEW S, NEW T, NEW f \in [S -> T], NEW s \in Seq(S)
    PROVE  Each(f, s) \in Seq(T) /\ ToSet(Each(f, s)) = {f[x] : x \in ToSet(s)}
<1>1. s \in [1..Len(s) -> S] /\ Len(s) \in Nat /\ DOMAIN s = 1..Len(s)
  BY LenProperties
<1> QED
  BY <1>1 DEF Each, ToSet

\* The same where the range of f is not given.
LEMMA EachRange ==
    ASSUME NEW S, NEW f, NEW s \in Seq(S)
    PROVE  Each(f, s) \in Seq({f[y] : y \in S})
<1>1. s \in [1..Len(s) -> S] /\ Len(s) \in Nat /\ DOMAIN s = 1..Len(s)
  BY LenProperties
<1> QED
  BY <1>1 DEF Each

\* f on what is kept of s is what is kept of f on s.
LEMMA KeepEach ==
    ASSUME NEW S, NEW f, NEW s \in Seq(S), NEW set
    PROVE  Keep(Each(f, s), set) = Each(f, Keep(s, {x \in S : f[x] \in set}))
<1>0. PICK pre, T : pre = {x \in S : f[x] \in set} /\ T = {f[y] : y \in S}
  OBVIOUS
<1> DEFINE P == {u \in Seq(S) : Keep(Each(f, u), set) = Each(f, Keep(u, pre))}
<1>1. <<>> \in P
  BY KeepEmpty, EmptySeq, EachEmpty
<1>2. ASSUME NEW u \in Seq(S), NEW x \in S, u \in P PROVE Append(u, x) \in P
  <2>1. Append(u, x) \in Seq(S) /\ Keep(u, pre) \in Seq(S) /\ Each(f, u) \in Seq(T) /\ f[x] \in T
    BY <1>0, AppendProperties, KeepSet, EachRange
  <2>2. Keep(Append(u, x), pre) = IF x \in pre THEN Append(Keep(u, pre), x) ELSE Keep(u, pre)
    BY KeepAppend
  <2>3. Each(f, Append(u, x)) = Append(Each(f, u), f[x])
    BY EachAppend
  <2>4. Each(f, Append(Keep(u, pre), x)) = Append(Each(f, Keep(u, pre)), f[x])
    BY <2>1, EachAppend
  <2>5. Keep(Append(Each(f, u), f[x]), set)
          = IF f[x] \in set THEN Append(Keep(Each(f, u), set), f[x]) ELSE Keep(Each(f, u), set)
    <3>1. PICK t, y : t = Each(f, u) /\ y = f[x]
      OBVIOUS
    <3>2. t \in Seq(T) /\ y \in T
      BY <2>1, <3>1
    <3>3. Keep(Append(t, y), set) = IF y \in set THEN Append(Keep(t, set), y) ELSE Keep(t, set)
      BY <3>2, KeepAppend
    <3> QED
      BY <3>1, <3>3, Zenon
  <2>6. x \in pre <=> f[x] \in set
    BY <1>0
  <2>7. Keep(Each(f, u), set) = Each(f, Keep(u, pre))
    BY <1>2
  <2>8. Keep(Each(f, Append(u, x)), set) = Each(f, Keep(Append(u, x), pre))
    BY <2>2, <2>3, <2>4, <2>5, <2>6, <2>7
  <2> QED
    BY <2>1, <2>8
<1>3. Seq(S) \subseteq P
  <2> HIDE DEF P
  <2> QED
    BY <1>1, <1>2, SeqInductive
<1> QED
  BY <1>0, <1>3

\* A function acts on each part of a concatenation.
LEMMA EachConcat ==
    ASSUME NEW S, NEW f, NEW s \in Seq(S), NEW t \in Seq(S)
    PROVE  Each(f, s \o t) = Each(f, s) \o Each(f, t)
<1>0. PICK T : T = {f[y] : y \in S}
  OBVIOUS
<1>t. \A u \in Seq(S) : Each(f, u) \in Seq(T)
  BY <1>0, EachRange
<1> DEFINE P == {u \in Seq(S) : Each(f, s \o u) = Each(f, s) \o Each(f, u)}
<1>1. <<>> \in P
  <2>1. <<>> \in Seq(S) /\ s \o <<>> = s /\ Each(f, s) \in Seq(T)
    BY <1>t, EmptySeq, ConcatEmptySeq
  <2> QED
    BY <2>1, EachEmpty, ConcatEmptySeq
<1>2. ASSUME NEW u \in Seq(S), NEW x \in S, u \in P PROVE Append(u, x) \in P
  <2>1. /\ s \o Append(u, x) = Append(s \o u, x) /\ s \o u \in Seq(S) /\ Append(u, x) \in Seq(S)
        /\ Each(f, s) \in Seq(T) /\ Each(f, u) \in Seq(T) /\ f[x] \in T
    <3>1. s \o Append(u, x) = Append(s \o u, x) /\ s \o u \in Seq(S) /\ Append(u, x) \in Seq(S)
      BY ConcatAppend, ConcatProperties, AppendProperties
    <3>2. Each(f, s) \in Seq(T) /\ Each(f, u) \in Seq(T) /\ f[x] \in T
      BY <1>0, <1>t
    <3> QED
      BY <3>1, <3>2
  <2>2. Each(f, Append(s \o u, x)) = Append(Each(f, s \o u), f[x])
    BY <2>1, EachAppend
  <2>3. Each(f, Append(u, x)) = Append(Each(f, u), f[x])
    BY EachAppend
  <2>4. Each(f, s) \o Append(Each(f, u), f[x]) = Append(Each(f, s) \o Each(f, u), f[x])
    BY <2>1, ConcatAppend
  <2> QED
    BY <1>2, <2>1, <2>2, <2>3, <2>4
<1>3. Seq(S) \subseteq P
  <2> HIDE DEF P
  <2> QED
    BY <1>1, <1>2, SeqInductive
<1> QED
  BY <1>3

\* A filter acts on each of the sequences that are flattened.
LEMMA KeepFlatten ==
    ASSUME NEW S, NEW ss \in Seq(Seq(S)), NEW set
    PROVE  Keep(FlattenSeq(ss), set) = FlattenSeq(Each([s \in Seq(S) |-> Keep(s, set)], ss))
<1>0. PICK f : f = [s \in Seq(S) |-> Keep(s, set)]
  OBVIOUS
<1>f. f \in [Seq(S) -> Seq(S)] /\ \A s \in Seq(S) : f[s] = Keep(s, set)
  BY <1>0, KeepSet
<1> DEFINE P == {u \in Seq(Seq(S)) : Keep(FlattenSeq(u), set) = FlattenSeq(Each(f, u))}
<1>1. <<>> \in P
  <2>1. <<>> \in Seq(Seq(S))
    BY EmptySeq
  <2> QED
    BY <2>1, FlattenEmpty, EachEmpty, KeepEmpty
<1>2. ASSUME NEW u \in Seq(Seq(S)), NEW x \in Seq(S), u \in P PROVE Append(u, x) \in P
  <2>1. /\ Append(u, x) \in Seq(Seq(S)) /\ FlattenSeq(u) \in Seq(S)
    BY AppendSet, FlattenHolds
  <2>2. Each(f, u) \in Seq(Seq(S)) /\ f[x] \in Seq(S)
    BY <1>f, EachType
  <2>3. FlattenSeq(Append(u, x)) = FlattenSeq(u) \o x
    BY FlattenAppend
  <2>4. Keep(FlattenSeq(u) \o x, set) = Keep(FlattenSeq(u), set) \o Keep(x, set)
    BY <2>1, KeepConcat
  <2>5. Each(f, Append(u, x)) = Append(Each(f, u), f[x])
    BY EachAppend
  <2>6. FlattenSeq(Append(Each(f, u), f[x])) = FlattenSeq(Each(f, u)) \o f[x]
    BY <2>2, FlattenAppend
  <2>7. Keep(FlattenSeq(u), set) = FlattenSeq(Each(f, u)) /\ f[x] = Keep(x, set)
    BY <1>2, <1>f
  <2>8. Keep(FlattenSeq(Append(u, x)), set) = FlattenSeq(Each(f, Append(u, x)))
    BY <2>3, <2>4, <2>5, <2>6, <2>7
  <2> QED
    BY <2>1, <2>8
<1>3. Seq(Seq(S)) \subseteq P
  <2> HIDE DEF P
  <2> QED
    BY <1>1, <1>2, SeqInductive
<1> QED
  BY <1>0, <1>3

\* A function acts on each of the sequences that are flattened.
LEMMA EachFlatten ==
    ASSUME NEW S, NEW e, NEW ss \in Seq(Seq(S))
    PROVE  Each(e, FlattenSeq(ss)) = FlattenSeq(Each([s \in Seq(S) |-> Each(e, s)], ss))
<1>0. PICK f, T : f = [s \in Seq(S) |-> Each(e, s)] /\ T = {e[y] : y \in S}
  OBVIOUS
<1>f. f \in [Seq(S) -> Seq(T)] /\ \A s \in Seq(S) : f[s] = Each(e, s)
  <2>1. \A s \in Seq(S) : Each(e, s) \in Seq(T)
    BY <1>0, EachRange
  <2> QED
    BY <1>0, <2>1
<1> DEFINE P == {u \in Seq(Seq(S)) : Each(e, FlattenSeq(u)) = FlattenSeq(Each(f, u))}
<1>1. <<>> \in P
  <2>1. <<>> \in Seq(Seq(S))
    BY EmptySeq
  <2> QED
    BY <2>1, FlattenEmpty, EachEmpty
<1>2. ASSUME NEW u \in Seq(Seq(S)), NEW x \in Seq(S), u \in P PROVE Append(u, x) \in P
  <2>1. /\ Append(u, x) \in Seq(Seq(S)) /\ FlattenSeq(u) \in Seq(S)
    BY AppendSet, FlattenHolds
  <2>2. Each(f, u) \in Seq(Seq(T)) /\ f[x] \in Seq(T)
    BY <1>f, EachType
  <2>3. FlattenSeq(Append(u, x)) = FlattenSeq(u) \o x
    BY FlattenAppend
  <2>4. Each(e, FlattenSeq(u) \o x) = Each(e, FlattenSeq(u)) \o Each(e, x)
    BY <2>1, EachConcat
  <2>5. Each(f, Append(u, x)) = Append(Each(f, u), f[x])
    BY EachAppend
  <2>6. FlattenSeq(Append(Each(f, u), f[x])) = FlattenSeq(Each(f, u)) \o f[x]
    BY <2>2, FlattenAppend
  <2>7. Each(e, FlattenSeq(u)) = FlattenSeq(Each(f, u)) /\ f[x] = Each(e, x)
    BY <1>2, <1>f
  <2>8. Each(e, FlattenSeq(Append(u, x))) = FlattenSeq(Each(f, Append(u, x)))
    BY <2>3, <2>4, <2>5, <2>6, <2>7
  <2> QED
    BY <2>1, <2>8
<1>3. Seq(Seq(S)) \subseteq P
  <2> HIDE DEF P
  <2> QED
    BY <1>1, <1>2, SeqInductive
<1> QED
  BY <1>0, <1>3

\* Where all sequences but one are empty, nothing else is left.
LEMMA FlattenOne ==
    ASSUME NEW S, NEW ss \in Seq(Seq(S)), NEW j \in DOMAIN ss,
           \A i \in DOMAIN ss : i # j => ss[i] = <<>>
    PROVE  FlattenSeq(ss) = ss[j]
<1> DEFINE Only(u, k) == \A i \in DOMAIN u : i # k => u[i] = <<>>
           P == {u \in Seq(Seq(S)) : \A k \in Nat : Only(u, k) =>
                    FlattenSeq(u) = IF k \in DOMAIN u THEN u[k] ELSE <<>>}
<1>1. <<>> \in P
  <2>1. <<>> \in Seq(Seq(S)) /\ DOMAIN <<>> = {}
    BY EmptySeq
  <2> QED
    BY <2>1, FlattenEmpty
<1>2. ASSUME NEW u \in Seq(Seq(S)), NEW x \in Seq(S), u \in P PROVE Append(u, x) \in P
  <2>0. PICK n, w : n = Len(u) /\ w = Append(u, x)
    OBVIOUS
  <2>1. /\ w \in Seq(Seq(S)) /\ n \in Nat /\ DOMAIN u = 1..n /\ DOMAIN w = 1..(n + 1)
        /\ \A i \in 1..n : w[i] = u[i] /\ u[i] \in Seq(S)
        /\ w[n + 1] = x
    BY <2>0, AppendProperties, LenProperties, ElementOfSeq
  <2>2. SUFFICES ASSUME NEW k \in Nat, Only(w, k)
                 PROVE  FlattenSeq(w) = IF k \in DOMAIN w THEN w[k] ELSE <<>>
    BY <2>0, <2>1
  <2>3. Only(u, k)
    BY <2>1, <2>2
  <2>4. FlattenSeq(w) = FlattenSeq(u) \o x /\ FlattenSeq(u) \in Seq(S)
    BY <2>0, FlattenAppend, FlattenHolds
  <2>5. FlattenSeq(u) = IF k \in DOMAIN u THEN u[k] ELSE <<>>
    BY <1>2, <2>3
  <2>6. CASE k = n + 1
    <3>1. k \notin DOMAIN u /\ k \in DOMAIN w
      BY <2>1, <2>6
    <3>2. FlattenSeq(u) = <<>> /\ w[k] = x
      BY <2>1, <2>5, <2>6, <3>1
    <3> QED
      BY <2>4, <3>1, <3>2, ConcatEmptySeq
  <2>7. CASE k # n + 1
    <3>1. x = <<>> /\ (k \in DOMAIN u <=> k \in DOMAIN w)
      <4>1. n + 1 \in DOMAIN w /\ w[n + 1] = x
        BY <2>1
      <4>2. x = <<>>
        BY <2>2, <2>7, <4>1
      <4>3. n \in Nat /\ DOMAIN u = 1..n /\ DOMAIN w = 1..(n + 1)
        BY <2>1
      <4> QED
        BY <4>2, <4>3, <2>7
    <3>2. k \in DOMAIN u => w[k] = u[k]
      BY <2>1
    <3> QED
      BY <2>4, <2>5, <3>1, <3>2, ConcatEmptySeq
  <2> QED
    BY <2>6, <2>7
<1>3. Seq(Seq(S)) \subseteq P
  <2> HIDE DEF P
  <2> QED
    BY <1>1, <1>2, SeqInductive
<1>4. j \in Nat
  BY LenProperties
<1> QED
  BY <1>3, <1>4

-----------------------------------------------------------------------------
(* The order of versions *)

\* Lexicographic comparison of sequences of lengths n and m whose elements differ by d
Lex(n, m, d) ==
    LET differ == {i \in DOMAIN d : d[i] # 0}
        i == CHOOSE x \in differ : \A y \in differ : x <= y
    IN  IF differ = {} THEN n - m ELSE d[i]
LexGE(n, m, d) ==
    \/ n >= m /\ \A i \in DOMAIN d : d[i] = 0
    \/ \E i \in DOMAIN d : d[i] > 0 /\ \A j \in 1..(i - 1) : d[j] = 0
LexEQ(n, m, d) == n = m /\ \A i \in DOMAIN d : d[i] = 0

\* x, y and z compare a with b, b with c and a with c
Composes(x, y, z) == (x >= 0 /\ y >= 0) => (z >= 0 /\ (z = 0 <=> x = 0 /\ y = 0))

\* The first difference decides: what it means for the result to be >= 0, or 0.
LEMMA LexDecides ==
    ASSUME NEW n \in Nat, NEW m \in Nat, NEW d \in [1..n \cap 1..m -> Int]
    PROVE  /\ Lex(n, m, d) \in Int
           /\ Lex(n, m, d) >= 0 <=> LexGE(n, m, d)
           /\ Lex(n, m, d) = 0 <=> LexEQ(n, m, d)
<1>1. PICK differ : differ = {i \in DOMAIN d : d[i] # 0}
  OBVIOUS
<1>2. CASE differ = {}
  <2>1. Lex(n, m, d) = n - m /\ \A i \in DOMAIN d : d[i] = 0
    BY <1>1, <1>2 DEF Lex
  <2> QED
    BY <2>1 DEF LexGE, LexEQ
<1>3. CASE differ # {}
  <2>1. \E x \in differ : \A y \in differ : x <= y
    BY <1>1, <1>3, LeastExists
  <2>2. PICK i : i = CHOOSE x \in differ : \A y \in differ : x <= y
    OBVIOUS
  <2>3. i \in differ /\ \A y \in differ : i <= y
    BY <2>1, <2>2
  <2>4. Lex(n, m, d) = d[i] /\ i \in DOMAIN d /\ d[i] # 0 /\ d[i] \in Int /\ i \in 1..n /\ i \in 1..m
    BY <1>1, <1>3, <2>2, <2>3 DEF Lex
  <2>5. \A j \in 1..(i - 1) : j \in DOMAIN d /\ d[j] = 0
    BY <1>1, <2>3, <2>4
  <2>6. d[i] > 0 => LexGE(n, m, d)
    BY <2>4, <2>5 DEF LexGE
  <2>7. ASSUME LexGE(n, m, d) PROVE d[i] > 0
    <3>1. PICK k \in DOMAIN d : d[k] > 0 /\ \A j \in 1..(k - 1) : d[j] = 0
      BY <2>4, <2>7 DEF LexGE
    <3>2. k \in differ /\ k \in 1..n /\ i <= k
      BY <1>1, <2>3, <3>1
    <3>3. i = k
      BY <2>4, <3>1, <3>2
    <3> QED
      BY <3>1, <3>3
  <2>8. ~LexEQ(n, m, d)
    BY <2>4 DEF LexEQ
  <2> QED
    BY <2>4, <2>6, <2>7, <2>8
<1> QED
  BY <1>2, <1>3

\* If each place composes, so does the comparison: the order is transitive.
LEMMA LexComposes ==
    ASSUME NEW n \in Nat, NEW m \in Nat, NEW k \in Nat,
           NEW d \in [1..n \cap 1..m -> Int], NEW e \in [1..m \cap 1..k -> Int],
           NEW f \in [1..n \cap 1..k -> Int],
           \A i \in 1..n : i \in 1..m /\ i \in 1..k => Composes(d[i], e[i], f[i])
    PROVE  Composes(Lex(n, m, d), Lex(m, k, e), Lex(n, k, f))
<1>1. /\ Lex(n, m, d) \in Int /\ Lex(m, k, e) \in Int /\ Lex(n, k, f) \in Int
      /\ Lex(n, m, d) >= 0 <=> LexGE(n, m, d)
      /\ Lex(n, m, d) = 0 <=> LexEQ(n, m, d)
      /\ Lex(m, k, e) >= 0 <=> LexGE(m, k, e)
      /\ Lex(m, k, e) = 0 <=> LexEQ(m, k, e)
      /\ Lex(n, k, f) >= 0 <=> LexGE(n, k, f)
      /\ Lex(n, k, f) = 0 <=> LexEQ(n, k, f)
  BY LexDecides
<1>2. SUFFICES ASSUME LexGE(n, m, d), LexGE(m, k, e)
               PROVE  /\ LexGE(n, k, f)
                      /\ LexEQ(n, k, f) <=> LexEQ(n, m, d) /\ LexEQ(m, k, e)
  BY <1>1 DEF Composes
<1>3. ASSUME NEW i \in 1..n, i \in 1..m, i \in 1..k
      PROVE  /\ i \in DOMAIN d /\ i \in DOMAIN e /\ i \in DOMAIN f
             /\ d[i] \in Int /\ e[i] \in Int /\ f[i] \in Int
             /\ d[i] = 0 /\ e[i] = 0 => f[i] = 0
             /\ d[i] >= 0 /\ e[i] >= 0 /\ (d[i] > 0 \/ e[i] > 0) => f[i] > 0
  BY <1>3 DEF Composes
<1>4. CASE \E i \in DOMAIN d : d[i] > 0 /\ \A j \in 1..(i - 1) : d[j] = 0
  <2>1. PICK i \in DOMAIN d : d[i] > 0 /\ \A j \in 1..(i - 1) : d[j] = 0
    BY <1>4
  <2>2. i \in 1..n /\ i \in 1..m /\ ~LexEQ(n, m, d)
    BY <2>1 DEF LexEQ
  <2>3. CASE m >= k /\ \A j \in DOMAIN e : e[j] = 0
    <3>1. CASE i \in 1..k
      <4>1. f[i] > 0 /\ i \in DOMAIN f
        BY <1>3, <2>1, <2>2, <2>3, <3>1
      <4>2. \A j \in 1..(i - 1) : f[j] = 0
        <5> TAKE j \in 1..(i - 1)
        <5>1. j \in 1..n /\ j \in 1..m /\ j \in 1..k
          BY <2>2, <3>1
        <5> QED
          BY <5>1, <1>3, <2>1, <2>3
      <4> QED
        BY <2>2, <4>1, <4>2 DEF LexGE, LexEQ
    <3>2. CASE i \notin 1..k
      <4>1. n > k
        BY <2>2, <3>2
      <4>2. \A j \in DOMAIN f : f[j] = 0
        <5> TAKE j \in DOMAIN f
        <5>1. j \in 1..n /\ j \in 1..m /\ j \in 1..k /\ j \in 1..(i - 1)
          BY <2>2, <2>3, <3>2
        <5> QED
          BY <5>1, <1>3, <2>1, <2>3
      <4> QED
        BY <2>2, <4>1, <4>2 DEF LexGE, LexEQ
    <3> QED
      BY <3>1, <3>2
  <2>4. CASE \E h \in DOMAIN e : e[h] > 0 /\ \A j \in 1..(h - 1) : e[j] = 0
    <3>1. PICK h \in DOMAIN e : e[h] > 0 /\ \A j \in 1..(h - 1) : e[j] = 0
      BY <2>4
    <3>2. h \in 1..m /\ h \in 1..k
      OBVIOUS
    <3>3. PICK l : l = IF i <= h THEN i ELSE h
      OBVIOUS
    <3>4. l \in 1..n /\ l \in 1..m /\ l \in 1..k
      BY <2>2, <3>2, <3>3
    <3>5. d[l] >= 0 /\ e[l] >= 0 /\ (d[l] > 0 \/ e[l] > 0)
      <4>1. CASE i < h
        BY <2>1, <2>2, <3>1, <3>2, <3>3, <4>1
      <4>2. CASE i = h
        BY <2>1, <3>1, <3>3, <4>2, <1>3, <3>4
      <4>3. CASE i > h
        BY <2>1, <2>2, <3>1, <3>2, <3>3, <4>3
      <4> QED
        BY <2>2, <3>2, <4>1, <4>2, <4>3
    <3>6. f[l] > 0 /\ l \in DOMAIN f
      BY <1>3, <3>4, <3>5
    <3>7. \A j \in 1..(l - 1) : f[j] = 0
      <4> TAKE j \in 1..(l - 1)
      <4>1. j \in 1..n /\ j \in 1..m /\ j \in 1..k /\ j \in 1..(i - 1) /\ j \in 1..(h - 1)
        BY <2>2, <3>2, <3>3, <3>4
      <4> QED
        BY <4>1, <1>3, <2>1, <3>1
    <3> QED
      BY <2>2, <3>6, <3>7 DEF LexGE, LexEQ
  <2> QED
    BY <1>2, <2>3, <2>4 DEF LexGE
<1>5. CASE n >= m /\ \A i \in DOMAIN d : d[i] = 0
  <2>1. CASE m >= k /\ \A j \in DOMAIN e : e[j] = 0
    <3>1. n >= k /\ (n = k <=> n = m /\ m = k)
      BY <1>5, <2>1
    <3>2. \A j \in DOMAIN f : f[j] = 0
      <4> TAKE j \in DOMAIN f
      <4>1. j \in 1..n /\ j \in 1..m /\ j \in 1..k
        BY <2>1
      <4> QED
        BY <4>1, <1>3, <1>5, <2>1
    <3> QED
      BY <1>5, <2>1, <3>1, <3>2 DEF LexGE, LexEQ
  <2>2. CASE \E h \in DOMAIN e : e[h] > 0 /\ \A j \in 1..(h - 1) : e[j] = 0
    <3>1. PICK h \in DOMAIN e : e[h] > 0 /\ \A j \in 1..(h - 1) : e[j] = 0
      BY <2>2
    <3>2. h \in 1..n /\ h \in 1..m /\ h \in 1..k /\ ~LexEQ(m, k, e)
      BY <1>5, <3>1 DEF LexEQ
    <3>3. f[h] > 0 /\ h \in DOMAIN f
      BY <1>3, <1>5, <3>1, <3>2
    <3>4. \A j \in 1..(h - 1) : f[j] = 0
      <4> TAKE j \in 1..(h - 1)
      <4>1. j \in 1..n /\ j \in 1..m /\ j \in 1..k
        BY <3>2
      <4> QED
        BY <4>1, <1>3, <1>5, <3>1
    <3> QED
      BY <3>2, <3>3, <3>4 DEF LexGE, LexEQ
  <2> QED
    BY <1>2, <2>1, <2>2 DEF LexGE
<1> QED
  BY <1>2, <1>4, <1>5 DEF LexGE

\* How much the elements of two sequences of numbers differ
Differ(a, b) == [i \in 1..Len(a) \cap 1..Len(b) |-> a[i] - b[i]]

\* str::cmp is that order on the differences of bytes.
LEMMA BytewiseIsLex ==
    ASSUME NEW a \in Seq(Nat), NEW b \in Seq(Nat)
    PROVE  /\ Differ(a, b) \in [1..Len(a) \cap 1..Len(b) -> Int]
           /\ Bytewise(a, b) = Lex(Len(a), Len(b), Differ(a, b))
<1>1. /\ Len(a) \in Nat /\ Len(b) \in Nat /\ DOMAIN a = 1..Len(a) /\ DOMAIN b = 1..Len(b)
      /\ \A i \in 1..Len(a) : a[i] \in Nat
      /\ \A i \in 1..Len(b) : b[i] \in Nat
  BY LenProperties, ElementOfSeq
<1>2. Differ(a, b) \in [1..Len(a) \cap 1..Len(b) -> Int]
  BY <1>1 DEF Differ
<1>3. PICK differ : differ = {i \in DOMAIN a \cap DOMAIN b : a[i] # b[i]}
  OBVIOUS
<1>4. differ = {i \in DOMAIN Differ(a, b) : Differ(a, b)[i] # 0}
  BY <1>1, <1>3 DEF Differ
<1>5. PICK i : i = CHOOSE x \in differ : \A y \in differ : x <= y
  OBVIOUS
<1>6. Bytewise(a, b) = IF differ = {} THEN Len(a) - Len(b) ELSE a[i] - b[i]
  BY <1>3, <1>5 DEF Bytewise
<1>7. Lex(Len(a), Len(b), Differ(a, b)) = IF differ = {} THEN Len(a) - Len(b) ELSE Differ(a, b)[i]
  BY <1>4, <1>5 DEF Lex
<1>8. differ # {} => i \in differ
  <2>1. ASSUME differ # {} PROVE \E x \in differ : \A y \in differ : x <= y
    <3>1. differ \subseteq Nat
      BY <1>1, <1>3
    <3> QED
      BY <2>1, <3>1, LeastExists
  <2> QED
    BY <1>5, <2>1
<1>9. differ # {} => Differ(a, b)[i] = a[i] - b[i]
  BY <1>1, <1>3, <1>8 DEF Differ
<1> QED
  BY <1>2, <1>6, <1>7, <1>9

\* str::cmp is transitive, and 0 only where both comparisons are.
LEMMA BytewiseComposes ==
    ASSUME NEW a \in Seq(Nat), NEW b \in Seq(Nat), NEW c \in Seq(Nat)
    PROVE  /\ Bytewise(a, b) \in Int
           /\ Composes(Bytewise(a, b), Bytewise(b, c), Bytewise(a, c))
<1>1. /\ Len(a) \in Nat /\ Len(b) \in Nat /\ Len(c) \in Nat
      /\ \A i \in 1..Len(a) : a[i] \in Nat
      /\ \A i \in 1..Len(b) : b[i] \in Nat
      /\ \A i \in 1..Len(c) : c[i] \in Nat
  BY LenProperties, ElementOfSeq
<1>2. /\ Differ(a, b) \in [1..Len(a) \cap 1..Len(b) -> Int]
      /\ Differ(b, c) \in [1..Len(b) \cap 1..Len(c) -> Int]
      /\ Differ(a, c) \in [1..Len(a) \cap 1..Len(c) -> Int]
      /\ Bytewise(a, b) = Lex(Len(a), Len(b), Differ(a, b))
      /\ Bytewise(b, c) = Lex(Len(b), Len(c), Differ(b, c))
      /\ Bytewise(a, c) = Lex(Len(a), Len(c), Differ(a, c))
  BY BytewiseIsLex
<1>3. ASSUME NEW i \in 1..Len(a), i \in 1..Len(b), i \in 1..Len(c)
      PROVE  Composes(Differ(a, b)[i], Differ(b, c)[i], Differ(a, c)[i])
  <2>1. Differ(a, b)[i] = a[i] - b[i] /\ Differ(b, c)[i] = b[i] - c[i] /\ Differ(a, c)[i] = a[i] - c[i]
    BY <1>3 DEF Differ
  <2>2. a[i] \in Nat /\ b[i] \in Nat /\ c[i] \in Nat
    BY <1>1, <1>3
  <2>3. PICK x, y, z : x = a[i] /\ y = b[i] /\ z = c[i]
    OBVIOUS
  <2>4. Composes(x - y, y - z, x - z)
    <3>1. x \in Nat /\ y \in Nat /\ z \in Nat
      BY <2>2, <2>3
    <3>2. (x - y >= 0 /\ y - z >= 0) => (x - z >= 0 /\ (x - z = 0 <=> x - y = 0 /\ y - z = 0))
      BY <3>1
    <3> QED
      BY <3>2 DEF Composes
  <2> QED
    BY <2>1, <2>3, <2>4
<1>4. Lex(Len(a), Len(b), Differ(a, b)) \in Int
  BY <1>1, <1>2, LexDecides
<1>5. Composes(Lex(Len(a), Len(b), Differ(a, b)), Lex(Len(b), Len(c), Differ(b, c)),
               Lex(Len(a), Len(c), Differ(a, c)))
  BY <1>1, <1>2, <1>3, LexComposes
<1> QED
  BY <1>2, <1>4, <1>5

\* The first bytes decide, where they differ.
LEMMA BytewiseFirst ==
    ASSUME NEW a \in Seq(Nat), NEW b \in Seq(Nat), a # <<>>, b # <<>>
    PROVE  /\ Bytewise(a, b) >= 0 => a[1] >= b[1]
           /\ a[1] # b[1] => Bytewise(a, b) = a[1] - b[1]
<1>1. /\ Len(a) \in Nat \ {0} /\ Len(b) \in Nat \ {0} /\ DOMAIN a = 1..Len(a) /\ DOMAIN b = 1..Len(b)
      /\ \A i \in 1..Len(a) : a[i] \in Nat
      /\ \A i \in 1..Len(b) : b[i] \in Nat
  BY LenProperties, ElementOfSeq, EmptySeq
<1>2. PICK differ : differ = {i \in DOMAIN a \cap DOMAIN b : a[i] # b[i]}
  OBVIOUS
<1>3. PICK i : i = CHOOSE x \in differ : \A y \in differ : x <= y
  OBVIOUS
<1>4. Bytewise(a, b) = IF differ = {} THEN Len(a) - Len(b) ELSE a[i] - b[i]
  BY <1>2, <1>3 DEF Bytewise
<1>5. a[1] \in Nat /\ b[1] \in Nat /\ 1 \in DOMAIN a \cap DOMAIN b
  BY <1>1
<1>6. ASSUME a[1] # b[1] PROVE Bytewise(a, b) = a[1] - b[1]
  <2>1. 1 \in differ /\ \A y \in differ : 1 <= y
    BY <1>1, <1>2, <1>5, <1>6
  <2>2. i \in differ /\ \A y \in differ : i <= y
    BY <1>3, <2>1
  <2>3. i = 1
    BY <1>1, <1>2, <2>1, <2>2
  <2> QED
    BY <1>4, <2>1, <2>3
<1> QED
  BY <1>5, <1>6

\* What is left without leading zeros is a run.
LEMMA TrimZerosType ==
    ASSUME NEW run \in Seq(Nat)
    PROVE  TrimZeros(run) \in Seq(Nat)
<1>1. Len(run) \in Nat /\ DOMAIN run = 1..Len(run) /\ \A i \in 1..Len(run) : run[i] \in Nat
  BY LenProperties, ElementOfSeq
<1>2. PICK kept : kept = {i \in DOMAIN run : \E j \in 1..i : run[j] # 48}
  OBVIOUS
<1>3. PICK n : n = Cardinality(kept)
  OBVIOUS
<1>4. n \in Nat /\ n <= Len(run)
  <2>1. IsFiniteSet(1..Len(run)) /\ Cardinality(1..Len(run)) = Len(run) /\ kept \subseteq 1..Len(run)
    BY <1>1, <1>2, FS_Interval
  <2>2. IsFiniteSet(kept) /\ Cardinality(kept) <= Cardinality(1..Len(run))
    BY <2>1, FS_Subset
  <2>3. Cardinality(kept) \in Nat
    BY <2>2, FS_CardinalityType
  <2> QED
    BY <1>3, <2>1, <2>2, <2>3
<1>5. \A i \in (Len(run) - n + 1)..Len(run) : run[i] \in Nat
  BY <1>1, <1>4
<1>6. SubSeq(run, Len(run) - n + 1, Len(run)) \in Seq(Nat)
  BY <1>1, <1>4, <1>5, SubSeqProperties
<1> QED
  BY <1>2, <1>3, <1>6 DEF TrimZeros

\* Runs compose, although runs of digits are compared as numbers and others as bytes.
LEMMA CompareRunsComposes ==
    ASSUME NEW a \in Seq(Nat), NEW b \in Seq(Nat), NEW c \in Seq(Nat),
           a # <<>>, b # <<>>, c # <<>>
    PROVE  /\ CompareRuns(a, b) \in Int
           /\ Composes(CompareRuns(a, b), CompareRuns(b, c), CompareRuns(a, c))
<1>1. \A s, t \in {a, b, c} :
         /\ s[1] \in Nat /\ TrimZeros(s) \in Seq(Nat) /\ Len(TrimZeros(s)) \in Nat
         /\ Bytewise(s, t) \in Int /\ Bytewise(TrimZeros(s), TrimZeros(t)) \in Int
         /\ Bytewise(s, t) >= 0 => s[1] >= t[1]
         /\ s[1] # t[1] => Bytewise(s, t) = s[1] - t[1]
  <2> TAKE s, t \in {a, b, c}
  <2>1. s \in Seq(Nat) /\ t \in Seq(Nat) /\ s # <<>> /\ t # <<>>
    OBVIOUS
  <2>2. TrimZeros(s) \in Seq(Nat) /\ TrimZeros(t) \in Seq(Nat) /\ Len(TrimZeros(s)) \in Nat
    BY <2>1, TrimZerosType, LenProperties
  <2>3. s[1] \in Nat
    <3>1. 1 \in 1..Len(s)
      BY <2>1, EmptySeq
    <3> QED
      BY <2>1, <3>1, ElementOfSeq
  <2>4. Bytewise(s, t) \in Int /\ Bytewise(TrimZeros(s), TrimZeros(t)) \in Int
    BY <2>1, <2>2, BytewiseComposes
  <2>5. /\ Bytewise(s, t) >= 0 => s[1] >= t[1]
        /\ s[1] # t[1] => Bytewise(s, t) = s[1] - t[1]
    BY <2>1, BytewiseFirst
  <2> QED
    BY <2>2, <2>3, <2>4, <2>5
<1>2. \A s, t \in {a, b, c} : CompareRuns(s, t) \in Int
  <2> TAKE s, t \in {a, b, c}
  <2>1. Len(TrimZeros(s)) \in Nat /\ Len(TrimZeros(t)) \in Nat
    BY <1>1
  <2>2. Bytewise(s, t) \in Int /\ Bytewise(TrimZeros(s), TrimZeros(t)) \in Int
    BY <1>1
  <2> QED
    BY <2>1, <2>2 DEF CompareRuns
<1>3. Composes(Bytewise(a, b), Bytewise(b, c), Bytewise(a, c))
  BY BytewiseComposes
<1>4. Composes(Bytewise(TrimZeros(a), TrimZeros(b)), Bytewise(TrimZeros(b), TrimZeros(c)),
               Bytewise(TrimZeros(a), TrimZeros(c)))
  BY <1>1, BytewiseComposes
<1>5. CASE Digit(a[1]) /\ Digit(b[1]) /\ Digit(c[1])
  <2>1. PICK x, y, z : x = TrimZeros(a) /\ y = TrimZeros(b) /\ z = TrimZeros(c)
    OBVIOUS
  <2>2. PICK k, l, m : k = Len(x) /\ l = Len(y) /\ m = Len(z)
    OBVIOUS
  <2>3. PICK p, q, r : p = Bytewise(x, y) /\ q = Bytewise(y, z) /\ r = Bytewise(x, z)
    OBVIOUS
  <2>4. /\ CompareRuns(a, b) = IF k # l THEN k - l ELSE p
        /\ CompareRuns(b, c) = IF l # m THEN l - m ELSE q
        /\ CompareRuns(a, c) = IF k # m THEN k - m ELSE r
    BY <1>5, <2>1, <2>2, <2>3 DEF CompareRuns
  <2>5. k \in Nat /\ l \in Nat /\ m \in Nat /\ p \in Int /\ q \in Int /\ r \in Int /\ Composes(p, q, r)
    BY <1>1, <1>4, <2>1, <2>2, <2>3
  <2> QED
    BY <2>4, <2>5 DEF Composes
<1>d. \A s, t \in {a, b, c} :
         /\ Digit(s[1]) # Digit(t[1]) => CompareRuns(s, t) = s[1] - t[1]
         /\ ~Digit(s[1]) => CompareRuns(s, t) = Bytewise(s, t)
  <2> TAKE s, t \in {a, b, c}
  <2>1. ~(Digit(s[1]) /\ Digit(t[1])) => CompareRuns(s, t) = Bytewise(s, t)
    BY DEF CompareRuns
  <2>2. s[1] # t[1] => Bytewise(s, t) = s[1] - t[1]
    BY <1>1
  <2>3. Digit(s[1]) # Digit(t[1]) => s[1] # t[1] /\ ~(Digit(s[1]) /\ Digit(t[1]))
    BY DEF Digit
  <2> QED
    BY <2>1, <2>2, <2>3
<1>e. PICK u, v, w : u = a[1] /\ v = b[1] /\ w = c[1]
  OBVIOUS
<1>f. u \in Nat /\ v \in Nat /\ w \in Nat
  BY <1>1, <1>e
<1>6. CASE Digit(a[1]) /\ Digit(b[1]) /\ ~Digit(c[1])
  <2>1. CompareRuns(b, c) = v - w /\ CompareRuns(a, c) = u - w /\ CompareRuns(a, b) \in Int
    BY <1>2, <1>6, <1>d, <1>e
  <2>2. u \in 48..57 /\ v \in 48..57 /\ w \notin 48..57
    BY <1>6, <1>e DEF Digit
  <2> QED
    BY <1>f, <2>1, <2>2 DEF Composes
<1>7. CASE Digit(a[1]) /\ ~Digit(b[1])
  <2>1. CompareRuns(a, b) = u - v
    BY <1>7, <1>d, <1>e
  <2>2. u \in 48..57 /\ v \notin 48..57
    BY <1>7, <1>e DEF Digit
  <2>3. CASE Digit(c[1])
    <3>1. CompareRuns(b, c) = v - w /\ w \in 48..57
      BY <1>7, <2>3, <1>d, <1>e DEF Digit
    <3> QED
      BY <1>f, <2>1, <2>2, <3>1 DEF Composes
  <2>4. CASE ~Digit(c[1])
    <3>1. CompareRuns(a, c) = u - w /\ CompareRuns(b, c) \in Int /\ (CompareRuns(b, c) >= 0 => v >= w)
      BY <1>1, <1>2, <1>7, <2>4, <1>d, <1>e
    <3> QED
      BY <1>f, <2>1, <2>2, <3>1 DEF Composes
  <2> QED
    BY <2>3, <2>4
<1>8. CASE ~Digit(a[1]) /\ Digit(b[1]) /\ Digit(c[1])
  <2>1. CompareRuns(a, b) = u - v /\ CompareRuns(a, c) = u - w /\ CompareRuns(b, c) \in Int
    BY <1>2, <1>8, <1>d, <1>e
  <2>2. u \notin 48..57 /\ v \in 48..57 /\ w \in 48..57
    BY <1>8, <1>e DEF Digit
  <2> QED
    BY <1>f, <2>1, <2>2 DEF Composes
<1>9. CASE ~Digit(a[1]) /\ ~(Digit(b[1]) /\ Digit(c[1]))
  BY <1>1, <1>3, <1>9 DEF CompareRuns, Composes
<1> QED
  BY <1>2, <1>5, <1>6, <1>7, <1>8, <1>9

\* The runs of a version are not empty.
LEMMA RunsType ==
    ASSUME NEW v \in Seq(Nat)
    PROVE  Runs(v) \in Seq({s \in Seq(Nat) : s # <<>>})
<1>0. PICK n : n = Len(v)
  OBVIOUS
<1>1. n \in Nat /\ DOMAIN v = 1..n /\ \A i \in 1..n : v[i] \in Nat
  BY <1>0, LenProperties, ElementOfSeq
<1>2. PICK starts : starts = {i \in DOMAIN v : i = 1 \/ Digit(v[i]) # Digit(v[i - 1])}
  OBVIOUS
<1>3. PICK from : from = Keep([i \in DOMAIN v |-> i], starts)
  OBVIOUS
<1>4. from \in Seq(1..n) /\ ToSet(from) \subseteq starts
  <2>1. [i \in DOMAIN v |-> i] \in Seq(1..n)
    BY <1>1
  <2> QED
    BY <1>3, <2>1, KeepSet
<1> DEFINE To(i) == CHOOSE j \in i..Len(v) : /\ j = Len(v) \/ j + 1 \in starts
                                            /\ \A x \in (i + 1)..j : x \notin starts
<1>5. ASSUME NEW i \in 1..n PROVE To(i) \in i..n
  <2> DEFINE Ends == {j \in i..n : j = n \/ j + 1 \in starts}
  <2>1. n \in Ends /\ Ends \subseteq Nat
    BY <1>1
  <2>2. PICK j \in Ends : \A y \in Ends : j <= y
    <3> HIDE DEF Ends
    <3> QED
      BY <2>1, LeastExists
  <2>3. ASSUME NEW x \in (i + 1)..j PROVE x \notin starts
    <3>1. x - 1 \in i..n /\ (x - 1) + 1 = x /\ x - 1 < j
      BY <1>1, <2>2
    <3>2. x - 1 \notin Ends
      BY <1>1, <2>2, <3>1
    <3> QED
      BY <3>1, <3>2
  <2>4. \E k \in i..Len(v) : /\ k = Len(v) \/ k + 1 \in starts
                             /\ \A x \in (i + 1)..k : x \notin starts
    BY <1>0, <2>2, <2>3
  <2> QED
    BY <1>0, <2>4
<1>6. Runs(v) = [k \in DOMAIN from |-> SubSeq(v, from[k], To(from[k]))]
  BY <1>2, <1>3 DEF Runs
<1> HIDE DEF To
<1>7. Len(from) \in Nat /\ DOMAIN from = 1..Len(from) /\ \A k \in 1..Len(from) : from[k] \in 1..n
  BY <1>4, LenProperties, ElementOfSeq
<1>8. ASSUME NEW k \in 1..Len(from)
      PROVE  SubSeq(v, from[k], To(from[k])) \in {s \in Seq(Nat) : s # <<>>}
  <2>1. PICK i, j : i = from[k] /\ j = To(from[k])
    OBVIOUS
  <2>2. i \in 1..n /\ j \in i..n
    BY <1>5, <1>7, <2>1
  <2>3. i \in Int /\ j \in Int /\ i <= j /\ \A x \in i..j : v[x] \in Nat
    BY <1>1, <2>2
  <2>4. SubSeq(v, i, j) \in Seq(Nat) /\ Len(SubSeq(v, i, j)) = j - i + 1
    BY <2>3, SubSeqProperties
  <2>5. SubSeq(v, i, j) # <<>>
    <3>1. Len(SubSeq(v, i, j)) # 0
      BY <2>3, <2>4
    <3> QED
      BY <3>1, EmptySeq
  <2> QED
    BY <2>1, <2>4, <2>5
<1> QED
  BY <1>6, <1>7, <1>8

\* No run is empty.
LEMMA RunsElements ==
    ASSUME NEW v \in Seq(Nat)
    PROVE  /\ Len(Runs(v)) \in Nat /\ DOMAIN Runs(v) = 1..Len(Runs(v))
           /\ \A i \in 1..Len(Runs(v)) : Runs(v)[i] \in Seq(Nat) /\ Runs(v)[i] # <<>>
<1>1. PICK T, u : T = {s \in Seq(Nat) : s # <<>>} /\ u = Runs(v)
  OBVIOUS
<1>2. u \in Seq(T)
  BY <1>1, RunsType
<1>3. Len(u) \in Nat /\ DOMAIN u = 1..Len(u) /\ \A i \in 1..Len(u) : u[i] \in T
  BY <1>2, LenProperties, ElementOfSeq
<1> QED
  BY <1>1, <1>3

RunDiffer(l, r) == [i \in 1..Len(l) \cap 1..Len(r) |-> CompareRuns(l[i], r[i])]

\* Versions are compared by the first run that differs.
LEMMA VersionsAreLex ==
    ASSUME NEW a \in Seq(Nat), NEW b \in Seq(Nat)
    PROVE  LET l == Runs(a)  r == Runs(b) IN
           /\ RunDiffer(l, r) \in [1..Len(l) \cap 1..Len(r) -> Int]
           /\ CompareArtifactVersions(a, b) = Lex(Len(l), Len(r), RunDiffer(l, r))
<1>0. PICK l, r : l = Runs(a) /\ r = Runs(b)
  OBVIOUS
<1>1. /\ Len(l) \in Nat /\ Len(r) \in Nat /\ DOMAIN l = 1..Len(l) /\ DOMAIN r = 1..Len(r)
      /\ \A i \in 1..Len(l) : l[i] \in Seq(Nat) /\ l[i] # <<>>
      /\ \A i \in 1..Len(r) : r[i] \in Seq(Nat) /\ r[i] # <<>>
  BY <1>0, RunsElements
<1>2. RunDiffer(l, r) \in [1..Len(l) \cap 1..Len(r) -> Int]
  BY <1>1, CompareRunsComposes DEF RunDiffer
<1>3. PICK differ : differ = {i \in DOMAIN l \cap DOMAIN r : CompareRuns(l[i], r[i]) # 0}
  OBVIOUS
<1>4. differ = {i \in DOMAIN RunDiffer(l, r) : RunDiffer(l, r)[i] # 0}
  BY <1>1, <1>3 DEF RunDiffer
<1>5. PICK i : i = CHOOSE x \in differ : \A y \in differ : x <= y
  OBVIOUS
<1>6. CompareArtifactVersions(a, b) = IF differ = {} THEN Len(l) - Len(r) ELSE CompareRuns(l[i], r[i])
  BY <1>0, <1>3, <1>5 DEF CompareArtifactVersions
<1>7. Lex(Len(l), Len(r), RunDiffer(l, r)) = IF differ = {} THEN Len(l) - Len(r) ELSE RunDiffer(l, r)[i]
  BY <1>4, <1>5 DEF Lex
<1>8. differ # {} => i \in differ
  <2>1. ASSUME differ # {} PROVE \E x \in differ : \A y \in differ : x <= y
    <3>1. differ \subseteq Nat
      BY <1>1, <1>3
    <3> QED
      BY <2>1, <3>1, LeastExists
  <2> QED
    BY <1>5, <2>1
<1>9. differ # {} => RunDiffer(l, r)[i] = CompareRuns(l[i], r[i])
  BY <1>1, <1>3, <1>8 DEF RunDiffer
<1> QED
  BY <1>0, <1>2, <1>6, <1>7, <1>9

\* Versions are totally preordered: what is not older than b, and b not than c ...
LEMMA VersionsCompose ==
    ASSUME NEW a \in Seq(Nat), NEW b \in Seq(Nat), NEW c \in Seq(Nat)
    PROVE  Composes(CompareArtifactVersions(a, b), CompareArtifactVersions(b, c),
                    CompareArtifactVersions(a, c))
<1>0. PICK l, m, r : l = Runs(a) /\ m = Runs(b) /\ r = Runs(c)
  OBVIOUS
<1>1. /\ Len(l) \in Nat /\ Len(m) \in Nat /\ Len(r) \in Nat
      /\ \A i \in 1..Len(l) : l[i] \in Seq(Nat) /\ l[i] # <<>>
      /\ \A i \in 1..Len(m) : m[i] \in Seq(Nat) /\ m[i] # <<>>
      /\ \A i \in 1..Len(r) : r[i] \in Seq(Nat) /\ r[i] # <<>>
  BY <1>0, RunsElements
<1>2. /\ RunDiffer(l, m) \in [1..Len(l) \cap 1..Len(m) -> Int]
      /\ RunDiffer(m, r) \in [1..Len(m) \cap 1..Len(r) -> Int]
      /\ RunDiffer(l, r) \in [1..Len(l) \cap 1..Len(r) -> Int]
      /\ CompareArtifactVersions(a, b) = Lex(Len(l), Len(m), RunDiffer(l, m))
      /\ CompareArtifactVersions(b, c) = Lex(Len(m), Len(r), RunDiffer(m, r))
      /\ CompareArtifactVersions(a, c) = Lex(Len(l), Len(r), RunDiffer(l, r))
  BY <1>0, VersionsAreLex
<1>3. ASSUME NEW i \in 1..Len(l), i \in 1..Len(m), i \in 1..Len(r)
      PROVE  Composes(RunDiffer(l, m)[i], RunDiffer(m, r)[i], RunDiffer(l, r)[i])
  <2>1. /\ RunDiffer(l, m)[i] = CompareRuns(l[i], m[i])
        /\ RunDiffer(m, r)[i] = CompareRuns(m[i], r[i])
        /\ RunDiffer(l, r)[i] = CompareRuns(l[i], r[i])
    BY <1>3 DEF RunDiffer
  <2>2. /\ l[i] \in Seq(Nat) /\ l[i] # <<>> /\ m[i] \in Seq(Nat) /\ m[i] # <<>>
        /\ r[i] \in Seq(Nat) /\ r[i] # <<>>
    BY <1>1, <1>3
  <2> QED
    BY <2>1, <2>2, CompareRunsComposes
<1>4. Composes(Lex(Len(l), Len(m), RunDiffer(l, m)), Lex(Len(m), Len(r), RunDiffer(m, r)),
               Lex(Len(l), Len(r), RunDiffer(l, r)))
  BY <1>1, <1>2, <1>3, LexComposes
<1> QED
  BY <1>2, <1>4

-----------------------------------------------------------------------------
(* What a request is matched to *)

\* The lists of a registry are lists.
Listed(r) == \A m \in DOMAIN r.models : r.models[m].routes \in Seq(RoutesOf(r.models[m]))

Answer(model, route) == [model |-> model.canonical, route |-> route]
Answering(model) == [route \in RoutesOf(model) |-> Answer(model, route)]

\* The answers of a model are its matching routes, in their order.
LEMMA RoutesMatchingIs ==
    ASSUME NEW model, model.routes \in Seq(RoutesOf(model)), NEW provider, NEW name,
           NEW found, found = Keep(model.routes, {route \in RoutesOf(model) : Matches(model, route, provider, name)})
    PROVE  /\ RoutesMatching(model, provider, name) = Each(Answering(model), found)
           /\ found \in Seq(RoutesOf(model))
           /\ ToSet(found) = {route \in RoutesOf(model) : Matches(model, route, provider, name)}
<1>1. ToSet(model.routes) = RoutesOf(model)
  BY DEF RoutesOf
<1>2. found \in Seq(RoutesOf(model)) /\ ToSet(found) = {route \in RoutesOf(model) : Matches(model, route, provider, name)}
  BY <1>1, KeepSet
<1>3. \A i \in DOMAIN found : found[i] \in RoutesOf(model)
  BY <1>2, LenProperties, ElementOfSeq
<1>4. RoutesMatching(model, provider, name)
        = [i \in DOMAIN found |-> [model |-> model.canonical, route |-> found[i]]]
  BY DEF RoutesMatching
<1>5. Each(Answering(model), found) = [i \in DOMAIN found |-> [model |-> model.canonical, route |-> found[i]]]
  BY <1>3 DEF Each, Answering, Answer
<1> QED
  BY <1>2, <1>4, <1>5

\* Which answers these are.
LEMMA RoutesMatchingHolds ==
    ASSUME NEW model, model.routes \in Seq(RoutesOf(model)), NEW provider, NEW name
    PROVE  LET s == RoutesMatching(model, provider, name) IN
           /\ s \in Seq(ToSet(s))
           /\ ToSet(s) = {Answer(model, route) : route \in
                             {x \in RoutesOf(model) : Matches(model, x, provider, name)}}
<1>0. PICK found : found = Keep(model.routes, {route \in RoutesOf(model) : Matches(model, route, provider, name)})
  OBVIOUS
<1>1. /\ RoutesMatching(model, provider, name) = Each(Answering(model), found)
      /\ found \in Seq(RoutesOf(model))
      /\ ToSet(found) = {route \in RoutesOf(model) : Matches(model, route, provider, name)}
  BY <1>0, RoutesMatchingIs
<1>2. PICK T, f : T = {Answer(model, route) : route \in RoutesOf(model)} /\ f = Answering(model)
  OBVIOUS
<1>3. f \in [RoutesOf(model) -> T]
  BY <1>2 DEF Answering
<1>4. Each(f, found) \in Seq(T) /\ ToSet(Each(f, found)) = {f[x] : x \in ToSet(found)}
  BY <1>1, <1>3, EachType
<1>5. \A s \in Seq(T) : s \in Seq(ToSet(s))
  <2> TAKE s \in Seq(T)
  <2>1. Len(s) \in Nat /\ s \in [1..Len(s) -> T] /\ DOMAIN s = 1..Len(s)
    BY LenProperties
  <2>2. s \in [1..Len(s) -> ToSet(s)]
    BY <2>1 DEF ToSet
  <2> QED
    BY <2>1, <2>2
<1>6. {f[x] : x \in ToSet(found)}
        = {Answer(model, route) : route \in {x \in RoutesOf(model) : Matches(model, x, provider, name)}}
  BY <1>1, <1>2 DEF Answering
<1> QED
  BY <1>1, <1>2, <1>4, <1>5, <1>6

\* The lists that matching_routes joins
Present(r) == Keep(NameOrder, DOMAIN r.models)
ListsOf(r, provider, name) ==
    [k \in DOMAIN Present(r) |-> RoutesMatching(r.models[Present(r)[k]], provider, name)]
AllAnswers(r, provider, name) ==
    UNION {ToSet(RoutesMatching(r.models[m], provider, name)) : m \in DOMAIN r.models}

\* The models of a registry in name order, each once.
LEMMA PresentIs ==
    ASSUME NEW r
    PROVE  /\ Present(r) \in Seq(ToSet(NameOrder))
           /\ ToSet(Present(r)) = ToSet(NameOrder) \cap DOMAIN r.models
           /\ Len(Present(r)) \in Nat /\ DOMAIN Present(r) = 1..Len(Present(r))
           /\ \A i, j \in DOMAIN Present(r) : Present(r)[i] = Present(r)[j] => i = j
<1>1. NameOrder \in Seq(ToSet(NameOrder)) /\ \A i, j \in DOMAIN NameOrder : NameOrder[i] = NameOrder[j] => i = j
  BY RegistryAssumption
<1>2. Present(r) \in Seq(ToSet(NameOrder)) /\ ToSet(Present(r)) = ToSet(NameOrder) \cap DOMAIN r.models
  BY <1>1, KeepSet DEF Present
<1>3. \A i, j \in DOMAIN Present(r) : Present(r)[i] = Present(r)[j] => i = j
  BY <1>1, KeepInjective DEF Present
<1> QED
  BY <1>2, <1>3, LenProperties

\* A request is answered by one list per model.
LEMMA ListsType ==
    ASSUME NEW r, Listed(r), NEW provider, NEW name
    PROVE  /\ ListsOf(r, provider, name) \in Seq(Seq(AllAnswers(r, provider, name)))
           /\ MatchingRoutes(r, provider, name) = FlattenSeq(ListsOf(r, provider, name))
           /\ \A k \in DOMAIN Present(r) : Present(r)[k] \in DOMAIN r.models
<1>1. \A k \in DOMAIN Present(r) : Present(r)[k] \in DOMAIN r.models
  <2> TAKE k \in DOMAIN Present(r)
  <2>1. Present(r)[k] \in ToSet(Present(r))
    BY DEF ToSet
  <2> QED
    BY <2>1, PresentIs
<1>2. ASSUME NEW m \in DOMAIN r.models
      PROVE  RoutesMatching(r.models[m], provider, name) \in Seq(AllAnswers(r, provider, name))
  <2>1. PICK s : s = RoutesMatching(r.models[m], provider, name)
    OBVIOUS
  <2>2. s \in Seq(ToSet(s))
    BY <2>1, RoutesMatchingHolds DEF Listed
  <2>3. ToSet(s) \subseteq AllAnswers(r, provider, name)
    BY <2>1 DEF AllAnswers
  <2> QED
    BY <2>1, <2>2, <2>3, SeqMonotonic
<1>3. ListsOf(r, provider, name) \in [1..Len(Present(r)) -> Seq(AllAnswers(r, provider, name))]
  BY <1>1, <1>2, PresentIs DEF ListsOf
<1>4. ListsOf(r, provider, name) \in Seq(Seq(AllAnswers(r, provider, name)))
  <2>1. Len(Present(r)) \in Nat
    BY PresentIs
  <2>2. PICK n, L, T : n = Len(Present(r)) /\ L = ListsOf(r, provider, name) /\ T = Seq(AllAnswers(r, provider, name))
    OBVIOUS
  <2>3. n \in Nat /\ L \in [1..n -> T]
    BY <1>3, <2>1, <2>2
  <2>4. L \in Seq(T)
    BY <2>3
  <2> QED
    BY <2>2, <2>4
<1>5. MatchingRoutes(r, provider, name) = FlattenSeq(ListsOf(r, provider, name))
  BY DEF MatchingRoutes, ListsOf, Present
<1> QED
  BY <1>1, <1>4, <1>5

\* The answer to a request is a list.
LEMMA MatchingType ==
    ASSUME NEW r, Listed(r), NEW provider, NEW name
    PROVE  MatchingRoutes(r, provider, name) \in Seq(AllAnswers(r, provider, name))
  BY ListsType, FlattenHolds

\* A request is matched to exactly the routes that match it, in any model.
LEMMA MatchedIs ==
    ASSUME NEW r, Listed(r), NEW provider, NEW name, NEW x
    PROVE  x \in Matched(r, provider, name) <=>
              \E m \in ToSet(NameOrder) \cap DOMAIN r.models : \E route \in RoutesOf(r.models[m]) :
                  Matches(r.models[m], route, provider, name) /\ x = Answer(r.models[m], route)
<1>0. PICK ss : ss = ListsOf(r, provider, name)
  OBVIOUS
<1>1. /\ ss \in Seq(Seq(AllAnswers(r, provider, name)))
      /\ MatchingRoutes(r, provider, name) = FlattenSeq(ss)
      /\ \A k \in DOMAIN Present(r) : Present(r)[k] \in DOMAIN r.models
  BY <1>0, ListsType
<1>2. FlattenSeq(ss) \in Seq(AllAnswers(r, provider, name)) /\ ToSet(FlattenSeq(ss)) = AllOf(ss)
  BY <1>1, FlattenHolds
<1>3. x \in AllOf(ss) <=> \E m \in ToSet(Present(r)) : x \in ToSet(RoutesMatching(r.models[m], provider, name))
  <2>1. x \in AllOf(ss) <=> \E k \in DOMAIN ss : x \in ToSet(ss[k])
    BY DEF AllOf, ToSet
  <2>2. DOMAIN ss = DOMAIN Present(r) /\ \A k \in DOMAIN ss : ss[k] = RoutesMatching(r.models[Present(r)[k]], provider, name)
    BY <1>0 DEF ListsOf
  <2> QED
    BY <2>1, <2>2 DEF ToSet
<1>4. ASSUME NEW m \in DOMAIN r.models
      PROVE  ToSet(RoutesMatching(r.models[m], provider, name))
               = {Answer(r.models[m], route) : route \in
                    {y \in RoutesOf(r.models[m]) : Matches(r.models[m], y, provider, name)}}
  BY RoutesMatchingHolds DEF Listed
<1>5. ToSet(Present(r)) = ToSet(NameOrder) \cap DOMAIN r.models
  BY PresentIs
<1>6. x \in AllOf(ss) <=>
         \E m \in ToSet(NameOrder) \cap DOMAIN r.models : \E route \in RoutesOf(r.models[m]) :
            Matches(r.models[m], route, provider, name) /\ x = Answer(r.models[m], route)
  <2>1. x \in AllOf(ss) <=> \E m \in ToSet(NameOrder) \cap DOMAIN r.models :
                               x \in ToSet(RoutesMatching(r.models[m], provider, name))
    BY <1>3, <1>5
  <2>2. ASSUME NEW m \in DOMAIN r.models
        PROVE  x \in ToSet(RoutesMatching(r.models[m], provider, name)) <=>
                 \E route \in RoutesOf(r.models[m]) :
                    Matches(r.models[m], route, provider, name) /\ x = Answer(r.models[m], route)
    BY <1>4
  <2> QED
    BY <2>1, <2>2
<1> QED
  BY <1>1, <1>2, <1>6 DEF Matched

\* The same, from the answer to its route.
LEMMA MatchedRoute ==
    ASSUME NEW r, Listed(r), NEW provider, NEW name, NEW x \in Matched(r, provider, name)
    PROVE  \E m \in DOMAIN r.models : \E route \in RoutesOf(r.models[m]) :
              Matches(r.models[m], route, provider, name) /\ x = Answer(r.models[m], route)
<1>1. \E m \in ToSet(NameOrder) \cap DOMAIN r.models : \E route \in RoutesOf(r.models[m]) :
         Matches(r.models[m], route, provider, name) /\ x = Answer(r.models[m], route)
  BY MatchedIs
<1> QED
  BY <1>1

\* Contains is membership.
LEMMA ContainsIs ==
    ASSUME NEW S, NEW s \in Seq(S), NEW x
    PROVE  Contains(s, x) <=> x \in ToSet(s)
<1>1. DOMAIN s = 1..Len(s)
  BY LenProperties
<1> QED
  BY <1>1 DEF Contains, ToSet

-----------------------------------------------------------------------------
(* The chain of updates *)

\* The ranks are small numbers, and those of the lifecycle order it.
LEMMA Ranks ==
    /\ \A s : LifecycleRank(s) \in 0..2 /\ TierRank(s) \in 0..2 /\ IntegrityRank(s) \in 0..2
            /\ ConfidenceRank(s) \in 0..3
    /\ \A s : LifecycleRank(s) >= 1 <=> s \in {"active", "verification_only"}
    /\ \A s : LifecycleRank(s) >= 2 <=> s = "active"
  BY DEF LifecycleRank, TierRank, IntegrityRank, ConfidenceRank

\* A route does not weaken itself.
LEMMA NotWeakenedReflexive ==
    ASSUME NEW route
    PROVE  NotWeakenedBy(route, route)
  BY Ranks DEF NotWeakenedBy

\* Two updates that weaken nothing are together one that weakens nothing.
LEMMA NotWeakenedTransitive ==
    ASSUME NEW a, NEW b, NEW c, NotWeakenedBy(a, b), NotWeakenedBy(b, c)
    PROVE  NotWeakenedBy(a, c)
<1>1. /\ LifecycleRank(c.status) >= LifecycleRank(a.status)
      /\ TierRank(c.tier) >= TierRank(a.tier)
      /\ ConfidenceRank(c.alias) >= ConfidenceRank(a.alias)
      /\ IntegrityRank(c.integrity) >= IntegrityRank(a.integrity)
  BY Ranks DEF NotWeakenedBy
<1>2. \A f \in IdentityFields : c[f] = a[f]
  BY DEF NotWeakenedBy
<1>3. IntegrityRank(a.integrity) >= 2 => c.integrity = a.integrity
  BY Ranks DEF NotWeakenedBy
<1>4. /\ c.channel = a.channel /\ a.gpus \subseteq c.gpus
      /\ a.streaming = "unsupported" => c.streaming = "unsupported"
  BY DEF NotWeakenedBy
<1>5. /\ a.request => c.request
      /\ a.response => c.response
      /\ a.encrypt => c.encrypt
      /\ a.decrypt => c.decrypt
  BY DEF NotWeakenedBy
<1> QED
  BY <1>1, <1>2, <1>3, <1>4, <1>5 DEF NotWeakenedBy

\* A route that could be selected still can.
LEMMA NotWeakenedSelectable ==
    ASSUME NEW a, NEW b, NotWeakenedBy(a, b)
    PROVE  /\ SelectableForVerification(a) => SelectableForVerification(b)
           /\ SelectableForChat(a) => SelectableForChat(b)
<1>1. LifecycleRank(b.status) >= LifecycleRank(a.status)
  BY DEF NotWeakenedBy
<1>2. LifecycleRank(a.status) \in Int /\ LifecycleRank(b.status) \in Int
  BY Ranks
<1>3. /\ LifecycleRank(a.status) >= 1 => LifecycleRank(b.status) >= 1
      /\ LifecycleRank(a.status) >= 2 => LifecycleRank(b.status) >= 2
  BY <1>1, <1>2
<1> QED
  BY <1>3, Ranks DEF SelectableForVerification, SelectableForChat

\* The candidate route that is compared is one of the same id.
LEMMA FindRouteIs ==
    ASSUME NEW routes, NEW route, NEW found \in FindRoute(routes, route)
    PROVE  found \in ToSet(routes) /\ found.id = route.id
  BY DEF FindRoute, ToSet

\* What verify_update_to compares, but for the validity of the two registries
Supersedes(old, new) ==
    /\ CompareArtifactVersions(new.version, old.version) >= 0
    /\ \A m \in DOMAIN old.models :
          /\ m \in DOMAIN new.models
          /\ new.models[m].canonical = old.models[m].canonical
          /\ ToSet(old.models[m].aliases) \subseteq ToSet(new.models[m].aliases)
          /\ \A route \in Sensitive(old.models[m]) :
                \E found \in FindRoute(new.models[m].routes, route) : NotWeakenedBy(route, found)

ChainInv ==
    /\ registry \in Registries /\ ValidateSecurityInvariants(registry)
    /\ first \in Registries
    /\ registry = first \/ Supersedes(first, registry)

\* Two accepted updates in a row are as good as one.
LEMMA SupersedesTransitive ==
    ASSUME NEW a \in Registries, NEW b \in Registries, NEW c \in Registries,
           Supersedes(a, b), Supersedes(b, c)
    PROVE  Supersedes(a, c)
<1>1. CompareArtifactVersions(c.version, a.version) >= 0
  <2>1. a.version \in Seq(Nat) /\ b.version \in Seq(Nat) /\ c.version \in Seq(Nat)
    BY RegistryAssumption
  <2>2. Composes(CompareArtifactVersions(c.version, b.version), CompareArtifactVersions(b.version, a.version),
                 CompareArtifactVersions(c.version, a.version))
    BY <2>1, VersionsCompose
  <2> QED
    BY <2>2 DEF Composes, Supersedes
<1>2. ASSUME NEW m \in DOMAIN a.models
      PROVE  /\ m \in DOMAIN c.models
             /\ c.models[m].canonical = a.models[m].canonical
             /\ ToSet(a.models[m].aliases) \subseteq ToSet(c.models[m].aliases)
  BY DEF Supersedes
<1>3. ASSUME NEW m \in DOMAIN a.models, NEW route \in Sensitive(a.models[m])
      PROVE  \E found \in FindRoute(c.models[m].routes, route) : NotWeakenedBy(route, found)
  <2>1. m \in DOMAIN b.models
    BY DEF Supersedes
  <2>2. PICK mid \in FindRoute(b.models[m].routes, route) : NotWeakenedBy(route, mid)
    BY DEF Supersedes
  <2>3. mid \in RoutesOf(b.models[m]) /\ mid.id = route.id
    BY <2>2, FindRouteIs DEF RoutesOf
  <2>4. mid \in Sensitive(b.models[m])
    BY <2>2, <2>3, NotWeakenedSelectable DEF Sensitive, SecuritySensitive
  <2>5. PICK found \in FindRoute(c.models[m].routes, mid) : NotWeakenedBy(mid, found)
    BY <2>1, <2>4 DEF Supersedes
  <2>6. found \in FindRoute(c.models[m].routes, route)
    BY <2>3, <2>5 DEF FindRoute
  <2>7. NotWeakenedBy(route, found)
    BY <2>2, <2>5, NotWeakenedTransitive
  <2> QED
    BY <2>6, <2>7
<1> QED
  BY <1>1, <1>2, <1>3 DEF Supersedes

\* The inductive invariant of the chain of updates.
LEMMA ChainInvHolds == RegistrySpec => []ChainInv
<1>1. RegistryInit => ChainInv
  BY DEF RegistryInit, ChainInv
<1>2. ChainInv /\ [UpdateRegistry]_registryVars => ChainInv'
  <2>1. SUFFICES ASSUME ChainInv, [UpdateRegistry]_registryVars PROVE ChainInv'
    OBVIOUS
  <2>2. CASE UpdateRegistry
    <3>1. PICK candidate \in Registries : IntoVerifiedUpdate(registry, candidate) /\ registry' = candidate
      BY <2>2 DEF UpdateRegistry
    <3>2. first' = first /\ ValidateSecurityInvariants(candidate)
      BY <2>2, <3>1 DEF UpdateRegistry, IntoVerifiedUpdate, VerifyUpdateTo
    <3>3. Supersedes(registry, candidate)
      BY <3>1 DEF IntoVerifiedUpdate, VerifyUpdateTo, Supersedes
    <3>4. Supersedes(first, candidate)
      BY <2>1, <3>3, SupersedesTransitive DEF ChainInv
    <3> QED
      BY <2>1, <3>1, <3>2, <3>4 DEF ChainInv
  <2>3. CASE UNCHANGED registryVars
    BY <2>1, <2>3 DEF ChainInv, registryVars
  <2> QED
    BY <2>1, <2>2, <2>3
<1> QED
  BY <1>1, <1>2, PTL DEF RegistrySpec

\* A version is not before itself.
LEMMA VersionReflexive ==
    ASSUME NEW v \in Seq(Nat)
    PROVE  CompareArtifactVersions(v, v) >= 0
<1>1. ASSUME NEW s \in Seq(Nat) PROVE Bytewise(s, s) = 0
  <2>1. Len(s) - Len(s) = 0
    BY LenProperties
  <2> QED
    BY <2>1 DEF Bytewise
<1>2. ASSUME NEW s \in Seq(Nat) PROVE CompareRuns(s, s) = 0
  <2>1. Bytewise(s, s) = 0 /\ Bytewise(TrimZeros(s), TrimZeros(s)) = 0
    BY <1>1, TrimZerosType
  <2> QED
    BY <2>1 DEF CompareRuns
<1>3. PICK l : l = Runs(v)
  OBVIOUS
<1>4. Len(l) - Len(l) = 0 /\ \A i \in DOMAIN l : CompareRuns(l[i], l[i]) = 0
  BY <1>2, <1>3, RunsElements
<1> QED
  BY <1>3, <1>4 DEF CompareArtifactVersions

\* The version order that updates rest on is an order, for versions of any characters:
\* no chain of updates that each do not go back goes back, and only equal steps make
\* an equal chain.
THEOREM VersionOrder ==
    ASSUME NEW a \in Seq(Nat), NEW b \in Seq(Nat), NEW c \in Seq(Nat),
           CompareArtifactVersions(a, b) >= 0, CompareArtifactVersions(b, c) >= 0
    PROVE  /\ CompareArtifactVersions(a, c) >= 0
           /\ CompareArtifactVersions(a, c) = 0 =>
                 CompareArtifactVersions(a, b) = 0 /\ CompareArtifactVersions(b, c) = 0
           /\ CompareArtifactVersions(a, a) >= 0
  BY VersionsCompose, VersionReflexive DEF Composes

\* The lists of a registry are lists.
LEMMA RegistryListed ==
    ASSUME NEW r \in Registries
    PROVE  /\ Listed(r) /\ DOMAIN r.models \subseteq ToSet(NameOrder)
           /\ \A m \in DOMAIN r.models : ModelTypeOK(r.models[m])
  BY RegistryAssumption DEF Listed, ModelTypeOK, RoutesOf

\* The names a route answers to in one registry it answers to in the next.
LEMMA MatchesKept ==
    ASSUME NEW old, NEW new, ModelTypeOK(old), ModelTypeOK(new), new.canonical = old.canonical,
           ToSet(old.aliases) \subseteq ToSet(new.aliases),
           NEW a \in RoutesOf(old), NEW b \in RoutesOf(new), NotWeakenedBy(a, b),
           NEW name, Matches(old, a, "any", name)
    PROVE  Matches(new, b, "any", name)
<1>1. SelectableForVerification(b)
  BY NotWeakenedSelectable DEF Matches
<1>2. b.pmodel = a.pmodel
  BY DEF NotWeakenedBy, IdentityFields
<1>3. AliasAllowedByDefault(a.alias) => AliasAllowedByDefault(b.alias)
  <2>1. b.alias \in {"algorithmic", "provider", "override", "curated"}
    BY DEF ModelTypeOK, RouteTypeOK, RoutesOf
  <2>2. ConfidenceRank(b.alias) >= ConfidenceRank(a.alias)
    BY DEF NotWeakenedBy
  <2> QED
    BY <2>1, <2>2 DEF ConfidenceRank, AliasAllowedByDefault
<1>4. Contains(old.aliases, name) => Contains(new.aliases, name)
  <2>1. old.aliases \in Seq(ToSet(old.aliases)) /\ new.aliases \in Seq(ToSet(new.aliases))
    BY DEF ModelTypeOK
  <2> QED
    BY <2>1, ContainsIs
<1>5. MatchesRequestModel(b, new, name)
  BY <1>2, <1>3, <1>4 DEF Matches, MatchesRequestModel
<1> QED
  BY <1>1, <1>5 DEF Matches

\* The registry in force answers what the first one answered, as strongly.
LEMMA ChainKeeps ==
    ASSUME ChainInv
    PROVE  ChainKeepsRoutes
<1>1. registry \in Registries /\ first \in Registries
  BY DEF ChainInv
<1>2. /\ Listed(registry) /\ DOMAIN registry.models \subseteq ToSet(NameOrder)
      /\ \A m \in DOMAIN registry.models : ModelTypeOK(registry.models[m])
      /\ Listed(first) /\ \A m \in DOMAIN first.models : ModelTypeOK(first.models[m])
  BY <1>1, RegistryListed
<1>3. CompareArtifactVersions(registry.version, first.version) >= 0
  <2>1. first.version \in Seq(Nat)
    BY <1>1, RegistryAssumption
  <2> QED
    BY <2>1, VersionReflexive DEF ChainInv, Supersedes
<1>4. ASSUME NEW name, NEW old \in Matched(first, "any", name)
      PROVE  \E new \in Matched(registry, "any", name) :
                /\ new.model = old.model /\ new.route.id = old.route.id
                /\ SelectableForChat(old.route) => SelectableForChat(new.route)
                /\ NotWeakenedBy(old.route, new.route)
  <2>1. CASE registry = first
    BY <1>4, <2>1, NotWeakenedReflexive
  <2>2. CASE Supersedes(first, registry)
    <3>1. PICK m \in DOMAIN first.models : \E route \in RoutesOf(first.models[m]) :
             Matches(first.models[m], route, "any", name) /\ old = Answer(first.models[m], route)
      BY <1>2, <1>4, MatchedRoute
    <3>a. PICK route \in RoutesOf(first.models[m]) :
             Matches(first.models[m], route, "any", name) /\ old = Answer(first.models[m], route)
      BY <3>1
    <3>2. route \in Sensitive(first.models[m])
      BY <3>a DEF Sensitive, SecuritySensitive, Matches
    <3>3. PICK found \in FindRoute(registry.models[m].routes, route) : NotWeakenedBy(route, found)
      BY <2>2, <3>2 DEF Supersedes
    <3>4. found \in RoutesOf(registry.models[m]) /\ found.id = route.id
      BY <3>3, FindRouteIs DEF RoutesOf
    <3>5. /\ m \in DOMAIN registry.models /\ registry.models[m].canonical = first.models[m].canonical
          /\ ToSet(first.models[m].aliases) \subseteq ToSet(registry.models[m].aliases)
      BY <2>2 DEF Supersedes
    <3>6. Matches(registry.models[m], found, "any", name)
      BY <1>2, <3>a, <3>3, <3>4, <3>5, MatchesKept
    <3>7. Answer(registry.models[m], found) \in Matched(registry, "any", name)
      BY <1>2, <3>4, <3>5, <3>6, MatchedIs
    <3>8. SelectableForChat(route) => SelectableForChat(found)
      BY <3>3, NotWeakenedSelectable
    <3> QED
      BY <3>a, <3>3, <3>4, <3>5, <3>7, <3>8 DEF Answer
  <2> QED
    BY <2>1, <2>2 DEF ChainInv
<1> QED
  BY <1>3, <1>4 DEF ChainKeepsRoutes

-----------------------------------------------------------------------------
(* A diff that asks for no review *)

\* Where ids are distinct, route_map loses no route.
LEMMA RouteMapIs ==
    ASSUME NEW model, \A i, j \in DOMAIN model.routes : model.routes[i].id = model.routes[j].id => i = j
    PROVE  /\ RouteMap(model) \subseteq RoutesOf(model)
           /\ DOMAIN model.routes \subseteq Int => RouteMap(model) = RoutesOf(model)
  BY DEF RouteMap, RoutesOf, ToSet

\* Two routes of one id that differ in no compared field are one route.
LEMMA ComparedAll ==
    ASSUME NEW a, NEW b, RouteTypeOK(a), RouteTypeOK(b), a.id = b.id, ~a.credentials, ~b.credentials,
           \A f \in Compared(a) : b[f] = a[f]
    PROVE  a = b
<1>1. a.credentials = b.credentials
  BY DEF RouteTypeOK
<1>2. DOMAIN a = RouteFields
  BY DEF RouteTypeOK
<1>3. \A f \in RouteFields : a[f] = b[f]
  BY <1>1, <1>2 DEF Compared
<1> QED
  BY <1>3 DEF RouteTypeOK

\* Without a review, a route that can be selected is in both registries.
LEMMA SilentRoutes ==
    ASSUME NEW m, NEW old, NEW new, ModelTypeOK(old), ModelTypeOK(new),
           \A i, j \in DOMAIN old.routes : old.routes[i].id = old.routes[j].id => i = j,
           \A i, j \in DOMAIN new.routes : new.routes[i].id = new.routes[j].id => i = j,
           \A route \in RoutesOf(old) \cup RoutesOf(new) : ~route.credentials,
           \A c \in RouteChanges(m, old, new) : ~c.review
    PROVE  Sensitive(old) = Sensitive(new)
<1>1. RouteMap(old) = RoutesOf(old) /\ RouteMap(new) = RoutesOf(new)
  <2>1. old.routes \in Seq(ToSet(old.routes)) /\ new.routes \in Seq(ToSet(new.routes))
    BY DEF ModelTypeOK
  <2>2. DOMAIN old.routes \subseteq Int /\ DOMAIN new.routes \subseteq Int
    BY <2>1, LenProperties
  <2> QED
    BY <2>2, RouteMapIs
<1>2. ASSUME NEW a \in RoutesOf(old), NEW b \in RoutesOf(new), a.id = b.id PROVE a = b
  <2>1. ASSUME NEW f \in Compared(a), b[f] # a[f] PROVE FALSE
    <3> DEFINE Fields(route, other) ==
                 {Change("field_changed", m, route.id, g, TRUE) : g \in {h \in Compared(route) : other[h] # route[h]}}
               Of(route) ==
                 IF \A other \in RouteMap(new) : other.id # route.id
                 THEN {Change("route_removed", m, route.id, "", SecuritySensitive(route))}
                 ELSE UNION {Fields(route, other) : other \in {x \in RouteMap(new) : x.id = route.id}}
    <3>1. RouteChangesOfCurrent(m, old, new) = UNION {Of(route) : route \in RouteMap(old)}
      BY DEF RouteChangesOfCurrent
    <3>2. Change("field_changed", m, a.id, f, TRUE) \in Fields(a, b)
      BY <2>1
    <3> HIDE DEF Fields
    <3>3. Change("field_changed", m, a.id, f, TRUE) \in Of(a)
      BY <1>1, <1>2, <3>2
    <3> HIDE DEF Of
    <3>4. Change("field_changed", m, a.id, f, TRUE) \in RouteChangesOfCurrent(m, old, new)
      BY <1>1, <3>1, <3>3
    <3>5. Change("field_changed", m, a.id, f, TRUE) \in RouteChanges(m, old, new)
      BY <3>4 DEF RouteChanges
    <3> QED
      BY <3>5 DEF Change
  <2>2. RouteTypeOK(a) /\ RouteTypeOK(b)
    BY DEF ModelTypeOK, RoutesOf
  <2>3. ~a.credentials /\ ~b.credentials
    OBVIOUS
  <2> QED
    BY <1>2, <2>1, <2>2, <2>3, ComparedAll
<1>3. ASSUME NEW a \in Sensitive(old) PROVE a \in Sensitive(new)
  <2>1. a \in RoutesOf(old) /\ SecuritySensitive(a)
    BY DEF Sensitive
  <2>2. \E b \in RoutesOf(new) : b.id = a.id
    <3>1. SUFFICES ASSUME \A b \in RouteMap(new) : b.id # a.id PROVE FALSE
      BY <1>1
    <3>2. Change("route_removed", m, a.id, "", SecuritySensitive(a)) \in RouteChangesOfCurrent(m, old, new)
      BY <1>1, <2>1, <3>1 DEF RouteChangesOfCurrent
    <3>3. Change("route_removed", m, a.id, "", SecuritySensitive(a)) \in RouteChanges(m, old, new)
      BY <3>2 DEF RouteChanges
    <3> QED
      BY <2>1, <3>3 DEF Change
  <2> QED
    BY <1>2, <2>1, <2>2 DEF Sensitive
<1>4. ASSUME NEW b \in Sensitive(new) PROVE b \in Sensitive(old)
  <2>1. b \in RoutesOf(new) /\ SecuritySensitive(b)
    BY DEF Sensitive
  <2>2. \E a \in RoutesOf(old) : a.id = b.id
    <3>1. SUFFICES ASSUME \A a \in RouteMap(old) : a.id # b.id PROVE FALSE
      BY <1>1
    <3>2. Change("route_added", m, b.id, "", SecuritySensitive(b)) \in RouteChanges(m, old, new)
      BY <1>1, <2>1, <3>1 DEF RouteChanges
    <3> QED
      BY <2>1, <3>2 DEF Change
  <2> QED
    BY <1>2, <2>1, <2>2 DEF Sensitive
<1> QED
  BY <1>3, <1>4

\* A diff that asks for no review leaves the answer to every name as it is.
LEMMA SilentDiff ==
    ASSUME NEW current \in Registries, NEW candidate \in Registries,
           ValidateSecurityInvariants(current), ValidateSecurityInvariants(candidate),
           DistinctIds(current), DistinctIds(candidate),
           ~ReviewRequired(DiffTo(current, candidate)), NEW name
    PROVE  Matched(current, "any", name) = Matched(candidate, "any", name)
<1>1. /\ Listed(current) /\ DOMAIN current.models \subseteq ToSet(NameOrder)
      /\ \A m \in DOMAIN current.models : ModelTypeOK(current.models[m])
      /\ Listed(candidate) /\ DOMAIN candidate.models \subseteq ToSet(NameOrder)
      /\ \A m \in DOMAIN candidate.models : ModelTypeOK(candidate.models[m])
  BY RegistryListed
<1>2. \A c \in DiffTo(current, candidate) : ~c.review
  BY DEF ReviewRequired
<1>3. ASSUME NEW m \in DOMAIN current.models PROVE m \in DOMAIN candidate.models
  <2>1. SUFFICES ASSUME m \notin DOMAIN candidate.models PROVE FALSE
    OBVIOUS
  <2>2. Change("model_removed", m, "", "", TRUE) \in DiffTo(current, candidate)
    BY <1>3, <2>1 DEF DiffTo
  <2> QED
    BY <1>2, <2>2 DEF Change
<1>4. ASSUME NEW m \in DOMAIN current.models
      PROVE  \A c \in ModelChanges(m, current.models[m], candidate.models[m]) : ~c.review
  BY <1>2, <1>3 DEF DiffTo
<1>5. ASSUME NEW m \in DOMAIN current.models
      PROVE  ToSet(current.models[m].aliases) = ToSet(candidate.models[m].aliases)
  <2>1. ASSUME NEW a \in ToSet(candidate.models[m].aliases) \ ToSet(current.models[m].aliases) PROVE FALSE
    <3>1. Change("alias_added", m, "", a, TRUE) \in ModelChanges(m, current.models[m], candidate.models[m])
      BY <2>1 DEF ModelChanges
    <3> QED
      BY <1>4, <3>1 DEF Change
  <2>2. ASSUME NEW a \in ToSet(current.models[m].aliases) \ ToSet(candidate.models[m].aliases) PROVE FALSE
    <3>1. Change("alias_removed", m, "", a, TRUE) \in ModelChanges(m, current.models[m], candidate.models[m])
      BY <2>2 DEF ModelChanges
    <3> QED
      BY <1>4, <3>1 DEF Change
  <2> QED
    BY <2>1, <2>2
<1>6. ASSUME NEW m \in DOMAIN current.models
      PROVE  Sensitive(current.models[m]) = Sensitive(candidate.models[m])
  <2>1. \A c \in RouteChanges(m, current.models[m], candidate.models[m]) : ~c.review
    BY <1>4 DEF ModelChanges
  <2>2. \A route \in RoutesOf(current.models[m]) \cup RoutesOf(candidate.models[m]) : ~route.credentials
    BY <1>3 DEF ValidateSecurityInvariants
  <2>3. /\ \A i, j \in DOMAIN current.models[m].routes :
             current.models[m].routes[i].id = current.models[m].routes[j].id => i = j
        /\ \A i, j \in DOMAIN candidate.models[m].routes :
             candidate.models[m].routes[i].id = candidate.models[m].routes[j].id => i = j
    BY <1>3 DEF DistinctIds
  <2> QED
    BY <1>1, <1>3, <2>1, <2>2, <2>3, SilentRoutes
<1>7. ASSUME NEW m \in DOMAIN candidate.models, m \notin DOMAIN current.models
      PROVE  Sensitive(candidate.models[m]) = {}
  <2>1. Change("model_added", m, "", "", Sensitive(candidate.models[m]) # {}) \in DiffTo(current, candidate)
    <3>1. PICK c : c = Change("model_added", m, "", "", Sensitive(candidate.models[m]) # {})
      OBVIOUS
    <3>2. c \in DiffTo(current, candidate)
      BY <1>7, <3>1 DEF DiffTo
    <3> QED
      BY <3>1, <3>2, Zenon
  <2> QED
    BY <1>2, <2>1 DEF Change
<1>8. ASSUME NEW m \in DOMAIN current.models, NEW route
      PROVE  /\ route \in RoutesOf(current.models[m]) /\ Matches(current.models[m], route, "any", name)
                <=> route \in RoutesOf(candidate.models[m]) /\ Matches(candidate.models[m], route, "any", name)
             /\ Answer(current.models[m], route) = Answer(candidate.models[m], route)
  <2>1. current.models[m].canonical = m /\ candidate.models[m].canonical = m
    BY <1>3 DEF ValidateSecurityInvariants
  <2>2. Contains(current.models[m].aliases, name) <=> Contains(candidate.models[m].aliases, name)
    <3>1. /\ current.models[m].aliases \in Seq(ToSet(current.models[m].aliases))
          /\ candidate.models[m].aliases \in Seq(ToSet(candidate.models[m].aliases))
      BY <1>1, <1>3 DEF ModelTypeOK
    <3>2. /\ Contains(current.models[m].aliases, name) <=> name \in ToSet(current.models[m].aliases)
          /\ Contains(candidate.models[m].aliases, name) <=> name \in ToSet(candidate.models[m].aliases)
      BY <3>1, ContainsIs
    <3> QED
      BY <1>5, <3>2
  <2>3. Matches(current.models[m], route, "any", name) <=> Matches(candidate.models[m], route, "any", name)
    BY <2>1, <2>2 DEF Matches, MatchesRequestModel
  <2>4. SelectableForVerification(route) =>
           (route \in RoutesOf(current.models[m]) <=> route \in RoutesOf(candidate.models[m]))
    BY <1>6 DEF Sensitive, SecuritySensitive
  <2> QED
    BY <2>1, <2>3, <2>4 DEF Matches, Answer
<1>9. ASSUME NEW x PROVE x \in Matched(current, "any", name) <=> x \in Matched(candidate, "any", name)
  <2>1. ASSUME x \in Matched(current, "any", name) PROVE x \in Matched(candidate, "any", name)
    <3>1. PICK m \in DOMAIN current.models : \E route \in RoutesOf(current.models[m]) :
             Matches(current.models[m], route, "any", name) /\ x = Answer(current.models[m], route)
      BY <1>1, <2>1, MatchedRoute
    <3>a. PICK route \in RoutesOf(current.models[m]) :
             Matches(current.models[m], route, "any", name) /\ x = Answer(current.models[m], route)
      BY <3>1
    <3>2. /\ m \in ToSet(NameOrder) \cap DOMAIN candidate.models /\ route \in RoutesOf(candidate.models[m])
          /\ Matches(candidate.models[m], route, "any", name) /\ x = Answer(candidate.models[m], route)
      BY <1>1, <1>3, <1>8, <3>a
    <3> QED
      BY <1>1, <3>2, MatchedIs
  <2>2. ASSUME x \in Matched(candidate, "any", name) PROVE x \in Matched(current, "any", name)
    <3>1. PICK m \in DOMAIN candidate.models : \E route \in RoutesOf(candidate.models[m]) :
             Matches(candidate.models[m], route, "any", name) /\ x = Answer(candidate.models[m], route)
      BY <1>1, <2>2, MatchedRoute
    <3>a. PICK route \in RoutesOf(candidate.models[m]) :
             Matches(candidate.models[m], route, "any", name) /\ x = Answer(candidate.models[m], route)
      BY <3>1
    <3>2. route \in Sensitive(candidate.models[m])
      BY <3>a DEF Sensitive, SecuritySensitive, Matches
    <3>3. m \in DOMAIN current.models
      BY <1>7, <3>2
    <3>4. /\ m \in ToSet(NameOrder) \cap DOMAIN current.models /\ route \in RoutesOf(current.models[m])
          /\ Matches(current.models[m], route, "any", name) /\ x = Answer(current.models[m], route)
      BY <1>1, <1>8, <3>a, <3>3
    <3> QED
      BY <1>1, <3>4, MatchedIs
  <2> QED
    BY <2>1, <2>2
<1> QED
  BY <1>9

\* For every set of registries that may be signed and every chain of updates that
\* verify_update_to accepts: no route loses what the first registry promised, and a
\* diff_to that asks for no review hides no change that matters.
THEOREM RegistryUpdatesAreSafe == RegistrySpec => []UpdatesAreSafe
<1>1. ChainInv => UpdatesAreSafe
  <2>1. ASSUME ChainInv PROVE SilentDiffIsHarmless
    BY <2>1, SilentDiff DEF ChainInv, SilentDiffIsHarmless
  <2> QED
    BY <2>1, ChainKeeps DEF UpdatesAreSafe
<1> QED
  BY <1>1, ChainInvHolds, PTL

-----------------------------------------------------------------------------
(* What a request is sent over *)

\* The lists of a client are lists.
ClientListed(c) ==
    Listed(c.registry) /\ \A m \in DOMAIN c.routing : c.routing[m] \in Seq(ToSet(c.routing[m]))

\* Sorting candidates by provider adds none.
LEMMA InOrderIs ==
    ASSUME NEW S, NEW order \in Seq(S), NEW A, NEW candidates \in Seq(A)
    PROVE  /\ [i \in DOMAIN order |-> Keep(candidates, {c \in ToSet(candidates) : c.route.provider = order[i]})]
                 \in Seq(Seq(A))
           /\ InOrder(order, candidates) \in Seq(A)
           /\ ToSet(InOrder(order, candidates)) \subseteq ToSet(candidates)
<1>1. PICK ss : ss = [i \in DOMAIN order |-> Keep(candidates, {c \in ToSet(candidates) : c.route.provider = order[i]})]
  OBVIOUS
<1>2. \A i \in DOMAIN order : ss[i] \in Seq(A) /\ ToSet(ss[i]) \subseteq ToSet(candidates)
  BY <1>1, KeepSet
<1>3. ss \in Seq(Seq(A))
  <2>1. PICK n, T : n = Len(order) /\ T = Seq(A)
    OBVIOUS
  <2>2. n \in Nat /\ DOMAIN order = 1..n
    BY <2>1, LenProperties
  <2>3. ss \in [1..n -> T]
    BY <1>1, <1>2, <2>1, <2>2
  <2>4. ss \in Seq(T)
    BY <2>2, <2>3
  <2> QED
    BY <2>1, <2>4
<1>4. FlattenSeq(ss) \in Seq(A) /\ ToSet(FlattenSeq(ss)) = AllOf(ss)
  BY <1>3, FlattenHolds
<1>5. AllOf(ss) \subseteq ToSet(candidates)
  <2>1. DOMAIN ss = DOMAIN order
    BY <1>1
  <2>2. ASSUME NEW x \in AllOf(ss) PROVE x \in ToSet(candidates)
    <3>1. PICK k \in DOMAIN ss : x \in ToSet(ss[k])
      BY DEF AllOf, ToSet
    <3> QED
      BY <1>2, <2>1, <3>1
  <2> QED
    BY <2>2
<1>6. InOrder(order, candidates) = FlattenSeq(ss)
  BY <1>1 DEF InOrder
<1> QED
  BY <1>1, <1>3, <1>4, <1>5, <1>6

\* Candidates are matching routes.
LEMMA CandidatesType ==
    ASSUME NEW c, ClientListed(c), NEW provider, NEW name, NEW purpose
    PROVE  /\ Candidates(c, provider, name, purpose) \in Seq(AllAnswers(c.registry, provider, name))
           /\ ToSet(Candidates(c, provider, name, purpose)) \subseteq Matched(c.registry, provider, name)
<1>1. PICK matching, A : matching = MatchingRoutes(c.registry, provider, name) /\ A = AllAnswers(c.registry, provider, name)
  OBVIOUS
<1>2. matching \in Seq(A) /\ ToSet(matching) = Matched(c.registry, provider, name)
  BY <1>1, MatchingType DEF ClientListed, Matched
<1>3. \/ Candidates(c, provider, name, purpose) = matching
      \/ /\ matching[1].model \in DOMAIN c.routing
         /\ Candidates(c, provider, name, purpose) = InOrder(c.routing[matching[1].model], matching)
  BY <1>1 DEF Candidates
<1>4. ASSUME NEW m \in DOMAIN c.routing
      PROVE  InOrder(c.routing[m], matching) \in Seq(A) /\ ToSet(InOrder(c.routing[m], matching)) \subseteq ToSet(matching)
  <2>1. c.routing[m] \in Seq(ToSet(c.routing[m]))
    BY DEF ClientListed
  <2> QED
    BY <1>2, <2>1, InOrderIs
<1> QED
  BY <1>1, <1>2, <1>3, <1>4

\* A selected route matches the request and agrees with the matrix.
LEMMA SelectedIs ==
    ASSUME NEW c, ClientListed(c), NEW provider, NEW name, NEW purpose
    PROVE  /\ SelectRoutes(c, provider, name, purpose) \in Seq(AllAnswers(c.registry, provider, name))
           /\ \A x \in ToSet(SelectRoutes(c, provider, name, purpose)) :
                 /\ x \in Matched(c.registry, provider, name)
                 /\ ValidateRoute(c.matrix[x.route.provider], x.route)
                 /\ x.route.provider \in DOMAIN c.matrix
<1>1. PICK candidates, A : /\ candidates = Candidates(c, provider, name, purpose)
                          /\ A = AllAnswers(c.registry, provider, name)
  OBVIOUS
<1>2. PICK installed : installed = {x \in ToSet(candidates) : x.route.provider \in DOMAIN c.adapters}
  OBVIOUS
<1>3. PICK chosen : chosen = {x \in installed : RouteSatisfies(c, x.route, c.matrix[x.route.provider], purpose)}
  OBVIOUS
<1>4. SelectRoutes(c, provider, name, purpose) =
        IF \A x \in installed : x.route.provider \in DOMAIN c.matrix /\ ValidateRoute(c.matrix[x.route.provider], x.route)
        THEN Keep(candidates, chosen) ELSE <<>>
  BY <1>1, <1>2, <1>3 DEF SelectRoutes
<1>5. candidates \in Seq(A) /\ ToSet(candidates) \subseteq Matched(c.registry, provider, name)
  BY <1>1, CandidatesType
<1>6. Keep(candidates, chosen) \in Seq(A) /\ ToSet(Keep(candidates, chosen)) = ToSet(candidates) \cap chosen
  BY <1>5, KeepSet
<1>7. <<>> \in Seq(A) /\ ToSet(<<>>) = {}
  BY EmptySeq DEF ToSet
<1> QED
  BY <1>1, <1>2, <1>3, <1>4, <1>5, <1>6, <1>7

\* The route of an explicit provider is a selected one, for some name.
LEMMA VerifiedRouteIs ==
    ASSUME NEW c, ClientListed(c), NEW provider, NEW name, NEW purpose,
           VerifyRouteFor(c, provider, name, purpose) # Nothing
    PROVE  \E other : VerifyRouteFor(c, provider, name, purpose) \in ToSet(SelectRoutes(c, provider, other, purpose))
<1>1. PICK offered : offered = Keep(NameOrder, {m \in DOMAIN c.registry.models :
                        \E route \in RoutesOf(c.registry.models[m]) : route.provider = provider})
  OBVIOUS
<1>2. PICK tried : tried = IF name = "" THEN offered ELSE <<name>>
  OBVIOUS
<1>3. PICK found : found = Keep(tried, {m \in ToSet(tried) : SelectRoutes(c, provider, m, purpose) # <<>>})
  OBVIOUS
<1>4. VerifyRouteFor(c, provider, name, purpose) =
        IF found = <<>> THEN Nothing ELSE SelectRoutes(c, provider, found[1], purpose)[1]
  BY <1>1, <1>2, <1>3 DEF VerifyRouteFor
<1>5. PICK T : T = ToSet(NameOrder) \cup {name}
  OBVIOUS
<1>6. tried \in Seq(T)
  <2>1. offered \in Seq(ToSet(NameOrder))
    BY <1>1, RegistryAssumption, KeepSet
  <2>2. offered \in Seq(T)
    BY <1>5, <2>1, SeqMonotonic
  <2>3. <<name>> \in Seq(T)
    BY <1>5
  <2> QED
    BY <1>2, <2>2, <2>3
<1>7. found \in Seq(T) /\ ToSet(found) \subseteq {m \in ToSet(tried) : SelectRoutes(c, provider, m, purpose) # <<>>}
  BY <1>3, <1>6, KeepSet
<1>8. found # <<>>
  BY <1>4
<1>9. ASSUME NEW S, NEW s \in Seq(S), s # <<>> PROVE s[1] \in ToSet(s)
  <2>1. 1 \in DOMAIN s
    BY <1>9, EmptySeq, LenProperties
  <2> QED
    BY <2>1 DEF ToSet
<1>10. SelectRoutes(c, provider, found[1], purpose) # <<>>
  BY <1>7, <1>8, <1>9
<1>11. SelectRoutes(c, provider, found[1], purpose)[1] \in ToSet(SelectRoutes(c, provider, found[1], purpose))
  BY <1>9, <1>10, SelectedIs
<1> QED
  BY <1>4, <1>8, <1>11

\* A sequence is a sequence of its own elements.
LEMMA KeepRange ==
    ASSUME NEW S, NEW s \in Seq(S)
    PROVE  s \in Seq(ToSet(s))
<1>1. Len(s) \in Nat /\ DOMAIN s = 1..Len(s) /\ s = [i \in 1..Len(s) |-> s[i]]
  BY LenProperties
<1>2. PICK n, T : n = Len(s) /\ T = ToSet(s)
  OBVIOUS
<1>3. s \in [1..n -> T]
  BY <1>1, <1>2 DEF ToSet
<1>4. s \in Seq(T)
  BY <1>1, <1>2, <1>3
<1> QED
  BY <1>2, <1>4

\* What a build leaves of a registry: the same models, less some that have no routes
\* left, and of the routes those that are no fixtures.
LEMMA UsedRegistry ==
    ASSUME NEW config \in Configs, NEW r \in Registries, NEW c, c = Built(config, r)
    PROVE  /\ ClientListed(c)
           /\ DOMAIN c.registry.models \subseteq DOMAIN r.models
           /\ \A m \in DOMAIN c.registry.models :
                 /\ c.registry.models[m].canonical = r.models[m].canonical
                 /\ RoutesOf(c.registry.models[m]) \subseteq RoutesOf(r.models[m])
                 /\ ~c.demo => \A route \in RoutesOf(c.registry.models[m]) : ~FixtureFamily(route.family)
<1>1. /\ c.routing = config.routing /\ c.demo = config.demo
      /\ c.registry = IF config.demo THEN r ELSE DropFixtureRoutes(r)
  BY DEF Built
<1>2. \A m \in DOMAIN c.routing : c.routing[m] \in Seq(ToSet(c.routing[m]))
  BY <1>1, ConfigsAssumption
<1>3. Listed(r) /\ \A m \in DOMAIN r.models : ModelTypeOK(r.models[m])
  BY RegistryListed
<1>4. CASE config.demo
  BY <1>1, <1>2, <1>3, <1>4 DEF ClientListed
<1>5. CASE ~config.demo
  <2>1. PICK kept : kept = [m \in DOMAIN r.models |-> Keep(r.models[m].routes,
                              {route \in RoutesOf(r.models[m]) : ~FixtureFamily(route.family)})]
    OBVIOUS
  <2>2. PICK left : left = {x \in DOMAIN r.models : kept[x] # <<>>}
    OBVIOUS
  <2>3. DropFixtureRoutes(r) =
          [r EXCEPT !.models = [m \in left |-> [r.models[m] EXCEPT !.routes = kept[m]]]]
    <3>1. left = {x \in DOMAIN r.models : Keep(r.models[x].routes,
                     {route \in RoutesOf(r.models[x]) : ~FixtureFamily(route.family)}) # <<>>}
      BY <2>1, <2>2
    <3>2. [m \in left |-> [r.models[m] EXCEPT !.routes = kept[m]]] =
          [m \in left |-> [r.models[m] EXCEPT !.routes = Keep(r.models[m].routes,
                              {route \in RoutesOf(r.models[m]) : ~FixtureFamily(route.family)})]]
      BY <2>1, <2>2
    <3> QED
      BY <3>1, <3>2 DEF DropFixtureRoutes
  <2>4. "models" \in DOMAIN r
    BY RegistryAssumption
  <2>5. c.registry.models = [m \in left |-> [r.models[m] EXCEPT !.routes = kept[m]]]
    BY <1>1, <1>5, <2>3, <2>4
  <2>6. ASSUME NEW m \in left
        PROVE  /\ c.registry.models[m].canonical = r.models[m].canonical
               /\ c.registry.models[m].routes = kept[m]
    <3>1. {"canonical", "routes"} \subseteq DOMAIN r.models[m]
      BY <1>3, <2>2 DEF ModelTypeOK
    <3>2. c.registry.models[m] = [r.models[m] EXCEPT !.routes = kept[m]]
      BY <2>5
    <3> QED
      BY <3>1, <3>2
  <2>7. ASSUME NEW m \in left
        PROVE  /\ kept[m] \in Seq(RoutesOf(r.models[m]))
               /\ ToSet(kept[m]) = {route \in RoutesOf(r.models[m]) : ~FixtureFamily(route.family)}
    <3>1. m \in DOMAIN r.models
      BY <2>2
    <3>2. PICK s, S, set : /\ s = r.models[m].routes /\ S = RoutesOf(r.models[m])
                           /\ set = {route \in RoutesOf(r.models[m]) : ~FixtureFamily(route.family)}
      OBVIOUS
    <3>3. s \in Seq(S) /\ ToSet(s) = S /\ set \subseteq S
      BY <1>3, <3>1, <3>2 DEF Listed, RoutesOf
    <3>4. kept[m] = Keep(s, set)
      BY <2>1, <3>1, <3>2
    <3>5. Keep(s, set) \in Seq(S) /\ ToSet(Keep(s, set)) = ToSet(s) \cap set
      BY <3>3, KeepSet
    <3> QED
      BY <3>2, <3>3, <3>4, <3>5
  <2>8. ASSUME NEW m \in left PROVE kept[m] \in Seq(ToSet(kept[m]))
    BY <2>7, KeepRange
  <2>9. DOMAIN c.registry.models = left /\ left \subseteq DOMAIN r.models
    BY <2>2, <2>5
  <2>10. ClientListed(c)
    BY <1>2, <2>6, <2>8, <2>9 DEF ClientListed, Listed, RoutesOf
  <2> QED
    BY <2>6, <2>7, <2>9, <2>10 DEF RoutesOf
<1> QED
  BY <1>4, <1>5

\* A client is what some configuration builds from the registry, and was accepted.
ClientInv ==
    /\ registry \in Registries
    /\ client = Nothing => sent = Nothing
    /\ client # Nothing => \E config \in Configs :
          /\ client = Built(config, registry)
          /\ ValidateSecurityInvariants(registry)
          /\ ValidateRegistryRoutes(client.matrix, client.registry)
          /\ RoutingValid(client)

\* The form of a body and the forms an adapter takes leave nothing open.
LEMMA FormsTaken ==
    ASSUME NEW profile, profile.execution \in Executions, NEW mode \in Modes, NEW adapter,
           NEW form, form = AdaptRequest(profile, mode), form # "error", form \in Accepts(adapter, mode)
    PROVE  /\ profile.encrypt \/ profile.decrypt => form # "plaintext"
           /\ form = "fixture" => adapter = "demo"
<1>1. form = RequestConfidentiality(profile)
  BY DEF AdaptRequest
<1>2. profile.encrypt \/ profile.decrypt => form # "plaintext"
  BY <1>1 DEF RequestConfidentiality, Required, Executions
<1>3. ASSUME form = "fixture", adapter # "demo" PROVE FALSE
  <2>1. "fixture" \in Accepts(adapter, mode)
    BY <1>3
  <2> QED
    BY <1>3, <2>1 DEF Accepts, Modes
<1> QED
  BY <1>2, <1>3

\* What a request is sent as.
LEMMA SentIs ==
    ASSUME ClientInv, NEW provider, NEW name, NEW mode \in Modes, Send(provider, name, mode)
    PROVE  NothingInTheClear'
<1>1. PICK purpose : purpose = IF mode = "stream" THEN "chat" ELSE mode
  OBVIOUS
<1>2. PICK one : one = VerifyRouteFor(client, provider, name, purpose)
  OBVIOUS
<1>3. PICK selected : selected = IF provider = "any" THEN SelectRoutes(client, provider, name, purpose)
                                 ELSE IF one = Nothing THEN <<>> ELSE <<one>>
  OBVIOUS
<1>4. PICK candidates : candidates = IF mode = "stream" THEN Streamable(selected) ELSE selected
  OBVIOUS
<1>5. client # Nothing /\ client' = client
  BY DEF Send
<1>6. \E x \in ToSet(candidates) :
         /\ AdaptRequest(client.matrix[x.route.provider], mode) # "error"
         /\ AdaptRequest(client.matrix[x.route.provider], mode) \in Accepts(client.adapters[x.route.provider], mode)
         /\ sent' = [route |-> x.route, mode |-> mode,
                     form |-> AdaptRequest(client.matrix[x.route.provider], mode),
                     adapter |-> client.adapters[x.route.provider]]
  BY <1>1, <1>2, <1>3, <1>4 DEF Send
<1>7. PICK x \in ToSet(candidates) :
         /\ AdaptRequest(client.matrix[x.route.provider], mode) # "error"
         /\ AdaptRequest(client.matrix[x.route.provider], mode) \in Accepts(client.adapters[x.route.provider], mode)
         /\ sent' = [route |-> x.route, mode |-> mode,
                     form |-> AdaptRequest(client.matrix[x.route.provider], mode),
                     adapter |-> client.adapters[x.route.provider]]
  BY <1>6
<1>8. PICK config \in Configs : client = Built(config, registry)
  BY <1>5 DEF ClientInv
<1>9. /\ ClientListed(client)
      /\ \A m \in DOMAIN client.registry.models :
            ~client.demo => \A route \in RoutesOf(client.registry.models[m]) : ~FixtureFamily(route.family)
  BY <1>8, UsedRegistry DEF ClientInv
<1>10. \E other : \/ selected = SelectRoutes(client, provider, other, purpose)
                  \/ selected = <<>>
                  \/ selected = <<one>> /\ one \in ToSet(SelectRoutes(client, provider, other, purpose))
  <2>1. one # Nothing => \E other : one \in ToSet(SelectRoutes(client, provider, other, purpose))
    BY <1>2, <1>9, VerifiedRouteIs
  <2> QED
    BY <1>3, <2>1
<1>11. PICK other : \/ selected = SelectRoutes(client, provider, other, purpose)
                    \/ selected = <<>>
                    \/ selected = <<one>> /\ one \in ToSet(SelectRoutes(client, provider, other, purpose))
  BY <1>10
<1>12. PICK S, chosen : /\ S = AllAnswers(client.registry, provider, other) \cup {one}
                        /\ chosen = SelectRoutes(client, provider, other, purpose)
  OBVIOUS
<1>13. chosen \in Seq(S)
  <2>1. chosen \in Seq(AllAnswers(client.registry, provider, other))
    BY <1>9, <1>12, SelectedIs
  <2> QED
    BY <1>12, <2>1, SeqMonotonic
<1>14. selected \in Seq(S) /\ ToSet(selected) \subseteq ToSet(chosen)
  <2>1. <<>> \in Seq(S) /\ ToSet(<<>>) = {}
    BY EmptySeq DEF ToSet
  <2>2. <<one>> \in Seq(S) /\ ToSet(<<one>>) = {one}
    BY <1>12 DEF ToSet
  <2> QED
    BY <1>11, <1>12, <1>13, <2>1, <2>2
<1>15. Keep(selected, {y \in ToSet(selected) :
           y.route.streaming # "unsupported" /\ ~y.route.encrypt /\ ~y.route.decrypt}) = Streamable(selected)
  BY DEF Streamable
<1>16. ToSet(Streamable(selected)) \subseteq {y \in ToSet(selected) :
           y.route.streaming # "unsupported" /\ ~y.route.encrypt /\ ~y.route.decrypt}
  BY <1>14, <1>15, KeepSet
<1>17. /\ x \in ToSet(chosen)
       /\ mode = "stream" => ~x.route.encrypt /\ ~x.route.decrypt
  BY <1>4, <1>7, <1>14, <1>16
<1>18. /\ x \in Matched(client.registry, provider, other)
       /\ ValidateRoute(client.matrix[x.route.provider], x.route)
       /\ x.route.provider \in DOMAIN client.matrix
  BY <1>9, <1>12, <1>17, SelectedIs
<1>19. PICK profile : profile = client.matrix[x.route.provider]
  OBVIOUS
<1>20. profile.encrypt = x.route.encrypt /\ profile.decrypt = x.route.decrypt
  BY <1>18, <1>19 DEF ValidateRoute
<1>21. profile.execution \in Executions
  <2>1. client.matrix = config.matrix
    BY <1>8 DEF Built
  <2> QED
    BY <1>18, <1>19, <2>1, ConfigsAssumption
<1>22. PICK form, adapter : form = AdaptRequest(profile, mode) /\ adapter = client.adapters[x.route.provider]
  OBVIOUS
<1>23. /\ profile.encrypt \/ profile.decrypt => form # "plaintext"
       /\ form = "fixture" => adapter = "demo"
  BY <1>7, <1>19, <1>21, <1>22, FormsTaken
<1>24. FixtureFamily(x.route.family) => client.demo
  <2>1. \E m \in DOMAIN client.registry.models : \E route \in RoutesOf(client.registry.models[m]) :
           Matches(client.registry.models[m], route, provider, other) /\ x = Answer(client.registry.models[m], route)
    <3>1. PICK r : r = client.registry
      OBVIOUS
    <3>2. Listed(r)
      BY <1>9, <3>1 DEF ClientListed
    <3>3. x \in Matched(r, provider, other)
      BY <1>18, <3>1
    <3>4. \E m \in DOMAIN r.models : \E route \in RoutesOf(r.models[m]) :
             Matches(r.models[m], route, provider, other) /\ x = Answer(r.models[m], route)
      BY <3>2, <3>3, MatchedRoute
    <3> QED
      BY <3>1, <3>4
  <2>2. PICK m \in DOMAIN client.registry.models : \E route \in RoutesOf(client.registry.models[m]) :
           x = Answer(client.registry.models[m], route)
    BY <2>1
  <2>3. PICK route \in RoutesOf(client.registry.models[m]) : x = Answer(client.registry.models[m], route)
    BY <2>2
  <2>4. x.route = route
    BY <2>3 DEF Answer
  <2> QED
    BY <1>9, <2>4
<1>25. sent' = [route |-> x.route, mode |-> mode, form |-> form, adapter |-> adapter]
  BY <1>7, <1>19, <1>22
<1>26. /\ sent'.route = x.route /\ sent'.mode = mode /\ sent'.form = form /\ sent'.adapter = adapter
  BY <1>25
<1> QED
  BY <1>5, <1>17, <1>20, <1>23, <1>24, <1>26 DEF NothingInTheClear

\* However a client was built and whichever of its routes a request takes, what the
\* registry says must be encrypted is not handed over in the clear.
THEOREM RequestsAreSealed == SelectionSpec => [](ClientInv /\ NothingInTheClear)
<1>1. registry \in Registries /\ SelectionInit => ClientInv /\ NothingInTheClear
  BY DEF SelectionInit, ClientInv, NothingInTheClear
<1>2. ASSUME ClientInv, NothingInTheClear,
             [SelectionNext /\ UNCHANGED registryVars]_<<registryVars, selectionVars>>
      PROVE  ClientInv' /\ NothingInTheClear'
  <2>1. registry' = registry
    BY <1>2 DEF registryVars
  <2>2. ASSUME NEW config \in Configs, Build(config)
        PROVE  ClientInv' /\ NothingInTheClear'
    <3>1. /\ client = Nothing /\ sent' = sent /\ client' = Built(config, registry)
          /\ ValidateSecurityInvariants(registry)
          /\ ValidateRegistryRoutes(config.matrix, Built(config, registry).registry)
          /\ RoutingValid(Built(config, registry))
      BY <2>2 DEF Build
    <3>2. sent' = Nothing
      BY <1>2, <3>1 DEF ClientInv
    <3>3. client'.matrix = config.matrix
      BY <3>1 DEF Built
    <3>4. registry' \in Registries
      BY <1>2, <2>1 DEF ClientInv
    <3>5. /\ client' = Built(config, registry') /\ ValidateSecurityInvariants(registry')
          /\ ValidateRegistryRoutes(client'.matrix, client'.registry)
          /\ RoutingValid(client')
      BY <2>1, <3>1, <3>3
    <3>6. ClientInv'
      BY <3>2, <3>4, <3>5 DEF ClientInv
    <3> QED
      BY <3>2, <3>6 DEF NothingInTheClear
  <2>3. ASSUME NEW provider, NEW name, NEW mode \in Modes, Send(provider, name, mode)
        PROVE  ClientInv' /\ NothingInTheClear'
    <3>1. client' = client /\ client # Nothing
      BY <2>3 DEF Send
    <3>2. ClientInv'
      BY <1>2, <2>1, <3>1 DEF ClientInv
    <3> QED
      BY <1>2, <2>3, <3>2, SentIs
  <2>4. CASE UNCHANGED <<registryVars, selectionVars>>
    BY <1>2, <2>4 DEF ClientInv, NothingInTheClear, registryVars, selectionVars
  <2> QED
    BY <1>2, <2>2, <2>3, <2>4 DEF SelectionNext
<1> QED
  BY <1>1, <1>2, PTL DEF SelectionSpec

-----------------------------------------------------------------------------
(* What is listed and what is served *)

\* One list filtered in several ways.
LEMMA FilteredLists ==
    ASSUME NEW O, NEW order \in Seq(O), NEW S, NEW s \in Seq(S), NEW p,
           NEW ss, ss = [i \in DOMAIN order |-> Keep(s, p[i])]
    PROVE  ss \in Seq(Seq(S)) /\ DOMAIN ss = DOMAIN order
<1>1. PICK n, T : n = Len(order) /\ T = Seq(S)
  OBVIOUS
<1>2. n \in Nat /\ DOMAIN order = 1..n
  BY <1>1, LenProperties
<1>3. \A i \in 1..n : Keep(s, p[i]) \in T
  BY <1>1, KeepSet
<1>4. ss \in [1..n -> T]
  BY <1>2, <1>3
<1>5. ss \in Seq(T)
  BY <1>2, <1>4
<1> QED
  BY <1>1, <1>5

\* KeepFlatten, list by list.
LEMMA KeepOfFlat ==
    ASSUME NEW S, NEW ss \in Seq(Seq(S)), NEW set
    PROVE  Keep(FlattenSeq(ss), set) = FlattenSeq([i \in DOMAIN ss |-> Keep(ss[i], set)])
<1>1. PICK g : g = [s \in Seq(S) |-> Keep(s, set)]
  OBVIOUS
<1>2. \A i \in DOMAIN ss : ss[i] \in Seq(S)
  BY ElementOfSeq, LenProperties
<1>3. \A i \in DOMAIN ss : g[ss[i]] = Keep(ss[i], set)
  BY <1>1, <1>2
<1>4. Each(g, ss) = [i \in DOMAIN ss |-> Keep(ss[i], set)]
  BY <1>3 DEF Each
<1>5. Keep(FlattenSeq(ss), set) = FlattenSeq(Each(g, ss))
  BY <1>1, KeepFlatten
<1> QED
  BY <1>4, <1>5

\* EachFlatten, list by list.
LEMMA EachOfFlat ==
    ASSUME NEW S, NEW e, NEW ss \in Seq(Seq(S))
    PROVE  Each(e, FlattenSeq(ss)) = FlattenSeq([i \in DOMAIN ss |-> Each(e, ss[i])])
<1>1. PICK g : g = [s \in Seq(S) |-> Each(e, s)]
  OBVIOUS
<1>2. \A i \in DOMAIN ss : ss[i] \in Seq(S)
  BY ElementOfSeq, LenProperties
<1>3. \A i \in DOMAIN ss : g[ss[i]] = Each(e, ss[i])
  BY <1>1, <1>2
<1>4. Each(g, ss) = [i \in DOMAIN ss |-> Each(e, ss[i])]
  BY <1>3 DEF Each
<1>5. Each(e, FlattenSeq(ss)) = FlattenSeq(Each(g, ss))
  <2>1. Each(e, FlattenSeq(ss)) = FlattenSeq(Each([s \in Seq(S) |-> Each(e, s)], ss))
    BY EachFlatten
  <2> QED
    BY <1>1, <2>1
<1> QED
  BY <1>4, <1>5

\* Answers filtered twice are the answers to routes filtered once.
LEMMA ServedAt ==
    ASSUME NEW S, NEW s \in Seq(S), NEW f, NEW V, NEW P, NEW D, NEW chosen,
           \A x \in S : (x \in V /\ f[x] \in P /\ f[x] \in chosen) <=> x \in D
    PROVE  Keep(Keep(Each(f, Keep(s, V)), P), chosen) = Each(f, Keep(s, D))
<1>1. PICK T, u, m, a, b : /\ T = {f[y] : y \in S} /\ u = Keep(s, V) /\ m = Each(f, u)
                           /\ a = P \cap chosen /\ b = {x \in S : f[x] \in P \cap chosen}
  OBVIOUS
<1>2. u \in Seq(S)
  BY <1>1, KeepSet
<1>3. m \in Seq(T)
  BY <1>1, <1>2, EachRange
<1>4. Keep(Keep(m, P), chosen) = Keep(m, a)
  BY <1>1, <1>3, KeepKeep
<1>5. Keep(m, a) = Each(f, Keep(u, b))
  <2>1. Keep(Each(f, u), a) = Each(f, Keep(u, {x \in S : f[x] \in a}))
    BY <1>2, KeepEach
  <2>2. b = {x \in S : f[x] \in a}
    BY <1>1
  <2> QED
    BY <1>1, <2>1, <2>2
<1>6. Keep(u, b) = Keep(s, V \cap b)
  BY <1>1, KeepKeep
<1>7. \A x \in ToSet(s) : x \in V \cap b <=> x \in D
  <2>1. ToSet(s) \subseteq S
    BY ElementOfSeq, LenProperties DEF ToSet
  <2> QED
    BY <1>1, <2>1
<1>8. Keep(s, V \cap b) = Keep(s, D)
  BY <1>7, KeepSame
<1> QED
  BY <1>1, <1>4, <1>5, <1>6, <1>8

\* Answers put in order and then filtered are the routes filtered, put in order.
LEMMA ServedInOrder ==
    ASSUME NEW S, NEW T, NEW f, NEW tt \in Seq(Seq(T)), NEW ss \in Seq(Seq(S)), NEW chosen,
           DOMAIN tt = DOMAIN ss, \A i \in DOMAIN ss : Keep(tt[i], chosen) = Each(f, ss[i])
    PROVE  Keep(FlattenSeq(tt), chosen) = Each(f, FlattenSeq(ss))
<1>1. Keep(FlattenSeq(tt), chosen) = FlattenSeq([i \in DOMAIN tt |-> Keep(tt[i], chosen)])
  BY KeepOfFlat
<1>2. Each(f, FlattenSeq(ss)) = FlattenSeq([i \in DOMAIN ss |-> Each(f, ss[i])])
  BY EachOfFlat
<1>3. [i \in DOMAIN tt |-> Keep(tt[i], chosen)] = [i \in DOMAIN ss |-> Each(f, ss[i])]
  OBVIOUS
<1> QED
  BY <1>1, <1>2, <1>3

\* The listed routes in order, followed by those of other providers, when only
\* routes of the ordered providers are kept of all.
LEMMA ShownInOrder ==
    ASSUME NEW S, NEW tt \in Seq(Seq(S)), NEW t \in Seq(S), NEW ss \in Seq(Seq(S)), NEW E,
           DOMAIN tt = DOMAIN ss, \A i \in DOMAIN ss : Keep(tt[i], E) = ss[i]
    PROVE  Keep(FlattenSeq(tt) \o t, E) = FlattenSeq(ss) \o Keep(t, E)
<1>1. FlattenSeq(tt) \in Seq(S)
  BY FlattenHolds
<1>2. Keep(FlattenSeq(tt) \o t, E) = Keep(FlattenSeq(tt), E) \o Keep(t, E)
  BY <1>1, KeepConcat
<1>3. Keep(FlattenSeq(tt), E) = FlattenSeq([i \in DOMAIN tt |-> Keep(tt[i], E)])
  BY KeepOfFlat
<1>4. [i \in DOMAIN tt |-> Keep(tt[i], E)] = ss
  <2>1. ss = [i \in DOMAIN ss |-> ss[i]]
    BY LenProperties
  <2> QED
    BY <2>1
<1> QED
  BY <1>2, <1>3, <1>4

\* The routes of answers are the routes answered.
LEMMA AnswersRoutes ==
    ASSUME NEW S, NEW s \in Seq(S), NEW f, \A x \in S : f[x].route = x,
           NEW served, served = Each(f, s)
    PROVE  [i \in DOMAIN served |-> served[i].route] = s
<1>1. /\ Len(s) \in Nat /\ DOMAIN s = 1..Len(s) /\ s = [i \in 1..Len(s) |-> s[i]]
      /\ \A i \in DOMAIN s : s[i] \in S
  BY LenProperties, ElementOfSeq
<1>2. DOMAIN served = DOMAIN s /\ \A i \in DOMAIN s : served[i] = f[s[i]]
  BY DEF Each
<1>3. \A i \in DOMAIN s : served[i].route = s[i]
  BY <1>1, <1>2
<1>4. [i \in DOMAIN served |-> served[i].route] = [i \in 1..Len(s) |-> s[i]]
  BY <1>1, <1>2, <1>3
<1> QED
  BY <1>1, <1>4

\* A canonical name that no other model answers to finds the routes of its model.
LEMMA OnlyItsRoutes ==
    ASSUME NEW r, Listed(r), NEW m \in DOMAIN r.models, m \in ToSet(NameOrder),
           \A k \in DOMAIN r.models : r.models[k].canonical = k,
           \A x \in Matched(r, "any", m) : x.model = m
    PROVE  MatchingRoutes(r, "any", m) = RoutesMatching(r.models[m], "any", m)
<1>1. PICK ss, A : ss = ListsOf(r, "any", m) /\ A = AllAnswers(r, "any", m)
  OBVIOUS
<1>2. /\ ss \in Seq(Seq(A)) /\ MatchingRoutes(r, "any", m) = FlattenSeq(ss)
      /\ \A k \in DOMAIN Present(r) : Present(r)[k] \in DOMAIN r.models
  BY <1>1, ListsType
<1>3. DOMAIN ss = DOMAIN Present(r) /\ \A k \in DOMAIN ss : ss[k] = RoutesMatching(r.models[Present(r)[k]], "any", m)
  BY <1>1 DEF ListsOf
<1>4. ToSet(Present(r)) = ToSet(NameOrder) \cap DOMAIN r.models
  BY PresentIs
<1>5. PICK j \in DOMAIN Present(r) : Present(r)[j] = m
  BY <1>4 DEF ToSet
<1>6. \A i, k \in DOMAIN Present(r) : Present(r)[i] = Present(r)[k] => i = k
  BY PresentIs
<1>7. ASSUME NEW i \in DOMAIN ss, i # j PROVE ss[i] = <<>>
  <2>1. PICK k : k = Present(r)[i]
    OBVIOUS
  <2>2. k \in DOMAIN r.models /\ k # m /\ r.models[k].canonical = k
    BY <1>2, <1>3, <1>5, <1>6, <1>7, <2>1
  <2>3. ss[i] = RoutesMatching(r.models[k], "any", m)
    BY <1>3, <2>1
  <2>4. /\ ss[i] \in Seq(ToSet(ss[i]))
        /\ ToSet(ss[i]) = {Answer(r.models[k], route) : route \in
                              {y \in RoutesOf(r.models[k]) : Matches(r.models[k], y, "any", m)}}
    BY <2>2, <2>3, RoutesMatchingHolds DEF Listed
  <2>5. ASSUME NEW x \in ToSet(ss[i]) PROVE FALSE
    <3>1. x \in Matched(r, "any", m)
      <4>1. x \in AllOf(ss)
        BY <2>5 DEF AllOf, ToSet
      <4>2. ToSet(FlattenSeq(ss)) = AllOf(ss)
        BY <1>2, FlattenHolds
      <4> QED
        BY <1>2, <4>1, <4>2 DEF Matched
    <3>2. x.model = k
      BY <2>2, <2>4, <2>5 DEF Answer
    <3> QED
      BY <2>2, <3>1, <3>2
  <2> QED
    BY <2>4, <2>5, EmptyIffNoElement
<1>8. FlattenSeq(ss) = ss[j]
  BY <1>2, <1>3, <1>5, <1>7, FlattenOne
<1> QED
  BY <1>2, <1>3, <1>5, <1>8

\* Of a model that its canonical name finds, every route that may be verified.
LEMMA CanonicalMatches ==
    ASSUME NEW model, model.routes \in Seq(RoutesOf(model)), NEW V,
           V = {route \in RoutesOf(model) : SelectableForVerification(route)}
    PROVE  RoutesMatching(model, "any", model.canonical) = Each(Answering(model), Keep(model.routes, V))
<1>1. {route \in RoutesOf(model) : Matches(model, route, "any", model.canonical)} = V
  BY DEF Matches, MatchesRequestModel
<1>2. PICK found : found = Keep(model.routes, {route \in RoutesOf(model) : Matches(model, route, "any", model.canonical)})
  OBVIOUS
<1>3. RoutesMatching(model, "any", model.canonical) = Each(Answering(model), found)
  BY <1>2, RoutesMatchingIs
<1> QED
  BY <1>1, <1>2, <1>3

Verifiable(model) == {route \in RoutesOf(model) : SelectableForVerification(route)}

\* The routes of a model that a chat request may take.
Servable(c, model) ==
    {route \in Verifiable(model) :
        /\ route.provider \in DOMAIN c.adapters
        /\ RouteSatisfies(c, route, c.matrix[route.provider], "chat")}

\* The matrix agrees with every route of the model that may be verified.
Agrees(c, model) ==
    \A route \in Verifiable(model) :
        route.provider \in DOMAIN c.matrix /\ ValidateRoute(c.matrix[route.provider], route)

\* Where the matrix agrees, selection filters the candidates and refuses nothing.
LEMMA SelectionFilters ==
    ASSUME NEW c, NEW model, Agrees(c, model), NEW name,
           NEW candidates, candidates = Candidates(c, "any", name, "chat"),
           ToSet(candidates) \subseteq {Answer(model, route) : route \in Verifiable(model)}
    PROVE  \E chosen :
              /\ SelectRoutes(c, "any", name, "chat") = Keep(candidates, chosen)
              /\ \A route \in RoutesOf(model) : Answer(model, route) \in ToSet(candidates) =>
                    (Answer(model, route) \in chosen <=> route \in Servable(c, model))
              /\ chosen \subseteq ToSet(candidates)
<1>1. PICK installed : installed = {x \in ToSet(candidates) : x.route.provider \in DOMAIN c.adapters}
  OBVIOUS
<1>2. PICK chosen : chosen = {x \in installed : RouteSatisfies(c, x.route, c.matrix[x.route.provider], "chat")}
  OBVIOUS
<1>3. ASSUME NEW x \in installed
      PROVE  x.route.provider \in DOMAIN c.matrix /\ ValidateRoute(c.matrix[x.route.provider], x.route)
  <2>1. PICK route \in Verifiable(model) : x = Answer(model, route)
    BY <1>1
  <2>2. x.route = route
    BY <2>1 DEF Answer
  <2> QED
    BY <2>2 DEF Agrees
<1>4. SelectRoutes(c, "any", name, "chat") =
        IF \A x \in installed : x.route.provider \in DOMAIN c.matrix /\ ValidateRoute(c.matrix[x.route.provider], x.route)
        THEN Keep(candidates, chosen) ELSE <<>>
  BY <1>1, <1>2 DEF SelectRoutes
<1>5. SelectRoutes(c, "any", name, "chat") = Keep(candidates, chosen)
  BY <1>3, <1>4
<1>6. ASSUME NEW route \in RoutesOf(model), Answer(model, route) \in ToSet(candidates)
      PROVE  Answer(model, route) \in chosen <=> route \in Servable(c, model)
  <2>1. Answer(model, route).route = route
    BY DEF Answer
  <2>2. route \in Verifiable(model)
    <3>1. PICK other \in Verifiable(model) : Answer(model, route) = Answer(model, other)
      BY <1>6
    <3>2. Answer(model, other).route = other
      BY DEF Answer
    <3> QED
      BY <2>1, <3>1, <3>2
  <2>3. Answer(model, route) \in chosen <=>
           /\ route.provider \in DOMAIN c.adapters
           /\ RouteSatisfies(c, route, c.matrix[route.provider], "chat")
    BY <1>1, <1>2, <1>6, <2>1
  <2> QED
    BY <2>2, <2>3 DEF Servable
<1>7. chosen \subseteq ToSet(candidates)
  BY <1>1, <1>2
<1> QED
  BY <1>5, <1>6, <1>7

\* The routes the application is shown, before they are put in order.
Shown(c, model) ==
    {route \in RoutesOf(model) :
        /\ SelectableForVerification(route)
        /\ route.provider \in DOMAIN c.adapters
        /\ route.provider \in DOMAIN c.matrix
        /\ ValidateRoute(c.matrix[route.provider], route)
        /\ RouteSatisfies(c, route, c.matrix[route.provider], "verify")}

\* A route that can be served is among those shown, as one that may be verified.
LEMMA ServableIsShown ==
    ASSUME NEW c, NEW model, Agrees(c, model), NEW route \in RoutesOf(model)
    PROVE  route \in Servable(c, model) <=>
              /\ route \in Shown(c, model)
              /\ RouteSatisfies(c, route, c.matrix[route.provider], "chat")
  BY DEF Servable, Shown, Agrees, Verifiable, RouteSatisfies, SelectableForChat, SelectableForVerification

\* An answer names its route and its model.
LEMMA AnsweringIs ==
    ASSUME NEW model
    PROVE  \A route \in RoutesOf(model) :
              /\ Answering(model)[route] = Answer(model, route)
              /\ Answering(model)[route].route = route
              /\ Answering(model)[route].model = model.canonical
  BY DEF Answering, Answer

\* The answers of a model asked for by its canonical name.
LEMMA MatchingAnswers ==
    ASSUME NEW model, model.routes \in Seq(RoutesOf(model)),
           NEW matching, matching = Each(Answering(model), Keep(model.routes, Verifiable(model)))
    PROVE  /\ Keep(model.routes, Verifiable(model)) \in Seq(RoutesOf(model))
           /\ \E T : matching \in Seq(T)
           /\ ToSet(matching) = {Answer(model, route) : route \in Verifiable(model)}
<1>1. PICK u, f, S : u = Keep(model.routes, Verifiable(model)) /\ f = Answering(model) /\ S = RoutesOf(model)
  OBVIOUS
<1>2. u \in Seq(S) /\ ToSet(u) = Verifiable(model)
  BY <1>1, KeepSet DEF RoutesOf, Verifiable
<1>3. Each(f, u) \in Seq({f[y] : y \in S})
  BY <1>2, EachRange
<1>4. ToSet(Each(f, u)) = {f[x] : x \in ToSet(u)}
  BY DEF Each, ToSet
<1>5. \A x \in Verifiable(model) : f[x] = Answer(model, x)
  BY <1>1, AnsweringIs DEF Verifiable
<1>6. {f[x] : x \in ToSet(u)} = {Answer(model, route) : route \in Verifiable(model)}
  BY <1>2, <1>5
<1> QED
  BY <1>1, <1>2, <1>3, <1>4, <1>6

\* Without a configured order the routes are served as they are listed.
LEMMA ServedAsListed ==
    ASSUME NEW c, NEW model, model.routes \in Seq(RoutesOf(model)), Agrees(c, model),
           model.canonical \notin DOMAIN c.routing,
           MatchingRoutes(c.registry, "any", model.canonical)
              = Each(Answering(model), Keep(model.routes, Verifiable(model))),
           NEW served, served = SelectRoutes(c, "any", model.canonical, "chat")
    PROVE  ChatRoutes(c, model) = [i \in DOMAIN served |-> served[i].route]
<1>1. PICK f, s, S, V, name : /\ f = Answering(model) /\ s = model.routes /\ S = RoutesOf(model)
                              /\ V = Verifiable(model) /\ name = model.canonical
  OBVIOUS
<1>2. PICK matching : matching = Each(f, Keep(s, V))
  OBVIOUS
<1>3. /\ Keep(s, V) \in Seq(S) /\ \E T : matching \in Seq(T)
      /\ ToSet(matching) = {Answer(model, route) : route \in V}
  BY <1>1, <1>2, MatchingAnswers
<1>4. matching # <<>> => matching[1].model = name
  <2>1. ASSUME matching # <<>> PROVE matching[1] \in ToSet(matching)
    <3>1. PICK T : matching \in Seq(T)
      BY <1>3
    <3>2. 1 \in DOMAIN matching
      BY <2>1, <3>1, EmptySeq, LenProperties
    <3> QED
      BY <3>2 DEF ToSet
  <2>2. \A x \in ToSet(matching) : x.model = name
    BY <1>1, <1>3 DEF Answer
  <2> QED
    BY <2>1, <2>2
<1>5. Candidates(c, "any", name, "chat") = matching
  BY <1>1, <1>2, <1>4 DEF Candidates
<1>6. PICK chosen :
         /\ served = Keep(matching, chosen)
         /\ \A route \in RoutesOf(model) : Answer(model, route) \in ToSet(matching) =>
               (Answer(model, route) \in chosen <=> route \in Servable(c, model))
  BY <1>1, <1>3, <1>5, SelectionFilters
<1>7. PICK b, d : b = {x \in S : f[x] \in chosen} /\ d = Servable(c, model)
  OBVIOUS
<1>8. served = Each(f, Keep(Keep(s, V), b))
  BY <1>2, <1>3, <1>6, <1>7, KeepEach
<1>9. s \in Seq(S) /\ ToSet(s) = S
  BY <1>1 DEF RoutesOf
<1>10. Keep(Keep(s, V), b) = Keep(s, d)
  <2>1. Keep(Keep(s, V), b) = Keep(s, V \cap b)
    BY <1>9, KeepKeep
  <2>2. ASSUME NEW x \in S PROVE x \in V \cap b <=> x \in d
    <3>1. f[x] = Answer(model, x)
      BY <1>1, AnsweringIs
    <3>2. x \in V => (x \in b <=> x \in d)
      BY <1>1, <1>3, <1>6, <1>7, <3>1
    <3>3. x \in d => x \in V
      BY <1>1, <1>7 DEF Servable
    <3> QED
      BY <3>2, <3>3
  <2>3. Keep(s, V \cap b) = Keep(s, d)
    BY <1>9, <2>2, KeepSame
  <2> QED
    BY <2>1, <2>3
<1>11. PICK l, E : /\ l = Keep(s, Shown(c, model))
                   /\ E = {route \in ToSet(l) : ChatExecutable(c, model, route)}
  OBVIOUS
<1>12. ChatRoutes(c, model) = Keep(l, E)
  BY <1>1, <1>11 DEF ChatRoutes, ConfidentialRoutes, Shown
<1>13. Keep(l, E) = Keep(s, d)
  <2>1. ToSet(l) = S \cap Shown(c, model)
    BY <1>9, <1>11, KeepSet
  <2>2. Keep(l, E) = Keep(s, Shown(c, model) \cap E)
    BY <1>9, <1>11, KeepKeep
  <2>3. \A x \in S : ChatExecutable(c, model, x) <=> RouteSatisfies(c, x, c.matrix[x.provider], "chat")
    BY DEF ChatExecutable
  <2>4. \A x \in S : x \in Shown(c, model) \cap E <=> x \in d
    BY <1>1, <1>7, <1>11, <2>1, <2>3, ServableIsShown
  <2>5. Keep(s, Shown(c, model) \cap E) = Keep(s, d)
    BY <1>9, <2>4, KeepSame
  <2> QED
    BY <2>2, <2>5
<1>14. Keep(s, d) \in Seq(S)
  BY <1>9, KeepSet
<1>15. [i \in DOMAIN served |-> served[i].route] = Keep(s, d)
  BY <1>1, <1>8, <1>10, <1>14, AnsweringIs, AnswersRoutes
<1> QED
  BY <1>12, <1>13, <1>15

\* The candidates of an empty list, put in order, are none.
LEMMA NothingInOrder ==
    ASSUME NEW O, NEW order \in Seq(O)
    PROVE  InOrder(order, <<>>) = <<>>
<1>1. <<>> \in Seq({}) /\ ToSet(<<>>) = {}
  BY EmptySeq DEF ToSet
<1>2. InOrder(order, <<>>) \in Seq({}) /\ ToSet(InOrder(order, <<>>)) \subseteq ToSet(<<>>)
  BY <1>1, InOrderIs
<1> QED
  BY <1>1, <1>2, EmptyIffNoElement

\* With a configured order both lists follow it, and what it leaves out is in neither.
LEMMA ServedAsOrdered ==
    ASSUME NEW c, NEW model, model.routes \in Seq(RoutesOf(model)), Agrees(c, model),
           model.canonical \in DOMAIN c.routing,
           NEW order, order = c.routing[model.canonical], order \in Seq(ToSet(order)),
           MatchingRoutes(c.registry, "any", model.canonical)
              = Each(Answering(model), Keep(model.routes, Verifiable(model))),
           NEW served, served = SelectRoutes(c, "any", model.canonical, "chat")
    PROVE  ChatRoutes(c, model) = [i \in DOMAIN served |-> served[i].route]
<1>1. PICK f, s, S, V, name : /\ f = Answering(model) /\ s = model.routes /\ S = RoutesOf(model)
                              /\ V = Verifiable(model) /\ name = model.canonical
  OBVIOUS
<1>2. PICK matching : matching = Each(f, Keep(s, V))
  OBVIOUS
<1>3. /\ Keep(s, V) \in Seq(S) /\ \E T : matching \in Seq(T)
      /\ ToSet(matching) = {Answer(model, route) : route \in V}
  BY <1>1, <1>2, MatchingAnswers
<1>4. matching # <<>> => matching[1].model = name
  <2>1. ASSUME matching # <<>> PROVE matching[1] \in ToSet(matching)
    <3>1. PICK T : matching \in Seq(T)
      BY <1>3
    <3>2. 1 \in DOMAIN matching
      BY <2>1, <3>1, EmptySeq, LenProperties
    <3> QED
      BY <3>2 DEF ToSet
  <2>2. \A x \in ToSet(matching) : x.model = name
    BY <1>1, <1>3 DEF Answer
  <2> QED
    BY <2>1, <2>2
<1>5. PICK candidates : candidates = InOrder(order, matching)
  OBVIOUS
<1>6. Candidates(c, "any", name, "chat") = candidates
  <2>1. CASE matching = <<>>
    <3>1. candidates = <<>>
      BY <1>5, <2>1, NothingInOrder
    <3>2. Candidates(c, "any", name, "chat") = matching
      BY <1>1, <1>2, <2>1 DEF Candidates
    <3> QED
      BY <2>1, <3>1, <3>2
  <2>2. CASE matching # <<>>
    BY <1>1, <1>2, <1>4, <1>5, <2>2 DEF Candidates
  <2> QED
    BY <2>1, <2>2
<1>7. PICK p : p = [i \in DOMAIN order |-> {x \in ToSet(matching) : x.route.provider = order[i]}]
  OBVIOUS
<1>8. PICK tt : tt = [i \in DOMAIN order |-> Keep(matching, p[i])]
  OBVIOUS
<1>9. candidates = FlattenSeq(tt)
  <2>1. tt = [i \in DOMAIN order |-> Keep(matching, {x \in ToSet(matching) : x.route.provider = order[i]})]
    BY <1>7, <1>8
  <2> QED
    BY <1>5, <2>1 DEF InOrder
<1>10. PICK T : matching \in Seq(T)
  BY <1>3
<1>11. tt \in Seq(Seq(T)) /\ DOMAIN tt = DOMAIN order
  BY <1>8, <1>10, FilteredLists
<1>12. ToSet(candidates) = AllOf(tt)
  BY <1>9, <1>11, FlattenHolds
<1>13. ASSUME NEW i \in DOMAIN order
       PROVE  ToSet(tt[i]) = {x \in ToSet(matching) : x.route.provider = order[i]}
  <2>1. tt[i] = Keep(matching, p[i]) /\ p[i] = {x \in ToSet(matching) : x.route.provider = order[i]}
    BY <1>7, <1>8
  <2>2. ToSet(Keep(matching, p[i])) = ToSet(matching) \cap p[i]
    BY <1>10, KeepSet
  <2> QED
    BY <2>1, <2>2
<1>14. \A x : x \in ToSet(candidates) <=> x \in ToSet(matching) /\ \E i \in DOMAIN order : x.route.provider = order[i]
  <2>1. \A x : x \in AllOf(tt) <=> \E i \in DOMAIN tt : x \in ToSet(tt[i])
    BY DEF AllOf, ToSet
  <2> QED
    BY <1>11, <1>12, <1>13, <2>1
<1>15. PICK chosen :
         /\ served = Keep(candidates, chosen)
         /\ \A route \in RoutesOf(model) : Answer(model, route) \in ToSet(candidates) =>
               (Answer(model, route) \in chosen <=> route \in Servable(c, model))
         /\ chosen \subseteq ToSet(candidates)
  <2>1. ToSet(candidates) \subseteq {Answer(model, route) : route \in Verifiable(model)}
    BY <1>1, <1>3, <1>14
  <2> QED
    BY <1>1, <1>6, <2>1, SelectionFilters
<1>16. PICK d : d = [i \in DOMAIN order |-> {route \in Servable(c, model) : route.provider = order[i]}]
  OBVIOUS
<1>17. s \in Seq(S) /\ ToSet(s) = S
  BY <1>1 DEF RoutesOf
<1>18. ASSUME NEW i \in DOMAIN order, NEW x \in S
       PROVE  (x \in V /\ f[x] \in p[i] /\ f[x] \in chosen) <=> x \in d[i]
  <2>1. f[x] = Answer(model, x) /\ f[x].route = x
    BY <1>1, AnsweringIs
  <2>2. f[x] \in p[i] <=> f[x] \in ToSet(matching) /\ x.provider = order[i]
    BY <1>7, <2>1
  <2>3. x \in V => f[x] \in ToSet(matching)
    BY <1>3, <2>1
  <2>4. x \in d[i] <=> x \in Servable(c, model) /\ x.provider = order[i]
    BY <1>16
  <2>5. Servable(c, model) \subseteq V
    BY <1>1 DEF Servable
  <2>6. ASSUME x \in V, x.provider = order[i] PROVE f[x] \in chosen <=> x \in Servable(c, model)
    <3>1. f[x].route.provider = order[i]
      BY <2>1, <2>6
    <3>2. f[x] \in ToSet(candidates)
      BY <1>14, <2>3, <2>6, <3>1
    <3> QED
      BY <1>1, <1>15, <2>1, <3>2
  <2> QED
    BY <2>2, <2>3, <2>4, <2>5, <2>6
<1>19. PICK ss : ss = [i \in DOMAIN order |-> Keep(s, d[i])]
  OBVIOUS
<1>20. ss \in Seq(Seq(S)) /\ DOMAIN ss = DOMAIN order
  BY <1>17, <1>19, FilteredLists
<1>21. served = Each(f, FlattenSeq(ss))
  <2>1. ASSUME NEW i \in DOMAIN ss PROVE Keep(tt[i], chosen) = Each(f, ss[i])
    <3>1. PICK P, D : P = p[i] /\ D = d[i]
      OBVIOUS
    <3>2. tt[i] = Keep(matching, P) /\ ss[i] = Keep(s, D)
      BY <1>8, <1>19, <1>20, <3>1
    <3>3. \A x \in S : (x \in V /\ f[x] \in P /\ f[x] \in chosen) <=> x \in D
      BY <1>18, <1>20, <3>1
    <3>4. Keep(Keep(Each(f, Keep(s, V)), P), chosen) = Each(f, Keep(s, D))
      BY <1>17, <3>3, ServedAt
    <3> QED
      BY <1>2, <3>2, <3>4
  <2>2. Keep(FlattenSeq(tt), chosen) = Each(f, FlattenSeq(ss))
    BY <1>11, <1>20, <2>1, ServedInOrder
  <2> QED
    BY <1>9, <1>15, <2>2
<1>22. FlattenSeq(ss) \in Seq(S)
  BY <1>20, FlattenHolds
<1>23. [i \in DOMAIN served |-> served[i].route] = FlattenSeq(ss)
  BY <1>1, <1>21, <1>22, AnsweringIs, AnswersRoutes
<1>24. PICK L, l : L = Shown(c, model) /\ l = Keep(s, L)
  OBVIOUS
<1>25. PICK q, rest : /\ q = [i \in DOMAIN order |-> {route \in ToSet(l) : route.provider = order[i]}]
                      /\ rest = {route \in ToSet(l) : ~Contains(order, route.provider)}
  OBVIOUS
<1>26. PICK shown : shown = FlattenSeq([i \in DOMAIN order |-> Keep(l, q[i])]) \o Keep(l, rest)
  OBVIOUS
<1>27. ConfidentialRoutes(c, model) = shown
  <2>1. [i \in DOMAIN order |-> Keep(l, q[i])]
           = [i \in DOMAIN order |-> Keep(l, {route \in ToSet(l) : route.provider = order[i]})]
    BY <1>25
  <2>2. l = Keep(model.routes, {route \in RoutesOf(model) :
                     /\ SelectableForVerification(route)
                     /\ route.provider \in DOMAIN c.adapters
                     /\ route.provider \in DOMAIN c.matrix
                     /\ ValidateRoute(c.matrix[route.provider], route)
                     /\ RouteSatisfies(c, route, c.matrix[route.provider], "verify")})
    BY <1>1, <1>24 DEF Shown
  <2> QED
    BY <1>25, <1>26, <2>1, <2>2 DEF ConfidentialRoutes
<1>28. PICK E : E = {route \in ToSet(shown) : ChatExecutable(c, model, route)}
  OBVIOUS
<1>29. ChatRoutes(c, model) = Keep(shown, E)
  BY <1>27, <1>28 DEF ChatRoutes
<1>30. ToSet(l) = S \cap L /\ l \in Seq(S)
  BY <1>17, <1>24, KeepSet
<1>31. \A x \in S : x \in L /\ (\E i \in DOMAIN order : x.provider = order[i]) => x \in ToSet(shown)
  <2>1. PICK uu : uu = [i \in DOMAIN order |-> Keep(l, q[i])]
    OBVIOUS
  <2>2. uu \in Seq(Seq(S)) /\ DOMAIN uu = DOMAIN order
    BY <1>30, <2>1, FilteredLists
  <2>3. FlattenSeq(uu) \in Seq(S) /\ ToSet(FlattenSeq(uu)) = AllOf(uu)
    BY <2>2, FlattenHolds
  <2>4. Keep(l, rest) \in Seq(S)
    BY <1>30, KeepSet
  <2>5. ToSet(shown) = AllOf(uu) \cup ToSet(Keep(l, rest))
    BY <1>26, <2>1, <2>3, <2>4, ConcatSet
  <2>6. ASSUME NEW x \in S, x \in L, NEW i \in DOMAIN order, x.provider = order[i]
        PROVE  x \in AllOf(uu)
    <3>1. uu[i] = Keep(l, q[i]) /\ q[i] = {route \in ToSet(l) : route.provider = order[i]}
      BY <1>25, <2>1
    <3>2. ToSet(Keep(l, q[i])) = ToSet(l) \cap q[i]
      BY <1>30, KeepSet
    <3>3. x \in ToSet(uu[i])
      BY <1>30, <2>6, <3>1, <3>2
    <3>4. uu[i] \in ToSet(uu)
      BY <2>2 DEF ToSet
    <3> QED
      BY <3>3, <3>4 DEF AllOf
  <2> QED
    BY <2>5, <2>6
<1>32. \A x \in S : x \in E => /\ Contains(order, x.provider)
                              /\ RouteSatisfies(c, x, c.matrix[x.provider], "chat")
  BY <1>28 DEF ChatExecutable
<1>33. \A x \in S : ~(x \in L /\ x \in rest /\ x \in E)
  BY <1>25, <1>32
<1>34. ASSUME NEW i \in DOMAIN order, NEW x \in S
       PROVE  (x \in L /\ x \in q[i] /\ x \in E) <=> x \in d[i]
  <2>1. x \in d[i] <=> x \in Servable(c, model) /\ x.provider = order[i]
    BY <1>16
  <2>2. x \in Servable(c, model) <=> x \in L /\ RouteSatisfies(c, x, c.matrix[x.provider], "chat")
    BY <1>1, <1>24, ServableIsShown
  <2>3. x \in q[i] <=> x \in L /\ x.provider = order[i]
    BY <1>25, <1>30
  <2>4. x.provider = order[i] => Contains(order, x.provider)
    BY ContainsIs DEF ToSet
  <2>5. ASSUME x \in L, x.provider = order[i]
        PROVE  x \in E <=> RouteSatisfies(c, x, c.matrix[x.provider], "chat")
    <3>1. x \in ToSet(shown)
      BY <1>31, <2>5
    <3>2. ChatExecutable(c, model, x) <=> RouteSatisfies(c, x, c.matrix[x.provider], "chat")
      BY <2>4, <2>5 DEF ChatExecutable
    <3> QED
      BY <1>28, <3>1, <3>2
  <2> QED
    BY <2>1, <2>2, <2>3, <2>5
<1>35. Keep(shown, E) = FlattenSeq(ss)
  <2>1. PICK uu, t : uu = [i \in DOMAIN order |-> Keep(l, q[i])] /\ t = Keep(l, rest)
    OBVIOUS
  <2>2. uu \in Seq(Seq(S)) /\ DOMAIN uu = DOMAIN order
    BY <1>30, <2>1, FilteredLists
  <2>3. t \in Seq(S) /\ ToSet(t) = ToSet(l) \cap rest
    BY <1>30, <2>1, KeepSet
  <2>4. Keep(t, E) = <<>>
    <3>1. Keep(t, E) \in Seq(S) /\ ToSet(Keep(t, E)) = ToSet(t) \cap E
      BY <2>3, KeepSet
    <3>2. ToSet(t) \cap E = {}
      BY <1>30, <1>33, <2>3
    <3> QED
      BY <3>1, <3>2, EmptyIffNoElement
  <2>5. ASSUME NEW i \in DOMAIN ss PROVE Keep(uu[i], E) = ss[i]
    <3>1. PICK Q, D : Q = q[i] /\ D = d[i]
      OBVIOUS
    <3>2. uu[i] = Keep(l, Q) /\ ss[i] = Keep(s, D)
      BY <1>19, <1>20, <2>1, <3>1
    <3>3. \A x \in S : (x \in L /\ x \in Q /\ x \in E) <=> x \in D
      BY <1>20, <1>34, <3>1
    <3>4. Keep(Keep(l, Q), E) = Keep(l, Q \cap E)
      BY <1>30, KeepKeep
    <3>5. Keep(l, Q \cap E) = Keep(s, L \cap (Q \cap E))
      BY <1>17, <1>24, KeepKeep
    <3>6. Keep(s, L \cap (Q \cap E)) = Keep(s, D)
      BY <1>17, <3>3, KeepSame
    <3> QED
      BY <3>2, <3>4, <3>5, <3>6
  <2>6. Keep(FlattenSeq(uu) \o t, E) = FlattenSeq(ss) \o Keep(t, E)
    BY <1>20, <2>2, <2>3, <2>5, ShownInOrder
  <2>7. FlattenSeq(ss) \o <<>> = FlattenSeq(ss)
    BY <1>22
  <2> QED
    BY <1>26, <2>1, <2>4, <2>6, <2>7
<1> QED
  BY <1>23, <1>29, <1>35

\* What is listed is what is served.
LEMMA ListedServed ==
    ASSUME ClientInv
    PROVE  ListedIsServed
<1> SUFFICES ASSUME client # Nothing, NEW m \in DOMAIN client.registry.models,
                    NEW model, model = client.registry.models[m],
                    \A x \in Matched(client.registry, "any", model.canonical) : x.model = model.canonical,
                    NEW served, served = SelectRoutes(client, "any", model.canonical, "chat")
             PROVE  ChatRoutes(client, model) = [i \in DOMAIN served |-> served[i].route]
  BY DEF ListedIsServed, Models
<1>1. PICK c, r : c = client /\ r = client.registry
  OBVIOUS
<1>2. PICK config \in Configs :
         /\ c = Built(config, registry) /\ ValidateSecurityInvariants(registry)
         /\ ValidateRegistryRoutes(c.matrix, r)
  BY <1>1 DEF ClientInv
<1>3. registry \in Registries
  BY DEF ClientInv
<1>4. /\ ClientListed(c) /\ DOMAIN r.models \subseteq DOMAIN registry.models
      /\ \A k \in DOMAIN r.models : r.models[k].canonical = registry.models[k].canonical
  BY <1>1, <1>2, <1>3, UsedRegistry
<1>5. Listed(r)
  BY <1>1, <1>4 DEF ClientListed
<1>6. \A k \in DOMAIN registry.models : registry.models[k].canonical = k
  BY <1>2 DEF ValidateSecurityInvariants
<1>7. \A k \in DOMAIN r.models : r.models[k].canonical = k
  BY <1>4, <1>6
<1>8. m \in DOMAIN r.models /\ model = r.models[m] /\ model.canonical = m
  BY <1>1, <1>7
<1>9. m \in ToSet(NameOrder)
  BY <1>3, <1>4, <1>8, RegistryListed
<1>10. model.routes \in Seq(RoutesOf(model))
  BY <1>5, <1>8 DEF Listed
<1>11. MatchingRoutes(r, "any", m) = RoutesMatching(r.models[m], "any", m)
  BY <1>1, <1>5, <1>7, <1>8, <1>9, OnlyItsRoutes
<1>12. MatchingRoutes(c.registry, "any", model.canonical)
          = Each(Answering(model), Keep(model.routes, Verifiable(model)))
  BY <1>1, <1>8, <1>10, <1>11, CanonicalMatches DEF Verifiable
<1>13. Agrees(c, model)
  <2>1. model \in Models(r)
    BY <1>8 DEF Models
  <2>2. Verifiable(model) = Sensitive(model)
    BY DEF Verifiable, Sensitive, SecuritySensitive
  <2> QED
    BY <1>2, <2>1, <2>2 DEF ValidateRegistryRoutes, Agrees
<1>14. served = SelectRoutes(c, "any", model.canonical, "chat")
  BY <1>1
<1>15. CASE model.canonical \notin DOMAIN c.routing
  BY <1>1, <1>10, <1>12, <1>13, <1>14, <1>15, ServedAsListed
<1>16. CASE model.canonical \in DOMAIN c.routing
  <2>1. PICK order : order = c.routing[model.canonical]
    OBVIOUS
  <2>2. order \in Seq(ToSet(order))
    BY <1>4, <1>16, <2>1 DEF ClientListed
  <2> QED
    BY <1>1, <1>10, <1>12, <1>13, <1>14, <1>16, <2>1, <2>2, ServedAsOrdered
<1> QED
  BY <1>15, <1>16

\* For every registry, matrix, provider order and set of adapters a build accepts:
\* what the model list offers is what a request gets, in the configured order, and
\* what must be encrypted is never handed over in the clear.
THEOREM SelectionIsSound == SelectionSpec => []SelectionSound
<1>1. ClientInv /\ NothingInTheClear => SelectionSound
  BY ListedServed DEF SelectionSound
<1> QED
  BY <1>1, RequestsAreSealed, PTL

-----------------------------------------------------------------------------
(***************************************************************************)
(* Streams: what next() returns for any body, in parts of any size and     *)
(* under any limits.  A step that returns something is taken only before   *)
(* the stream is done, and one that returns an error ends it.              *)
(***************************************************************************)

Chunks == {<<"a", "b">>, <<"u">>}

StreamInv ==
    /\ out \in Seq(Chunks \cup {Failure})
    /\ usage \in BOOLEAN /\ done \in BOOLEAN /\ ended \in BOOLEAN /\ cut \in BOOLEAN
    /\ \A i \in DOMAIN out : out[i] = Failure => i = Len(out) /\ done
    /\ usage => \E i \in 1..Len(out) : out[i] = <<"u">>
    /\ \A i \in 1..Len(out) : out[i] = <<"u">> => usage
    /\ cut => done /\ 1 <= Len(out) /\ out[Len(out)] = Failure

\* What a step returns: a chunk, nothing, or an error that ends the stream
Returns(chunk) ==
    /\ out' = Append(out, chunk) /\ usage' = (usage \/ chunk = <<"u">>)
    /\ done' \in BOOLEAN /\ ended' = ended /\ cut' = cut
ReturnsNothing ==
    /\ UNCHANGED <<out, usage, cut>> /\ done' \in BOOLEAN /\ ended' \in BOOLEAN
ReturnsFailure ==
    /\ out' = Append(out, Failure) /\ UNCHANGED <<usage, ended>> /\ done' = TRUE /\ cut' \in BOOLEAN

\* A parsed item is returned, or it is malformed.
LEMMA ParseReturns ==
    ASSUME NEW bytes, NEW rest, ParseChunk(bytes, rest), ended \in BOOLEAN, cut \in BOOLEAN, UNCHANGED <<ended, cut>>
    PROVE  (\E chunk \in Chunks : Returns(chunk)) \/ ReturnsFailure
<1>1. CASE IsChunk(TrimEnd(bytes)) /\ Chunk(bytes) /\ buffer' = rest /\ done' = ended
  <2>1. PICK chunk : chunk = TrimEnd(bytes)
    OBVIOUS
  <2>2. chunk \in Chunks
    BY <1>1, <2>1 DEF IsChunk, Chunks
  <2>3. out' = Append(out, chunk) /\ usage' = (usage \/ chunk = <<"u">>)
    BY <1>1, <2>1 DEF Chunk
  <2> QED
    BY <1>1, <2>2, <2>3 DEF Returns
<1>2. CASE ~IsChunk(TrimEnd(bytes)) /\ Fails /\ buffer' = <<>> /\ done' = TRUE
  BY <1>2 DEF Fails, ReturnsFailure
<1> QED
  BY <1>1, <1>2 DEF ParseChunk

\* A step of a stream that is not done returns a chunk, nothing or an error; there is no
\* other.
LEMMA StepReturns ==
    ASSUME StreamInv, StreamNext
    PROVE  ~done /\ ((\E chunk \in Chunks : Returns(chunk)) \/ ReturnsNothing \/ ReturnsFailure)
<1>1. ended \in BOOLEAN /\ cut \in BOOLEAN /\ done \in BOOLEAN
  BY DEF StreamInv
<1>2. CASE NextChunk
  <2>1. ~done /\ ended' = ended
    BY <1>2 DEF NextChunk
  <2>2. CASE Len(buffer) > MaxBuffer /\ Fails /\ buffer' = <<>> /\ done' = TRUE /\ cut' = TRUE
    BY <2>1, <2>2 DEF Fails, ReturnsFailure
  <2>3. ASSUME NEW rest, Finish(rest), cut' = cut PROVE ReturnsNothing
    BY <1>1, <2>1, <2>3 DEF Finish, ReturnsNothing
  <2>4. CASE TakeEvent /\ cut' = cut
    <3>1. PICK data : \/ UNCHANGED <<done, out, usage>>
                      \/ Finish(AfterEvent(buffer))
                      \/ ParseChunk(data, AfterEvent(buffer))
      BY <2>4 DEF TakeEvent
    <3>2. CASE UNCHANGED <<done, out, usage>>
      BY <1>1, <2>1, <2>4, <3>2 DEF ReturnsNothing
    <3> QED
      BY <1>1, <2>1, <2>3, <2>4, <3>1, <3>2, ParseReturns
  <2>5. CASE TakeRest /\ cut' = cut
    <3>1. Finish(<<>>) \/ ParseChunk(Tail(buffer), <<>>) \/ ParseChunk(buffer, <<>>)
      BY <2>5 DEF TakeRest
    <3> QED
      BY <1>1, <2>1, <2>3, <2>5, <3>1, ParseReturns
  <2> QED
    BY <1>2, <2>1, <2>2, <2>4, <2>5 DEF NextChunk
<1>3. CASE TakeSseFrame
  <2>1. ~done /\ cut' = cut
    BY <1>3 DEF TakeSseFrame, Waiting
  <2>2. \/ UNCHANGED <<buffer, ended, done, out, usage>>
        \/ ended' = TRUE /\ UNCHANGED <<buffer, done, out, usage>>
        \/ UNCHANGED <<ended, done, out, usage>>
        \/ ItemFails /\ UNCHANGED ended
    BY <1>3 DEF TakeSseFrame
  <2> QED
    BY <1>1, <2>1, <2>2 DEF ItemFails, ReturnsNothing, ReturnsFailure
<1>4. CASE ReadFails
  BY <1>1, <1>4 DEF ReadFails, Reads, Waiting, ItemFails, ReturnsFailure
<1>5. CASE ReadEnds
  BY <1>1, <1>5 DEF ReadEnds, Reads, Waiting, ReturnsNothing
<1>6. ASSUME NEW n \in 1..Len(body), ReadPart(n)
      PROVE  ~done /\ (ReturnsNothing \/ ReturnsFailure)
  BY <1>1, <1>6 DEF ReadPart, Reads, Waiting, ItemFails, ReturnsNothing, ReturnsFailure
<1> QED
  BY <1>2, <1>3, <1>4, <1>5, <1>6 DEF StreamNext

\* Appending to what was returned
LEMMA Returned ==
    ASSUME StreamInv, ~done, NEW item \in Chunks \cup {Failure}, out' = Append(out, item)
    PROVE  /\ out' \in Seq(Chunks \cup {Failure}) /\ Len(out') = Len(out) + 1 /\ Len(out) \in Nat
           /\ out'[Len(out')] = item
           /\ \A i \in 1..Len(out) : out'[i] = out[i] /\ out[i] # Failure
<1>1. out \in Seq(Chunks \cup {Failure}) /\ DOMAIN out = 1..Len(out) /\ Len(out) \in Nat
  BY LenProperties DEF StreamInv
<1>2. \A i \in 1..Len(out) : out[i] # Failure
  BY <1>1 DEF StreamInv
<1>3. /\ out' \in Seq(Chunks \cup {Failure}) /\ Len(out') = Len(out) + 1
      /\ \A i \in 1..Len(out) : out'[i] = out[i]
      /\ out'[Len(out) + 1] = item
  BY <1>1, AppendProperties
<1> QED
  BY <1>1, <1>2, <1>3

\* Errors stay last.
LEMMA StreamStep == StreamInv /\ [StreamNext]_streamVars => StreamInv'
<1>1. SUFFICES ASSUME StreamInv, [StreamNext]_streamVars PROVE StreamInv'
  OBVIOUS
<1>2. CASE UNCHANGED streamVars
  BY <1>1, <1>2 DEF streamVars, StreamInv
<1>3. ASSUME ~done, NEW chunk \in Chunks, Returns(chunk) PROVE StreamInv'
  <2>1. PICK n : n = Len(out) /\ n \in Nat /\ Len(out') = n + 1
    BY <1>1, <1>3, Returned DEF Returns
  <2>2. /\ out' \in Seq(Chunks \cup {Failure}) /\ out'[n + 1] = chunk
        /\ \A i \in 1..n : out'[i] = out[i] /\ out[i] # Failure
    BY <1>1, <1>3, <2>1, Returned DEF Returns
  <2>3. DOMAIN out' = 1..(n + 1)
    BY <2>1, <2>2, LenProperties
  <2>4. chunk # Failure
    BY DEF Chunks, Failure
  <2>5. ~cut /\ usage \in BOOLEAN /\ ended \in BOOLEAN
    BY <1>1, <1>3 DEF StreamInv
  <2>6. \A i \in DOMAIN out' : out'[i] # Failure
    BY <2>1, <2>2, <2>3, <2>4
  <2>7. usage' => \E i \in 1..(n + 1) : out'[i] = <<"u">>
    <3>1. CASE chunk = <<"u">>
      BY <2>1, <2>2, <3>1
    <3>2. CASE usage
      <4>1. PICK i \in 1..n : out[i] = <<"u">>
        BY <1>1, <2>1, <3>2 DEF StreamInv
      <4> QED
        BY <2>1, <2>2, <4>1
    <3> QED
      BY <1>3, <3>1, <3>2 DEF Returns
  <2>8. usage' \in BOOLEAN /\ done' \in BOOLEAN /\ ended' \in BOOLEAN /\ cut' = FALSE
    BY <1>3, <1>1, <2>5 DEF Returns, StreamInv
  <2>9. ASSUME NEW i \in 1..(n + 1), out'[i] = <<"u">> PROVE usage'
    <3>1. i = n + 1 \/ i \in 1..n
      BY <2>1
    <3>2. chunk = <<"u">> \/ usage
      BY <1>1, <2>1, <2>2, <2>9, <3>1 DEF StreamInv
    <3> QED
      BY <1>3, <3>2 DEF Returns
  <2> QED
    BY <2>1, <2>2, <2>6, <2>7, <2>8, <2>9 DEF StreamInv
<1>4. ASSUME ~done, ReturnsNothing PROVE StreamInv'
  <2>1. ~cut /\ \A i \in DOMAIN out : out[i] # Failure
    BY <1>1, <1>4 DEF StreamInv
  <2> QED
    BY <1>1, <1>4, <2>1 DEF ReturnsNothing, StreamInv
<1>5. ASSUME ~done, ReturnsFailure PROVE StreamInv'
  <2>1. PICK n : n = Len(out) /\ n \in Nat /\ Len(out') = n + 1
    BY <1>1, <1>5, Returned DEF ReturnsFailure
  <2>2. /\ out' \in Seq(Chunks \cup {Failure}) /\ out'[n + 1] = Failure
        /\ \A i \in 1..n : out'[i] = out[i] /\ out[i] # Failure
    BY <1>1, <1>5, <2>1, Returned DEF ReturnsFailure
  <2>3. DOMAIN out' = 1..(n + 1)
    BY <2>1, <2>2, LenProperties
  <2>4. \A i \in DOMAIN out' : out'[i] = Failure => i = n + 1
    BY <2>1, <2>2, <2>3
  <2>5. usage' => \E i \in 1..(n + 1) : out'[i] = <<"u">>
    <3>1. ASSUME usage PROVE \E i \in 1..(n + 1) : out'[i] = <<"u">>
      <4>1. PICK i \in 1..n : out[i] = <<"u">>
        BY <1>1, <2>1, <3>1 DEF StreamInv
      <4> QED
        BY <2>1, <2>2, <4>1
    <3> QED
      BY <1>5, <3>1 DEF ReturnsFailure
  <2>6. usage' \in BOOLEAN /\ done' = TRUE /\ ended' \in BOOLEAN /\ cut' \in BOOLEAN
    BY <1>1, <1>5 DEF ReturnsFailure, StreamInv
  <2>7. ASSUME NEW i \in 1..(n + 1), out'[i] = <<"u">> PROVE usage'
    <3>1. i = n + 1 \/ i \in 1..n
      BY <2>1
    <3>2. Failure # <<"u">>
      BY DEF Failure
    <3>3. usage
      BY <1>1, <2>1, <2>2, <2>7, <3>1, <3>2 DEF StreamInv
    <3> QED
      BY <1>5, <3>3 DEF ReturnsFailure
  <2> QED
    BY <2>1, <2>2, <2>4, <2>5, <2>6, <2>7 DEF StreamInv
<1> QED
  BY <1>1, <1>2, <1>3, <1>4, <1>5, StepReturns

\* For any body, cut into parts of any size, and under any limits: next() of a chat stream
\* returns nothing after an error, a broken connection or a limit always shows as an error,
\* and it knows the usage just when it returned the chunk that has it.
THEOREM ErrorsEndStreams == StreamSpec => []ErrorsEnd
<1>1. StreamInit => StreamInv
  <2>1. <<>> \in Seq(Chunks \cup {Failure}) /\ DOMAIN <<>> = {}
    OBVIOUS
  <2>2. Len(<<>>) = 0 /\ 1..0 = {}
    OBVIOUS
  <2> QED
    BY <2>1, <2>2 DEF StreamInit, StreamInv
<1>2. StreamInv => ErrorsEnd
  <2>1. SUFFICES ASSUME StreamInv PROVE ErrorsEnd
    OBVIOUS
  <2>2. usage <=> Contains(out, <<"u">>)
    <3>1. usage => \E i \in 1..Len(out) : out[i] = <<"u">>
      BY <2>1 DEF StreamInv
    <3>2. (\E i \in 1..Len(out) : out[i] = <<"u">>) => usage
      BY <2>1 DEF StreamInv
    <3>3. usage \in BOOLEAN
      BY <2>1 DEF StreamInv
    <3> QED
      BY <3>1, <3>2, <3>3 DEF Contains
  <2>3. cut => done /\ Last(out) = Failure
    BY <2>1 DEF StreamInv, Last
  <2>4. \A i \in DOMAIN out : out[i] = Failure => i = Len(out) /\ done
    BY <2>1 DEF StreamInv
  <2> QED
    BY <2>2, <2>3, <2>4 DEF ErrorsEnd
<1> QED
  BY <1>1, <1>2, StreamStep, PTL DEF StreamSpec
=============================================================================
