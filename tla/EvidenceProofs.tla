--------------------------- MODULE EvidenceProofs ---------------------------
(***************************************************************************)
(* Proofs about what evidence and envelopes stand for while the world      *)
(* moves on: SEV-SNP reports on machines whose firmware is installed,      *)
(* committed and rolled back, TDX quotes under collateral that is issued   *)
(* anew, GPU tokens under keys that rotate, encrypted bodies on a network  *)
(* that mixes them up, what the trust command line writes while providers  *)
(* roll out new deployments, which images a workload is held to, and what  *)
(* an error message shows.                                                 *)
(***************************************************************************)
EXTENDS HardwareEvidence, Envelopes, TrustTools, WorkloadImages, Redaction, SequenceTheorems,
        FiniteSetTheorems, WellFoundedInduction, TLAPS

-----------------------------------------------------------------------------
(* SEV-SNP reports *)

\* The machine runs at least what it has committed.
ChipOrdered ==
    /\ chip = [current |-> chip.current, committed |-> chip.committed, reported |-> chip.reported]
    /\ {chip.current, chip.committed, chip.reported} \subseteq DOMAIN Levels
    /\ chip.committed <= chip.current

\* What the machine has committed is patched: it cannot be taken back any more.
CommittedPatched ==
    MeetsMinimum(Tcb(chip.committed)) /\ ~Older(Firmware(chip.committed), MinFirmware)

GuestAccepted ==
    LET g == guest[verdict.guest] IN
    /\ verdict.guest \in Guests /\ g # None
    /\ MeetsMinimum(Tcb(g.launch)) /\ "debug" \notin g.policy
    /\ g.key = verdict.leaf

SnpInv ==
    /\ guest \in [Guests -> {guest[g] : g \in Guests}]
    /\ ChipOrdered
    /\ verdict # None => CommittedPatched /\ GuestAccepted

\* The levels of a machine are typed, and a later one is as patched as an earlier one.
LEMMA LevelTypes ==
    ASSUME NEW l \in DOMAIN Levels
    PROVE  Tcb(l) \in [TcbParts -> Nat] /\ Firmware(l) \in Versions
<1> DEFINE T == [tcb : [TcbParts -> Nat], firmware : Versions]
<1>0. Levels \in Seq(T)
  BY SnpReportsAssumption
<1>1. Levels[l] \in T
  <2> HIDE DEF T
  <2>1. l \in 1 .. Len(Levels)
    BY <1>0
  <2> QED
    BY <1>0, <2>1, ElementOfSeq
<1> QED
  BY <1>1 DEF Tcb, Firmware

LEMMA LaterIsPatched ==
    ASSUME NEW l \in DOMAIN Levels, NEW m \in DOMAIN Levels, l <= m,
           MeetsMinimum(Tcb(l)), ~Older(Firmware(l), MinFirmware)
    PROVE  MeetsMinimum(Tcb(m)) /\ ~Older(Firmware(m), MinFirmware)
<1>1. /\ \A part \in TcbParts : Tcb(l)[part] <= Tcb(m)[part]
      /\ ~Older(Firmware(m), Firmware(l))
  BY SnpReportsAssumption
<1>2. MeetsMinimum(Tcb(m))
  <2>1. Tcb(l) \in [TcbParts -> Nat] /\ Tcb(m) \in [TcbParts -> Nat] /\ MinTcb \in [TcbParts -> Nat]
    BY LevelTypes, SnpReportsAssumption
  <2> QED
    BY <1>1, <2>1 DEF MeetsMinimum
<1>3. ~Older(Firmware(m), MinFirmware)
  <2>1. Firmware(l) \in Versions /\ Firmware(m) \in Versions /\ MinFirmware \in Versions
    BY LevelTypes, SnpReportsAssumption
  <2> QED
    BY <1>1, <2>1 DEF Older, Versions
<1> QED
  BY <1>2, <1>3

\* A report that passes verify_report_policy shows a committed, patched platform.
LEMMA PolicyShowsCommitted ==
    ASSUME SnpInv, NEW g \in Guests, NEW shape, VerifyReportPolicy(Report(g, shape))
    PROVE  /\ CommittedPatched
           /\ MeetsMinimum(Tcb(guest[g].launch)) /\ "debug" \notin guest[g].policy
<1> DEFINE r == Report(g, shape)
<1>1. /\ r.current = Tcb(chip.current) /\ r.committed = Tcb(chip.committed)
      /\ r.reported = Tcb(chip.reported) /\ r.launch = Tcb(guest[g].launch)
      /\ r.firmware = Firmware(chip.current) /\ r.committedFirmware = Firmware(chip.committed)
      /\ r.policy = guest[g].policy
  BY DEF Report
<1> HIDE DEF r
<1>2. /\ r.policy \cap {"migrate", "debug", "single_socket", "reserved"} = {}
      /\ r.current = r.committed /\ TcbAtLeast(r.current, r.reported)
      /\ MeetsMinimum(r.reported) /\ MeetsMinimum(r.launch)
      /\ ~FirmwareRefused(r.firmware) /\ r.firmware = r.committedFirmware
  BY DEF VerifyReportPolicy, GuestPolicyMet, r
<1>3. {chip.current, chip.committed, chip.reported} \subseteq DOMAIN Levels
  BY DEF SnpInv, ChipOrdered
<1>4. MeetsMinimum(Tcb(chip.committed))
  <2>1. /\ Tcb(chip.committed) \in [TcbParts -> Nat]
        /\ Tcb(chip.reported) \in [TcbParts -> Nat]
        /\ MinTcb \in [TcbParts -> Nat]
    BY <1>3, LevelTypes, SnpReportsAssumption
  <2> QED
    BY <1>1, <1>2, <2>1 DEF MeetsMinimum, TcbAtLeast
<1>5. ~Older(Firmware(chip.committed), MinFirmware)
  <2>1. Firmware(chip.committed) \in Versions /\ MinFirmware \in Versions
    BY <1>3, LevelTypes, SnpReportsAssumption
  <2>2. ~FirmwareRefused(Firmware(chip.committed))
    BY <1>1, <1>2
  <2> QED
    BY <2>1, <2>2 DEF FirmwareRefused, Older, Versions
<1> QED
  BY <1>1, <1>2, <1>4, <1>5 DEF CommittedPatched

\* Whatever the host does, what is committed stays committed.
LEMMA SnpStep == SnpInv /\ [SnpNext]_snpVars => SnpInv'
<1> SUFFICES ASSUME SnpInv, [SnpNext]_snpVars
             PROVE  SnpInv'
  OBVIOUS
<1> USE DEF SnpInv
<1>0. Len(Levels) \in Nat \ {0} /\ DOMAIN Levels = 1 .. Len(Levels)
  BY SnpReportsAssumption
<1>1. CASE Install \/ RollBack \/ SetReported
  <2>1. ChipOrdered' /\ chip'.committed = chip.committed
    BY <1>0, <1>1 DEF Install, RollBack, SetReported, ChipOrdered
  <2>2. UNCHANGED <<guest, ms, verdict>>
    BY <1>1 DEF Install, RollBack, SetReported
  <2> QED
    BY <2>1, <2>2 DEF CommittedPatched, GuestAccepted
<1>2. CASE Commit
  <2>1. ChipOrdered' /\ chip'.committed = chip.current
    BY <1>0, <1>2 DEF Commit, ChipOrdered
  <2>2. UNCHANGED <<guest, ms, verdict>>
    BY <1>2 DEF Commit
  <2>3. CommittedPatched => CommittedPatched'
    BY <2>1, LaterIsPatched DEF ChipOrdered, CommittedPatched
  <2> QED
    BY <2>1, <2>2, <2>3 DEF GuestAccepted
<1>3. ASSUME NEW g \in Guests, Launch(g)
      PROVE  SnpInv'
  <2>1. PICK new : guest' = [guest EXCEPT ![g] = new]
    BY <1>3 DEF Launch
  <2>2. guest[g] = None /\ UNCHANGED <<chip, ms, verdict>>
    BY <1>3 DEF Launch
  <2>3. guest' \in [Guests -> {guest'[h] : h \in Guests}]
    BY <2>1
  <2>4. verdict # None => guest'[verdict.guest] = guest[verdict.guest]
    BY <2>1, <2>2 DEF GuestAccepted
  <2> QED
    BY <2>2, <2>3, <2>4 DEF ChipOrdered, CommittedPatched, GuestAccepted
<1>4. ASSUME NEW g \in Guests, NEW leaf \in Guests, CheckReport(g, leaf)
      PROVE  SnpInv'
  <2>1. PICK shape \in Shapes, cert \in Certificates :
           /\ VerifyWithVcekAt(Report(g, shape), cert, leaf)
           /\ verdict' = [guest |-> g, leaf |-> leaf, until |-> cert.life.to]
    BY <1>4 DEF CheckReport
  <2>2. guest[g] # None /\ UNCHANGED <<chip, guest, ms>>
    BY <1>4 DEF CheckReport
  <2>3. VerifyReportPolicy(Report(g, shape)) /\ guest[g].key = leaf
    BY <2>1 DEF VerifyWithVcekAt, Report
  <2>4. /\ CommittedPatched
        /\ MeetsMinimum(Tcb(guest[g].launch)) /\ "debug" \notin guest[g].policy
    BY <2>3, PolicyShowsCommitted
  <2>5. verdict'.guest = g /\ verdict'.leaf = leaf
    BY <2>1
  <2> QED
    BY <2>2, <2>3, <2>4, <2>5 DEF ChipOrdered, CommittedPatched, GuestAccepted
<1>5. CASE TickMs \/ UNCHANGED snpVars
  BY <1>5 DEF TickMs, snpVars, ChipOrdered, CommittedPatched, GuestAccepted
<1> QED
  BY <1>1, <1>2, <1>3, <1>4, <1>5 DEF SnpNext

\* An accepted report keeps meaning a patched platform, for any levels, guests,
\* policies, certificates and orders of installing, committing and rolling back.
THEOREM ReportsStayPatched == SnpSpec => []AcceptedStaysPatched
<1>1. SnpInit => SnpInv
  BY SnpReportsAssumption DEF SnpInit, SnpInv, ChipOrdered
<1>2. SnpInv => AcceptedStaysPatched
  BY LaterIsPatched DEF SnpInv, ChipOrdered, CommittedPatched, GuestAccepted, AcceptedStaysPatched
<1> QED
  BY <1>1, SnpStep, <1>2, PTL DEF SnpSpec

-----------------------------------------------------------------------------
(* TDX quotes *)

\* Pieces of collateral, of whatever age: one that does not know of a flaw was
\* issued before the flaw was found.
Current(pieces) ==
    \A p \in Pieces :
        /\ pieces[p].until \in Nat
        /\ flaw.piece = Unset => pieces[p].until <= day + Life[p]
        /\ flaw.piece = p /\ ~pieces[p].bad => pieces[p].until <= flaw.since + Life[p]

FlawTyped ==
    /\ day \in Nat /\ flaw.since \in Nat
    /\ flaw.piece \in Pieces \cup {Unset}

\* An end of validity that no flaw outlives.
EndsInTime(until) ==
    /\ until \in Nat
    /\ flaw.piece = Unset => \A p \in Pieces : until <= day + Life[p]
    /\ flaw.piece # Unset => until <= flaw.since + Life[flaw.piece]

TdxInv ==
    /\ FlawTyped
    /\ issued = [p \in Pieces |-> issued[p]] /\ Current(issued)
    /\ offline # Unset => Current(offline.pieces)
    /\ \A k \in DOMAIN bundles : Current(bundles[k].pieces)
    /\ verifier = [q \in Quotes |-> verifier[q]] /\ quoteOk = [q \in Quotes |-> quoteOk[q]]
    /\ \A q \in Quotes : verifier[q] # Unset => Current(verifier[q].pieces)
    /\ \A q \in Quotes : quoteOk[q] # Unset => EndsInTime(quoteOk[q].until)

\* The least of four numbers.
LEMMA LeastOfFour ==
    ASSUME NEW a \in Nat, NEW b \in Nat, NEW c \in Nat, NEW d \in Nat
    PROVE  /\ Min({a, b, c, d}) \in Nat
           /\ Min({a, b, c, d}) <= a /\ Min({a, b, c, d}) <= b
           /\ Min({a, b, c, d}) <= c /\ Min({a, b, c, d}) <= d
<1>1. \E x \in {a, b, c, d} : \A y \in {a, b, c, d} : x <= y
  <2>1. CASE a <= b /\ a <= c /\ a <= d
    BY <2>1
  <2>2. CASE b <= a /\ b <= c /\ b <= d
    BY <2>2
  <2>3. CASE c <= a /\ c <= b /\ c <= d
    BY <2>3
  <2>4. CASE d <= a /\ d <= b /\ d <= c
    BY <2>4
  <2> QED
    BY <2>1, <2>2, <2>3, <2>4
<1>2. /\ Min({a, b, c, d}) \in {a, b, c, d}
      /\ \A y \in {a, b, c, d} : Min({a, b, c, d}) <= y
  BY <1>1 DEF Min
<1> QED
  BY <1>2

\* The collateral's validity ends with its first piece, the lists included.
LEMMA ValidUntilIsLeast ==
    ASSUME NEW pieces, \A p \in Pieces : pieces[p].until \in Nat
    PROVE  /\ ValidUntil(pieces) \in Nat
           /\ \A p \in Pieces : ValidUntil(pieces) <= pieces[p].until
<1> DEFINE named == {"tcb_info", "qe_identity"}
                    \cup {l \in {"root_ca_crl", "pck_crl"} : pieces[l].until # Unset}
<1>1. named = Pieces
  BY TdxQuotesAssumption DEF Pieces
<1>2. {pieces[p].until : p \in named} =
      {pieces["tcb_info"].until, pieces["qe_identity"].until,
       pieces["root_ca_crl"].until, pieces["pck_crl"].until}
  BY <1>1 DEF Pieces
<1>3. ValidUntil(pieces) = Min({pieces[p].until : p \in named})
  BY DEF ValidUntil
<1> HIDE DEF named
<1> DEFINE a == pieces["tcb_info"].until
           b == pieces["qe_identity"].until
           c == pieces["root_ca_crl"].until
           d == pieces["pck_crl"].until
<1>4. a \in Nat /\ b \in Nat /\ c \in Nat /\ d \in Nat
  BY DEF Pieces
<1>5. ValidUntil(pieces) = Min({a, b, c, d})
  BY <1>2, <1>3
<1>6. \A p \in Pieces : pieces[p].until \in {a, b, c, d}
  BY DEF Pieces
<1> HIDE DEF a, b, c, d
<1> QED
  BY <1>4, <1>5, <1>6, LeastOfFour

\* A verdict's end is one that no flaw outlives: it rests on pieces that all say the
\* platform is in order.
LEMMA VerdictEndsInTime ==
    ASSUME FlawTyped, NEW q \in Quotes, NEW v, Current(v.pieces), VerifyTdxQuote(q, v)
    PROVE  EndsInTime(ValidUntil(v.pieces))
<1>1. \A p \in Pieces : v.pieces[p].until \in Nat
  BY DEF Current
<1>2. /\ ValidUntil(v.pieces) \in Nat
      /\ \A p \in Pieces : ValidUntil(v.pieces) <= v.pieces[p].until
  BY <1>1, ValidUntilIsLeast
<1>3. \A p \in Pieces : ~v.pieces[p].bad
  BY DEF VerifyTdxQuote, QvlFails, ValidateTcbStatus, QvlReport, Pieces
<1>4. \A p \in Pieces : Life[p] \in Nat
  BY TdxQuotesAssumption
<1>5. ASSUME flaw.piece = Unset, NEW p \in Pieces
      PROVE  ValidUntil(v.pieces) <= day + Life[p]
  BY <1>1, <1>2, <1>4, <1>5 DEF Current, FlawTyped
<1>6. ASSUME flaw.piece # Unset
      PROVE  ValidUntil(v.pieces) <= flaw.since + Life[flaw.piece]
  BY <1>1, <1>2, <1>3, <1>4, <1>6 DEF Current, FlawTyped
<1> QED
  BY <1>2, <1>5, <1>6 DEF EndsInTime

\* Time and a flaw found keep every piece and every verdict current.
LEMMA WorldMovesOn ==
    ASSUME FlawTyped, Day \/ (\E piece \in Pieces : FlawFound(piece))
    PROVE  /\ FlawTyped'
           /\ \A pieces : Current(pieces) => Current(pieces)'
           /\ \A until : EndsInTime(until) => EndsInTime(until)'
<1>0. \A p \in Pieces : Life[p] \in Nat
  BY TdxQuotesAssumption
<1>1. CASE Day
  <2>1. day' = day + 1 /\ flaw' = flaw /\ day \in Nat
    BY <1>1 DEF Day, FlawTyped
  <2> QED
    BY <2>1, <1>0 DEF FlawTyped, Current, EndsInTime
<1>2. ASSUME NEW piece \in Pieces, FlawFound(piece)
      PROVE  /\ FlawTyped'
             /\ \A pieces : Current(pieces) => Current(pieces)'
             /\ \A until : EndsInTime(until) => EndsInTime(until)'
  <2>1. /\ flaw.piece = Unset /\ day' = day /\ day \in Nat
        /\ flaw'.piece = piece /\ flaw'.since = day
        /\ piece # Unset
    BY <1>2, TdxQuotesAssumption DEF FlawFound, FlawTyped
  <2> QED
    BY <2>1, <1>0 DEF FlawTyped, Current, EndsInTime
<1> QED
  BY <1>1, <1>2

\* insert_for_quote adds one bundle and may evict another.
LEMMA InsertKeepsOthers ==
    ASSUME NEW q, NEW b, InsertForQuote(q, b)
    PROVE  \A k \in DOMAIN bundles' : bundles'[k] = b \/ (k \in DOMAIN bundles /\ bundles'[k] = bundles[k])
<1> SUFFICES ASSUME NEW k \in DOMAIN bundles'
             PROVE  bundles'[k] = b \/ (k \in DOMAIN bundles /\ bundles'[k] = bundles[k])
  OBVIOUS
<1>1. CASE bundles' = Inserted(bundles, q, b)
  BY <1>1 DEF Inserted
<1>2. CASE bundles' # Inserted(bundles, q, b)
  <2>1. PICK old \in Evictable : bundles' = Inserted(Restricted(DOMAIN bundles \ {old}), q, b)
    BY <1>2 DEF InsertForQuote
  <2> DEFINE rest == Restricted(DOMAIN bundles \ {old})
  <2>2. DOMAIN rest \subseteq DOMAIN bundles /\ \A j \in DOMAIN rest : rest[j] = bundles[j]
    BY DEF Restricted
  <2> HIDE DEF rest
  <2>3. bundles' = Inserted(rest, q, b)
    BY <2>1 DEF rest
  <2> QED
    BY <2>2, <2>3 DEF Inserted
<1> QED
  BY <1>1, <1>2

\* A signed bundle is inserted as it was saved.
LEMMA SignedAsSaved ==
    ASSUME NEW q \in Quotes, InsertSigned(q)
    PROVE  offline # Unset /\ InsertForQuote(q, offline)
<1>1. PICK key \in {"trusted", "other"}, until \in {offline.until, offline.until + 1} :
         /\ VerifyEnvelope([Envelope(offline, key) EXCEPT !.bundle.until = until])
         /\ InsertForQuote(q, [Envelope(offline, key) EXCEPT !.bundle.until = until].bundle)
  BY DEF InsertSigned
<1> DEFINE e == [Envelope(offline, key) EXCEPT !.bundle.until = until]
<1>2. e.signed = [key |-> key, content |-> offline]
  BY DEF Envelope
<1>3. e.signed = [key |-> "trusted", content |-> e.bundle]
  BY <1>1 DEF VerifyEnvelope
<1> HIDE DEF e
<1>4. e.bundle = offline
  BY <1>2, <1>3
<1>5. InsertForQuote(q, e.bundle)
  BY <1>1 DEF e
<1> QED
  BY <1>4, <1>5 DEF InsertSigned

\* The invariant is kept by every step of Intel, the operator, the cache and the verifier.
LEMMA TdxStep == TdxInv /\ [TdxNext]_tdxVars => TdxInv'
<1> SUFFICES ASSUME TdxInv, [TdxNext]_tdxVars
             PROVE  TdxInv'
  OBVIOUS
<1> USE DEF TdxInv
<1>1. ASSUME Day \/ (\E piece \in Pieces : FlawFound(piece))
      PROVE  TdxInv'
  <2>1. UNCHANGED <<issued, offline, bundles, verifier, quoteOk>>
    BY <1>1 DEF Day, FlawFound
  <2>2. /\ FlawTyped'
        /\ \A pieces : Current(pieces) => Current(pieces)'
        /\ \A until : EndsInTime(until) => EndsInTime(until)'
    BY <1>1, WorldMovesOn
  <2>3. issued' = [p \in Pieces |-> issued'[p]] /\ Current(issued)'
    <3>1. PICK was : was = issued
      OBVIOUS
    <3> QED
      BY <2>1, <2>2, <3>1 DEF Current
  <2> QED
    BY <2>1, <2>2, <2>3, SMTT(30) DEF Current, EndsInTime
<1>2. ASSUME UNCHANGED <<day, flaw>>
      PROVE  /\ FlawTyped'
             /\ \A pieces : Current(pieces) => Current(pieces)'
             /\ \A until : EndsInTime(until) => EndsInTime(until)'
  BY <1>2 DEF FlawTyped, Current, EndsInTime
<1>3. ASSUME NEW piece \in Pieces, Reissue(piece)
      PROVE  TdxInv'
  <2>1. /\ issued' = [issued EXCEPT ![piece] = Issue(piece)]
        /\ UNCHANGED <<day, flaw, offline, bundles, verifier, quoteOk>>
    BY <1>3 DEF Reissue
  <2>2. Life[piece] \in Nat /\ day \in Nat
    BY TdxQuotesAssumption DEF FlawTyped
  <2>3. Current(issued')
    <3>1. flaw.piece = piece => Issue(piece).bad
      BY Zenon DEF Issue
    <3>2. Issue(piece).until = day + Life[piece]
      BY DEF Issue
    <3>3. issued'[piece] = Issue(piece) /\ \A p \in Pieces \ {piece} : issued'[p] = issued[p]
      BY <2>1
    <3> QED
      BY <2>2, <3>1, <3>2, <3>3 DEF Current
  <2>4. issued' = [p \in Pieces |-> issued'[p]]
    BY <2>1
  <2> QED
    BY <2>1, <2>3, <2>4 DEF FlawTyped, Current, EndsInTime
<1>4. CASE SaveOffline
  <2>1. offline'.pieces = issued /\ UNCHANGED <<day, flaw, issued, bundles, verifier, quoteOk>>
    BY <1>4 DEF SaveOffline, FromCollateralAt
  <2> QED
    BY <2>1 DEF FlawTyped, Current, EndsInTime
<1>5. ASSUME NEW q \in Quotes, Fetch(q) \/ InsertSigned(q) \/ RemoveForQuote(q)
      PROVE  TdxInv'
  <2>1. UNCHANGED <<day, flaw, issued, offline, verifier, quoteOk>>
    BY <1>5 DEF Fetch, InsertSigned, RemoveForQuote
  <2>2. \A k \in DOMAIN bundles' : Current(bundles'[k].pieces)
    <3>1. CASE Fetch(q)
      <4>1. InsertForQuote(q, FromCollateralAt(issued, q)) /\ FromCollateralAt(issued, q).pieces = issued
        BY <3>1 DEF Fetch, FromCollateralAt
      <4> QED
        BY <4>1, InsertKeepsOthers
    <3>2. CASE InsertSigned(q)
      BY <3>2, SignedAsSaved, InsertKeepsOthers
    <3>3. CASE RemoveForQuote(q)
      BY <3>3 DEF RemoveForQuote, Restricted
    <3> QED
      BY <1>5, <3>1, <3>2, <3>3
  <2> QED
    BY <2>1, <2>2 DEF FlawTyped, Current, EndsInTime
<1>6. ASSUME NEW q \in Quotes, VerifierForQuoteAt(q)
      PROVE  TdxInv'
  <2>1. /\ verifier' = [verifier EXCEPT ![q] = [pieces |-> bundles[q].pieces, now |-> day]]
        /\ q \in DOMAIN bundles
        /\ UNCHANGED <<day, flaw, issued, offline, bundles, quoteOk>>
    BY <1>6 DEF VerifierForQuoteAt
  <2>2. \A r \in Quotes : verifier'[r] # Unset => Current(verifier'[r].pieces)
    BY <2>1
  <2>3. verifier' = [r \in Quotes |-> verifier'[r]]
    BY <2>1
  <2> QED
    BY <2>1, <2>2, <2>3 DEF FlawTyped, Current, EndsInTime
<1>7. ASSUME NEW q \in Quotes, CheckQuote(q)
      PROVE  TdxInv'
  <2>1. PICK session, check :
           quoteOk' = [quoteOk EXCEPT ![q] = [session |-> session, check |-> check,
                                              until |-> ValidUntil(verifier[q].pieces)]]
    BY <1>7 DEF CheckQuote
  <2>2. /\ verifier' = [verifier EXCEPT ![q] = Unset]
        /\ verifier[q] # Unset /\ VerifyTdxQuote(q, verifier[q])
        /\ UNCHANGED <<day, flaw, issued, offline, bundles>>
    BY <1>7 DEF CheckQuote
  <2>3. EndsInTime(ValidUntil(verifier[q].pieces))
    BY <2>2, VerdictEndsInTime
  <2>4. \A r \in Quotes : quoteOk'[r] # Unset => EndsInTime(quoteOk'[r].until)
    BY <2>1, <2>3
  <2>5. \A r \in Quotes : verifier'[r] # Unset => Current(verifier'[r].pieces)
    BY <2>2
  <2>6. verifier' = [r \in Quotes |-> verifier'[r]] /\ quoteOk' = [r \in Quotes |-> quoteOk'[r]]
    BY <2>1, <2>2
  <2> QED
    BY <2>2, <2>4, <2>5, <2>6 DEF FlawTyped, Current, EndsInTime
<1>8. CASE UNCHANGED tdxVars
  BY <1>8 DEF tdxVars, FlawTyped, Current, EndsInTime
<1> QED
  BY <1>1, <1>3, <1>4, <1>5, <1>6, <1>7, <1>8 DEF TdxNext

\* A flaw that Intel tells of in any piece ends every verdict within that piece's
\* life, for any lives, quotes, saved bundles, cache sizes and orders of events.
THEOREM FlawsEndVerdicts == TdxSpec => []FlawEndsVerdicts
<1>1. TdxInit => TdxInv
  BY TdxQuotesAssumption DEF TdxInit, TdxInv, FlawTyped, Current
<1>2. TdxInv => FlawEndsVerdicts
  <2> SUFFICES ASSUME TdxInv, NEW q \in Quotes, quoteOk[q] # Unset, flaw.piece # Unset,
                      day < quoteOk[q].until
               PROVE  day < flaw.since + Life[flaw.piece]
    BY DEF FlawEndsVerdicts
  <2>1. quoteOk[q].until \in Nat /\ quoteOk[q].until <= flaw.since + Life[flaw.piece]
    BY DEF TdxInv, EndsInTime
  <2>2. day \in Nat /\ flaw.since + Life[flaw.piece] \in Nat
    BY TdxQuotesAssumption DEF TdxInv, FlawTyped
  <2> QED
    BY <2>1, <2>2
<1> QED
  BY <1>1, TdxStep, <1>2, PTL DEF TdxSpec

\* Both kinds of CPU evidence, on any machines and collateral: what was accepted as
\* patched stays patched or ends.
THEOREM HardwareStaysPatched == SnpSpec /\ TdxSpec => []PatchedStaysPatched
BY ReportsStayPatched, FlawsEndVerdicts, PTL DEF PatchedStaysPatched

\* Two concatenations that agree, and whose first parts are of one length, have the
\* same parts.
LEMMA FirstPartsDecide ==
    ASSUME NEW S, NEW s \in Seq(S), NEW t \in Seq(S), NEW u \in Seq(S), NEW v \in Seq(S),
           Len(s) = Len(u), s \o t = u \o v
    PROVE  s = u /\ t = v
<1>1. /\ Len(s \o t) = Len(s) + Len(t) /\ Len(u \o v) = Len(u) + Len(v)
      /\ \A i \in 1 .. Len(s) + Len(t) :
            (s \o t)[i] = IF i <= Len(s) THEN s[i] ELSE t[i - Len(s)]
      /\ \A i \in 1 .. Len(u) + Len(v) :
            (u \o v)[i] = IF i <= Len(u) THEN u[i] ELSE v[i - Len(u)]
  BY ConcatProperties
<1>2. Len(t) = Len(v)
  BY <1>1
<1>3. \A i \in 1 .. Len(s) : s[i] = u[i]
  <2> TAKE i \in 1 .. Len(s)
  <2>1. (s \o t)[i] = s[i] /\ (u \o v)[i] = u[i]
    BY <1>1
  <2> QED
    BY <2>1
<1>4. \A i \in 1 .. Len(t) : t[i] = v[i]
  <2> TAKE i \in 1 .. Len(t)
  <2>1. (s \o t)[Len(s) + i] = t[i] /\ (u \o v)[Len(s) + i] = v[i]
    BY <1>1, <1>2
  <2> QED
    BY <2>1
<1> QED
  BY <1>2, <1>3, <1>4, SeqEqual

\* A quote that is bound to a session was made for it, as far as the check looks:
\* the nonce has a fixed length and a certificate's key is no hexadecimal text.
LEMMA BoundNamesSession ==
    ASSUME NEW q \in Quotes, NEW used \in Sessions,
           NEW check \in {"tinfoil", "chutes", "chutes_e2ee"}, Bound(q, used, check)
    PROVE  /\ check # "tinfoil" => q.session.nonce = used.nonce /\ q.session.key = used.key
           /\ check # "chutes_e2ee" => q.session.spki = used.spki
<1> DEFINE made == q.session
<1>1. made \in SessionType /\ used \in SessionType
  BY TdxQuotesAssumption
<1>2. /\ made.spki # used.nonce \o used.key /\ used.spki # made.nonce \o made.key
      /\ Len(made.nonce) = NonceLength
  BY TdxQuotesAssumption
<1>3. \A x, y : Digest(x) = Digest(y) => x = y
  BY DEF Digest
<1>4. /\ q.provider = "tinfoil" => ReportData(q)[1] = Digest(made.spki)
      /\ q.provider # "tinfoil" => /\ ReportData(q)[1] = Digest(made.nonce \o made.key)
                                   /\ ReportData(q)[2] = Digest(made.spki)
  BY DEF ReportData, ChutesExpectedPrefix
<1>5. CASE check = "tinfoil"
  <2>1. ReportData(q)[1] = Digest(used.spki)
    BY <1>5 DEF Bound, TlsSpkiBinding
  <2> QED
    BY <2>1, <1>2, <1>3, <1>4, <1>5
<1>6. CASE check # "tinfoil"
  <2>1. /\ IsCanonicalNonceHex(used.nonce)
        /\ ReportData(q)[1] = Digest(used.nonce \o used.key)
        /\ check = "chutes" => ReportData(q)[2] = Digest(used.spki)
    <3>1. CASE check = "chutes"
      <4>1. ChutesLiveBinding(ReportData(q), used)
        BY <3>1 DEF Bound
      <4> QED
        BY <3>1, <4>1 DEF ChutesLiveBinding, ChutesExpectedPrefix
    <3>2. CASE check = "chutes_e2ee"
      <4>1. ChutesE2eeBinding(ReportData(q), used)
        BY <3>2 DEF Bound
      <4> QED
        BY <3>2, <4>1 DEF ChutesE2eeBinding, ChutesExpectedPrefix
    <3> QED
      BY <1>6, <3>1, <3>2
  <2>2. q.provider # "tinfoil"
    BY <2>1, <1>2, <1>3, <1>4
  <2>3. made.nonce \o made.key = used.nonce \o used.key
    BY <2>1, <2>2, <1>3, <1>4
  <2>4. Len(made.nonce) = Len(used.nonce)
    BY <2>1, <1>2 DEF IsCanonicalNonceHex
  <2>5. made.nonce = used.nonce /\ made.key = used.key
    <3>1. /\ made.nonce \in Seq(STRING) /\ made.key \in Seq(STRING)
          /\ used.nonce \in Seq(STRING) /\ used.key \in Seq(STRING)
      BY <1>1 DEF SessionType
    <3> HIDE DEF made
    <3> QED
      BY <3>1, <2>3, <2>4, FirstPartsDecide
  <2>6. check # "chutes_e2ee" => made.spki = used.spki
    BY <1>6, <2>1, <2>2, <1>3, <1>4
  <2> QED
    BY <1>6, <2>5, <2>6
<1> QED
  BY <1>5, <1>6

\* An accepted quote was made for the session it is accepted for, for all quotes and
\* sessions, whichever binding was checked.
THEOREM QuotesNameSessions == TdxSpec => []QuoteNamesSession
<1> DEFINE Typed == quoteOk = [q \in Quotes |-> quoteOk[q]]
<1>1. TdxInit => Typed /\ QuoteNamesSession
  BY DEF TdxInit, QuoteNamesSession
<1>2. Typed /\ QuoteNamesSession /\ [TdxNext]_tdxVars => (Typed /\ QuoteNamesSession)'
  <2> SUFFICES ASSUME Typed, QuoteNamesSession, [TdxNext]_tdxVars
               PROVE  (Typed /\ QuoteNamesSession)'
    OBVIOUS
  <2>1. ASSUME NEW q \in Quotes, CheckQuote(q)
        PROVE  (Typed /\ QuoteNamesSession)'
    <3>1. PICK session \in Sessions, check \in {"tinfoil", "chutes", "chutes_e2ee"} :
             /\ Bound(q, session, check)
             /\ quoteOk' = [quoteOk EXCEPT ![q] = [session |-> session, check |-> check,
                                                   until |-> ValidUntil(verifier[q].pieces)]]
      BY <2>1 DEF CheckQuote
    <3>2. /\ check # "tinfoil" => q.session.nonce = session.nonce /\ q.session.key = session.key
          /\ check # "chutes_e2ee" => q.session.spki = session.spki
      BY <3>1, BoundNamesSession
    <3>3. quoteOk'[q].session = session /\ quoteOk'[q].check = check
      BY <3>1
    <3>4. \A r \in Quotes \ {q} : quoteOk'[r] = quoteOk[r]
      BY <3>1
    <3> QED
      BY <3>1, <3>2, <3>3, <3>4 DEF QuoteNamesSession
  <2>2. CASE quoteOk' = quoteOk
    BY <2>2 DEF QuoteNamesSession
  <2> QED
    BY <2>1, <2>2
       DEF TdxNext, Day, SaveOffline, FlawFound, Reissue, Fetch, InsertSigned, RemoveForQuote,
           VerifierForQuoteAt, tdxVars
<1> QED
  BY <1>1, <1>2, PTL DEF TdxSpec

-----------------------------------------------------------------------------
(* GPU tokens *)

\* The least of a set of numbers with its least member in it
LEMMA ForemostIs ==
    ASSUME NEW S, S \subseteq Nat, NEW n \in S, \A m \in S : n <= m
    PROVE  Foremost(S) = n
<1>1. Foremost(S) \in S /\ \A m \in S : Foremost(S) <= m
  <2>1. \E i \in S : \A j \in S : i <= j
    OBVIOUS
  <2> QED
    BY <2>1, Zenon DEF Foremost
<1>2. Foremost(S) <= n /\ n <= Foremost(S) /\ Foremost(S) \in Nat /\ n \in Nat
  BY <1>1
<1> QED
  BY <1>2

\* A text is its token, at any depth.
LEMMA TextTokens ==
    ASSUME NEW t
    PROVE  /\ TokenAt1(Text(t)) = {t} /\ TokenAt2(Text(t)) = {t} /\ TokenAt3(Text(t)) = {t}
           /\ ExtractNrasToken(Text(t)) = {t}
BY DEF TokenAt1, TokenAt2, TokenAt3, ExtractNrasToken, TokenOf, Text

\* A pair that says it is a JWT is its second item.
LEMMA JwtTokens ==
    ASSUME NEW t
    PROVE  LET pair == List(<<Label("JWT"), Text(t)>>) IN
           TokenAt1(pair) = {t} /\ TokenAt2(pair) = {t} /\ TokenAt3(pair) = {t}
<1> DEFINE items == <<Label("JWT"), Text(t)>>
<1>1. List(items).is = "array" /\ List(items).items = items
  BY DEF List
<1>2. Len(items) = 2 /\ items[1] = Label("JWT") /\ items[2].is = "text" /\ items[2].token = t
  BY DEF Text
<1> HIDE DEF items
<1>3. /\ TokenAt1(List(items)) = ArrayToken(items, NoToken)
      /\ TokenAt2(List(items)) = ArrayToken(items, TokenAt1)
      /\ TokenAt3(List(items)) = ArrayToken(items, TokenAt2)
  BY <1>1 DEF TokenAt1, TokenAt2, TokenAt3, TokenOf
<1>4. TokenAt1(List(items)) = {t} /\ TokenAt2(List(items)) = {t} /\ TokenAt3(List(items)) = {t}
  BY <1>2, <1>3 DEF ArrayToken
<1> QED
  BY <1>4 DEF items

\* The overall token of NRAS's pair is found before the token of a GPU.
LEMMA PairTokens ==
    ASSUME NEW overall, NEW each
    PROVE  LET items == <<List(<<Label("JWT"), Text(overall)>>), Object(<<<<"GPU-0", Text(each)>>>>)>> IN
           TokenAt3(List(items)) = {overall} /\ ExtractNrasToken(List(items)) = {overall}
<1> DEFINE first == List(<<Label("JWT"), Text(overall)>>)
           gpus == Object(<<<<"GPU-0", Text(each)>>>>)
           items == <<first, gpus>>
<1>1. List(items).is = "array" /\ List(items).items = items
  BY DEF List
<1>2. TokenAt2(first) = {overall} /\ TokenAt3(first) = {overall}
  BY JwtTokens
<1>3. first # Label("JWT")
  <2>1. first.is = "array" /\ Label("JWT").is = "label"
    BY DEF List, Label
  <2> QED
    BY <2>1
<1> HIDE DEF first, gpus
<1>4. items[1] = first /\ DOMAIN items = {1, 2}
  OBVIOUS
<1> HIDE DEF items
<1>5. /\ TokenAt3(List(items)) = FirstToken(items, TokenAt2)
      /\ ExtractNrasToken(List(items)) = FirstToken(items, TokenAt3)
  <2>1. /\ TokenAt3(List(items)) = ArrayToken(items, TokenAt2)
        /\ ExtractNrasToken(List(items)) = ArrayToken(items, TokenAt3)
    BY <1>1 DEF TokenAt3, ExtractNrasToken, TokenOf
  <2> QED
    BY <2>1, <1>3, <1>4 DEF ArrayToken
<1>6. FirstToken(items, TokenAt2) = {overall}
  <2> DEFINE found == {i \in DOMAIN items : TokenAt2(items[i]) # {}}
  <2>1. found \subseteq Nat /\ 1 \in found /\ \A i \in found : 1 <= i
    BY <1>2, <1>4
  <2> HIDE DEF found
  <2>2. Foremost(found) = 1 /\ found # {}
    BY <2>1, ForemostIs
  <2> QED
    BY <2>2, <1>2, <1>4 DEF FirstToken, found
<1>7. FirstToken(items, TokenAt3) = {overall}
  <2> DEFINE found == {i \in DOMAIN items : TokenAt3(items[i]) # {}}
  <2>1. found \subseteq Nat /\ 1 \in found /\ \A i \in found : 1 <= i
    BY <1>2, <1>4
  <2> HIDE DEF found
  <2>2. Foremost(found) = 1 /\ found # {}
    BY <2>1, ForemostIs
  <2> QED
    BY <2>2, <1>2, <1>4 DEF FirstToken, found
<1> QED
  BY <1>5, <1>6, <1>7 DEF items, first, gpus

\* Only the preferred field of an object has its token.
LEMMA PreferredToken ==
    ASSUME NEW fields, NEW t, NEW p \in DOMAIN fields, NEW k \in 1 .. 6,
           TokenAt3(fields[p][2]) = {t}, fields[p][1] = TokenKeys[k],
           \A i \in DOMAIN fields : i # p => \A j \in 1 .. 6 : fields[i][1] # TokenKeys[j]
    PROVE  ExtractNrasToken(Object(fields)) = {t}
<1> DEFINE of(key) == UNION {TokenAt3(fields[i][2]) : i \in {j \in DOMAIN fields : fields[j][1] = key}}
           preferred == {j \in DOMAIN TokenKeys : of(TokenKeys[j]) # {}}
<1>1. DOMAIN TokenKeys = 1 .. 6 /\ \A i, j \in 1 .. 6 : TokenKeys[i] = TokenKeys[j] => i = j
  BY DEF TokenKeys
<1>2. ExtractNrasToken(Object(fields)) = ObjectToken(fields, TokenAt3)
  BY DEF ExtractNrasToken, TokenOf, Object
<1>3. of(TokenKeys[k]) = {t}
  <2>1. {j \in DOMAIN fields : fields[j][1] = TokenKeys[k]} = {p}
    OBVIOUS
  <2> QED
    BY <2>1
<1>4. ASSUME NEW j \in 1 .. 6, j # k PROVE of(TokenKeys[j]) = {}
  <2>1. {i \in DOMAIN fields : fields[i][1] = TokenKeys[j]} = {}
    BY <1>1, <1>4
  <2> QED
    BY <2>1
<1>5. preferred = {k}
  <2> HIDE DEF of
  <2> QED
    BY <1>1, <1>3, <1>4
<1>6. Foremost(preferred) = k
  <2>1. preferred \subseteq Nat /\ k \in preferred /\ \A m \in preferred : k <= m
    BY <1>5
  <2> HIDE DEF preferred
  <2> QED
    BY <2>1, ForemostIs
<1>7. ObjectToken(fields, TokenAt3) = IF preferred # {} THEN of(TokenKeys[Foremost(preferred)])
                                      ELSE FirstToken([i \in DOMAIN fields |-> fields[i][2]], TokenAt3)
  BY DEF ObjectToken
<1> HIDE DEF preferred, of
<1> QED
  BY <1>2, <1>3, <1>5, <1>6, <1>7

\* extract_nras_token finds no other token in an answer of NRAS than the overall one.
LEMMA OverallTokenFound ==
    ASSUME NEW form \in Answers, NEW overall, NEW each
    PROVE  ExtractNrasToken(Answer(form, overall, each)) \subseteq {overall}
<1> DEFINE pair == List(<<List(<<Label("JWT"), Text(overall)>>), Object(<<<<"GPU-0", Text(each)>>>>)>>)
<1>1. form \in AnswerForms
  BY GpuTokensAssumption
<1>2. CASE form = "pair"
  <2>1. Answer(form, overall, each) = pair
    BY <1>2 DEF Answer
  <2> QED
    BY <2>1, PairTokens
<1>3. CASE form = "object"
  <2> DEFINE fields == <<<<"GPU-0", Text(each)>>, <<"token", Text(overall)>>>>
  <2>1. Answer(form, overall, each) = Object(fields)
    BY <1>3 DEF Answer
  <2>2. /\ DOMAIN fields = {1, 2} /\ fields[2][2] = Text(overall)
        /\ fields[2][1] = TokenKeys[1] /\ \A j \in 1 .. 6 : fields[1][1] # TokenKeys[j]
    BY DEF TokenKeys
  <2>3. TokenAt3(fields[2][2]) = {overall}
    BY <2>2, TextTokens
  <2> HIDE DEF fields
  <2>4. ExtractNrasToken(Object(fields)) = {overall}
    BY <2>2, <2>3, PreferredToken, SMTT(30)
  <2> QED
    BY <2>1, <2>4
<1>4. CASE form = "claims"
  <2> DEFINE fields == <<<<"REMOTE_GPU_CLAIMS", pair>>>>
  <2>1. Answer(form, overall, each) = Object(fields)
    BY <1>4 DEF Answer
  <2>2. TokenAt3(pair) = {overall}
    BY PairTokens
  <2> HIDE DEF pair
  <2>3. /\ DOMAIN fields = {1} /\ fields[1][2] = pair /\ fields[1][1] = TokenKeys[6]
    BY DEF TokenKeys
  <2> HIDE DEF fields
  <2>4. ExtractNrasToken(Object(fields)) = {overall}
    <3>1. PICK p \in DOMAIN fields, k \in 1 .. 6 :
             /\ TokenAt3(fields[p][2]) = {overall} /\ fields[p][1] = TokenKeys[k]
             /\ \A i \in DOMAIN fields : i = p
      BY <2>2, <2>3
    <3>2. \A i \in DOMAIN fields : i # p => \A j \in 1 .. 6 : fields[i][1] # TokenKeys[j]
      BY <3>1
    <3> QED
      BY <3>1, <3>2, PreferredToken, ZenonT(60)
  <2> QED
    BY <2>1, <2>4
<1>5. CASE form = "bare"
  <2>1. Answer(form, overall, each) = Text(overall)
    BY <1>5 DEF Answer
  <2> QED
    BY <2>1, TextTokens
<1>6. CASE form = "error"
  <2> DEFINE fields == <<<<"message", Label("error")>>>>
  <2>1. Answer(form, overall, each) = Object(fields)
    BY <1>6 DEF Answer
  <2>2. fields = <<<<"message", Label("error")>>>> /\ DOMAIN fields = {1} /\ fields[1][2] = Label("error")
    OBVIOUS
  <2> HIDE DEF fields
  <2>3. TokenAt3(Label("error")) = {}
    BY DEF TokenAt3, TokenOf, Label
  <2>4. ExtractNrasToken(Object(fields)) = ObjectToken(fields, TokenAt3)
    BY DEF ExtractNrasToken, TokenOf, Object
  <2>5. ObjectToken(fields, TokenAt3) = {}
    <3>1. \A key : UNION {TokenAt3(fields[i][2]) : i \in {j \in DOMAIN fields : fields[j][1] = key}} = {}
      BY <2>2, <2>3
    <3>2. FirstToken([i \in DOMAIN fields |-> fields[i][2]], TokenAt3) = {}
      BY <2>2, <2>3 DEF FirstToken
    <3> QED
      BY <3>1, <3>2 DEF ObjectToken
  <2> QED
    BY <2>1, <2>4, <2>5
<1> QED
  BY <1>1, <1>2, <1>3, <1>4, <1>5, <1>6 DEF AnswerForms

\* A token under check is one that NRAS signed, and after a submission that was judged
\* good it is the overall token for the nonce of the verification.
TokenUnderCheck ==
    asks.pc \in {"fetch", "verify"} =>
        /\ asks.token \in minted
        /\ asks.judged =>
              /\ asks.token.iss = "nras" /\ asks.token.version = "3.0"
              /\ asks.token.nonce = asks.nonce /\ asks.token.overall = TRUE
              /\ asks.token.nbf \in Nat /\ asks.token.nbf <= second

VerdictRests ==
    (gpuOk # Absent) =>
        \E t \in minted : t.nonce = gpuOk.nonce /\ t.overall = TRUE /\ gpuOk.at < t.exp

GpuInv == second \in Nat /\ TokenUnderCheck /\ VerdictRests

LEMMA GpuStep == GpuInv /\ [GpuNext]_gpuVars => GpuInv'
<1> SUFFICES ASSUME GpuInv, [GpuNext]_gpuVars PROVE GpuInv'
  OBVIOUS
<1> USE DEF GpuInv
<1>1. CASE Rotate \/ Retire
  BY <1>1 DEF Rotate, Retire, TokenUnderCheck, VerdictRests
<1>2. CASE Second
  <2>1. /\ second' = second + 1 /\ asks' = asks /\ minted' = minted /\ gpuOk' = gpuOk
    BY <1>2 DEF Second
  <2> QED
    BY <2>1 DEF TokenUnderCheck, VerdictRests
<1>3. ASSUME NEW nonce \in Nonces, StartGpu(nonce) PROVE GpuInv'
  <2>1. asks'.pc = "ask"
    BY <1>3 DEF StartGpu
  <2> QED
    BY <1>3, <2>1 DEF StartGpu, TokenUnderCheck, VerdictRests
<1>4. CASE Submit
  <2>1. PICK payload \in Payloads(asks.nonce), form \in Answers :
           \E request \in Requests(payload, asks.nonce) :
             LET overall == Token(request.nonce, Judgement(request))
                 each == Token(request.nonce, Absent)
             IN  /\ minted' = minted \cup {overall}
                 /\ \E token \in ExtractNrasToken(Answer(form, overall, each)) :
                       asks' = [pc |-> "fetch", nonce |-> asks.nonce, token |-> token,
                                judged |-> Judgement(request)]
    BY <1>4 DEF Submit
  <2>2. PICK request \in Requests(payload, asks.nonce) :
             LET overall == Token(request.nonce, Judgement(request))
                 each == Token(request.nonce, Absent)
             IN  /\ minted' = minted \cup {overall}
                 /\ \E token \in ExtractNrasToken(Answer(form, overall, each)) :
                       asks' = [pc |-> "fetch", nonce |-> asks.nonce, token |-> token,
                                judged |-> Judgement(request)]
    BY <2>1
  <2> DEFINE overall == Token(request.nonce, Judgement(request))
             each == Token(request.nonce, Absent)
  <2>3. request.nonce = asks.nonce
    BY DEF Requests
  <2>4. minted' = minted \cup {overall}
    BY <2>2
  <2>5. PICK token \in ExtractNrasToken(Answer(form, overall, each)) :
           asks' = [pc |-> "fetch", nonce |-> asks.nonce, token |-> token,
                    judged |-> Judgement(request)]
    BY <2>2
  <2>6. token = overall
    <3> HIDE DEF overall, each
    <3> QED
      BY <2>5, OverallTokenFound
  <2>7. asks'.nonce = asks.nonce /\ asks'.token = overall /\ (asks'.judged <=> Judgement(request))
    <3> HIDE DEF overall, each
    <3> QED
      BY <2>5, <2>6
  <2>8. /\ overall.iss = "nras" /\ overall.version = "3.0" /\ overall.nonce = asks.nonce
        /\ overall.nbf = second
    BY <2>3 DEF Token
  <2>9. overall.overall = Judgement(request)
    BY DEF Token
  <2>10. Judgement(request) => overall.overall = TRUE
    BY <2>9, Zenon DEF Judgement
  <2>11. second' = second /\ gpuOk' = gpuOk
    BY <1>4 DEF Submit
  <2> HIDE DEF overall, each
  <2>12. TokenUnderCheck'
    BY <2>4, <2>7, <2>8, <2>10, <2>11 DEF TokenUnderCheck
  <2>13. VerdictRests'
    BY <2>4, <2>11 DEF VerdictRests
  <2> QED
    BY <2>11, <2>12, <2>13
<1>5. CASE SubmitFails
  <2>1. asks'.pc = "idle"
    BY <1>5 DEF SubmitFails, NotAsking
  <2> QED
    BY <1>5, <2>1 DEF SubmitFails, TokenUnderCheck, VerdictRests
<1>6. CASE Supplied
  <2>1. PICK token \in minted :
          asks' = [pc |-> "fetch", nonce |-> asks.nonce, token |-> token, judged |-> FALSE]
    BY <1>6 DEF Supplied
  <2>2. asks'.token \in minted /\ ~asks'.judged
    BY <2>1
  <2> QED
    BY <1>6, <2>2 DEF Supplied, TokenUnderCheck, VerdictRests
<1>7. CASE FetchJwks
  <2>1. /\ asks'.token = asks.token /\ asks'.nonce = asks.nonce /\ asks'.judged = asks.judged
        /\ asks.pc = "fetch"
    BY <1>7 DEF FetchJwks
  <2>2. UNCHANGED <<second, minted, gpuOk>>
    BY <1>7 DEF FetchJwks
  <2>3. TokenUnderCheck'
    BY <2>1, <2>2 DEF TokenUnderCheck
  <2> QED
    BY <2>2, <2>3 DEF VerdictRests
<1>8. CASE FinishGpu
  <2>1. asks'.pc = "idle" /\ asks.pc = "verify" /\ UNCHANGED <<second, minted>>
    BY <1>8 DEF FinishGpu, NotAsking
  <2>2. TokenUnderCheck'
    BY <2>1 DEF TokenUnderCheck
  <2>3. asks.token \in minted
    BY <2>1 DEF TokenUnderCheck
  <2>4. CASE VerifyNrasJwt(asks.token, asks.jwks, asks.nonce)
    <3>1. gpuOk' = [nonce |-> asks.nonce, at |-> second]
      BY <1>8, <2>4 DEF FinishGpu
    <3>2. gpuOk'.nonce = asks.nonce /\ gpuOk'.at = second
      BY <3>1
    <3>3. asks.token.nonce = asks.nonce /\ asks.token.overall = TRUE /\ asks.token.exp > second
      BY <2>4 DEF VerifyNrasJwt, InTime
    <3> QED
      BY <2>1, <2>2, <2>3, <3>2, <3>3 DEF VerdictRests
  <2>5. CASE ~VerifyNrasJwt(asks.token, asks.jwks, asks.nonce)
    <3>1. gpuOk' = Absent
      BY <1>8, <2>5 DEF FinishGpu
    <3> QED
      BY <2>1, <2>2, <3>1 DEF VerdictRests
  <2> QED
    BY <2>4, <2>5
<1>9. CASE UNCHANGED gpuVars
  BY <1>9 DEF gpuVars, TokenUnderCheck, VerdictRests
<1> QED
  BY <1>1, <1>2, <1>3, <1>4, <1>5, <1>6, <1>7, <1>8, <1>9 DEF GpuNext

\* For any nonces, forms of payloads and token lives: a GPU verdict rests on an overall
\* token of NRAS for its own nonce and in its life, and good evidence just judged is
\* accepted.
THEOREM GpuVerdictsRight == GpuSpec => []GpuVerdictRight
<1>1. GpuInit => GpuInv
  BY DEF GpuInit, GpuInv, NotAsking, TokenUnderCheck, VerdictRests
<1>2. GpuInv => GpuVerdictRight
  <2> SUFFICES ASSUME GpuInv PROVE GpuVerdictRight
    OBVIOUS
  <2>1. ASSUME asks.pc = "verify", asks.judged, second < asks.token.exp,
               SignatureValid(asks.token, asks.jwks)
        PROVE  VerifyNrasJwt(asks.token, asks.jwks, asks.nonce)
    BY <2>1 DEF GpuInv, TokenUnderCheck, VerifyNrasJwt, InTime
  <2> QED
    BY <2>1 DEF GpuInv, VerdictRests, GpuVerdictRight
<1> QED
  BY <1>1, <1>2, GpuStep, PTL DEF GpuSpec

\* Evidence speaks for the session that asked, of both kinds, for any sessions and nonces.
THEOREM EvidenceNamesSessions == TdxSpec /\ GpuSpec => []EvidenceNamesSession
BY QuotesNameSessions, GpuVerdictsRight, PTL DEF EvidenceNamesSession

-----------------------------------------------------------------------------
(* Encrypted bodies *)

\* The request an envelope was sealed for, and the route it was asked on.
SealedFor(e, q) ==
    /\ q \in Exchanges /\ asked[q] \in Ways
    /\ e = Encrypt(asked[q], q)

\* A box of an answer: by the workload of the request's route, to this request, under
\* a key that only the two can derive.
AnswerBox(scheme, public, box, q) ==
    LET way == asked[q] IN
    /\ box.plain.to = q /\ box.plain.by = way.key
    /\ scheme = "sdk" => box.key.shared = Shared(q, way.key)
    /\ scheme = "ehbp" => box.key.exported = Shared(q, way.key)
    /\ scheme = "chutes" => box.key.shared = Shared(public, q)

AnsweredTo(r, q) ==
    /\ q \in Exchanges /\ asked[q] \in Ways
    /\ r = [scheme |-> r.scheme, meta |-> r.meta, public |-> r.public, boxes |-> r.boxes]
    /\ \A i \in DOMAIN r.boxes : AnswerBox(r.scheme, r.public, r.boxes[i], q)

EnvelopeInv ==
    /\ asked \in [Exchanges -> Ways \cup {Nobody}]
    /\ answers = [q \in Exchanges |-> answers[q]]
    /\ \A e \in outgoing : \E q \in Exchanges : SealedFor(e, q)
    /\ \A r \in incoming : \E q \in Exchanges : AnsweredTo(r, q)
    /\ \A o \in opened : o.body \in Exchanges /\ asked[o.body] \in Ways
    /\ \A q \in Exchanges : answers[q] # Nobody => asked[q] \in Ways
    /\ OpensOnlyItsOwn

\* What a workload opens was sealed for its key and, as an SDK envelope, for its route.
LEMMA OpenedByItsOwn ==
    ASSUME NEW way \in Ways, NEW q \in Exchanges, asked[q] \in Ways, NEW sent,
           SealedFor(sent, q), NEW e, e.scheme = sent.scheme, e.keyId = sent.keyId,
           e.box = sent.box, WorkloadOpens(e, way)
    PROVE  /\ sent.box.plain.body = q /\ e.public = q
           /\ asked[q].scheme = way.scheme /\ asked[q].key = way.key
           /\ way.scheme = "sdk" => asked[q] = way
           /\ way.scheme = "chutes" => sent.box.plain.reply = q
<1> DEFINE a == asked[q]
<1>0. a.scheme \in Schemes /\ way.scheme \in Schemes
  BY EnvelopesAssumption
<1>1. sent = Encrypt(a, q)
  BY DEF SealedFor
<1>2. CASE a.scheme = "sdk"
  <2>1. sent = SdkEncrypt(a, q)
    BY <1>1, <1>2 DEF Encrypt
  <2>2. /\ e.scheme = "sdk" /\ e.keyId = a.keyId
        /\ e.box = sent.box
        /\ sent.box.key = SdkKey(Shared(q, a.key), RouteMeta(a, q), a.keyId, "request")
        /\ sent.box.plain.body = q
    BY <2>1 DEF SdkEncrypt, Box
  <2>3. way.scheme = "sdk" /\ SdkOpens(e, way)
    BY <2>2 DEF WorkloadOpens
  <2>4. /\ e.meta = RouteMeta(way, e.meta.request) /\ a.keyId = way.keyId
        /\ sent.box.key = SdkKey(Shared(e.public, way.key), e.meta, a.keyId, "request")
    BY <2>2, <2>3 DEF SdkOpens, Opens
  <2>5. Shared(q, a.key) = Shared(e.public, way.key) /\ RouteMeta(a, q) = e.meta
    BY <2>2, <2>4 DEF SdkKey
  <2>6. q = e.public /\ a.key = way.key
    BY <2>5 DEF Shared
  <2>7. a.id = way.id /\ a.provider = way.provider /\ a.pmodel = way.pmodel
    BY <2>4, <2>5 DEF RouteMeta
  <2>8. a = way
    BY <1>2, <2>3, <2>4, <2>6, <2>7, EnvelopesAssumption
  <2> QED
    BY <1>2, <2>2, <2>3, <2>6, <2>8
<1>3. CASE a.scheme = "ehbp"
  <2>1. sent = EhbpEncrypt(a, q)
    BY <1>1, <1>3 DEF Encrypt
  <2>2. /\ e.scheme = "ehbp" /\ e.box = sent.box
        /\ sent.box.key.shared = Shared(q, a.key)
        /\ sent.box.plain.body = q
    BY <2>1 DEF EhbpEncrypt, Box
  <2>3. way.scheme = "ehbp" /\ EhbpOpens(e, way)
    BY <2>2 DEF WorkloadOpens
  <2>4. sent.box.key.shared = Shared(e.public, way.key)
    BY <2>2, <2>3 DEF EhbpOpens, Opens
  <2>5. q = e.public /\ a.key = way.key
    BY <2>2, <2>4 DEF Shared
  <2> QED
    BY <1>3, <2>2, <2>3, <2>5
<1>4. CASE a.scheme = "chutes"
  <2>1. sent = ChutesEncrypt(a, q)
    BY <1>1, <1>4 DEF Encrypt
  <2>2. /\ e.scheme = "chutes" /\ e.box = sent.box
        /\ sent.box.key.shared = Shared(q, a.key)
        /\ sent.box.plain.body = q /\ sent.box.plain.reply = q
    BY <2>1 DEF ChutesEncrypt, Box
  <2>3. way.scheme = "chutes" /\ ChutesOpens(e, way)
    BY <2>2 DEF WorkloadOpens
  <2>4. sent.box.key.shared = Shared(e.public, way.key)
    BY <2>2, <2>3 DEF ChutesOpens, Opens
  <2>5. q = e.public /\ a.key = way.key
    BY <2>2, <2>4 DEF Shared
  <2> QED
    BY <1>4, <2>2, <2>3, <2>5
<1> QED
  BY <1>0, <1>2, <1>3, <1>4 DEF Schemes

\* A workload seals its answer for the request it has opened.
LEMMA AnswerIsTo ==
    ASSUME NEW way \in Ways, NEW q \in Exchanges, asked[q] \in Ways, asked[q].key = way.key,
           NEW e, e.public = q, way.scheme = "chutes" => e.box.plain.reply = q,
           NEW answer, answer = [to |-> q, by |-> way.key, parts |-> Parts]
    PROVE  AnsweredTo(Respond(e, way, answer), q)
<1> DEFINE r == Respond(e, way, answer)
<1>0. way.scheme \in Schemes
  BY EnvelopesAssumption
<1>1. CASE way.scheme = "sdk"
  <2>1. r = SdkRespond(e, way, answer)
    BY <1>1 DEF Respond
  <2> HIDE DEF r
  <2>2. /\ r = [scheme |-> r.scheme, meta |-> r.meta, public |-> r.public, boxes |-> r.boxes]
        /\ r.scheme = "sdk" /\ DOMAIN r.boxes = {1}
        /\ r.boxes[1].plain = answer
        /\ r.boxes[1].key.shared = Shared(q, way.key)
    BY <2>1 DEF SdkRespond, Box, SdkKey
  <2> QED
    BY <2>2 DEF AnsweredTo, AnswerBox, r
<1>2. CASE way.scheme = "ehbp"
  <2>1. r = EhbpRespond(e, way, answer)
    BY <1>2 DEF Respond
  <2> HIDE DEF r
  <2>2. /\ r = [scheme |-> r.scheme, meta |-> r.meta, public |-> r.public, boxes |-> r.boxes]
        /\ r.scheme = "ehbp" /\ DOMAIN r.boxes = DOMAIN Parts
    BY <2>1 DEF EhbpRespond
  <2>3. ASSUME NEW i \in DOMAIN r.boxes
        PROVE  /\ r.boxes[i].plain.to = q /\ r.boxes[i].plain.by = way.key
               /\ r.boxes[i].key.exported = Shared(q, way.key)
    BY <2>1, <2>3 DEF EhbpRespond, Box, EhbpKey
  <2> QED
    BY <2>2, <2>3 DEF AnsweredTo, AnswerBox, r
<1>3. CASE way.scheme = "chutes"
  <2>1. r = ChutesRespond(e, way, answer)
    BY <1>3 DEF Respond
  <2> HIDE DEF r
  <2>2. /\ r = [scheme |-> r.scheme, meta |-> r.meta, public |-> r.public, boxes |-> r.boxes]
        /\ r.scheme = "chutes" /\ DOMAIN r.boxes = {1} /\ r.public = way.key
        /\ r.boxes[1].plain = answer
        /\ r.boxes[1].key.shared = Shared(way.key, q)
    BY <1>3, <2>1 DEF ChutesRespond, Box
  <2> QED
    BY <2>2 DEF AnsweredTo, AnswerBox, r
<1> QED
  BY <1>0, <1>1, <1>2, <1>3 DEF Schemes

\* An answer that opens for a request was given to it, by the workload of its route.
LEMMA AnswerIsOwn ==
    ASSUME NEW q \in Exchanges, asked[q] \in Ways, NEW p, NEW got, AnsweredTo(got, p),
           got.scheme = asked[q].scheme, NEW meta, NEW boxes \in Rearranged(got.boxes),
           boxes # <<>>,
           OpensResponse([got EXCEPT !.meta = meta, !.boxes = boxes], asked[q], q)
    PROVE  boxes[1].plain.to = q /\ boxes[1].plain.by = asked[q].key
<1> DEFINE r == [got EXCEPT !.meta = meta, !.boxes = boxes]
           a == asked[q]
<1>0. a.scheme \in Schemes
  BY EnvelopesAssumption
<1>1. r.boxes = boxes /\ r.public = got.public
  BY DEF AnsweredTo
<1>2. 1 \in DOMAIN boxes /\ \E j \in DOMAIN got.boxes : boxes[1] = got.boxes[j]
  <2>1. PICK n \in 0 .. Len(got.boxes) : \E order \in [1 .. n -> DOMAIN got.boxes] :
           boxes = [i \in DOMAIN order |-> got.boxes[order[i]]]
    BY DEF Rearranged
  <2>2. PICK order \in [1 .. n -> DOMAIN got.boxes] :
           boxes = [i \in DOMAIN order |-> got.boxes[order[i]]]
    BY <2>1
  <2>3. n # 0
    BY <2>2
  <2>4. 1 \in 1 .. n
    BY <2>3
  <2> QED
    BY <2>2, <2>4
<1>3. AnswerBox(a.scheme, got.public, boxes[1], p)
  BY <1>2 DEF AnsweredTo
<1> HIDE DEF r
<1>4. CASE a.scheme = "sdk"
  <2>1. SdkOpensResponse(r, a, q)
    BY <1>4 DEF OpensResponse, r
  <2>2. boxes[1].key.shared = Shared(q, a.key)
    BY <1>1, <2>1 DEF SdkOpensResponse, Opens, SdkKey
  <2> QED
    BY <1>3, <1>4, <2>2 DEF AnswerBox, Shared
<1>5. CASE a.scheme = "ehbp"
  <2>1. EhbpOpensResponse(r, a, q)
    BY <1>5 DEF OpensResponse, r
  <2>2. Opens(boxes[1], EhbpKey(Shared(q, a.key), q, got.public, 1 - 1), Nobody)
    BY <1>1, <1>2, <2>1 DEF EhbpOpensResponse
  <2>3. boxes[1].key = EhbpKey(Shared(q, a.key), q, got.public, 1 - 1)
    BY <2>2 DEF Opens
  <2>4. boxes[1].key.exported = Shared(q, a.key)
    BY <2>3 DEF EhbpKey
  <2> QED
    BY <1>3, <1>5, <2>4 DEF AnswerBox, Shared
<1>6. CASE a.scheme = "chutes"
  <2>1. ChutesOpensResponse(r, a, q)
    BY <1>6 DEF OpensResponse, r
  <2>2. boxes[1].key.shared = Shared(got.public, q)
    BY <1>1, <2>1 DEF ChutesOpensResponse, Opens
  <2> QED
    BY <1>3, <1>6, <2>2 DEF AnswerBox, Shared
<1> QED
  BY <1>0, <1>4, <1>5, <1>6 DEF Schemes

\* No step lets anyone open what is not theirs.
LEMMA EnvelopeStep == EnvelopeInv /\ [EnvelopeNext]_envelopeVars => EnvelopeInv'
<1> SUFFICES ASSUME EnvelopeInv, [EnvelopeNext]_envelopeVars
             PROVE  EnvelopeInv'
  OBVIOUS
<1> USE DEF EnvelopeInv
<1>1. ASSUME NEW q \in Exchanges, NEW way \in Ways, Ask(q, way)
      PROVE  EnvelopeInv'
  <2>1. /\ asked[q] = Nobody /\ asked' = [asked EXCEPT ![q] = way]
        /\ outgoing' = outgoing \cup {Encrypt(way, q)}
        /\ UNCHANGED <<incoming, opened, answers>>
    BY <1>1 DEF Ask
  <2>2. \A p \in Exchanges : asked[p] \in Ways => asked'[p] = asked[p]
    BY <2>1, EnvelopesAssumption
  <2>3. asked'[q] = way /\ asked' \in [Exchanges -> Ways \cup {Nobody}]
    BY <2>1
  <2>4. \A e \in outgoing' : \E p \in Exchanges : SealedFor(e, p)'
    BY <2>1, <2>2, <2>3 DEF SealedFor
  <2>5. \A r \in incoming' : \E p \in Exchanges : AnsweredTo(r, p)'
    BY <2>1, <2>2 DEF AnsweredTo, AnswerBox
  <2>6. OpensOnlyItsOwn'
    BY <2>1, <2>2 DEF OpensOnlyItsOwn
  <2> QED
    BY <2>1, <2>2, <2>3, <2>4, <2>5, <2>6
<1>2. ASSUME NEW way \in Ways, Work(way)
      PROVE  EnvelopeInv'
  <2>1. PICK sent \in outgoing, meta \in Metas, public \in Exchanges :
           LET envelope == [sent EXCEPT !.meta = meta, !.public = public]
               answer == [to |-> envelope.box.plain.body, by |-> way.key, parts |-> Parts]
           IN  /\ WorkloadOpens(envelope, way)
               /\ opened' = opened \cup {[way |-> way, body |-> envelope.box.plain.body]}
               /\ incoming' = incoming \cup {Respond(envelope, way, answer)}
               /\ UNCHANGED <<asked, outgoing, answers>>
    BY <1>2 DEF Work
  <2>2. PICK q \in Exchanges : SealedFor(sent, q)
    OBVIOUS
  <2> DEFINE e == [sent EXCEPT !.meta = meta, !.public = public]
             answer == [to |-> q, by |-> way.key, parts |-> Parts]
  <2>3. asked[q] \in Ways
    BY <2>2 DEF SealedFor
  <2>4. e.public = public /\ e.scheme = sent.scheme /\ e.keyId = sent.keyId /\ e.box = sent.box
    <3>1. asked[q].scheme \in Schemes
      BY <2>3, EnvelopesAssumption
    <3>2. sent \in {SdkEncrypt(asked[q], q), EhbpEncrypt(asked[q], q), ChutesEncrypt(asked[q], q)}
      BY <2>2, <3>1 DEF SealedFor, Encrypt, Schemes
    <3> QED
      BY <3>2 DEF SdkEncrypt, EhbpEncrypt, ChutesEncrypt
  <2>5. WorkloadOpens(e, way)
    BY <2>1
  <2> HIDE DEF e
  <2>6. /\ asked[q] \in Ways
        /\ sent.box.plain.body = q /\ public = q
        /\ asked[q].key = way.key
        /\ way.scheme = "sdk" => asked[q] = way
        /\ way.scheme = "chutes" => sent.box.plain.reply = q
    BY <2>2, <2>3, <2>4, <2>5, OpenedByItsOwn
  <2>7. /\ opened' = opened \cup {[way |-> way, body |-> q]}
        /\ incoming' = incoming \cup {Respond(e, way, answer)}
        /\ UNCHANGED <<asked, outgoing, answers>>
    <3>1. e.box.plain.body = q
      BY <2>4, <2>6
    <3>2. /\ opened' = opened \cup {[way |-> way, body |-> e.box.plain.body]}
          /\ incoming' = incoming \cup
                {Respond(e, way, [to |-> e.box.plain.body, by |-> way.key, parts |-> Parts])}
          /\ UNCHANGED <<asked, outgoing, answers>>
      BY <2>1 DEF e
    <3> QED
      BY <3>1, <3>2
  <2>8. AnsweredTo(Respond(e, way, answer), q)
    BY <2>6, <2>4, AnswerIsTo
  <2>9. \A r \in incoming' : \E p \in Exchanges : AnsweredTo(r, p)'
    <3>1. \A r \in incoming' : \E p \in Exchanges : AnsweredTo(r, p)
      BY <2>7, <2>8
    <3> QED
      BY <3>1, <2>7 DEF AnsweredTo, AnswerBox
  <2>10. \A s \in outgoing' : \E p \in Exchanges : SealedFor(s, p)'
    BY <2>7 DEF SealedFor
  <2>11. /\ \A o \in opened' : o.body \in Exchanges /\ asked'[o.body] \in Ways
        /\ OpensOnlyItsOwn'
    BY <2>6, <2>7 DEF OpensOnlyItsOwn
  <2> QED
    BY <2>7, <2>9, <2>10, <2>11
<1>3. ASSUME NEW q \in Exchanges, Receive(q)
      PROVE  EnvelopeInv'
  <2>1. PICK got \in incoming, meta \in Metas : \E boxes \in Rearranged(got.boxes) :
           LET response == [got EXCEPT !.meta = meta, !.boxes = boxes] IN
           /\ got.scheme = asked[q].scheme
           /\ answers' = [answers EXCEPT ![q] =
                 IF OpensResponse(response, asked[q], q) /\ Parsed(boxes)
                 THEN [to |-> boxes[1].plain.to, by |-> boxes[1].plain.by,
                       parts |-> FlattenSeq([i \in DOMAIN boxes |-> boxes[i].plain.parts])]
                 ELSE Refused]
    BY <1>3 DEF Receive
  <2>2. PICK boxes \in Rearranged(got.boxes) :
           LET response == [got EXCEPT !.meta = meta, !.boxes = boxes] IN
           /\ got.scheme = asked[q].scheme
           /\ answers' = [answers EXCEPT ![q] =
                 IF OpensResponse(response, asked[q], q) /\ Parsed(boxes)
                 THEN [to |-> boxes[1].plain.to, by |-> boxes[1].plain.by,
                       parts |-> FlattenSeq([i \in DOMAIN boxes |-> boxes[i].plain.parts])]
                 ELSE Refused]
    BY <2>1
  <2>3. asked[q] \in Ways /\ UNCHANGED <<asked, outgoing, incoming, opened>>
    BY <1>3 DEF Receive
  <2>4. answers'[q] = Refused \/ answers'[q] = [to |-> q, by |-> asked[q].key, parts |-> Parts]
    <3>1. CASE ~(OpensResponse([got EXCEPT !.meta = meta, !.boxes = boxes], asked[q], q)
                 /\ Parsed(boxes))
      BY <2>2, <3>1
    <3>2. CASE /\ OpensResponse([got EXCEPT !.meta = meta, !.boxes = boxes], asked[q], q)
               /\ Parsed(boxes)
      <4>1. boxes # <<>> /\ FlattenSeq([i \in DOMAIN boxes |-> boxes[i].plain.parts]) = Parts
        BY <3>2 DEF Parsed
      <4>2. PICK p \in Exchanges : AnsweredTo(got, p)
        OBVIOUS
      <4>3. boxes[1].plain.to = q /\ boxes[1].plain.by = asked[q].key
        BY <2>2, <2>3, <3>2, <4>1, <4>2, AnswerIsOwn
      <4> QED
        BY <2>2, <3>2, <4>1, <4>3
    <3> QED
      BY <3>1, <3>2
  <2>5. /\ answers' = [p \in Exchanges |-> answers'[p]]
        /\ \A p \in Exchanges \ {q} : answers'[p] = answers[p]
    BY <2>2
  <2>6. OpensOnlyItsOwn'
    BY <2>3, <2>4, <2>5 DEF OpensOnlyItsOwn
  <2>7. /\ \A e \in outgoing' : \E p \in Exchanges : SealedFor(e, p)'
        /\ \A r \in incoming' : \E p \in Exchanges : AnsweredTo(r, p)'
    BY <2>3 DEF SealedFor, AnsweredTo, AnswerBox
  <2> QED
    BY <2>3, <2>5, <2>6, <2>7
<1>4. CASE UNCHANGED envelopeVars
  BY <1>4 DEF envelopeVars, SealedFor, AnsweredTo, AnswerBox, OpensOnlyItsOwn
<1> QED
  BY <1>1, <1>2, <1>3, <1>4 DEF EnvelopeNext

\* Whatever carries the envelopes, a workload decrypts only what was sealed for it, and
\* a request returns its own whole answer or an error, for any routes, keys, requests
\* and chunks, in all three encryptions.
THEOREM EnvelopesOpenOwn == EnvelopeSpec => []OpensOnlyItsOwn
<1>1. EnvelopeInit => EnvelopeInv
  BY DEF EnvelopeInit, EnvelopeInv, OpensOnlyItsOwn
<1>2. EnvelopeInv => OpensOnlyItsOwn
  BY DEF EnvelopeInv
<1> QED
  BY <1>1, EnvelopeStep, <1>2, PTL DEF EnvelopeSpec

-----------------------------------------------------------------------------
(* The trust command line *)

\* The i-th capture: its measurement is proved and, for providers with releases, that
\* of the release.  Tinfoil compares captures with the release in pairs.
Vouched(i) ==
    LET quote == command.seen[i] IN
    /\ [provider |-> command.provider, measurement |-> quote.measurement] \in proved
    /\ command.provider \in ReleasePinned => quote.expires \in Nat
    /\ \/ command.provider \notin ReleasePinned
       \/ command.provider = "tinfoil" /\ i = Len(command.seen) /\ i % 2 # 0
       \/ quote.measurement = Measurements[command.digest]

\* The second capture of a model has the measurement of the first, except of Chutes.
Paired(i) ==
    command.provider # "chutes" /\ i % 2 = 0 =>
        command.seen[i - 1].measurement = command.seen[i].measurement

Seeing == {"release", "capture", "assemble"}

Capturing ==
    command.stage \in Seeing =>
        /\ command = [stage |-> command.stage, key |-> command.key,
                      provider |-> command.provider, models |-> command.models,
                      smoke |-> command.smoke, digest |-> command.digest, at |-> command.at,
                      seen |-> command.seen]
        /\ command.models # <<>> /\ ParseModels(command.models)
        /\ \E c \in Commands : c.provider = command.provider /\ c.models = command.models
        /\ \E S : command.seen \in Seq(S)
        /\ \A i \in 1 .. Len(command.seen) : Vouched(i) /\ Paired(i)
        /\ command.stage = "release" => command.seen = <<>>
        /\ command.stage = "capture" /\ command.provider \in ReleasePinned =>
              Len(command.seen) < Len(command.models) * 2
        /\ command.stage = "assemble" =>
              Len(command.seen) = Len(command.models) * CapturesPerModel

\* The artifacts in c are of one pin, signed with the key.
OnePin(c, key) ==
    /\ c.registry.signer = key /\ c.reference.signer = key /\ c.matrix.signer = key
    /\ c.registry.payload.version = c.reference.payload.version
    /\ c.registry.payload.provider = c.reference.payload.provider
    /\ DOMAIN c.registry.payload.routes = DOMAIN c.reference.payload.routes
    /\ \A name \in DOMAIN c.reference.payload.routes :
          c.reference.payload.until <= c.reference.payload.routes[name].until
    /\ FromItsRelease(c.reference) /\ OnePerRoute(c.reference)

\* Reference values accept proved measurements only.
Backed(reference) ==
    \A m \in reference.payload.measurements :
        [provider |-> reference.payload.provider, measurement |-> m] \in proved

Writing ==
    command.stage \in {"smoke", "write", "rename"} =>
        /\ command = [stage |-> command.stage, key |-> command.key,
                      provider |-> command.provider, models |-> command.models,
                      content |-> command.content, at |-> command.at]
        /\ command.at \in 1 .. 4
        /\ OnePin(command.content, command.key) /\ Backed(command.content.reference)

FilesOK ==
    /\ files = [name \in DOMAIN NoFiles |-> files[name]]
    /\ files["config"] # Nothing =>
          files["config"] # Partial /\ OnePin(files["config"], files["config"].key)
    /\ files["reference"] \notin {Nothing, Partial} => Backed(files["reference"])

WorldOK ==
    /\ now \in Nat
    /\ running = [p \in Pinnable |-> running[p]]
    /\ \A p \in Pinnable : running[p] \in Deployments[p]

ToolsInv == WorldOK /\ Capturing /\ Writing /\ FilesOK

\* Least is the least of a set of natural numbers.
LEMMA LeastOf ==
    ASSUME NEW S, S \subseteq Nat, S # {}
    PROVE  Least(S) \in S /\ \A u \in S : Least(S) <= u
<1> DEFINE T == {1 .. n : n \in S}
<1>1. \A n \in Nat : 1 .. n \in FiniteSubsetsOf(Nat)
  BY FS_Interval DEF FiniteSubsetsOf
<1>2. T \subseteq FiniteSubsetsOf(Nat) /\ T # {}
  BY <1>1
<1>3. \E x \in T : \A y \in T : ~(<<y, x>> \in StrictSubsetOrdering(Nat))
  BY <1>2, WFMin, FS_StrictSubsetOrderingWellFounded
<1>4. PICK n \in S : \A m \in S : ~(<<1 .. m, 1 .. n>> \in StrictSubsetOrdering(Nat))
  BY <1>3
<1>5. ASSUME NEW m \in S, m < n PROVE FALSE
  <2>1. 1 .. m \subseteq 1 .. n /\ 1 .. m # 1 .. n /\ 1 .. m \subseteq Nat /\ 1 .. n \subseteq Nat
    BY <1>5
  <2> QED
    BY <2>1, <1>4, <1>5 DEF StrictSubsetOrdering
<1>6. \E t \in S : \A u \in S : t <= u
  BY <1>4, <1>5
<1> QED
  BY <1>6 DEF Least

\* What a capture is verified to be is honest.
LEMMA VerifiedIsHonest ==
    ASSUME NEW quote, command.provider \in Pinnable, VerifiedCapture(quote)
    PROVE  Honest(quote)
<1>1. CASE command.provider = "chutes"
  BY <1>1 DEF VerifiedCapture, VerifiedChutesMeasurement, Honest
<1>2. CASE command.provider = "tinfoil"
  BY <1>2 DEF VerifiedCapture, VerifiedTinfoilCapture, Honest
<1>3. CASE command.provider = "ppq"
  BY <1>3 DEF VerifiedCapture, VerifiedPpqCapture, Honest
<1>4. CASE command.provider = "redpill"
  BY <1>4 DEF VerifiedCapture, VerifiedRedpillMeasurement, EnforceComposePolicy, Honest
<1> QED
  BY <1>1, <1>2, <1>3, <1>4 DEF Pinnable

\* A command has models.
LEMMA ModelsListed ==
    ASSUME Capturing, command.stage \in Seeing
    PROVE  /\ Len(command.models) \in Nat \ {0}
           /\ DOMAIN command.models = 1 .. Len(command.models)
<1> DEFINE T == [name : STRING, provider : STRING, private : BOOLEAN]
<1>1. command.models \in Seq(T) /\ command.models # <<>>
  BY TrustToolsAssumption DEF Capturing
<1> HIDE DEF T
<1> QED
  BY <1>1, EmptySeq

\* Pairs
LEMMA Parity ==
    ASSUME NEW n \in Nat
    PROVE  (n * 2) % 2 = 0 /\ (n % 2 # 0 => (n + 1) % 2 = 0)
OBVIOUS

\* The captures of a model are among those made.
LEMMA SeenIsMade ==
    ASSUME ToolsInv, Stage("assemble"), NEW k \in DOMAIN command.models
    PROVE  /\ (k - 1) * CapturesPerModel + 1 .. k * CapturesPerModel \subseteq 1 .. Len(command.seen)
           /\ (k - 1) * CapturesPerModel + 1 \in (k - 1) * CapturesPerModel + 1 .. k * CapturesPerModel
<1> DEFINE C == CapturesPerModel
           L == Len(command.models)
<1>1. C \in Nat \ {0}
  BY TrustToolsAssumption DEF CapturesPerModel
<1>2. L \in Nat /\ k \in 1 .. L
  BY TrustToolsAssumption DEF ToolsInv, Capturing, Seeing, Stage
<1>3. Len(command.seen) = L * C
  BY DEF ToolsInv, Capturing, Seeing, Stage
<1> HIDE DEF C, L
<1>4. (L - k) \in Nat /\ (k - 1) \in Nat
  BY <1>2
<1>5. (L - k) * C \in Nat /\ (k - 1) * C \in Nat
  BY <1>1, <1>4
<1>6. L * C = (L - k) * C + k * C /\ k * C = (k - 1) * C + C
  BY <1>1, <1>2
<1>7. k * C \in Nat /\ L * C \in Nat
  BY <1>1, <1>2
<1>8. /\ (k - 1) * C + 1 .. k * C \subseteq 1 .. L * C
      /\ (k - 1) * C + 1 \in (k - 1) * C + 1 .. k * C
  BY <1>1, <1>5, <1>6, <1>7
<1> QED
  BY <1>3, <1>8 DEF C

\* When a reference ends is a time.
LEMMA UntilIsTime ==
    ASSUME ToolsInv, Stage("assemble"), NEW k \in DOMAIN command.models
    PROVE  GenerateReference(k).until \in Nat
<1>1. command.provider \in Pinnable
  BY TrustToolsAssumption DEF ToolsInv, Capturing, Seeing, Stage
<1>2. now + ValidFor \in Nat
  BY TrustToolsAssumption DEF ToolsInv, WorldOK
<1>3. ASSUME command.provider \in ReleasePinned, NEW quote \in Seen(k)
      PROVE  quote.expires \in Nat
  <2>1. PICK i \in (k - 1) * CapturesPerModel + 1 .. k * CapturesPerModel : quote = command.seen[i]
    BY <1>3 DEF Seen
  <2>2. i \in 1 .. Len(command.seen)
    BY SeenIsMade, <2>1
  <2> QED
    BY <1>3, <2>1, <2>2 DEF ToolsInv, Capturing, Vouched, Seeing, Stage
<1>4. First(k) \in Seen(k)
  BY SeenIsMade DEF First, Seen
<1>5. CASE command.provider \in {"chutes", "redpill"}
  BY <1>2, <1>5 DEF GenerateReference, ChutesReference, RedpillReference
<1>6. CASE command.provider = "tinfoil"
  BY <1>3, <1>4, <1>6 DEF GenerateReference, TinfoilReference, ReleasePinned
<1>7. CASE command.provider = "ppq"
  <2> DEFINE S == {quote.expires : quote \in Seen(k)}
  <2>1. S \subseteq Nat /\ S # {}
    BY <1>3, <1>4, <1>7 DEF ReleasePinned
  <2>2. Least(S) \in Nat
    BY <2>1, LeastOf
  <2> QED
    BY <1>7, <2>2 DEF GenerateReference, PpqReference
<1> QED
  BY <1>1, <1>5, <1>6, <1>7 DEF Pinnable

\* The captures of a model that are compared have one measurement.
LEMMA OneMeasurement ==
    ASSUME ToolsInv, Stage("assemble"), NEW k \in DOMAIN command.models,
           command.provider # "chutes"
    PROVE  /\ First(k) \in Seen(k)
           /\ \A quote \in Seen(k) : quote.measurement = First(k).measurement
<1>1. CapturesPerModel = 2
  BY DEF CapturesPerModel
<1>2. k \in Nat \ {0}
  <2>1. Capturing /\ command.stage \in Seeing
    BY DEF ToolsInv, Seeing, Stage
  <2> QED
    BY <2>1, ModelsListed
<1>3. (k - 1) * 2 + 1 .. k * 2 = {k * 2 - 1, k * 2}
  <2>1. PICK n \in Int : n = k * 2
    BY <1>2
  <2>2. (k - 1) * 2 + 1 = n - 1
    BY <1>2, <2>1
  <2>3. n - 1 .. n = {n - 1, n}
    OBVIOUS
  <2> QED
    BY <2>1, <2>2, <2>3
<1>4. {k * 2 - 1, k * 2} \subseteq 1 .. Len(command.seen)
  BY <1>1, <1>3, SeenIsMade
<1>5. /\ First(k) = command.seen[k * 2 - 1]
      /\ Seen(k) = {command.seen[k * 2 - 1], command.seen[k * 2]}
  <2>1. (k - 1) * 2 + 1 = k * 2 - 1
    BY <1>2
  <2>2. Seen(k) = {command.seen[i] : i \in {k * 2 - 1, k * 2}}
    BY <1>1, <1>3 DEF Seen
  <2> QED
    BY <1>1, <2>1, <2>2 DEF First
<1>6. Paired(k * 2)
  BY <1>4 DEF ToolsInv, Capturing, Seeing, Stage
<1>7. (k * 2) % 2 = 0
  BY <1>2, Parity
<1>8. command.seen[k * 2 - 1].measurement = command.seen[k * 2].measurement
  BY <1>6, <1>7 DEF Paired
<1> QED
  BY <1>5, <1>8

\* What the command puts together is of one pin and accepts proved measurements only.
LEMMA AssembledIsOnePin ==
    ASSUME ToolsInv, Stage("assemble")
    PROVE  OnePin(Artifacts, command.key) /\ Backed(Artifacts.reference)
<1> DEFINE M == DOMAIN command.models
           names == {command.models[k].name : k \in M}
           U == {GenerateReference(k).until : k \in M}
           Chosen(name) == CHOOSE k \in M : command.models[k].name = name
           quotes == UNION {Seen(k) : k \in M}
           a == Artifacts
<1>1. M # {}
  <2>1. Capturing /\ command.stage \in Seeing
    BY DEF ToolsInv, Seeing, Stage
  <2>2. Len(command.models) \in Nat \ {0} /\ M = 1 .. Len(command.models)
    BY <2>1, ModelsListed
  <2>3. 1 \in M
    BY <2>2
  <2> QED
    BY <2>3
<1>2. U \subseteq Nat /\ U # {}
  BY <1>1, UntilIsTime
<1>3. \A k \in M : Least(U) <= GenerateReference(k).until
  BY <1>2, LeastOf
<1>4. \A name \in names : Chosen(name) \in M
  OBVIOUS
<1>5. \A quote \in quotes : \E i \in 1 .. Len(command.seen) : quote = command.seen[i]
  <2> SUFFICES ASSUME NEW k \in M, NEW quote \in Seen(k)
               PROVE  \E i \in 1 .. Len(command.seen) : quote = command.seen[i]
    OBVIOUS
  <2> QED
    BY SeenIsMade DEF Seen
<1>6. /\ a.registry.signer = command.key /\ a.reference.signer = command.key
      /\ a.matrix.signer = command.key
      /\ a.registry.payload = BuildRegistry /\ a.reference.payload = MergeReferences
  BY DEF Artifacts, Sign
<1> HIDE DEF a
<1>7. /\ BuildRegistry.version = MergeReferences.version
      /\ BuildRegistry.provider = MergeReferences.provider
      /\ DOMAIN BuildRegistry.routes = names /\ DOMAIN MergeReferences.routes = names
  BY DEF BuildRegistry, MergeReferences
<1>8. \A name \in names : MergeReferences.until <= MergeReferences.routes[name].until
  <2> TAKE name \in names
  <2>1. MergeReferences.routes[name] = GenerateReference(Chosen(name))
    BY DEF MergeReferences
  <2>2. MergeReferences.until = Least(U)
    BY DEF MergeReferences
  <2> QED
    BY <1>3, <1>4, <2>1, <2>2
<1>9. /\ MergeReferences.measurements = {quote.measurement : quote \in quotes}
      /\ MergeReferences.provider = command.provider /\ MergeReferences.digest = command.digest
  BY DEF MergeReferences
<1>10. \A i \in 1 .. Len(command.seen) : Vouched(i)
  BY DEF ToolsInv, Capturing, Seeing, Stage
<1>11. ASSUME command.provider \in ReleasePinned, NEW i \in 1 .. Len(command.seen)
       PROVE  command.seen[i].measurement = Measurements[command.digest]
  <2>1. Len(command.seen) = Len(command.models) * 2 /\ Len(command.models) \in Nat
    BY <1>11, TrustToolsAssumption DEF ToolsInv, Capturing, Seeing, Stage, CapturesPerModel, ReleasePinned
  <2>2. Len(command.seen) % 2 = 0
    BY <2>1, Parity
  <2> QED
    BY <1>10, <1>11, <2>2 DEF Vouched
<1>12. ASSUME command.provider # "chutes"
       PROVE  \E of \in [names -> MergeReferences.measurements] :
                  MergeReferences.measurements = {of[name] : name \in names}
  <2> DEFINE of == [name \in names |-> First(Chosen(name)).measurement]
  <2>1. ASSUME NEW k \in M
        PROVE  /\ First(k) \in Seen(k)
               /\ \A quote \in Seen(k) : quote.measurement = First(k).measurement
    BY <1>12, <2>1, OneMeasurement
  <2>2. ASSUME NEW k \in M PROVE Chosen(command.models[k].name) = k
    <3>1. ParseModels(command.models)
      BY DEF ToolsInv, Capturing, Seeing, Stage
    <3> QED
      BY <3>1 DEF ParseModels
  <2>3. \A name \in names : of[name] \in MergeReferences.measurements
    <3> TAKE name \in names
    <3>1. First(Chosen(name)) \in quotes
      BY <1>4, <2>1
    <3> QED
      BY <1>9, <3>1
  <2>4. ASSUME NEW m \in MergeReferences.measurements PROVE \E name \in names : m = of[name]
    <3>1. PICK quote \in quotes : m = quote.measurement
      BY <1>9
    <3>2. PICK k \in M : quote \in Seen(k)
      OBVIOUS
    <3>3. m = First(k).measurement
      BY <2>1, <3>1, <3>2
    <3>4. command.models[k].name \in names /\ Chosen(command.models[k].name) = k
      BY <2>2
    <3> QED
      BY <3>3, <3>4
  <2> HIDE DEF quotes, names, Chosen
  <2>5. of \in [names -> MergeReferences.measurements]
    BY <2>3
  <2> HIDE DEF of
  <2> QED
    BY <2>3, <2>4, <2>5
<1> HIDE DEF quotes, names
<1>13. OnePerRoute(a.reference)
  <2>1. PICK merged : merged = MergeReferences
    OBVIOUS
  <2>2. /\ a.reference.payload = merged /\ merged.provider = command.provider
        /\ DOMAIN merged.routes = names
        /\ command.provider # "chutes" =>
              \E of \in [names -> merged.measurements] :
                  merged.measurements = {of[name] : name \in names}
    BY <1>6, <1>7, <1>9, <1>12, <2>1
  <2> QED
    BY <2>2 DEF OnePerRoute
<1>14. FromItsRelease(a.reference)
  BY <1>5, <1>6, <1>9, <1>11 DEF FromItsRelease
<1>15. Backed(a.reference)
  BY <1>5, <1>6, <1>9, <1>10 DEF Backed, Vouched
<1> QED
  BY <1>6, <1>7, <1>8, <1>14, <1>15, <1>13 DEF OnePin, a

\* What was proved stays so.
LEMMA BackedStays ==
    ASSUME NEW reference, Backed(reference), proved \subseteq proved'
    PROVE  Backed(reference)'
BY DEF Backed

LEMMA FilesKept ==
    ASSUME FilesOK, files' = files, proved \subseteq proved'
    PROVE  FilesOK'
<1>1. files' = [name \in DOMAIN NoFiles |-> files'[name]]
  BY DEF FilesOK
<1>2. files'["config"] # Nothing =>
         files'["config"] # Partial /\ OnePin(files'["config"], files'["config"].key)
  BY DEF FilesOK
<1>3. ASSUME files'["reference"] \notin {Nothing, Partial} PROVE Backed(files["reference"])'
  BY <1>3 DEF FilesOK, Backed
<1> QED
  BY <1>1, <1>2, <1>3 DEF FilesOK, OnePin, FromItsRelease, OnePerRoute

\* Steps of the world leave the command and its files alone.
LEMMA WorldStep ==
    ASSUME ToolsInv, command' = command, files' = files, proved' = proved, WorldOK'
    PROVE  ToolsInv'
<1>1. FilesOK'
  BY FilesKept DEF ToolsInv
<1>2. Capturing'
  BY DEF ToolsInv, Capturing, Vouched, Paired, CapturesPerModel, ParseModels
<1>3. Writing'
  BY DEF ToolsInv, Writing, OnePin, FromItsRelease, OnePerRoute, Backed
<1> QED
  BY <1>1, <1>2, <1>3 DEF ToolsInv

\* One more capture.
LEMMA CaptureStep ==
    ASSUME ToolsInv, Capture
    PROVE  ToolsInv'
<1> DEFINE i == Len(command.seen) + 1
           quote == [running[command.provider][ModelOf(i).provider] EXCEPT !.expires = now + QuoteLife]
           seen == Append(command.seen, quote)
           L == Len(command.models)
<1>1. /\ command.stage = "capture" /\ VerifiedCapture(quote) /\ CapturesAgree(seen)
      /\ command' = [command EXCEPT !.seen = seen,
                        !.stage = IF i = L * CapturesPerModel THEN "assemble" ELSE @]
      /\ proved' = IF Honest(quote)
                   THEN proved \cup {[provider |-> command.provider,
                                      measurement |-> quote.measurement]}
                   ELSE proved
      /\ UNCHANGED <<running, now, files>>
  BY DEF Capture, Stage
<1>2. /\ command = [stage |-> command.stage, key |-> command.key,
                    provider |-> command.provider, models |-> command.models,
                    smoke |-> command.smoke, digest |-> command.digest, at |-> command.at,
                    seen |-> command.seen]
      /\ command.models # <<>> /\ ParseModels(command.models)
      /\ \A j \in 1 .. Len(command.seen) : Vouched(j) /\ Paired(j)
      /\ command.provider \in ReleasePinned => Len(command.seen) < L * 2
  BY <1>1 DEF ToolsInv, Capturing, Seeing
<1>3. PICK c \in Commands : c.provider = command.provider /\ c.models = command.models
  BY <1>1 DEF ToolsInv, Capturing, Seeing
<1>4. PICK S : command.seen \in Seq(S)
  BY <1>1 DEF ToolsInv, Capturing, Seeing
<1>5. command.provider \in Pinnable /\ L \in Nat /\ DOMAIN command.models = 1 .. L
  BY <1>3, TrustToolsAssumption
<1>6. ASSUME command.provider \in ReleasePinned
      PROVE  quote.expires \in Nat
  <2>1. Len(command.seen) \in Nat /\ CapturesPerModel = 2
    BY <1>4, <1>6 DEF CapturesPerModel, ReleasePinned
  <2>2. 1 + ((i - 1) \div CapturesPerModel) \in 1 .. L
    BY <1>2, <1>5, <1>6, <2>1
  <2>3. "expires" \in DOMAIN running[command.provider][ModelOf(i).provider]
    BY <1>3, <1>5, <2>2, TrustToolsAssumption DEF ToolsInv, WorldOK, ModelOf
  <2> QED
    BY <2>3, TrustToolsAssumption DEF ToolsInv, WorldOK
<1> HIDE DEF quote
<1>7. /\ [provider |-> command.provider, measurement |-> quote.measurement] \in proved'
      /\ proved \subseteq proved'
  <2>1. Honest(quote)
    BY <1>1, <1>5, VerifiedIsHonest
  <2> QED
    BY <1>1, <2>1
<1>8. /\ seen \in Seq(S \cup {quote}) /\ Len(seen) = i /\ i \in Nat
      /\ seen[i] = quote
      /\ \A j \in 1 .. Len(command.seen) : seen[j] = command.seen[j]
  <2>1. command.seen \in Seq(S \cup {quote})
    BY <1>4
  <2> QED
    BY <2>1, AppendProperties
<1>9. ASSUME command.provider = "ppq"
      PROVE  quote.measurement = Measurements[command.digest]
  BY <1>1, <1>9 DEF VerifiedCapture, VerifiedPpqCapture, RequireLatestRelease, VerifyReleaseMeasurement
<1>10. ASSUME command.provider = "tinfoil", i % 2 = 0
       PROVE  /\ seen[i].measurement = Measurements[command.digest]
              /\ seen[i - 1].measurement = Measurements[command.digest]
  <2>1. TinfoilAgree(seen[i - 1], seen[i], seen)
    BY <1>1, <1>8, <1>10 DEF CapturesAgree
  <2> QED
    BY <2>1 DEF TinfoilAgree, VerifyReleaseMeasurement
<1>11. ASSUME command.provider # "chutes", i % 2 = 0
       PROVE  seen[i - 1].measurement = seen[i].measurement
  <2>1. Len(seen) = i /\ CapturesAgree(seen)
    BY <1>1, <1>8
  <2>2. CASE command.provider = "tinfoil"
    BY <1>10, <1>11, <2>2
  <2>3. CASE command.provider = "redpill"
    BY <1>11, <2>1, <2>3 DEF CapturesAgree, RedpillAgree
  <2>4. CASE command.provider = "ppq"
    <3>1. PpqAgree(seen[i - 1], seen[i], seen)
      BY <1>11, <2>1, <2>4 DEF CapturesAgree
    <3>2. i \in Nat \ {0}
      <4>1. Len(command.seen) \in Nat
        BY <1>4
      <4> QED
        BY <4>1
    <3> HIDE DEF i
    <3>3. i - 1 \in 1 .. i
      BY <1>11, <3>2
    <3> HIDE DEF seen
    <3>4. DOMAIN seen = 1 .. i
      BY <1>8
    <3> QED
      BY <3>1, <3>3, <3>4 DEF PpqAgree
  <2> QED
    BY <1>5, <1>11, <2>2, <2>3, <2>4 DEF Pinnable
<1> HIDE DEF seen
<1>12. /\ command' = [stage |-> command'.stage, key |-> command.key,
                      provider |-> command.provider, models |-> command.models,
                      smoke |-> command.smoke, digest |-> command.digest, at |-> command.at,
                      seen |-> seen]
       /\ command'.stage = IF i = L * CapturesPerModel THEN "assemble" ELSE "capture"
  BY <1>1, <1>2
<1>13. /\ command'.provider = command.provider /\ command'.models = command.models
       /\ command'.digest = command.digest /\ command'.seen = seen
  BY <1>12
<1>14. ASSUME NEW j \in 1 .. Len(seen) PROVE Vouched(j)'
  <2>1. CASE j = i
    <3>1. /\ [provider |-> command.provider, measurement |-> seen[j].measurement] \in proved'
          /\ command.provider \in ReleasePinned => seen[j].expires \in Nat
      BY <1>6, <1>7, <1>8, <2>1
    <3>2. \/ command.provider \notin ReleasePinned
          \/ command.provider = "tinfoil" /\ j = Len(seen) /\ j % 2 # 0
          \/ seen[j].measurement = Measurements[command.digest]
      BY <1>8, <1>9, <1>10, <2>1 DEF ReleasePinned
    <3> QED
      BY <1>13, <3>1, <3>2 DEF Vouched
  <2>2. CASE j # i
    <3>1. j \in 1 .. Len(command.seen) /\ seen[j] = command.seen[j] /\ Len(command.seen) \in Nat
      BY <1>4, <1>8, <2>2
    <3>2. Vouched(j)
      BY <1>2, <3>1
    <3>3. /\ [provider |-> command.provider, measurement |-> seen[j].measurement] \in proved'
          /\ command.provider \in ReleasePinned => seen[j].expires \in Nat
      BY <1>7, <3>1, <3>2 DEF Vouched
    <3>4. \/ command.provider \notin ReleasePinned
          \/ seen[j].measurement = Measurements[command.digest]
      <4>1. CASE command.provider = "tinfoil" /\ j = Len(command.seen) /\ j % 2 # 0
        <5>1. j \in Nat /\ i = j + 1 /\ j % 2 # 0
          BY <3>1, <4>1
        <5>2. (j + 1) % 2 = 0
          BY <5>1, Parity
        <5> HIDE DEF i
        <5>3. i % 2 = 0 /\ j = i - 1
          BY <5>1, <5>2
        <5> QED
          BY <1>10, <4>1, <5>3
      <4> QED
        BY <3>1, <3>2, <4>1 DEF Vouched
    <3> QED
      BY <1>13, <3>3, <3>4 DEF Vouched
  <2> QED
    BY <2>1, <2>2
<1>15. ASSUME NEW j \in 1 .. Len(seen) PROVE Paired(j)'
  <2>1. CASE j = i
    BY <1>13, <1>11, <2>1 DEF Paired
  <2>2. CASE j # i /\ j % 2 = 0
    <3>1. /\ j \in 1 .. Len(command.seen) /\ j - 1 \in 1 .. Len(command.seen)
      BY <1>4, <1>8, <2>2
    <3>2. seen[j] = command.seen[j] /\ seen[j - 1] = command.seen[j - 1] /\ Paired(j)
      BY <1>2, <1>8, <3>1
    <3> QED
      BY <1>13, <3>2 DEF Paired
  <2>3. CASE j % 2 # 0
    BY <2>3 DEF Paired
  <2> QED
    BY <2>1, <2>2, <2>3
<1>16. /\ command'.stage = "capture" /\ command.provider \in ReleasePinned => Len(seen) < L * 2
       /\ command'.stage = "assemble" => Len(seen) = L * CapturesPerModel
       /\ command'.stage \in {"capture", "assemble"}
  <2>1. CASE command.provider \in ReleasePinned
    <3>1. CapturesPerModel = 2
      BY <2>1 DEF CapturesPerModel, ReleasePinned
    <3> QED
      BY <1>2, <1>4, <1>5, <1>8, <1>12, <2>1, <3>1
  <2>2. CASE command.provider \notin ReleasePinned
    BY <1>8, <1>12, <2>2
  <2> QED
    BY <2>1, <2>2
<1>17. Capturing'
  <2>1. CapturesPerModel' = CapturesPerModel
    BY <1>13 DEF CapturesPerModel
  <2>2. \E T : seen \in Seq(T)
    BY <1>8
  <2>3. /\ \E d \in Commands : d.provider = command'.provider /\ d.models = command'.models
        /\ command'.models # <<>> /\ ParseModels(command.models)'
    BY <1>2, <1>3, <1>13 DEF ParseModels
  <2>4. command' = [stage |-> command'.stage, key |-> command'.key,
                    provider |-> command'.provider, models |-> command'.models,
                    smoke |-> command'.smoke, digest |-> command'.digest, at |-> command'.at,
                    seen |-> command'.seen]
    BY <1>12
  <2> QED
    BY <1>13, <1>14, <1>16, <1>15, <2>1, <2>2, <2>3, <2>4 DEF Capturing
<1>18. Writing'
  BY <1>16 DEF Writing
<1>19. FilesOK' /\ WorldOK'
  BY <1>1, <1>7, FilesKept DEF ToolsInv, WorldOK
<1> QED
  BY <1>17, <1>18, <1>19 DEF ToolsInv

\* A renamed file is one of the pin's.
LEMMA RenameStep ==
    ASSUME ToolsInv, RenameFile
    PROVE  ToolsInv'
<1> DEFINE name == FileNames[command.at]
           c == command.content
<1>1. /\ command.stage = "rename"
      /\ files' = [files EXCEPT !.temporary = Nothing, ![name] = Content(name)]
      /\ command' = IF command.at = Len(FileNames) THEN Idle
                    ELSE [command EXCEPT !.stage = "write", !.at = @ + 1]
      /\ UNCHANGED <<running, now, proved>>
  BY DEF RenameFile, Stage
<1>2. /\ command = [stage |-> command.stage, key |-> command.key,
                    provider |-> command.provider, models |-> command.models,
                    content |-> command.content, at |-> command.at]
      /\ command.at \in 1 .. 4
      /\ OnePin(c, command.key) /\ Backed(c.reference)
  BY <1>1 DEF ToolsInv, Writing
<1>3. Len(FileNames) = 4 /\ name \in {"registry", "reference", "matrix", "config"}
  BY <1>2 DEF FileNames
<1> HIDE DEF name
<1>4. /\ files' = [n \in DOMAIN NoFiles |-> files'[n]]
      /\ files'["config"] = IF name = "config" THEN Content("config") ELSE files["config"]
      /\ files'["reference"] = IF name = "reference" THEN Content("reference") ELSE files["reference"]
  BY <1>1, <1>3 DEF ToolsInv, FilesOK, NoFiles
<1>5. /\ Content("config") = [key |-> command.key, registry |-> c.registry,
                              reference |-> c.reference, matrix |-> c.matrix]
      /\ Content("reference") = c.reference
  BY DEF Content
<1>6. Content("config") # Partial /\ OnePin(Content("config"), Content("config").key)
  <2>1. Content("config") # Partial
    BY <1>5 DEF Partial
  <2>2. OnePin(Content("config"), command.key)
    BY <1>2, <1>5 DEF OnePin
  <2> QED
    BY <1>5, <2>1, <2>2
<1>7. FilesOK'
  <2>1. files'["config"] # Nothing =>
           files'["config"] # Partial /\ OnePin(files'["config"], files'["config"].key)
    BY <1>4, <1>6 DEF ToolsInv, FilesOK
  <2>2. files'["reference"] \notin {Nothing, Partial} => Backed(files'["reference"])
    BY <1>2, <1>4, <1>5 DEF ToolsInv, FilesOK
  <2>3. files'["reference"] \notin {Nothing, Partial} => Backed(files["reference"])'
    BY <1>1, <2>2 DEF Backed
  <2> QED
    BY <1>4, <2>1, <2>3 DEF FilesOK, OnePin, FromItsRelease, OnePerRoute
<1>8. Capturing' /\ Writing'
  <2>1. CASE command.at = 4
    BY <1>1, <1>3, <2>1, SMTT(30) DEF Capturing, Writing, Idle, Seeing
  <2>2. CASE command.at # 4
    <3>1. command' = [stage |-> "write", key |-> command.key,
                      provider |-> command.provider, models |-> command.models,
                      content |-> command.content, at |-> command.at + 1]
      BY <1>1, <1>2, <1>3, <2>2
    <3>2. command'.at \in 1 .. 4
      BY <1>2, <2>2, <3>1
    <3> QED
      BY <1>1, <1>2, <3>1, <3>2 DEF Capturing, Writing, Seeing, OnePin, FromItsRelease, OnePerRoute, Backed
  <2> QED
    BY <2>1, <2>2
<1> QED
  BY <1>1, <1>7, <1>8 DEF ToolsInv, WorldOK

LEMMA ToolsStep == ToolsInv /\ [ToolsNext]_toolVars => ToolsInv'
<1> SUFFICES ASSUME ToolsInv, [ToolsNext]_toolVars
             PROVE  ToolsInv'
  OBVIOUS
<1>1. ASSUME files' = files, proved' = proved, running' = running, now' = now, Capturing', Writing'
      PROVE  ToolsInv'
  BY <1>1, FilesKept DEF ToolsInv, WorldOK
<1>2. ASSUME NEW dir \in KeyDirs, KeygenSeed(dir) PROVE ToolsInv'
  <2>1. command'.stage = "keygen"
    BY <1>2 DEF KeygenSeed
  <2> QED
    BY <1>1, <1>2, <2>1 DEF KeygenSeed, Capturing, Writing, Seeing
<1>3. CASE KeygenEntry \/ Fail
  <2>1. command'.stage = "idle"
    BY <1>3 DEF KeygenEntry, Fail, Idle
  <2> QED
    BY <1>1, <1>3, <2>1 DEF KeygenEntry, Fail, Capturing, Writing, Seeing
<1>4. ASSUME NEW dir \in KeyDirs, NEW c \in Commands, StartPin(dir, c) PROVE ToolsInv'
  <2>1. /\ command' = [stage |-> IF c.provider \in ReleasePinned THEN "release" ELSE "capture",
                       key |-> seeds[dir], provider |-> c.provider, models |-> c.models,
                       smoke |-> c.smoke, digest |-> Nothing, at |-> Nothing, seen |-> <<>>]
        /\ c.models # <<>> /\ ParseModels(c.models)
        /\ files' = files /\ proved' = proved /\ running' = running /\ now' = now
    BY <1>4 DEF StartPin, ParseModels
  <2>2. /\ command'.stage \in {"release", "capture"} /\ command'.seen = <<>>
        /\ command'.stage = "capture" => c.provider \notin ReleasePinned
        /\ command'.models = c.models /\ command'.provider = c.provider
        /\ ParseModels(command.models)'
    BY <2>1 DEF ParseModels
  <2>3. \E S : <<>> \in Seq(S)
    OBVIOUS
  <2>4. \A i \in 1 .. Len(command'.seen) : FALSE
    BY <2>2
  <2>5. Capturing'
    BY <2>1, <2>2, <2>3, <2>4 DEF Capturing
  <2>6. Writing'
    BY <2>2 DEF Writing
  <2> QED
    BY <1>1, <2>1, <2>5, <2>6
<1>5. CASE FetchRelease
  <2>1. /\ command.stage = "release"
        /\ command' = [command EXCEPT !.stage = "capture", !.digest = latest,
                          !.at = IF command.provider = "ppq" THEN now ELSE Nothing]
        /\ files' = files /\ proved' = proved /\ running' = running /\ now' = now
    BY <1>5 DEF FetchRelease, Stage
  <2>2. /\ command = [stage |-> command.stage, key |-> command.key,
                      provider |-> command.provider, models |-> command.models,
                      smoke |-> command.smoke, digest |-> command.digest, at |-> command.at,
                      seen |-> command.seen]
        /\ command.models # <<>> /\ command.seen = <<>> /\ ParseModels(command.models)
        /\ \E c \in Commands : c.provider = command.provider /\ c.models = command.models
        /\ \E S : command.seen \in Seq(S)
    BY <2>1 DEF ToolsInv, Capturing, Seeing
  <2>3. command' = [stage |-> "capture", key |-> command.key,
                    provider |-> command.provider, models |-> command.models,
                    smoke |-> command.smoke, digest |-> command'.digest, at |-> command'.at,
                    seen |-> command.seen]
    BY <2>1, <2>2
  <2>4. \A i \in 1 .. Len(command'.seen) : FALSE
    BY <2>2, <2>3
  <2>5. Len(command'.seen) < Len(command'.models) * 2
    <3>1. Len(command.models) \in Nat \ {0}
      BY <2>1, ModelsListed DEF ToolsInv, Seeing
    <3> QED
      BY <2>2, <2>3, <3>1
  <2>6. Capturing'
    <3>1. /\ command'.stage = "capture" /\ command'.models = command.models
          /\ command'.provider = command.provider /\ command'.seen = command.seen
          /\ ParseModels(command.models)'
          /\ command' = [stage |-> command'.stage, key |-> command'.key,
                         provider |-> command'.provider, models |-> command'.models,
                         smoke |-> command'.smoke, digest |-> command'.digest,
                         at |-> command'.at, seen |-> command'.seen]
      BY <2>2, <2>3 DEF ParseModels
    <3> QED
      BY <2>2, <2>4, <2>5, <3>1 DEF Capturing
  <2>7. Writing'
    BY <2>3 DEF Writing
  <2> QED
    BY <1>1, <2>1, <2>6, <2>7
<1>6. CASE Capture
  BY <1>6, CaptureStep
<1>7. CASE Assemble
  <2>1. /\ Stage("assemble")
        /\ command' = [stage |-> IF SmokeFirst THEN "smoke" ELSE "write",
                       key |-> command.key, provider |-> command.provider,
                       models |-> command.models, content |-> Artifacts, at |-> 1]
        /\ files' = files /\ proved' = proved /\ running' = running /\ now' = now
    BY <1>7 DEF Assemble
  <2>2. OnePin(Artifacts, command.key) /\ Backed(Artifacts.reference)
    BY <2>1, AssembledIsOnePin
  <2>3. PICK a : a = Artifacts
    OBVIOUS
  <2>4. OnePin(a, command.key) /\ Backed(a.reference)
    BY <2>2, <2>3
  <2>5. /\ command'.stage \in {"smoke", "write"} /\ command'.content = a /\ command'.at = 1
        /\ command'.key = command.key
        /\ command' = [stage |-> command'.stage, key |-> command'.key,
                       provider |-> command'.provider, models |-> command'.models,
                       content |-> command'.content, at |-> command'.at]
    BY <2>1, <2>3
  <2>6. Capturing'
    BY <2>5 DEF Capturing, Seeing
  <2>7. Writing'
    BY <2>1, <2>4, <2>5 DEF Writing, OnePin, FromItsRelease, OnePerRoute, Backed
  <2> QED
    BY <1>1, <2>1, <2>6, <2>7
<1>8. CASE Smoke \/ WriteTemporary
  <2>1. /\ command.stage \in {"smoke", "write"}
        /\ \E s \in {"write", "rename"} : command' = [command EXCEPT !.stage = s]
        /\ proved' = proved /\ running' = running /\ now' = now
    BY <1>8 DEF Smoke, WriteTemporary, Stage
  <2>2. /\ command = [stage |-> command.stage, key |-> command.key,
                      provider |-> command.provider, models |-> command.models,
                      content |-> command.content, at |-> command.at]
        /\ command.at \in 1 .. 4
        /\ OnePin(command.content, command.key) /\ Backed(command.content.reference)
    BY <2>1 DEF ToolsInv, Writing
  <2>3. PICK s \in {"write", "rename"} :
           command' = [stage |-> s, key |-> command.key,
                       provider |-> command.provider, models |-> command.models,
                       content |-> command.content, at |-> command.at]
    BY <2>1, <2>2
  <2>4. Capturing'
    BY <2>3 DEF Capturing, Seeing
  <2>5. Writing'
    BY <2>1, <2>2, <2>3 DEF Writing, OnePin, FromItsRelease, OnePerRoute, Backed
  <2>6. CASE Smoke
    BY <1>1, <2>1, <2>4, <2>5, <2>6 DEF Smoke
  <2>7. CASE WriteTemporary
    <3>1. files' = [files EXCEPT !.temporary = Partial]
      BY <2>7 DEF WriteTemporary
    <3>2. /\ files' = [n \in DOMAIN NoFiles |-> files'[n]]
          /\ files'["config"] = files["config"] /\ files'["reference"] = files["reference"]
      BY <3>1 DEF ToolsInv, FilesOK, NoFiles
    <3>3. FilesOK'
      <4>1. files'["config"] # Nothing =>
               files'["config"] # Partial /\ OnePin(files'["config"], files'["config"].key)
        BY <3>2 DEF ToolsInv, FilesOK
      <4>2. files'["reference"] \notin {Nothing, Partial} => Backed(files["reference"])'
        BY <2>1, <3>2 DEF ToolsInv, FilesOK, Backed
      <4> QED
        BY <3>2, <4>1, <4>2 DEF FilesOK, OnePin, FromItsRelease, OnePerRoute
    <3> QED
      BY <2>1, <2>4, <2>5, <3>3 DEF ToolsInv, WorldOK
  <2> QED
    BY <1>8, <2>6, <2>7
<1>9. CASE RenameFile
  BY <1>9, RenameStep
<1>10. CASE Release \/ Tick
  <2>1. WorldOK'
    BY <1>10 DEF Release, Tick, ToolsInv, WorldOK
  <2> QED
    BY <1>10, <2>1, WorldStep DEF Release, Tick
<1>11. ASSUME NEW p \in Pinnable, Rollout(p) PROVE ToolsInv'
  <2>1. PICK d \in Deployments[p] : running' = [running EXCEPT ![p] = d]
    BY <1>11 DEF Rollout
  <2>2. WorldOK'
    BY <1>11, <2>1 DEF Rollout, ToolsInv, WorldOK
  <2> QED
    BY <1>11, <2>2, WorldStep DEF Rollout
<1>12. CASE UNCHANGED toolVars
  <2>1. WorldOK'
    BY <1>12 DEF toolVars, ToolsInv, WorldOK
  <2> QED
    BY <1>12, <2>1, WorldStep DEF toolVars
<1> QED
  BY <1>2, <1>3, <1>4, <1>5, <1>6, <1>7, <1>8, <1>9, <1>10, <1>11, <1>12 DEF ToolsNext

LEMMA ToolsInductive == ToolsSpec => []ToolsInv
<1>1. ToolsInit => ToolsInv
  <2> SUFFICES ASSUME ToolsInit PROVE ToolsInv
    OBVIOUS
  <2>1. WorldOK
    BY TrustToolsAssumption DEF ToolsInit, WorldOK
  <2>2. Capturing /\ Writing
    BY DEF ToolsInit, Idle, Capturing, Writing, Seeing
  <2>3. FilesOK
    BY DEF ToolsInit, NoFiles, FilesOK
  <2> QED
    BY <2>1, <2>2, <2>3 DEF ToolsInv
<1> QED
  BY <1>1, ToolsStep, PTL DEF ToolsSpec

\* For any keys, commands, deployments and releases: however pin is interrupted and
\* whatever the provider rolls out meanwhile, operator-config.json is of one pin.
THEOREM ConfigStaysOnePin == ToolsSpec => []ConfigIsOnePin
<1>1. ToolsInv => ConfigIsOnePin
  BY DEF ToolsInv, FilesOK, OnePin, ConfigIsOnePin, VerifiesWith
<1> QED
  BY ToolsInductive, <1>1, PTL

\* For any keys, commands, deployments and releases: whatever mixture of files
\* interrupted commands have left, no client accepts a measurement that was not proved.
THEOREM OnlyProvedIsAccepted == ToolsSpec => []OnlyProvedAccepted
<1>1. ToolsInv => OnlyProvedAccepted
  BY DEF ToolsInv, FilesOK, Backed, OnlyProvedAccepted, AcceptsEvidence
<1> QED
  BY ToolsInductive, <1>1, PTL

-----------------------------------------------------------------------------
(***************************************************************************)
(* Workload images.  A compose file that is accepted lists every image it  *)
(* runs, because a scalar never stands where others are (ComposeInv); an   *)
(* initdata that is accepted pins whatever its markers name, because the   *)
(* loop over the markers passes none (TextInv: a quote ends every name).   *)
(***************************************************************************)

\* Induction on numbers, the claim being membership in a set.
LEMMA NatInductive ==
    ASSUME NEW P, 0 \in P, \A n \in Nat : n \in P => n + 1 \in P
    PROVE  Nat \subseteq P
<1> DEFINE R == {ss \in Nat \X Nat : ss[1] < ss[2]}
           Bad == {n \in Nat : n \notin P}
<1>1. IsWellFoundedOn(R, Nat)
  BY NatLessThanWellFounded DEF OpToRel
<1> HIDE DEF R
<1>2. SUFFICES ASSUME Bad # {} PROVE FALSE
  OBVIOUS
<1>3. Bad \subseteq Nat
  OBVIOUS
<1> HIDE DEF Bad
<1>4. \E x \in Bad : \A y \in Bad : ~(<<y, x>> \in R)
  BY <1>1, <1>2, <1>3, WFMin
<1>5. PICK x \in Bad : \A y \in Bad : ~(<<y, x>> \in R)
  BY <1>4
<1>6. x \in Nat /\ x # 0 /\ x - 1 \in Nat /\ x - 1 < x
  BY <1>5 DEF Bad
<1>7. x - 1 \notin Bad
  BY <1>5, <1>6 DEF R, Bad
<1> QED
  BY <1>6, <1>7, (x - 1) + 1 = x DEF Bad

\* A set of numbers that is not empty has a least one.
LEMMA LeastExists ==
    ASSUME NEW T, T \subseteq Nat, T # {}
    PROVE  /\ Min(T) \in T
           /\ \A y \in T : Min(T) <= y
<1> DEFINE R == {ss \in Nat \X Nat : ss[1] < ss[2]}
<1>1. IsWellFoundedOn(R, Nat)
  BY NatLessThanWellFounded DEF OpToRel
<1> HIDE DEF R
<1>2. \E x \in T : \A y \in T : ~(<<y, x>> \in R)
  BY <1>1, WFMin
<1>3. PICK x \in T : \A y \in T : ~(<<y, x>> \in R)
  BY <1>2
<1>4. ASSUME NEW y \in T PROVE x <= y
  <2>1. x \in Nat /\ y \in Nat
    OBVIOUS
  <2>2. y < x => <<y, x>> \in R
    BY <2>1 DEF R
  <2>3. ~(<<y, x>> \in R)
    BY <1>3
  <2> QED
    BY <2>1, <2>2, <2>3
<1>5. \E z \in T : \A y \in T : z <= y
  BY <1>4
<1> QED
  BY <1>5 DEF Min

-----------------------------------------------------------------------------
(* Initdata *)

Tokens == RefTokens \cup {"opens", "escaped", "quote"}
MarkerEnds == {"opens", "escaped"}

\* A marker is whole, and there is a quote between the name after it and the next one.
TextInv ==
    /\ initdata \in Seq(Tokens)
    /\ initdata # <<>> => initdata[Len(initdata)] = "quote"
    /\ \A j \in DOMAIN initdata : initdata[j] \in MarkerEnds =>
          /\ j - 1 \in DOMAIN initdata /\ initdata[j - 1] = "label"
          /\ \A i \in DOMAIN initdata : initdata[i] \in MarkerEnds /\ i < j =>
                \E q \in (i + 1)..(j - 2) : initdata[q] = "quote"

\* A run of tokens is a part of the text.
LEMMA RunType ==
    ASSUME NEW S, NEW text \in Seq(S), NEW from \in Nat \ {0}, from <= Len(text) + 1, NEW kind
    PROVE  RunFrom(text, from, kind) \in Seq(S)
<1> DEFINE stops == {i \in from..Len(text) : text[i] \notin kind}
<1>1. Len(text) \in Nat
  BY LenProperties
<1>2. PICK e : e = IF stops = {} THEN Len(text) + 1 ELSE Min(stops)
  OBVIOUS
<1>3. stops # {} => Min(stops) \in stops
  <2>1. stops \subseteq Nat
    BY <1>1
  <2> HIDE DEF stops
  <2> QED
    BY <2>1, LeastExists
<1>4. e \in from..(Len(text) + 1)
  BY <1>1, <1>2, <1>3
<1>5. PICK last : last = e - 1 /\ last \in (from - 1)..Len(text)
  BY <1>1, <1>4
<1>6. from \in 1..(Len(text) + 1)
  BY <1>1
<1>7. SubSeq(text, from, last) \in Seq(S)
  BY <1>5, <1>6, SubSeqProperties
<1>8. RunFrom(text, from, kind) = SubSeq(text, from, last)
  BY <1>2, <1>5 DEF RunFrom
<1> QED
  BY <1>7, <1>8

\* A run of tokens ends before whatever is not of its kind.
LEMMA RunEnds ==
    ASSUME NEW S, NEW text \in Seq(S), NEW from \in Nat \ {0}, NEW kind,
           NEW q \in from..Len(text), text[q] \notin kind
    PROVE  Len(RunFrom(text, from, kind)) \in Nat /\ from + Len(RunFrom(text, from, kind)) <= q
<1> DEFINE stops == {i \in from..Len(text) : text[i] \notin kind}
<1>1. Len(text) \in Nat
  BY LenProperties
<1>2. q \in stops /\ stops \subseteq Nat
  BY <1>1
<1>3. PICK e : e = Min(stops)
  OBVIOUS
<1> DEFINE value == SubSeq(text, from, e - 1)
<1>4. RunFrom(text, from, kind) = value
  BY <1>2, <1>3 DEF RunFrom
<1>5. e \in stops /\ e <= q
  <2> HIDE DEF stops
  <2> QED
    BY <1>2, <1>3, LeastExists
<1>6. e \in from..Len(text)
  BY <1>5
<1> HIDE DEF stops
<1>7. Len(value) = e - from
  <2>1. from \in 1..(Len(text) + 1) /\ e - 1 \in (from - 1)..Len(text)
    BY <1>1, <1>6
  <2>2. Len(value) = IF from <= e - 1 THEN (e - 1) - from + 1 ELSE 0
    BY <2>1, SubSeqProperties
  <2> QED
    BY <1>1, <1>6, <2>2
<1> HIDE DEF value
<1> QED
  BY <1>1, <1>4, <1>5, <1>6, <1>7

\* The offset of the loop: past the marker, and not past the next one
LEMMA NextOffsetIs ==
    ASSUME TextInv, NEW opens \in MarkerEnds, NEW j \in DOMAIN initdata, initdata[j] = opens,
           NEW offset \in Nat \ {0}, offset <= j - 1
    PROVE  /\ Markers(initdata, opens, offset) # {}
           /\ \/ MarkerValue(initdata, opens, offset) = RunFrom(initdata, j + 1, RefTokens)
              \/ LET next == NextOffset(initdata, opens, offset)
                 IN  next \in Nat /\ next > offset /\ next <= j - 1
<1> DEFINE M == Markers(initdata, opens, offset)
<1>1. initdata \in Seq(Tokens) /\ Len(initdata) \in Nat /\ DOMAIN initdata = 1..Len(initdata)
  BY LenProperties DEF TextInv
<1>2. j \in Nat /\ j <= Len(initdata) /\ j - 1 \in Nat /\ j - 1 <= Len(initdata) - 1
  BY <1>1
<1>3. initdata[j - 1] = "label" /\ (j - 1) + 1 = j
  BY <1>2 DEF TextInv
<1>4. j - 1 \in M /\ M \subseteq Nat
  <2>1. j - 1 \in offset..(Len(initdata) - 1)
    BY <1>1, <1>2
  <2> QED
    BY <1>1, <1>3, <2>1 DEF Markers
<1>5. PICK a : a = Min(M)
  OBVIOUS
<1>6. a \in M /\ a <= j - 1
  <2> HIDE DEF M
  <2> QED
    BY <1>4, <1>5, LeastExists
<1>7. a \in Nat /\ offset <= a /\ a <= Len(initdata) - 1 /\ initdata[a + 1] = opens
  BY <1>1, <1>6 DEF Markers
<1> HIDE DEF M
<1>8. PICK value : value = MarkerValue(initdata, opens, offset) /\ value = RunFrom(initdata, a + 2, RefTokens)
  BY <1>5 DEF MarkerValue, M
<1>9. CASE a = j - 1
  <2>1. a + 2 = j + 1
    BY <1>2, <1>9
  <2> QED
    BY <1>4, <1>8, <2>1 DEF M
<1>10. CASE a < j - 1
  <2>1. PICK i : i = a + 1
    OBVIOUS
  <2>2. i \in DOMAIN initdata /\ i < j /\ initdata[i] \in MarkerEnds /\ i + 1 = a + 2 /\ i \in Nat
    BY <1>1, <1>2, <1>7, <1>10, <2>1
  <2>3. PICK q \in (i + 1)..(j - 2) : initdata[q] = "quote"
    BY <2>2 DEF TextInv
  <2>4. q \in (a + 2)..Len(initdata) /\ q <= j - 2 /\ q \in Nat
    BY <1>1, <1>2, <1>7, <2>2, <2>3
  <2>5. "quote" \notin RefTokens
    BY DEF RefTokens
  <2>6. PICK from : from = a + 2 /\ from \in Nat \ {0}
    BY <1>7
  <2>7. Len(value) \in Nat /\ from + Len(value) <= q
    <3>1. Len(RunFrom(initdata, from, RefTokens)) \in Nat /\ from + Len(RunFrom(initdata, from, RefTokens)) <= q
      BY <1>1, <2>3, <2>4, <2>5, <2>6, RunEnds
    <3> QED
      BY <1>8, <2>6, <3>1
  <2>8. PICK l : l = Len(value) /\ l \in Nat /\ a + 2 + l <= q
    BY <1>7, <2>6, <2>7
  <2>9. Max({1, l}) \in Nat /\ Max({1, l}) >= 1 /\ a + 2 + Max({1, l}) <= j - 1
    <3>1. \E x \in {1, l} : \A y \in {1, l} : x >= y
      BY <2>8
    <3>2. PICK x : x = Max({1, l}) /\ x \in {1, l} /\ x >= 1
      BY <3>1 DEF Max
    <3>3. x \in Nat /\ x >= 1 /\ a + 2 + x <= j - 1
      BY <1>2, <1>7, <2>4, <2>8, <3>2, SMTT(30)
    <3> QED
      BY <3>2, <3>3
  <2>10. NextOffset(initdata, opens, offset) = a + 2 + Max({1, l})
    BY <1>4, <1>5, <1>8, <2>8 DEF NextOffset, M
  <2> HIDE DEF Max
  <2> QED
    BY <1>4, <1>7, <2>9, <2>10 DEF M
<1> QED
  BY <1>2, <1>6, <1>7, <1>9, <1>10

OffsetsTo(g, text, opens, n) == g = [k \in 0..n |-> IF k = 0 THEN 1 ELSE NextOffset(text, opens, g[k - 1])]

\* The recursion in ExtractMarkerImageValues has a solution.
LEMMA OffsetsExist ==
    ASSUME NEW text, NEW opens, NEW n \in Nat
    PROVE  \E g : OffsetsTo(g, text, opens, n)
<1> DEFINE P == {k \in Nat : \E g : OffsetsTo(g, text, opens, k)}
<1>1. 0 \in P
  <2>1. OffsetsTo([k \in 0..0 |-> 1], text, opens, 0)
    BY DEF OffsetsTo
  <2> QED
    BY <2>1
<1>2. ASSUME NEW j \in Nat, j \in P PROVE j + 1 \in P
  <2>1. PICK g : OffsetsTo(g, text, opens, j)
    BY <1>2
  <2> DEFINE h == [k \in 0..(j + 1) |-> IF k <= j THEN g[k] ELSE NextOffset(text, opens, g[j])]
  <2>2. ASSUME NEW k \in 0..(j + 1)
        PROVE  h[k] = IF k = 0 THEN 1 ELSE NextOffset(text, opens, h[k - 1])
    <3>1. CASE k <= j
      BY <2>1, <3>1 DEF OffsetsTo
    <3>2. CASE k = j + 1
      BY <2>1, <3>2 DEF OffsetsTo
    <3> QED
      BY <3>1, <3>2
  <2>3. OffsetsTo(h, text, opens, j + 1)
    BY <2>2 DEF OffsetsTo
  <2> QED
    BY <2>3
<1>3. Nat \subseteq P
  <2> HIDE DEF P
  <2> QED
    BY <1>1, <1>2, NatInductive
<1> QED
  BY <1>3

\* The loop finds every marker: none is hidden in the value of the one before it.
LEMMA MarkerFound ==
    ASSUME TextInv, NEW opens \in MarkerEnds, NEW j \in DOMAIN initdata, initdata[j] = opens,
           LooksLikeContainerImageRef(RunFrom(initdata, j + 1, RefTokens))
    PROVE  RunFrom(initdata, j + 1, RefTokens) \in ExtractMarkerImageValues(initdata, opens)
<1>1. PICK n, name : n = Len(initdata) /\ name = RunFrom(initdata, j + 1, RefTokens)
  OBVIOUS
<1>2. initdata \in Seq(Tokens) /\ n \in Nat /\ DOMAIN initdata = 1..n
  BY <1>1, LenProperties DEF TextInv
<1>3. j \in Nat /\ j <= n /\ j - 1 \in Nat /\ 1 <= j - 1
  <2>1. j - 1 \in 1..n
    BY <1>2 DEF TextInv
  <2> QED
    BY <1>2, <2>1
<1>4. PICK g : /\ OffsetsTo(g, initdata, opens, n)
               /\ ExtractMarkerImageValues(initdata, opens) =
                     {value \in {MarkerValue(initdata, opens, g[k]) :
                                    k \in {k \in 0..n : Markers(initdata, opens, g[k]) # {}}} :
                        LooksLikeContainerImageRef(value)}
  <2>1. \E g : OffsetsTo(g, initdata, opens, n)
    BY <1>2, OffsetsExist
  <2> DEFINE chosen == CHOOSE g : OffsetsTo(g, initdata, opens, n)
  <2>2. OffsetsTo(chosen, initdata, opens, n)
    BY <2>1
  <2>3. ExtractMarkerImageValues(initdata, opens) =
           {value \in {MarkerValue(initdata, opens, chosen[k]) :
                          k \in {k \in 0..n : Markers(initdata, opens, chosen[k]) # {}}} :
              LooksLikeContainerImageRef(value)}
    BY <1>1 DEF ExtractMarkerImageValues, OffsetsTo
  <2> QED
    BY <2>2, <2>3
<1> DEFINE Hit(k) == Markers(initdata, opens, g[k]) # {} /\ MarkerValue(initdata, opens, g[k]) = name
<1>5. SUFFICES ASSUME \A k \in 0..n : ~Hit(k) PROVE FALSE
  <2>1. SUFFICES ASSUME NEW k \in 0..n, Hit(k) PROVE name \in ExtractMarkerImageValues(initdata, opens)
    BY <1>1
  <2> QED
    BY <1>1, <1>4, <2>1
<1> DEFINE P == {k \in Nat : k <= n => g[k] \in Nat /\ g[k] >= k + 1 /\ g[k] <= j - 1}
<1>6. 0 \in P
  BY <1>2, <1>3, <1>4 DEF OffsetsTo
<1>7. ASSUME NEW k \in Nat, k \in P PROVE k + 1 \in P
  <2>1. SUFFICES ASSUME k + 1 <= n
                 PROVE  g[k + 1] \in Nat /\ g[k + 1] >= (k + 1) + 1 /\ g[k + 1] <= j - 1
    OBVIOUS
  <2>2. PICK at : at = g[k]
    OBVIOUS
  <2>3. k \in 0..n /\ at \in Nat \ {0} /\ at >= k + 1 /\ at <= j - 1
    BY <1>2, <1>7, <2>1, <2>2
  <2>4. k + 1 \in 0..n /\ k + 1 # 0 /\ (k + 1) - 1 = k
    BY <1>2, <2>1
  <2>5. g[k + 1] = NextOffset(initdata, opens, at)
    BY <1>4, <2>2, <2>4 DEF OffsetsTo
  <2>6. /\ Markers(initdata, opens, at) # {}
        /\ \/ MarkerValue(initdata, opens, at) = name
           \/ /\ NextOffset(initdata, opens, at) \in Nat /\ NextOffset(initdata, opens, at) > at
              /\ NextOffset(initdata, opens, at) <= j - 1
    BY <1>1, <2>3, NextOffsetIs
  <2>7. MarkerValue(initdata, opens, at) # name
    BY <1>5, <2>2, <2>3, <2>6
  <2>8. g[k + 1] \in Nat /\ g[k + 1] > at /\ g[k + 1] <= j - 1
    BY <2>5, <2>6, <2>7
  <2> QED
    BY <2>3, <2>8
<1>8. Nat \subseteq P
  <2> HIDE DEF P
  <2> QED
    BY <1>6, <1>7, NatInductive
<1>9. g[n] \in Nat /\ g[n] >= n + 1 /\ g[n] <= j - 1
  BY <1>2, <1>8
<1> QED
  BY <1>2, <1>3, <1>9

\* What a marker names is pinned when the initdata is accepted.
LEMMA NamedIsPinned ==
    ASSUME TextInv, RequireImagesVerified(InitdataImages(initdata)), NEW i \in DOMAIN initdata,
           initdata[i] \in MarkerEnds, RunFrom(initdata, i + 1, RefTokens) # <<>>,
           RunFrom(initdata, i + 1, RefTokens)[1] = "r.io/app"
    PROVE  HasValidSha256Pin(RunFrom(initdata, i + 1, RefTokens))
<1>1. PICK name, opens : name = RunFrom(initdata, i + 1, RefTokens) /\ opens = initdata[i]
  OBVIOUS
<1>2. initdata \in Seq(Tokens) /\ Len(initdata) \in Nat /\ DOMAIN initdata = 1..Len(initdata)
  BY LenProperties DEF TextInv
<1>3. 1 \in DOMAIN name
  <2>1. name \in Seq(Tokens)
    <3>1. PICK from : from = i + 1
      OBVIOUS
    <3>2. from \in Nat \ {0} /\ from <= Len(initdata) + 1
      BY <1>2, <3>1
    <3> QED
      BY <1>1, <1>2, <3>1, <3>2, RunType
  <2> QED
    BY <1>1, <2>1, EmptySeq, LenProperties
<1>4. LooksLikeContainerImageRef(name)
  BY <1>1, <1>3 DEF LooksLikeContainerImageRef
<1>5. opens \in MarkerEnds /\ name \in ExtractMarkerImageValues(initdata, opens)
  BY <1>1, <1>4, MarkerFound
<1>6. name \in InitdataImages(initdata)
  BY <1>5 DEF InitdataImages, MarkerEnds
<1> QED
  BY <1>1, <1>6 DEF RequireImagesVerified

\* One sequence after another
LEMMA Joined ==
    ASSUME NEW S, NEW a \in Seq(S), NEW b \in Seq(S), NEW k, NEW l, k = Len(a), l = Len(b)
    PROVE  /\ a \o b \in Seq(S) /\ Len(a \o b) = k + l
           /\ \A i \in 1..(k + l) : (a \o b)[i] = IF i <= k THEN a[i] ELSE b[i - k]
BY ConcatProperties

\* What is written keeps markers whole and apart.
LEMMA TextInvKept ==
    ASSUME TextInv, NEW mention \in Mentions,
           NEW before \in {<<>>, <<"label", "opens">>, <<"label", "escaped">>}, WriteText(before, mention)
    PROVE  TextInv'
<1>1. PICK t, n, h, m : t = initdata /\ n = Len(t) /\ h = Len(before) /\ m = Len(mention)
  OBVIOUS
<1>2. t \in Seq(Tokens) /\ n \in Nat /\ DOMAIN t = 1..n
  BY <1>1, LenProperties DEF TextInv
<1>3. before \in Seq(Tokens) /\ h \in {0, 2} /\ DOMAIN before = 1..h /\ (h = 2 => before[1] = "label")
  <2>1. {"label", "opens", "escaped"} \subseteq Tokens
    BY DEF Tokens, RefTokens
  <2>2. CASE before = <<>>
    BY <1>1, <2>2, EmptySeq
  <2>3. CASE before = <<"label", "opens">>
    BY <1>1, <2>1, <2>3
  <2>4. CASE before = <<"label", "escaped">>
    BY <1>1, <2>1, <2>4
  <2> QED
    BY <2>2, <2>3, <2>4
<1>4. mention \in Seq(RefTokens) /\ m \in Nat /\ DOMAIN mention = 1..m
  BY <1>1, ImagesAssumption, LenProperties DEF RefTokens
<1>5. mention \in Seq(Tokens)
  BY <1>4 DEF Tokens
<1>6. PICK u, k : u = t \o before /\ k = n + h
  OBVIOUS
<1>7. /\ u \in Seq(Tokens) /\ Len(u) = k
       /\ \A i \in 1..k : u[i] = IF i <= n THEN t[i] ELSE before[i - n]
  BY <1>1, <1>2, <1>3, <1>6, Joined
<1>8. PICK v : v = u \o mention
  OBVIOUS
<1>9. /\ v \in Seq(Tokens) /\ Len(v) = k + m
       /\ \A i \in 1..(k + m) : v[i] = IF i <= k THEN u[i] ELSE mention[i - k]
  BY <1>1, <1>5, <1>8, <1>7, Joined
<1>10. PICK w : w = v \o <<"quote">>
  OBVIOUS
<1>11. initdata' = w
  BY <1>1, <1>6, <1>8, <1>10 DEF WriteText
<1>12. PICK l : l = k + m /\ l \in Nat /\ k \in Nat /\ k = n + h
  BY <1>2, <1>3, <1>4, <1>6
<1>13. /\ w \in Seq(Tokens) /\ Len(w) = l + 1
       /\ \A i \in 1..(l + 1) : w[i] = IF i <= l THEN v[i] ELSE "quote"
  <2>1. "quote" \in Tokens
    BY DEF Tokens
  <2>2. w = Append(v, "quote")
    BY <1>8, <1>10
  <2> QED
    BY <1>12, <1>9, <2>1, <2>2, AppendProperties
<1>14. DOMAIN w = 1..(l + 1)
  BY <1>13, LenProperties
<1>15. ASSUME NEW i \in 1..n PROVE w[i] = t[i] /\ i \in 1..(l + 1)
  BY <1>2, <1>3, <1>4, <1>12, <1>13, <1>7, <1>9
<1>16. ASSUME NEW i \in 1..h PROVE w[n + i] = before[i] /\ n + i \in 1..(l + 1)
  BY <1>2, <1>3, <1>4, <1>12, <1>13, <1>7, <1>9
<1>17. ASSUME NEW i \in (n + h + 1)..(l + 1) PROVE w[i] \notin MarkerEnds
  <2>1. CASE i = l + 1
    BY <1>12, <1>13, <2>1 DEF MarkerEnds
  <2>2. CASE i <= l
    <3>1. i \in 1..(k + m) /\ ~(i <= k) /\ i - k \in 1..m /\ i \in 1..(l + 1)
      BY <1>2, <1>3, <1>4, <1>12, <2>2
    <3>2. w[i] = mention[i - k]
      BY <1>13, <1>9, <2>2, <3>1
    <3>3. w[i] \in RefTokens
      BY <1>4, <3>1, <3>2
    <3> QED
      BY <3>3 DEF RefTokens, MarkerEnds
  <2> QED
    BY <1>12, <2>1, <2>2
\* Where a marker stands: in the text before, or right after it
<1>18. ASSUME NEW j \in 1..(l + 1), w[j] \in MarkerEnds
       PROVE  \/ j \in 1..n /\ t[j] \in MarkerEnds
              \/ h = 2 /\ j = n + 2
  <2>1. CASE j <= n
    BY <1>2, <1>15, <1>18, <2>1
  <2>2. CASE j > n /\ j <= n + h
    <3>1. h = 2 /\ (j = n + 1 \/ j = n + 2)
      BY <1>2, <1>3, <2>2
    <3>2. w[n + 1] = "label"
      BY <1>3, <1>16, <3>1
    <3>3. "label" \notin MarkerEnds
      BY DEF MarkerEnds
    <3> QED
      BY <1>18, <3>1, <3>2, <3>3
  <2>3. CASE j > n + h
    BY <1>2, <1>3, <1>12, <1>17, <1>18, <2>3
  <2> QED
    BY <1>2, <1>3, <2>1, <2>2, <2>3
<1>19. n # 0 => t[n] = "quote"
  BY <1>1, <1>2, EmptySeq DEF TextInv
<1>20. ASSUME NEW j \in 1..(l + 1), w[j] \in MarkerEnds
       PROVE  /\ j - 1 \in 1..(l + 1) /\ w[j - 1] = "label"
              /\ \A i \in 1..(l + 1) : w[i] \in MarkerEnds /\ i < j =>
                    \E q \in (i + 1)..(j - 2) : w[q] = "quote"
  <2>1. CASE j \in 1..n /\ t[j] \in MarkerEnds
    <3>1. j - 1 \in 1..n /\ t[j - 1] = "label"
      BY <1>1, <1>2, <2>1 DEF TextInv
    <3>2. j - 1 \in 1..(l + 1) /\ w[j - 1] = "label"
      BY <1>15, <3>1
    <3>3. ASSUME NEW i \in 1..(l + 1), w[i] \in MarkerEnds, i < j PROVE \E q \in (i + 1)..(j - 2) : w[q] = "quote"
      <4>1. i \in 1..n /\ t[i] \in MarkerEnds
        BY <1>2, <1>18, <2>1, <3>3
      <4>2. PICK q \in (i + 1)..(j - 2) : t[q] = "quote"
        BY <1>1, <1>2, <2>1, <3>3, <4>1 DEF TextInv
      <4>3. q \in 1..n
        BY <1>2, <2>1, <4>1, <4>2
      <4> QED
        BY <1>15, <4>2, <4>3
    <3> QED
      BY <3>2, <3>3
  <2>2. CASE h = 2 /\ j = n + 2
    <3>1. j - 1 = n + 1
      BY <1>2, <2>2
    <3>2. w[n + 1] = "label" /\ n + 1 \in 1..(l + 1)
      <4>1. 1 \in 1..h /\ before[1] = "label"
        BY <1>3, <2>2
      <4> QED
        BY <1>16, <4>1
    <3>3. ASSUME NEW i \in 1..(l + 1), w[i] \in MarkerEnds, i < j PROVE \E q \in (i + 1)..(j - 2) : w[q] = "quote"
      <4>1. i \in 1..n /\ t[i] \in MarkerEnds
        BY <1>2, <1>18, <2>2, <3>3
      <4>2. t[n] = "quote" /\ n # i /\ n \in 1..n
        BY <1>2, <1>19, <4>1 DEF MarkerEnds
      <4>3. w[n] = "quote" /\ n \in (i + 1)..(j - 2)
        BY <1>2, <1>15, <2>2, <4>1, <4>2
      <4> QED
        BY <4>3
    <3> QED
      BY <3>1, <3>2, <3>3
  <2> QED
    BY <1>18, <1>20, <2>1, <2>2
<1>21. w[Len(w)] = "quote"
  BY <1>12, <1>13
<1> QED
  BY <1>11, <1>13, <1>14, <1>20, <1>21 DEF TextInv

-----------------------------------------------------------------------------
(* Compose files *)

\* No scalar stands where others are.
ComposeInv ==
    /\ IsFiniteSet(DOMAIN compose)
    /\ DOMAIN compose \subseteq ComposePaths
    /\ \A p, q \in DOMAIN compose : IsPrefix(p, q) => p = q

\* A scalar is written only where it fits.
LEMMA ComposeInvKept ==
    ASSUME ComposeInv, NEW path \in ComposePaths, NEW scalar, WriteScalar(path, scalar)
    PROVE  ComposeInv'
<1>1. DOMAIN compose' = DOMAIN compose \cup {path}
  BY DEF WriteScalar
<1>2. \A p \in DOMAIN compose : ~IsPrefix(p, path) /\ ~IsPrefix(path, p)
  BY DEF WriteScalar, Fits
<1>3. IsFiniteSet(DOMAIN compose \cup {path})
  BY FS_AddElement DEF ComposeInv
<1>4. ASSUME NEW p \in DOMAIN compose', NEW q \in DOMAIN compose', IsPrefix(p, q) PROVE p = q
  BY <1>1, <1>2, <1>4 DEF ComposeInv
<1> QED
  BY <1>1, <1>3, <1>4 DEF ComposeInv

RawAt(document, service, Places) ==
    {[at |-> p, service |-> service[p], reference |-> document[p]] : p \in Places}
ImagesOf(raw) == {ParseDigestPinnedImage(image) : image \in raw}
Distinct(raw) == \A a, b \in raw : a = b \/ a.service # b.service
ListsAll(images, document, Places) ==
    /\ {image.digest : image \in images} = {document[p].digest : p \in Places}
    /\ Cardinality(images) = Cardinality(Places)
    /\ \A image \in images : image.digest \in {"d1", "d2"}

\* Images that are all pinned, each of a service of its own, are as many as the places
\* they stand at.
LEMMA ListedOnce ==
    ASSUME NEW Places, IsFiniteSet(Places), NEW document, NEW service, NEW raw, NEW images,
           raw = RawAt(document, service, Places), images = ImagesOf(raw), Rejected \notin images,
           Distinct(raw)
    PROVE  ListsAll(images, document, Places)
<1> DEFINE Raw(p) == [at |-> p, service |-> service[p], reference |-> document[p]]
           Image(p) == [service |-> service[p], digest |-> document[p].digest]
           listed == [p \in Places |-> Image(p)]
<1>1. ASSUME NEW p \in Places
      PROVE  ParseDigestPinnedImage(Raw(p)) = Image(p) /\ document[p].digest \in {"d1", "d2"}
  <2>1. ParseDigestPinnedImage(Raw(p)) # Rejected
    BY DEF RawAt, ImagesOf
  <2> QED
    BY <2>1 DEF ParseDigestPinnedImage
<1>2. images = {Image(p) : p \in Places}
  BY <1>1 DEF RawAt, ImagesOf
<1>3. ASSUME NEW p \in Places, NEW q \in Places, listed[p] = listed[q] PROVE p = q
  <2>1. service[p] = service[q]
    BY <1>3
  <2>2. Raw(p) \in raw /\ Raw(q) \in raw /\ Raw(p).service = Raw(q).service
    BY <2>1 DEF RawAt
  <2>3. Raw(p) = Raw(q)
    BY <2>2 DEF Distinct
  <2> QED
    BY <2>3
<1>8. ASSUME NEW p \in Places PROVE Image(p) \in images /\ Image(p).digest = document[p].digest
  BY <1>2
<1>9. ASSUME NEW image \in images PROVE \E p \in Places : image = Image(p)
  BY <1>2
<1>4. listed \in Bijection(Places, images)
  <2>1. listed \in [Places -> images]
    BY <1>8
  <2>2. \A x \in images : \E p \in Places : listed[p] = x
    BY <1>9
  <2>3. \A p, q \in Places : listed[p] = listed[q] => p = q
    BY <1>3
  <2> HIDE DEF listed
  <2> QED
    BY <2>1, <2>2, <2>3 DEF Bijection, Injection, Surjection, IsInjective
<1>5. Cardinality(images) = Cardinality(Places)
  BY <1>4, FS_Bijection DEF ExistsBijection
<1> HIDE DEF Image
<1>6. {image.digest : image \in images} = {document[p].digest : p \in Places}
  <2>1. ASSUME NEW image \in images PROVE image.digest \in {document[p].digest : p \in Places}
    BY <1>8, <1>9
  <2>2. ASSUME NEW p \in Places PROVE document[p].digest \in {image.digest : image \in images}
    BY <1>8
  <2> QED
    BY <2>1, <2>2
<1>7. ASSUME NEW image \in images PROVE image.digest \in {"d1", "d2"}
  BY <1>1, <1>8, <1>9
<1> QED
  BY <1>5, <1>6, <1>7 DEF ListsAll

\* The first element alone
LEMMA FirstOnly ==
    ASSUME NEW S, NEW s \in Seq(S), Len(s) >= 1
    PROVE  SubSeq(s, 1, 1) = <<s[1]>>
<1>1. s[1] \in S
  BY LenProperties, ElementOfSeq
<1>2. PICK t : t = SubSeq(s, 1, 1)
  OBVIOUS
<1>3. t \in Seq(S) /\ Len(t) = 1 /\ t[1] = s[1]
  BY <1>1, <1>2, SubSeqProperties
<1>4. PICK u : u = <<s[1]>>
  OBVIOUS
<1>5. u \in Seq(S) /\ Len(u) = 1 /\ u[1] = s[1]
  BY <1>1, <1>4
<1>6. t = u
  BY <1>3, <1>5, SeqEqual
<1> QED
  BY <1>2, <1>4, <1>6

\* With services, an accepted file has one image for each, and there all images are that run.
LEMMA ServicesListed ==
    ASSUME ComposeInv, \E p \in DOMAIN compose : p # <<>> /\ p[1] = Services,
           Rejected \notin ServiceImages(compose)
    PROVE  ServiceImages(compose) = {[at |-> p, service |-> p[2], reference |-> compose[p]] : p \in RefRuns(compose)}
<1> DEFINE Names == {p[2] : p \in Under(compose, <<Services>>)}
           Place(name) == <<Services, name, ImageKey>>
           Image(name) == IF name \notin {NonString, BlankKey} /\ IsMapping(compose, <<Services, name>>)
                          THEN RawImage(compose, Place(name), name) ELSE Rejected
<1>1. ServiceImages(compose) = {Image(name) : name \in Names}
  BY DEF ServiceImages
<1>2. ASSUME NEW name \in Names
      PROVE  Place(name) \in DOMAIN compose
             /\ Image(name) = [at |-> Place(name), service |-> name, reference |-> compose[Place(name)]]
  <2>1. Image(name) # Rejected
    BY <1>1
  <2>2. RawImage(compose, Place(name), name) # Rejected /\ Image(name) = RawImage(compose, Place(name), name)
    BY <2>1
  <2> QED
    BY <2>2 DEF RawImage
<1>3. ASSUME NEW name \in Names PROVE Place(name) \in RefRuns(compose)
  BY <1>2 DEF RefRuns, Last
<1>4. ASSUME NEW p \in RefRuns(compose) PROVE p[2] \in Names /\ p = Place(p[2])
  <2>1. p \in Seq(Seq(STRING)) /\ Len(p) = 3 /\ p[1] = Services /\ p[3] = ImageKey /\ p \in DOMAIN compose
    BY ImagesAssumption DEF RefRuns, ComposeInv, Last
  <2>2. p = <<p[1], p[2], p[3]>>
    BY <2>1
  <2>3. IsStrictPrefix(<<Services>>, p)
    <3>1. SubSeq(p, 1, 1) = <<Services>>
      <4>1. Len(p) >= 1
        BY <2>1
      <4> QED
        BY <2>1, <4>1, FirstOnly
    <3>2. PICK s, t : s = <<t>> /\ t = Services
      OBVIOUS
    <3>3. s \in Seq({t}) /\ Len(s) = 1 /\ s[1] = t
      BY <3>2
    <3>4. SubSeq(s, 1, 1) = <<t>>
      BY <3>3, FirstOnly
    <3>5. s # p
      <4>1. Len(s) # Len(p)
        BY <2>1, <3>3
      <4> QED
        BY <4>1
    <3> QED
      BY <2>1, <3>1, <3>2, <3>3, <3>4, <3>5 DEF IsStrictPrefix, IsPrefix
  <2> QED
    BY <2>1, <2>2, <2>3 DEF Under
<1>5. ASSUME NEW image \in ServiceImages(compose)
      PROVE  \E p \in RefRuns(compose) : image = [at |-> p, service |-> p[2], reference |-> compose[p]]
  <2>1. PICK name \in Names : image = Image(name)
    BY <1>1
  <2>2. PICK p : p = Place(name)
    OBVIOUS
  <2>3. p[2] = name
    BY <2>2
  <2> QED
    BY <1>2, <1>3, <2>1, <2>2, <2>3
<1>6. ASSUME NEW p \in RefRuns(compose)
      PROVE  [at |-> p, service |-> p[2], reference |-> compose[p]] \in ServiceImages(compose)
  <2>1. PICK name \in Names : name = p[2] /\ p = Place(name)
    BY <1>4
  <2> HIDE DEF Names
  <2> QED
    BY <1>1, <1>2, <2>1
<1> QED
  BY <1>5, <1>6

\* A sequence up to its end
LEMMA WholeSeq ==
    ASSUME NEW S, NEW s \in Seq(S)
    PROVE  SubSeq(s, 1, Len(s)) = s
<1>1. Len(s) \in Nat /\ \A i \in 1..Len(s) : s[i] \in S
  BY LenProperties, ElementOfSeq
<1>2. PICK t : t = SubSeq(s, 1, Len(s))
  OBVIOUS
<1>3. t \in Seq(S) /\ Len(t) = Len(s) /\ \A i \in 1..Len(s) : t[i] = s[i]
  BY <1>1, <1>2, SubSeqProperties
<1>4. t = s
  BY <1>3, SeqEqual
<1> QED
  BY <1>2, <1>4

\* The walk down a path stops at the first key image.
LEMMA StopsAtImage ==
    ASSUME NEW S, NEW q \in Seq(S), ImageKey \in Range(q)
    PROVE  LET stop == SubSeq(q, 1, SelectInSeq(q, LAMBDA key : key = ImageKey))
           IN  stop \in Seq(S) /\ Last(stop) = ImageKey /\ IsPrefix(stop, q)
<1> DEFINE found == {i \in 1..Len(q) : q[i] = ImageKey}
<1>1. Len(q) \in Nat /\ DOMAIN q = 1..Len(q)
  BY LenProperties
<1>2. found # {} /\ found \subseteq Nat
  BY <1>1 DEF Range
<1>3. PICK f : f = Min(found)
  OBVIOUS
<1>4. SelectInSeq(q, LAMBDA key : key = ImageKey) = f
  BY <1>2, <1>3 DEF SelectInSeq
<1>5. f \in found
  <2> HIDE DEF found
  <2> QED
    BY <1>2, <1>3, LeastExists
<1>6. f \in 1..Len(q) /\ q[f] = ImageKey
  BY <1>5
<1> HIDE DEF found
<1>7. PICK stop : stop = SubSeq(q, 1, f)
  OBVIOUS
<1>8. stop \in Seq(S) /\ Len(stop) = f /\ stop[f] = ImageKey
  <2>1. \A i \in 1..f : q[i] \in S
    BY <1>1, <1>6, ElementOfSeq
  <2>2. f \in Int /\ f >= 1
    BY <1>1, <1>6
  <2>3. /\ stop \in Seq(S) /\ Len(stop) = IF 1 <= f THEN f - 1 + 1 ELSE 0
        /\ \A i \in 1..(f - 1 + 1) : stop[i] = q[1 + i - 1]
    BY <1>7, <2>1, <2>2, SubSeqProperties
  <2>4. Len(stop) = f
    BY <2>2, <2>3
  <2>5. stop[f] = q[f]
    BY <2>2, <2>3
  <2> QED
    BY <1>6, <2>3, <2>4, <2>5
<1>9. Last(stop) = ImageKey
  BY <1>8 DEF Last
<1>10. IsPrefix(stop, q)
  <2>1. SubSeq(stop, 1, Len(stop)) = stop
    BY <1>8, WholeSeq
  <2>2. Len(stop) <= Len(q)
    BY <1>1, <1>6, <1>8
  <2> QED
    BY <1>7, <1>8, <2>1, <2>2 DEF IsPrefix
<1> QED
  BY <1>4, <1>7, <1>8, <1>9, <1>10

\* Without services, the key image of every mapping is where the walk stops.
LEMMA FieldsListed ==
    ASSUME ComposeInv, ~ \E p \in DOMAIN compose : p # <<>> /\ p[1] = Services,
           Rejected \notin CollectDstackImageFields(compose)
    PROVE  CollectDstackImageFields(compose) =
             {[at |-> p, service |-> FlattenSeq(Front(p)), reference |-> compose[p]] : p \in RefRuns(compose)}
<1> DEFINE Stop(q) == SubSeq(q, 1, SelectInSeq(q, LAMBDA key : key = ImageKey))
           Having == {q \in DOMAIN compose : ImageKey \in Range(q)}
           Stops == {Stop(q) : q \in Having}
           Image(p) == [at |-> p, service |-> FlattenSeq(Front(p)), reference |-> compose[p]]
<1>1. CollectDstackImageFields(compose) = {RawImage(compose, p, FlattenSeq(Front(p))) : p \in Stops}
  BY DEF CollectDstackImageFields
<1>2. ASSUME NEW q \in Having
      PROVE  Stop(q) \in Seq(Seq(STRING)) /\ Last(Stop(q)) = ImageKey /\ IsPrefix(Stop(q), q)
  <2>1. q \in Seq(Seq(STRING)) /\ ImageKey \in Range(q)
    BY ImagesAssumption DEF ComposeInv
  <2> QED
    BY <2>1, StopsAtImage
<1> HIDE DEF Stop
<1>3. ASSUME NEW p \in Stops
      PROVE  p \in DOMAIN compose /\ RawImage(compose, p, FlattenSeq(Front(p))) = Image(p)
  <2>1. RawImage(compose, p, FlattenSeq(Front(p))) # Rejected
    BY <1>1
  <2> QED
    BY <2>1 DEF RawImage
<1>4. ASSUME NEW p \in Stops PROVE p \in RefRuns(compose)
  <2>1. Last(p) = ImageKey /\ p \in DOMAIN compose
    BY <1>2, <1>3
  <2>2. ASSUME NEW q \in DOMAIN compose PROVE q[1] # Services
    BY ImagesAssumption DEF ComposeInv
  <2> QED
    BY <2>1, <2>2 DEF RefRuns
<1>5. ASSUME NEW p \in RefRuns(compose) PROVE p \in Stops
  <2>1. p \in DOMAIN compose /\ p \in Seq(Seq(STRING)) /\ p # <<>> /\ Last(p) = ImageKey
    BY ImagesAssumption DEF RefRuns, ComposeInv
  <2>2. ImageKey \in Range(p)
    <3>1. Len(p) \in DOMAIN p
      BY <2>1, EmptySeq, LenProperties
    <3> QED
      BY <2>1, <3>1 DEF Last, Range
  <2>3. p \in Having /\ Stop(p) \in Stops
    BY <2>1, <2>2
  <2>4. Stop(p) \in DOMAIN compose /\ IsPrefix(Stop(p), p)
    BY <1>2, <1>3, <2>3
  <2>5. Stop(p) = p
    BY <2>1, <2>4 DEF ComposeInv
  <2> QED
    BY <2>3, <2>5
<1> HIDE DEF Stops
<1>6. Stops = RefRuns(compose)
  BY <1>4, <1>5
<1> QED
  BY <1>1, <1>3, <1>6

\* What is accepted lists every image that runs, once.
LEMMA ComposeListed ==
    ASSUME ComposeInv, NEW images, images = ParseDstackWorkloadImages(compose), images # Rejected
    PROVE  /\ {image.digest : image \in images} = {compose[p].digest : p \in RefRuns(compose)}
           /\ Cardinality(images) = Cardinality(RefRuns(compose))
           /\ \A image \in images : image.digest \in {"d1", "d2"}
<1>1. PICK raw : raw = IF \E p \in DOMAIN compose : p # <<>> /\ p[1] = Services
                       THEN ServiceImages(compose) ELSE CollectDstackImageFields(compose)
  OBVIOUS
<1>2. images = ImagesOf(raw) /\ Rejected \notin raw /\ Rejected \notin images /\ Distinct(raw)
  BY <1>1 DEF ParseDstackWorkloadImages, ImagesOf, Distinct
<1>3. PICK Places : Places = RefRuns(compose)
  OBVIOUS
<1>4. IsFiniteSet(Places)
  <2>1. Places \subseteq DOMAIN compose
    BY <1>3 DEF RefRuns
  <2> QED
    BY <2>1, FS_Subset DEF ComposeInv
<1>5. \E service : raw = RawAt(compose, service, Places)
  <2>1. CASE \E p \in DOMAIN compose : p # <<>> /\ p[1] = Services
    <3> DEFINE service == [p \in Places |-> p[2]]
    <3>1. raw = {[at |-> p, service |-> p[2], reference |-> compose[p]] : p \in Places}
      BY <1>1, <1>2, <1>3, <2>1, ServicesListed
    <3>2. raw = RawAt(compose, service, Places)
      BY <3>1 DEF RawAt
    <3> QED
      BY <3>2
  <2>2. CASE ~ \E p \in DOMAIN compose : p # <<>> /\ p[1] = Services
    <3> DEFINE service == [p \in Places |-> FlattenSeq(Front(p))]
    <3>1. raw = {[at |-> p, service |-> FlattenSeq(Front(p)), reference |-> compose[p]] : p \in Places}
      BY <1>1, <1>2, <1>3, <2>2, FieldsListed
    <3>2. raw = RawAt(compose, service, Places)
      BY <3>1 DEF RawAt
    <3> QED
      BY <3>2
  <2> QED
    BY <2>1, <2>2
<1>6. PICK document, service : document = compose /\ raw = RawAt(document, service, Places)
  BY <1>5
<1>7. ListsAll(images, document, Places)
  BY <1>2, <1>4, <1>6, ListedOnce
<1> QED
  BY <1>3, <1>6, <1>7 DEF ListsAll

\* For all compose files and initdata texts
THEOREM ImagesArePinned == ImageSpec => []OnlyPinnedImages
<1>1. ImageInit => TextInv /\ ComposeInv
  <2> SUFFICES ASSUME ImageInit PROVE TextInv /\ ComposeInv
    OBVIOUS
  <2>1. DOMAIN compose = {} /\ DOMAIN initdata = {} /\ initdata \in Seq(Tokens)
    BY EmptySeq DEF ImageInit
  <2> QED
    BY <2>1, FS_EmptySet DEF TextInv, ComposeInv, ImageInit
<1>2. TextInv /\ ComposeInv /\ [ImageNext]_imageVars => (TextInv /\ ComposeInv)'
  <2> SUFFICES ASSUME TextInv, ComposeInv, [ImageNext]_imageVars PROVE TextInv' /\ ComposeInv'
    OBVIOUS
  <2>1. CASE UNCHANGED imageVars
    BY <2>1 DEF imageVars, TextInv, ComposeInv
  <2>2. ASSUME NEW path \in ComposePaths, NEW scalar \in Scalars, WriteScalar(path, scalar)
        PROVE  TextInv' /\ ComposeInv'
    <3>1. initdata' = initdata
      BY <2>2 DEF WriteScalar
    <3>2. TextInv'
      BY <3>1 DEF TextInv
    <3> QED
      BY <2>2, <3>2, ComposeInvKept
  <2>3. ASSUME NEW mention \in Mentions,
               NEW before \in {<<>>, <<"label", "opens">>, <<"label", "escaped">>}, WriteText(before, mention)
        PROVE  TextInv' /\ ComposeInv'
    <3>1. compose' = compose
      BY <2>3 DEF WriteText
    <3>2. ComposeInv'
      BY <3>1 DEF ComposeInv
    <3> QED
      BY <2>3, <3>2, TextInvKept
  <2> QED
    BY <2>1, <2>2, <2>3 DEF ImageNext
<1>3. TextInv /\ ComposeInv => OnlyPinnedImages
  <2> SUFFICES ASSUME TextInv, ComposeInv PROVE OnlyPinnedImages
    OBVIOUS
  <2>1. ASSUME NEW i \in DOMAIN initdata, initdata[i] \in {"opens", "escaped"},
               NEW active \in Actives, VerifyActiveEvidence(active, initdata, "m"),
               NEW name, name = RunFrom(initdata, i + 1, RefTokens), name # <<>>, name[1] = "r.io/app"
        PROVE  HasValidSha256Pin(name)
    <3>1. RequireImagesVerified(InitdataImages(initdata))
      BY <2>1 DEF VerifyActiveEvidence
    <3> QED
      BY <2>1, <3>1, NamedIsPinned DEF MarkerEnds
  <2>2. ASSUME NEW images, images = ParseDstackWorkloadImages(compose), images # Rejected
        PROVE  /\ {image.digest : image \in images} = {compose[p].digest : p \in RefRuns(compose)}
               /\ Cardinality(images) = Cardinality(RefRuns(compose))
               /\ \A image \in images : image.digest \in {"d1", "d2"}
    BY <2>2, ComposeListed
  <2> QED
    BY <2>1, <2>2 DEF OnlyPinnedImages
<1> QED
  BY <1>1, <1>2, <1>3, PTL DEF ImageSpec

-----------------------------------------------------------------------------
(***************************************************************************)
(* Redaction: which secrets are never shown, whatever the lengths of a     *)
(* message's parts and whatever stands around the secret.                  *)
(*                                                                         *)
(* A text is read twice.  redact_json_string_values goes over it by turns. *)
(* A secret that is the value of a sensitive key goes in one of them: when *)
(* no value is open before its key (RangeClosed) no turn jumps over the    *)
(* key, and as a quote in the value is escaped (Spans) the turn ends at    *)
(* the quote that closes it.  A secret that follows a lead (a label, a     *)
(* bearer, "sk-") is taken out with the value of a key that opens before   *)
(* it and closes after it, or is kept with its lead (LoopEnds, Behind).    *)
(* Then the reader of redact_sensitive comes to the lead Along the text:   *)
(* redact_next is set only if the text has a label right before the lead,  *)
(* as a word with a value that was taken out is no label (MarkNoLabel).    *)
(* The lead leaves the reader with redact_next, or Armed, by a token that  *)
(* is redacted whatever follows, and it stays so until the token ends.     *)
(***************************************************************************)

Atoms == {"quote", "backslash", "space", "colon", "equals", "comma", "word", "label", "field", "bearer",
          "sk-", "secret", "redacted"}
Texts == Seq(Atoms)
Clean(text) == \A i \in DOMAIN text : text[i] # "secret"
Keys == {"label", "bearer", "field"}

\* Joining is associative.
LEMMA JoinedTwice ==
    ASSUME NEW a \in Texts, NEW b \in Texts, NEW c \in Texts
    PROVE  a \o b \o c = a \o (b \o c)
BY ConcatAssociative DEF Texts

\* Two texts without a secret make one without a secret.
LEMMA CleanJoined ==
    ASSUME NEW a \in Texts, NEW b \in Texts, Clean(a), Clean(b)
    PROVE  a \o b \in Texts /\ Clean(a \o b)
<1>1. PICK k, l : k = Len(a) /\ l = Len(b) /\ k \in Nat /\ l \in Nat
  BY LenProperties DEF Texts
<1>2. /\ a \o b \in Texts /\ Len(a \o b) = k + l
      /\ \A j \in 1..(k + l) : (a \o b)[j] = IF j <= k THEN a[j] ELSE b[j - k]
  BY <1>1, Joined DEF Texts
<1>3. DOMAIN a = 1..k /\ DOMAIN b = 1..l /\ DOMAIN (a \o b) = 1..(k + l)
  BY <1>1, <1>2, LenProperties DEF Texts
<1>4. ASSUME NEW j \in 1..(k + l) PROVE (a \o b)[j] # "secret"
  <2>1. CASE j <= k
    BY <1>1, <1>2, <1>3, <2>1 DEF Clean
  <2>2. CASE ~(j <= k)
    <3>1. j - k \in 1..l
      BY <1>1, <2>2
    <3> QED
      BY <1>2, <1>3, <2>2, <3>1 DEF Clean
  <2> QED
    BY <2>1, <2>2
<1> QED
  BY <1>2, <1>3, <1>4 DEF Clean

\* An atom that is no secret may be appended.
LEMMA CleanAppended ==
    ASSUME NEW a \in Texts, NEW x \in Atoms, Clean(a), x # "secret"
    PROVE  Append(a, x) \in Texts /\ Clean(Append(a, x))
<1>1. <<x>> \in Texts /\ Clean(<<x>>)
  BY DEF Texts, Clean
<1>2. Append(a, x) = a \o <<x>>
  BY AppendIsConcat DEF Texts
<1> QED
  BY <1>1, <1>2, CleanJoined

\* What stands in the place of a value shows nothing.
LEMMA MarkClean == <<"redacted", Quote>> \in Texts /\ Clean(<<"redacted", Quote>>)
<1>1. <<"redacted", Quote>> \in Texts
  <2>1. PICK a \in Atoms, b \in Atoms : a = "redacted" /\ b = Quote
    BY DEF Quote, Atoms
  <2>2. <<a, b>> \in Seq(Atoms)
    OBVIOUS
  <2> QED
    BY <2>1, <2>2 DEF Texts
<1>2. \A j \in DOMAIN <<"redacted", Quote>> : <<"redacted", Quote>>[j] # "secret"
  BY DEF Quote
<1> QED
  BY <1>1, <1>2 DEF Clean

\* The least of a set of numbers, as the scanner chooses it
LEMMA FirstIs ==
    ASSUME NEW T, T \subseteq Nat, T # {}
    PROVE  /\ (CHOOSE i \in T : \A j \in T : i <= j) \in T
           /\ \A k \in T : (CHOOSE i \in T : \A j \in T : i <= j) <= k
<1>1. \E i \in T : \A j \in T : i <= j
  BY LeastExists
<1> QED
  BY <1>1

\* One backslash more before an index, or none
LEMMA EscapesStep ==
    ASSUME NEW text, NEW from \in Nat, NEW i \in Nat, from <= i
    PROVE  /\ Escapes(text, from, from) = 0
           /\ Escapes(text, from, i) \in Nat
           /\ text[i] = Backslash => Escapes(text, from, i + 1) = Escapes(text, from, i) + 1
           /\ text[i] # Backslash => Escapes(text, from, i + 1) = 0
<1> DEFINE B(n) == {j \in from..(n - 1) : \A k \in j..(n - 1) : text[k] = Backslash}
<1>1. \A n : Escapes(text, from, n) = Cardinality(B(n))
  BY DEF Escapes
<1>2. B(from) = {}
  OBVIOUS
<1>3. Escapes(text, from, from) = 0
  BY <1>1, <1>2, FS_EmptySet
<1>4. IsFiniteSet(B(i))
  <2>1. IsFiniteSet(from..(i - 1))
    BY FS_Interval
  <2>2. B(i) \subseteq from..(i - 1)
    OBVIOUS
  <2> QED
    BY <2>1, <2>2, FS_Subset
<1>5. Cardinality(B(i)) \in Nat
  BY <1>4, FS_CardinalityType
<1>6. ASSUME text[i] = Backslash PROVE Cardinality(B(i + 1)) = Cardinality(B(i)) + 1
  <2>1. B(i + 1) = B(i) \cup {i}
    <3>1. ASSUME NEW j \in B(i + 1) PROVE j \in B(i) \cup {i}
      BY <3>1
    <3>2. ASSUME NEW j \in B(i) PROVE j \in B(i + 1)
      <4>1. ASSUME NEW k \in j..((i + 1) - 1) PROVE text[k] = Backslash
        <5>1. k = i \/ k \in j..(i - 1)
          BY <3>2, <4>1
        <5> QED
          BY <1>6, <3>2, <5>1
      <4> QED
        BY <3>2, <4>1
    <3>3. i \in B(i + 1)
      BY <1>6
    <3> QED
      BY <3>1, <3>2, <3>3
  <2>2. i \notin B(i)
    OBVIOUS
  <2> HIDE DEF B
  <2> QED
    BY <1>4, <2>1, <2>2, FS_AddElement
<1>7. ASSUME text[i] # Backslash PROVE B(i + 1) = {}
  BY <1>7
<1> QED
  BY <1>1, <1>3, <1>5, <1>6, <1>7, FS_EmptySet

\* A closing quote is a quote of the text.
LEMMA ClosingType ==
    ASSUME NEW text \in Texts, NEW from \in Nat \ {0}
    PROVE  \/ ClosingJsonQuote(text, from) = 0
           \/ /\ ClosingJsonQuote(text, from) \in from..Len(text)
              /\ text[ClosingJsonQuote(text, from)] = Quote
<1> DEFINE found == {i \in from..Len(text) : text[i] = Quote /\ Escapes(text, from, i) % 2 = 0}
<1>1. found \subseteq Nat
  OBVIOUS
<1>2. ClosingJsonQuote(text, from) =
         IF found = {} THEN 0 ELSE CHOOSE i \in found : \A j \in found : i <= j
  BY DEF ClosingJsonQuote
<1>3. found # {} => (CHOOSE i \in found : \A j \in found : i <= j) \in found
  <2> HIDE DEF found
  <2> QED
    BY <1>1, FirstIs
<1> QED
  BY <1>2, <1>3

\* The first quote that is not escaped closes.
LEMMA ClosingIs ==
    ASSUME NEW text \in Texts, NEW from \in Nat \ {0}, NEW z \in from..Len(text), text[z] = Quote,
           Escapes(text, from, z) % 2 = 0,
           \A i \in from..(z - 1) : text[i] = Quote => Escapes(text, from, i) % 2 # 0
    PROVE  ClosingJsonQuote(text, from) = z
<1> DEFINE found == {i \in from..Len(text) : text[i] = Quote /\ Escapes(text, from, i) % 2 = 0}
<1>1. found \subseteq Nat /\ z \in found
  OBVIOUS
<1>2. \A i \in found : ~(i < z)
  OBVIOUS
<1>3. ClosingJsonQuote(text, from) = CHOOSE i \in found : \A j \in found : i <= j
  BY <1>1 DEF ClosingJsonQuote
<1> HIDE DEF found
<1>4. PICK c : c = CHOOSE i \in found : \A j \in found : i <= j
  OBVIOUS
<1>5. c \in found /\ c <= z
  BY <1>1, <1>4, FirstIs
<1>6. c \in Nat /\ z \in Nat
  BY <1>1, <1>5
<1> QED
  BY <1>2, <1>3, <1>4, <1>5, <1>6

\* Spaces are passed up to what is none.
LEMMA SkipIs ==
    ASSUME NEW text \in Texts, NEW from \in Nat \ {0}, NEW x \in from..Len(text),
           \A j \in from..(x - 1) : text[j] = Space, text[x] # Space
    PROVE  SkipSpace(text, from) = x
<1> DEFINE At(i) == /\ \A j \in from..(i - 1) : text[j] = Space
                    /\ i <= Len(text) => text[i] # Space
<1>1. Len(text) \in Nat
  BY LenProperties DEF Texts
<1>2. x \in from..(Len(text) + 1) /\ At(x)
  BY <1>1
<1>3. ASSUME NEW i \in from..(Len(text) + 1), At(i) PROVE i = x
  <2>1. CASE i < x
    BY <1>1, <1>3, <2>1
  <2>2. CASE i > x
    BY <1>1, <1>3, <2>2
  <2> QED
    BY <1>1, <2>1, <2>2
<1>4. SkipSpace(text, from) = CHOOSE i \in from..(Len(text) + 1) : At(i)
  BY DEF SkipSpace
<1> HIDE DEF At
<1> QED
  BY <1>2, <1>3, <1>4

\* Skipping spaces ends inside the text or right behind it.
LEMMA SkipType ==
    ASSUME NEW text \in Texts, NEW from \in Nat \ {0}, from <= Len(text) + 1
    PROVE  /\ SkipSpace(text, from) \in from..(Len(text) + 1)
           /\ \A j \in from..(SkipSpace(text, from) - 1) : text[j] = Space
<1> DEFINE At(i) == /\ \A j \in from..(i - 1) : text[j] = Space
                    /\ i <= Len(text) => text[i] # Space
           other == {i \in from..Len(text) : text[i] # Space}
<1>1. Len(text) \in Nat
  BY LenProperties DEF Texts
<1>2. \E i \in from..(Len(text) + 1) : At(i)
  <2>1. CASE other = {}
    <3>1. At(Len(text) + 1)
      BY <1>1, <2>1
    <3> QED
      BY <1>1, <3>1
  <2>2. CASE other # {}
    <3>1. other \subseteq Nat
      BY <1>1
    <3>2. PICK x \in other : \A y \in other : x <= y
      <4> HIDE DEF other
      <4> QED
        BY <2>2, <3>1, LeastExists
    <3>3. At(x)
      BY <1>1, <3>2
    <3> QED
      BY <1>1, <3>2, <3>3
  <2> QED
    BY <2>1, <2>2
<1>3. SkipSpace(text, from) = CHOOSE i \in from..(Len(text) + 1) : At(i)
  BY DEF SkipSpace
<1>4. PICK x \in from..(Len(text) + 1) : SkipSpace(text, from) = x /\ At(x)
  <2> HIDE DEF At
  <2> QED
    BY <1>2, <1>3
<1> QED
  BY <1>4

\* A sensitive key is one atom, and colons.
LEMMA KeyFirst ==
    ASSUME NEW token \in Texts, SensitiveJsonKey(token)
    PROVE  1 \in DOMAIN token /\ token[1] \in Keys
<1>1. CASE SensitiveLabelWithoutValue(token)
  <2>1. PICK n \in 0..Len(token) : SubSeq(token, 1, n) = <<"label">>
    BY <1>1 DEF SensitiveLabelWithoutValue
  <2>2. Len(token) \in Nat /\ DOMAIN token = 1..Len(token)
    BY LenProperties DEF Texts
  <2>3. /\ Len(SubSeq(token, 1, n)) = IF 1 <= n THEN n - 1 + 1 ELSE 0
        /\ \A i \in 1..(n - 1 + 1) : SubSeq(token, 1, n)[i] = token[1 + i - 1]
    <3>1. 1 \in 1..(Len(token) + 1) /\ n \in (1 - 1)..Len(token)
      BY <2>1, <2>2
    <3> QED
      BY <3>1, SubSeqProperties DEF Texts
  <2>4. n = 1
    BY <2>1, <2>2, <2>3
  <2>5. token[1] = "label"
    <3>1. 1 \in 1..(n - 1 + 1) /\ 1 + 1 - 1 = 1
      BY <2>4
    <3>2. SubSeq(token, 1, n)[1] = token[1]
      BY <2>3, <3>1
    <3>3. <<"label">>[1] = "label"
      OBVIOUS
    <3> QED
      BY <2>1, <3>2, <3>3
  <2> QED
    BY <2>1, <2>2, <2>4, <2>5 DEF Keys
<1>2. CASE token \in {<<"bearer">>, <<"field">>}
  BY <1>2 DEF Keys
<1> QED
  BY <1>1, <1>2 DEF SensitiveJsonKey

\* It holds nothing else.
LEMMA KeyAtoms ==
    ASSUME NEW token \in Texts, SensitiveJsonKey(token), NEW k \in 1..Len(token)
    PROVE  token[k] \in Keys \cup {Colon}
<1>1. CASE SensitiveLabelWithoutValue(token)
  <2>1. PICK n \in 0..Len(token) : /\ \A i \in (n + 1)..Len(token) : token[i] = Colon
                                   /\ SubSeq(token, 1, n) = <<"label">>
    BY <1>1 DEF SensitiveLabelWithoutValue
  <2>2. Len(token) \in Nat
    BY LenProperties DEF Texts
  <2>3. Len(SubSeq(token, 1, n)) = IF 1 <= n THEN n - 1 + 1 ELSE 0
    <3>1. 1 \in 1..(Len(token) + 1) /\ n \in (1 - 1)..Len(token)
      BY <2>1, <2>2
    <3> QED
      BY <3>1, SubSeqProperties DEF Texts
  <2>4. n = 1
    BY <2>1, <2>2, <2>3
  <2>5. k = 1 \/ k \in (n + 1)..Len(token)
    BY <2>2, <2>4
  <2>6. token[1] \in Keys
    BY KeyFirst
  <2> QED
    BY <2>1, <2>5, <2>6
<1>2. CASE token \in {<<"bearer">>, <<"field">>}
  <2>1. Len(token) = 1
    BY <1>2
  <2>2. k = 1
    BY <2>1
  <2> QED
    BY <2>2, KeyFirst
<1> QED
  BY <1>1, <1>2 DEF SensitiveJsonKey

\* A sensitive key and its string value
RangeAt(text, key, keyEnd, colon, open, end) ==
    /\ keyEnd \in Nat /\ colon \in Nat /\ open \in Nat /\ end \in Nat
    /\ key < keyEnd /\ keyEnd < colon /\ colon < open /\ open < end /\ end <= Len(text)
    /\ text[keyEnd] = Quote /\ text[colon] = Colon /\ text[open] = Quote /\ text[end] = Quote
    /\ SensitiveJsonKey(SubSeq(text, key + 1, keyEnd - 1))
    /\ \A k \in (key + 1)..(keyEnd - 1) : text[k] \in Keys \cup {Colon}
    /\ \A k \in (keyEnd + 1)..(colon - 1) : text[k] = Space
    /\ \A k \in (colon + 1)..(open - 1) : text[k] = Space
    /\ ClosingJsonQuote(text, open + 1) = end

\* What is redacted stands after its key, in the text.
LEMMA RangeShape ==
    ASSUME NEW text \in Texts, NEW i \in 1..Len(text), NEW r \in SensitiveRange(text, i)
    PROVE  \E keyEnd, colon, open, end :
              /\ RangeAt(text, i, keyEnd, colon, open, end)
              /\ r = [start |-> open + 1, end |-> end] /\ SensitiveRange(text, i) = {r}
<1>1. Len(text) \in Nat /\ i \in Nat \ {0}
  BY LenProperties DEF Texts
<1>2. PICK from, keyEnd : from = i + 1 /\ keyEnd = ClosingJsonQuote(text, from)
  OBVIOUS
<1>3. PICK key : key = SubSeq(text, from, keyEnd - 1)
  OBVIOUS
<1>4. keyEnd # 0 /\ SensitiveJsonKey(key)
  BY <1>2, <1>3 DEF SensitiveRange
<1>5. from \in Nat \ {0} /\ keyEnd \in from..Len(text) /\ text[keyEnd] = Quote
  <2>1. from \in Nat \ {0}
    BY <1>1, <1>2
  <2> QED
    BY <1>2, <1>4, <2>1, ClosingType
<1>6. PICK colon : colon = SkipSpace(text, keyEnd + 1)
  OBVIOUS
<1>7. colon \in (keyEnd + 1)..(Len(text) + 1) /\ \A k \in (keyEnd + 1)..(colon - 1) : text[k] = Space
  <2>1. PICK a : a = keyEnd + 1
    OBVIOUS
  <2>2. a \in Nat \ {0} /\ a <= Len(text) + 1
    BY <1>1, <1>5, <2>1
  <2> QED
    BY <1>6, <2>1, <2>2, SkipType
<1>8. PICK open : open = IF AtomAt(text, colon) = Colon THEN SkipSpace(text, colon + 1) ELSE 0
  OBVIOUS
<1>9. PICK end : end = IF AtomAt(text, open) = Quote THEN ClosingJsonQuote(text, open + 1) ELSE 0
  OBVIOUS
<1>10. SensitiveRange(text, i) = IF end = 0 THEN {} ELSE {[start |-> open + 1, end |-> end]}
  BY <1>2, <1>3, <1>4, <1>6, <1>8, <1>9 DEF SensitiveRange
<1>11. end # 0 /\ r = [start |-> open + 1, end |-> end]
  BY <1>10
<1>12. DOMAIN text = 1..Len(text)
  BY LenProperties DEF Texts
<1>13. open \in 1..Len(text) /\ text[open] = Quote /\ end = ClosingJsonQuote(text, open + 1)
  BY <1>9, <1>11, <1>12 DEF AtomAt, Quote
<1>14. colon \in 1..Len(text) /\ text[colon] = Colon /\ open = SkipSpace(text, colon + 1)
  BY <1>8, <1>12, <1>13 DEF AtomAt, Colon
<1>15. open \in (colon + 1)..(Len(text) + 1) /\ \A k \in (colon + 1)..(open - 1) : text[k] = Space
  <2>1. PICK a : a = colon + 1
    OBVIOUS
  <2>2. a \in Nat \ {0} /\ a <= Len(text) + 1
    BY <1>1, <1>14, <2>1
  <2> QED
    BY <1>14, <2>1, <2>2, SkipType
<1>16. end \in (open + 1)..Len(text) /\ text[end] = Quote
  <2>1. PICK a : a = open + 1
    OBVIOUS
  <2>2. a \in Nat \ {0}
    BY <1>1, <1>13, <2>1
  <2> QED
    BY <1>11, <1>13, <2>1, <2>2, ClosingType
<1>17. ASSUME NEW k \in (i + 1)..(keyEnd - 1) PROVE text[k] \in Keys \cup {Colon}
  <2>1. from \in 1..(Len(text) + 1) /\ keyEnd - 1 \in (from - 1)..Len(text)
    BY <1>1, <1>5
  <2>2. /\ key \in Texts
        /\ Len(key) = IF from <= keyEnd - 1 THEN (keyEnd - 1) - from + 1 ELSE 0
        /\ \A j \in 1..((keyEnd - 1) - from + 1) : key[j] = text[from + j - 1]
    BY <1>3, <2>1, SubSeqProperties DEF Texts
  <2>3. PICK j : j = k - i
    OBVIOUS
  <2>4. j \in 1..((keyEnd - 1) - from + 1) /\ from + j - 1 = k /\ from <= keyEnd - 1
    BY <1>1, <1>2, <1>5, <2>3
  <2>5. j \in 1..Len(key) /\ key[j] = text[k]
    BY <2>2, <2>4
  <2> QED
    BY <1>4, <2>2, <2>5, KeyAtoms
<1>18. SensitiveRange(text, i) = {r}
  BY <1>10, <1>11
<1>19. /\ keyEnd \in Nat /\ colon \in Nat /\ open \in Nat /\ end \in Nat
       /\ i < keyEnd /\ keyEnd < colon /\ colon < open /\ open < end /\ end <= Len(text)
  BY <1>1, <1>2, <1>5, <1>7, <1>13, <1>14, <1>15, <1>16, SMTT(30)
<1>20. RangeAt(text, i, keyEnd, colon, open, end)
  BY <1>2, <1>3, <1>4, <1>5, <1>7, <1>13, <1>14, <1>15, <1>16, <1>17, <1>19 DEF RangeAt
<1> QED
  BY <1>11, <1>18, <1>20

-----------------------------------------------------------------------------
(* The loop over JSON values *)

\* The first n turns of the loop over a text
TurnsTo(g, text, n) ==
    g = [k \in 0..n |-> IF k = 0 THEN [index |-> 1, shown |-> <<>>] ELSE RedactJsonAt(text, g[k - 1])]

\* The turns of redact_json_string_values, one after another
LEMMA TurnsExist ==
    ASSUME NEW text, NEW n \in Nat
    PROVE  \E g : TurnsTo(g, text, n)
<1> DEFINE P == {k \in Nat : \E g : TurnsTo(g, text, k)}
<1>1. 0 \in P
  <2>1. TurnsTo([k \in 0..0 |-> [index |-> 1, shown |-> <<>>]], text, 0)
    BY DEF TurnsTo
  <2> QED
    BY <2>1
<1>2. ASSUME NEW j \in Nat, j \in P PROVE j + 1 \in P
  <2>1. PICK g : TurnsTo(g, text, j)
    BY <1>2
  <2> DEFINE h == [k \in 0..(j + 1) |-> IF k <= j THEN g[k] ELSE RedactJsonAt(text, g[j])]
  <2>2. ASSUME NEW k \in 0..(j + 1)
        PROVE  h[k] = IF k = 0 THEN [index |-> 1, shown |-> <<>>] ELSE RedactJsonAt(text, h[k - 1])
    <3>1. CASE k <= j
      BY <2>1, <3>1 DEF TurnsTo
    <3>2. CASE k = j + 1
      BY <2>1, <3>2 DEF TurnsTo
    <3> QED
      BY <3>1, <3>2
  <2>3. TurnsTo(h, text, j + 1)
    BY <2>2 DEF TurnsTo
  <2> QED
    BY <2>3
<1>3. Nat \subseteq P
  <2> HIDE DEF P
  <2> QED
    BY <1>1, <1>2, NatInductive
<1> QED
  BY <1>3

\* The turns of the loop
LEMMA Turns ==
    ASSUME NEW text \in Texts
    PROVE  \E g : /\ RedactJsonStringValues(text) = g[Len(text)].shown
                  /\ g[0] = [index |-> 1, shown |-> <<>>]
                  /\ \A k \in Nat : k < Len(text) => g[k + 1] = RedactJsonAt(text, g[k])
<1>1. PICK n : n = Len(text) /\ n \in Nat
  BY LenProperties DEF Texts
<1>2. \E g : TurnsTo(g, text, n)
  BY <1>1, TurnsExist
<1>3. PICK h : h = CHOOSE g : TurnsTo(g, text, n)
  OBVIOUS
<1>4. TurnsTo(h, text, n)
  BY <1>2, <1>3
<1>5. RedactJsonStringValues(text) = h[n].shown
  BY <1>1, <1>3 DEF RedactJsonStringValues, TurnsTo
<1>6. h[0] = [index |-> 1, shown |-> <<>>]
  BY <1>1, <1>4 DEF TurnsTo
<1>7. ASSUME NEW k \in Nat, k < n PROVE h[k + 1] = RedactJsonAt(text, h[k])
  <2>1. k + 1 \in 0..n /\ k + 1 # 0 /\ (k + 1) - 1 = k
    BY <1>1, <1>7
  <2> QED
    BY <1>4, <2>1 DEF TurnsTo
<1> QED
  BY <1>1, <1>5, <1>6, <1>7

\* What a turn puts out in the place of a value
Mark == <<"redacted", Quote>>

\* A turn puts out an atom, or passes a key and its value.
PlainTurn(text, s, i, after) == after.index = i + 1 /\ after.shown = Append(s.shown, text[i])
ValueTurn(text, s, i, after) ==
    /\ text[i] = Quote
    /\ \E keyEnd, colon, open, end :
          /\ RangeAt(text, i, keyEnd, colon, open, end)
          /\ after.index = end + 1 /\ after.shown = s.shown \o SubSeq(text, i, open) \o Mark

\* The two kinds of turns
LEMMA TurnIs ==
    ASSUME NEW text \in Texts, NEW s, NEW i \in 1..Len(text), i = s.index,
           NEW after, after = RedactJsonAt(text, s)
    PROVE  PlainTurn(text, s, i, after) \/ ValueTurn(text, s, i, after)
<1>1. Len(text) \in Nat /\ ~(i > Len(text)) /\ i \in Nat
  BY LenProperties DEF Texts
<1>2. CASE ~(text[i] = Quote /\ SensitiveRange(text, i) # {})
  <2>1. after = [index |-> i + 1, shown |-> Append(s.shown, text[i])]
    BY <1>1, <1>2 DEF RedactJsonAt
  <2> QED
    BY <2>1 DEF PlainTurn
<1>3. CASE text[i] = Quote /\ SensitiveRange(text, i) # {}
  <2>1. PICK r : r \in SensitiveRange(text, i)
    BY <1>3
  <2>2. PICK keyEnd, colon, open, end :
           /\ RangeAt(text, i, keyEnd, colon, open, end)
           /\ r = [start |-> open + 1, end |-> end] /\ SensitiveRange(text, i) = {r}
    BY <2>1, RangeShape
  <2>3. (CHOOSE q \in SensitiveRange(text, i) : TRUE) = r
    BY <2>2
  <2>4. r.end = end /\ r.start - 1 = open
    BY <2>2 DEF RangeAt
  <2>5. PICK part : part = SubSeq(text, i, open)
    OBVIOUS
  <2>6. after = [index |-> end + 1, shown |-> s.shown \o part \o <<"redacted", Quote>>]
    <3>1. after =
             [index |-> (CHOOSE q \in SensitiveRange(text, i) : TRUE).end + 1,
              shown |-> s.shown \o SubSeq(text, i, (CHOOSE q \in SensitiveRange(text, i) : TRUE).start - 1)
                                \o <<"redacted", Quote>>]
      BY <1>1, <1>3 DEF RedactJsonAt
    <3> QED
      BY <2>3, <2>4, <2>5, <3>1
  <2>7. after.index = end + 1 /\ after.shown = s.shown \o part \o Mark
    BY <2>6 DEF Mark
  <2> QED
    BY <1>3, <2>2, <2>5, <2>7 DEF ValueTurn
<1> QED
  BY <1>2, <1>3

\* A part of a text without a secret has none.
LEMMA CleanPart ==
    ASSUME NEW text \in Texts, NEW i \in Nat, NEW last \in Nat, 1 <= i, i <= last + 1, last <= Len(text),
           \A j \in i..last : text[j] # "secret"
    PROVE  SubSeq(text, i, last) \in Texts /\ Clean(SubSeq(text, i, last))
<1>1. PICK part : part = SubSeq(text, i, last)
  OBVIOUS
<1>2. Len(text) \in Nat
  BY LenProperties DEF Texts
<1>3. i \in 1..(Len(text) + 1) /\ last \in (i - 1)..Len(text)
  BY <1>2
<1>4. /\ part \in Texts /\ Len(part) = IF i <= last THEN last - i + 1 ELSE 0
      /\ \A j \in 1..(last - i + 1) : part[j] = text[i + j - 1]
  BY <1>1, <1>3, SubSeqProperties DEF Texts
<1>5. ASSUME NEW j \in DOMAIN part PROVE part[j] # "secret"
  <2>1. j \in 1..Len(part)
    BY <1>4, LenProperties DEF Texts
  <2>2. j \in 1..(last - i + 1)
    BY <1>4, <2>1
  <2>3. PICK x : x = i + j - 1 /\ part[j] = text[x]
    BY <1>4, <2>2
  <2>4. x \in i..last
    BY <2>2, <2>3
  <2> QED
    BY <2>3, <2>4
<1> QED
  BY <1>1, <1>4, <1>5 DEF Clean

\* What a turn adds shows no secret, if there is none in what it puts out.
Adds(s, after) == \E more \in Texts : Clean(more) /\ after.shown = s.shown \o more

\* A turn that puts out an atom adds it.
LEMMA PlainAdds ==
    ASSUME NEW text \in Texts, NEW s, s.shown \in Texts, NEW i \in 1..Len(text), text[i] # "secret",
           NEW after, PlainTurn(text, s, i, after)
    PROVE  Adds(s, after)
<1>1. PICK a : a = text[i] /\ a \in Atoms /\ a # "secret"
  BY ElementOfSeq DEF Texts
<1>2. <<a>> \in Texts /\ Clean(<<a>>)
  BY <1>1 DEF Texts, Clean
<1>3. Append(s.shown, a) = s.shown \o <<a>>
  BY <1>1, AppendIsConcat DEF Texts
<1> QED
  BY <1>1, <1>2, <1>3 DEF PlainTurn, Adds

\* A turn that passes a value adds its key.
LEMMA ValueAdds ==
    ASSUME NEW text \in Texts, NEW s, s.shown \in Texts, NEW i \in 1..Len(text), NEW open \in Nat,
           i <= open, open <= Len(text), \A j \in i..open : text[j] # "secret",
           NEW after, after.shown = s.shown \o SubSeq(text, i, open) \o Mark
    PROVE  Adds(s, after)
<1>1. PICK part : part = SubSeq(text, i, open) /\ part \in Texts /\ Clean(part)
  <2>1. i \in Nat /\ 1 <= i /\ i <= open + 1
    OBVIOUS
  <2>2. SubSeq(text, i, open) \in Texts /\ Clean(SubSeq(text, i, open))
    BY <2>1, CleanPart
  <2> QED
    BY <2>2
<1>2. Mark \in Texts /\ Clean(Mark)
  BY MarkClean DEF Mark
<1>3. part \o Mark \in Texts /\ Clean(part \o Mark)
  BY <1>1, <1>2, CleanJoined
<1>4. PICK shown : shown = s.shown /\ shown \in Texts
  OBVIOUS
<1>5. shown \o part \o Mark = shown \o (part \o Mark)
  BY <1>1, <1>2, <1>4, JoinedTwice
<1>6. after.shown = s.shown \o (part \o Mark)
  <2>1. after.shown = shown \o part \o Mark
    BY <1>1, <1>4
  <2> QED
    BY <1>4, <1>5, <2>1, Zenon
<1> QED
  BY <1>3, <1>6 DEF Adds

\* A turn that starts after the secret puts out nothing of it, and goes on.
LEMMA TurnAfter ==
    ASSUME NEW text \in Texts, NEW m \in Nat, \A j \in (m + 1)..Len(text) : text[j] # "secret",
           NEW s, s.index \in Nat, s.index > m, s.shown \in Texts,
           NEW after, after = RedactJsonAt(text, s)
    PROVE  /\ after.index \in Nat /\ after.index > m /\ Adds(s, after)
           /\ after.index > s.index \/ (s.index > Len(text) /\ after.index = s.index)
<1>1. PICK i : i = s.index /\ i \in Nat /\ i > m
  OBVIOUS
<1>2. Len(text) \in Nat /\ m \in Nat
  BY LenProperties DEF Texts
<1>3. CASE i > Len(text)
  <2>1. after = s
    BY <1>1, <1>3 DEF RedactJsonAt
  <2>2. <<>> \in Texts /\ Clean(<<>>) /\ s.shown \o <<>> = s.shown
    BY ConcatEmptySeq DEF Texts, Clean
  <2> QED
    BY <1>1, <1>3, <2>1, <2>2 DEF Adds
<1>4. CASE i <= Len(text)
  <2>1. i \in 1..Len(text) /\ \A j \in i..Len(text) : text[j] # "secret"
    BY <1>1, <1>2, <1>4
  <2>2. CASE PlainTurn(text, s, i, after)
    <3>1. Adds(s, after)
      BY <2>1, <2>2, PlainAdds
    <3>2. after.index = i + 1
      BY <2>2 DEF PlainTurn
    <3> QED
      BY <1>1, <1>2, <3>1, <3>2
  <2>3. CASE ValueTurn(text, s, i, after)
    <3>1. PICK keyEnd, colon, open, end :
             /\ RangeAt(text, i, keyEnd, colon, open, end)
             /\ after.index = end + 1 /\ after.shown = s.shown \o SubSeq(text, i, open) \o Mark
      BY <2>3 DEF ValueTurn
    <3>2. open \in Nat /\ end \in Nat /\ i <= open /\ open < end /\ end <= Len(text)
      BY <1>1, <3>1 DEF RangeAt
    <3>3. open <= Len(text) /\ \A j \in i..open : text[j] # "secret"
      BY <1>2, <2>1, <3>2
    <3>4. Adds(s, after)
      BY <2>1, <3>1, <3>2, <3>3, ValueAdds
    <3>5. after.index \in Nat /\ after.index > i /\ after.index > m
      BY <1>1, <1>2, <3>1, <3>2
    <3> QED
      BY <1>1, <3>4, <3>5
  <2> QED
    BY <1>1, <2>1, <2>2, <2>3, TurnIs
<1> QED
  BY <1>1, <1>2, <1>3, <1>4

\* What is added leaves the text clean.
LEMMA AddsClean ==
    ASSUME NEW s, NEW after, s.shown \in Texts, Adds(s, after)
    PROVE  /\ after.shown \in Texts
           /\ Clean(s.shown) => Clean(after.shown)
<1>1. PICK more \in Texts : Clean(more) /\ after.shown = s.shown \o more
  BY DEF Adds
<1>2. PICK shown : shown = s.shown /\ shown \in Texts
  OBVIOUS
<1>3. shown \o more \in Texts
  BY <1>2, ConcatProperties DEF Texts
<1>4. Clean(shown) => Clean(shown \o more)
  BY <1>1, <1>2, CleanJoined
<1> QED
  BY <1>1, <1>2, <1>3, <1>4

\* A sensitive string value stands in a text, and no value of a key before it goes on into it.
HoldsValue(text, key, open, close) ==
    /\ key \in 1..Len(text) /\ open \in 1..Len(text) /\ close \in 1..Len(text) /\ key < open /\ open < close
    /\ text[key] = Quote
    /\ SensitiveRange(text, key) = {[start |-> open + 1, end |-> close]}
    /\ \A i \in 1..(key - 1) : \A keyEnd, colon, first, end :
          text[i] = Quote /\ RangeAt(text, i, keyEnd, colon, first, end) => end < key
    /\ \A j \in 1..open : text[j] # "secret"
    /\ \A j \in close..Len(text) : text[j] # "secret"

\* The loop passes a sensitive string value as a whole.
LEMMA ValueHidden ==
    ASSUME NEW text \in Texts, NEW key, NEW open, NEW close, HoldsValue(text, key, open, close)
    PROVE  RedactJsonStringValues(text) \in Texts /\ Clean(RedactJsonStringValues(text))
<1>1. PICK n : n = Len(text) /\ n \in Nat
  BY LenProperties DEF Texts
<1>2. PICK g : /\ RedactJsonStringValues(text) = g[n].shown
               /\ g[0] = [index |-> 1, shown |-> <<>>]
               /\ \A k \in Nat : k < n => g[k + 1] = RedactJsonAt(text, g[k])
  BY <1>1, Turns
<1>3. /\ key \in Nat /\ open \in Nat /\ close \in Nat /\ 1 <= key /\ key < open /\ open < close /\ close <= n
      /\ text[key] = Quote
      /\ SensitiveRange(text, key) = {[start |-> open + 1, end |-> close]}
      /\ \A j \in 1..open : text[j] # "secret"
      /\ \A j \in close..n : text[j] # "secret"
  BY <1>1 DEF HoldsValue
<1> DEFINE Ok(s) == /\ s.index \in Nat /\ s.index >= 1 /\ (s.index <= key \/ s.index > close)
                    /\ s.shown \in Texts /\ Clean(s.shown)
           P == {k \in Nat : k <= n => Ok(g[k])}
<1>4. 0 \in P
  <2>1. g[0].index = 1 /\ g[0].shown = <<>>
    BY <1>2
  <2>2. <<>> \in Texts /\ Clean(<<>>)
    BY DEF Texts, Clean
  <2> QED
    BY <1>3, <2>1, <2>2
<1>5. ASSUME NEW s, Ok(s), NEW after, after = RedactJsonAt(text, s) PROVE Ok(after)
  <2>1. PICK i : i = s.index /\ i \in Nat /\ i >= 1 /\ (i <= key \/ i > close)
    BY <1>5
  <2>6. s.shown \in Texts /\ Clean(s.shown)
    BY <1>5
  <2> HIDE DEF Ok
  <2>7. SUFFICES /\ after.index \in Nat /\ after.index >= 1
                 /\ after.index <= key \/ after.index > close
                 /\ Adds(s, after)
    BY <2>6, AddsClean DEF Ok
  <2>2. CASE i < key
    <3>1. i \in 1..Len(text) /\ i \in 1..(key - 1) /\ i \in 1..open
      BY <1>1, <1>3, <2>1, <2>2
    <3>2. CASE PlainTurn(text, s, i, after)
      <4>1. Adds(s, after)
        BY <1>3, <2>6, <3>1, <3>2, PlainAdds
      <4>2. after.index = i + 1
        BY <3>2 DEF PlainTurn
      <4> QED
        BY <1>3, <2>1, <2>2, <4>1, <4>2
    <3>3. CASE ValueTurn(text, s, i, after)
      <4>1. PICK keyEnd, colon, first, end :
               /\ RangeAt(text, i, keyEnd, colon, first, end)
               /\ after.index = end + 1 /\ after.shown = s.shown \o SubSeq(text, i, first) \o Mark
        BY <3>3 DEF ValueTurn
      <4>2. first \in Nat /\ end \in Nat /\ i <= first /\ first < end /\ end <= Len(text)
        BY <2>1, <4>1 DEF RangeAt
      <4>3. end < key
        BY <3>1, <3>3, <4>1 DEF HoldsValue, ValueTurn
      <4>4. first <= Len(text) /\ \A j \in i..first : text[j] # "secret"
        BY <1>1, <1>3, <2>1, <4>2, <4>3
      <4>5. Adds(s, after)
        BY <2>6, <3>1, <4>1, <4>2, <4>4, ValueAdds
      <4> QED
        BY <1>3, <4>1, <4>2, <4>3, <4>5
    <3> QED
      BY <1>5, <2>1, <3>1, <3>2, <3>3, TurnIs
  <2>3. CASE i = key
    <3>1. PICK r : r = [start |-> open + 1, end |-> close] /\ SensitiveRange(text, i) = {r}
      BY <1>3, <2>3
    <3>2. (CHOOSE q \in SensitiveRange(text, i) : TRUE) = r
      BY <3>1
    <3>3. SensitiveRange(text, i) # {} /\ text[i] = Quote /\ ~(i > Len(text))
      BY <1>1, <1>3, <2>3, <3>1
    <3>4. PICK part : part = SubSeq(text, i, r.start - 1)
      OBVIOUS
    <3>5. after = [index |-> r.end + 1, shown |-> s.shown \o part \o Mark]
      <4>1. after =
               [index |-> (CHOOSE q \in SensitiveRange(text, i) : TRUE).end + 1,
                shown |-> s.shown \o SubSeq(text, i, (CHOOSE q \in SensitiveRange(text, i) : TRUE).start - 1)
                                  \o <<"redacted", Quote>>]
        BY <1>5, <2>1, <3>3 DEF RedactJsonAt
      <4> QED
        BY <3>2, <3>4, <4>1 DEF Mark
    <3>6. r.start - 1 = open /\ r.end = close
      BY <1>3, <3>1
    <3>7. after.index = close + 1 /\ after.shown = s.shown \o SubSeq(text, i, open) \o Mark
      BY <3>4, <3>5, <3>6
    <3>8. i <= open /\ open <= Len(text) /\ i \in 1..Len(text) /\ \A j \in i..open : text[j] # "secret"
      BY <1>1, <1>3, <2>1, <2>3
    <3>9. Adds(s, after)
      BY <1>3, <2>6, <3>7, <3>8, ValueAdds
    <3> QED
      BY <1>3, <3>7, <3>9
  <2>4. CASE i > close
    <3>1. \A j \in (close + 1)..Len(text) : text[j] # "secret"
      BY <1>1, <1>3
    <3>2. close \in Nat /\ s.index \in Nat /\ s.index > close
      BY <1>3, <2>1, <2>4
    <3>3. after.index \in Nat /\ after.index > close /\ Adds(s, after)
      BY <1>5, <2>6, <3>1, <3>2, TurnAfter
    <3> QED
      BY <1>3, <3>3
  <2> QED
    BY <1>3, <2>1, <2>2, <2>3, <2>4
<1>6. ASSUME NEW k \in Nat, k \in P PROVE k + 1 \in P
  <2>1. SUFFICES ASSUME k + 1 <= n PROVE Ok(g[k + 1])
    OBVIOUS
  <2>2. PICK s : s = g[k]
    OBVIOUS
  <2>3. Ok(s)
    BY <1>1, <1>6, <2>1, <2>2
  <2>4. g[k + 1] = RedactJsonAt(text, s)
    BY <1>1, <1>2, <2>1, <2>2
  <2> HIDE DEF Ok
  <2> QED
    BY <1>5, <2>3, <2>4
<1>7. Nat \subseteq P
  <2> HIDE DEF P
  <2> QED
    BY <1>4, <1>6, NatInductive
<1> QED
  BY <1>1, <1>2, <1>7

-----------------------------------------------------------------------------
(* Escaped values *)

\* The first n atoms of a value, written
WrittenTo(g, value, n) ==
    g = [k \in 0..n |-> IF k = 0 THEN <<>> ELSE g[k - 1] \o EscapedAtom(value[k])]

\* The escaped value, atom by atom
LEMMA WrittenExists ==
    ASSUME NEW value, NEW n \in Nat
    PROVE  \E g : WrittenTo(g, value, n)
<1> DEFINE P == {k \in Nat : \E g : WrittenTo(g, value, k)}
<1>1. 0 \in P
  <2>1. WrittenTo([k \in 0..0 |-> <<>>], value, 0)
    BY DEF WrittenTo
  <2> QED
    BY <2>1
<1>2. ASSUME NEW j \in Nat, j \in P PROVE j + 1 \in P
  <2>1. PICK g : WrittenTo(g, value, j)
    BY <1>2
  <2> DEFINE h == [k \in 0..(j + 1) |-> IF k <= j THEN g[k] ELSE g[j] \o EscapedAtom(value[j + 1])]
  <2>2. ASSUME NEW k \in 0..(j + 1)
        PROVE  h[k] = IF k = 0 THEN <<>> ELSE h[k - 1] \o EscapedAtom(value[k])
    <3>1. CASE k <= j
      BY <2>1, <3>1 DEF WrittenTo
    <3>2. CASE k = j + 1
      BY <2>1, <3>2 DEF WrittenTo
    <3> QED
      BY <3>1, <3>2
  <2>3. WrittenTo(h, value, j + 1)
    BY <2>2 DEF WrittenTo
  <2> QED
    BY <2>3
<1>3. Nat \subseteq P
  <2> HIDE DEF P
  <2> QED
    BY <1>1, <1>2, NatInductive
<1> QED
  BY <1>3

\* What stands in a text after an index
StandsAt(text, at, part) == \A i \in 1..Len(part) : text[at + i] = part[i]

\* Quotes are escaped, and an escape ends with what it escapes.
Spans(text, at, l) ==
    /\ Escapes(text, at + 1, (at + 1) + l) % 2 = 0
    /\ \A i \in (at + 1)..(at + l) : text[i] = Quote => Escapes(text, at + 1, i) % 2 # 0

\* An escaped atom more makes a longer span.
LEMMA SpanGrows ==
    ASSUME NEW text, NEW at \in Nat, NEW l \in Nat, Spans(text, at, l), NEW a \in Atoms,
           \A i \in 1..Len(EscapedAtom(a)) : text[(at + l) + i] = EscapedAtom(a)[i]
    PROVE  Spans(text, at, l + Len(EscapedAtom(a)))
<1>1. PICK x : x = (at + 1) + l /\ x \in Nat /\ at + 1 <= x
  OBVIOUS
<1>2. PICK from : from = at + 1 /\ from \in Nat /\ from <= x /\ from <= x + 1
  BY <1>1
<1>3. PICK e : e = Escapes(text, from, x) /\ e \in Nat /\ e % 2 = 0
  <2>1. Escapes(text, from, x) \in Nat
    BY <1>1, <1>2, EscapesStep
  <2> QED
    BY <1>1, <1>2, <2>1 DEF Spans
<1>4. CASE a \in {Quote, Backslash}
  <2>1. EscapedAtom(a) = <<Backslash, a>> /\ Len(EscapedAtom(a)) = 2
    BY <1>4 DEF EscapedAtom
  <2>2. text[(at + l) + 1] = Backslash /\ text[(at + l) + 2] = a
    BY <2>1
  <2>3. text[x] = Backslash /\ text[x + 1] = a
    BY <1>1, <2>2
  <2>4. Escapes(text, from, x + 1) = e + 1
    BY <1>1, <1>2, <1>3, <2>3, EscapesStep
  <2>5. PICK y : y = x + 1 /\ y \in Nat /\ from <= y
    BY <1>1, <1>2
  <2>6. /\ text[y] = Backslash => Escapes(text, from, y + 1) = Escapes(text, from, y) + 1
        /\ text[y] # Backslash => Escapes(text, from, y + 1) = 0
    BY <1>2, <2>5, EscapesStep
  <2>7. Escapes(text, from, y + 1) = e + 2 \/ Escapes(text, from, y + 1) = 0
    BY <1>3, <2>4, <2>5, <2>6
  <2>8. (e + 2) % 2 = 0 /\ (e + 1) % 2 = 1 /\ 0 % 2 = 0
    BY <1>3
  <2>9. Escapes(text, at + 1, (at + 1) + (l + 2)) % 2 = 0
    <3>1. y + 1 = (at + 1) + (l + 2)
      BY <1>1, <2>5
    <3> QED
      BY <1>2, <2>7, <2>8, <3>1
  <2>10. ASSUME NEW i \in (at + 1)..(at + (l + 2)), text[i] = Quote PROVE Escapes(text, at + 1, i) % 2 # 0
    <3>1. i \in (at + 1)..(at + l) \/ i = x \/ i = y
      BY <1>1, <2>5
    <3>2. i # x
      BY <2>3, <2>10 DEF Quote, Backslash
    <3>3. i = y => Escapes(text, at + 1, i) % 2 # 0
      BY <1>2, <2>4, <2>5, <2>8
    <3> QED
      BY <2>10, <3>1, <3>2, <3>3 DEF Spans
  <2> QED
    BY <2>1, <2>9, <2>10 DEF Spans
<1>5. CASE a \notin {Quote, Backslash}
  <2>1. EscapedAtom(a) = <<a>> /\ Len(EscapedAtom(a)) = 1
    BY <1>5 DEF EscapedAtom
  <2>2. text[(at + l) + 1] = a
    BY <2>1
  <2>3. text[x] = a
    BY <1>1, <2>2
  <2>4. Escapes(text, from, x + 1) = 0
    BY <1>1, <1>2, <1>5, <2>3, EscapesStep
  <2>5. Escapes(text, at + 1, (at + 1) + (l + 1)) % 2 = 0
    <3>1. x + 1 = (at + 1) + (l + 1)
      BY <1>1
    <3> QED
      BY <1>2, <2>4, <3>1
  <2>6. ASSUME NEW i \in (at + 1)..(at + (l + 1)), text[i] = Quote PROVE Escapes(text, at + 1, i) % 2 # 0
    <3>1. i \in (at + 1)..(at + l) \/ i = x
      BY <1>1
    <3>2. i # x
      BY <1>5, <2>3, <2>6
    <3> QED
      BY <2>6, <3>1, <3>2 DEF Spans
  <2> QED
    BY <2>1, <2>5, <2>6 DEF Spans
<1> QED
  BY <1>4, <1>5

\* An atom is escaped into one or two.
LEMMA EscapedAtomType ==
    ASSUME NEW a \in Atoms
    PROVE  EscapedAtom(a) \in Texts
<1>1. CASE a \in {Quote, Backslash}
  <2>1. PICK b \in Atoms : b = Backslash
    BY DEF Backslash, Atoms
  <2>2. <<b, a>> \in Seq(Atoms)
    OBVIOUS
  <2> QED
    BY <1>1, <2>1, <2>2 DEF EscapedAtom, Texts
<1>2. CASE a \notin {Quote, Backslash}
  BY <1>2 DEF EscapedAtom, Texts
<1> QED
  BY <1>1, <1>2

\* An escaped value holds no quote that would close it, and leaves none open.
LEMMA EscapedSpans ==
    ASSUME NEW value \in Texts
    PROVE  /\ Escaped(value) \in Texts
           /\ \A text \in Texts, at \in Nat :
                 StandsAt(text, at, Escaped(value)) => Spans(text, at, Len(Escaped(value)))
<1>1. PICK n : n = Len(value) /\ n \in Nat
  BY LenProperties DEF Texts
<1>2. PICK g : WrittenTo(g, value, n) /\ Escaped(value) = g[n]
  <2>1. \E g : WrittenTo(g, value, n)
    BY <1>1, WrittenExists
  <2>2. PICK h : h = CHOOSE g : WrittenTo(g, value, n)
    OBVIOUS
  <2>3. WrittenTo(h, value, n)
    BY <2>1, <2>2
  <2>4. Escaped(value) = h[n]
    BY <1>1, <2>2 DEF Escaped, WrittenTo
  <2> QED
    BY <2>3, <2>4
<1> DEFINE Ok(w) == /\ w \in Texts
                    /\ \A text \in Texts, at \in Nat : StandsAt(text, at, w) => Spans(text, at, Len(w))
           P == {k \in Nat : k <= n => Ok(g[k])}
<1>3. 0 \in P
  <2>1. g[0] = <<>>
    BY <1>1, <1>2 DEF WrittenTo
  <2>2. <<>> \in Texts /\ Len(<<>>) = 0
    BY DEF Texts
  <2>3. ASSUME NEW text \in Texts, NEW at \in Nat PROVE Spans(text, at, 0)
    <3>1. PICK from : from = at + 1 /\ from \in Nat /\ (at + 1) + 0 = from
      OBVIOUS
    <3>2. Escapes(text, from, from) = 0
      BY <3>1, EscapesStep
    <3>3. (at + 1)..(at + 0) = {}
      OBVIOUS
    <3> QED
      BY <3>1, <3>2, <3>3 DEF Spans
  <2> QED
    BY <2>1, <2>2, <2>3
<1>4. ASSUME NEW k \in Nat, k \in P PROVE k + 1 \in P
  <2>1. SUFFICES ASSUME k + 1 <= n PROVE Ok(g[k + 1])
    OBVIOUS
  <2>2. PICK w : w = g[k] /\ Ok(w)
    BY <1>1, <1>4, <2>1
  <2>3. PICK a : a = value[k + 1] /\ a \in Atoms
    <3>1. k + 1 \in 1..n
      BY <1>1, <2>1
    <3> QED
      BY <1>1, <3>1, ElementOfSeq DEF Texts
  <2>4. PICK e : e = EscapedAtom(a) /\ e \in Texts
    BY <2>3, EscapedAtomType
  <2>5. g[k + 1] = w \o e
    <3>1. k + 1 \in 0..n /\ k + 1 # 0 /\ (k + 1) - 1 = k
      BY <1>1, <2>1
    <3> QED
      BY <1>2, <2>2, <2>3, <2>4, <3>1 DEF WrittenTo
  <2>6. PICK b, c : b = Len(w) /\ c = Len(e) /\ b \in Nat /\ c \in Nat
    BY <2>2, <2>4, LenProperties DEF Texts
  <2>7. /\ w \o e \in Texts /\ Len(w \o e) = b + c
        /\ \A i \in 1..(b + c) : (w \o e)[i] = IF i <= b THEN w[i] ELSE e[i - b]
    BY <2>2, <2>4, <2>6, Joined DEF Texts
  <2>8. ASSUME NEW text \in Texts, NEW at \in Nat, StandsAt(text, at, w \o e)
        PROVE  Spans(text, at, b + c)
    <3>1. \A i \in 1..(b + c) : text[at + i] = (w \o e)[i]
      BY <2>7, <2>8 DEF StandsAt
    <3>2. StandsAt(text, at, w)
      <4>1. ASSUME NEW i \in 1..b PROVE text[at + i] = w[i]
        <5>1. i \in 1..(b + c) /\ i <= b
          BY <2>6
        <5> QED
          BY <2>7, <3>1, <5>1
      <4> QED
        BY <2>6, <4>1 DEF StandsAt
    <3>3. Spans(text, at, b)
      BY <2>2, <2>6, <3>2
    <3>4. ASSUME NEW i \in 1..c PROVE text[(at + b) + i] = e[i]
      <4>1. PICK j : j = b + i /\ j \in 1..(b + c) /\ ~(j <= b) /\ j - b = i /\ at + j = (at + b) + i
        BY <2>6
      <4> QED
        BY <2>7, <3>1, <4>1
    <3> QED
      BY <2>3, <2>4, <2>6, <3>3, <3>4, SpanGrows
  <2> QED
    BY <2>5, <2>7, <2>8
<1>5. Nat \subseteq P
  <2> HIDE DEF P
  <2> QED
    BY <1>3, <1>4, NatInductive
<1>6. Ok(g[n])
  BY <1>1, <1>5
<1> QED
  BY <1>2, <1>6

-----------------------------------------------------------------------------
(* Words *)

\* The redaction of a token keeps nothing but the punctuation it ends with.
LEMMA TokenRedacted ==
    ASSUME NEW token \in Texts
    PROVE  RedactedToken(token) \in Texts /\ Clean(RedactedToken(token))
<1>1. PICK n : n = Len(token) /\ n \in Nat /\ DOMAIN token = 1..n
  BY LenProperties DEF Texts
<1> DEFINE kept == {i \in DOMAIN token : \A j \in i..Len(token) : token[j] \in {Quote, Comma}}
<1>2. PICK c : c = Cardinality(kept)
  OBVIOUS
<1>3. kept \subseteq 1..n
  BY <1>1
<1>4. IsFiniteSet(1..n) /\ Cardinality(1..n) = n
  <2>1. PICK one \in Int, high \in Int : one = 1 /\ high = n
    BY <1>1
  <2>2. IsFiniteSet(one..high) /\ Cardinality(one..high) = IF one > high THEN 0 ELSE high - one + 1
    BY FS_Interval
  <2> QED
    BY <1>1, <2>1, <2>2
<1>5. IsFiniteSet(kept) /\ c \in Nat /\ c <= n
  <2> HIDE DEF kept
  <2> QED
    <3>1. PICK all : all = 1..n /\ IsFiniteSet(all) /\ kept \subseteq all /\ Cardinality(all) = n
      BY <1>3, <1>4
    <3>2. IsFiniteSet(kept) /\ Cardinality(kept) <= Cardinality(all)
      BY <3>1, FS_Subset
    <3>3. Cardinality(kept) \in Nat
      BY <3>2, FS_CardinalityType
    <3> QED
      BY <1>2, <3>1, <3>2, <3>3
<1>6. ASSUME NEW x \in (n - c + 1)..n PROVE token[x] # "secret"
  <2>1. x \in 1..n
    BY <1>1, <1>5
  <2>2. SUFFICES ASSUME x \notin kept PROVE FALSE
    <3>1. x \in x..Len(token)
      BY <1>1, <2>1
    <3>2. x \in kept => token[x] \in {Quote, Comma}
      BY <3>1
    <3> QED
      BY <3>2 DEF Quote, Comma
  <2>3. PICK low : low = x + 1 /\ low \in Int
    BY <2>1
  <2>4. kept \subseteq low..n
    <3>1. ASSUME NEW i \in kept, i <= x PROVE FALSE
      <4>1. ASSUME NEW j \in x..Len(token) PROVE token[j] \in {Quote, Comma}
        <5>1. j \in i..Len(token)
          BY <1>1, <1>3, <2>1, <3>1, <4>1
        <5> QED
          BY <3>1, <5>1
      <4>2. x \in kept
        BY <1>1, <2>1, <4>1
      <4> QED
        BY <2>2, <4>2
    <3>2. ASSUME NEW i \in kept PROVE i \in low..n
      <4>1. i \in 1..n /\ ~(i <= x)
        BY <1>3, <3>1, <3>2
      <4> QED
        BY <1>1, <2>1, <2>3, <4>1
    <3> QED
      BY <3>2
  <2>5. IsFiniteSet(low..n) /\ Cardinality(low..n) = IF low > n THEN 0 ELSE n - low + 1
    <3>1. PICK high \in Int : high = n
      BY <1>1
    <3>2. IsFiniteSet(low..high) /\ Cardinality(low..high) = IF low > high THEN 0 ELSE high - low + 1
      BY <2>3, FS_Interval
    <3> QED
      BY <3>1, <3>2
  <2>6. c <= Cardinality(low..n)
    <3> HIDE DEF kept
    <3> QED
      BY <1>2, <2>4, <2>5, FS_Subset
  <2> QED
    <3>1. PICK d : d = Cardinality(low..n) /\ c <= d /\ d = IF low > n THEN 0 ELSE n - low + 1
      BY <2>5, <2>6
    <3> QED
      BY <1>1, <1>5, <1>6, <2>1, <2>3, <3>1
<1>7. PICK first : first = n - c + 1 /\ first \in Nat /\ 1 <= first /\ first <= n + 1
  BY <1>1, <1>5
<1>8. PICK rest : rest = SubSeq(token, first, n) /\ rest \in Texts /\ Clean(rest)
  <2>1. SubSeq(token, first, n) \in Texts /\ Clean(SubSeq(token, first, n))
    <3>1. \A j \in first..n : token[j] # "secret"
      BY <1>6, <1>7
    <3>2. n \in Nat /\ first \in Nat /\ 1 <= first /\ first <= n + 1 /\ n <= Len(token)
      BY <1>1, <1>7
    <3> QED
      BY <3>1, <3>2, CleanPart
  <2> QED
    BY <2>1
<1>9. PICK mark : mark = <<"redacted">> /\ mark \in Texts /\ Clean(mark)
  <2>1. PICK a \in Atoms : a = "redacted"
    BY DEF Atoms
  <2>2. <<a>> \in Texts /\ Clean(<<a>>)
    BY <2>1 DEF Texts, Clean
  <2> QED
    BY <2>1, <2>2
<1>10. RedactedToken(token) = mark \o rest
  BY <1>1, <1>2, <1>7, <1>8, <1>9 DEF RedactedToken
<1> QED
  BY <1>8, <1>9, <1>10, CleanJoined

\* The greatest of a set of numbers that has a bound
LEMMA LastIs ==
    ASSUME NEW T, NEW n \in Nat, T \subseteq 1..n, T # {}
    PROVE  /\ (CHOOSE i \in T : \A j \in T : j <= i) \in T
           /\ \A k \in T : k <= (CHOOSE i \in T : \A j \in T : j <= i)
<1> DEFINE U == {n - i : i \in T}
<1>1. U \subseteq Nat /\ U # {}
  OBVIOUS
<1>2. PICK u \in U : \A y \in U : u <= y
  <2> HIDE DEF U
  <2> QED
    BY <1>1, LeastExists
<1>3. PICK i \in T : u = n - i
  BY <1>2
<1>4. ASSUME NEW j \in T PROVE j <= i
  <2>1. n - j \in U
    OBVIOUS
  <2>2. u <= n - j
    BY <1>2, <2>1
  <2> QED
    BY <1>3, <2>2
<1>5. \E x \in T : \A j \in T : j <= x
  BY <1>4
<1> QED
  BY <1>5

\* Trimming takes from both ends.
LEMMA TrimIs ==
    ASSUME NEW token \in Texts
    PROVE  /\ Normalized(token) \in Texts /\ Len(Normalized(token)) <= Len(token)
           /\ \A j \in 1..Len(token) : token[j] \notin {Quote, Comma} =>
                 \E i \in 1..Len(Normalized(token)) : Normalized(token)[i] = token[j]
           /\ \A k \in 1..Len(token) :
                 (\A i \in 1..k : token[i] \notin {Quote, Comma}) =>
                    k <= Len(Normalized(token)) /\ \A i \in 1..k : Normalized(token)[i] = token[i]
<1>1. PICK n : n = Len(token) /\ n \in Nat /\ DOMAIN token = 1..n
  BY LenProperties DEF Texts
<1> DEFINE kept == {i \in DOMAIN token : token[i] \notin {Quote, Comma}}
<1>2. PICK a, b : /\ a = CHOOSE i \in kept : \A j \in kept : i <= j
                  /\ b = CHOOSE i \in kept : \A j \in kept : j <= i
  OBVIOUS
<1>3. Normalized(token) = IF kept = {} THEN <<>> ELSE SubSeq(token, a, b)
  BY <1>2 DEF Normalized, TrimMatches
<1>4. kept \subseteq 1..n /\ kept \subseteq Nat
  BY <1>1
<1>5. ASSUME NEW k \in 1..n, \A i \in 1..k : token[i] \notin {Quote, Comma} PROVE \A i \in 1..k : i \in kept
  BY <1>1, <1>5
<1>6. CASE kept = {}
  <2>1. Normalized(token) = <<>>
    BY <1>3, <1>6
  <2>2. <<>> \in Texts /\ Len(<<>>) = 0
    BY DEF Texts
  <2>3. ASSUME NEW k \in 1..n, \A i \in 1..k : token[i] \notin {Quote, Comma} PROVE FALSE
    <3>1. k \in 1..k
      BY <1>1
    <3> QED
      BY <1>5, <1>6, <2>3, <3>1
  <2>4. \A j \in 1..n : token[j] \in {Quote, Comma}
    BY <1>1, <1>6
  <2> QED
    BY <1>1, <2>1, <2>2, <2>3, <2>4
<1>7. CASE kept # {}
  <2> HIDE DEF kept
  <2>1. a \in kept /\ \A k \in kept : a <= k
    BY <1>2, <1>4, <1>7, FirstIs
  <2>2. b \in kept /\ \A k \in kept : k <= b
    BY <1>1, <1>2, <1>4, <1>7, LastIs
  <2>3. a \in 1..n /\ b \in 1..n /\ a <= b
    BY <1>4, <2>1, <2>2
  <2>4. PICK part : part = SubSeq(token, a, b) /\ Normalized(token) = part
    BY <1>3, <1>7
  <2>5. a \in 1..(Len(token) + 1) /\ b \in (a - 1)..Len(token)
    BY <1>1, <2>3
  <2>6. /\ part \in Texts /\ Len(part) = b - a + 1
        /\ \A i \in 1..(b - a + 1) : part[i] = token[a + i - 1]
    BY <2>3, <2>4, <2>5, SubSeqProperties DEF Texts
  <2>7. ASSUME NEW j \in 1..n, token[j] \notin {Quote, Comma} PROVE \E i \in 1..(b - a + 1) : part[i] = token[j]
    <3>1. j \in kept
      BY <1>1, <2>7 DEF kept
    <3>2. a <= j /\ j <= b
      BY <2>1, <2>2, <3>1
    <3>3. PICK i : i = j - a + 1
      OBVIOUS
    <3>4. i \in 1..(b - a + 1) /\ a + i - 1 = j
      BY <1>1, <2>3, <3>2, <3>3
    <3> QED
      BY <2>6, <3>4
  <2>8. ASSUME NEW k \in 1..n, \A i \in 1..k : token[i] \notin {Quote, Comma}
        PROVE  k <= b - a + 1 /\ \A i \in 1..k : part[i] = token[i]
    <3>1. \A i \in 1..k : i \in kept
      BY <1>5, <2>8
    <3>2. 1 \in 1..k /\ k \in 1..k
      BY <1>1, <2>8
    <3>3. a <= 1 /\ k <= b
      BY <2>1, <2>2, <3>1, <3>2
    <3>4. a = 1
      BY <2>3, <3>3
    <3>5. k <= b - a + 1
      BY <1>1, <2>3, <3>3, <3>4
    <3>6. ASSUME NEW i \in 1..k PROVE part[i] = token[i]
      <4>1. i \in 1..(b - a + 1) /\ a + i - 1 = i
        BY <1>1, <2>3, <3>4, <3>5
      <4> QED
        BY <2>6, <4>1
    <3> QED
      BY <3>5, <3>6
  <2>9. b - a + 1 <= n
    BY <1>1, <2>3
  <2> QED
    BY <1>1, <2>4, <2>6, <2>7, <2>8, <2>9
<1> QED
  BY <1>6, <1>7

\* The separator of a token
LEMMA SeparatorType ==
    ASSUME NEW token \in Texts
    PROVE  \/ Separator(token) = 0
           \/ Separator(token) \in 1..Len(token) /\ token[Separator(token)] \in {Colon, Equals}
<1> DEFINE found == {i \in DOMAIN token : token[i] \in {Colon, Equals}}
<1>1. DOMAIN token = 1..Len(token) /\ Len(token) \in Nat
  BY LenProperties DEF Texts
<1>2. found \subseteq Nat
  BY <1>1
<1>3. Separator(token) = IF found = {} THEN 0 ELSE CHOOSE i \in found : \A j \in found : i <= j
  BY DEF Separator
<1>4. found # {} => (CHOOSE i \in found : \A j \in found : i <= j) \in found
  <2> HIDE DEF found
  <2> QED
    BY <1>2, FirstIs
<1> QED
  BY <1>1, <1>3, <1>4

\* The separator of an assignment
LEMMA SeparatorIs ==
    ASSUME NEW token \in Texts, 2 <= Len(token), token[1] = "label", token[2] = Equals
    PROVE  Separator(token) = 2
<1> DEFINE found == {i \in DOMAIN token : token[i] \in {Colon, Equals}}
<1>1. DOMAIN token = 1..Len(token) /\ Len(token) \in Nat
  BY LenProperties DEF Texts
<1>2. found \subseteq Nat /\ 2 \in found /\ 1 \notin found /\ 0 \notin found
  BY <1>1 DEF Colon, Equals
<1>3. Separator(token) = CHOOSE i \in found : \A j \in found : i <= j
  BY <1>2 DEF Separator
<1> HIDE DEF found
<1>4. PICK c : c = (CHOOSE i \in found : \A j \in found : i <= j) /\ c \in found /\ c <= 2
  BY <1>2, FirstIs
<1>5. c \in Nat /\ c # 1 /\ c # 0
  BY <1>2, <1>4
<1> QED
  BY <1>3, <1>4, <1>5

\* An assignment is to a key.
LEMMA AssignmentFirst ==
    ASSUME NEW token \in Texts, SensitiveAssignment(token)
    PROVE  1 <= Len(token) /\ token[1] \in Keys
<1>1. PICK s : s = Separator(token) /\ s # 0 /\ SensitiveJsonKey(SubSeq(token, 1, s - 1))
  BY DEF SensitiveAssignment
<1>2. Len(token) \in Nat /\ s \in 1..Len(token)
  BY <1>1, SeparatorType, LenProperties DEF Texts
<1>3. PICK last : last = s - 1
  OBVIOUS
<1>4. 1 \in 1..(Len(token) + 1) /\ last \in (1 - 1)..Len(token)
  BY <1>2, <1>3
<1>5. PICK key : key = SubSeq(token, 1, last)
  OBVIOUS
<1>6. /\ key \in Texts /\ Len(key) = IF 1 <= last THEN last - 1 + 1 ELSE 0
      /\ \A i \in 1..(last - 1 + 1) : key[i] = token[1 + i - 1]
  BY <1>4, <1>5, SubSeqProperties DEF Texts
<1>7. 1 \in DOMAIN key /\ key[1] \in Keys
  BY <1>1, <1>3, <1>5, <1>6, KeyFirst
<1>8. 1 <= Len(key)
  BY <1>6, <1>7, LenProperties DEF Texts
<1>9. 1 \in 1..(last - 1 + 1) /\ 1 + 1 - 1 = 1
  BY <1>4, <1>6, <1>8
<1>10. key[1] = token[1]
  BY <1>6, <1>9
<1> QED
  BY <1>2, <1>7, <1>10

\* The cases of RedactStep
IsBearer(token) == Normalized(token) = <<"bearer">>
IsLabel(token) == IsBearer(token) \/ SensitiveLabelWithoutValue(Normalized(token))
IsAssignment(token) == ~IsLabel(token) /\ SensitiveAssignment(Normalized(token))
IsKey(token) == /\ ~IsLabel(token) /\ ~IsAssignment(token)
                /\ Normalized(token) # <<>> /\ Head(Normalized(token)) = "sk-"

\* The turns of the loop over the tokens
LEMMA StepIs ==
    ASSUME NEW next \in BOOLEAN, NEW token, NEW step, step = RedactStep(next, token)
    PROVE  /\ next /\ IsBearer(token) => step.shown = token /\ step.next
           /\ next /\ ~IsBearer(token) => step.shown = RedactedToken(token) /\ ~step.next
           /\ ~next /\ IsLabel(token) => step.shown = token /\ step.next
           /\ ~next /\ IsAssignment(token) => step.shown = RedactAssignmentToken(token) /\ ~step.next
           /\ ~next /\ IsKey(token) => step.shown = RedactedToken(token) /\ ~step.next
           /\ ~next /\ ~IsLabel(token) /\ ~IsAssignment(token) /\ ~IsKey(token) =>
                 step.shown = token /\ ~step.next
           /\ step.next \in BOOLEAN
<1>1. ASSUME next, IsBearer(token) PROVE step = [shown |-> token, next |-> TRUE]
  BY <1>1 DEF RedactStep, IsBearer
<1>2. ASSUME next, ~IsBearer(token) PROVE step = [shown |-> RedactedToken(token), next |-> FALSE]
  BY <1>2 DEF RedactStep, IsBearer
<1>3. ASSUME ~next, IsLabel(token) PROVE step = [shown |-> token, next |-> TRUE]
  BY <1>3 DEF RedactStep, IsBearer, IsLabel
<1>4. ASSUME ~next, IsAssignment(token) PROVE step = [shown |-> RedactAssignmentToken(token), next |-> FALSE]
  BY <1>4 DEF RedactStep, IsBearer, IsLabel, IsAssignment
<1>5. ASSUME ~next, IsKey(token) PROVE step = [shown |-> RedactedToken(token), next |-> FALSE]
  BY <1>5 DEF RedactStep, IsBearer, IsLabel, IsAssignment, IsKey
<1>6. ASSUME ~next, ~IsLabel(token), ~IsAssignment(token), ~IsKey(token)
      PROVE  step = [shown |-> token, next |-> FALSE]
  BY <1>6 DEF RedactStep, IsBearer, IsLabel, IsAssignment, IsKey
<1> HIDE DEF IsBearer, IsLabel, IsAssignment, IsKey
<1>7. \A shown : [shown |-> shown, next |-> TRUE].shown = shown /\ [shown |-> shown, next |-> TRUE].next = TRUE
  OBVIOUS
<1>8. \A shown : [shown |-> shown, next |-> FALSE].shown = shown /\ [shown |-> shown, next |-> FALSE].next = FALSE
  OBVIOUS
<1>11. ASSUME next, IsBearer(token) PROVE step.shown = token /\ step.next
  BY <1>1, <1>7, <1>11
<1>12. ASSUME next, ~IsBearer(token) PROVE step.shown = RedactedToken(token) /\ ~step.next
  BY <1>2, <1>8, <1>12
<1>13. ASSUME ~next, IsLabel(token) PROVE step.shown = token /\ step.next
  BY <1>3, <1>7, <1>13
<1>14. ASSUME ~next, IsAssignment(token) PROVE step.shown = RedactAssignmentToken(token) /\ ~step.next
  BY <1>4, <1>8, <1>14
<1>15. ASSUME ~next, IsKey(token) PROVE step.shown = RedactedToken(token) /\ ~step.next
  BY <1>5, <1>8, <1>15
<1>16. ASSUME ~next, ~IsLabel(token), ~IsAssignment(token), ~IsKey(token) PROVE step.shown = token /\ ~step.next
  BY <1>6, <1>8, <1>16
<1>17. step.next \in BOOLEAN
  <2>1. step.next = TRUE \/ step.next = FALSE
    BY <1>1, <1>2, <1>3, <1>4, <1>5, <1>6, <1>7, <1>8
  <2> QED
    BY <2>1
<1> QED
  BY <1>11, <1>12, <1>13, <1>14, <1>15, <1>16, <1>17

\* The redaction of an assignment keeps what stands up to the separator.
LEMMA AssignmentRedacted ==
    ASSUME NEW token \in Texts, \A j \in 1..Separator(token) : token[j] # "secret"
    PROVE  RedactAssignmentToken(token) \in Texts /\ Clean(RedactAssignmentToken(token))
<1>1. PICK n : n = Len(token) /\ n \in Nat
  BY LenProperties DEF Texts
<1>2. PICK s : s = Separator(token) /\ s \in Nat /\ s <= n
  BY <1>1, SeparatorType
<1>3. PICK left : left = SubSeq(token, 1, s) /\ left \in Texts /\ Clean(left)
  <2>1. PICK one : one = 1 /\ one \in Nat /\ 1 <= one /\ one <= s + 1
    BY <1>2
  <2>2. s <= Len(token) /\ \A j \in one..s : token[j] # "secret"
    BY <1>1, <1>2, <2>1
  <2>3. SubSeq(token, one, s) \in Texts /\ Clean(SubSeq(token, one, s))
    BY <1>2, <2>1, <2>2, CleanPart
  <2> QED
    BY <2>1, <2>3
<1>4. PICK right : right = SubSeq(token, s + 1, n) /\ right \in Texts
  <2>1. PICK a : a = s + 1 /\ a \in 1..(Len(token) + 1) /\ n \in (a - 1)..Len(token)
    BY <1>1, <1>2
  <2>2. SubSeq(token, a, n) \in Texts
    BY <2>1, SubSeqProperties DEF Texts
  <2> QED
    BY <2>1, <2>2
<1>5. RedactedToken(right) \in Texts /\ Clean(RedactedToken(right))
  BY <1>4, TokenRedacted
<1>6. RedactAssignmentToken(token) = left \o RedactedToken(right)
  BY <1>1, <1>2, <1>3, <1>4 DEF RedactAssignmentToken
<1> QED
  BY <1>3, <1>5, <1>6, CleanJoined

\* A token that will be redacted whatever follows
Armed(next, token) ==
    \/ next /\ 1 <= Len(token) /\ token[1] \in {"secret", "sk-", "label"}
    \/ ~next /\ 1 <= Len(token) /\ token[1] = "sk-"
    \/ ~next /\ 2 <= Len(token) /\ token[1] = "label" /\ token[2] = Equals

\* A token that starts with a key's first atom, or does not
LEMMA LabelFirst ==
    ASSUME NEW token \in Texts, IsLabel(token) \/ IsAssignment(token)
    PROVE  1 <= Len(Normalized(token)) /\ Normalized(token)[1] \in Keys
<1>1. PICK word : word = Normalized(token) /\ word \in Texts /\ DOMAIN word = 1..Len(word)
  BY TrimIs, LenProperties DEF Texts
<1>2. CASE word = <<"bearer">>
  BY <1>1, <1>2 DEF Keys
<1>3. CASE SensitiveLabelWithoutValue(word)
  <2>1. SensitiveJsonKey(word)
    BY <1>3 DEF SensitiveJsonKey
  <2>2. 1 \in 1..Len(word) /\ word[1] \in Keys
    BY <1>1, <2>1, KeyFirst
  <2> QED
    BY <1>1, <2>2
<1>4. CASE SensitiveAssignment(word)
  BY <1>1, <1>4, AssignmentFirst
<1> QED
  BY <1>1, <1>2, <1>3, <1>4 DEF IsLabel, IsBearer, IsAssignment

\* The part of a text that is its first atom
LEMMA FirstAtom ==
    ASSUME NEW text \in Texts, 1 <= Len(text)
    PROVE  SubSeq(text, 1, 1) = <<text[1]>>
<1>1. PICK a, part : a = 1 /\ part = SubSeq(text, a, a)
  OBVIOUS
<1>2. Len(text) \in Nat
  BY LenProperties DEF Texts
<1>3. a \in 1..(Len(text) + 1) /\ a \in (a - 1)..Len(text)
  BY <1>1, <1>2
<1>4. /\ part \in Texts /\ Len(part) = IF a <= a THEN a - a + 1 ELSE 0
      /\ \A i \in 1..(a - a + 1) : part[i] = text[a + i - 1]
  BY <1>1, <1>3, SubSeqProperties DEF Texts
<1>5. 1 \in 1..(a - a + 1) /\ a + 1 - 1 = 1 /\ a <= a /\ a - a + 1 = 1
  BY <1>1
<1>6. Len(part) = 1 /\ part[1] = text[1]
  BY <1>4, <1>5
<1>7. part = <<text[1]>>
  BY <1>4, <1>6 DEF Texts
<1> QED
  BY <1>1, <1>7

\* RedactStep does not show a secret of a token that is armed.
LEMMA ArmedRedacts ==
    ASSUME NEW next \in BOOLEAN, NEW token \in Texts, Armed(next, token)
    PROVE  RedactStep(next, token).shown \in Texts /\ Clean(RedactStep(next, token).shown)
<1>1. PICK word : word = Normalized(token) /\ word \in Texts
  BY TrimIs
<1>2. Len(token) \in Nat /\ Len(word) \in Nat
  BY <1>1, LenProperties DEF Texts
<1>3. ASSUME NEW k \in 1..Len(token), \A i \in 1..k : token[i] \notin {Quote, Comma}
      PROVE  k <= Len(word) /\ \A i \in 1..k : word[i] = token[i]
  BY <1>1, <1>3, TrimIs
<1>4. CASE next /\ 1 <= Len(token) /\ token[1] \in {"secret", "sk-", "label"}
  <2>1. PICK k : k = 1 /\ k \in 1..Len(token) /\ \A i \in 1..k : token[i] \notin {Quote, Comma}
    BY <1>2, <1>4 DEF Quote, Comma
  <2>2. word[1] # "bearer"
    BY <1>3, <1>4, <2>1
  <2>3. ~IsBearer(token)
    BY <1>1, <2>2 DEF IsBearer
  <2>4. next = TRUE
    BY <1>4
  <2>5. RedactStep(next, token).shown = RedactedToken(token)
    BY <2>3, <2>4, StepIs
  <2> QED
    BY <2>5, TokenRedacted
<1>5. CASE ~next /\ 1 <= Len(token) /\ token[1] = "sk-"
  <2>1. PICK k : k = 1 /\ k \in 1..Len(token) /\ \A i \in 1..k : token[i] \notin {Quote, Comma}
    BY <1>2, <1>5 DEF Quote, Comma
  <2>2. word[1] = "sk-" /\ 1 <= Len(word)
    BY <1>3, <1>5, <2>1
  <2>3. "sk-" \notin Keys
    BY DEF Keys
  <2>4. ~IsLabel(token) /\ ~IsAssignment(token)
    BY <1>1, <2>2, <2>3, LabelFirst
  <2>5. word # <<>> /\ Head(word) = "sk-"
    BY <1>1, <2>2 DEF Texts
  <2>6. IsKey(token) /\ next = FALSE
    BY <1>1, <1>5, <2>4, <2>5 DEF IsKey
  <2>7. RedactStep(next, token).shown = RedactedToken(token)
    BY <2>6, StepIs
  <2> QED
    BY <2>7, TokenRedacted
<1>6. CASE ~next /\ 2 <= Len(token) /\ token[1] = "label" /\ token[2] = Equals
  <2>1. PICK k : k = 2 /\ k \in 1..Len(token)
    BY <1>2, <1>6
  <2>2. \A i \in 1..k : token[i] \notin {Quote, Comma}
    BY <1>6, <2>1 DEF Quote, Comma, Equals
  <2>3. word[1] = "label" /\ word[2] = Equals /\ 2 <= Len(word)
    <3>1. k <= Len(word) /\ \A i \in 1..k : word[i] = token[i]
      BY <1>3, <2>1, <2>2
    <3>2. 1 \in 1..k /\ 2 \in 1..k
      BY <2>1
    <3> QED
      BY <1>6, <2>1, <3>1, <3>2
  <2>4. ~IsBearer(token)
    BY <1>1, <2>3 DEF IsBearer
  <2>5. ~SensitiveLabelWithoutValue(word)
    <3>1. SUFFICES ASSUME NEW n \in 0..Len(word), \A i \in (n + 1)..Len(word) : word[i] = Colon,
                          SubSeq(word, 1, n) = <<"label">>
                   PROVE  FALSE
      BY DEF SensitiveLabelWithoutValue
    <3>2. 1 \in 1..(Len(word) + 1) /\ n \in (1 - 1)..Len(word)
      BY <1>2, <3>1
    <3>3. Len(SubSeq(word, 1, n)) = IF 1 <= n THEN n - 1 + 1 ELSE 0
      BY <1>1, <3>2, SubSeqProperties DEF Texts
    <3>4. n = 1
      BY <1>2, <3>1, <3>3
    <3>5. 2 \in (n + 1)..Len(word)
      BY <1>2, <2>3, <3>4
    <3>6. word[2] = Colon
      BY <3>1, <3>5
    <3> QED
      BY <2>3, <3>6 DEF Colon, Equals
  <2>6. SensitiveAssignment(word)
    <3>1. Separator(word) = 2
      BY <1>1, <2>3, SeparatorIs
    <3>2. SubSeq(word, 1, 1) = <<"label">>
      BY <1>1, <2>3, FirstAtom
    <3>3. SensitiveLabelWithoutValue(<<"label">>)
      <4>1. PICK a \in Atoms : a = "label"
        BY DEF Atoms
      <4>2. PICK t : t = <<a>> /\ t \in Texts /\ Len(t) = 1 /\ t[1] = a
        <5>1. <<a>> \in Seq(Atoms)
          OBVIOUS
        <5>2. Len(<<a>>) = 1
          OBVIOUS
        <5>3. <<a>>[1] = a
          OBVIOUS
        <5> QED
          BY <5>1, <5>2, <5>3 DEF Texts
      <4>3. SubSeq(t, 1, 1) = <<a>>
        BY <4>2, FirstAtom
      <4>4. 1 \in 0..Len(t) /\ \A i \in (1 + 1)..Len(t) : t[i] = Colon
        BY <4>2
      <4>5. SensitiveLabelWithoutValue(t)
        BY <4>1, <4>3, <4>4 DEF SensitiveLabelWithoutValue
      <4> QED
        BY <4>1, <4>2, <4>5
    <3>4. SensitiveJsonKey(SubSeq(word, 1, Separator(word) - 1))
      <4>1. Separator(word) - 1 = 1
        BY <3>1
      <4> QED
        BY <3>2, <3>3, <4>1 DEF SensitiveJsonKey
    <3> QED
      BY <3>1, <3>4 DEF SensitiveAssignment
  <2>7. IsAssignment(token) /\ next = FALSE
    BY <1>1, <1>6, <2>4, <2>5, <2>6 DEF IsAssignment, IsLabel
  <2>8. RedactStep(next, token).shown = RedactAssignmentToken(token)
    BY <2>7, StepIs
  <2>9. Separator(token) = 2
    BY <1>6, SeparatorIs
  <2>10. \A j \in 1..Separator(token) : token[j] # "secret"
    BY <1>6, <2>9 DEF Equals
  <2> QED
    BY <2>8, <2>10, AssignmentRedacted
<1> QED
  BY <1>4, <1>5, <1>6 DEF Armed

\* A token without a secret is put out without one.
LEMMA CleanStep ==
    ASSUME NEW next \in BOOLEAN, NEW token \in Texts, Clean(token)
    PROVE  /\ RedactStep(next, token).shown \in Texts /\ Clean(RedactStep(next, token).shown)
<1>1. RedactedToken(token) \in Texts /\ Clean(RedactedToken(token))
  BY TokenRedacted
<1>2. RedactAssignmentToken(token) \in Texts /\ Clean(RedactAssignmentToken(token))
  <2>1. DOMAIN token = 1..Len(token) /\ Len(token) \in Nat
    BY LenProperties DEF Texts
  <2>2. \A j \in 1..Separator(token) : j \in DOMAIN token
    BY <2>1, SeparatorType
  <2>3. \A j \in 1..Separator(token) : token[j] # "secret"
    BY <2>2 DEF Clean
  <2> QED
    BY <2>3, AssignmentRedacted
<1>3. \/ RedactStep(next, token).shown = token
      \/ RedactStep(next, token).shown = RedactedToken(token)
      \/ RedactStep(next, token).shown = RedactAssignmentToken(token)
  <2>1. CASE next = TRUE
    BY <2>1, StepIs
  <2>2. CASE next = FALSE
    BY <2>2, StepIs
  <2> QED
    BY <2>1, <2>2
<1> QED
  BY <1>1, <1>2, <1>3

\* The reader between two atoms
Safe(s) ==
    /\ s.next \in BOOLEAN /\ s.token \in Texts /\ s.shown \in Texts
    /\ Clean(s.shown)
    /\ Armed(s.next, s.token) \/ Clean(s.token)

\* The end of a token keeps the reader safe.
LEMMA EndSafe ==
    ASSUME NEW s, Safe(s)
    PROVE  /\ Safe(EndToken(s)) /\ EndToken(s).token = <<>>
           /\ s.token # <<>> => EndToken(s).next = RedactStep(s.next, s.token).next
           /\ s.token = <<>> => EndToken(s) = s
<1>1. CASE s.token = <<>>
  <2>1. EndToken(s) = s
    BY <1>1 DEF EndToken
  <2> QED
    BY <1>1, <2>1
<1>2. CASE s.token # <<>>
  <2>1. PICK next, token, shown, step :
           /\ next = s.next /\ token = s.token /\ shown = s.shown /\ step = RedactStep(next, token)
    OBVIOUS
  <2>2. /\ next \in BOOLEAN /\ token \in Texts /\ shown \in Texts /\ Clean(shown)
        /\ Armed(next, token) \/ Clean(token)
    BY <2>1 DEF Safe
  <2>3. step.shown \in Texts /\ Clean(step.shown)
    BY <2>1, <2>2, ArmedRedacts, CleanStep
  <2>4. step.next \in BOOLEAN
    BY <2>1, <2>2, StepIs
  <2>5. PICK between : between = IF shown = <<>> THEN <<>> ELSE <<Space>>
    OBVIOUS
  <2>6. between \in Texts /\ Clean(between)
    <3>1. <<>> \in Texts /\ Clean(<<>>)
      BY DEF Texts, Clean
    <3>2. <<Space>> \in Texts /\ Clean(<<Space>>)
      <4>1. PICK a \in Atoms : a = Space /\ a # "secret"
        BY DEF Atoms, Space
      <4>2. <<a>> \in Texts /\ Clean(<<a>>)
        BY <4>1 DEF Texts, Clean
      <4> QED
        BY <4>1, <4>2
    <3> QED
      BY <2>5, <3>1, <3>2
  <2>7. PICK left : left = shown \o between /\ left \in Texts /\ Clean(left)
    BY <2>2, <2>6, CleanJoined
  <2>8. PICK all : all = left \o step.shown /\ all \in Texts /\ Clean(all)
    BY <2>3, <2>7, CleanJoined
  <2>9. EndToken(s) = [token |-> <<>>, next |-> step.next, shown |-> all]
    <3>1. EndToken(s) = [token |-> <<>>, next |-> RedactStep(s.next, s.token).next,
                         shown |-> s.shown \o (IF s.shown = <<>> THEN <<>> ELSE <<Space>>)
                                           \o RedactStep(s.next, s.token).shown]
      BY <1>2 DEF EndToken
    <3> QED
      BY <2>1, <2>5, <2>7, <2>8, <3>1, Zenon
  <2>10. EndToken(s).token = <<>> /\ EndToken(s).next = step.next /\ EndToken(s).shown = all
    BY <2>9
  <2>11. <<>> \in Texts /\ Clean(<<>>)
    BY DEF Texts, Clean
  <2> QED
    BY <1>2, <2>1, <2>4, <2>8, <2>10, <2>11 DEF Safe
<1> QED
  BY <1>1, <1>2

\* A token stays armed while atoms are added to it.
LEMMA ArmedStays ==
    ASSUME NEW next \in BOOLEAN, NEW token \in Texts, Armed(next, token), NEW a \in Atoms
    PROVE  Armed(next, Append(token, a))
<1>1. PICK n : n = Len(token) /\ n \in Nat
  BY LenProperties DEF Texts
<1>2. /\ Append(token, a) \in Texts /\ Len(Append(token, a)) = n + 1
      /\ \A j \in 1..n : Append(token, a)[j] = token[j]
  BY <1>1, AppendProperties DEF Texts
<1> QED
  BY <1>1, <1>2 DEF Armed

\* What an atom more makes of the reader
LEMMA ReadSafe ==
    ASSUME NEW s, Safe(s), NEW a \in Atoms
    PROVE  /\ a # "secret" => Safe(ReadAtom(s, a))
           /\ Armed(s.next, s.token) /\ a # Space =>
                 Safe(ReadAtom(s, a)) /\ Armed(ReadAtom(s, a).next, ReadAtom(s, a).token)
<1>1. CASE a = Space
  BY <1>1, EndSafe DEF ReadAtom
<1>2. CASE a # Space
  <2>1. PICK token : token = Append(s.token, a)
    OBVIOUS
  <2>2. ReadAtom(s, a) = [token |-> token, next |-> s.next, shown |-> s.shown]
    BY <1>2, <2>1 DEF ReadAtom
  <2>3. ReadAtom(s, a).token = token /\ ReadAtom(s, a).next = s.next /\ ReadAtom(s, a).shown = s.shown
    BY <2>2
  <2>4. PICK old : old = s.token /\ old \in Texts
    BY DEF Safe
  <2>5. token \in Texts
    BY <2>1, <2>4, AppendProperties DEF Texts
  <2>6. Armed(s.next, s.token) => Armed(s.next, token)
    BY <2>1, <2>4, ArmedStays DEF Safe
  <2>7. Clean(s.token) /\ a # "secret" => Clean(token)
    BY <2>1, <2>4, CleanAppended
  <2> QED
    BY <2>3, <2>5, <2>6, <2>7 DEF Safe
<1> QED
  BY <1>1, <1>2

\* The reader before the first atom, and its states over the first n
ReadStart == [token |-> <<>>, next |-> FALSE, shown |-> <<>>]
ReadsTo(g, text, n) ==
    g = [k \in 0..n |-> IF k = 0 THEN ReadStart
                        ELSE ReadAtom(g[k - 1], text[k])]

\* The states of the reader, one atom after another
LEMMA ReadsExist ==
    ASSUME NEW text, NEW n \in Nat
    PROVE  \E g : ReadsTo(g, text, n)
<1> DEFINE P == {k \in Nat : \E g : ReadsTo(g, text, k)}
<1>1. 0 \in P
  <2>1. ReadsTo([k \in 0..0 |-> ReadStart], text, 0)
    BY DEF ReadsTo
  <2> QED
    BY <2>1
<1>2. ASSUME NEW j \in Nat, j \in P PROVE j + 1 \in P
  <2>1. PICK g : ReadsTo(g, text, j)
    BY <1>2
  <2> DEFINE h == [k \in 0..(j + 1) |-> IF k <= j THEN g[k] ELSE ReadAtom(g[j], text[j + 1])]
  <2>2. ASSUME NEW k \in 0..(j + 1)
        PROVE  h[k] = IF k = 0 THEN ReadStart
                      ELSE ReadAtom(h[k - 1], text[k])
    <3>1. CASE k <= j
      BY <2>1, <3>1 DEF ReadsTo
    <3>2. CASE k = j + 1
      BY <2>1, <3>2 DEF ReadsTo
    <3> QED
      BY <3>1, <3>2
  <2>3. ReadsTo(h, text, j + 1)
    BY <2>2 DEF ReadsTo
  <2> QED
    BY <2>3
<1>3. Nat \subseteq P
  <2> HIDE DEF P
  <2> QED
    BY <1>1, <1>2, NatInductive
<1> QED
  BY <1>3

\* The reader's states over a text
Reads(g, text) ==
    /\ g[0] = ReadStart
    /\ \A k \in Nat : k < Len(text) => g[k + 1] = ReadAtom(g[k], text[k + 1])

\* The reader of redact_sensitive goes through such states.
LEMMA ReadsOver ==
    ASSUME NEW text, NEW kept \in Texts, kept = RedactJsonStringValues(text)
    PROVE  \E g : Reads(g, kept) /\ RedactSensitive(text) = EndToken(g[Len(kept)]).shown
<1>1. PICK n : n = Len(kept) /\ n \in Nat
  BY LenProperties DEF Texts
<1>2. \E g : ReadsTo(g, kept, n)
  BY <1>1, ReadsExist
<1>3. PICK h : h = CHOOSE g : ReadsTo(g, kept, n)
  OBVIOUS
<1>4. ReadsTo(h, kept, n)
  BY <1>2, <1>3
<1>5. RedactSensitive(text) = EndToken(h[n]).shown
  BY <1>1, <1>3 DEF RedactSensitive, ReadsTo, ReadStart
<1>6. h[0] = ReadStart
  BY <1>1, <1>4 DEF ReadsTo
<1>7. ASSUME NEW k \in Nat, k < n PROVE h[k + 1] = ReadAtom(h[k], kept[k + 1])
  <2>1. k + 1 \in 0..n /\ k + 1 # 0 /\ (k + 1) - 1 = k
    BY <1>1, <1>7
  <2> QED
    BY <1>4, <2>1 DEF ReadsTo
<1> QED
  BY <1>1, <1>5, <1>6, <1>7 DEF Reads

\* The reader starts safe.
LEMMA SafeFirst ==
    ASSUME NEW s, s = ReadStart
    PROVE  Safe(s) /\ s.token = <<>> /\ s.next = FALSE /\ s.shown = <<>>
<1>1. <<>> \in Texts /\ Clean(<<>>)
  BY DEF Texts, Clean
<1>2. s.token = <<>> /\ s.next = FALSE /\ s.shown = <<>>
  BY DEF ReadStart
<1> QED
  BY <1>1, <1>2 DEF Safe

\* From a state that is safe, over what holds no secret, to the end
LEMMA SafeToEnd ==
    ASSUME NEW text \in Texts, NEW g, Reads(g, text), NEW a \in Nat, a <= Len(text), Safe(g[a]),
           \A j \in (a + 1)..Len(text) : text[j] # "secret"
    PROVE  Clean(EndToken(g[Len(text)]).shown)
<1>1. PICK n : n = Len(text) /\ n \in Nat
  BY LenProperties DEF Texts
<1> DEFINE P == {k \in Nat : a <= k /\ k <= n => Safe(g[k])}
<1>2. 0 \in P
  OBVIOUS
<1>3. ASSUME NEW k \in Nat, k \in P PROVE k + 1 \in P
  <2>1. SUFFICES ASSUME a <= k + 1, k + 1 <= n, a # k + 1 PROVE Safe(g[k + 1])
    OBVIOUS
  <2>2. PICK s : s = g[k] /\ Safe(s)
    BY <1>1, <1>3, <2>1
  <2>3. PICK x : x = text[k + 1] /\ x \in Atoms /\ x # "secret"
    <3>1. k + 1 \in 1..n /\ k + 1 \in (a + 1)..n
      BY <1>1, <2>1
    <3> QED
      BY <1>1, <3>1, ElementOfSeq DEF Texts
  <2>4. g[k + 1] = ReadAtom(s, x)
    BY <1>1, <2>1, <2>2, <2>3 DEF Reads
  <2> QED
    BY <2>2, <2>3, <2>4, ReadSafe
<1>4. Nat \subseteq P
  <2> HIDE DEF P
  <2> QED
    BY <1>2, <1>3, NatInductive
<1>5. PICK s : s = g[n] /\ Safe(s)
  BY <1>1, <1>4
<1> QED
  BY <1>1, <1>5, EndSafe DEF Safe

\* A token that is armed stays so over the secret.
LEMMA ArmedOver ==
    ASSUME NEW text \in Texts, NEW g, Reads(g, text), NEW a \in Nat, NEW b \in Nat, a <= b, b <= Len(text),
           Safe(g[a]), Armed(g[a].next, g[a].token), \A j \in (a + 1)..b : text[j] # Space
    PROVE  Safe(g[b])
<1>1. PICK n : n = Len(text) /\ n \in Nat
  BY LenProperties DEF Texts
<1> DEFINE Ok(s) == Safe(s) /\ Armed(s.next, s.token)
           P == {k \in Nat : a <= k /\ k <= b => Ok(g[k])}
<1>2. 0 \in P
  OBVIOUS
<1>3. ASSUME NEW k \in Nat, k \in P PROVE k + 1 \in P
  <2>1. SUFFICES ASSUME a <= k + 1, k + 1 <= b, a # k + 1 PROVE Ok(g[k + 1])
    OBVIOUS
  <2>2. PICK s : s = g[k] /\ Ok(s)
    BY <1>1, <1>3, <2>1
  <2>3. PICK x : x = text[k + 1] /\ x \in Atoms /\ x # Space
    <3>1. k + 1 \in 1..n /\ k + 1 \in (a + 1)..b
      BY <1>1, <2>1
    <3> QED
      BY <1>1, <3>1, ElementOfSeq DEF Texts
  <2>4. g[k + 1] = ReadAtom(s, x)
    BY <1>1, <2>1, <2>2, <2>3 DEF Reads
  <2> QED
    BY <2>2, <2>3, <2>4, ReadSafe
<1>4. Nat \subseteq P
  <2> HIDE DEF P
  <2> QED
    BY <1>2, <1>3, NatInductive
<1> QED
  BY <1>4

-----------------------------------------------------------------------------
(* What leads to a secret *)

\* A token without punctuation around it is as it is.
LEMMA TrimSame ==
    ASSUME NEW token \in Texts, 1 <= Len(token), \A i \in 1..Len(token) : token[i] \notin {Quote, Comma}
    PROVE  Normalized(token) = token
<1>1. PICK n, word : n = Len(token) /\ n \in Nat /\ word = Normalized(token) /\ word \in Texts
  BY TrimIs, LenProperties DEF Texts
<1>2. n \in 1..Len(token) /\ \A i \in 1..n : token[i] \notin {Quote, Comma}
  BY <1>1
<1>3. n <= Len(word) /\ \A i \in 1..n : word[i] = token[i]
  BY <1>1, <1>2, TrimIs
<1>4. Len(word) <= n
  BY <1>1, TrimIs
<1>5. Len(word) = n
  BY <1>1, <1>3, <1>4, LenProperties DEF Texts
<1>6. word = token
  BY <1>1, <1>3, <1>5, SeqEqual DEF Texts
<1> QED
  BY <1>1, <1>6

\* Between two tokens
Fresh(s, next) == Safe(s) /\ s.token = <<>> /\ s.next = next

\* The first atom of a token
LEMMA ReadFirst ==
    ASSUME NEW s, NEW next \in BOOLEAN, Fresh(s, next), NEW a \in Atoms, a # Space
    PROVE  /\ ReadAtom(s, a).token = <<a>> /\ ReadAtom(s, a).next = next
           /\ a # "secret" => Safe(ReadAtom(s, a))
           /\ next /\ a = "secret" => Safe(ReadAtom(s, a)) /\ Armed(ReadAtom(s, a).next, ReadAtom(s, a).token)
<1>1. PICK r : r = ReadAtom(s, a)
  OBVIOUS
<1>2. r = [token |-> Append(s.token, a), next |-> s.next, shown |-> s.shown]
  BY <1>1 DEF ReadAtom
<1>3. PICK t : t = <<a>> /\ t \in Texts /\ Len(t) = 1 /\ t[1] = a
  <2>1. <<a>> \in Seq(Atoms)
    OBVIOUS
  <2>2. Len(<<a>>) = 1
    OBVIOUS
  <2>3. <<a>>[1] = a
    OBVIOUS
  <2> QED
    BY <2>1, <2>2, <2>3 DEF Texts
<1>4. Append(<<>>, a) = <<a>>
  OBVIOUS
<1>5. r.token = t /\ r.next = next /\ r.shown = s.shown
  BY <1>2, <1>3, <1>4 DEF Fresh
<1>6. next /\ a = "secret" => Armed(r.next, r.token)
  BY <1>3, <1>5 DEF Armed
<1>7. next /\ a = "secret" => Safe(r)
  BY <1>3, <1>5, <1>6 DEF Fresh, Safe
<1>8. a # "secret" => Safe(r)
  BY <1>1, ReadSafe DEF Fresh
<1> QED
  BY <1>1, <1>3, <1>5, <1>6, <1>7, <1>8

\* After a bearer, the next token is to be redacted.
LEMMA LeadBearer ==
    ASSUME NEW s, NEW next \in BOOLEAN, Fresh(s, next)
    PROVE  Fresh(ReadAtom(ReadAtom(s, "bearer"), Space), TRUE)
<1>1. PICK a, r : a = "bearer" /\ a \in Atoms /\ a # Space /\ a # "secret" /\ r = ReadAtom(s, a)
  BY DEF Atoms, Space
<1>2. r.token = <<a>> /\ r.next = next /\ Safe(r)
  BY <1>1, ReadFirst
<1>3. PICK t : t = <<a>> /\ t \in Texts /\ Len(t) = 1 /\ t[1] = a /\ t # <<>>
  <2>1. <<a>> \in Seq(Atoms)
    BY <1>1
  <2>2. Len(<<a>>) = 1
    OBVIOUS
  <2>3. <<a>>[1] = a
    OBVIOUS
  <2>4. <<a>> # <<>>
    OBVIOUS
  <2> QED
    BY <2>1, <2>2, <2>3, <2>4 DEF Texts
<1>4. Normalized(t) = t
  <2>1. \A i \in 1..Len(t) : t[i] \notin {Quote, Comma}
    BY <1>1, <1>3 DEF Quote, Comma
  <2> QED
    BY <1>3, <2>1, TrimSame
<1>5. IsBearer(t) /\ IsLabel(t)
  BY <1>1, <1>3, <1>4 DEF IsBearer, IsLabel
<1>6. PICK step : step = RedactStep(next, t)
  OBVIOUS
<1>7. step.next = TRUE
  BY <1>5, <1>6, StepIs
<1>8. PICK e : e = EndToken(r) /\ Safe(e) /\ e.token = <<>> /\ e.next = TRUE
  BY <1>2, <1>3, <1>6, <1>7, EndSafe
<1>9. ReadAtom(r, Space) = e
  BY <1>8 DEF ReadAtom
<1> QED
  BY <1>1, <1>8, <1>9 DEF Fresh

\* A token of two atoms
LEMMA TwoAtoms ==
    ASSUME NEW a \in Atoms, NEW c \in Atoms
    PROVE  Append(<<a>>, c) = <<a, c>>
<1>1. PICK u, v, w : u = <<a>> /\ v = Append(u, c) /\ w = <<a, c>>
  OBVIOUS
<1>2. <<a>> \in Seq(Atoms)
  OBVIOUS
<1>3. Len(<<a>>) = 1
  OBVIOUS
<1>4. <<a>>[1] = a
  OBVIOUS
<1>5. v \in Seq(Atoms) /\ Len(v) = 2 /\ v[1] = a /\ v[2] = c
  <2>1. u \in Seq(Atoms) /\ Len(u) = 1 /\ u[1] = a
    BY <1>1, <1>2, <1>3, <1>4
  <2>2. PICK n : n = Len(u)
    OBVIOUS
  <2>3. /\ Append(u, c) \in Seq(Atoms) /\ Len(Append(u, c)) = n + 1
        /\ \A i \in 1..n : Append(u, c)[i] = u[i]
        /\ Append(u, c)[n + 1] = c
    <3>1. u \in Seq(Atoms) /\ n = Len(u) /\ n \in Nat
      BY <2>1, <2>2
    <3> QED
      BY <3>1, AppendProperties
  <2>4. 1 \in 1..n /\ n + 1 = 2
    BY <2>1, <2>2
  <2> QED
    BY <1>1, <2>1, <2>3, <2>4
<1>6. <<a, c>> \in Seq(Atoms)
  OBVIOUS
<1>7. Len(<<a, c>>) = 2
  OBVIOUS
<1>8. <<a, c>>[1] = a /\ <<a, c>>[2] = c
  OBVIOUS
<1>9. \A i \in 1..2 : v[i] = w[i]
  <2>1. \A i \in 1..2 : i = 1 \/ i = 2
    OBVIOUS
  <2> QED
    BY <1>1, <1>5, <1>8, <2>1
<1>10. v = w
  BY <1>1, <1>5, <1>6, <1>7, <1>9, SeqEqual
<1> QED
  BY <1>1, <1>10

\* After a label and a colon, too
LEMMA LeadLabel ==
    ASSUME NEW s, Fresh(s, FALSE)
    PROVE  Fresh(ReadAtom(ReadAtom(ReadAtom(s, "label"), Colon), Space), TRUE)
<1>1. PICK a, c : a = "label" /\ a \in Atoms /\ a # Space /\ a # "secret"
                  /\ c = Colon /\ c \in Atoms /\ c # Space /\ c # "secret"
  BY DEF Atoms, Space, Colon
<1>2. PICK r : r = ReadAtom(s, a) /\ r.token = <<a>> /\ r.next = FALSE /\ Safe(r)
  BY <1>1, ReadFirst
<1>3. PICK q : q = ReadAtom(r, c)
  OBVIOUS
<1>4. Safe(q)
  BY <1>1, <1>2, <1>3, ReadSafe
<1>5. q = [token |-> Append(r.token, c), next |-> r.next, shown |-> r.shown]
  BY <1>1, <1>3 DEF ReadAtom
<1>6. Append(<<a>>, c) = <<a, c>>
  BY <1>1, TwoAtoms
<1>7. PICK t : t = <<a, c>> /\ t \in Texts /\ Len(t) = 2 /\ t[1] = a /\ t[2] = c /\ t # <<>>
  <2>1. <<a, c>> \in Seq(Atoms)
    BY <1>1
  <2>2. Len(<<a, c>>) = 2
    OBVIOUS
  <2>3. <<a, c>>[1] = a /\ <<a, c>>[2] = c
    OBVIOUS
  <2>4. <<a, c>> # <<>>
    OBVIOUS
  <2> QED
    BY <2>1, <2>2, <2>3, <2>4 DEF Texts
<1>8. q.token = t /\ q.next = FALSE
  BY <1>2, <1>5, <1>6, <1>7
<1>9. Normalized(t) = t
  <2>1. \A i \in 1..Len(t) : t[i] \notin {Quote, Comma}
    BY <1>1, <1>7 DEF Quote, Comma, Colon
  <2> QED
    BY <1>7, <2>1, TrimSame
<1>10. SensitiveLabelWithoutValue(t)
  <2>1. SubSeq(t, 1, 1) = <<a>>
    BY <1>7, FirstAtom
  <2>2. 1 \in 0..Len(t) /\ \A i \in (1 + 1)..Len(t) : t[i] = Colon
    BY <1>1, <1>7
  <2> QED
    BY <1>1, <2>1, <2>2 DEF SensitiveLabelWithoutValue
<1>11. IsLabel(t)
  BY <1>9, <1>10 DEF IsLabel
<1>12. PICK step : step = RedactStep(FALSE, t)
  OBVIOUS
<1>13. step.next = TRUE
  BY <1>11, <1>12, StepIs
<1>14. PICK e : e = EndToken(q) /\ Safe(e) /\ e.token = <<>> /\ e.next = TRUE
  <2>1. q.token # <<>> /\ RedactStep(q.next, q.token) = step
    BY <1>7, <1>8, <1>12
  <2>2. Safe(EndToken(q)) /\ EndToken(q).token = <<>> /\ EndToken(q).next = RedactStep(q.next, q.token).next
    BY <1>4, <2>1, EndSafe
  <2> QED
    BY <1>13, <2>1, <2>2
<1>15. ReadAtom(q, Space) = e
  BY <1>14 DEF ReadAtom
<1> QED
  BY <1>1, <1>2, <1>3, <1>14, <1>15 DEF Fresh

\* A label that is redacted itself ends as a token does.
LEMMA LabelEnds ==
    ASSUME NEW s, NEW next \in BOOLEAN, Fresh(s, next)
    PROVE  \E then \in BOOLEAN : Fresh(ReadAtom(ReadAtom(ReadAtom(s, "label"), Colon), Space), then)
<1>1. PICK a, c : a = "label" /\ a \in Atoms /\ a # Space /\ a # "secret"
                  /\ c = Colon /\ c \in Atoms /\ c # Space /\ c # "secret"
  BY DEF Atoms, Space, Colon
<1>2. PICK r : r = ReadAtom(s, a) /\ Safe(r)
  BY <1>1, ReadFirst
<1>3. PICK q : q = ReadAtom(r, c) /\ Safe(q)
  BY <1>1, <1>2, ReadSafe
<1>4. PICK e : e = EndToken(q) /\ Safe(e) /\ e.token = <<>>
  BY <1>3, EndSafe
<1>5. ReadAtom(q, Space) = e /\ e.next \in BOOLEAN
  BY <1>4 DEF ReadAtom, Safe
<1> QED
  BY <1>1, <1>2, <1>3, <1>4, <1>5 DEF Fresh

\* An assignment to a label, and the start of a key
LEMMA LeadAssignment ==
    ASSUME NEW s, NEW next \in BOOLEAN, Fresh(s, next), NEW r, r = ReadAtom(ReadAtom(s, "label"), Equals)
    PROVE  Safe(r) /\ Armed(r.next, r.token)
<1>1. PICK a, c : a = "label" /\ a \in Atoms /\ a # Space /\ a # "secret"
                  /\ c = Equals /\ c \in Atoms /\ c # Space /\ c # "secret"
  BY DEF Atoms, Space, Equals
<1>2. PICK q : q = ReadAtom(s, a) /\ q.token = <<a>> /\ q.next = next /\ Safe(q)
  BY <1>1, ReadFirst
<1>3. Safe(r)
  BY <1>1, <1>2, ReadSafe
<1>4. r = [token |-> Append(q.token, c), next |-> q.next, shown |-> q.shown]
  BY <1>1, <1>2 DEF ReadAtom
<1>5. Append(<<a>>, c) = <<a, c>>
  BY <1>1, TwoAtoms
<1>6. r.token = <<a, c>> /\ r.next = next
  BY <1>2, <1>4, <1>5
<1>7. Len(<<a, c>>) = 2 /\ <<a, c>>[1] = a /\ <<a, c>>[2] = c
  OBVIOUS
<1> QED
  BY <1>1, <1>3, <1>6, <1>7 DEF Armed

\* "sk-" arms the reader.
LEMMA LeadKey ==
    ASSUME NEW s, NEW next \in BOOLEAN, Fresh(s, next), NEW r, r = ReadAtom(s, "sk-")
    PROVE  Safe(r) /\ Armed(r.next, r.token)
<1>1. PICK a : a = "sk-" /\ a \in Atoms /\ a # Space /\ a # "secret"
  BY DEF Atoms, Space
<1>2. r.token = <<a>> /\ r.next = next /\ Safe(r)
  BY <1>1, ReadFirst
<1>3. Len(<<a>>) = 1 /\ <<a>>[1] = a
  OBVIOUS
<1> QED
  BY <1>1, <1>2, <1>3 DEF Armed

-----------------------------------------------------------------------------
(* What stands before a secret *)

\* A part that grows by an atom
LEMMA PartGrows ==
    ASSUME NEW text \in Texts, NEW i \in Nat, NEW a \in Nat, 1 <= i, i <= a + 1, a < Len(text)
    PROVE  /\ SubSeq(text, i, a) \in Texts /\ SubSeq(text, i, a + 1) \in Texts
           /\ SubSeq(text, i, a + 1) = Append(SubSeq(text, i, a), text[a + 1])
           /\ i = a + 1 => SubSeq(text, i, a) = <<>>
<1>1. PICK n : n = Len(text) /\ n \in Nat /\ a < n
  BY LenProperties DEF Texts
<1>2. PICK b, old, new : b = a + 1 /\ old = SubSeq(text, i, a) /\ new = SubSeq(text, i, b)
  OBVIOUS
<1>3. i \in 1..(Len(text) + 1) /\ a \in (i - 1)..Len(text) /\ b \in (i - 1)..Len(text)
  BY <1>1, <1>2
<1>4. /\ old \in Texts /\ Len(old) = IF i <= a THEN a - i + 1 ELSE 0
      /\ \A j \in 1..(a - i + 1) : old[j] = text[i + j - 1]
  BY <1>2, <1>3, SubSeqProperties, SMTT(30) DEF Texts
<1>5. /\ new \in Texts /\ Len(new) = IF i <= b THEN b - i + 1 ELSE 0
      /\ \A j \in 1..(b - i + 1) : new[j] = text[i + j - 1]
  BY <1>2, <1>3, SubSeqProperties DEF Texts
<1>6. PICK k, x : k = a - i + 1 /\ k \in Nat /\ x = text[b] /\ x \in Atoms
  <2>1. b \in 1..Len(text) /\ a - i + 1 \in Nat
    BY <1>1, <1>2
  <2> QED
    BY <2>1, ElementOfSeq DEF Texts
<1>7. Len(old) = k /\ Len(new) = k + 1 /\ b - i + 1 = k + 1 /\ i + (k + 1) - 1 = b
  BY <1>2, <1>4, <1>5, <1>6
<1>8. PICK more : more = Append(old, x)
  OBVIOUS
<1>9. more \in Texts /\ Len(more) = k + 1 /\ more[k + 1] = x /\ \A j \in 1..k : more[j] = old[j]
  <2>1. old \in Seq(Atoms) /\ Len(old) = k /\ x \in Atoms
    BY <1>4, <1>6, <1>7 DEF Texts
  <2>2. /\ Append(old, x) \in Seq(Atoms) /\ Len(Append(old, x)) = Len(old) + 1
        /\ \A j \in 1..Len(old) : Append(old, x)[j] = old[j]
        /\ Append(old, x)[Len(old) + 1] = x
    BY <2>1, AppendProperties
  <2> QED
    BY <1>8, <2>1, <2>2 DEF Texts
<1>10. ASSUME NEW j \in 1..(k + 1) PROVE more[j] = new[j]
  <2>1. j = k + 1 \/ j \in 1..k
    BY <1>6
  <2>2. new[j] = text[i + j - 1]
    BY <1>5, <1>7
  <2> QED
    BY <1>4, <1>6, <1>7, <1>9, <2>1, <2>2
<1>11. more = new
  BY <1>5, <1>7, <1>9, <1>10, SeqEqual DEF Texts
<1>12. i = a + 1 => old = <<>>
  <2>1. i = a + 1 => Len(old) = 0
    BY <1>4
  <2> QED
    BY <1>4, <2>1, EmptySeq DEF Texts
<1> QED
  BY <1>2, <1>4, <1>5, <1>6, <1>8, <1>11, <1>12

\* A word in which a value was replaced
HasMark(token) == \E k \in 1..Len(token) : token[k] = "redacted"

\* Such a word is no label.
LEMMA MarkNoLabel ==
    ASSUME NEW token \in Texts, HasMark(token)
    PROVE  ~IsLabel(token)
<1>1. PICK k \in 1..Len(token) : token[k] = "redacted"
  BY DEF HasMark
<1>2. PICK word : word = Normalized(token) /\ word \in Texts
  BY TrimIs
<1>3. token[k] \notin {Quote, Comma}
  BY <1>1 DEF Quote, Comma
<1>4. PICK i \in 1..Len(word) : word[i] = "redacted"
  BY <1>1, <1>2, <1>3, TrimIs
<1>5. word # <<"bearer">>
  <2>1. SUFFICES ASSUME word = <<"bearer">> PROVE FALSE
    OBVIOUS
  <2>2. i = 1 /\ word[1] = "bearer"
    BY <2>1
  <2> QED
    BY <1>4, <2>2
<1>6. ~SensitiveLabelWithoutValue(word)
  <2>1. SUFFICES ASSUME SensitiveJsonKey(word) PROVE FALSE
    BY DEF SensitiveJsonKey
  <2>2. word[i] \in Keys \cup {Colon}
    BY <1>2, <2>1, KeyAtoms
  <2> QED
    BY <1>4, <2>2 DEF Keys, Colon
<1> QED
  BY <1>2, <1>5, <1>6 DEF IsLabel, IsBearer

\* Only a label makes redact_next.
LEMMA OnlyLabels ==
    ASSUME NEW next \in BOOLEAN, NEW token, RedactStep(next, token).next
    PROVE  IsLabel(token)
<1>1. PICK step : step = RedactStep(next, token) /\ step.next
  OBVIOUS
<1>2. SUFFICES ASSUME ~IsLabel(token) PROVE FALSE
  OBVIOUS
<1>3. ~IsBearer(token)
  BY <1>2 DEF IsLabel
<1>4. CASE next = TRUE
  BY <1>1, <1>3, <1>4, StepIs
<1>5. CASE next = FALSE
  <2>1. /\ IsAssignment(token) => ~step.next
        /\ IsKey(token) => ~step.next
        /\ ~IsAssignment(token) /\ ~IsKey(token) => ~step.next
    BY <1>1, <1>2, <1>5, StepIs
  <2> QED
    BY <1>1, <2>1
<1> QED
  BY <1>4, <1>5

\* A word of a text, and the reader after the first atoms of a text
WordOf(token, text, i, a) ==
    /\ token = SubSeq(text, i + 1, a) /\ (i > 0 => text[i] = Space)
    /\ \A k \in (i + 1)..a : text[k] # Space
Along(r, text, a) ==
    /\ Safe(r)
    /\ r.token = <<>> => (a > 0 => text[a] = Space) /\ (r.next => LabelBefore(text, a))
    /\ r.token # <<>> => HasMark(r.token) \/ \E i \in 0..(a - 1) : WordOf(r.token, text, i, a)

\* The reader starts along any text.
LEMMA AlongStart ==
    ASSUME NEW text
    PROVE  Along(ReadStart, text, 0)
<1>1. PICK s : s = ReadStart
  OBVIOUS
<1>2. Safe(s) /\ s.token = <<>> /\ s.next = FALSE
  BY <1>1, SafeFirst
<1>3. ~(0 > 0)
  OBVIOUS
<1> QED
  BY <1>1, <1>2, <1>3 DEF Along

\* The end of a word makes redact_next only after a label.
LEMMA EndLabel ==
    ASSUME NEW text \in Texts, NEW a \in Nat, NEW r, Along(r, text, a), EndToken(r).next
    PROVE  LabelBefore(text, a)
<1>1. Safe(r) /\ r.token \in Texts /\ r.next \in BOOLEAN
  BY DEF Along, Safe
<1>2. CASE r.token = <<>>
  BY <1>1, <1>2, EndSafe DEF Along
<1>3. CASE r.token # <<>>
  <2>1. RedactStep(r.next, r.token).next
    BY <1>1, <1>3, EndSafe
  <2>2. IsLabel(r.token)
    BY <1>1, <2>1, OnlyLabels
  <2>3. PICK i \in 0..(a - 1) : WordOf(r.token, text, i, a)
    BY <1>1, <1>3, <2>2, MarkNoLabel DEF Along
  <2>4. LabelWord(SubSeq(text, i + 1, a))
    BY <2>2, <2>3 DEF WordOf, LabelWord, IsLabel, IsBearer
  <2>5. i \in 0..a /\ a \in 0..a /\ i < a /\ \A k \in (a + 1)..a : text[k] = Space
    OBVIOUS
  <2> QED
    BY <2>3, <2>4, <2>5 DEF LabelBefore, WordOf
<1> QED
  BY <1>2, <1>3

\* A space ends a word.
LEMMA AlongSpace ==
    ASSUME NEW text \in Texts, NEW a \in Nat, NEW b, b = a + 1, text[b] = Space, NEW r, Along(r, text, a)
    PROVE  Along(EndToken(r), text, b)
<1>1. Safe(r)
  BY DEF Along
<1>2. PICK e : e = EndToken(r) /\ Safe(e) /\ e.token = <<>>
  BY <1>1, EndSafe
<1>3. ASSUME e.next PROVE LabelBefore(text, b)
  <2>1. LabelBefore(text, a)
    BY <1>2, <1>3, EndLabel
  <2>2. PICK i \in 0..a, j \in 0..a :
           /\ i < j /\ LabelWord(SubSeq(text, i + 1, j))
           /\ \A k \in (i + 1)..j : text[k] # Space
           /\ i > 0 => text[i] = Space
           /\ \A k \in (j + 1)..a : text[k] = Space
    BY <2>1 DEF LabelBefore
  <2>3. i \in 0..b /\ j \in 0..b
    OBVIOUS
  <2>4. \A k \in (j + 1)..b : text[k] = Space
    <3>1. \A k \in (j + 1)..b : k = b \/ k \in (j + 1)..a
      OBVIOUS
    <3> QED
      BY <2>2, <3>1
  <2> QED
    BY <2>2, <2>3, <2>4 DEF LabelBefore
<1> QED
  BY <1>2, <1>3 DEF Along

\* An atom goes on with a word, or starts one.
LEMMA AlongAtom ==
    ASSUME NEW text \in Texts, NEW a \in Nat, a < Len(text), NEW b, b = a + 1, NEW x, x = text[b],
           x # "secret", NEW r, Along(r, text, a)
    PROVE  Along(ReadAtom(r, x), text, b)
<1>1. Safe(r) /\ r.token \in Texts
  BY DEF Along, Safe
<1>2. CASE x = Space
  BY <1>2, AlongSpace DEF ReadAtom
<1>3. CASE x # Space
  <2>1. x \in Atoms
    <3>1. b \in 1..Len(text)
      BY LenProperties DEF Texts
    <3> QED
      BY <3>1, ElementOfSeq DEF Texts
  <2>2. PICK q, old, token : q = ReadAtom(r, x) /\ old = r.token /\ token = Append(old, x)
    OBVIOUS
  <2>3. q = [token |-> token, next |-> r.next, shown |-> r.shown]
    BY <1>3, <2>2 DEF ReadAtom
  <2>4. q.token = token
    BY <2>3
  <2>5. Safe(q)
    BY <1>1, <2>1, <2>2, ReadSafe
  <2>6. PICK n : n = Len(old) /\ n \in Nat /\ old \in Texts
    BY <1>1, <2>2, LenProperties DEF Texts
  <2>7. token \in Texts /\ Len(token) = n + 1 /\ \A j \in 1..n : token[j] = old[j]
    BY <2>1, <2>2, <2>6, AppendProperties DEF Texts
  <2>8. token # <<>>
    BY <2>6, <2>7
  <2>9. CASE HasMark(old)
    <3>1. PICK k \in 1..n : old[k] = "redacted"
      BY <2>6, <2>9 DEF HasMark
    <3>2. k \in 1..(n + 1) /\ token[k] = "redacted"
      BY <2>6, <2>7, <3>1
    <3>3. HasMark(token)
      BY <2>7, <3>2 DEF HasMark
    <3> QED
      BY <2>2, <2>4, <2>5, <2>8, <3>3 DEF Along
  <2>10. ASSUME NEW i \in 0..a, old = SubSeq(text, i + 1, a), i > 0 => text[i] = Space,
                \A k \in (i + 1)..a : text[k] # Space
         PROVE  Along(q, text, b)
    <3>1. PICK first : first = i + 1 /\ first \in Nat /\ 1 <= first /\ first <= a + 1
      OBVIOUS
    <3>2. SubSeq(text, first, a + 1) = Append(SubSeq(text, first, a), text[a + 1])
      BY <3>1, PartGrows
    <3>3. token = SubSeq(text, i + 1, b)
      BY <2>2, <2>10, <3>1, <3>2
    <3>4. \A k \in (i + 1)..b : text[k] # Space
      <4>1. \A k \in (i + 1)..b : k = b \/ k \in (i + 1)..a
        OBVIOUS
      <4> QED
        BY <1>3, <2>10, <4>1
    <3>5. i \in 0..(b - 1) /\ WordOf(token, text, i, b)
      BY <2>10, <3>3, <3>4 DEF WordOf
    <3> QED
      BY <2>4, <2>5, <2>8, <3>5 DEF Along
  <2>11. CASE old = <<>>
    <3>1. PICK first : first = a + 1 /\ first \in Nat /\ 1 <= first /\ first <= a + 1
      OBVIOUS
    <3>2. SubSeq(text, first, a) = <<>>
      BY <3>1, PartGrows
    <3>3. a > 0 => text[a] = Space
      BY <2>2, <2>11 DEF Along
    <3>4. a \in 0..a /\ (a + 1)..a = {}
      OBVIOUS
    <3>5. Along(q, text, b)
      BY <2>10, <2>11, <3>1, <3>2, <3>3, <3>4
    <3> QED
      BY <2>2, <3>5
  <2>12. CASE old # <<>> /\ ~HasMark(old)
    <3>1. PICK i \in 0..(a - 1) : WordOf(old, text, i, a)
      BY <2>2, <2>12 DEF Along
    <3>2. i \in 0..a
      OBVIOUS
    <3>3. Along(q, text, b)
      BY <2>10, <3>1, <3>2 DEF WordOf
    <3> QED
      BY <2>2, <3>3
  <2> QED
    BY <2>2, <2>9, <2>11, <2>12
<1> QED
  BY <1>2, <1>3

\* What replaces a value makes a word that is no label, wherever the text goes on.
LEMMA AlongMark ==
    ASSUME NEW text, NEW a, NEW b, NEW r, Along(r, text, a)
    PROVE  Along(ReadAtom(ReadAtom(r, "redacted"), Quote), text, b)
<1>1. PICK x, y : /\ x = "redacted" /\ x \in Atoms /\ x # Space /\ x # "secret"
                  /\ y = Quote /\ y \in Atoms /\ y # Space /\ y # "secret"
  BY DEF Atoms, Space, Quote
<1>2. Safe(r) /\ r.token \in Texts
  BY DEF Along, Safe
<1>3. PICK q, p : q = ReadAtom(r, x) /\ p = ReadAtom(q, y)
  OBVIOUS
<1>4. Safe(q)
  BY <1>1, <1>2, <1>3, ReadSafe
<1>5. Safe(p)
  BY <1>1, <1>3, <1>4, ReadSafe
<1>6. PICK old, mid, token : old = r.token /\ mid = Append(old, x) /\ token = Append(mid, y)
  OBVIOUS
<1>7. q = [token |-> mid, next |-> r.next, shown |-> r.shown]
  BY <1>1, <1>3, <1>6 DEF ReadAtom
<1>8. q.token = mid
  BY <1>7
<1>9. p = [token |-> token, next |-> q.next, shown |-> q.shown]
  BY <1>1, <1>3, <1>6, <1>8 DEF ReadAtom
<1>10. p.token = token
  BY <1>9
<1>11. PICK n : n = Len(old) /\ n \in Nat /\ old \in Texts
  BY <1>2, <1>6, LenProperties DEF Texts
<1>12. mid \in Texts /\ Len(mid) = n + 1 /\ mid[n + 1] = x
  BY <1>1, <1>6, <1>11, AppendProperties DEF Texts
<1>13. PICK l : l = n + 1 /\ l \in Nat /\ l = Len(mid) /\ mid[l] = x
  BY <1>11, <1>12
<1>14. token \in Texts /\ Len(token) = l + 1 /\ \A j \in 1..l : token[j] = mid[j]
  BY <1>1, <1>6, <1>12, <1>13, AppendProperties DEF Texts
<1>15. l \in 1..l /\ l \in 1..(l + 1)
  BY <1>11, <1>13
<1>16. HasMark(token) /\ token # <<>>
  BY <1>1, <1>13, <1>14, <1>15 DEF HasMark
<1> QED
  BY <1>1, <1>3, <1>5, <1>10, <1>16 DEF Along

\* The reader after what is put out first
Starts(kept, pre) == Len(pre) <= Len(kept) /\ \A k \in 1..Len(pre) : kept[k] = pre[k]
ReaderAt(pre, r) == \A kept \in Texts : \A g : Reads(g, kept) /\ Starts(kept, pre) => g[Len(pre)] = r

\* It goes on as the reader does.
LEMMA ReaderStep ==
    ASSUME NEW pre \in Texts, NEW x \in Atoms, NEW r, ReaderAt(pre, r)
    PROVE  Append(pre, x) \in Texts /\ ReaderAt(Append(pre, x), ReadAtom(r, x))
<1>1. PICK n, more : n = Len(pre) /\ n \in Nat /\ more = Append(pre, x)
  BY LenProperties DEF Texts
<1>2. more \in Texts /\ Len(more) = n + 1 /\ more[n + 1] = x /\ \A k \in 1..n : more[k] = pre[k]
  BY <1>1, AppendProperties DEF Texts
<1>3. ASSUME NEW kept \in Texts, NEW g, Reads(g, kept), Starts(kept, more)
      PROVE  g[n + 1] = ReadAtom(r, x)
  <2>1. n + 1 <= Len(kept) /\ \A k \in 1..(n + 1) : kept[k] = more[k]
    BY <1>2, <1>3 DEF Starts
  <2>2. n \in Nat /\ n < Len(kept) /\ n + 1 \in 1..(n + 1) /\ \A k \in 1..n : k \in 1..(n + 1)
    BY <1>1, <2>1, LenProperties DEF Texts
  <2>3. Starts(kept, pre)
    BY <1>1, <1>2, <2>1, <2>2, LenProperties DEF Starts, Texts
  <2>4. g[n] = r
    BY <1>1, <1>3, <2>3 DEF ReaderAt
  <2>5. g[n + 1] = ReadAtom(g[n], kept[n + 1])
    BY <1>3, <2>2 DEF Reads
  <2>6. kept[n + 1] = x
    BY <1>2, <2>1, <2>2
  <2> QED
    BY <2>4, <2>5, <2>6
<1> QED
  BY <1>1, <1>2, <1>3 DEF ReaderAt

\* What is put out for the first atoms of a text
Tracks(pre, text, a) ==
    /\ pre \in Texts /\ Clean(pre)
    /\ \E r : ReaderAt(pre, r) /\ Along(r, text, a)

\* Nothing is put out for nothing.
LEMMA TracksStart ==
    ASSUME NEW text
    PROVE  Tracks(<<>>, text, 0)
<1>1. <<>> \in Texts /\ Clean(<<>>) /\ Len(<<>>) = 0
  BY DEF Texts, Clean
<1>2. ReaderAt(<<>>, ReadStart)
  BY <1>1 DEF ReaderAt, Reads
<1> QED
  BY <1>1, <1>2, AlongStart DEF Tracks

\* An atom is put out as it is.
LEMMA TracksAtom ==
    ASSUME NEW text \in Texts, NEW a \in Nat, a < Len(text), NEW b, b = a + 1, text[b] # "secret",
           NEW pre, Tracks(pre, text, a)
    PROVE  Tracks(Append(pre, text[b]), text, b)
<1>1. PICK r : ReaderAt(pre, r) /\ Along(r, text, a)
  BY DEF Tracks
<1>2. pre \in Texts /\ Clean(pre)
  BY DEF Tracks
<1>3. PICK x : x = text[b] /\ x \in Atoms /\ x # "secret"
  <2>1. b \in 1..Len(text)
    BY LenProperties DEF Texts
  <2> QED
    BY <2>1, ElementOfSeq DEF Texts
<1>4. ReaderAt(Append(pre, x), ReadAtom(r, x))
  BY <1>1, <1>2, <1>3, ReaderStep
<1>5. Along(ReadAtom(r, x), text, b)
  BY <1>1, <1>3, AlongAtom
<1>6. Append(pre, x) \in Texts /\ Clean(Append(pre, x))
  BY <1>2, <1>3, CleanAppended
<1> QED
  BY <1>3, <1>4, <1>5, <1>6 DEF Tracks

\* A text and a part, with an atom more
Grows(pre, text, i, a, b) ==
    /\ pre \o SubSeq(text, i, a) \in Texts
    /\ Append(pre \o SubSeq(text, i, a), text[b]) = pre \o SubSeq(text, i, b)
    /\ i = b => pre \o SubSeq(text, i, a) = pre

\* It is one part.
LEMMA JoinGrows ==
    ASSUME NEW pre \in Texts, NEW text \in Texts, NEW i \in Nat, NEW a \in Nat, NEW b \in Nat, b = a + 1,
           1 <= i, i <= b, a < Len(text)
    PROVE  Grows(pre, text, i, a, b)
<1>1. PICK old, x : old = SubSeq(text, i, a) /\ x = text[a + 1]
  OBVIOUS
<1>2. old \in Texts /\ SubSeq(text, i, a + 1) = Append(old, x) /\ (i = a + 1 => old = <<>>)
  BY <1>1, PartGrows
<1>3. x \in Atoms
  <2>1. a + 1 \in 1..Len(text)
    BY LenProperties DEF Texts
  <2> QED
    BY <1>1, <2>1, ElementOfSeq DEF Texts
<1>4. <<x>> \in Texts
  BY <1>3 DEF Texts
<1>5. pre \o old \in Texts
  BY <1>2, ConcatProperties DEF Texts
<1>6. Append(pre \o old, x) = pre \o old \o <<x>> /\ Append(old, x) = old \o <<x>>
  BY <1>2, <1>3, <1>5, AppendIsConcat DEF Texts
<1>7. pre \o old \o <<x>> = pre \o (old \o <<x>>)
  BY <1>2, <1>4, JoinedTwice
<1>8. pre \o <<>> = pre
  BY ConcatEmptySeq DEF Texts
<1> QED
  BY <1>1, <1>2, <1>5, <1>6, <1>7, <1>8 DEF Grows

\* So is a part without a secret.
LEMMA TracksPart ==
    ASSUME NEW text \in Texts, NEW i \in Nat, NEW last \in Nat, 1 <= i, i <= last, last <= Len(text),
           \A j \in i..last : text[j] # "secret", NEW pre, Tracks(pre, text, i - 1)
    PROVE  Tracks(pre \o SubSeq(text, i, last), text, last)
<1>1. PICK n : n = Len(text) /\ n \in Nat /\ last <= n
  BY LenProperties DEF Texts
<1>2. pre \in Texts
  BY DEF Tracks
<1> DEFINE P == {k \in Nat : i <= k + 1 /\ k <= last => Tracks(pre \o SubSeq(text, i, k), text, k)}
<1>3. ASSUME NEW k \in Nat, i = k + 1, k < n PROVE Tracks(pre \o SubSeq(text, i, k), text, k)
  <2>1. k = i - 1 /\ 1 <= i /\ i <= i /\ k < Len(text)
    BY <1>1, <1>3
  <2>2. Grows(pre, text, i, k, i)
    BY <1>2, <1>3, <2>1, JoinGrows
  <2>3. pre \o SubSeq(text, i, k) = pre
    BY <2>2 DEF Grows
  <2> QED
    BY <2>1, <2>3
<1>4. 0 \in P
  <2>1. i <= 0 + 1 => i = 0 + 1 /\ 0 < n
    BY <1>1
  <2> QED
    BY <1>3, <2>1
<1>5. ASSUME NEW k \in Nat, k \in P PROVE k + 1 \in P
  <2>1. PICK b : b = k + 1 /\ b \in Nat
    OBVIOUS
  <2>2. SUFFICES ASSUME i <= b + 1, b <= last PROVE Tracks(pre \o SubSeq(text, i, b), text, b)
    BY <2>1
  <2>3. CASE i = b + 1
    BY <1>1, <1>3, <2>1, <2>2, <2>3
  <2>4. CASE i <= b
    <3>1. i <= k + 1 /\ k <= last /\ k < Len(text) /\ b \in i..last
      BY <1>1, <2>1, <2>2, <2>4
    <3>2. PICK shown : shown = pre \o SubSeq(text, i, k) /\ Tracks(shown, text, k)
      BY <1>5, <3>1
    <3>3. Append(shown, text[b]) = pre \o SubSeq(text, i, b)
      <4>1. i <= k + 1 /\ k < Len(text)
        BY <3>1
      <4> HIDE DEF P
      <4>2. Grows(pre, text, i, k, b)
        BY <1>2, <2>1, <2>4, <4>1, JoinGrows
      <4> QED
        BY <3>2, <4>2 DEF Grows
    <3>4. Tracks(Append(shown, text[b]), text, b)
      <4>1. text[b] # "secret"
        BY <3>1
      <4> HIDE DEF P
      <4> QED
        BY <2>1, <3>1, <3>2, <4>1, TracksAtom
    <3> QED
      BY <3>3, <3>4
  <2> QED
    BY <2>1, <2>2, <2>3, <2>4
<1>6. Nat \subseteq P
  <2> HIDE DEF P
  <2> QED
    BY <1>4, <1>5, NatInductive
<1>7. last \in P
  BY <1>6
<1> QED
  BY <1>7

\* What replaces a value may stand for any part of a text.
LEMMA TracksMark ==
    ASSUME NEW text, NEW a, NEW b, NEW pre, Tracks(pre, text, a)
    PROVE  Tracks(pre \o Mark, text, b)
<1>1. PICK x, y : /\ x = "redacted" /\ x \in Atoms /\ x # "secret"
                  /\ y = Quote /\ y \in Atoms /\ y # "secret"
  BY DEF Atoms, Quote
<1>2. PICK r : ReaderAt(pre, r) /\ Along(r, text, a)
  BY DEF Tracks
<1>3. pre \in Texts /\ Clean(pre)
  BY DEF Tracks
<1>4. PICK mid : mid = Append(pre, x) /\ mid \in Texts /\ Clean(mid) /\ ReaderAt(mid, ReadAtom(r, x))
  BY <1>1, <1>2, <1>3, ReaderStep, CleanAppended
<1>5. PICK q : q = ReadAtom(r, x) /\ ReaderAt(mid, q)
  BY <1>4
<1>6. PICK all : all = Append(mid, y) /\ all \in Texts /\ Clean(all) /\ ReaderAt(all, ReadAtom(q, y))
  BY <1>1, <1>4, <1>5, ReaderStep, CleanAppended
<1>7. Along(ReadAtom(q, y), text, b)
  BY <1>1, <1>2, <1>5, AlongMark
<1>8. all = pre \o Mark
  <2>1. <<x>> \in Texts /\ <<y>> \in Texts
    BY <1>1 DEF Texts
  <2>2. mid = pre \o <<x>> /\ all = mid \o <<y>>
    BY <1>1, <1>3, <1>4, <1>6, AppendIsConcat DEF Texts
  <2>3. pre \o <<x>> \o <<y>> = pre \o (<<x>> \o <<y>>)
    BY <1>3, <2>1, JoinedTwice
  <2>4. <<x>> \o <<y>> = Append(<<x>>, y)
    BY <1>1, <2>1, AppendIsConcat DEF Texts
  <2>5. Append(<<x>>, y) = <<x, y>>
    BY <1>1, TwoAtoms
  <2>6. Mark = <<x, y>>
    BY <1>1 DEF Mark
  <2> QED
    BY <2>2, <2>3, <2>4, <2>5, <2>6
<1> QED
  BY <1>6, <1>7, <1>8 DEF Tracks

\* A secret that follows its lead: the first p atoms stand before it, and up to z no quote
LeadText(text, p, z) ==
    /\ p \in Nat /\ z \in Nat /\ p + 2 <= z /\ z <= Len(text)
    /\ text[p + 1] = Space /\ text[p + 2] \in {"label", "bearer", "sk-"}
    /\ \A j \in (p + 1)..z : text[j] # Quote
    /\ \A j \in 1..p : text[j] # "secret"
    /\ \A j \in (z + 1)..Len(text) : text[j] # "secret"

\* The value of a key before it starts before it, and ends before it or after it.
LEMMA RangeBefore ==
    ASSUME NEW text \in Texts, NEW p, NEW z, LeadText(text, p, z), NEW i \in 1..p,
           NEW keyEnd, NEW colon, NEW open, NEW end, RangeAt(text, i, keyEnd, colon, open, end)
    PROVE  open <= p /\ (end <= p \/ end > z)
<1>1. /\ p \in Nat /\ z \in Nat /\ p + 2 <= z /\ text[p + 1] = Space
      /\ text[p + 2] # Space /\ text[p + 2] # Colon
      /\ \A j \in (p + 1)..z : text[j] # Quote
  BY DEF LeadText, Space, Colon
<1>2. /\ keyEnd \in Nat /\ colon \in Nat /\ open \in Nat /\ end \in Nat
      /\ i < keyEnd /\ keyEnd < colon /\ colon < open /\ open < end
      /\ text[keyEnd] = Quote /\ text[colon] = Colon /\ text[open] = Quote /\ text[end] = Quote
      /\ \A k \in (i + 1)..(keyEnd - 1) : text[k] \in Keys \cup {Colon}
      /\ \A k \in (keyEnd + 1)..(colon - 1) : text[k] = Space
      /\ \A k \in (colon + 1)..(open - 1) : text[k] = Space
  BY DEF RangeAt
<1>3. PICK first, next : first = p + 1 /\ next = p + 2 /\ first \in Nat /\ next \in Nat
  BY <1>1
<1>4. ASSUME NEW k \in Nat, text[k] = Quote PROVE k <= p \/ k > z
  BY <1>1, <1>4
<1>5. Space \notin Keys \cup {Colon} /\ Space # Colon
  BY DEF Space, Keys, Colon
<1>6. keyEnd <= p
  <2>1. SUFFICES ASSUME keyEnd > z PROVE FALSE
    BY <1>2, <1>4
  <2>2. first \in (i + 1)..(keyEnd - 1)
    BY <1>1, <1>2, <1>3, <2>1
  <2> QED
    BY <1>1, <1>2, <1>3, <1>5, <2>2
<1>7. colon <= p
  <2>1. SUFFICES ASSUME colon > p PROVE FALSE
    BY <1>1, <1>2
  <2>2. colon # first /\ colon # next
    BY <1>1, <1>2, <1>3, <1>5
  <2>3. next \in (keyEnd + 1)..(colon - 1)
    BY <1>1, <1>2, <1>3, <1>6, <2>1, <2>2
  <2> QED
    BY <1>1, <1>2, <1>3, <2>3
<1>8. open <= p
  <2>1. SUFFICES ASSUME open > z PROVE FALSE
    BY <1>2, <1>4
  <2>2. next \in (colon + 1)..(open - 1)
    BY <1>1, <1>2, <1>3, <1>7, <2>1
  <2> QED
    BY <1>1, <1>2, <1>3, <2>2
<1> QED
  BY <1>2, <1>4, <1>8

\* Where the loop is: before the lead, in it or in the secret, or after it; a value that
\* goes on over the secret hides it.
Before(s, text, p) == s.index >= 1 /\ s.index <= p /\ Tracks(s.shown, text, s.index - 1)
Within(s, text, p, z) ==
    /\ p < s.index /\ s.index <= z
    /\ \E pre : Tracks(pre, text, p) /\ s.shown = pre \o SubSeq(text, p + 1, s.index - 1)
Behind(shown, text, p, z) ==
    \E pre, more \in Texts :
        Tracks(pre, text, p) /\ Clean(more) /\ shown = pre \o SubSeq(text, p + 1, z) \o more
Passed(s, text, p, z) ==
    s.index > z /\ s.shown \in Texts /\ (Clean(s.shown) \/ Behind(s.shown, text, p, z))
LoopAt(s, text, p, z) ==
    s.index \in Nat /\ (Before(s, text, p) \/ Within(s, text, p, z) \/ Passed(s, text, p, z))

\* Before the lead
LEMMA BeforeStep ==
    ASSUME NEW text \in Texts, NEW p, NEW z, LeadText(text, p, z), NEW s, s.index \in Nat, Before(s, text, p),
           NEW after, after = RedactJsonAt(text, s)
    PROVE  LoopAt(after, text, p, z) /\ after.index > s.index
<1>1. PICK n : /\ n = Len(text) /\ n \in Nat /\ p \in Nat /\ z \in Nat /\ p + 2 <= z /\ z <= n
               /\ \A j \in 1..p : text[j] # "secret"
  BY LenProperties DEF LeadText, Texts
<1>2. PICK i : i = s.index /\ i \in 1..Len(text) /\ i \in 1..p
  BY <1>1 DEF Before
<1>3. Tracks(s.shown, text, i - 1) /\ s.shown \in Texts
  BY <1>2 DEF Before, Tracks
<1>4. ASSUME NEW b \in Nat, b <= p, Tracks(after.shown, text, b), after.index = b + 1
      PROVE  LoopAt(after, text, p, z)
  <2>1. CASE b < p
    <3>1. b + 1 >= 1 /\ b + 1 <= p /\ (b + 1) - 1 = b /\ b + 1 \in Nat
      BY <1>1, <2>1
    <3> QED
      BY <1>4, <3>1 DEF LoopAt, Before
  <2>2. CASE b = p
    <3>1. PICK first : first = p + 1 /\ first \in Nat /\ 1 <= first /\ p < first /\ first <= z /\ p < Len(text)
      BY <1>1
    <3>2. PICK pre : pre = after.shown /\ pre \in Texts /\ Tracks(pre, text, p)
      BY <1>4, <2>2 DEF Tracks
    <3>3. pre \o SubSeq(text, first, p) = pre
      <4>1. Grows(pre, text, first, p, first)
        BY <1>1, <3>1, <3>2, JoinGrows
      <4> QED
        BY <4>1 DEF Grows
    <3>4. after.index = first /\ first - 1 = p
      BY <1>1, <1>4, <2>2, <3>1
    <3>5. Within(after, text, p, z)
      BY <3>1, <3>2, <3>3, <3>4 DEF Within
    <3> QED
      BY <3>1, <3>4, <3>5 DEF LoopAt
  <2> QED
    BY <1>1, <1>4, <2>1, <2>2
<1>5. CASE PlainTurn(text, s, i, after)
  <2>1. after.index = i + 1 /\ after.shown = Append(s.shown, text[i])
    BY <1>5 DEF PlainTurn
  <2>2. PICK a : a = i - 1 /\ a \in Nat /\ a < Len(text) /\ i = a + 1
    BY <1>1, <1>2
  <2>3. Tracks(Append(s.shown, text[i]), text, i)
    BY <1>1, <1>2, <1>3, <2>2, TracksAtom
  <2>4. i \in Nat /\ i <= p /\ i + 1 > i
    BY <1>1, <1>2
  <2> QED
    BY <1>2, <1>4, <2>1, <2>3, <2>4
<1>6. CASE ValueTurn(text, s, i, after)
  <2>1. PICK keyEnd, colon, open, end :
           /\ RangeAt(text, i, keyEnd, colon, open, end)
           /\ after.index = end + 1 /\ after.shown = s.shown \o SubSeq(text, i, open) \o Mark
    BY <1>6 DEF ValueTurn
  <2>2. open <= p /\ (end <= p \/ end > z)
    BY <1>2, <2>1, RangeBefore
  <2>3. open \in Nat /\ end \in Nat /\ i <= open /\ open < end /\ end <= n
    BY <1>1, <1>2, <2>1 DEF RangeAt
  <2>4. open <= Len(text) /\ (\A j \in i..open : text[j] # "secret") /\ i \in Nat /\ 1 <= i
    BY <1>1, <1>2, <2>2, <2>3
  <2>5. Tracks(s.shown \o SubSeq(text, i, open), text, open)
    BY <1>3, <2>3, <2>4, TracksPart
  <2>6. Tracks(after.shown, text, end)
    BY <2>1, <2>5, TracksMark
  <2>7. end + 1 > i /\ end + 1 \in Nat
    BY <1>2, <2>3
  <2>8. CASE end <= p
    BY <1>2, <1>4, <2>1, <2>3, <2>6, <2>7, <2>8
  <2>9. CASE end > z
    <3>1. after.index > z
      BY <1>1, <2>1, <2>3, <2>9
    <3>2. Passed(after, text, p, z)
      BY <2>6, <3>1 DEF Passed, Tracks
    <3> QED
      BY <1>2, <2>1, <2>7, <3>2 DEF LoopAt
  <2> QED
    BY <2>2, <2>8, <2>9
<1> QED
  BY <1>2, <1>5, <1>6, TurnIs

\* In the lead or in the secret
LEMMA WithinStep ==
    ASSUME NEW text \in Texts, NEW p, NEW z, LeadText(text, p, z), NEW s, s.index \in Nat, Within(s, text, p, z),
           NEW after, after = RedactJsonAt(text, s)
    PROVE  LoopAt(after, text, p, z) /\ after.index > s.index
<1>1. PICK n : /\ n = Len(text) /\ n \in Nat /\ p \in Nat /\ z \in Nat /\ p + 2 <= z /\ z <= n
               /\ \A j \in (p + 1)..z : text[j] # Quote
  BY LenProperties DEF LeadText, Texts
<1>2. PICK i : i = s.index /\ i \in 1..Len(text) /\ i \in (p + 1)..z
  BY <1>1 DEF Within
<1>3. PICK pre : Tracks(pre, text, p) /\ s.shown = pre \o SubSeq(text, p + 1, i - 1)
  BY <1>2 DEF Within
<1>4. pre \in Texts
  BY <1>3 DEF Tracks
<1>5. PlainTurn(text, s, i, after)
  <2>1. text[i] # Quote
    BY <1>1, <1>2
  <2>2. ~ValueTurn(text, s, i, after)
    BY <2>1 DEF ValueTurn
  <2> QED
    BY <1>2, <2>2, TurnIs
<1>6. after.index = i + 1 /\ after.shown = Append(s.shown, text[i])
  BY <1>5 DEF PlainTurn
<1>7. PICK first, a : /\ first = p + 1 /\ first \in Nat /\ 1 <= first
                      /\ a = i - 1 /\ a \in Nat /\ a < Len(text) /\ first <= a + 1 /\ a + 1 = i
  BY <1>1, <1>2
<1>8. PICK part : part = SubSeq(text, first, i)
  OBVIOUS
<1>9. after.shown = pre \o part
  <2>1. Grows(pre, text, first, a, i)
    BY <1>2, <1>4, <1>7, JoinGrows
  <2> QED
    BY <1>3, <1>6, <1>7, <1>8, <2>1 DEF Grows
<1>10. part \in Texts
  <2>1. SubSeq(text, first, a + 1) \in Texts
    BY <1>7, PartGrows
  <2> QED
    BY <1>7, <1>8, <2>1
<1>11. CASE i < z
  <2>1. i + 1 \in Nat /\ p < i + 1 /\ i + 1 <= z /\ (i + 1) - 1 = i
    BY <1>1, <1>2, <1>11
  <2>2. Within(after, text, p, z)
    BY <1>3, <1>6, <1>7, <1>8, <1>9, <2>1 DEF Within
  <2> QED
    BY <1>2, <1>6, <2>1, <2>2 DEF LoopAt
<1>12. CASE i = z
  <2>1. pre \o part \in Texts /\ pre \o part \o <<>> = pre \o part /\ <<>> \in Texts /\ Clean(<<>>)
    <3>1. PICK all : all = pre \o part /\ all \in Texts
      BY <1>4, <1>10, ConcatProperties DEF Texts
    <3>2. all \o <<>> = all
      BY <3>1, ConcatEmptySeq DEF Texts
    <3>3. <<>> \in Texts /\ Clean(<<>>)
      BY DEF Texts, Clean
    <3> QED
      BY <3>1, <3>2, <3>3
  <2>2. Behind(after.shown, text, p, z)
    BY <1>3, <1>4, <1>7, <1>8, <1>9, <1>12, <2>1 DEF Behind
  <2>3. after.index > z /\ after.index \in Nat /\ after.index > i
    BY <1>1, <1>6, <1>12
  <2> QED
    BY <1>2, <1>9, <2>1, <2>2, <2>3 DEF LoopAt, Passed
<1> QED
  BY <1>1, <1>2, <1>11, <1>12

\* After the secret
LEMMA PassedStep ==
    ASSUME NEW text \in Texts, NEW p, NEW z, LeadText(text, p, z), NEW s, s.index \in Nat, Passed(s, text, p, z),
           NEW after, after = RedactJsonAt(text, s)
    PROVE  /\ LoopAt(after, text, p, z)
           /\ after.index > s.index \/ (s.index > Len(text) /\ after.index = s.index)
<1>1. p \in Nat /\ z \in Nat /\ p + 2 <= z /\ z <= Len(text) /\ \A j \in (z + 1)..Len(text) : text[j] # "secret"
  BY DEF LeadText
<1>2. s.index > z /\ s.shown \in Texts /\ (Clean(s.shown) \/ Behind(s.shown, text, p, z))
  BY DEF Passed
<1>3. /\ after.index \in Nat /\ after.index > z /\ Adds(s, after)
      /\ after.index > s.index \/ (s.index > Len(text) /\ after.index = s.index)
  BY <1>1, <1>2, TurnAfter
<1>4. after.shown \in Texts /\ (Clean(s.shown) => Clean(after.shown))
  BY <1>2, <1>3, AddsClean
<1>5. ASSUME Behind(s.shown, text, p, z) PROVE Behind(after.shown, text, p, z)
  <2>1. PICK pre, more \in Texts :
           Tracks(pre, text, p) /\ Clean(more) /\ s.shown = pre \o SubSeq(text, p + 1, z) \o more
    BY <1>5 DEF Behind
  <2>2. PICK rest \in Texts : Clean(rest) /\ after.shown = s.shown \o rest
    BY <1>3 DEF Adds
  <2>3. pre \in Texts
    BY <2>1 DEF Tracks
  <2>4. PICK part : part = SubSeq(text, p + 1, z) /\ part \in Texts
    <3>1. PICK first, a : /\ first = p + 1 /\ first \in Nat /\ 1 <= first
                          /\ a = z - 1 /\ a \in Nat /\ a < Len(text) /\ first <= a + 1 /\ a + 1 = z
      BY <1>1, LenProperties DEF Texts
    <3>2. SubSeq(text, first, a + 1) \in Texts
      BY <3>1, PartGrows
    <3> QED
      BY <3>1, <3>2
  <2>5. PICK head : head = pre \o part /\ head \in Texts
    BY <2>3, <2>4, ConcatProperties DEF Texts
  <2>6. PICK tail : tail = more \o rest /\ tail \in Texts /\ Clean(tail)
    BY <2>1, <2>2, CleanJoined
  <2>7. head \o more \o rest = head \o tail
    BY <2>5, <2>6, JoinedTwice, ZenonT(60)
  <2>8. after.shown = pre \o SubSeq(text, p + 1, z) \o tail
    BY <2>1, <2>2, <2>4, <2>5, <2>7
  <2> QED
    BY <2>1, <2>3, <2>6, <2>8 DEF Behind
<1> QED
  BY <1>2, <1>3, <1>4, <1>5 DEF LoopAt, Passed

\* The loop ends after the secret.
LEMMA LoopEnds ==
    ASSUME NEW text \in Texts, NEW p, NEW z, LeadText(text, p, z), NEW kept, kept = RedactJsonStringValues(text)
    PROVE  kept \in Texts /\ (Clean(kept) \/ Behind(kept, text, p, z))
<1>1. PICK n : n = Len(text) /\ n \in Nat /\ p \in Nat /\ z \in Nat /\ p + 2 <= z /\ z <= n
  BY LenProperties DEF LeadText, Texts
<1>2. PICK g : /\ kept = g[n].shown
               /\ g[0] = [index |-> 1, shown |-> <<>>]
               /\ \A k \in Nat : k < n => g[k + 1] = RedactJsonAt(text, g[k])
  BY <1>1, Turns
<1> DEFINE Ok(s, k) == LoopAt(s, text, p, z) /\ (s.index > k \/ s.index > n)
           P == {k \in Nat : k <= n => Ok(g[k], k)}
<1>3. 0 \in P
  <2>1. PICK s : s = g[0] /\ s.index = 1 /\ s.shown = <<>>
    BY <1>2
  <2>2. Tracks(<<>>, text, 0)
    BY TracksStart
  <2>3. CASE p > 0
    <3>1. s.index >= 1 /\ s.index <= p /\ s.index - 1 = 0 /\ s.index \in Nat
      BY <1>1, <2>1, <2>3
    <3>2. LoopAt(s, text, p, z)
      BY <2>1, <2>2, <3>1 DEF LoopAt, Before
    <3> QED
      BY <2>1, <3>2
  <2>4. CASE p = 0
    <3>8. <<>> \in Texts
      BY DEF Texts
    <3>9. PICK e : e = <<>> /\ e \in Texts
      BY <3>8
    <3>10. PICK first, a : first = 1 /\ a = 0
      OBVIOUS
    <3>1. e = <<>> /\ e \in Texts /\ first = 1 /\ a = 0 /\ first \in Nat /\ a \in Nat
      BY <3>9, <3>10
    <3>2. 1 <= first /\ first <= first /\ a < Len(text) /\ first = a + 1
      BY <1>1, <3>1
    <3>3. Grows(e, text, first, a, first)
      BY <3>1, <3>2, JoinGrows
    <3>4. e \o SubSeq(text, first, a) = e
      BY <3>3 DEF Grows
    <3>5. p < s.index /\ s.index <= z /\ p + 1 = first /\ s.index - 1 = a /\ s.index \in Nat
      BY <1>1, <2>1, <2>4, <3>1
    <3>6. Tracks(e, text, p) /\ s.shown = e \o SubSeq(text, p + 1, s.index - 1)
      BY <2>1, <2>2, <2>4, <3>1, <3>4, <3>5
    <3>7. LoopAt(s, text, p, z)
      BY <3>5, <3>6 DEF LoopAt, Within
    <3> QED
      BY <2>1, <3>7
  <2> QED
    BY <1>1, <2>3, <2>4
<1>4. ASSUME NEW s, NEW k \in Nat, Ok(s, k), NEW after, after = RedactJsonAt(text, s) PROVE Ok(after, k + 1)
  <2>1. LoopAt(s, text, p, z) /\ s.index \in Nat /\ (s.index > k \/ s.index > n)
    BY <1>4 DEF LoopAt
  <2> HIDE DEF Ok
  <2>2. LoopAt(after, text, p, z) /\ (after.index > s.index \/ (s.index > Len(text) /\ after.index = s.index))
    <3>1. CASE Before(s, text, p)
      BY <1>4, <2>1, <3>1, BeforeStep
    <3>2. CASE Within(s, text, p, z)
      BY <1>4, <2>1, <3>2, WithinStep
    <3>3. CASE Passed(s, text, p, z)
      BY <1>4, <2>1, <3>3, PassedStep
    <3> QED
      BY <2>1, <3>1, <3>2, <3>3 DEF LoopAt
  <2>3. after.index \in Nat
    BY <2>2 DEF LoopAt
  <2>4. after.index > k + 1 \/ after.index > n
    BY <1>1, <2>1, <2>2, <2>3
  <2> QED
    BY <2>2, <2>4 DEF Ok
<1>5. ASSUME NEW k \in Nat, k \in P PROVE k + 1 \in P
  <2>1. SUFFICES ASSUME k + 1 <= n PROVE Ok(g[k + 1], k + 1)
    OBVIOUS
  <2>2. PICK s : s = g[k]
    OBVIOUS
  <2>3. Ok(s, k)
    BY <1>1, <1>5, <2>1, <2>2
  <2> HIDE DEF Ok, P
  <2>5. k < n
    BY <1>1, <2>1
  <2>4. g[k + 1] = RedactJsonAt(text, s)
    BY <1>2, <2>2, <2>5
  <2> QED
    BY <1>4, <2>3, <2>4
<1>6. Nat \subseteq P
  <2> HIDE DEF P
  <2> QED
    BY <1>3, <1>5, NatInductive
<1>7. PICK s : s = g[n] /\ Ok(s, n)
  BY <1>1, <1>6
<1>8. s.index > n /\ s.index \in Nat /\ LoopAt(s, text, p, z)
  BY <1>1, <1>7 DEF LoopAt
<1>9. ~Before(s, text, p) /\ ~Within(s, text, p, z)
  BY <1>1, <1>8 DEF Before, Within
<1>10. Passed(s, text, p, z)
  BY <1>8, <1>9 DEF LoopAt
<1> QED
  BY <1>2, <1>7, <1>10 DEF Passed

-----------------------------------------------------------------------------
(* Messages *)

\* Where the parts of a text stand
Joins(ab, a, b, k, l) == ab = a \o b /\ k = Len(a) /\ l = Len(b)

\* Two texts joined stand one after the other.
LEMMA JoinedStands ==
    ASSUME NEW text, NEW at \in Nat, NEW a \in Texts, NEW b \in Texts, NEW ab, NEW k, NEW l,
           Joins(ab, a, b, k, l), StandsAt(text, at, ab)
    PROVE  /\ k \in Nat /\ l \in Nat /\ Len(ab) = k + l
           /\ StandsAt(text, at, a) /\ StandsAt(text, at + k, b)
<1>1. k \in Nat /\ l \in Nat
  BY LenProperties DEF Texts, Joins
<1>2. /\ Len(ab) = k + l
      /\ \A i \in 1..(k + l) : ab[i] = IF i <= k THEN a[i] ELSE b[i - k]
  BY Joined DEF Texts, Joins
<1>3. \A i \in 1..(k + l) : text[at + i] = IF i <= k THEN a[i] ELSE b[i - k]
  BY <1>2 DEF StandsAt
<1>4. ASSUME NEW i \in 1..k PROVE text[at + i] = a[i]
  <2>1. i \in 1..(k + l) /\ i <= k
    BY <1>1
  <2> QED
    BY <1>3, <2>1
<1>5. ASSUME NEW i \in 1..l PROVE text[(at + k) + i] = b[i]
  <2>1. k + i \in 1..(k + l) /\ ~(k + i <= k) /\ (k + i) - k = i /\ at + (k + i) = (at + k) + i
    BY <1>1
  <2>2. PICK j : j = k + i
    OBVIOUS
  <2> QED
    BY <1>3, <2>1, <2>2
<1> QED
  BY <1>1, <1>2, <1>4, <1>5 DEF StandsAt, Joins

\* A text in five parts, and where they end
Sizes(a, b, c, d, p, v, y, z) == p = Len(a) /\ v = p + Len(b) /\ y = v + Len(c) /\ z = y + Len(d)
Whole(text, a, b, c, d, e) == text = a \o (b \o c \o d) \o e

\* The parts of a message stand where their lengths say.
LEMMA PartsStand ==
    ASSUME NEW a \in Texts, NEW b \in Texts, NEW c \in Texts, NEW d \in Texts, NEW e \in Texts,
           NEW text, Whole(text, a, b, c, d, e),
           NEW p, NEW v, NEW y, NEW z, Sizes(a, b, c, d, p, v, y, z)
    PROVE  /\ p \in Nat /\ v \in Nat /\ y \in Nat /\ z \in Nat
           /\ text \in Texts /\ Len(text) = z + Len(e)
           /\ StandsAt(text, 0, a) /\ StandsAt(text, p, b) /\ StandsAt(text, v, c)
           /\ StandsAt(text, y, d) /\ StandsAt(text, z, e)
<1>1. PICK l, n, t, q, r : r = Len(a) /\ l = Len(b) /\ n = Len(c) /\ t = Len(d) /\ q = Len(e)
  OBVIOUS
<1>2. PICK bc : bc = b \o c /\ bc \in Texts
  BY ConcatProperties DEF Texts
<1>3. PICK w : w = bc \o d /\ w \in Texts
  BY <1>2, ConcatProperties DEF Texts
<1>4. PICK aw : aw = a \o w /\ aw \in Texts
  BY <1>3, ConcatProperties DEF Texts
<1>5. text = aw \o e /\ text \in Texts
  BY <1>2, <1>3, <1>4, ConcatProperties DEF Texts, Whole
<1>6. PICK h, k, m : h = Len(aw) /\ k = Len(w) /\ m = Len(bc)
  OBVIOUS
<1>7. PICK o : o = 0 /\ o \in Nat
  OBVIOUS
<1>21. o \in Nat
  BY <1>7
<1>20. /\ Joins(text, aw, e, h, q) /\ Joins(aw, a, w, r, k)
       /\ Joins(w, bc, d, m, t) /\ Joins(bc, b, c, l, n)
  BY <1>1, <1>2, <1>3, <1>4, <1>5, <1>6 DEF Joins
<1>8. StandsAt(text, o, text)
  <2>1. \A i \in 1..Len(text) : 0 + i = i
    BY <1>5, LenProperties DEF Texts
  <2> QED
    BY <1>5, <1>7, <2>1 DEF StandsAt
<1>9. /\ h \in Nat /\ q \in Nat /\ Len(text) = h + q
      /\ StandsAt(text, o, aw) /\ StandsAt(text, o + h, e)
  BY <1>4, <1>7, <1>8, <1>20, JoinedStands
<1>10. /\ p \in Nat /\ k \in Nat /\ Len(aw) = p + k
       /\ StandsAt(text, o, a) /\ StandsAt(text, o + p, w)
  <2>1. StandsAt(text, o, aw) /\ Joins(aw, a, w, r, k) /\ w \in Texts
    BY <1>3, <1>9, <1>20
  <2>2. /\ r \in Nat /\ k \in Nat /\ Len(aw) = r + k
        /\ StandsAt(text, o, a) /\ StandsAt(text, o + r, w)
    BY <1>21, <2>1, JoinedStands
  <2> QED
    BY <1>1, <2>2 DEF Sizes
<1>11. o + p = p /\ o + h = h /\ h = p + k
  BY <1>6, <1>7, <1>9, <1>10
<1>12. StandsAt(text, p, w)
  BY <1>10, <1>11
<1>13. /\ m \in Nat /\ t \in Nat /\ Len(w) = m + t
       /\ StandsAt(text, p, bc) /\ StandsAt(text, p + m, d)
  BY <1>2, <1>10, <1>12, <1>20, JoinedStands
<1>14. /\ l \in Nat /\ n \in Nat /\ Len(bc) = l + n
       /\ StandsAt(text, p, b) /\ StandsAt(text, p + l, c)
  BY <1>10, <1>13, <1>20, JoinedStands
<1>15. v \in Nat /\ y \in Nat /\ z \in Nat /\ v = p + l /\ y = p + m /\ z = h
  BY <1>1, <1>6, <1>10, <1>11, <1>13, <1>14, SMTT(30) DEF Sizes
<1>16. Len(text) = z + q
  BY <1>9, <1>15
<1> QED
  BY <1>1, <1>5, <1>7, <1>9, <1>10, <1>11, <1>13, <1>14, <1>15, <1>16

\* A key of one atom
LEMMA KeyCloses ==
    ASSUME NEW text \in Texts, NEW word \in Nat, 1 <= word, word + 1 <= Len(text),
           text[word] \in {"label", "field"}, text[word + 1] = Quote
    PROVE  /\ ClosingJsonQuote(text, word) = word + 1
           /\ SensitiveJsonKey(SubSeq(text, word, word))
<1>1. Len(text) \in Nat /\ DOMAIN text = 1..Len(text)
  BY LenProperties DEF Texts
<1>2. ClosingJsonQuote(text, word) = word + 1
  <2>1. text[word] # Quote /\ text[word] # Backslash
    BY DEF Quote, Backslash
  <2>2. PICK keyEnd : keyEnd = word + 1
    OBVIOUS
  <2>3. Escapes(text, word, keyEnd) = 0
    <3>1. word <= word
      OBVIOUS
    <3> QED
      BY <2>1, <2>2, <3>1, EscapesStep
  <2>4. word \in Nat \ {0} /\ keyEnd \in word..Len(text)
    BY <1>1, <2>2
  <2>5. Escapes(text, word, keyEnd) % 2 = 0
    BY <2>3
  <2>6. \A i \in word..(keyEnd - 1) : i = word
    BY <2>2
  <2>7. \A i \in word..(keyEnd - 1) : text[i] = Quote => Escapes(text, word, i) % 2 # 0
    BY <2>1, <2>6
  <2>8. text[keyEnd] = Quote
    BY <2>2
  <2>9. ClosingJsonQuote(text, word) = keyEnd
    BY <2>4, <2>5, <2>7, <2>8, ClosingIs
  <2> QED
    BY <2>2, <2>9
<1>3. SensitiveJsonKey(SubSeq(text, word, word))
  <2>2. word \in 1..(Len(text) + 1) /\ word \in (word - 1)..Len(text)
    BY <1>1
  <2>3. PICK part : part = SubSeq(text, word, word)
    OBVIOUS
  <2>4. /\ part \in Texts /\ Len(part) = IF word <= word THEN word - word + 1 ELSE 0
        /\ \A i \in 1..(word - word + 1) : part[i] = text[word + i - 1]
    BY <2>2, <2>3, SubSeqProperties DEF Texts
  <2>5. word - word + 1 = 1 /\ word + 1 - 1 = word /\ 1 \in 1..(word - word + 1) /\ word <= word
    OBVIOUS
  <2>6. Len(part) = 1 /\ part[1] = text[word]
    BY <2>4, <2>5
  <2>7. part = <<text[word]>>
    BY <2>4, <2>6 DEF Texts
  <2>8. CASE text[word] = "field"
    BY <2>3, <2>7, <2>8 DEF SensitiveJsonKey
  <2>9. CASE text[word] = "label"
    <3>1. SubSeq(part, 1, 1) = <<part[1]>>
      <4>1. part \in Texts /\ 1 <= Len(part)
        BY <2>4, <2>6
      <4> QED
        BY <4>1, FirstAtom
    <3>2. 1 \in 0..Len(part) /\ \A i \in (1 + 1)..Len(part) : part[i] = Colon
      BY <2>6
    <3>3. SensitiveLabelWithoutValue(part)
      BY <2>6, <2>9, <3>1, <3>2 DEF SensitiveLabelWithoutValue
    <3> QED
      BY <2>3, <3>3 DEF SensitiveJsonKey
  <2> QED
    BY <2>8, <2>9
<1> QED
  BY <1>2, <1>3

\* The string value after a key
KeyedValue(text, key, word, keyEnd, colon, open, n, close) ==
    /\ key \in Nat /\ word \in Nat /\ keyEnd \in Nat /\ colon \in Nat /\ open \in Nat /\ n \in Nat /\ close \in Nat
    /\ 1 <= key /\ word = key + 1 /\ keyEnd = key + 2 /\ keyEnd < colon /\ colon < open /\ close = (open + 1) + n
    /\ close <= Len(text)
    /\ text[key] = Quote /\ text[word] \in {"label", "field"} /\ text[keyEnd] = Quote
    /\ SkipSpace(text, keyEnd + 1) = colon /\ text[colon] = Colon
    /\ SkipSpace(text, colon + 1) = open /\ text[open] = Quote
    /\ Spans(text, open, n) /\ text[close] = Quote

\* A keyed value is one that redact_json_string_values finds.
LEMMA ValueStands ==
    ASSUME NEW text \in Texts, NEW key, NEW word, NEW keyEnd, NEW colon, NEW open, NEW n, NEW close,
           KeyedValue(text, key, word, keyEnd, colon, open, n, close)
    PROVE  SensitiveRange(text, key) = {[start |-> open + 1, end |-> close]}
<1> USE DEF KeyedValue
<1>1. Len(text) \in Nat /\ DOMAIN text = 1..Len(text)
  BY LenProperties DEF Texts
<1>2. ClosingJsonQuote(text, word) = keyEnd /\ SensitiveJsonKey(SubSeq(text, word, keyEnd - 1))
  <2>1. 1 <= word /\ word + 1 = keyEnd /\ keyEnd <= Len(text) /\ keyEnd - 1 = word
    BY <1>1
  <2> QED
    BY <2>1, KeyCloses
<1>4. AtomAt(text, colon) = Colon /\ AtomAt(text, open) = Quote
  <2>1. colon \in DOMAIN text /\ open \in DOMAIN text
    BY <1>1
  <2> QED
    BY <2>1 DEF AtomAt
<1>5. ClosingJsonQuote(text, open + 1) = close
  <2>1. PICK from : from = open + 1 /\ from \in Nat \ {0} /\ close \in from..Len(text) /\ open + n = close - 1
    BY <1>1
  <2>2. Escapes(text, from, close) % 2 = 0
    BY <2>1 DEF Spans
  <2>3. \A i \in from..(close - 1) : text[i] = Quote => Escapes(text, from, i) % 2 # 0
    BY <2>1 DEF Spans
  <2> QED
    BY <2>1, <2>2, <2>3, ClosingIs
<1>6. close # 0 /\ keyEnd # 0 /\ key + 1 = word
  OBVIOUS
<1> QED
  BY <1>2, <1>4, <1>5, <1>6 DEF SensitiveRange

\* A lead makes the reader redact what follows it.
LeadState(s) == Fresh(s, TRUE) \/ (Safe(s) /\ Armed(s.next, s.token))
LeadsOver(lead, l, next) ==
    \A text \in Texts, p \in Nat : \A g :
        Reads(g, text) /\ p + l <= Len(text) /\ StandsAt(text, p, lead) /\ Fresh(g[p + 1], next)
            => LeadState(g[p + l])

\* A step of the reader
LEMMA NextRead ==
    ASSUME NEW text, NEW g, Reads(g, text), NEW k \in Nat, k < Len(text), NEW next, next = k + 1
    PROVE  g[next] = ReadAtom(g[k], text[next])
BY DEF Reads

\* Each of the ways to introduce a word leads to it: a label and a colon, when no word is
\* to be redacted before,
LEMMA LeadsLabel == LeadsOver(<<Space, "label", Colon, Space>>, 4, FALSE)
<1>1. SUFFICES ASSUME NEW text \in Texts, NEW p \in Nat, NEW g, Reads(g, text), p + 4 <= Len(text),
                      StandsAt(text, p, <<Space, "label", Colon, Space>>), Fresh(g[p + 1], FALSE)
               PROVE  LeadState(g[p + 4])
  BY DEF LeadsOver
<1>2. Len(text) \in Nat
  BY LenProperties DEF Texts
<1>3. text[p + 2] = "label" /\ text[p + 3] = Colon /\ text[p + 4] = Space
  <2>1. Len(<<Space, "label", Colon, Space>>) = 4
    OBVIOUS
  <2> QED
    BY <1>1, <2>1 DEF StandsAt
<1>4. PICK a, b, c, d : /\ a = p + 1 /\ b = p + 2 /\ c = p + 3 /\ d = p + 4
  OBVIOUS
<1>5. /\ a \in Nat /\ b \in Nat /\ c \in Nat /\ b = a + 1 /\ c = b + 1 /\ d = c + 1
      /\ a < Len(text) /\ b < Len(text) /\ c < Len(text)
  BY <1>1, <1>2, <1>4
<1>6. g[b] = ReadAtom(g[a], text[b]) /\ g[c] = ReadAtom(g[b], text[c]) /\ g[d] = ReadAtom(g[c], text[d])
  BY <1>1, <1>5, NextRead
<1>7. text[b] = "label" /\ text[c] = Colon /\ text[d] = Space /\ Fresh(g[a], FALSE)
  BY <1>1, <1>3, <1>4
<1>8. Fresh(g[d], TRUE)
  BY <1>6, <1>7, LeadLabel
<1> QED
  BY <1>4, <1>8 DEF LeadState

\* a label and an equals sign,
LEMMA LeadsAssignment ==
    ASSUME NEW next \in BOOLEAN
    PROVE  LeadsOver(<<Space, "label", Equals>>, 3, next)
<1>1. SUFFICES ASSUME NEW text \in Texts, NEW p \in Nat, NEW g, Reads(g, text), p + 3 <= Len(text),
                      StandsAt(text, p, <<Space, "label", Equals>>), Fresh(g[p + 1], next)
               PROVE  LeadState(g[p + 3])
  BY DEF LeadsOver
<1>2. Len(text) \in Nat
  BY LenProperties DEF Texts
<1>3. text[p + 2] = "label" /\ text[p + 3] = Equals
  <2>1. Len(<<Space, "label", Equals>>) = 3
    OBVIOUS
  <2> QED
    BY <1>1, <2>1 DEF StandsAt
<1>4. PICK a, b, c : a = p + 1 /\ b = p + 2 /\ c = p + 3
  OBVIOUS
<1>5. a \in Nat /\ b \in Nat /\ b = a + 1 /\ c = b + 1 /\ a < Len(text) /\ b < Len(text)
  BY <1>1, <1>2, <1>4
<1>6. g[b] = ReadAtom(g[a], text[b]) /\ g[c] = ReadAtom(g[b], text[c])
  BY <1>1, <1>5, NextRead
<1>7. text[b] = "label" /\ text[c] = Equals /\ Fresh(g[a], next)
  BY <1>1, <1>3, <1>4
<1>8. PICK r : r = g[c] /\ r = ReadAtom(ReadAtom(g[a], "label"), Equals)
  BY <1>6, <1>7
<1>9. Safe(r) /\ Armed(r.next, r.token)
  BY <1>7, <1>8, LeadAssignment
<1> QED
  BY <1>4, <1>8, <1>9 DEF LeadState

\* an authorization header,
LEMMA LeadsHeader ==
    ASSUME NEW next \in BOOLEAN
    PROVE  LeadsOver(<<Space, "label", Colon, Space, "bearer", Space>>, 6, next)
<1>1. SUFFICES ASSUME NEW text \in Texts, NEW p \in Nat, NEW g, Reads(g, text), p + 6 <= Len(text),
                      StandsAt(text, p, <<Space, "label", Colon, Space, "bearer", Space>>), Fresh(g[p + 1], next)
               PROVE  LeadState(g[p + 6])
  BY DEF LeadsOver
<1>2. Len(text) \in Nat
  BY LenProperties DEF Texts
<1>3. /\ text[p + 2] = "label" /\ text[p + 3] = Colon /\ text[p + 4] = Space
      /\ text[p + 5] = "bearer" /\ text[p + 6] = Space
  <2>1. Len(<<Space, "label", Colon, Space, "bearer", Space>>) = 6
    OBVIOUS
  <2> QED
    BY <1>1, <2>1 DEF StandsAt
<1>4. PICK a, b, c, d, e, f :
         a = p + 1 /\ b = p + 2 /\ c = p + 3 /\ d = p + 4 /\ e = p + 5 /\ f = p + 6
  OBVIOUS
<1>5. /\ a \in Nat /\ b \in Nat /\ c \in Nat /\ d \in Nat /\ e \in Nat
      /\ b = a + 1 /\ c = b + 1 /\ d = c + 1 /\ e = d + 1 /\ f = e + 1
      /\ a < Len(text) /\ b < Len(text) /\ c < Len(text) /\ d < Len(text) /\ e < Len(text)
  BY <1>1, <1>2, <1>4
<1>6. g[b] = ReadAtom(g[a], text[b]) /\ g[c] = ReadAtom(g[b], text[c]) /\ g[d] = ReadAtom(g[c], text[d])
  BY <1>1, <1>5, NextRead
<1>7. g[e] = ReadAtom(g[d], text[e]) /\ g[f] = ReadAtom(g[e], text[f])
  BY <1>1, <1>5, NextRead
<1>8. /\ text[b] = "label" /\ text[c] = Colon /\ text[d] = Space /\ text[e] = "bearer" /\ text[f] = Space
      /\ Fresh(g[a], next)
  BY <1>1, <1>3, <1>4
<1>9. PICK then \in BOOLEAN : Fresh(g[d], then)
  BY <1>6, <1>8, LabelEnds
<1>10. Fresh(g[f], TRUE)
  BY <1>7, <1>8, <1>9, LeadBearer
<1> QED
  BY <1>4, <1>10 DEF LeadState

\* a bearer alone,
LEMMA LeadsBearer ==
    ASSUME NEW next \in BOOLEAN
    PROVE  LeadsOver(<<Space, "bearer", Space>>, 3, next)
<1>1. SUFFICES ASSUME NEW text \in Texts, NEW p \in Nat, NEW g, Reads(g, text), p + 3 <= Len(text),
                      StandsAt(text, p, <<Space, "bearer", Space>>), Fresh(g[p + 1], next)
               PROVE  LeadState(g[p + 3])
  BY DEF LeadsOver
<1>2. Len(text) \in Nat
  BY LenProperties DEF Texts
<1>3. text[p + 2] = "bearer" /\ text[p + 3] = Space
  <2>1. Len(<<Space, "bearer", Space>>) = 3
    OBVIOUS
  <2> QED
    BY <1>1, <2>1 DEF StandsAt
<1>4. PICK a, b, c : a = p + 1 /\ b = p + 2 /\ c = p + 3
  OBVIOUS
<1>5. a \in Nat /\ b \in Nat /\ b = a + 1 /\ c = b + 1 /\ a < Len(text) /\ b < Len(text)
  BY <1>1, <1>2, <1>4
<1>6. g[b] = ReadAtom(g[a], text[b]) /\ g[c] = ReadAtom(g[b], text[c])
  BY <1>1, <1>5, NextRead
<1>7. text[b] = "bearer" /\ text[c] = Space /\ Fresh(g[a], next)
  BY <1>1, <1>3, <1>4
<1>8. Fresh(g[c], TRUE)
  BY <1>6, <1>7, LeadBearer
<1> QED
  BY <1>4, <1>8 DEF LeadState

\* and the prefix of a key.
LEMMA LeadsKey ==
    ASSUME NEW next \in BOOLEAN
    PROVE  LeadsOver(<<Space, "sk-">>, 2, next)
<1>1. SUFFICES ASSUME NEW text \in Texts, NEW p \in Nat, NEW g, Reads(g, text), p + 2 <= Len(text),
                      StandsAt(text, p, <<Space, "sk-">>), Fresh(g[p + 1], next)
               PROVE  LeadState(g[p + 2])
  BY DEF LeadsOver
<1>2. Len(text) \in Nat
  BY LenProperties DEF Texts
<1>3. text[p + 2] = "sk-"
  <2>1. Len(<<Space, "sk-">>) = 2
    OBVIOUS
  <2> QED
    BY <1>1, <2>1 DEF StandsAt
<1>4. PICK a, b : a = p + 1 /\ b = p + 2
  OBVIOUS
<1>5. a \in Nat /\ b = a + 1 /\ a < Len(text)
  BY <1>1, <1>2, <1>4
<1>6. g[b] = ReadAtom(g[a], text[b])
  BY <1>1, <1>5, NextRead
<1>7. PICK r : r = g[b] /\ r = ReadAtom(g[a], "sk-")
  BY <1>3, <1>4, <1>6
<1>8. Safe(r) /\ Armed(r.next, r.token)
  BY <1>1, <1>4, <1>7, LeadKey
<1> QED
  BY <1>4, <1>7, <1>8 DEF LeadState

\* Where a part ends
Ends(end, at, part) == end = at + Len(part)

\* An atom of a part, in the text it stands in
LEMMA InPart ==
    ASSUME NEW text, NEW at \in Nat, NEW part \in Texts, StandsAt(text, at, part), NEW end, Ends(end, at, part),
           NEW j \in (at + 1)..end
    PROVE  j - at \in 1..Len(part) /\ text[j] = part[j - at]
<1>1. PICK n : n = Len(part) /\ n \in Nat /\ end = at + n
  BY LenProperties DEF Texts, Ends
<1>2. j \in Nat /\ at + 1 <= j /\ j <= at + n
  BY <1>1
<1>3. PICK i : i = j - at
  OBVIOUS
<1>4. i \in 1..n /\ at + i = j
  BY <1>1, <1>2, <1>3
<1>5. text[at + i] = part[i]
  BY <1>1, <1>4 DEF StandsAt
<1> QED
  BY <1>1, <1>3, <1>4, <1>5

\* What the first pass puts out holds the lead and the secret in another place.
Shifted(kept, text, p, q, m) ==
    /\ q + m <= Len(kept)
    /\ \A j \in 1..m : kept[q + j] = text[p + j]
    /\ \A j \in (q + m + 1)..Len(kept) : kept[j] # "secret"
    /\ \E r : Along(r, text, p) /\ \A g : Reads(g, kept) => g[q] = r

\* It does when it holds them at all.
LEMMA BehindStands ==
    ASSUME NEW text \in Texts, NEW p, NEW z, LeadText(text, p, z), NEW kept \in Texts, Behind(kept, text, p, z),
           NEW m, m = z - p
    PROVE  \E q \in Nat : Shifted(kept, text, p, q, m)
<1>1. p \in Nat /\ z \in Nat /\ p + 2 <= z /\ z <= Len(text) /\ m \in Nat /\ Len(text) \in Nat
  BY LenProperties DEF LeadText, Texts
<1>2. PICK pre, more \in Texts :
         Tracks(pre, text, p) /\ Clean(more) /\ kept = pre \o SubSeq(text, p + 1, z) \o more
  BY DEF Behind
<1>3. pre \in Texts
  BY <1>2 DEF Tracks
<1>4. PICK r : ReaderAt(pre, r) /\ Along(r, text, p)
  BY <1>2 DEF Tracks
<1>5. PICK part : part = SubSeq(text, p + 1, z)
  OBVIOUS
<1>6. part \in Texts /\ Len(part) = m /\ \A j \in 1..m : part[j] = text[p + j]
  <2>1. PICK first : first = p + 1
    OBVIOUS
  <2>2. first \in 1..(Len(text) + 1) /\ z \in (first - 1)..Len(text) /\ first <= z /\ z - first + 1 = m
    BY <1>1, <2>1
  <2>3. /\ part \in Texts /\ Len(part) = IF first <= z THEN z - first + 1 ELSE 0
        /\ \A i \in 1..(z - first + 1) : part[i] = text[first + i - 1]
    BY <1>5, <2>1, <2>2, SubSeqProperties, SMTT(30) DEF Texts
  <2>4. \A j \in 1..m : first + j - 1 = p + j
    BY <1>1, <2>1
  <2> QED
    BY <2>2, <2>3, <2>4
<1>7. PICK head : head = pre \o part /\ head \in Texts
  BY <1>3, <1>6, ConcatProperties DEF Texts
<1>8. PICK q, h, l : q = Len(pre) /\ h = Len(head) /\ l = Len(more)
  OBVIOUS
<1>9. Joins(kept, head, more, h, l) /\ Joins(head, pre, part, q, m)
  BY <1>2, <1>5, <1>6, <1>7, <1>8 DEF Joins
<1>10. PICK o : o = 0 /\ o \in Nat
  OBVIOUS
<1>11. o \in Nat
  BY <1>10
<1>12. StandsAt(kept, o, kept)
  <2>1. \A i \in 1..Len(kept) : 0 + i = i
    BY LenProperties DEF Texts
  <2> QED
    BY <1>10, <2>1 DEF StandsAt
<1>13. /\ h \in Nat /\ l \in Nat /\ Len(kept) = h + l
       /\ StandsAt(kept, o, head) /\ StandsAt(kept, o + h, more)
  BY <1>7, <1>9, <1>11, <1>12, JoinedStands
<1>14. /\ q \in Nat /\ Len(head) = q + m
       /\ StandsAt(kept, o, pre) /\ StandsAt(kept, o + q, part)
  BY <1>3, <1>6, <1>9, <1>11, <1>13, JoinedStands
<1>15. o + q = q /\ o + h = h /\ h = q + m
  BY <1>8, <1>10, <1>13, <1>14
<1>16. q + m <= Len(kept)
  BY <1>1, <1>13, <1>14, <1>15
<1>17. \A j \in 1..m : kept[q + j] = text[p + j]
  BY <1>6, <1>14, <1>15 DEF StandsAt
<1>18. ASSUME NEW j \in (q + m + 1)..Len(kept) PROVE kept[j] # "secret"
  <2>1. PICK i : i = j - h
    OBVIOUS
  <2>2. i \in 1..l /\ h + i = j
    BY <1>1, <1>13, <1>14, <1>15, <2>1
  <2>3. kept[h + i] = more[i]
    BY <1>8, <1>13, <1>15, <2>2 DEF StandsAt
  <2>4. i \in DOMAIN more
    BY <1>8, <2>2, LenProperties DEF Texts
  <2> QED
    BY <1>2, <2>2, <2>3, <2>4 DEF Clean
<1>19. Starts(kept, pre)
  <2>1. q <= Len(kept)
    BY <1>1, <1>13, <1>14, <1>15
  <2>2. ASSUME NEW k \in 1..q PROVE kept[k] = pre[k]
    <3>1. o + k = k
      BY <1>10
    <3>2. kept[o + k] = pre[k]
      BY <1>8, <1>14 DEF StandsAt
    <3> QED
      BY <3>1, <3>2
  <2> QED
    BY <1>8, <2>1, <2>2 DEF Starts
<1>20. \A g : Reads(g, kept) => g[q] = r
  BY <1>4, <1>8, <1>19 DEF ReaderAt
<1> QED
  BY <1>4, <1>14, <1>16, <1>17, <1>18, <1>20 DEF Shifted

\* A secret that follows its lead
WordParts(a, b, c, d, e, l) ==
    /\ a \in Texts /\ b \in Texts /\ c \in Texts /\ d \in Texts /\ e \in Texts
    /\ \A i \in 1..Len(a) : a[i] # "secret"
    /\ l \in Nat /\ l = Len(b) /\ 2 <= l /\ b[1] = Space /\ b[2] \in {"label", "bearer", "sk-"}
    /\ \A i \in 1..l : b[i] # Quote
    /\ 1 <= Len(c) /\ c[1] = "secret"
    /\ \A i \in 1..Len(c) : c[i] # Quote /\ c[i] # Space
    /\ \A i \in 1..Len(d) : d[i] # Quote /\ d[i] # "secret"
    /\ \A i \in 1..Len(e) : e[i] # "secret"

\* The lead works after every text, or at least where no label stands right before it.
Leads(b, l, text, p) == LeadsOver(b, l, FALSE) /\ (LeadsOver(b, l, TRUE) \/ ~LabelBefore(text, p))

\* The lead and the secret, where they stand after the first pass
LEMMA ShiftedHidden ==
    ASSUME NEW text \in Texts, NEW p \in Nat, NEW l \in Nat, NEW u \in Nat, NEW m \in Nat, l < u, u <= m, 2 <= l,
           p + m <= Len(text), NEW b \in Texts, l = Len(b), StandsAt(text, p, b), b[1] = Space,
           Leads(b, l, text, p), text[p + (l + 1)] = "secret",
           \A j \in (l + 1)..u : text[p + j] # Space,
           \A j \in (u + 1)..m : text[p + j] # "secret",
           NEW kept \in Texts, NEW q \in Nat, Shifted(kept, text, p, q, m), NEW g, Reads(g, kept)
    PROVE  Clean(EndToken(g[Len(kept)]).shown)
<1>1. PICK h : h = Len(kept) /\ h \in Nat /\ q + m <= h
  BY LenProperties DEF Texts, Shifted
<1>2. \A j \in 1..m : kept[q + j] = text[p + j]
  BY DEF Shifted
<1>3. StandsAt(kept, q, b)
  <2>1. ASSUME NEW i \in 1..Len(b) PROVE kept[q + i] = b[i]
    <3>1. i \in 1..m
      OBVIOUS
    <3>2. text[p + i] = b[i]
      BY DEF StandsAt
    <3> QED
      BY <1>2, <3>1, <3>2
  <2> QED
    BY <2>1 DEF StandsAt
<1>4. PICK r : r = g[q] /\ Along(r, text, p)
  BY DEF Shifted
<1>5. PICK e, next : e = EndToken(r) /\ Fresh(e, next) /\ next \in BOOLEAN /\ next = e.next
  <2>1. PICK e : e = EndToken(r) /\ Safe(e) /\ e.token = <<>>
    BY <1>4, EndSafe DEF Along
  <2> QED
    BY <2>1 DEF Fresh, Safe
<1>6. PICK w : w = q + 1 /\ w \in Nat /\ q < Len(kept)
  BY <1>1
<1>7. kept[w] = Space
  <2>1. 1 \in 1..Len(b)
    OBVIOUS
  <2> QED
    BY <1>3, <1>6, <2>1 DEF StandsAt
<1>8. g[w] = e
  <2>1. g[w] = ReadAtom(g[q], kept[w])
    BY <1>6, NextRead
  <2> QED
    BY <1>4, <1>5, <1>7, <2>1 DEF ReadAtom
<1>9. LeadsOver(b, l, next)
  <2>1. CASE next = FALSE
    BY <2>1 DEF Leads
  <2>2. CASE next = TRUE
    <3>1. LabelBefore(text, p)
      BY <1>4, <1>5, <2>2, EndLabel
    <3> QED
      BY <2>2, <3>1 DEF Leads
  <2> QED
    BY <1>5, <2>1, <2>2
<1>10. PICK v : v = q + l /\ v \in Nat /\ v <= Len(kept)
  BY <1>1
<1>11. LeadState(g[v])
  <2>1. Fresh(g[q + 1], next) /\ q + l <= Len(kept)
    BY <1>5, <1>6, <1>8, <1>10
  <2> QED
    BY <1>3, <1>9, <1>10, <2>1 DEF LeadsOver
<1>12. PICK f \in {v, v + 1} : Safe(g[f]) /\ Armed(g[f].next, g[f].token)
  <2>1. CASE Fresh(g[v], TRUE)
    <3>1. PICK x, y : x = v + 1 /\ y = "secret" /\ y \in Atoms /\ y # Space
      BY DEF Atoms, Space
    <3>2. kept[x] = y
      <4>1. l + 1 \in 1..m /\ q + (l + 1) = x
        BY <1>10, <3>1
      <4>2. PICK i : i = l + 1
        OBVIOUS
      <4> QED
        BY <1>2, <3>1, <4>1, <4>2
    <3>3. v < Len(kept)
      BY <1>1, <1>10
    <3>4. g[x] = ReadAtom(g[v], y)
      BY <1>10, <3>1, <3>2, <3>3, NextRead
    <3>5. Safe(ReadAtom(g[v], y)) /\ Armed(ReadAtom(g[v], y).next, ReadAtom(g[v], y).token)
      BY <2>1, <3>1, ReadFirst
    <3> QED
      BY <3>1, <3>4, <3>5
  <2>2. CASE Safe(g[v]) /\ Armed(g[v].next, g[v].token)
    BY <2>2
  <2> QED
    BY <1>11, <2>1, <2>2 DEF LeadState
<1>13. PICK y : y = q + u /\ y \in Nat /\ f \in Nat /\ f <= y /\ y <= Len(kept) /\ v <= f
  BY <1>1, <1>10, <1>12, SMTT(30)
<1>14. \A j \in (f + 1)..y : kept[j] # Space
  <2>1. ASSUME NEW j \in (f + 1)..y PROVE kept[j] # Space
    <3>1. PICK i : i = j - q
      OBVIOUS
    <3>2. i \in (l + 1)..u /\ i \in 1..m /\ q + i = j
      BY <1>10, <1>13, <3>1
    <3> QED
      BY <1>2, <3>2
  <2> QED
    BY <2>1
<1>15. Safe(g[y])
  BY <1>12, <1>13, <1>14, ArmedOver
<1>16. \A j \in (y + 1)..Len(kept) : kept[j] # "secret"
  <2>1. ASSUME NEW j \in (y + 1)..h PROVE kept[j] # "secret"
    <3>1. CASE j <= q + m
      <4>1. PICK i : i = j - q
        OBVIOUS
      <4>2. i \in (u + 1)..m /\ i \in 1..m /\ q + i = j
        BY <1>13, <2>1, <3>1, <4>1
      <4> QED
        BY <1>2, <4>2
    <3>2. CASE ~(j <= q + m)
      <4>1. j \in (q + m + 1)..Len(kept)
        BY <1>1, <1>13, <2>1, <3>2
      <4> QED
        BY <4>1 DEF Shifted
    <3> QED
      BY <3>1, <3>2
  <2> QED
    BY <1>1, <2>1
<1> QED
  BY <1>13, <1>15, <1>16, SafeToEnd

\* What is clean after the first pass stays clean.
LEMMA CleanKept ==
    ASSUME NEW text, NEW kept \in Texts, kept = RedactJsonStringValues(text), Clean(kept)
    PROVE  Clean(RedactSensitive(text))
<1>1. PICK g : Reads(g, kept) /\ RedactSensitive(text) = EndToken(g[Len(kept)]).shown
  BY ReadsOver
<1>2. PICK o : o = 0 /\ o \in Nat
  OBVIOUS
<1>3. Safe(g[o])
  <2>1. g[o] = ReadStart
    BY <1>1, <1>2 DEF Reads
  <2> QED
    BY <2>1, SafeFirst
<1>4. o <= Len(kept) /\ \A j \in (o + 1)..Len(kept) : kept[j] # "secret"
  <2>1. DOMAIN kept = 1..Len(kept) /\ Len(kept) \in Nat
    BY LenProperties DEF Texts
  <2> QED
    BY <1>2, <2>1 DEF Clean
<1> QED
  BY <1>1, <1>2, <1>3, <1>4, SafeToEnd

\* No secret that follows its lead is shown.
LEMMA WordsHidden ==
    ASSUME NEW a, NEW b, NEW c, NEW d, NEW e, NEW l, WordParts(a, b, c, d, e, l),
           NEW text, Whole(text, a, b, c, d, e), Leads(b, l, text, Len(a))
    PROVE  Clean(RedactSensitive(text))
<1>1. PICK p, v, y, z : p = Len(a) /\ v = p + Len(b) /\ y = v + Len(c) /\ z = y + Len(d)
  OBVIOUS
<1>2. /\ Sizes(a, b, c, d, p, v, y, z)
      /\ Ends(v, p, b) /\ Ends(y, v, c) /\ Ends(z, y, d)
  BY <1>1 DEF Sizes, Ends
<1>3. a \in Texts /\ b \in Texts /\ c \in Texts /\ d \in Texts /\ e \in Texts
  BY DEF WordParts
<1>4. /\ p \in Nat /\ v \in Nat /\ y \in Nat /\ z \in Nat
      /\ text \in Texts /\ Len(text) = z + Len(e)
      /\ StandsAt(text, 0, a) /\ StandsAt(text, p, b) /\ StandsAt(text, v, c)
      /\ StandsAt(text, y, d) /\ StandsAt(text, z, e)
  BY <1>2, <1>3, PartsStand
<1>5. PICK n : n = Len(text) /\ n \in Nat /\ n = z + Len(e)
  BY <1>4, LenProperties DEF Texts
<1>19. PICK u, m : u = y - p /\ m = z - p
  OBVIOUS
<1>6. /\ u = y - p /\ m = z - p /\ l \in Nat /\ u \in Nat /\ m \in Nat
      /\ 2 <= l /\ l < u /\ u <= m /\ v = p + l /\ p + m <= n /\ p + u = y /\ p + m = z /\ z <= n
  <2>1. Len(b) \in Nat /\ Len(c) \in Nat /\ Len(d) \in Nat /\ Len(e) \in Nat
    BY <1>3, LenProperties DEF Texts
  <2>2. l = Len(b) /\ 2 <= l /\ 1 <= Len(c)
    BY DEF WordParts
  <2> QED
    BY <1>1, <1>4, <1>5, <1>19, <2>1, <2>2
<1>7. ASSUME NEW j \in 1..p PROVE text[j] # "secret"
  <2>1. j \in 1..Len(a) /\ 0 + j = j
    BY <1>1, <1>4
  <2> QED
    BY <1>4, <2>1 DEF StandsAt, WordParts
<1>8. ASSUME NEW j \in (p + 1)..v PROVE text[j] # Quote
  <2>1. j - p \in 1..Len(b) /\ text[j] = b[j - p]
    BY <1>2, <1>3, <1>4, InPart
  <2> QED
    BY <2>1 DEF WordParts
<1>9. ASSUME NEW j \in (v + 1)..y PROVE text[j] # Quote /\ text[j] # Space
  <2>1. j - v \in 1..Len(c) /\ text[j] = c[j - v]
    BY <1>2, <1>3, <1>4, InPart
  <2> QED
    BY <2>1 DEF WordParts
<1>10. ASSUME NEW j \in (y + 1)..z PROVE text[j] # Quote /\ text[j] # "secret"
  <2>1. j - y \in 1..Len(d) /\ text[j] = d[j - y]
    BY <1>2, <1>3, <1>4, InPart
  <2> QED
    BY <2>1 DEF WordParts
<1>11. ASSUME NEW j \in (z + 1)..n PROVE text[j] # "secret"
  <2>1. Ends(n, z, e)
    BY <1>5 DEF Ends
  <2>2. j - z \in 1..Len(e) /\ text[j] = e[j - z]
    BY <1>3, <1>4, <2>1, InPart
  <2> QED
    BY <2>2 DEF WordParts
<1>12. text[p + 1] = Space /\ text[p + 2] \in {"label", "bearer", "sk-"} /\ b[1] = Space
  <2>1. 1 \in 1..Len(b) /\ 2 \in 1..Len(b)
    BY <1>6 DEF WordParts
  <2>2. text[p + 1] = b[1] /\ text[p + 2] = b[2]
    BY <1>4, <2>1 DEF StandsAt
  <2> QED
    BY <2>2 DEF WordParts
<1>13. text[p + (l + 1)] = "secret"
  <2>1. 1 \in 1..Len(c) /\ c[1] = "secret"
    <3>1. Len(c) \in Nat
      BY <1>3, LenProperties DEF Texts
    <3> QED
      BY <3>1 DEF WordParts
  <2>2. text[v + 1] = "secret"
    BY <1>4, <2>1 DEF StandsAt
  <2>3. v + 1 = p + (l + 1)
    BY <1>4, <1>6
  <2> QED
    BY <2>2, <2>3
<1>14. LeadText(text, p, z)
  <2>1. p + 2 <= z /\ z <= Len(text)
    BY <1>4, <1>5, <1>6
  <2>2. ASSUME NEW j \in (p + 1)..z PROVE text[j] # Quote
    <3>1. j \in (p + 1)..v \/ j \in (v + 1)..y \/ j \in (y + 1)..z
      BY <1>4
    <3> QED
      BY <1>8, <1>9, <1>10, <3>1
  <2> QED
    BY <1>4, <1>5, <1>7, <1>11, <1>12, <2>1, <2>2 DEF LeadText
<1>15. PICK kept : kept = RedactJsonStringValues(text)
  OBVIOUS
<1>16. kept \in Texts /\ (Clean(kept) \/ Behind(kept, text, p, z))
  BY <1>4, <1>14, <1>15, LoopEnds
<1>17. CASE Clean(kept)
  BY <1>15, <1>16, <1>17, CleanKept
<1>18. CASE Behind(kept, text, p, z)
  <2>1. PICK q \in Nat : Shifted(kept, text, p, q, m)
    BY <1>4, <1>6, <1>14, <1>16, <1>18, BehindStands
  <2>2. PICK g : Reads(g, kept) /\ RedactSensitive(text) = EndToken(g[Len(kept)]).shown
    BY <1>15, <1>16, ReadsOver
  <2>3. \A j \in (l + 1)..u : text[p + j] # Space
    <3>1. \A j \in (l + 1)..u : p + j \in (v + 1)..y
      BY <1>4, <1>6
    <3> QED
      BY <1>9, <3>1
  <2>4. \A j \in (u + 1)..m : text[p + j] # "secret"
    <3>1. \A j \in (u + 1)..m : p + j \in (y + 1)..z
      BY <1>4, <1>6
    <3> QED
      BY <1>10, <3>1
  <2>5. Leads(b, l, text, p) /\ l = Len(b) /\ p + m <= Len(text)
    BY <1>1, <1>5, <1>6 DEF WordParts
  <2>6. Clean(EndToken(g[Len(kept)]).shown)
    BY <1>3, <1>4, <1>6, <1>12, <1>13, <1>16, <2>1, <2>2, <2>3, <2>4, <2>5, ShiftedHidden
  <2> QED
    BY <2>2, <2>6
<1> QED
  BY <1>16, <1>17, <1>18

\* A lead that ends in the quote that opens a value
OpensValue(text, p, colon, v) ==
    /\ colon \in Nat /\ p + 3 < colon /\ colon < v
    /\ text[p + 1] = Quote /\ text[p + 2] \in {"label", "field"} /\ text[p + 3] = Quote
    /\ SkipSpace(text, (p + 3) + 1) = colon /\ text[colon] = Colon
    /\ SkipSpace(text, colon + 1) = v /\ text[v] = Quote

\* A secret that is the string value of a key
JsonParts(a, b, c, d, e, value) ==
    /\ a \in Texts /\ b \in Texts /\ c \in Texts /\ d \in Texts /\ e \in Texts
    /\ value \in Texts /\ c = Escaped(value) /\ Len(d) = 1 /\ d[1] = Quote
    /\ \A i \in 1..Len(a) : a[i] # "secret"
    /\ \A i \in 1..Len(b) : b[i] # "secret"
    /\ \A i \in 1..Len(e) : e[i] # "secret"

\* When no value is open, the value of a key before ends before.
LEMMA RangeClosed ==
    ASSUME NEW text \in Texts, NEW p \in Nat, NEW key, NEW word, key = p + 1, word = p + 2, word <= Len(text),
           text[key] = Quote, text[word] \in {"label", "field"}, ~ValueOpen(text, p),
           NEW i \in 1..p, text[i] = Quote,
           NEW keyEnd, NEW colon, NEW open, NEW end, RangeAt(text, i, keyEnd, colon, open, end)
    PROVE  end \in Nat /\ end <= p
<1>1. /\ keyEnd \in Nat /\ colon \in Nat /\ open \in Nat /\ end \in Nat
      /\ i < keyEnd /\ keyEnd < colon /\ colon < open /\ open < end
      /\ text[keyEnd] = Quote /\ text[colon] = Colon /\ text[open] = Quote
      /\ SensitiveJsonKey(SubSeq(text, i + 1, keyEnd - 1))
      /\ \A k \in (i + 1)..(keyEnd - 1) : text[k] \in Keys \cup {Colon}
      /\ \A k \in (keyEnd + 1)..(colon - 1) : text[k] = Space
      /\ \A k \in (colon + 1)..(open - 1) : text[k] = Space
      /\ ClosingJsonQuote(text, open + 1) = end
  BY DEF RangeAt
<1>2. /\ key \in Nat /\ word \in Nat /\ Quote \notin Keys \cup {Colon} /\ Quote # Space /\ Quote # Colon
      /\ text[word] # Colon /\ text[word] # Space
  BY DEF Quote, Keys, Colon, Space
<1>3. keyEnd <= key
  <2>1. SUFFICES ASSUME keyEnd > key PROVE FALSE
    BY <1>1, <1>2
  <2>2. key \in (i + 1)..(keyEnd - 1)
    BY <1>1, <1>2, <2>1
  <2> QED
    BY <1>1, <1>2, <2>2
<1>4. keyEnd # key
  <2>1. SUFFICES ASSUME keyEnd = key PROVE FALSE
    OBVIOUS
  <2>2. colon # word
    BY <1>1, <1>2
  <2>3. word \in (keyEnd + 1)..(colon - 1)
    BY <1>1, <1>2, <2>1, <2>2
  <2> QED
    BY <1>1, <1>2, <2>3
<1>5. colon <= p
  <2>1. SUFFICES ASSUME colon > p PROVE FALSE
    BY <1>1
  <2>2. colon # key
    BY <1>1, <1>2
  <2>3. key \in (keyEnd + 1)..(colon - 1)
    BY <1>1, <1>2, <1>3, <1>4, <2>1, <2>2
  <2> QED
    BY <1>1, <1>2, <2>3
<1>6. open <= key
  <2>1. SUFFICES ASSUME open > key PROVE FALSE
    BY <1>1, <1>2
  <2>2. key \in (colon + 1)..(open - 1)
    BY <1>1, <1>2, <1>5, <2>1
  <2> QED
    BY <1>1, <1>2, <2>2
<1>7. KeyOf(text, i, open)
  <2>1. keyEnd \in i..open /\ colon \in i..open
    BY <1>1
  <2>2. ASSUME NEW k \in (keyEnd + 1)..(open - 1), k # colon PROVE text[k] = Space
    <3>1. k \in (keyEnd + 1)..(colon - 1) \/ k \in (colon + 1)..(open - 1)
      BY <1>1, <2>2
    <3> QED
      BY <1>1, <3>1
  <2> QED
    BY <1>1, <2>1, <2>2 DEF KeyOf
<1>8. i \in 1..p /\ open \in 1..(p + 1)
  BY <1>1, <1>6
<1>9. ~(open <= p => text[open] = Quote /\ ClosingJsonQuote(text, open + 1) \notin 1..p)
  BY <1>7, <1>8 DEF ValueOpen
<1>10. end \in 1..p
  BY <1>1, <1>9
<1> QED
  BY <1>10

\* No string value of a sensitive key is shown.
LEMMA JsonHidden ==
    ASSUME NEW a, NEW b, NEW c, NEW d, NEW e, NEW value, JsonParts(a, b, c, d, e, value),
           NEW text, Whole(text, a, b, c, d, e), NEW p, NEW v, NEW y, NEW z, Sizes(a, b, c, d, p, v, y, z),
           NEW colon, OpensValue(text, p, colon, v), ~ValueOpen(text, p)
    PROVE  Clean(RedactSensitive(text))
<1> USE DEF JsonParts
<1>1. /\ p \in Nat /\ v \in Nat /\ y \in Nat /\ z \in Nat
      /\ text \in Texts /\ Len(text) = z + Len(e)
      /\ StandsAt(text, 0, a) /\ StandsAt(text, p, b) /\ StandsAt(text, v, c)
      /\ StandsAt(text, y, d) /\ StandsAt(text, z, e)
  BY PartsStand, SMTT(30)
<1>2. PICK n, m : n = Len(text) /\ n \in Nat /\ n = z + Len(e) /\ m = Len(c) /\ m \in Nat
  BY <1>1, LenProperties DEF Texts
<1>3. /\ p = Len(a) /\ v = p + Len(b) /\ y = v + m /\ z = y + 1 /\ z <= n
  <2>1. Len(e) \in Nat
    BY LenProperties DEF Texts
  <2> QED
    BY <1>1, <1>2, <2>1 DEF Sizes
<1>15. Ends(v, p, b) /\ Ends(n, z, e)
  BY <1>2, <1>3 DEF Ends
<1>4. PICK key, word, keyEnd : key = p + 1 /\ word = p + 2 /\ keyEnd = p + 3
  OBVIOUS
<1>5. /\ colon \in Nat /\ keyEnd < colon /\ colon < v
      /\ text[key] = Quote /\ text[word] \in {"label", "field"} /\ text[keyEnd] = Quote
      /\ SkipSpace(text, keyEnd + 1) = colon /\ text[colon] = Colon
      /\ SkipSpace(text, colon + 1) = v /\ text[v] = Quote
  BY <1>4 DEF OpensValue
<1>6. Spans(text, v, m)
  BY <1>1, <1>2, EscapedSpans
<1>7. text[z] = Quote
  <2>1. 1 \in 1..Len(d)
    OBVIOUS
  <2>2. text[y + 1] = d[1]
    BY <1>1, <2>1 DEF StandsAt
  <2> QED
    BY <1>3, <2>2
<1>8. /\ key \in Nat /\ word \in Nat /\ keyEnd \in Nat /\ 1 <= key /\ word = key + 1 /\ keyEnd = key + 2
      /\ z = (v + 1) + m /\ z <= Len(text)
  BY <1>1, <1>2, <1>3, <1>4, SMTT(30)
<1>9. SensitiveRange(text, key) = {[start |-> v + 1, end |-> z]}
  <2>1. KeyedValue(text, key, word, keyEnd, colon, v, m, z)
    BY <1>1, <1>2, <1>5, <1>6, <1>7, <1>8 DEF KeyedValue
  <2> QED
    BY <1>1, <2>1, ValueStands
<1>10. ASSUME NEW j \in 1..p PROVE text[j] # "secret"
  <2>1. j \in 1..Len(a) /\ 0 + j = j
    BY <1>1, <1>3
  <2> QED
    BY <1>1, <2>1 DEF StandsAt
<1>11. ASSUME NEW j \in (p + 1)..v PROVE text[j] # "secret"
  <2>1. j - p \in 1..Len(b) /\ text[j] = b[j - p]
    BY <1>1, <1>15, InPart
  <2> QED
    BY <2>1
<1>12. ASSUME NEW j \in (z + 1)..n PROVE text[j] # "secret"
  <2>1. j - z \in 1..Len(e) /\ text[j] = e[j - z]
    BY <1>1, <1>15, InPart
  <2> QED
    BY <2>1
<1>13. HoldsValue(text, key, v, z)
  <2>1. key \in 1..Len(text) /\ v \in 1..Len(text) /\ z \in 1..Len(text) /\ key < v /\ v < z
    BY <1>1, <1>2, <1>5, <1>8
  <2>2. ASSUME NEW i \in 1..(key - 1), NEW ends, NEW at, NEW first, NEW end,
               text[i] = Quote, RangeAt(text, i, ends, at, first, end)
        PROVE  end < key
    <3>1. i \in 1..p /\ word <= Len(text)
      BY <1>1, <1>4, <1>8, <2>1, <2>2
    <3>2. end \in Nat /\ end <= p
      BY <1>1, <1>4, <1>5, <2>2, <3>1, RangeClosed
    <3> QED
      BY <1>1, <1>4, <3>2
  <2>3. ASSUME NEW j \in 1..v PROVE text[j] # "secret"
    <3>1. j \in 1..p \/ j \in (p + 1)..v
      BY <1>1
    <3> QED
      BY <1>10, <1>11, <3>1
  <2>4. ASSUME NEW j \in z..Len(text) PROVE text[j] # "secret"
    <3>1. j = z \/ j \in (z + 1)..n
      BY <1>1, <1>2
    <3>2. Quote # "secret"
      BY DEF Quote
    <3> QED
      BY <1>7, <1>12, <3>1, <3>2
  <2> QED
    BY <1>5, <1>9, <2>1, <2>2, <2>3, <2>4 DEF HoldsValue
<1>14. PICK kept : kept = RedactJsonStringValues(text) /\ kept \in Texts /\ Clean(kept)
  BY <1>1, <1>13, ValueHidden
<1> QED
  BY <1>14, CleanKept

\* The key of a JSON field, as it is written compactly,
LEMMA OpensField ==
    ASSUME NEW text \in Texts, NEW p \in Nat, p + 5 <= Len(text),
           StandsAt(text, p, <<Quote, "field", Quote, Colon, Quote>>)
    PROVE  OpensValue(text, p, p + 4, p + 5)
<1>1. Len(text) \in Nat
  BY LenProperties DEF Texts
<1>2. /\ text[p + 1] = Quote /\ text[p + 2] = "field" /\ text[p + 3] = Quote
      /\ text[p + 4] = Colon /\ text[p + 5] = Quote
  <2>1. Len(<<Quote, "field", Quote, Colon, Quote>>) = 5
    OBVIOUS
  <2> QED
    BY <2>1 DEF StandsAt
<1>3. Colon # Space /\ Quote # Space
  BY DEF Colon, Space, Quote
<1>4. ASSUME NEW x \in Nat, 1 <= x, x <= Len(text), text[x] # Space PROVE SkipSpace(text, x) = x
  <2>1. x \in Nat \ {0} /\ x \in x..Len(text) /\ \A j \in x..(x - 1) : text[j] = Space
    BY <1>1, <1>4
  <2> QED
    BY <1>4, <2>1, SkipIs
<1>5. PICK c, v : c = p + 4 /\ v = p + 5
  OBVIOUS
<1>6. c \in Nat /\ v \in Nat /\ 1 <= c /\ c <= Len(text) /\ 1 <= v /\ v <= Len(text) /\ c + 1 = v /\ (p + 3) + 1 = c
  BY <1>1, <1>5
<1>7. SkipSpace(text, c) = c /\ SkipSpace(text, v) = v
  BY <1>2, <1>3, <1>4, <1>5, <1>6
<1>8. SkipSpace(text, (p + 3) + 1) = c /\ SkipSpace(text, c + 1) = v /\ text[c] = Colon /\ text[v] = Quote
  BY <1>2, <1>5, <1>6, <1>7
<1>9. p + 3 < c /\ c < v
  BY <1>5
<1> QED
  BY <1>2, <1>5, <1>6, <1>8, <1>9 DEF OpensValue

\* and as it is written with spaces around its colon.
LEMMA OpensLabel ==
    ASSUME NEW text \in Texts, NEW p \in Nat, p + 7 <= Len(text),
           StandsAt(text, p, <<Quote, "label", Quote, Space, Colon, Space, Quote>>)
    PROVE  OpensValue(text, p, p + 5, p + 7)
<1>1. Len(text) \in Nat
  BY LenProperties DEF Texts
<1>2. /\ text[p + 1] = Quote /\ text[p + 2] = "label" /\ text[p + 3] = Quote
      /\ text[p + 4] = Space /\ text[p + 5] = Colon /\ text[p + 6] = Space /\ text[p + 7] = Quote
  <2>1. Len(<<Quote, "label", Quote, Space, Colon, Space, Quote>>) = 7
    OBVIOUS
  <2> QED
    BY <2>1 DEF StandsAt
<1>3. Colon # Space /\ Quote # Space
  BY DEF Colon, Space, Quote
<1>4. ASSUME NEW w \in Nat, NEW x \in Nat, x = w + 1, 1 <= w, x <= Len(text), text[w] = Space, text[x] # Space
      PROVE  SkipSpace(text, w) = x
  <2>1. w \in Nat \ {0} /\ x \in w..Len(text) /\ \A j \in w..(x - 1) : j = w
    BY <1>1, <1>4
  <2>2. \A j \in w..(x - 1) : text[j] = Space
    BY <1>4, <2>1
  <2> QED
    BY <1>4, <2>1, <2>2, SkipIs
<1>5. PICK b, c, d, v : b = p + 4 /\ c = p + 5 /\ d = p + 6 /\ v = p + 7
  OBVIOUS
<1>6. /\ b \in Nat /\ c \in Nat /\ d \in Nat /\ v \in Nat /\ 1 <= b /\ c <= Len(text) /\ 1 <= d /\ v <= Len(text)
      /\ c = b + 1 /\ v = d + 1 /\ c + 1 = d /\ (p + 3) + 1 = b
  BY <1>1, <1>5
<1>7. text[b] = Space /\ text[c] = Colon /\ text[d] = Space /\ text[v] = Quote
  BY <1>2, <1>5
<1>8. SkipSpace(text, b) = c /\ SkipSpace(text, d) = v
  BY <1>3, <1>4, <1>6, <1>7
<1>9. SkipSpace(text, (p + 3) + 1) = c /\ SkipSpace(text, c + 1) = v
  BY <1>6, <1>8
<1>10. p + 3 < c /\ c < v
  BY <1>5
<1> QED
  BY <1>2, <1>5, <1>6, <1>7, <1>9, <1>10 DEF OpensValue

\* The atoms of the parts are atoms of texts.
LEMMA Wider ==
    ASSUME NEW S, S \subseteq Atoms, NEW part \in Seq(S)
    PROVE  part \in Texts /\ \A i \in 1..Len(part) : part[i] \in S
<1>1. Len(part) \in Nat /\ \A i \in 1..Len(part) : part[i] \in S
  BY LenProperties, ElementOfSeq
<1>2. part = [i \in 1..Len(part) |-> part[i]]
  OBVIOUS
<1>3. part \in [1..Len(part) -> Atoms]
  BY <1>1, <1>2
<1> QED
  BY <1>1, <1>3 DEF Texts

\* What stands before, the value as it is written, and what follows
IsMessage(text, a, written, e) == text = a \o written \o e

\* The secret of a message is not shown, but after a label right before a label and inside
\* the value of another key.
LEMMA MessageHidden ==
    ASSUME NEW way \in Writings, NEW a \in Seq(AroundAtoms), NEW value \in Seq(ValueAtoms(way)),
           1 <= Len(value), value[1] = "secret", NEW e \in Seq(AroundAtoms),
           NEW text, IsMessage(text, a, Written(way, value), e),
           way = "label" => ~LabelBefore(text, Len(a)), Json(way) => ~ValueOpen(text, Len(a))
    PROVE  Clean(RedactSensitive(text))
<1>18. AroundAtoms \subseteq Atoms /\ \A x \in AroundAtoms : x # "secret"
  BY DEF AroundAtoms, Atoms, Quote, Backslash, Space, Colon, Equals, Comma
<1>1. a \in Texts /\ \A i \in 1..Len(a) : a[i] # "secret"
  <2>1. a \in Texts /\ \A i \in 1..Len(a) : a[i] \in AroundAtoms
    BY <1>18, Wider
  <2> QED
    BY <1>18, <2>1
<1>2. e \in Texts /\ \A i \in 1..Len(e) : e[i] # "secret"
  <2>1. e \in Texts /\ \A i \in 1..Len(e) : e[i] \in AroundAtoms
    BY <1>18, Wider
  <2> QED
    BY <1>18, <2>1
<1>3. value \in Texts /\ \A i \in 1..Len(value) : value[i] \in ValueAtoms(way)
  <2>1. ValueAtoms(way) \subseteq Atoms
    BY DEF ValueAtoms, Atoms, Quote, Backslash, Space, Colon
  <2> QED
    BY <2>1, Wider
<1>4. PICK q \in Atoms, s \in Atoms, m \in Atoms, c \in Atoms, b \in Atoms, f \in Atoms, w \in Atoms, k \in Atoms, u \in Atoms :
         /\ q = Quote /\ s = Space /\ m = Comma /\ c = Colon /\ b = "bearer" /\ f = "field" /\ w = "label"
         /\ k = "sk-" /\ u = Equals
  BY DEF Atoms, Quote, Space, Comma, Colon, Equals
<1>5. Escaped(value) \in Texts
  BY <1>3, EscapedSpans
<1>6. <<q>> \in Texts /\ <<s>> \in Texts /\ <<m>> \in Texts
  BY <1>4 DEF Texts
<1>7. CASE way = "json"
  <2>1. PICK lead, body, tail : lead = <<q, f, q, c, q>> /\ body = Escaped(value) /\ tail = <<q>>
    OBVIOUS
  <2>2. lead \in Texts /\ Len(lead) = 5 /\ \A i \in 1..5 : lead[i] # "secret"
    <3>1. <<q, f, q, c, q>> \in Seq(Atoms)
      OBVIOUS
    <3>2. Len(<<q, f, q, c, q>>) = 5
      OBVIOUS
    <3>3. \A i \in 1..5 : <<q, f, q, c, q>>[i] \in {q, f, c}
      OBVIOUS
    <3>4. \A x \in {q, f, c} : x # "secret"
      BY <1>4 DEF Quote, Colon
    <3> QED
      BY <2>1, <3>1, <3>2, <3>3, <3>4 DEF Texts
  <2>3. Len(tail) = 1 /\ tail[1] = Quote /\ tail \in Texts /\ body \in Texts
    BY <1>4, <1>5, <1>6, <2>1
  <2>4. Whole(text, a, lead, body, tail, e)
    BY <1>4, <1>7, <2>1 DEF Whole, Written, IsMessage
  <2>5. PICK p, v, y, z : Sizes(a, lead, body, tail, p, v, y, z)
    BY DEF Sizes
  <2>6. p \in Nat /\ text \in Texts /\ StandsAt(text, p, lead) /\ v \in Nat /\ y \in Nat /\ z \in Nat /\ Len(text) = z + Len(e)
    <3>1. a \in Texts /\ lead \in Texts /\ body \in Texts /\ tail \in Texts /\ e \in Texts
      BY <1>1, <1>2, <2>2, <2>3
    <3> QED
      BY <2>4, <2>5, <3>1, PartsStand
  <2>7. v = p + 5 /\ p + 5 <= Len(text)
    <3>1. Len(body) \in Nat /\ Len(e) \in Nat
      BY <1>2, <2>3, LenProperties DEF Texts
    <3> QED
      BY <2>2, <2>3, <2>5, <2>6, <3>1 DEF Sizes
  <2>8. OpensValue(text, p, p + 4, p + 5)
    BY <1>4, <2>1, <2>6, <2>7, OpensField
  <2>9. PICK colon : OpensValue(text, p, colon, v)
    BY <2>7, <2>8
  <2>10. ~ValueOpen(text, p)
    BY <1>7, <2>5 DEF Sizes, Json
  <2> QED
    <3>1. JsonParts(a, lead, body, tail, e, value)
      BY <1>1, <1>2, <1>3, <2>1, <2>2, <2>3 DEF JsonParts
    <3> QED
      BY <2>4, <2>5, <2>9, <2>10, <3>1, JsonHidden
<1>8. CASE way = "json spaced"
  <2>1. PICK lead, body, tail : lead = <<q, w, q, s, c, s, q>> /\ body = Escaped(value) /\ tail = <<q>>
    OBVIOUS
  <2>2. lead \in Texts /\ Len(lead) = 7 /\ \A i \in 1..7 : lead[i] # "secret"
    <3>1. <<q, w, q, s, c, s, q>> \in Seq(Atoms)
      OBVIOUS
    <3>2. Len(<<q, w, q, s, c, s, q>>) = 7
      OBVIOUS
    <3>3. \A i \in 1..7 : <<q, w, q, s, c, s, q>>[i] \in {q, w, s, c}
      OBVIOUS
    <3>4. \A x \in {q, w, s, c} : x # "secret"
      BY <1>4 DEF Quote, Colon, Space
    <3> QED
      BY <2>1, <3>1, <3>2, <3>3, <3>4 DEF Texts
  <2>3. Len(tail) = 1 /\ tail[1] = Quote /\ tail \in Texts /\ body \in Texts
    BY <1>4, <1>5, <1>6, <2>1
  <2>4. Whole(text, a, lead, body, tail, e)
    BY <1>4, <1>8, <2>1 DEF Whole, Written, IsMessage
  <2>5. PICK p, v, y, z : Sizes(a, lead, body, tail, p, v, y, z)
    BY DEF Sizes
  <2>6. p \in Nat /\ text \in Texts /\ StandsAt(text, p, lead) /\ v \in Nat /\ y \in Nat /\ z \in Nat /\ Len(text) = z + Len(e)
    <3>1. a \in Texts /\ lead \in Texts /\ body \in Texts /\ tail \in Texts /\ e \in Texts
      BY <1>1, <1>2, <2>2, <2>3
    <3> QED
      BY <2>4, <2>5, <3>1, PartsStand
  <2>7. v = p + 7 /\ p + 7 <= Len(text)
    <3>1. Len(body) \in Nat /\ Len(e) \in Nat
      BY <1>2, <2>3, LenProperties DEF Texts
    <3> QED
      BY <2>2, <2>3, <2>5, <2>6, <3>1, SMTT(30) DEF Sizes
  <2>8. OpensValue(text, p, p + 5, p + 7)
    BY <1>4, <2>1, <2>6, <2>7, OpensLabel
  <2>9. PICK colon : OpensValue(text, p, colon, v)
    BY <2>7, <2>8
  <2>10. ~ValueOpen(text, p)
    BY <1>8, <2>5 DEF Sizes, Json
  <2> QED
    <3>1. JsonParts(a, lead, body, tail, e, value)
      BY <1>1, <1>2, <1>3, <2>1, <2>2, <2>3 DEF JsonParts
    <3> QED
      BY <2>4, <2>5, <2>9, <2>10, <3>1, JsonHidden
<1>9. ASSUME ~Json(way) PROVE \A i \in 1..Len(value) : value[i] # Quote /\ value[i] # Space
  <2>1. ValueAtoms(way) = {"secret", Colon}
    BY <1>9 DEF ValueAtoms
  <2>2. \A x \in {"secret", Colon} : x # Quote /\ x # Space
    BY DEF Colon, Quote, Space
  <2> QED
    BY <1>3, <2>1, <2>2
<1>10. PICK tails : tails = {<<s>>, <<m>>} /\ \A d \in tails : d \in Texts /\ \A i \in 1..Len(d) : d[i] # Quote /\ d[i] # "secret"
  <2>1. s # Quote /\ s # "secret" /\ m # Quote /\ m # "secret"
    BY <1>4 DEF Quote, Space, Comma
  <2>2. ASSUME NEW x \in {s, m} PROVE <<x>> \in Texts /\ \A i \in 1..Len(<<x>>) : <<x>>[i] # Quote /\ <<x>>[i] # "secret"
    <3>1. Len(<<x>>) = 1
      OBVIOUS
    <3>2. \A i \in 1..1 : <<x>>[i] = x
      OBVIOUS
    <3> QED
      BY <1>6, <2>1, <3>1, <3>2
  <2>3. PICK t : t = {<<s>>, <<m>>}
    OBVIOUS
  <2>4. ASSUME NEW d \in t PROVE d \in Texts /\ \A i \in 1..Len(d) : d[i] # Quote /\ d[i] # "secret"
    BY <2>2, <2>3
  <2> QED
    BY <2>3, <2>4
<1>11. ASSUME NEW lead \in Texts, NEW l \in Nat, l = Len(lead), 2 <= l, lead[1] = Space,
              lead[2] \in {"label", "bearer", "sk-"}, \A i \in 1..l : lead[i] # Quote,
              Leads(lead, l, text, Len(a)), NEW d \in tails, ~Json(way),
              Written(way, value) = lead \o value \o d
       PROVE  Clean(RedactSensitive(text))
  <2>1. Whole(text, a, lead, value, d, e)
    BY <1>11 DEF Whole, IsMessage
  <2>2. d \in Texts /\ \A i \in 1..Len(d) : d[i] # Quote /\ d[i] # "secret"
    BY <1>10, <1>11
  <2> QED
    <3>1. WordParts(a, lead, value, d, e, l)
      BY <1>1, <1>2, <1>3, <1>9, <1>11, <2>2 DEF WordParts
    <3> QED
      BY <1>11, <2>1, <3>1, WordsHidden
<1>12. s # Quote /\ w # Quote /\ c # Quote /\ b # Quote /\ k # Quote /\ u # Quote
  BY <1>4 DEF Quote, Space, Colon, Equals
<1>13. CASE way = "label"
  <2>1. Written(way, value) = <<s, w, c, s>> \o value \o <<s>> /\ ~Json(way)
    BY <1>4, <1>13 DEF Written, Json
  <2>2. <<s, w, c, s>> \in Texts
    BY <1>4 DEF Texts
  <2>3. Len(<<s, w, c, s>>) = 4 /\ <<s, w, c, s>>[1] = s /\ <<s, w, c, s>>[2] = w
    OBVIOUS
  <2>4. \A i \in 1..4 : <<s, w, c, s>>[i] \in {s, w, c}
    OBVIOUS
  <2>5. LeadsOver(<<s, w, c, s>>, 4, FALSE) /\ ~LabelBefore(text, Len(a))
    BY <1>4, <1>13, LeadsLabel
  <2>6. PICK lead, l : lead = <<s, w, c, s>> /\ l = 4 /\ l = Len(lead)
    BY <2>3
  <2>7. /\ lead \in Texts /\ l \in Nat /\ 2 <= l /\ lead[1] = Space
        /\ lead[2] \in {"label", "bearer", "sk-"} /\ \A i \in 1..l : lead[i] # Quote
    BY <1>4, <1>12, <2>2, <2>3, <2>4, <2>6
  <2>8. Leads(lead, l, text, Len(a))
    BY <2>5, <2>6 DEF Leads
  <2> QED
    BY <1>10, <1>11, <2>1, <2>6, <2>7, <2>8
<1>14. CASE way = "assignment"
  <2>1. Written(way, value) = <<s, w, u>> \o value \o <<s>> /\ ~Json(way)
    BY <1>4, <1>14 DEF Written, Json
  <2>2. <<s, w, u>> \in Texts
    BY <1>4 DEF Texts
  <2>3. Len(<<s, w, u>>) = 3 /\ <<s, w, u>>[1] = s /\ <<s, w, u>>[2] = w
    OBVIOUS
  <2>4. \A i \in 1..3 : <<s, w, u>>[i] \in {s, w, u}
    OBVIOUS
  <2>5. LeadsOver(<<s, w, u>>, 3, FALSE) /\ LeadsOver(<<s, w, u>>, 3, TRUE)
    BY <1>4, LeadsAssignment
  <2>6. PICK lead, l : lead = <<s, w, u>> /\ l = 3 /\ l = Len(lead)
    BY <2>3
  <2>7. /\ lead \in Texts /\ l \in Nat /\ 2 <= l /\ lead[1] = Space
        /\ lead[2] \in {"label", "bearer", "sk-"} /\ \A i \in 1..l : lead[i] # Quote
    BY <1>4, <1>12, <2>2, <2>3, <2>4, <2>6
  <2>8. Leads(lead, l, text, Len(a))
    BY <2>5, <2>6 DEF Leads
  <2> QED
    BY <1>10, <1>11, <2>1, <2>6, <2>7, <2>8
<1>15. CASE way = "header"
  <2>1. Written(way, value) = <<s, w, c, s, b, s>> \o value \o <<s>> /\ ~Json(way)
    BY <1>4, <1>15 DEF Written, Json
  <2>2. <<s, w, c, s, b, s>> \in Texts
    BY <1>4 DEF Texts
  <2>3. Len(<<s, w, c, s, b, s>>) = 6 /\ <<s, w, c, s, b, s>>[1] = s /\ <<s, w, c, s, b, s>>[2] = w
    OBVIOUS
  <2>4. \A i \in 1..6 : <<s, w, c, s, b, s>>[i] \in {s, w, c, b}
    OBVIOUS
  <2>5. LeadsOver(<<s, w, c, s, b, s>>, 6, FALSE) /\ LeadsOver(<<s, w, c, s, b, s>>, 6, TRUE)
    BY <1>4, LeadsHeader
  <2>6. PICK lead, l : lead = <<s, w, c, s, b, s>> /\ l = 6 /\ l = Len(lead)
    BY <2>3
  <2>7. /\ lead \in Texts /\ l \in Nat /\ 2 <= l /\ lead[1] = Space
        /\ lead[2] \in {"label", "bearer", "sk-"} /\ \A i \in 1..l : lead[i] # Quote
    BY <1>4, <1>12, <2>2, <2>3, <2>4, <2>6
  <2>8. Leads(lead, l, text, Len(a))
    BY <2>5, <2>6 DEF Leads
  <2> QED
    BY <1>10, <1>11, <2>1, <2>6, <2>7, <2>8
<1>16. CASE way = "bearer"
  <2>1. Written(way, value) = <<s, b, s>> \o value \o <<m>> /\ ~Json(way)
    BY <1>4, <1>16 DEF Written, Json
  <2>2. <<s, b, s>> \in Texts
    BY <1>4 DEF Texts
  <2>3. Len(<<s, b, s>>) = 3 /\ <<s, b, s>>[1] = s /\ <<s, b, s>>[2] = b
    OBVIOUS
  <2>4. \A i \in 1..3 : <<s, b, s>>[i] \in {s, b}
    OBVIOUS
  <2>5. LeadsOver(<<s, b, s>>, 3, FALSE) /\ LeadsOver(<<s, b, s>>, 3, TRUE)
    BY <1>4, LeadsBearer
  <2>6. PICK lead, l : lead = <<s, b, s>> /\ l = 3 /\ l = Len(lead)
    BY <2>3
  <2>7. /\ lead \in Texts /\ l \in Nat /\ 2 <= l /\ lead[1] = Space
        /\ lead[2] \in {"label", "bearer", "sk-"} /\ \A i \in 1..l : lead[i] # Quote
    BY <1>4, <1>12, <2>2, <2>3, <2>4, <2>6
  <2>8. Leads(lead, l, text, Len(a))
    BY <2>5, <2>6 DEF Leads
  <2> QED
    BY <1>10, <1>11, <2>1, <2>6, <2>7, <2>8
<1>17. CASE way = "key"
  <2>1. Written(way, value) = <<s, k>> \o value \o <<s>> /\ ~Json(way)
    BY <1>4, <1>17 DEF Written, Json
  <2>2. <<s, k>> \in Texts
    BY <1>4 DEF Texts
  <2>3. Len(<<s, k>>) = 2 /\ <<s, k>>[1] = s /\ <<s, k>>[2] = k
    OBVIOUS
  <2>4. \A i \in 1..2 : <<s, k>>[i] \in {s, k}
    OBVIOUS
  <2>5. LeadsOver(<<s, k>>, 2, FALSE) /\ LeadsOver(<<s, k>>, 2, TRUE)
    BY <1>4, LeadsKey
  <2>6. PICK lead, l : lead = <<s, k>> /\ l = 2 /\ l = Len(lead)
    BY <2>3
  <2>7. /\ lead \in Texts /\ l \in Nat /\ 2 <= l /\ lead[1] = Space
        /\ lead[2] \in {"label", "bearer", "sk-"} /\ \A i \in 1..l : lead[i] # Quote
    BY <1>4, <1>12, <2>2, <2>3, <2>4, <2>6
  <2>8. Leads(lead, l, text, Len(a))
    BY <2>5, <2>6 DEF Leads
  <2> QED
    BY <1>10, <1>11, <2>1, <2>6, <2>7, <2>8
<1> QED
  BY <1>7, <1>8, <1>13, <1>14, <1>15, <1>16, <1>17 DEF Writings

\* What a message is made of
MessageInv ==
    /\ message = [way |-> message.way, prefix |-> message.prefix, value |-> message.value,
                  suffix |-> message.suffix, pieces |-> message.pieces]
    /\ message.way \in Writings /\ message.prefix \in Seq(AroundAtoms)
    /\ message.value \in Seq(ValueAtoms(message.way)) /\ 1 <= Len(message.value) /\ message.value[1] = "secret"
    /\ message.suffix \in Seq(AroundAtoms)

\* The pieces of a message are texts.
LEMMA PieceTexts ==
    /\ \A atoms : \A piece \in Singles(atoms) : piece \in Seq(atoms)
    /\ \A piece \in Phrases : piece \in Seq(AroundAtoms)
<1>1. ASSUME NEW atoms, NEW piece \in Singles(atoms) PROVE piece \in Seq(atoms)
  <2>1. PICK atom \in atoms : piece = <<atom>>
    BY DEF Singles
  <2> QED
    BY <2>1
<1>2. PICK q \in AroundAtoms, w \in AroundAtoms, c \in AroundAtoms : q = Quote /\ w = "label" /\ c = Colon
  BY DEF AroundAtoms
<1>3. <<q, w, q>> \in Seq(AroundAtoms) /\ <<q, w, q, c, q>> \in Seq(AroundAtoms)
  OBVIOUS
<1>4. Phrases = {<<q, w, q>>, <<q, w, q, c, q>>}
  BY <1>2 DEF Phrases
<1> QED
  BY <1>1, <1>3, <1>4

\* A message stays one when it goes on.
LEMMA MessageStep == MessageInv /\ [RedactionNext]_redactionVars => MessageInv'
<1>1. SUFFICES ASSUME MessageInv, [RedactionNext]_redactionVars PROVE MessageInv'
  OBVIOUS
<1>2. PICK w, p, v, s, n : /\ message = [way |-> w, prefix |-> p, value |-> v, suffix |-> s, pieces |-> n]
                           /\ w \in Writings /\ p \in Seq(AroundAtoms) /\ s \in Seq(AroundAtoms)
                           /\ v \in Seq(ValueAtoms(w)) /\ 1 <= Len(v) /\ v[1] = "secret"
  BY <1>1 DEF MessageInv
<1>3. ASSUME NEW q \in Seq(AroundAtoms), NEW x \in Seq(ValueAtoms(w)), NEW y \in Seq(AroundAtoms), NEW k,
             1 <= Len(x), x[1] = "secret",
             message' = [way |-> w, prefix |-> q, value |-> x, suffix |-> y, pieces |-> k]
      PROVE  MessageInv'
  <2>1. message'.way = w /\ message'.prefix = q /\ message'.value = x /\ message'.suffix = y /\ message'.pieces = k
    BY <1>3
  <2> QED
    BY <1>2, <1>3, <2>1 DEF MessageInv
<1>4. CASE Extended("prefix", Singles(AroundAtoms) \cup Phrases)
  <2>1. PICK piece \in Singles(AroundAtoms) \cup Phrases :
           message' = [message EXCEPT !["prefix"] = @ \o piece, !.pieces = @ + 1]
    BY <1>4 DEF Extended
  <2>2. message' = [way |-> w, prefix |-> p \o piece, value |-> v, suffix |-> s, pieces |-> n + 1]
    BY <1>2, <2>1
  <2>3. piece \in Seq(AroundAtoms)
    BY PieceTexts
  <2>4. p \o piece \in Seq(AroundAtoms)
    BY <1>2, <2>3, ConcatProperties
  <2> QED
    BY <1>2, <1>3, <2>2, <2>4
<1>5. CASE Extended("value", Singles(ValueAtoms(message.way)))
  <2>1. PICK piece \in Singles(ValueAtoms(w)) :
           message' = [message EXCEPT !["value"] = @ \o piece, !.pieces = @ + 1]
    BY <1>2, <1>5 DEF Extended
  <2>2. message' = [way |-> w, prefix |-> p, value |-> v \o piece, suffix |-> s, pieces |-> n + 1]
    BY <1>2, <2>1
  <2>3. PICK l, more, atoms : /\ l = Len(v) /\ l \in Nat /\ 1 <= l /\ more = v \o piece
                              /\ atoms = ValueAtoms(w) /\ v \in Seq(atoms)
    BY <1>2, LenProperties
  <2>4. piece \in Seq(atoms)
    BY <2>3, PieceTexts
  <2>5. PICK m : m = Len(piece) /\ m \in Nat
    BY <2>4, LenProperties
  <2>6. /\ more \in Seq(atoms) /\ Len(more) = l + m
        /\ \A i \in 1..(l + m) : more[i] = IF i <= l THEN v[i] ELSE piece[i - l]
    BY <2>3, <2>4, <2>5, Joined, ConcatProperties
  <2>7. 1 \in 1..(l + m) /\ 1 <= l + m
    BY <2>3, <2>5
  <2>8. 1 <= Len(more) /\ more[1] = "secret"
    BY <1>2, <2>3, <2>6, <2>7
  <2> QED
    BY <1>2, <1>3, <2>2, <2>3, <2>6, <2>8
<1>6. CASE Extended("suffix", Singles(AroundAtoms))
  <2>1. PICK piece \in Singles(AroundAtoms) :
           message' = [message EXCEPT !["suffix"] = @ \o piece, !.pieces = @ + 1]
    BY <1>6 DEF Extended
  <2>2. message' = [way |-> w, prefix |-> p, value |-> v, suffix |-> s \o piece, pieces |-> n + 1]
    BY <1>2, <2>1
  <2>3. piece \in Seq(AroundAtoms)
    BY PieceTexts
  <2>4. s \o piece \in Seq(AroundAtoms)
    BY <1>2, <2>3, ConcatProperties
  <2> QED
    BY <1>2, <1>3, <2>2, <2>4
<1>7. CASE UNCHANGED redactionVars
  BY <1>1, <1>7 DEF redactionVars, MessageInv
<1> QED
  BY <1>1, <1>4, <1>5, <1>6, <1>7 DEF RedactionNext

\* redact_sensitive shows no piece of a secret, however long the message is and whatever
\* labels, keys and quotes stand around the secret, in all but two cases: a label that
\* follows right after another label, and a sensitive key that stands in (or in the place
\* of) the string value of another one.
THEOREM NoSecretIsShown == RedactionSpec => []SecretsNeverShown
<1>1. RedactionInit => MessageInv
  <2>1. SUFFICES ASSUME NEW way \in Writings,
                        message = [way |-> way, prefix |-> <<>>, value |-> <<"secret">>, suffix |-> <<>>, pieces |-> 0]
                 PROVE  MessageInv
    BY DEF RedactionInit
  <2>2. /\ message.way = way /\ message.prefix = <<>> /\ message.value = <<"secret">>
        /\ message.suffix = <<>> /\ message.pieces = 0
    BY <2>1
  <2>3. <<>> \in Seq(AroundAtoms)
    OBVIOUS
  <2>4. PICK x : x = "secret" /\ x \in ValueAtoms(way)
    BY DEF ValueAtoms
  <2>5. <<x>> \in Seq(ValueAtoms(way)) /\ Len(<<x>>) = 1 /\ <<x>>[1] = x
    BY <2>4
  <2> QED
    BY <2>1, <2>2, <2>3, <2>4, <2>5 DEF MessageInv
<1>2. MessageInv => SecretsNeverShown
  <2>1. SUFFICES ASSUME MessageInv PROVE SecretsNeverShown
    OBVIOUS
  <2>2. PICK text, a : /\ text = message.prefix \o Written(message.way, message.value) \o message.suffix
                       /\ a = message.prefix
    OBVIOUS
  <2>3. CASE message.way = "label" /\ LabelBefore(text, Len(a))
    BY <2>2, <2>3 DEF SecretsNeverShown
  <2>4. CASE Json(message.way) /\ ValueOpen(text, Len(a))
    BY <2>2, <2>4 DEF SecretsNeverShown
  <2>5. CASE ~(message.way = "label" /\ LabelBefore(text, Len(a))) /\ ~(Json(message.way) /\ ValueOpen(text, Len(a)))
    <3>1. IsMessage(text, a, Written(message.way, message.value), message.suffix)
      BY <2>2 DEF IsMessage
    <3>2. Clean(RedactSensitive(text))
      BY <2>1, <2>2, <2>5, <3>1, MessageHidden DEF MessageInv
    <3>3. "secret" \notin Range(RedactSensitive(text))
      BY <3>2 DEF Clean, Range
    <3> QED
      BY <2>2, <3>3 DEF SecretsNeverShown, RedactProxyErrorMessage
  <2> QED
    BY <2>3, <2>4, <2>5
<1> QED
  BY <1>1, <1>2, MessageStep, PTL DEF RedactionSpec
=============================================================================
