----------------------------- MODULE TdxQuotes -----------------------------
(***************************************************************************)
(* TDX quotes and the collateral they are checked with: the bundle and its *)
(* validity, the signed envelope of an offline bundle, the cache by quote, *)
(* DcapTdxTinfoilQuoteVerifier, and the session (nonce, key, certificate)  *)
(* that a quote's report data names.                                       *)
(*                                                                         *)
(* Intel's service (through a PCCS) is external: it issues each piece of   *)
(* collateral for a while, and the pieces issued after a flaw became known *)
(* say so.  The crate dcap_qvl is external too.                            *)
(***************************************************************************)
EXTENDS Integers, Sequences, FiniteSets, FiniteSetsExt

CONSTANTS
    Quotes,      \* quotes: what kind of report, for which session they were made
    Sessions,    \* sessions of the client: nonce, key, leaf certificate
    Life,        \* how long Intel issues each piece for
    NonceLength, \* 64 hexadecimal digits
    MaxBundles,  \* DCAP_COLLATERAL_CACHE_MAX_BUNDLES
    MaxDay,      \* bound: the clock
    Unset        \* no digest, no flaw, no verdict

SessionType == [nonce : Seq(STRING), key : Seq(STRING), spki : Seq(STRING)]

Pieces == {"tcb_info", "qe_identity", "root_ca_crl", "pck_crl"}

ASSUME TdxQuotesAssumption ==
    /\ Life \in [Pieces -> Nat \ {0}]
    /\ {NonceLength, MaxBundles} \subseteq Nat \ {0} /\ MaxDay \in Nat
    /\ Unset \notin Nat \cup Pieces
    \* The quotes about were asked for with nonces of this SDK; a certificate's key is
    \* DER, never the hexadecimal digits of a nonce and a key.
    /\ {q.session : q \in Quotes} \cup Sessions \subseteq SessionType
    /\ \A q \in Quotes : Len(q.session.nonce) = NonceLength
    /\ \A s, t \in {q.session : q \in Quotes} \cup Sessions : s.spki # t.nonce \o t.key

VARIABLES
    day,        \* the clock
    flaw,       \* the piece that tells of a flaw in the platform, and since when it is known
    issued,     \* the pieces the PCCS hands out
    offline,    \* the last bundle an operator saved and signed
    bundles,    \* bundles_by_quote_sha256
    verifier,   \* verifiers made and not used yet: collateral and clock
    quoteOk     \* the last verdict on each quote

tdxVars == <<day, flaw, issued, offline, bundles, verifier, quoteOk>>

Issue(piece) == [until |-> day + Life[piece], bad |-> flaw.piece = piece]

TdxInit ==
    /\ day = 0 /\ flaw = [piece |-> Unset, since |-> 0]
    /\ issued = [piece \in Pieces |-> [until |-> Life[piece], bad |-> FALSE]]
    /\ offline = Unset /\ bundles = <<>>
    /\ verifier = [q \in Quotes |-> Unset] /\ quoteOk = [q \in Quotes |-> Unset]

-----------------------------------------------------------------------------
(* Intel *)

Day == day < MaxDay /\ day' = day + 1 /\ UNCHANGED <<flaw, issued, offline, bundles, verifier, quoteOk>>

FlawFound(piece) ==
    /\ flaw.piece = Unset
    /\ flaw' = [piece |-> piece, since |-> day]
    /\ UNCHANGED <<day, issued, offline, bundles, verifier, quoteOk>>

Reissue(piece) ==
    /\ issued[piece] # Issue(piece)
    /\ issued' = [issued EXCEPT ![piece] = Issue(piece)]
    /\ UNCHANGED <<day, flaw, offline, bundles, verifier, quoteOk>>

-----------------------------------------------------------------------------
(* Bundles *)

\* Fault: revocation lists put no bound on the collateral.
ValidUntilJson(pieces) == Min({pieces[p].until : p \in {"tcb_info", "qe_identity"}})

\* A list need not name its next update; the JSON pieces must.
ValidUntil(pieces) ==
    Min({pieces[p].until : p \in {"tcb_info", "qe_identity"}
                                 \cup {l \in {"root_ca_crl", "pck_crl"} : pieces[l].until # Unset}})

FromCollateralAt(pieces, quote) ==
    [pieces |-> pieces, fetched |-> day, until |-> ValidUntil(pieces), quote |-> quote]

Validate(bundle) == bundle.until = ValidUntil(bundle.pieces)

IsValidAt(bundle, now) == now < bundle.until

\* Envelope: an artifact signature over the bundle
Envelope(bundle, key) == [bundle |-> bundle, signed |-> [key |-> key, content |-> bundle]]
VerifyEnvelope(envelope) ==
    /\ Validate(envelope.bundle)
    /\ envelope.signed = [key |-> "trusted", content |-> envelope.bundle]

SaveOffline ==
    /\ \E quote \in Quotes \cup {Unset} : offline' = FromCollateralAt(issued, quote)
    /\ UNCHANGED <<day, flaw, issued, bundles, verifier, quoteOk>>

-----------------------------------------------------------------------------
(* DcapTdxCollateralCache *)

\* BTreeMap's min_by_key: the first in key order of the earliest to expire and to be
\* fetched; digests order the keys, so any of them may be the first
Evictable ==
    {k \in DOMAIN bundles : \A other \in DOMAIN bundles :
        \/ bundles[k].until < bundles[other].until
        \/ bundles[k].until = bundles[other].until /\ bundles[k].fetched <= bundles[other].fetched}

Restricted(keys) == [k \in keys |-> bundles[k]]
Inserted(map, q, bundle) ==
    [k \in DOMAIN map \cup {q} |-> IF k = q THEN bundle ELSE map[k]]

\* Whether insert_for_quote takes it, and the map it leaves
MatchesQuote(q, bundle) == bundle.quote \in {Unset, q} /\ Validate(bundle)
InsertForQuote(q, bundle) ==
    IF q \in DOMAIN bundles \/ Cardinality(DOMAIN bundles) < MaxBundles
    THEN bundles' = Inserted(bundles, q, bundle)
    ELSE \E old \in Evictable : bundles' = Inserted(Restricted(DOMAIN bundles \ {old}), q, bundle)

Fetch(q) ==
    /\ InsertForQuote(q, FromCollateralAt(issued, q))
    /\ UNCHANGED <<day, flaw, issued, offline, verifier, quoteOk>>

\* The file may have been edited, or signed with another key.
InsertSigned(q) ==
    /\ offline # Unset
    /\ \E key \in {"trusted", "other"}, until \in {offline.until, offline.until + 1} :
          LET envelope == [Envelope(offline, key) EXCEPT !.bundle.until = until] IN
          /\ VerifyEnvelope(envelope) /\ MatchesQuote(q, envelope.bundle)
          /\ InsertForQuote(q, envelope.bundle)
    /\ UNCHANGED <<day, flaw, issued, offline, verifier, quoteOk>>

RemoveForQuote(q) ==
    /\ q \in DOMAIN bundles
    /\ bundles' = Restricted(DOMAIN bundles \ {q})
    /\ UNCHANGED <<day, flaw, issued, offline, verifier, quoteOk>>

\* verifier_for_quote_at: the verifier keeps the clock it was made at
VerifierForQuoteAt(q) ==
    /\ q \in DOMAIN bundles /\ Validate(bundles[q]) /\ IsValidAt(bundles[q], day)
    /\ verifier' = [verifier EXCEPT ![q] = [pieces |-> bundles[q].pieces, now |-> day]]
    /\ UNCHANGED <<day, flaw, issued, offline, bundles, quoteOk>>

-----------------------------------------------------------------------------
(* Verifying a quote *)

\* dcap_qvl: pieces in force at that second, no revoked key, and the status of the
\* platform and of the quoting enclave.  The overall status may hide the enclave's.
QvlFails(pieces, now) ==
    \/ \E p \in Pieces : now >= pieces[p].until
    \/ pieces["root_ca_crl"].bad \/ pieces["pck_crl"].bad
QvlReport(pieces) ==
    LET status(bad) == IF bad THEN "OutOfDate" ELSE "UpToDate" IN
    [status |-> status(pieces["tcb_info"].bad), platform |-> status(pieces["tcb_info"].bad),
     qe |-> status(pieces["qe_identity"].bad),
     advisories |-> IF pieces["tcb_info"].bad THEN {"advisory"} ELSE {}]

ValidateTcbStatus(report) ==
    /\ report.status = "UpToDate"
    /\ report.platform = "UpToDate" /\ report.qe = "UpToDate"
    /\ report.advisories = {}

VerifyTdxQuote(q, v) ==
    /\ v.now < ValidUntil(v.pieces)
    /\ ~QvlFails(v.pieces, v.now)
    /\ ValidateTcbStatus(QvlReport(v.pieces))
    /\ q.report \in {"TD10", "TD15", "TD15Ex"}

\* Strings are sequences of characters and a digest is the string it was made of.
Digest(string) == <<"sha256", string>>
HexDigits == {"0", "f"}
\* Fault: any hexadecimal nonce will do.
AnyNonceHex(nonce) == \A i \in 1..Len(nonce) : nonce[i] \in HexDigits

IsCanonicalNonceHex(nonce) ==
    Len(nonce) = NonceLength /\ \A i \in 1..Len(nonce) : nonce[i] \in HexDigits

ChutesExpectedPrefix(session) == Digest(session.nonce \o session.key)

ChutesLiveBinding(data, session) ==
    /\ IsCanonicalNonceHex(session.nonce) /\ session.key # <<>>
    /\ data = <<ChutesExpectedPrefix(session), Digest(session.spki)>>

ChutesE2eeBinding(data, session) ==
    /\ IsCanonicalNonceHex(session.nonce) /\ session.key # <<>>
    /\ data[1] = ChutesExpectedPrefix(session)

\* Tinfoil: the leaf's SPKI digest is the first half
TlsSpkiBinding(data, session) == data[1] = Digest(session.spki)

\* What the enclave that made the quote put in it
ReportData(q) ==
    IF q.provider = "tinfoil" THEN <<Digest(q.session.spki), Digest(q.session.key)>>
    ELSE <<ChutesExpectedPrefix(q.session), Digest(q.session.spki)>>

Bound(q, session, check) ==
    CASE check = "tinfoil" -> TlsSpkiBinding(ReportData(q), session)
      [] check = "chutes" -> ChutesLiveBinding(ReportData(q), session)
      [] check = "chutes_e2ee" -> ChutesE2eeBinding(ReportData(q), session)

CheckQuote(q) ==
    /\ verifier[q] # Unset /\ VerifyTdxQuote(q, verifier[q])
    /\ \E session \in Sessions, check \in {"tinfoil", "chutes", "chutes_e2ee"} :
          /\ Bound(q, session, check)
          /\ quoteOk' = [quoteOk EXCEPT ![q] = [session |-> session, check |-> check,
                                                until |-> ValidUntil(verifier[q].pieces)]]
    /\ verifier' = [verifier EXCEPT ![q] = Unset]
    /\ UNCHANGED <<day, flaw, issued, offline, bundles>>

TdxNext ==
    \/ Day \/ SaveOffline
    \/ \E piece \in Pieces : FlawFound(piece) \/ Reissue(piece)
    \/ \E q \in Quotes : Fetch(q) \/ InsertSigned(q) \/ RemoveForQuote(q) \/ VerifierForQuoteAt(q)
                         \/ CheckQuote(q)

TdxSpec == TdxInit /\ [][TdxNext]_tdxVars

-----------------------------------------------------------------------------
(* Properties *)

\* A flaw that Intel tells of in one piece of collateral ends every verdict that has
\* not taken it into account within the time that piece is issued for, through saved
\* bundles, the cache and verifiers that keep an old clock: the expiry of a verdict is
\* the earliest nextUpdate of all pieces (dcap_collateral_valid_until_epoch_millis),
\* not only of the ones that carry a status.
FlawEndsVerdicts ==
    \A q \in Quotes :
        (quoteOk[q] # Unset /\ flaw.piece # Unset /\ day < quoteOk[q].until)
            => day < flaw.since + Life[flaw.piece]

\* An accepted quote was made for the session it was accepted for: its nonce and key
\* (chutes bindings) and its certificate (live and TLS bindings).  Nonce and key are
\* hashed without a separator, so this rests on the fixed length of the nonce.
QuoteNamesSession ==
    \A q \in Quotes :
        (quoteOk[q] # Unset) =>
            LET made == q.session  used == quoteOk[q].session IN
            /\ quoteOk[q].check # "tinfoil" => made.nonce = used.nonce /\ made.key = used.key
            /\ quoteOk[q].check # "chutes_e2ee" => made.spki = used.spki
=============================================================================
