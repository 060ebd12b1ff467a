----------------------------- MODULE SnpReports -----------------------------
(***************************************************************************)
(* verify_tinfoil_quote_with_vcek_at: a SEV-SNP report, the VCEK it is     *)
(* signed with and the certificate seen on the live connection, against a  *)
(* host that installs, commits and rolls back firmware under the client.   *)
(*                                                                         *)
(* The machine (AMD's firmware interface) is external: it is modelled from *)
(* what the checks rely on.  A firmware update runs provisionally until it *)
(* is committed; what is committed never goes back; the TCB that reports   *)
(* name, and that the VCEK is derived from, is at most the committed one.  *)
(***************************************************************************)
EXTENDS Integers, Sequences, FiniteSets

CONSTANTS
    Levels,       \* firmware bundles, oldest first: a TCB and a firmware version
    Guests,       \* virtual machines; a guest serves TLS with a key of its own
    Policies,     \* guest policies tried: sets of bits
    Shapes,       \* the shapes of report tried: format, length, version, ...
    MinTcb,       \* the least boot loader, SNP and microcode levels
    MinFirmware,  \* the least firmware version: major, minor, build
    VcekLife,     \* the VCEK's notBefore and notAfter, in milliseconds
    MaxMs,        \* bound: the clock
    None          \* no guest, no verdict

TcbParts == {"boot", "tee", "snp", "ucode"}
Tcb(l) == Levels[l].tcb
Firmware(l) == Levels[l].firmware

\* Versions in the order of their parts
Versions == [major : Nat, minor : Nat, build : Nat]
Older(v, w) == \/ v.major < w.major
               \/ v.major = w.major /\ v.minor < w.minor
               \/ v.major = w.major /\ v.minor = w.minor /\ v.build < w.build

ASSUME SnpReportsAssumption ==
    /\ Levels \in Seq([tcb : [TcbParts -> Nat], firmware : Versions]) /\ Levels # <<>>
    /\ MinTcb \in [TcbParts -> Nat] /\ MinFirmware \in Versions
    /\ \A l, m \in DOMAIN Levels :     \* an update never lowers a security version
          l <= m => (\A part \in TcbParts : Tcb(l)[part] <= Tcb(m)[part]) /\ ~Older(Firmware(m), Firmware(l))
    /\ MaxMs \in Nat

VARIABLES
    chip,      \* the levels the machine runs, has committed, and reports
    guest,     \* launched guests: launch level, policy, the key their report data names
    ms,        \* the clock
    verdict    \* the last accepted report: the guest that made it, the connection, the expiry

snpVars == <<chip, guest, ms, verdict>>

SnpInit ==
    /\ chip = [current |-> 1, committed |-> 1, reported |-> 1]
    /\ guest = [g \in Guests |-> None]
    /\ ms = 0 /\ verdict = None

-----------------------------------------------------------------------------
(* The machine *)

Install ==
    /\ chip.current < Len(Levels)
    /\ chip' = [chip EXCEPT !.current = @ + 1]
    /\ UNCHANGED <<guest, ms, verdict>>

Commit ==
    /\ chip.committed < chip.current
    /\ chip' = [chip EXCEPT !.committed = chip.current]
    /\ UNCHANGED <<guest, ms, verdict>>

RollBack ==
    /\ chip.committed < chip.current
    /\ chip' = [chip EXCEPT !.current = chip.committed]
    /\ UNCHANGED <<guest, ms, verdict>>

SetReported ==
    /\ \E l \in 1..chip.committed : chip' = [chip EXCEPT !.reported = l]
    /\ UNCHANGED <<guest, ms, verdict>>

\* An image may put any key in its report data.
Launch(g) ==
    /\ guest[g] = None
    /\ \E policy \in Policies, key \in Guests :
          guest' = [guest EXCEPT ![g] = [launch |-> chip.current, policy |-> policy, key |-> key]]
    /\ UNCHANGED <<chip, ms, verdict>>

TickMs == ms < MaxMs /\ ms' = ms + 1 /\ UNCHANGED <<chip, guest, verdict>>

\* The key a chip signs with, and the certificate AMD gives for it
VcekKey(hwid, tcb) == [hwid |-> hwid, tcb |-> tcb]
Vcek(hwid, l, genuine) ==
    [issuer |-> "SEV-Genoa", signer |-> IF genuine THEN "ask" ELSE "other",
     key |-> VcekKey(hwid, Tcb(l)), life |-> VcekLife,
     ext |-> <<<<"hwid", hwid>>>> \o
             [i \in 1..4 |-> LET part == <<"boot", "tee", "snp", "ucode">>[i] IN <<part, Tcb(l)[part]>>]]

\* The certificates that come back for a report: the right one, another chip's or
\* level's, one by another signer, one that carries an extension twice or not at all
Certificates ==
    LET good == Vcek("this", chip.reported, TRUE) IN
    {Vcek("this", l, TRUE) : l \in DOMAIN Levels}
    \cup {Vcek("that", chip.reported, TRUE), Vcek("this", chip.reported, FALSE),
          [good EXCEPT !.ext = @ \o <<<<"snp", 99>>>>], [good EXCEPT !.ext = SubSeq(@, 1, 4)]}

Report(g, shape) ==
    [policy |-> guest[g].policy, platform |-> shape.platform,
     reported |-> Tcb(chip.reported), current |-> Tcb(chip.current),
     committed |-> Tcb(chip.committed), launch |-> Tcb(guest[g].launch),
     firmware |-> Firmware(chip.current), committedFirmware |-> Firmware(chip.committed),
     data |-> guest[g].key, hwid |-> "this", signer |-> VcekKey("this", Tcb(chip.reported))]

-----------------------------------------------------------------------------
(* The checks, in the code's order *)

\* parse_tinfoil_live_capture: the digest the capture claims for the certificate, and
\* a body that inflates to a quote of the right length
ParseTinfoilLiveCapture(shape, claimed, leaf) ==
    /\ shape.schema = "v1"
    /\ claimed = leaf
    /\ shape.format \in {"tdx", "snp"}
    /\ shape.inflated = "within limit"
    /\ shape.format = "snp" => shape.whole

\* verify_report_reserved_fields: a version 2 report has three reserved bytes more;
\* the signer bits may only name a VCEK
ReservedFieldsClear(shape) ==
    /\ shape.nonzero \cap ({"reserved", "padding", "signer"}
                           \cup IF shape.version = 2 THEN {"cpuid"} ELSE {}) = {}

WellFormed(shape) ==
    /\ shape.format = "snp" /\ shape.whole
    /\ shape.version \in 2..5
    /\ shape.algorithm = 1
    /\ ReservedFieldsClear(shape)

\* verify_genoa_chain_certs: ASK and ARK are constants of the crate
VerifyGenoaChain(cert) == cert.issuer = "SEV-Genoa" /\ cert.signer = "ask"

\* Each of the five extensions once, with the value of the report
VerifyVcekExtensions(cert, hwid, tcb) ==
    \A name \in {"hwid"} \cup TcbParts :
        LET found == {i \in DOMAIN cert.ext : cert.ext[i][1] = name} IN
        /\ Cardinality(found) = 1
        /\ \A i \in found : cert.ext[i][2] = IF name = "hwid" THEN hwid ELSE tcb[name]

TcbAtLeast(candidate, minimum) == \A part \in TcbParts : candidate[part] >= minimum[part]

\* The build is compared whatever the major and minor numbers are.
FirmwareRefused(v) ==
    \/ v.major < MinFirmware.major
    \/ v.major = MinFirmware.major /\ v.minor < MinFirmware.minor
    \/ v.build < MinFirmware.build

GuestPolicyMet(r) ==
    /\ {"smt", "reserved_one"} \subseteq r.policy
    /\ r.policy \cap {"migrate", "debug", "single_socket", "reserved"} = {}
    /\ {"smt", "tsme"} \subseteq r.platform
    /\ r.platform \cap {"tio", "reserved"} = {}

MeetsMinimum(tcb) == \A part \in TcbParts \ {"tee"} : tcb[part] >= MinTcb[part]

\* Fault: firmware that runs provisionally is good enough.
PolicyOfCurrent(r) ==
    /\ GuestPolicyMet(r)
    /\ r.current = r.committed /\ TcbAtLeast(r.current, r.reported)
    /\ MeetsMinimum(r.reported) /\ MeetsMinimum(r.launch)
    /\ ~FirmwareRefused(r.firmware)

\* A TCB version has its four parts only: that its reserved bytes are zero is left out.
VerifyReportPolicy(r) ==
    /\ GuestPolicyMet(r)
    /\ r.current = r.committed
    /\ TcbAtLeast(r.current, r.reported)
    /\ MeetsMinimum(r.reported) /\ MeetsMinimum(r.launch)
    /\ ~FirmwareRefused(r.firmware)
    /\ r.firmware = r.committedFirmware

EnsureVcekValidity(life) == life.from <= ms /\ ms < life.to

VerifyWithVcekAt(r, cert, leaf) ==
    /\ VerifyGenoaChain(cert)
    /\ r.signer = cert.key              \* the signature over the first 672 bytes
    /\ VerifyVcekExtensions(cert, r.hwid, r.reported)
    /\ VerifyReportPolicy(r)
    /\ r.data = leaf
    /\ EnsureVcekValidity(cert.life)

\* The client is connected to a guest, and is handed a capture and a certificate.  The
\* form of the report is checked before the certificate is looked at.
CheckReport(g, leaf) ==
    /\ guest[g] # None
    /\ \E shape \in {s \in Shapes : WellFormed(s)}, claimed \in Guests, cert \in Certificates :
          /\ ParseTinfoilLiveCapture(shape, claimed, leaf)
          /\ VerifyWithVcekAt(Report(g, shape), cert, leaf)
          /\ verdict' = [guest |-> g, leaf |-> leaf, until |-> cert.life.to]
    /\ UNCHANGED <<chip, guest, ms>>

SnpNext ==
    \/ Install \/ Commit \/ RollBack \/ SetReported \/ TickMs
    \/ \E g \in Guests : Launch(g) \/ \E leaf \in Guests : CheckReport(g, leaf)

SnpSpec == SnpInit /\ [][SnpNext]_snpVars

-----------------------------------------------------------------------------
(* Properties *)

\* Whatever the host does to the machine after a report was accepted, the machine
\* still runs firmware that meets the minimum (TCB parts and version), the guest was
\* launched on such a TCB and without debugging, and its report data names the key of
\* the connection.  verify_report_policy looks at the current, committed, reported and
\* launch versions because firmware that is not committed can be taken back.
AcceptedStaysPatched ==
    (verdict # None) =>
        LET g == guest[verdict.guest] IN
        /\ MeetsMinimum(Tcb(chip.current)) /\ ~Older(Firmware(chip.current), MinFirmware)
        /\ MeetsMinimum(Tcb(g.launch)) /\ "debug" \notin g.policy
        /\ g.key = verdict.leaf
=============================================================================
