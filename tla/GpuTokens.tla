----------------------------- MODULE GpuTokens -----------------------------
(***************************************************************************)
(* NVIDIA GPU attestation: the evidence a provider gives, its submission   *)
(* to NRAS (nvidia.rs), and the token NRAS answers with, which is checked  *)
(* with NRAS's published keys (gpu.rs).                                    *)
(*                                                                         *)
(* NRAS is external: it judges evidence, signs an overall token and one    *)
(* token for each GPU, and rotates its key.                                *)
(***************************************************************************)
EXTENDS Integers, Sequences, FiniteSets, SequencesExt

CONSTANTS
    Nonces,      \* nonces of verifications
    Forms,       \* the JSON forms of evidence payloads tried
    Answers,     \* the JSON forms of NRAS answers tried
    TokenLife,   \* how long a token is valid, in seconds
    MaxSecond,   \* bound: the clock
    Absent       \* no such field

\* The forms of answers that submit_gpu_evidence copes with
AnswerForms == {"pair", "object", "claims", "bare", "error"}

ASSUME GpuTokensAssumption == {TokenLife, MaxSecond} \subseteq Nat /\ Answers \subseteq AnswerForms

VARIABLES
    second,    \* the clock
    keys,      \* NRAS's keys, newest first: kid and key
    minted,    \* overall tokens NRAS has signed, which anyone may keep
    asks,      \* the verification: its nonce, the token, the keys it fetched; a ghost:
               \* NRAS judged the evidence it submitted good
    gpuOk      \* the accepted verification

gpuVars == <<second, keys, minted, asks, gpuOk>>

NotAsking == [pc |-> "idle"]

GpuInit ==
    /\ second = 0 /\ keys = <<[kid |-> 1, key |-> 1, crv |-> "P-384"]>> /\ minted = {}
    /\ asks = NotAsking /\ gpuOk = Absent

-----------------------------------------------------------------------------
(* NRAS *)

\* A new key, once; the old one stays published for a while.  A deployment that restarts
\* may use a kid again.
Rotate ==
    /\ Len(keys) = 1 /\ keys[1].key = 1
    /\ \E kid \in {1, 2}, crv \in {"P-384", "P-256"} :
          keys' = <<[kid |-> kid, key |-> 2, crv |-> crv]>> \o keys
    /\ UNCHANGED <<second, minted, asks, gpuOk>>

Retire ==
    /\ Len(keys) = 2
    /\ keys' = <<Head(keys)>>
    /\ UNCHANGED <<second, minted, asks, gpuOk>>

Second == second < MaxSecond /\ second' = second + 1 /\ UNCHANGED <<keys, minted, asks, gpuOk>>

Token(nonce, overall) ==
    [kid |-> Head(keys).kid, key |-> Head(keys).key, iss |-> "nras",
     alg |-> IF Head(keys).crv = "P-384" THEN "ES384" ELSE "ES256",
     nonce |-> nonce, version |-> "3.0", overall |-> overall, nbf |-> second,
     exp |-> second + TokenLife]

\* Evidence is signed by GPUs over a nonce; the judgement is on all of them.
Judgement(request) == \A e \in Range(request.list) : e.good /\ e.nonce = request.nonce

-----------------------------------------------------------------------------
(* The evidence *)

\* GPUs' evidence over some nonce, possibly an old one
Gpu(nonce, good) == [evidence |-> TRUE, nonce |-> nonce, good |-> good]

\* validate_provider_nonce: a payload without a nonce is fine
ValidateProviderNonce(payload, nonce) == payload.nonce \in {Absent, nonce}

\* nras_evidence_list_from_payload: evidence_list, an array, one object, a string
EvidenceList(payload) ==
    CASE payload.form \in {"evidence_list", "array"} -> payload.entries
      [] payload.form \in {"object", "string"} /\ payload.entries # <<>> -> <<Head(payload.entries)>>
      [] OTHER -> <<>>

ListUsable(list) == list # <<>> /\ \A e \in Range(list) : e.evidence

\* nras_gpu_attestation_request
Requests(payload, nonce) ==
    {request \in {[nonce |-> nonce, list |-> EvidenceList(payload)]} :
        ValidateProviderNonce(payload, nonce) /\ ListUsable(request.list)}

Payloads(nonce) ==
    {[form |-> f, nonce |-> said, entries |-> entries] :
        f \in Forms, said \in {Absent} \cup Nonces,
        entries \in {<<Gpu(n, TRUE), Gpu(nonce, good)>> : n \in Nonces, good \in BOOLEAN}
                    \cup {<<>>, <<[Gpu(nonce, TRUE) EXCEPT !.evidence = FALSE]>>}}

-----------------------------------------------------------------------------
(* Finding the token in NRAS's answer *)

Text(token) == [is |-> "text", token |-> token]
Label(l) == [is |-> "label", label |-> l]
List(items) == [is |-> "array", items |-> items]
Object(fields) == [is |-> "object", fields |-> fields]   \* in the order of their names

TokenKeys == <<"token", "jwt", "eat", "nras_token", "attestation_token", "REMOTE_GPU_CLAIMS">>

Foremost(numbers) == CHOOSE i \in numbers : \A j \in numbers : i <= j

\* The token of the first value that has one, as a set with at most one; Inner finds
\* the token of a value inside.
FirstToken(values, Inner(_)) ==
    LET found == {i \in DOMAIN values : Inner(values[i]) # {}}
    IN  IF found = {} THEN {} ELSE Inner(values[Foremost(found)])

\* Fault: the fields in their order, preferred ones or not.
ObjectTokenAny(fields, Inner(_)) == FirstToken([i \in DOMAIN fields |-> fields[i][2]], Inner)

\* An object has one field of a name.
ObjectToken(fields, Inner(_)) ==
    LET of(key) == UNION {Inner(fields[i][2]) : i \in {j \in DOMAIN fields : fields[j][1] = key}}
        preferred == {k \in DOMAIN TokenKeys : of(TokenKeys[k]) # {}}
    IN  IF preferred # {} THEN of(TokenKeys[Foremost(preferred)])
        ELSE FirstToken([i \in DOMAIN fields |-> fields[i][2]], Inner)

ArrayToken(items, Inner(_)) ==
    IF Len(items) >= 2 /\ items[1] = Label("JWT") /\ items[2].is = "text"
    THEN {items[2].token}
    ELSE FirstToken(items, Inner)

TokenOf(value, Inner(_)) ==
    CASE value.is = "text" -> {value.token}
      [] value.is = "label" -> {}
      [] value.is = "object" -> ObjectToken(value.fields, Inner)
      [] value.is = "array" -> ArrayToken(value.items, Inner)

\* extract_nras_token calls itself; the answers below nest at most four values deep.
NoToken(value) == {}
TokenAt1(value) == TokenOf(value, NoToken)
TokenAt2(value) == TokenOf(value, TokenAt1)
TokenAt3(value) == TokenOf(value, TokenAt2)
ExtractNrasToken(value) == TokenOf(value, TokenAt3)

Answer(form, overall, each) ==
    CASE form = "pair" -> List(<<List(<<Label("JWT"), Text(overall)>>), Object(<<<<"GPU-0", Text(each)>>>>)>>)
      [] form = "object" -> Object(<<<<"GPU-0", Text(each)>>, <<"token", Text(overall)>>>>)
      [] form = "claims" -> Object(<<<<"REMOTE_GPU_CLAIMS",
                                       List(<<List(<<Label("JWT"), Text(overall)>>),
                                              Object(<<<<"GPU-0", Text(each)>>>>)>>)>>>>)
      [] form = "bare" -> Text(overall)
      [] form = "error" -> Object(<<<<"message", Label("error")>>>>)

-----------------------------------------------------------------------------
(* A verification *)

StartGpu(nonce) ==
    /\ asks.pc = "idle"
    /\ asks' = [pc |-> "ask", nonce |-> nonce]
    /\ UNCHANGED <<second, keys, minted, gpuOk>>

\* submit_gpu_evidence
Submit ==
    /\ asks.pc = "ask"
    /\ \E payload \in Payloads(asks.nonce), form \in Answers :
          \E request \in Requests(payload, asks.nonce) :
             LET overall == Token(request.nonce, Judgement(request))
                 each == Token(request.nonce, Absent)
             IN  /\ minted' = minted \cup {overall}
                 /\ \E token \in ExtractNrasToken(Answer(form, overall, each)) :
                       asks' = [pc |-> "fetch", nonce |-> asks.nonce, token |-> token,
                                judged |-> Judgement(request)]
    /\ UNCHANGED <<second, keys, gpuOk>>

\* The payload is refused, or NRAS's answer has no token.
SubmitFails ==
    /\ asks.pc = "ask"
    /\ \/ \E payload \in Payloads(asks.nonce) : Requests(payload, asks.nonce) = {}
       \/ \E form \in Answers : ExtractNrasToken(Answer(form, Absent, Absent)) = {}
    /\ asks' = NotAsking
    /\ UNCHANGED <<second, keys, minted, gpuOk>>

\* The provider's evidence may come with a token of its own.
Supplied ==
    /\ asks.pc = "ask"
    /\ \E token \in minted :
          asks' = [pc |-> "fetch", nonce |-> asks.nonce, token |-> token, judged |-> FALSE]
    /\ UNCHANGED <<second, keys, minted, gpuOk>>

ValidateJwksShape(jwks) == jwks # <<>>

FetchJwks ==
    /\ asks.pc = "fetch" /\ ValidateJwksShape(keys)
    /\ asks' = [pc |-> "verify", nonce |-> asks.nonce, token |-> asks.token,
                judged |-> asks.judged, jwks |-> keys]
    /\ UNCHANGED <<second, keys, minted, gpuOk>>

\* select_jwk: the first with the token's kid, which every token of NRAS has
SelectJwk(jwks, kid) ==
    LET named == SelectSeq(jwks, LAMBDA jwk : jwk.kid = kid)
    IN  IF named = <<>> THEN {} ELSE {Head(named)}

P384PublicKey(jwk) == jwk.crv = "P-384"

SignatureValid(token, jwks) ==
    /\ token.alg = "ES384"
    /\ \E jwk \in SelectJwk(jwks, token.kid) : P384PublicKey(jwk) /\ jwk.key = token.key

\* validate_optional_time_claim; exp is not optional
InTime(token) == token.nbf <= second /\ token.exp > second

\* Fault: a token for any nonce.
VerifyAnyNonce(token, jwks, nonce) ==
    /\ SignatureValid(token, jwks)
    /\ token.iss = "nras" /\ token.version = "3.0" /\ token.overall = TRUE
    /\ InTime(token)

VerifyNrasJwt(token, jwks, nonce) ==
    /\ SignatureValid(token, jwks)
    /\ token.iss = "nras"
    /\ token.nonce = nonce
    /\ token.version = "3.0"
    /\ token.overall = TRUE
    /\ InTime(token)

FinishGpu ==
    /\ asks.pc = "verify"
    /\ gpuOk' = IF VerifyNrasJwt(asks.token, asks.jwks, asks.nonce)
                THEN [nonce |-> asks.nonce, at |-> second] ELSE Absent
    /\ asks' = NotAsking
    /\ UNCHANGED <<second, keys, minted>>

GpuNext ==
    \/ Rotate \/ Retire \/ Second \/ Submit \/ SubmitFails \/ Supplied \/ FetchJwks \/ FinishGpu
    \/ \E nonce \in Nonces : StartGpu(nonce)

GpuSpec == GpuInit /\ [][GpuNext]_gpuVars

-----------------------------------------------------------------------------
(* Properties *)

\* A verification that succeeds does so on NRAS's overall judgement of evidence for
\* its own nonce, while that judgement lasts, whatever tokens are replayed, wherever
\* the token stood in the answer, and however the keys rotate between the answer and
\* the fetch of the keys; and good evidence, just judged, is accepted if the key that
\* signed is still the one its kid names.
GpuVerdictRight ==
    /\ (gpuOk # Absent) =>
          \E t \in minted : t.nonce = gpuOk.nonce /\ t.overall = TRUE /\ gpuOk.at < t.exp
    /\ (asks.pc = "verify" /\ asks.judged /\ second < asks.token.exp /\ SignatureValid(asks.token, asks.jwks))
          => VerifyNrasJwt(asks.token, asks.jwks, asks.nonce)
=============================================================================
