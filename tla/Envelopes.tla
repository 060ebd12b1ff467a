----------------------------- MODULE Envelopes -----------------------------
(***************************************************************************)
(* The three ways a chat body travels encrypted between the SDK and an     *)
(* attested workload: the SDK's own envelopes, EHBP (PPQ) and ML-KEM       *)
(* blobs (Chutes).  Whatever carries them may lose, repeat, reorder and    *)
(* mix them up, and write anything into the parts that are not encrypted.  *)
(*                                                                         *)
(* Keys are terms: two are equal when they are derived from equal inputs,  *)
(* a box opens under the key and the additional data it was sealed with,   *)
(* and only who holds a key seals under it.                                *)
(***************************************************************************)
EXTENDS Integers, Sequences, FiniteSets, SequencesExt

CONSTANTS
    Exchanges,  \* requests and their fresh secrets
    Ways,       \* routes: [id, provider, pmodel, scheme, keyId, key]
    Parts,      \* the chunks of an answer, a sequence
    Nobody,     \* no value
    Refused     \* the outcome of a request whose answer did not decrypt

Schemes == {"sdk", "ehbp", "chutes"}

ASSUME EnvelopesAssumption ==
    /\ \A way \in Ways :
          /\ way = [id |-> way.id, provider |-> way.provider, pmodel |-> way.pmodel,
                    scheme |-> way.scheme, keyId |-> way.keyId, key |-> way.key]
          /\ way.scheme \in Schemes
    /\ Nobody \notin Ways

VARIABLES
    asked,      \* the route of each request, or Nobody
    outgoing,   \* request envelopes ever sent
    incoming,   \* response envelopes ever sent
    opened,     \* what workloads have decrypted: [way, body]
    answers     \* what each request returned: Nobody, Refused or a plaintext

envelopeVars == <<asked, outgoing, incoming, opened, answers>>

Box(key, aad, plain) == [key |-> key, aad |-> aad, plain |-> plain]

\* Fault: a cipher without a tag.
OpensAlways(box, key, aad) == TRUE

Opens(box, key, aad) == box.key = key /\ box.aad = aad

\* diffie_hellman and encapsulate: the sender's secret and the recipient's key
Shared(secret, key) == [secret |-> secret, key |-> key]

-----------------------------------------------------------------------------
(* SDK envelopes *)

RouteMeta(way, id) == [id |-> way.id, provider |-> way.provider, pmodel |-> way.pmodel, request |-> id]

\* derive_sdk_app_e2ee_keys: the salt is made of route, request id and key id
SdkKey(shared, meta, keyId, info) == [shared |-> shared, salt |-> <<meta, keyId>>, info |-> info]

\* sdk_app_e2ee_context_json; responses leave the key id out
SdkAad(schema, meta, keyId) == [schema |-> schema, meta |-> meta, keyId |-> keyId]

SdkEncrypt(way, q) ==
    LET meta == RouteMeta(way, q) IN
    [scheme |-> "sdk", meta |-> meta, keyId |-> way.keyId, public |-> q,
     box |-> Box(SdkKey(Shared(q, way.key), meta, way.keyId, "request"),
                 SdkAad("request", meta, way.keyId), [body |-> q, reply |-> Nobody])]

\* SdkEncryptedChatEnvelope::decrypt_body, with the keys of a workload
SdkOpens(envelope, way) ==
    /\ envelope.meta = RouteMeta(way, envelope.meta.request)
    /\ envelope.keyId = way.keyId
    /\ Opens(envelope.box,
             SdkKey(Shared(envelope.public, way.key), envelope.meta, envelope.keyId, "request"),
             SdkAad("request", envelope.meta, envelope.keyId))

\* encrypt_response_body, in the session that decrypt_body returned
SdkRespond(envelope, way, answer) ==
    LET meta == RouteMeta(way, envelope.meta.request)
        key == SdkKey(Shared(envelope.public, way.key), envelope.meta, envelope.keyId, "response")
    IN  [scheme |-> "sdk", meta |-> meta, public |-> Nobody,
         boxes |-> <<Box(key, SdkAad("response", meta, Nobody), answer)>>]

\* SdkEncryptedChatResponseEnvelope::decrypt_body, in the context of a request
SdkOpensResponse(response, way, q) ==
    LET meta == RouteMeta(way, q) IN
    /\ response.meta = meta
    /\ Len(response.boxes) = 1
    /\ Opens(response.boxes[1], SdkKey(Shared(q, way.key), meta, way.keyId, "response"),
             SdkAad("response", meta, Nobody))

-----------------------------------------------------------------------------
(* EHBP: HPKE towards the enclave's key, chunks with sequence numbers back *)

EhbpEncrypt(way, q) ==
    [scheme |-> "ehbp", meta |-> RouteMeta(way, q), keyId |-> Nobody, public |-> q,
     box |-> Box([shared |-> Shared(q, way.key), info |-> "ehbp-request"], Nobody,
                 [body |-> q, reply |-> Nobody])]

EhbpOpens(envelope, way) ==
    Opens(envelope.box, [shared |-> Shared(envelope.public, way.key), info |-> "ehbp-request"], Nobody)

\* Request key and response nonce are the salt of the response key.
EhbpKey(shared, enc, nonce, seq) ==
    [exported |-> shared, salt |-> <<enc, nonce>>, nonce |-> seq, info |-> "ehbp-response"]

EhbpRespond(envelope, way, answer) ==
    [scheme |-> "ehbp", meta |-> envelope.meta, public |-> <<"nonce", envelope.public>>,
     boxes |-> [i \in DOMAIN Parts |->
                  Box(EhbpKey(Shared(envelope.public, way.key), envelope.public,
                              <<"nonce", envelope.public>>, i - 1),
                      Nobody, [answer EXCEPT !.parts = <<Parts[i]>>])]]

\* ehbp::decrypt: every chunk at its place; a body may end after any chunk
EhbpOpensResponse(response, way, q) ==
    \A i \in DOMAIN response.boxes :
        Opens(response.boxes[i], EhbpKey(Shared(q, way.key), q, response.public, i - 1), Nobody)

-----------------------------------------------------------------------------
(* Chutes: ML-KEM towards the instance's key, and back towards one in the request *)

ChutesEncrypt(way, q) ==
    [scheme |-> "chutes", meta |-> RouteMeta(way, q), keyId |-> Nobody, public |-> q,
     box |-> Box([shared |-> Shared(q, way.key), info |-> "e2e-req"], Nobody,
                 [body |-> q, reply |-> q])]

ChutesOpens(envelope, way) ==
    Opens(envelope.box, [shared |-> Shared(envelope.public, way.key), info |-> "e2e-req"], Nobody)

ChutesRespond(envelope, way, answer) ==
    [scheme |-> "chutes", meta |-> envelope.meta, public |-> way.key,
     boxes |-> <<Box([shared |-> Shared(way.key, envelope.box.plain.reply), info |-> "e2e-resp"],
                     Nobody, answer)>>]

\* decrypt_response; a blob that is too short has no box
ChutesOpensResponse(response, way, q) ==
    /\ Len(response.boxes) = 1
    /\ Opens(response.boxes[1], [shared |-> Shared(response.public, q), info |-> "e2e-resp"], Nobody)

-----------------------------------------------------------------------------
(* The exchange *)

Encrypt(way, q) ==
    CASE way.scheme = "sdk" -> SdkEncrypt(way, q)
      [] way.scheme = "ehbp" -> EhbpEncrypt(way, q)
      [] way.scheme = "chutes" -> ChutesEncrypt(way, q)

WorkloadOpens(envelope, way) ==
    /\ envelope.scheme = way.scheme
    /\ CASE way.scheme = "sdk" -> SdkOpens(envelope, way)
         [] way.scheme = "ehbp" -> EhbpOpens(envelope, way)
         [] way.scheme = "chutes" -> ChutesOpens(envelope, way)

Respond(envelope, way, answer) ==
    CASE way.scheme = "sdk" -> SdkRespond(envelope, way, answer)
      [] way.scheme = "ehbp" -> EhbpRespond(envelope, way, answer)
      [] way.scheme = "chutes" -> ChutesRespond(envelope, way, answer)

OpensResponse(response, way, q) ==
    CASE way.scheme = "sdk" -> SdkOpensResponse(response, way, q)
      [] way.scheme = "ehbp" -> EhbpOpensResponse(response, way, q)
      [] way.scheme = "chutes" -> ChutesOpensResponse(response, way, q)

Ask(q, way) ==
    /\ asked[q] = Nobody
    /\ asked' = [asked EXCEPT ![q] = way]
    /\ outgoing' = outgoing \cup {Encrypt(way, q)}
    /\ UNCHANGED <<incoming, opened, answers>>

\* The metadata in the clear may have been rewritten on the way.
Metas == {RouteMeta(way, q) : way \in Ways, q \in Exchanges}

Work(way) ==
    \E sent \in outgoing, meta \in Metas, public \in Exchanges :
        LET envelope == [sent EXCEPT !.meta = meta, !.public = public]
            answer == [to |-> envelope.box.plain.body, by |-> way.key, parts |-> Parts]
        IN  /\ WorkloadOpens(envelope, way)
            /\ opened' = opened \cup {[way |-> way, body |-> envelope.box.plain.body]}
            /\ incoming' = incoming \cup {Respond(envelope, way, answer)}
            /\ UNCHANGED <<asked, outgoing, answers>>

\* Boxes of one response, in any order, any of them missing or repeated
Rearranged(boxes) ==
    {[i \in DOMAIN order |-> boxes[order[i]]] :
        order \in UNION {[1..n -> DOMAIN boxes] : n \in 0..Len(boxes)}}

\* Fault: what was decrypted is passed on without parsing.
ParsedAnyhow(boxes) == boxes # <<>>

\* The plaintext is parsed as JSON: a part of an answer is none.
Parsed(boxes) ==
    boxes # <<>> /\ FlattenSeq([i \in DOMAIN boxes |-> boxes[i].plain.parts]) = Parts

Receive(q) ==
    /\ asked[q] # Nobody /\ answers[q] = Nobody
    /\ \E got \in incoming, meta \in Metas : \E boxes \in Rearranged(got.boxes) :
          LET response == [got EXCEPT !.meta = meta, !.boxes = boxes] IN
          /\ got.scheme = asked[q].scheme
          /\ answers' = [answers EXCEPT ![q] =
                IF OpensResponse(response, asked[q], q) /\ Parsed(boxes)
                THEN [to |-> boxes[1].plain.to, by |-> boxes[1].plain.by,
                      parts |-> FlattenSeq([i \in DOMAIN boxes |-> boxes[i].plain.parts])]
                ELSE Refused]
    /\ UNCHANGED <<asked, outgoing, incoming, opened>>

EnvelopeInit ==
    /\ asked = [q \in Exchanges |-> Nobody]
    /\ outgoing = {} /\ incoming = {} /\ opened = {}
    /\ answers = [q \in Exchanges |-> Nobody]

EnvelopeNext ==
    \/ \E q \in Exchanges, way \in Ways : Ask(q, way)
    \/ \E way \in Ways : Work(way)
    \/ \E q \in Exchanges : Receive(q)

EnvelopeSpec == EnvelopeInit /\ [][EnvelopeNext]_envelopeVars

-----------------------------------------------------------------------------
(* Properties *)

\* Whatever the network and the gateway do to envelopes, a workload decrypts only
\* bodies meant for its key (and, with SDK envelopes, for its route), and a request
\* returns the whole answer of the workload it was verified for to this very body,
\* or an error: never another request's answer, nor a part of its own.
OpensOnlyItsOwn ==
    /\ \A o \in opened :
          /\ asked[o.body].key = o.way.key
          /\ o.way.scheme = "sdk" => asked[o.body] = o.way
    /\ \A q \in Exchanges : answers[q] \notin {Nobody, Refused} =>
          answers[q] = [to |-> q, by |-> asked[q].key, parts |-> Parts]
=============================================================================
