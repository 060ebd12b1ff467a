------------------------------ MODULE Adapters ------------------------------
(***************************************************************************)
(* The live provider adapters between the SDK and one attested route:      *)
(* Tinfoil, NEAR, PPQ, Chutes and RedPill.  fetch_evidence captures the    *)
(* state a later request will need (a TLS identity, an enclave key, an     *)
(* instance with one-use nonces, a session) in EvidenceStateStore under    *)
(* the digest of the evidence; chat finds it again by the digest the       *)
(* verdict was about.  The SDK's verification and its refresh after a key  *)
(* rotation are the steps around them.                                     *)
(*                                                                         *)
(* The provider is external.  It may change its identity, its session or   *)
(* its keyset between any two steps, lose an answer it worked on, and      *)
(* (RedPill's gateway) serve a request with another session than the one   *)
(* asked for; its receipts are signed by the attested gateway and true.    *)
(***************************************************************************)
EXTENDS Integers, Sequences, SequencesExt

CONSTANTS
    Kinds,          \* the adapters of this instance
    Requests,       \* requests that share one adapter
    MaxEntries,     \* EvidenceStateStore::MAX_ENTRIES
    MaxClients,     \* MAX_PINNED_CLIENTS
    NoncesEach,     \* nonces one Chutes discovery hands out
    SessionLife,    \* seconds a RedPill session lives
    TokenLife,      \* seconds an NRAS token lives
    MaxNow,         \* bound: clock ticks
    MaxRotations    \* bound: changes of the remote identity and session

ASSUME AdaptersAssumption ==
    /\ Kinds \subseteq {"tinfoil", "near", "ppq", "chutes", "redpill"}
    /\ {MaxEntries, MaxClients, NoncesEach, SessionLife, TokenLife} \subseteq Nat \ {0}
    /\ MaxNow \in Nat /\ MaxRotations \in Nat

VARIABLES
    kind,       \* which adapter this is
    now,        \* SystemTime, in seconds
    remote,     \* the provider: its current identity, and when its keyset ends
    sessions,   \* RedPill: the sessions established so far
    store,      \* EvidenceStateStore: entries oldest first
    cached,     \* RedPill: session_cache of the route, empty or one entry
    clients,    \* PinnedSpkiClientCache: keys oldest first
    verdict,    \* the digest the SDK's verdict cache holds for the route, or none
    req,        \* where each request is
    sends,      \* ghost: Chutes nonces in the order they were sent
    work        \* ghost: what the provider executed, in order

adapterVars == <<kind, now, remote, sessions, store, cached, clients, verdict, req,
                 sends, work>>
world == <<kind, remote, sessions>>

None == "none"
TlsPinned == {"tinfoil", "near", "redpill"}
Never == MaxNow + SessionLife + TokenLife + 1

\* What an adapter keeps per evidence: LiveTlsPeer, Enclave, AttestedChutesInstance
\* or SessionState; session, token and keyUntil only mean something for RedPill,
\* nonces for Chutes; at is a ghost, the time the session was taken from the list.
Value(identity, nonces, session, token, keyUntil) ==
    [identity |-> identity, nonces |-> nonces, session |-> session, token |-> token,
     keyUntil |-> keyUntil, at |-> 0]
NoValue == Value(0, <<>>, 0, 0, 0)

\* The digest of an evidence stands for its content: the nonce of the request it
\* was fetched for and what it says.  PPQ's evidence has no nonce.
Digest(nonce, value) == [nonce |-> nonce, identity |-> value.identity, session |-> value.session]
NoDigest == Digest(<<>>, NoValue)

Idle == [pc |-> "idle", op |-> "chat", digest |-> NoDigest, value |-> NoValue, nonce |-> <<>>,
         refreshes |-> 0, result |-> None]

AdapterInit ==
    /\ kind \in Kinds
    /\ now = 0
    /\ remote = [identity |-> 1, keyUntil |-> SessionLife + 1]
    /\ sessions = <<[est |-> 0, exp |-> SessionLife]>>
    /\ store = <<>> /\ cached = <<>> /\ clients = <<>> /\ verdict = NoDigest
    /\ req = [r \in Requests |-> Idle]
    /\ sends = <<>> /\ work = <<>>

-----------------------------------------------------------------------------
(* EvidenceStateStore *)

Entries(digest) == {i \in DOMAIN store : store[i].digest = digest}

\* A map has one entry per key.
WithoutEntry(digest) ==
    IF Entries(digest) = {} THEN store ELSE RemoveAt(store, CHOOSE i \in Entries(digest) : TRUE)

\* insert: an entry of the same key is replaced and becomes the youngest; the
\* oldest go while there are too many.
Insert(digest, value) ==
    LET all == Append(WithoutEntry(digest), [digest |-> digest, value |-> value])
    IN  IF Len(all) > MaxEntries THEN SubSeq(all, Len(all) - MaxEntries + 1, Len(all)) ELSE all

\* Fault: the newest state of the route, whatever evidence it came with.
GetByRoute(digest) == {store[i].value : i \in {Len(store)} \cap DOMAIN store}

\* get, as a set of at most one value
Get(digest) == {store[i].value : i \in Entries(digest)}

\* PinnedSpkiClientCache::client: a new client may push out the oldest.
ClientsWith(identity) ==
    CASE Contains(clients, identity) -> clients
      [] ~Contains(clients, identity) /\ Len(clients) >= MaxClients ->
            Append(Tail(clients), identity)
      [] OTHER -> Append(clients, identity)

-----------------------------------------------------------------------------
(* What a failure means to the SDK *)

RefreshLimit(r) ==
    IF req[r].op = "stream" THEN 0 ELSE IF kind = "redpill" THEN 2 ELSE 1

Done(r, what) == req' = [req EXCEPT ![r] = [Idle EXCEPT !.pc = "done", !.result = what]]

\* The loop around a dispatch: retry_key_rotation, then either a refresh of the
\* evidence or the error.
Refresh(r) ==
    req' = [req EXCEPT ![r] = [Idle EXCEPT !.pc = "fetch", !.op = req[r].op,
                                        !.refreshes = req[r].refreshes + 1]]

ChatFails(r, error) ==
    IF error = "KeyRotation" /\ req[r].refreshes < RefreshLimit(r)
    THEN Refresh(r)
    ELSE Done(r, error)

-----------------------------------------------------------------------------
(* fetch_evidence *)

\* A request uses the cached verdict, or has its route verified.  Only Tinfoil's
\* adapter has embeddings and streams.
Begin(r) ==
    /\ req[r].pc = "idle"
    /\ \E op \in IF kind = "tinfoil" THEN {"chat", "embeddings", "stream"} ELSE {"chat"} :
          \/ /\ verdict # NoDigest
             /\ req' = [req EXCEPT ![r] = [@ EXCEPT !.pc = "chat", !.op = op, !.digest = verdict]]
          \/ req' = [req EXCEPT ![r] = [@ EXCEPT !.pc = "fetch", !.op = op]]
    /\ UNCHANGED <<world, now, store, cached, clients, verdict, sends, work>>

\* The first answer of a fetch: the identity of the TLS peer that sent the report
\* (or, PPQ, the key in the bundle).
Report(r, next, nonces) ==
    /\ req[r].pc = "fetch"
    /\ req' = [req EXCEPT ![r] = [@ EXCEPT
                !.pc = next,
                !.value = Value(remote.identity, nonces, 0, Never, remote.keyUntil)]]
    /\ UNCHANGED <<world, now, store, cached, verdict, sends, work>>

TinfoilReport(r) == kind = "tinfoil" /\ Report(r, "capture", <<>>) /\ UNCHANGED clients
NearReport(r) == kind = "near" /\ Report(r, "capture", <<>>) /\ UNCHANGED clients
PpqBundle(r) == kind = "ppq" /\ Report(r, "capture", <<>>) /\ UNCHANGED clients

\* Chutes: resolve_chute_id and discover_instance, which passes over an instance
\* without nonces.
DiscoverInstance(r) ==
    /\ kind = "chutes"
    /\ Report(r, "evidence", [n \in 1..NoncesEach |-> <<r, req[r].refreshes, n>>])
    /\ UNCHANGED clients

\* RedPill: what follows goes over a client pinned to the peer of the report.
RedpillReport(r) ==
    kind = "redpill" /\ Report(r, "sessions", <<>>) /\ clients' = ClientsWith(remote.identity)

\* Chutes: the evidence of the discovered instance; another instance answering is a
\* key rotation, which ends this verification.
FetchInstanceEvidence(r) ==
    /\ req[r].pc = "evidence"
    /\ IF remote.identity = req[r].value.identity
       THEN req' = [req EXCEPT ![r].pc = "capture"]
       ELSE Done(r, "NotSent")
    /\ UNCHANGED <<world, now, store, cached, clients, verdict, sends, work>>

\* newest_session over what the gateway lists; CachedSession::matches_listed.  The
\* pinned client refuses a gateway whose identity changed.
Listed == {s \in DOMAIN sessions : now < sessions[s].exp}
Newest == CHOOSE s \in Listed : \A other \in Listed : sessions[other].est <= sessions[s].est
MatchesListed(s) == \E c \in DOMAIN cached : cached[c].session = s /\ cached[c].notAfter > now

ListSessions(r) ==
    /\ req[r].pc = "sessions"
    /\ \/ /\ (remote.identity # req[r].value.identity \/ Listed = {})
          /\ Done(r, "NotSent")
       \/ /\ remote.identity = req[r].value.identity
          /\ Listed # {}
          /\ LET value == [req[r].value EXCEPT !.session = Newest, !.at = now] IN
             IF MatchesListed(Newest)
             THEN req' = [req EXCEPT ![r] = [@ EXCEPT
                             !.pc = "capture", !.value = [value EXCEPT !.token = cached[1].token]]]
             ELSE req' = [req EXCEPT ![r] = [@ EXCEPT !.pc = "session", !.value = value]]
    /\ UNCHANGED <<world, now, store, cached, clients, verdict, sends, work>>

\* The session document and a fresh NRAS token for its GPU evidence.
FetchSession(r) ==
    /\ req[r].pc = "session"
    /\ IF remote.identity = req[r].value.identity
       THEN req' = [req EXCEPT ![r] = [@ EXCEPT
                       !.pc = "capture",
                       !.value = [req[r].value EXCEPT !.token = now + TokenLife]]]
       ELSE Done(r, "NotSent")
    /\ UNCHANGED <<world, now, store, cached, clients, verdict, sends, work>>

\* Any request of the fetch may fail; the verification fails with it.
FetchFails(r) ==
    /\ req[r].pc \in {"fetch", "evidence", "sessions", "session"}
    /\ Done(r, "NotSent")
    /\ UNCHANGED <<world, now, store, cached, clients, verdict, sends, work>>

\* The end of fetch_evidence: the state goes into the store under the digest.
Capture(r) ==
    LET nonce == IF kind = "ppq" THEN <<>> ELSE <<r, req[r].refreshes>>
        digest == Digest(nonce, req[r].value)
    IN
    /\ req[r].pc = "capture"
    /\ store' = Insert(digest, req[r].value)
    /\ req' = [req EXCEPT ![r] = [@ EXCEPT !.pc = "verify", !.digest = digest]]
    /\ UNCHANGED <<world, now, cached, clients, verdict, sends, work>>

\* The SDK verifies what was fetched; a token or session that has expired by then
\* is refused, and so may anything be.
Verify(r) ==
    /\ req[r].pc = "verify"
    /\ \/ /\ kind = "redpill" =>
                /\ now < req[r].value.token
                /\ now < sessions[req[r].value.session].exp
          /\ verdict' = req[r].digest
          /\ req' = [req EXCEPT ![r] = [@ EXCEPT !.pc = "chat", !.value = NoValue]]
       \/ Done(r, "NotSent") /\ UNCHANGED verdict
    /\ UNCHANGED <<world, now, store, cached, clients, sends, work>>

-----------------------------------------------------------------------------
(* chat, chat_stream and embeddings *)

\* Fault: the horizon forgets the token.
SessionHorizon(value) == sessions[value.session].exp

\* cache_not_after, which is None without a token
CacheNotAfter(value) ==
    LET exp == sessions[value.session].exp IN IF exp < value.token THEN exp ELSE value.token

\* Fault: the nonce is read and left in place.
PeekNonce(digest, value) == store

\* take_attested_invocation's pop_front, under the store's lock
PopNonce(digest, value) ==
    [i \in DOMAIN store |->
        IF store[i].digest = digest
        THEN [store[i] EXCEPT !.value.nonces = Tail(@)] ELSE store[i]]

\* A handler up to its send, when the state is there: it goes with the request.
Prepared(r, value, nonce) ==
    /\ req' = [req EXCEPT ![r] = [@ EXCEPT !.pc = "send", !.value = value, !.nonce = nonce]]
    /\ clients' = IF kind \in TlsPinned THEN ClientsWith(value.identity) ELSE clients
    /\ UNCHANGED <<world, now, verdict, sends, work>>

\* lookup_for_request: no state for the digest is a key rotation.
StateMissing(r) ==
    /\ req[r].pc = "chat" /\ Get(req[r].digest) = {}
    /\ ChatFails(r, "KeyRotation")
    /\ UNCHANGED <<world, now, store, cached, clients, verdict, sends, work>>

Rotated(r) ==
    ChatFails(r, "KeyRotation")
    /\ UNCHANGED <<world, now, store, cached, clients, verdict, sends, work>>

Ready(r, op) == req[r].pc = "chat" /\ req[r].op = op

TinfoilChat(r) ==
    /\ kind = "tinfoil" /\ Ready(r, "chat")
    /\ \E value \in Get(req[r].digest) : Prepared(r, value, <<>>) /\ UNCHANGED <<store, cached>>
TinfoilEmbeddings(r) ==
    /\ kind = "tinfoil" /\ Ready(r, "embeddings")
    /\ \E value \in Get(req[r].digest) : Prepared(r, value, <<>>) /\ UNCHANGED <<store, cached>>
TinfoilChatStream(r) ==
    /\ kind = "tinfoil" /\ Ready(r, "stream")
    /\ \E value \in Get(req[r].digest) : Prepared(r, value, <<>>) /\ UNCHANGED <<store, cached>>
NearChat(r) ==
    /\ kind = "near" /\ Ready(r, "chat")
    /\ \E value \in Get(req[r].digest) : Prepared(r, value, <<>>) /\ UNCHANGED <<store, cached>>
PpqChat(r) ==
    /\ kind = "ppq" /\ Ready(r, "chat")
    /\ \E value \in Get(req[r].digest) : Prepared(r, value, <<>>) /\ UNCHANGED <<store, cached>>

\* take_attested_invocation, then the encrypted request
ChutesChat(r) ==
    /\ kind = "chutes" /\ Ready(r, "chat")
    /\ \E value \in Get(req[r].digest) :
          \/ value.nonces = <<>> /\ Rotated(r)
          \/ /\ value.nonces # <<>>
             /\ Prepared(r, value, Head(value.nonces))
             /\ store' = PopNonce(req[r].digest, value)
             /\ UNCHANGED cached

\* An expired session or keyset is a key rotation; else session_cache is filled.
RedpillChat(r) ==
    /\ kind = "redpill" /\ Ready(r, "chat")
    /\ \E value \in Get(req[r].digest) :
          LET live == now < sessions[value.session].exp /\ now < value.keyUntil IN
          \/ ~live /\ Rotated(r)
          \/ /\ live /\ Prepared(r, value, <<>>)
             /\ cached' = <<[session |-> value.session, token |-> value.token,
                             notAfter |-> CacheNotAfter(value)]>>
             /\ UNCHANGED store

\* Fault: a transport failure is taken for a refused handshake.
EveryFailureIsRotation(refused) == "KeyRotation"

\* map_send_error: only a refused pin proves that nothing was sent.
MapSendError(refused) == IF refused THEN "KeyRotation" ELSE "Http"

Executed(r, session) ==
    work' = Append(work, [request |-> r, digest |-> req[r].digest,
                          identity |-> remote.identity, session |-> session, at |-> now])

\* The request meets a provider that is not the one it was prepared for: the pin
\* refuses the handshake, or the provider cannot decrypt it and says so.
SendToOther(r) ==
    /\ req[r].pc = "send"
    /\ remote.identity # req[r].value.identity
    /\ IF kind \in TlsPinned THEN ChatFails(r, MapSendError(TRUE)) ELSE Done(r, "HttpStatus")
    /\ sends' = IF kind = "chutes" THEN Append(sends, req[r].nonce) ELSE sends
    /\ UNCHANGED <<world, now, store, cached, clients, verdict, work>>

\* RedPill's gateway refuses a superseded session with 412 before any work:
\* session_refusal makes it a key rotation.
RefuseSession(r) ==
    /\ req[r].pc = "send" /\ kind = "redpill"
    /\ remote.identity = req[r].value.identity
    /\ req[r].value.session # Len(sessions)
    /\ ChatFails(r, "KeyRotation")
    /\ UNCHANGED <<world, now, store, cached, clients, verdict, sends, work>>

\* The provider executes; its answer arrives, or the connection breaks first.
Execute(r) ==
    /\ req[r].pc = "send"
    /\ remote.identity = req[r].value.identity
    /\ \E session \in IF kind = "redpill" THEN DOMAIN sessions ELSE {0} : Executed(r, session)
    /\ sends' = IF kind = "chutes" THEN Append(sends, req[r].nonce) ELSE sends
    /\ \/ kind = "redpill" /\ req' = [req EXCEPT ![r].pc = "receipt"]
       \/ kind # "redpill" /\ Done(r, "ok")
       \/ ChatFails(r, MapSendError(FALSE))
    /\ UNCHANGED <<world, now, store, cached, clients, verdict>>

\* The connection breaks before the provider got the request.
SendFails(r) ==
    /\ req[r].pc = "send"
    /\ sends' = IF kind = "chutes" THEN Append(sends, req[r].nonce) ELSE sends
    /\ ChatFails(r, MapSendError(FALSE))
    /\ UNCHANGED <<world, now, store, cached, clients, verdict, work>>

Receipt(r) == LET mine == {i \in DOMAIN work : work[i].request = r}
              IN  work[CHOOSE i \in mine : \A j \in mine : j <= i]

\* Fault: any verified upstream will do.
VerifyReceiptAnySession(receipt, value) ==
    /\ sessions[value.session].est <= receipt.at
    /\ receipt.at < sessions[value.session].exp
    /\ receipt.at < value.keyUntil

\* verify_receipt: every upstream of the event log is the captured session, served
\* while session and keyset were valid.  The signature and the hashes of both
\* bodies hold for a receipt of this exchange.
VerifyReceipt(receipt, value) ==
    /\ sessions[value.session].est <= receipt.at
    /\ receipt.at < sessions[value.session].exp
    /\ receipt.at < value.keyUntil
    /\ receipt.session = value.session

\* The receipt is fetched over the same pinned client; once the request has been
\* sent every failure is an adapter failure.
FetchReceipt(r) ==
    /\ req[r].pc = "receipt"
    /\ \/ /\ remote.identity = req[r].value.identity
          /\ Done(r, IF VerifyReceipt(Receipt(r), req[r].value) THEN "ok" ELSE "Adapter")
       \/ ChatFails(r, "Adapter")
    /\ UNCHANGED <<world, now, store, cached, clients, verdict, sends, work>>

-----------------------------------------------------------------------------
(* The provider and the clock *)

\* The provider comes back with another key: a new certificate, enclave or instance.
RotateIdentity ==
    /\ remote.identity + Len(sessions) < MaxRotations + 2
    /\ remote' = [identity |-> remote.identity + 1, keyUntil |-> now + SessionLife + 1]
    /\ UNCHANGED <<kind, sessions, now, store, cached, clients, verdict, req, sends, work>>

EstablishSession ==
    /\ kind = "redpill" /\ remote.identity + Len(sessions) < MaxRotations + 2
    /\ sessions' = Append(sessions, [est |-> now, exp |-> now + SessionLife])
    /\ UNCHANGED <<kind, remote, now, store, cached, clients, verdict, req, sends, work>>

Tick ==
    /\ kind = "redpill" /\ now < MaxNow
    /\ now' = now + 1
    /\ UNCHANGED <<world, store, cached, clients, verdict, req, sends, work>>

RequestStep(r) ==
    \/ Begin(r) \/ TinfoilReport(r) \/ NearReport(r) \/ PpqBundle(r) \/ DiscoverInstance(r)
    \/ RedpillReport(r) \/ FetchInstanceEvidence(r) \/ ListSessions(r) \/ FetchSession(r)
    \/ FetchFails(r) \/ Capture(r) \/ Verify(r)
    \/ StateMissing(r) \/ TinfoilChat(r) \/ TinfoilEmbeddings(r) \/ TinfoilChatStream(r)
    \/ NearChat(r) \/ PpqChat(r) \/ ChutesChat(r) \/ RedpillChat(r)
    \/ SendToOther(r) \/ RefuseSession(r) \/ Execute(r) \/ SendFails(r) \/ FetchReceipt(r)

\* The fairness assumed is weak fairness of this: some caller polls.
SomeRequestStep == \E r \in Requests : RequestStep(r)

AdapterNext == SomeRequestStep \/ RotateIdentity \/ EstablishSession \/ Tick

AdapterSpec == AdapterInit /\ [][AdapterNext]_adapterVars

-----------------------------------------------------------------------------
(* Properties *)

\* Whatever the provider executes for a request, it executes under the identity in
\* the very evidence the request's verdict is about, however many captures other
\* requests made in between.
WorkUnderVerifiedIdentity == \A i \in DOMAIN work : work[i].digest.identity = work[i].identity

\* No request is executed twice: a retry after a refresh of the evidence follows
\* only failures that prove the provider did nothing.
WorkedAtMostOnce ==
    \A i, j \in DOMAIN work : work[i].request = work[j].request => i = j

\* A one-use Chutes nonce is sent once, also when several requests share one
\* verified evidence.
NonceSentOnce == \A i, j \in DOMAIN sends : sends[i] = sends[j] => i = j

\* RedPill: an answer the caller gets was produced by the session its evidence
\* named, during that session's life, whatever the gateway did.
AnswerFromVerifiedSession ==
    \A r \in Requests :
        (kind = "redpill" /\ req[r].result = "ok") =>
            LET w == Receipt(r) IN
            /\ w.digest.session = w.session
            /\ sessions[w.session].est <= w.at /\ w.at < sessions[w.session].exp

\* RedPill: a capture made from a cached session carries a token that was alive
\* when the gateway listed the session; a stale one would fail every verification
\* until the session itself is gone.
NoStaleToken ==
    \A r \in Requests :
        (kind = "redpill" /\ req[r].pc = "verify") => req[r].value.at < req[r].value.token

\* Work is done for a verified peer only: the provider executes a request under the
\* identity its own verdict is about, and what the caller gets was produced by the
\* session that was verified.
VerifiedPeerOnly == WorkUnderVerifiedIdentity /\ AnswerFromVerifiedSession

\* Nothing is sent twice that must not be: no request is executed a second time and
\* no one-use nonce leaves a second time, through refreshes, evictions, lost answers
\* and concurrent chats on one evidence.
NothingTwice == WorkedAtMostOnce /\ NonceSentOnce

\* Every request has ended with an answer or an error.
EveryRequestDone == \A r \in Requests : req[r].pc = "done"
=============================================================================
