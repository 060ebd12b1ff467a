----------------------------- MODULE Collateral -----------------------------
(***************************************************************************)
(* DcapTdxCollateralResolver: the collateral (CRLs, TCB info, QE identity) *)
(* a TDX quote is checked with.  A resolve looks in memory, then in the    *)
(* platform store, then in a file; else it takes one of a few fetch slots, *)
(* fetches with retries, and leaves the bundle in the store and the file.  *)
(* Resolves run concurrently in one process, and the process may die: the  *)
(* files stay.                                                             *)
(*                                                                         *)
(* The file system is modelled by inodes: fs::write opens (creating or     *)
(* truncating) and then writes; a file renamed while another resolve has   *)
(* it open is still the file that resolve writes to.  The temporary name   *)
(* holds the process id only, so the resolves of one process share it.     *)
(***************************************************************************)
EXTENDS Integers, Sequences, FiniteSets, SequencesExt

CONSTANTS
    Resolves,       \* calls of verifier_for_quote_at, each with a quote of its own
    Keys,           \* collateral cache keys
    PlatformKeys,   \* those that name a platform (FMSPC and CA), not one quote
    Offline,        \* resolves whose quote has an offline bundle in memory_cache
    Policies,       \* the configurations tried: max_concurrent_fetches (at least 1), whether
                    \* queue_timeout is set, whether the Offline bundles are loaded, and
                    \* the collateral_key_for_quote of each resolve's quote
    MaxQueued,      \* max_queued_fetches
    MaxAttempts,    \* max_attempts, at least 1
    StoreSize,      \* COLLATERAL_STORE_MAX_ENTRIES
    Validity,       \* how long fetched collateral is valid
    MaxTime         \* bound: clock ticks

Nothing == "nothing"    \* no such file, no PCK chain

ASSUME CollateralAssumption ==
    /\ IsFiniteSet(Resolves) /\ Nothing \notin Resolves
    /\ PlatformKeys \subseteq Keys /\ Offline \subseteq Resolves
    /\ {MaxAttempts, StoreSize, Validity} \subseteq Nat \ {0}
    /\ Policies \subseteq [concurrent : Nat \ {0}, timeout : BOOLEAN, offline : BOOLEAN,
                       key : [Resolves -> Keys]]
    \* a key that is not a platform's is the hash of one quote
    /\ \A p \in Policies, q, r \in Resolves :
          p.key[q] = p.key[r] /\ p.key[q] \notin PlatformKeys => q = r
    /\ {MaxQueued, MaxTime} \subseteq Nat

VARIABLES
    time,        \* the clock
    policy,      \* the configuration
    resolve,     \* where each resolve is
    held,        \* collateral_store: entries oldest first
    permits,     \* free permits of the semaphore
    waiters,     \* resolves waiting for a permit, first come first served
    queued,      \* queued_fetches
    file,        \* the committed cache file of each key: an inode or Nothing
    temp,        \* the temporary file of each key: an inode or Nothing
    content      \* what each inode holds

collateralVars == <<time, policy, resolve, held, permits, waiters, queued, file, temp, content>>
disk == <<file, temp, content>>
slots == <<permits, waiters, queued>>

\* A bundle: whose PCK chain it carries and when it expires.  An opened file that
\* is not written yet holds Torn, which from_json refuses.
Bundle(pck, until) == [pck |-> pck, until |-> until]
Torn == Bundle(Nothing, -1)

Queueing == {"waiting", "granted", "leaving"}
Holding == {"fetch", "insert", "open", "write", "rename", "finish"}
At(pcs) == {r \in Resolves : resolve[r].pc \in pcs}

Fresh(r) == [pc |-> "start", asked |-> 0, attempt |-> 1, bundle |-> Torn, inode |-> r,
             result |-> "none"]

CollateralInit ==
    /\ time = 0 /\ policy \in Policies
    /\ resolve = [r \in Resolves |-> Fresh(r)]
    /\ held = <<>> /\ permits = policy.concurrent /\ waiters = <<>> /\ queued = 0
    /\ file = [k \in Keys |-> Nothing] /\ temp = [k \in Keys |-> Nothing]
    /\ content = [r \in Resolves |-> Torn]

Goto(r, pc) == resolve' = [resolve EXCEPT ![r].pc = pc]
Ended(r, what, asked, bundle) ==
    [pc |-> "done", asked |-> asked, attempt |-> 1, bundle |-> bundle, inode |-> r,
     result |-> what]
Answered(r, what) ==
    [resolve EXCEPT ![r] = Ended(r, what, resolve[r].asked,
                                 IF what = "ok" THEN resolve[r].bundle ELSE Torn)]
Answer(r, what) == resolve' = Answered(r, what)
Serve(r, bundle) ==
    resolve' = [resolve EXCEPT ![r] = Ended(r, "ok", resolve[r].asked, bundle)]

-----------------------------------------------------------------------------
(* CollateralStore *)

HeldFor(key) == {e \in ToSet(held) : e.key = key}

\* A map has one entry per key.
WithoutKey(key) ==
    LET mine == {i \in DOMAIN held : held[i].key = key}
    IN  IF mine = {} THEN held ELSE RemoveAt(held, CHOOSE i \in mine : TRUE)

\* CollateralStore::insert
InsertHeld(key, bundle) ==
    LET all == Append(WithoutKey(key), [key |-> key, bundle |-> bundle])
    IN  IF Len(all) > StoreSize THEN Tail(all) ELSE all

\* Fault: a platform entry keeps the chain of the quote it was fetched for.
StoredFormKeepsChain(key, bundle) == bundle

\* insert_fetched_bundle: a platform entry is shared, so it drops the PCK chain.
StoredForm(key, bundle) == IF key \in PlatformKeys THEN Bundle(Nothing, bundle.until) ELSE bundle

-----------------------------------------------------------------------------
(* The lookups *)

\* memory_verifier_for_quote, then stored_verifier_for_key.  The clock is read once:
\* every later check of this resolve uses the time it was asked at.  An offline bundle is
\* valid throughout.
LookInMemory(r) ==
    LET live == {e \in HeldFor(policy.key[r]) : time < e.bundle.until}
        offline == policy.offline /\ r \in Offline
    IN
    /\ resolve[r].pc = "start"
    /\ IF offline \/ live # {}
       THEN \E bundle \in IF offline THEN {Bundle(r, time + Validity)}
                          ELSE {e.bundle : e \in live} :
              resolve' = [resolve EXCEPT ![r] = Ended(r, "ok", time, bundle)]
       ELSE resolve' = [resolve EXCEPT ![r] = [@ EXCEPT !.pc = "file", !.asked = time]]
    /\ UNCHANGED <<time, policy, held, slots, disk>>

\* What file_verifier_for_key accepts: it parses, it is of the key's form, and it is
\* still valid.
UsableFile(r, bundle) ==
    /\ bundle # Torn
    /\ bundle.pck = IF policy.key[r] \in PlatformKeys THEN Nothing ELSE r
    /\ resolve[r].asked < bundle.until

\* file_verifier_for_key: a good file also goes into the store.
ReadFile(r) ==
    LET key == policy.key[r] IN
    /\ resolve[r].pc = "file"
    /\ \/ /\ file[key] = Nothing /\ Goto(r, "slot") /\ UNCHANGED held
       \/ /\ file[key] # Nothing /\ UsableFile(r, content[file[key]])
          /\ Serve(r, content[file[key]])
          /\ held' = InsertHeld(key, content[file[key]])
       \/ /\ file[key] # Nothing /\ ~UsableFile(r, content[file[key]])
          /\ Goto(r, "remove") /\ UNCHANGED held
    /\ UNCHANGED <<time, policy, slots, disk>>

\* remove_cache_file: it removes what has the name by now, and nothing is fine too.
RemoveFile(r) ==
    /\ resolve[r].pc = "remove"
    /\ file' = [file EXCEPT ![policy.key[r]] = Nothing]
    /\ Goto(r, "slot")
    /\ UNCHANGED <<time, policy, held, slots, temp, content>>

-----------------------------------------------------------------------------
(* Fetch slots *)

\* acquire_fetch_slot: a free permit at once, or the queue.
TryAcquire(r) ==
    /\ resolve[r].pc = "slot"
    /\ IF permits > 0 THEN permits' = permits - 1 /\ Goto(r, "fetch")
                      ELSE UNCHANGED permits /\ Goto(r, "enter")
    /\ UNCHANGED <<time, policy, held, waiters, queued, disk>>

QueueFull(before) == before >= MaxQueued

\* QueuedFetchGuard::enter counts first and looks at the limit afterwards; a permit
\* freed in between is taken at once.
EnterQueue(r) ==
    /\ resolve[r].pc = "enter"
    /\ queued' = queued + 1
    /\ \/ QueueFull(queued) /\ Goto(r, "leaving") /\ UNCHANGED <<permits, waiters>>
       \/ /\ ~QueueFull(queued) /\ permits > 0
          /\ permits' = permits - 1 /\ Goto(r, "granted") /\ UNCHANGED waiters
       \/ /\ ~QueueFull(queued) /\ permits = 0
          /\ waiters' = Append(waiters, r) /\ Goto(r, "waiting") /\ UNCHANGED permits
    /\ UNCHANGED <<time, policy, held, disk>>

\* Fault: the count of a waiter that gives up stays.
ForgetGuard == UNCHANGED queued

\* QueuedFetchGuard::drop
DropGuard == queued' = queued - 1

LeaveFullQueue(r) ==
    /\ resolve[r].pc = "leaving"
    /\ DropGuard /\ Answer(r, "full")
    /\ UNCHANGED <<time, policy, held, permits, waiters, disk>>

TimeOut(r) ==
    /\ policy.timeout /\ resolve[r].pc = "waiting"
    /\ waiters' = RemoveAt(waiters, CHOOSE i \in DOMAIN waiters : waiters[i] = r)
    /\ DropGuard /\ Answer(r, "timeout")
    /\ UNCHANGED <<time, policy, held, permits, disk>>

StartFetch(r) ==
    /\ resolve[r].pc = "granted"
    /\ DropGuard /\ Goto(r, "fetch")
    /\ UNCHANGED <<time, policy, held, permits, waiters, disk>>

\* Fault: the permit is only put back, nobody is woken.
ReleaseWithoutWake(r, answered) ==
    permits' = permits + 1 /\ resolve' = answered /\ UNCHANGED waiters

\* OwnedSemaphorePermit::drop: the first waiter gets the permit.
Release(r, answered) ==
    IF waiters = <<>>
    THEN permits' = permits + 1 /\ resolve' = answered /\ UNCHANGED waiters
    ELSE /\ resolve' = [answered EXCEPT ![Head(waiters)].pc = "granted"]
         /\ waiters' = Tail(waiters) /\ UNCHANGED permits

-----------------------------------------------------------------------------
(* The fetch *)

\* fetch_bundle_once answers; the bundle tells whose chain it carries.
Fetch(r) ==
    /\ resolve[r].pc = "fetch"
    /\ resolve' = [resolve EXCEPT ![r] = [@ EXCEPT !.pc = "insert", !.attempt = 1,
                                                   !.bundle = Bundle(r, time + Validity)]]
    /\ UNCHANGED <<time, policy, held, slots, disk>>

\* A retryable outage (Http, a timeout) is tried again after a backoff.
RetryFetch(r) ==
    /\ resolve[r].pc = "fetch" /\ resolve[r].attempt < MaxAttempts
    /\ resolve' = [resolve EXCEPT ![r].attempt = @ + 1]
    /\ UNCHANGED <<time, policy, held, slots, disk>>

\* The attempts are used up, or the error is not worth another one.
FetchGivesUp(r) ==
    /\ resolve[r].pc = "fetch"
    /\ Release(r, Answered(r, "failed"))
    /\ UNCHANGED <<time, policy, held, queued, disk>>

InsertFetched(r) ==
    LET bundle == StoredForm(policy.key[r], resolve[r].bundle) IN
    /\ resolve[r].pc = "insert"
    /\ held' = InsertHeld(policy.key[r], bundle)
    /\ resolve' = [resolve EXCEPT ![r] = [@ EXCEPT !.pc = "open", !.bundle = bundle]]
    /\ UNCHANGED <<time, policy, slots, disk>>

\* write_file_bundle: open the temporary file, write it, rename it.  The rename
\* fails when another resolve has renamed the shared temporary file already.
OpenTemp(r) ==
    LET key == policy.key[r]
        inode == IF temp[key] = Nothing THEN r ELSE temp[key]
    IN
    /\ resolve[r].pc = "open"
    /\ temp' = [temp EXCEPT ![key] = inode]
    /\ content' = [content EXCEPT ![inode] = Torn]
    /\ resolve' = [resolve EXCEPT ![r] = [@ EXCEPT !.pc = "write", !.inode = inode]]
    /\ UNCHANGED <<time, policy, held, slots, file>>

WriteTemp(r) ==
    /\ resolve[r].pc = "write"
    /\ content' = [content EXCEPT ![resolve[r].inode] = resolve[r].bundle]
    /\ Goto(r, "rename")
    /\ UNCHANGED <<time, policy, held, slots, file, temp>>

RenameTemp(r) ==
    LET key == policy.key[r] IN
    /\ resolve[r].pc = "rename"
    /\ IF temp[key] # Nothing
       THEN /\ file' = [file EXCEPT ![key] = temp[key]]
            /\ temp' = [temp EXCEPT ![key] = Nothing]
            /\ Goto(r, "finish")
            /\ UNCHANGED slots
       ELSE /\ Release(r, Answered(r, "failed"))
            /\ UNCHANGED <<file, temp, queued>>
    /\ UNCHANGED <<time, policy, held, content>>

\* verifier_at, at the time the resolve was asked
Finish(r) ==
    /\ resolve[r].pc = "finish"
    /\ Release(r, Answered(r, IF resolve[r].asked < resolve[r].bundle.until THEN "ok" ELSE "failed"))
    /\ UNCHANGED <<time, policy, held, queued, disk>>

-----------------------------------------------------------------------------
TickTime ==
    /\ time < MaxTime /\ time' = time + 1
    /\ UNCHANGED <<policy, resolve, held, slots, disk>>

\* The process dies and another one starts: memory is empty, the temporary files of
\* the old process are nobody's, the calls in flight are lost.
Restart ==
    /\ At({"start"}) # {} /\ At({"start", "done"}) # Resolves
    /\ resolve' = [r \in Resolves |->
                      IF resolve[r].pc \in {"start", "done"} THEN resolve[r]
                      ELSE Ended(r, "lost", 0, Torn)]
    /\ held' = <<>> /\ permits' = policy.concurrent /\ waiters' = <<>> /\ queued' = 0
    /\ temp' = [k \in Keys |-> Nothing]
    /\ UNCHANGED <<time, policy, file, content>>

ResolveStep(r) ==
    \/ LookInMemory(r) \/ ReadFile(r) \/ RemoveFile(r) \/ TryAcquire(r) \/ EnterQueue(r)
    \/ LeaveFullQueue(r) \/ TimeOut(r) \/ StartFetch(r) \/ Fetch(r) \/ RetryFetch(r)
    \/ FetchGivesUp(r) \/ InsertFetched(r) \/ OpenTemp(r) \/ WriteTemp(r) \/ RenameTemp(r)
    \/ Finish(r)

\* The fairness assumed is weak fairness of this: some caller polls, and a fetch
\* attempt ends by its timeout.
SomeResolveStep == \E r \in Resolves : ResolveStep(r)

CollateralNext == SomeResolveStep \/ TickTime \/ Restart

CollateralSpec == CollateralInit /\ [][CollateralNext]_collateralVars

-----------------------------------------------------------------------------
(* Properties *)

Served == {r \in Resolves : resolve[r].result = "ok"}

\* A verifier is only ever built from a whole bundle that was valid when the resolve
\* was asked, and never with the PCK chain of another machine's quote, although the
\* resolves of one process write through one temporary name, share platform bundles
\* through store and file, and a crash may leave a truncated file behind.
ServedBundleFits ==
    \A r \in Served :
        /\ resolve[r].bundle # Torn
        /\ resolve[r].asked < resolve[r].bundle.until
        /\ resolve[r].bundle.pck \in {Nothing, r}

\* At most MaxQueued resolves wait and the counter is exactly the resolves inside
\* wait_for_fetch_slot; permits are neither lost nor made, and nobody waits while one
\* is free.  No path out of a resolve (full queue, timeout, failed fetch, lost rename)
\* leaks a place or a permit.
SlotsAccounted ==
    /\ Cardinality(At({"waiting", "granted"})) <= MaxQueued
    /\ queued = Cardinality(At(Queueing))
    /\ permits + Cardinality(At(Holding \cup {"granted"})) = policy.concurrent
    /\ waiters # <<>> => permits = 0

\* The resolver hands out whole, current and matching collateral, and no path out of
\* it leaks a slot.
CollateralSound == ServedBundleFits /\ SlotsAccounted

\* Every resolve has ended.
EveryResolveDone == \A r \in Resolves : resolve[r].pc = "done"
=============================================================================
