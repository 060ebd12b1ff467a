----------------------------- MODULE MCAdapters -----------------------------
(***************************************************************************)
(* The adapters, the collateral resolver and the key caches share no       *)
(* state.  part, chosen at the start, says which of them moves, so that    *)
(* one run explores each of them in full and none of their products.       *)
(***************************************************************************)
EXTENDS CachedKeys, Collateral, TLC

CONSTANTS p1, p2, p3

VARIABLE part

mcVars == <<part, adapterVars, collateralVars, keyVars>>

\* One slot with a queue timeout, or without and with an offline bundle: two quotes
\* of one platform and one whose key is its own.  Two slots for three quotes of one
\* platform: two write its file at once and the third reads it.
OwnKey == (p1 :> "platform") @@ (p2 :> "platform") @@ (p3 :> "quote")
MCPolicies ==
    {[concurrent |-> 1, timeout |-> TRUE, offline |-> FALSE, key |-> OwnKey],
     [concurrent |-> 1, timeout |-> FALSE, offline |-> TRUE, key |-> OwnKey],
     [concurrent |-> 2, timeout |-> FALSE, offline |-> FALSE,
      key |-> [r \in Resolves |-> "platform"]]}

Init ==
    /\ part \in {"adapters", "collateral", "vcek", "jwks"}
    /\ AdapterInit /\ CollateralInit /\ KeyInit
    /\ part # "adapters" => kind = "ppq"
    /\ part # "collateral" => policy.timeout

\* RedPill's sessions end with the last tick; by then one request at most is under way.
LastTickAlone ==
    now' = MaxNow => \A r, q \in Requests : r = q \/ "done" \in {req'[r].pc, req'[q].pc}

Next ==
    /\ UNCHANGED part
    /\ \/ part = "adapters" /\ AdapterNext /\ LastTickAlone /\ UNCHANGED <<collateralVars, keyVars>>
       \/ part = "collateral" /\ CollateralNext /\ UNCHANGED <<adapterVars, keyVars>>
       \/ part = "vcek" /\ VcekNext /\ UNCHANGED <<adapterVars, collateralVars>>
       \/ part = "jwks" /\ JwksNext /\ UNCHANGED <<adapterVars, collateralVars>>

SomethingMoves ==
    /\ \/ part = "adapters" /\ SomeRequestStep /\ UNCHANGED <<collateralVars, keyVars>>
       \/ part = "collateral" /\ SomeResolveStep /\ UNCHANGED <<adapterVars, keyVars>>
    /\ UNCHANGED part

Spec == Init /\ [][Next]_mcVars /\ WF_mcVars(SomethingMoves)

\* Every request of the SDK ends with an answer or an error, whatever the provider
\* does and however often the store drops its state; every collateral resolve ends,
\* also without a queue timeout, since a finished fetch wakes the next.
WorkEnds ==
    <>(/\ part = "adapters" => EveryRequestDone
       /\ part = "collateral" => EveryResolveDone)
=============================================================================
