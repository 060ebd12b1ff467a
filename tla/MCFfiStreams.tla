--------------------------- MODULE MCFfiStreams ---------------------------
(***************************************************************************)
(* FfiStreams and Bindings for TLC.  They share no state; part, chosen at  *)
(* the start, says what moves: in "client" and "stream" the C ABI, where   *)
(* the address of a freed client may be used again, with three threads on  *)
(* one stream, or that of a freed stream, with two threads on one client   *)
(* whose streams fail, panic or are cancelled; in "binding" the objects of *)
(* the three language bindings.  Threads (in a binding: hosts) are inter-  *)
(* changeable.                                                             *)
(***************************************************************************)
EXTENDS FfiStreams, Bindings, TLC

VARIABLE part

Symmetry == Permutations(Threads \cup Hosts)

MCInit ==
    /\ Init
    /\ BindingInit
    /\ \/ part = "binding"
       \/ part \in {"client", "stream"} /\ language = "go"

ClientAgain == \A s \in Streams \ {1} : owner'[s] = None

StreamAgain ==
    /\ Cardinality({t \in Threads : pc'[t] # "idle"}) <= 2
    /\ \A a \in ClientAddrs : clientAt'[a] \in {None, 1}
    /\ \A s \in Streams : \A i \in DOMAIN log'[s] : log'[s][i] \in {"error", "cancelled"}

MCNext ==
    /\ \/ part = "client" /\ Next /\ ClientAgain /\ UNCHANGED bindingVars
       \/ part = "stream" /\ Next /\ StreamAgain /\ UNCHANGED bindingVars
       \/ part = "binding" /\ BindingNext /\ UNCHANGED vars
    /\ UNCHANGED part

MCSpec == MCInit /\ [][MCNext]_<<vars, bindingVars, part>>
=============================================================================
