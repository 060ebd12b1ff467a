---------------------------- MODULE EventStream ----------------------------
(***************************************************************************)
(* What the C ABI promises the host about the events of a stream, with no  *)
(* threads, handles or tasks in it: a stream says its verdict, then its    *)
(* chunks, then its usage, then that it is done; it may be cut short at    *)
(* any point by one error or one cancellation; every event is delivered    *)
(* once and in order; and "closed" is said only when nothing is left and   *)
(* nothing can follow.                                                     *)
(***************************************************************************)
EXTENDS Sequences

CONSTANT Streams

VARIABLES
    stage,      \* what the stream may still say
    pending,    \* events said and not yet delivered
    delivered,  \* events the host has been given
    over        \* streams of which the host was told that they are closed

vars == <<stage, pending, delivered, over>>

Init ==
    /\ stage = [s \in Streams |-> "opening"]
    /\ pending = [s \in Streams |-> <<>>]
    /\ delivered = [s \in Streams |-> <<>>]
    /\ over = {}

\* The events a stream may say at a stage, and the stage each leads to.
Says ==
    {<<"opening", "verdict", "body">>, <<"body", "chunk", "body">>,
     <<"body", "usage", "counted">>, <<"body", "done", "done">>,
     <<"counted", "done", "done">>}
    \cup {<<from, "error", "ended">> : from \in {"opening", "body", "counted"}}
    \cup {<<from, "cancelled", "ended">> : from \in {"opening", "body", "counted", "done"}}

Say(s) ==
    /\ \E rule \in Says :
          /\ stage[s] = rule[1]
          /\ pending' = [pending EXCEPT ![s] = Append(@, rule[2])]
          /\ stage' = [stage EXCEPT ![s] = rule[3]]
    /\ UNCHANGED <<delivered, over>>

\* A stream that is done ends without another word.
End(s) ==
    /\ stage[s] = "done"
    /\ stage' = [stage EXCEPT ![s] = "ended"]
    /\ UNCHANGED <<pending, delivered, over>>

Deliver(s) ==
    /\ pending[s] # <<>>
    /\ delivered' = [delivered EXCEPT ![s] = Append(@, Head(pending[s]))]
    /\ pending' = [pending EXCEPT ![s] = Tail(@)]
    /\ UNCHANGED <<stage, over>>

Close(s) ==
    /\ stage[s] = "ended" /\ pending[s] = <<>>
    /\ over' = over \cup {s}
    /\ UNCHANGED <<stage, pending, delivered>>

Next == \E s \in Streams : Say(s) \/ End(s) \/ Deliver(s) \/ Close(s)

Spec == Init /\ [][Next]_vars
=============================================================================
