------------------------------- MODULE Lists -------------------------------
(***************************************************************************)
(* Sequences as the code's iterators take them apart.                      *)
(***************************************************************************)
EXTENDS Integers, Sequences, SequencesExt

\* filter: the elements of a sequence that are in a set, in their order.  (SelectSeq
\* with a set for its test, which a theorem can be about.)
Keep(seq, set) ==
    LET kept[i \in 0..Len(seq)] ==
            IF i = 0 THEN <<>>
            ELSE IF seq[i] \in set THEN Append(kept[i - 1], seq[i]) ELSE kept[i - 1]
    IN  kept[Len(seq)]
=============================================================================
