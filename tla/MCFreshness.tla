---------------------------- MODULE MCFreshness ----------------------------
(***************************************************************************)
(* Two questions about one client: two callers share the cache while keys  *)
(* rotate and the clocks stand still, or one caller comes back to its      *)
(* cached verdict while the wall clock is set back and forth.  Together    *)
(* they would multiply every interleaving by every clock reading; neither  *)
(* property depends on both.                                               *)
(***************************************************************************)
EXTENDS MCRouteVerification

CONSTANTS OneCaller, CachedKey

\* A step leads to a state of one caller over the cached route, where time may have passed,
TimePasses ==
    /\ \A c \in Callers \ {OneCaller} : requests'[c] = 0
    /\ requests'[OneCaller] > 0 => key'[OneCaller] = CachedKey
    /\ refreshes'[OneCaller] = 0
    /\ \A k \in Keys : generation'[k] = 0

EndsSoon(verdict) == verdict # NoVerdict => verdict.expires <= 1

\* or to one where no time has passed and verdicts end soon.
TimeStands ==
    /\ clocks' = <<0, 0>>
    /\ \A c \in Callers : EndsSoon(fetched'[c]) /\ EndsSoon(held'[c])
    /\ \A k \in Keys : cache'[k] # NoEntry => cache'[k].insertedWall = 0

Apart == TimePasses \/ TimeStands
=============================================================================
