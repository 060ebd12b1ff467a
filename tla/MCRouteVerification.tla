------------------------ MODULE MCRouteVerification ------------------------
(***************************************************************************)
(* Instances of RouteVerification for TLC.  Callers and flight identities  *)
(* are interchangeable: the specification compares them for equality only. *)
(***************************************************************************)
EXTENDS RouteVerification, TLC

Symmetry == Permutations(Callers) \cup Permutations(Flights)

\* For an instance that tells one caller from the others.
FlightSymmetry == Permutations(Flights)
=============================================================================
