------------------------- MODULE MCRouteActivation -------------------------
(* Instances of RouteActivation for TLC. *)
EXTENDS RouteActivation, TLC

Interchangeable == Permutations(Workers)
=============================================================================
