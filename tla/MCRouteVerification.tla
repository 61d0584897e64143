------------------------ MODULE MCRouteVerification ------------------------
(* Instances of RouteVerification for TLC. *)
EXTENDS RouteVerification, TLC

Interchangeable == Permutations(Workers)
=============================================================================
