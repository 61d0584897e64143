--------------------------- MODULE MCLegacyLedger ---------------------------
(* Instances of LegacyLedger for TLC. *)
EXTENDS LegacyLedger, TLC

CONSTANTS x1, x2

Interchangeable == Permutations(Requests)
=============================================================================
