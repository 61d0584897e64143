-------------------------- MODULE MCReleaseRollback --------------------------
(* Instances of ReleaseRollback for TLC. *)
EXTENDS ReleaseRollback
=============================================================================
