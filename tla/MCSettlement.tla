---------------------------- MODULE MCSettlement ----------------------------
(* Instances of Settlement for TLC. *)
EXTENDS Settlement, TLC

CONSTANTS a1, a2

\* One attempt with every source of evidence.
OneBound == a1 :> 1
OneSources == a1 :> AllSources

\* Two attempts that share one summary; the second contends for it with its
\* usage alone.
TwoBound == a1 :> 1 @@ a2 :> 2
TwoSources == a1 :> AllSources \ {"finalization"} @@ a2 :> {"usage"}

Interchangeable == Permutations(Workers)
=============================================================================
