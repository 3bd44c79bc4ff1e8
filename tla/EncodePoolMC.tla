---------------------------- MODULE EncodePoolMC ----------------------------
(* Instances of EncodePool for TLC. *)
EXTENDS EncodePool, TLC

\* Not used by the run that checks liveness.
Interchangeable == Permutations(Workers) \cup Permutations(Messages)
=============================================================================
