-------------------------- MODULE VideoPipelineMC --------------------------
(* Instances of VideoPipeline for TLC: the sets are given in the .cfg files. *)
EXTENDS VideoPipeline, TLC

\* Workers and requests are interchangeable, and no run with liveness uses this.
Interchangeable == Permutations(Workers) \cup Permutations(Deleters)

\* What may go wrong with a job whose end is always stored.
EncodeFaults == {"enqueue", "download", "encode", "put_hls", "ack", "slow_encode", "delete_object"}

\* Every fault but those that have a job delivered a second time, and
\* DeleteObject failing.
OneDelivery == FaultKinds \ {"ack", "slow_encode", "delete_object"}
=============================================================================
