--------------------------- MODULE VideoLifecycle ---------------------------
(***************************************************************************)
(* What a client of the platform may see of a video, and of its history:   *)
(* the abstract specification VideoPipeline implements.  A video is        *)
(* uploaded once, settles once, unless its job may be delivered again, and *)
(* is gone for good when deleted, in whatever state it was.                *)
(***************************************************************************)
CONSTANTS
    Videos,
    Redelivers    \* a job may be delivered more than once

VARIABLE state    \* of each video

States == {"none", "processing", "ready", "failed", "gone"}

Init == state = [v \in Videos |-> "none"]

Becomes(v, s) == state' = [state EXCEPT ![v] = s]

Upload(v) == state[v] = "none" /\ Becomes(v, "processing")

Settle(v) == state[v] = "processing" /\ \E s \in {"ready", "failed"} : Becomes(v, s)

\* The job of a settled video is done again, with either outcome.
Resettle(v) ==
    /\ Redelivers
    /\ state[v] \in {"ready", "failed"}
    /\ \E s \in {"ready", "failed"} : Becomes(v, s)

Delete(v) == state[v] \in {"processing", "ready", "failed"} /\ Becomes(v, "gone")

Next == \E v \in Videos : Upload(v) \/ Settle(v) \/ Resettle(v) \/ Delete(v)

Spec == Init /\ [][Next]_state
=============================================================================
