---------------------------- MODULE SearchSyncMC ----------------------------
(* Instances of SearchSync for TLC. *)
EXTENDS SearchSync, TLC

Interchangeable == Permutations(Patchers)

\* Two bounds: no more than two events wait at a time, and the backfill runs
\* beside the consumer and one of PATCH, DELETE and the worker.
TwoWait == Cardinality({w \in Writers : event[w] \in {"visible", "inflight"}}) <= 2

Rests(W) == \A w \in W : wstage[w] = "idle"

BackfillBesideOne ==
    (\E b \in Backfills : bstage[b] # "idle")
        => Cardinality({W \in {Patchers, Encoders, Removers} : ~Rests(W)}) <= 1

Bounds == TwoWait /\ BackfillBesideOne
=============================================================================
