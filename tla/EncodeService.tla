---------------------------- MODULE EncodeService ----------------------------
(***************************************************************************)
(* What the goroutines of one worker process promise together, without the *)
(* channels between them (EncodePool has those): the deliveries of the     *)
(* encode queue begin in the order they came, each once and each with one  *)
(* worker that has no other, and SQS is told to forget a message only when *)
(* one of its deliveries was handled.  It promises no progress: a process  *)
(* that stops leaves the rest of its deliveries to the next one.           *)
(***************************************************************************)
EXTENDS Naturals, Sequences

CONSTANTS Messages, Workers, BatchSize

VARIABLES
    sqs,         \* each message: "visible", "inflight" or "deleted"
    deliveries,  \* the message of every delivery so far
    serving,     \* the job each worker handles, a number of a delivery, 0 for none
    handled      \* jobs whose HandleMessage has returned

serviceVars == <<sqs, deliveries, serving, handled>>

ServiceInit ==
    /\ sqs = [m \in Messages |-> "visible"]
    /\ deliveries = <<>>
    /\ serving = [w \in Workers |-> 0]
    /\ handled = {}

\* SQS delivers visible messages only, and hides them.
Deliver ==
    /\ \E n \in 1..BatchSize : \E batch \in [1..n -> Messages] :
        /\ \A i \in 1..n : sqs[batch[i]] = "visible"
        /\ deliveries' = deliveries \o batch
        /\ sqs' = [m \in Messages |->
                    IF \E i \in 1..n : batch[i] = m THEN "inflight" ELSE sqs[m]]
    /\ UNCHANGED <<serving, handled>>

Begun == handled \cup ({serving[w] : w \in Workers} \ {0})

\* A worker without a job begins the first that was not begun.
Begin(w) ==
    /\ serving[w] = 0
    /\ \E i \in 1..Len(deliveries) :
        /\ Begun = 1..(i - 1)
        /\ serving' = [serving EXCEPT ![w] = i]
    /\ UNCHANGED <<sqs, deliveries, handled>>

End(w) ==
    /\ serving[w] # 0
    /\ handled' = handled \cup {serving[w]}
    /\ serving' = [serving EXCEPT ![w] = 0]
    /\ UNCHANGED <<sqs, deliveries>>

Delete(i) ==
    /\ i \in handled
    /\ sqs' = [sqs EXCEPT ![deliveries[i]] = "deleted"]
    /\ UNCHANGED <<deliveries, serving, handled>>

Expire(m) ==
    /\ sqs[m] = "inflight"
    /\ sqs' = [sqs EXCEPT ![m] = "visible"]
    /\ UNCHANGED <<deliveries, serving, handled>>

ServiceNext ==
    \/ Deliver
    \/ \E w \in Workers : Begin(w) \/ End(w)
    \/ \E i \in handled : Delete(i)
    \/ \E m \in Messages : Expire(m)

ServiceSpec == ServiceInit /\ [][ServiceNext]_serviceVars
=============================================================================
