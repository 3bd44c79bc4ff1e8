----------------------------- MODULE EncodePool -----------------------------
(***************************************************************************)
(* The goroutines of one worker process (encode_worker.go): the poller     *)
(* runEncodeWorker, the dispatcher, and the workers that announce their    *)
(* inbox in idleWorkerQueue and are handed one job at a time; and how they *)
(* stop when the process gets a signal and its context is cancelled.       *)
(*                                                                         *)
(* A job is the number of its delivery.  Jobs travel in one order through  *)
(* the poller's batch and the jobQueue channel, so three counters hold     *)
(* both: taken <= queued <= Len(deliveries).  The batch is what lies above *)
(* queued, the channel's buffer what lies between taken and queued.        *)
(***************************************************************************)
EXTENDS Naturals, Sequences, FiniteSets

CONSTANTS
    Messages,      \* the messages of the encode queue
    Workers,       \* the encodeWorkerCount goroutines of runWorker
    NoWorker,      \* no worker
    QueueCap,      \* encodeJobQueueCap
    IdleCap,       \* capacity of idleWorkerQueue
    BatchSize,     \* MaxNumberOfMessages of one ReceiveMessage
    MaxDeliveries  \* deliveries of a run; a bound of the model

ASSUME PoolAssumption ==
    /\ NoWorker \notin Workers
    /\ QueueCap \in Nat \ {0}
    /\ IdleCap \in Nat \ {0}
    /\ BatchSize \in Nat \ {0}
    /\ MaxDeliveries \in Nat

VARIABLES
    sqs,         \* each message: "visible", "inflight" or "deleted"
    deliveries,  \* the message of every delivery so far
    queued,      \* deliveries the poller has sent to jobQueue
    taken,       \* deliveries the dispatcher has read from it
    closed,      \* close(jobQueue) was called
    poller,      \* "receive", "push", "waiting" (in pool.Wait) or "returned"
    dispatcher,  \* "reading", "choosing", "handing" or "returned"
    chosen,      \* the worker whose inbox the dispatcher sends to
    idle,        \* idleWorkerQueue, a channel of inboxes
    wstage,      \* each worker: "register", "waiting", "working", "acking", "returned"
    wjob,        \* the job it works on, 0 for none
    handled,     \* history: jobs whose HandleMessage has returned
    cancelled    \* the process context is cancelled

pollVars     == <<sqs, deliveries, queued, closed, poller>>
dispatchVars == <<taken, dispatcher, chosen>>
workerVars   == <<wstage, wjob, handled>>
vars == <<pollVars, dispatchVars, idle, workerVars, cancelled>>

Received == Len(deliveries)
Jobs     == 1..Received

TypeOK ==
    /\ sqs \in [Messages -> {"visible", "inflight", "deleted"}]
    /\ deliveries \in Seq(Messages)
    /\ queued \in Nat /\ taken \in Nat
    /\ taken <= queued /\ queued <= Received /\ queued - taken <= QueueCap
    /\ closed \in BOOLEAN
    /\ poller \in {"receive", "push", "waiting", "returned"}
    /\ dispatcher \in {"reading", "choosing", "handing", "returned"}
    /\ chosen \in Workers \cup {NoWorker}
    /\ chosen \in Workers <=> dispatcher = "handing"
    /\ idle \in Seq(Workers)
    /\ wstage \in [Workers -> {"register", "waiting", "working", "acking", "returned"}]
    /\ wjob \in [Workers -> Nat]
    /\ handled \subseteq Nat
    /\ cancelled \in BOOLEAN

Init ==
    /\ sqs = [m \in Messages |-> "visible"]
    /\ deliveries = <<>>
    /\ queued = 0 /\ taken = 0
    /\ closed = FALSE
    /\ poller = "receive"
    /\ dispatcher = "reading"
    /\ chosen = NoWorker
    /\ idle = <<>>
    /\ wstage = [w \in Workers |-> "register"]
    /\ wjob = [w \in Workers |-> 0]
    /\ handled = {}
    /\ cancelled = FALSE

-----------------------------------------------------------------------------
(* The poller.                                                             *)

\* A batch of different visible messages, in any order.
Batches ==
    {b \in UNION {[1..n -> Messages] : n \in 1..BatchSize} :
        /\ \A i \in DOMAIN b : sqs[b[i]] = "visible"
        /\ \A i, j \in DOMAIN b : b[i] = b[j] => i = j}

\* A receive that was under way may still answer after the cancellation.  A
\* failed receive, and an empty one, change nothing.
ReceiveMessage ==
    /\ poller = "receive"
    /\ \E b \in Batches :
        /\ Received + Len(b) <= MaxDeliveries
        /\ deliveries' = deliveries \o b
        /\ sqs' = [m \in Messages |->
                    IF \E i \in DOMAIN b : b[i] = m THEN "inflight" ELSE sqs[m]]
    /\ poller' = "push"
    /\ UNCHANGED <<queued, closed, dispatchVars, idle, workerVars, cancelled>>

\* Mutant: a slice in the place of the buffered channel.
PushJobUnbounded ==
    /\ poller = "push"
    /\ queued' = queued + 1
    /\ poller' = IF queued + 1 = Received THEN "receive" ELSE "push"
    /\ UNCHANGED <<sqs, deliveries, closed, dispatchVars, idle, workerVars, cancelled>>

\* jobQueue <- j, while the buffer has room.
PushJob ==
    /\ poller = "push"
    /\ queued - taken < QueueCap
    /\ queued' = queued + 1
    /\ poller' = IF queued + 1 = Received THEN "receive" ELSE "push"
    /\ UNCHANGED <<sqs, deliveries, closed, dispatchVars, idle, workerVars, cancelled>>

\* Any return of runEncodeWorker closes jobQueue and waits for the pool.
PollerStops ==
    /\ cancelled
    /\ poller \in {"receive", "push"}
    /\ closed' = TRUE
    /\ poller' = "waiting"
    /\ UNCHANGED <<sqs, deliveries, queued, dispatchVars, idle, workerVars, cancelled>>

\* pool.Wait: the dispatcher first, then the workers.
PoolWaited ==
    /\ poller = "waiting"
    /\ dispatcher = "returned"
    /\ \A w \in Workers : wstage[w] = "returned"
    /\ poller' = "returned"
    /\ UNCHANGED <<sqs, deliveries, queued, closed, dispatchVars, idle, workerVars, cancelled>>

\* The VisibilityTimeout of a message runs out: it can be delivered again.
VisibilityExpires(m) ==
    /\ sqs[m] = "inflight"
    /\ sqs' = [sqs EXCEPT ![m] = "visible"]
    /\ UNCHANGED <<deliveries, queued, closed, poller, dispatchVars, idle, workerVars, cancelled>>

-----------------------------------------------------------------------------
(* The dispatcher.                                                         *)

\* Mutant: a job is dropped when no worker is idle (a default in the select).
ReadJobOrDrop ==
    /\ dispatcher = "reading"
    /\ taken < queued
    /\ taken' = taken + 1
    /\ dispatcher' = IF idle = <<>> THEN "reading" ELSE "choosing"
    /\ UNCHANGED <<pollVars, chosen, idle, workerVars, cancelled>>

ReadJob ==
    /\ dispatcher = "reading"
    /\ taken < queued
    /\ taken' = taken + 1
    /\ dispatcher' = "choosing"
    /\ UNCHANGED <<pollVars, chosen, idle, workerVars, cancelled>>

ChooseWorker ==
    /\ dispatcher = "choosing"
    /\ idle # <<>>
    /\ chosen' = Head(idle)
    /\ idle' = Tail(idle)
    /\ dispatcher' = "handing"
    /\ UNCHANGED <<pollVars, taken, workerVars, cancelled>>

\* Mutant: the send has a timeout, after which another worker is chosen, and the
\* timeout may come when the job has been received already.
HandOverAgain ==
    /\ dispatcher = "handing"
    /\ wstage[chosen] = "waiting"
    /\ wstage' = [wstage EXCEPT ![chosen] = "working"]
    /\ wjob' = [wjob EXCEPT ![chosen] = taken]
    /\ chosen' = NoWorker
    /\ dispatcher' \in {"reading", "choosing"}
    /\ UNCHANGED <<pollVars, taken, idle, handled, cancelled>>

\* workerCh <- job on an unbuffered channel: the worker must be receiving.
\* This send has no case for the cancelled context.
HandOver ==
    /\ dispatcher = "handing"
    /\ wstage[chosen] = "waiting"
    /\ wstage' = [wstage EXCEPT ![chosen] = "working"]
    /\ wjob' = [wjob EXCEPT ![chosen] = taken]
    /\ chosen' = NoWorker
    /\ dispatcher' = "reading"
    /\ UNCHANGED <<pollVars, taken, idle, handled, cancelled>>

DispatcherStops ==
    /\ \/ cancelled /\ dispatcher \in {"reading", "choosing"}
       \/ closed /\ taken = queued /\ dispatcher = "reading"
    /\ dispatcher' = "returned"
    /\ UNCHANGED <<pollVars, taken, chosen, idle, workerVars, cancelled>>

-----------------------------------------------------------------------------
(* The workers.                                                            *)

\* Mutant: waiting for a job times out, and the worker registers once more.
RegisterAgain(w) ==
    /\ wstage[w] \in {"register", "waiting"}
    /\ Len(idle) < IdleCap
    /\ idle' = Append(idle, w)
    /\ wstage' = [wstage EXCEPT ![w] = "waiting"]
    /\ UNCHANGED <<pollVars, dispatchVars, wjob, handled, cancelled>>

\* idleWorkerQueue <- inbox.
Register(w) ==
    /\ wstage[w] = "register"
    /\ Len(idle) < IdleCap
    /\ idle' = Append(idle, w)
    /\ wstage' = [wstage EXCEPT ![w] = "waiting"]
    /\ UNCHANGED <<pollVars, dispatchVars, wjob, handled, cancelled>>

\* HandleMessage returns, with an error or without.
HandleMessage(w) ==
    /\ wstage[w] = "working"
    /\ wstage' = [wstage EXCEPT ![w] = "acking"]
    /\ handled' = handled \cup {wjob[w]}
    /\ UNCHANGED <<pollVars, dispatchVars, idle, wjob, cancelled>>

\* Mutant: a worker ends with its first job.
DeleteMessageAndReturn(w) ==
    /\ wstage[w] = "acking"
    /\ sqs' = [sqs EXCEPT ![deliveries[wjob[w]]] = "deleted"]
    /\ wstage' = [wstage EXCEPT ![w] = "returned"]
    /\ wjob' = [wjob EXCEPT ![w] = 0]
    /\ UNCHANGED <<deliveries, queued, closed, poller, dispatchVars, idle, handled, cancelled>>

\* Mutant: the receipt of another job is used.
DeleteLatestMessage(w) ==
    /\ wstage[w] = "acking"
    /\ sqs' = [sqs EXCEPT ![deliveries[Received]] = "deleted"]
    /\ wstage' = [wstage EXCEPT ![w] = "register"]
    /\ wjob' = [wjob EXCEPT ![w] = 0]
    /\ UNCHANGED <<deliveries, queued, closed, poller, dispatchVars, idle, handled, cancelled>>

\* DeleteMessage uses the process context: cancelled, it fails.  Its error is
\* logged and the worker goes on.
DeleteMessage(w) ==
    /\ wstage[w] = "acking"
    /\ \/ ~cancelled /\ sqs' = [sqs EXCEPT ![deliveries[wjob[w]]] = "deleted"]
       \/ UNCHANGED sqs
    /\ wstage' = [wstage EXCEPT ![w] = "register"]
    /\ wjob' = [wjob EXCEPT ![w] = 0]
    /\ UNCHANGED <<deliveries, queued, closed, poller, dispatchVars, idle, handled, cancelled>>

\* Mutant: only registering looks at the context, waiting for a job does not.
WorkerStopsOnRegister(w) ==
    /\ cancelled
    /\ wstage[w] = "register"
    /\ wstage' = [wstage EXCEPT ![w] = "returned"]
    /\ UNCHANGED <<pollVars, dispatchVars, idle, wjob, handled, cancelled>>

\* Either select of runWorker; the inbox stays in idleWorkerQueue.
WorkerStops(w) ==
    /\ cancelled
    /\ wstage[w] \in {"register", "waiting"}
    /\ wstage' = [wstage EXCEPT ![w] = "returned"]
    /\ UNCHANGED <<pollVars, dispatchVars, idle, wjob, handled, cancelled>>

-----------------------------------------------------------------------------
\* SIGINT or SIGTERM.
Cancel ==
    /\ ~cancelled
    /\ cancelled' = TRUE
    /\ UNCHANGED <<pollVars, dispatchVars, idle, workerVars>>

PollStep     == ReceiveMessage \/ PushJob \/ PollerStops \/ PoolWaited
DispatchStep == ReadJob \/ ChooseWorker \/ HandOver \/ DispatcherStops
WorkerStep(w) ==
    Register(w) \/ HandleMessage(w) \/ DeleteMessage(w) \/ WorkerStops(w)

Next ==
    \/ PollStep
    \/ DispatchStep
    \/ \E w \in Workers : WorkerStep(w)
    \/ \E m \in Messages : VisibilityExpires(m)
    \/ Cancel

\* Every goroutine runs when it can, HandleMessage returns, and a poll that
\* sees the cancelled context ends.  Nobody has to cancel.
Fairness ==
    /\ WF_vars(PushJob \/ PollerStops \/ PoolWaited)
    /\ WF_vars(DispatchStep)
    /\ \A w \in Workers : WF_vars(WorkerStep(w))

Spec     == Init /\ [][Next]_vars
FairSpec == Spec /\ Fairness

-----------------------------------------------------------------------------
(* Properties.                                                             *)

\* While the process runs, the dispatcher's unguarded send never waits for a
\* worker that is not receiving: an inbox is in idleWorkerQueue at most once,
\* and only while its worker waits.
HandOffReady ==
    /\ \A i, j \in DOMAIN idle : idle[i] = idle[j] => i = j
    /\ ~cancelled /\ dispatcher = "handing" => wstage[chosen] = "waiting"

\* idleWorkerQueue is never full when a worker registers: no worker with its
\* job done is kept from taking the next one.
RegisterNeverBlocks ==
    \A w \in Workers : wstage[w] = "register" => Len(idle) < IdleCap

\* Until a shutdown no delivery is lost between the channels: whatever was read
\* from jobQueue is with the dispatcher, with one worker, or handled.
JobsAccounted ==
    ~cancelled =>
        \A i \in 1..taken :
            \/ i = taken /\ dispatcher \in {"choosing", "handing"}
            \/ i \in handled
            \/ \E w \in Workers : wjob[w] = i /\ wstage[w] = "working"

\* A delivery is worked on at most once, by one worker.
OneWorkerPerJob ==
    /\ \A w, x \in Workers : wjob[w] = wjob[x] /\ wjob[w] # 0 => w = x
    /\ \A w \in Workers : wstage[w] = "working" => wjob[w] \notin handled

\* SQS forgets a message only after HandleMessage ran for it: shutting down
\* with jobs in the channels leaves them for the next process.
DeletedWasHandled ==
    \A m \in Messages :
        sqs[m] = "deleted" => \E i \in handled : i \in Jobs /\ deliveries[i] = m

\* Every delivery is handled unless the process is stopped.
EveryJobHandled ==
    \A i \in 1..MaxDeliveries : i <= Received ~> i \in handled \/ cancelled

\* After the signal every worker returns.
WorkersStop == cancelled ~> \A w \in Workers : wstage[w] = "returned"

\* After the signal runEncodeWorker returns, and main can end.
ShutdownCompletes == cancelled ~> poller = "returned"

-----------------------------------------------------------------------------
\* A worker serves a job from the hand-over until HandleMessage returns.
Service == INSTANCE EncodeService
           WITH serving <- [w \in Workers |-> IF wstage[w] = "working" THEN wjob[w] ELSE 0]

\* Poller, dispatcher and workers are together one service that begins deliveries
\* in their order, each once, and has SQS forget only what it handled, however
\* they are interleaved and wherever a shutdown finds them.
ImplementsService == Service!ServiceSpec
=============================================================================
