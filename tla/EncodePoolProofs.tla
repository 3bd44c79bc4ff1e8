--------------------------- MODULE EncodePoolProofs ---------------------------
(* Proofs about EncodePool, for any messages, workers and capacities. *)
EXTENDS EncodePool, SequenceTheorems, FiniteSetTheorems, TLAPS

\* The poller pushes while its batch is not empty.
BatchLeft == poller = "push" => queued < Received

TypeInv == TypeOK /\ BatchLeft

LEMMA TypeInit == Init => TypeInv
<1> SUFFICES ASSUME Init PROVE TypeInv
  OBVIOUS
<1>1. deliveries \in Seq(Messages) /\ Len(deliveries) = 0 /\ idle \in Seq(Workers)
  BY DEF Init
<1>2. /\ sqs \in [Messages -> {"visible", "inflight", "deleted"}]
      /\ wstage \in [Workers -> {"register", "waiting", "working", "acking", "returned"}]
      /\ wjob \in [Workers -> Nat]
  BY DEF Init
<1>3. /\ queued \in Nat /\ taken \in Nat /\ Received = 0
      /\ taken <= queued /\ queued <= Received /\ queued - taken <= QueueCap
  BY <1>1, PoolAssumption DEF Init, Received
<1>4. TypeOK
  BY <1>1, <1>2, <1>3, PoolAssumption DEF Init, TypeOK
<1> QED
  BY <1>4 DEF Init, TypeInv, BatchLeft

LEMMA TypePoll ==
    ASSUME TypeInv, PollStep
    PROVE  TypeInv'
<1> USE DEF dispatchVars, workerVars, TypeInv, BatchLeft
<1>1. CASE ReceiveMessage
  <2>1. PICK b \in Batches :
          /\ deliveries' = deliveries \o b
          /\ sqs' = [m \in Messages |->
                      IF \E i \in DOMAIN b : b[i] = m THEN "inflight" ELSE sqs[m]]
    BY <1>1 DEF ReceiveMessage
  <2>2. PICK n \in 1..BatchSize : b \in [1..n -> Messages]
    BY DEF Batches
  <2>3. b \in Seq(Messages) /\ Len(b) = n /\ n \in Nat \ {0}
    <3>1. n \in Nat \ {0}
      BY <2>2, PoolAssumption
    <3>2. b \in Seq(Messages) /\ DOMAIN b = 1..n
      BY <2>2, <3>1
    <3>3. Len(b) = n
      BY <3>1, <3>2
    <3> QED
      BY <3>1, <3>2, <3>3
  <2>4. deliveries' \in Seq(Messages) /\ Len(deliveries') = Len(deliveries) + n
    <3>1. deliveries \in Seq(Messages)
      BY DEF TypeOK
    <3> QED
      BY <2>1, <2>3, <3>1, ConcatProperties
  <2>5. sqs' \in [Messages -> {"visible", "inflight", "deleted"}]
    BY <2>1 DEF TypeOK
  <2>6. queued \in Nat /\ queued <= Len(deliveries) /\ Len(deliveries) \in Nat
    BY DEF TypeOK, Received
  <2>7. queued <= Len(deliveries') /\ queued < Len(deliveries')
    BY <2>3, <2>4, <2>6
  <2> QED
    BY <1>1, <2>4, <2>5, <2>7 DEF ReceiveMessage, TypeOK, Received
<1>2. CASE PushJob
  <2>1. /\ queued' = queued + 1 /\ queued < Received /\ queued - taken < QueueCap
        /\ poller' \in {"receive", "push"} /\ (poller' = "push" => queued + 1 # Received)
        /\ UNCHANGED <<sqs, deliveries, closed, dispatchVars, idle, workerVars, cancelled>>
    BY <1>2 DEF PushJob
  <2>2. /\ queued' \in Nat /\ taken <= queued' /\ queued' <= Received
        /\ queued' - taken <= QueueCap
        /\ (poller' = "push" => queued' < Received)
    BY <2>1, PoolAssumption DEF TypeOK, Received
  <2> QED
    BY <2>1, <2>2 DEF TypeOK, Received
<1>3. CASE PollerStops
  BY <1>3 DEF PollerStops, TypeOK, Received
<1>4. CASE PoolWaited
  BY <1>4 DEF PoolWaited, TypeOK, Received
<1> QED
  BY <1>1, <1>2, <1>3, <1>4 DEF PollStep

LEMMA TypeDispatch ==
    ASSUME TypeInv, DispatchStep
    PROVE  TypeInv'
<1> USE DEF pollVars, workerVars, TypeInv, BatchLeft, TypeOK, Received
<1>1. CASE ReadJob
  BY <1>1, PoolAssumption DEF ReadJob
<1>2. CASE ChooseWorker
  <2>1. Head(idle) \in Workers /\ Tail(idle) \in Seq(Workers)
    BY <1>2 DEF ChooseWorker
  <2> QED
    BY <1>2, <2>1 DEF ChooseWorker
<1>3. CASE HandOver
  BY <1>3, PoolAssumption DEF HandOver
<1>4. CASE DispatcherStops
  BY <1>4 DEF DispatcherStops
<1> QED
  BY <1>1, <1>2, <1>3, <1>4 DEF DispatchStep

LEMMA TypeWorker ==
    ASSUME TypeInv, NEW w \in Workers, WorkerStep(w)
    PROVE  TypeInv'
<1> USE DEF pollVars, dispatchVars, TypeInv, BatchLeft, TypeOK, Received
<1>1. CASE Register(w)
  <2>1. Append(idle, w) \in Seq(Workers)
    OBVIOUS
  <2> QED
    BY <1>1, <2>1 DEF Register
<1>2. CASE HandleMessage(w)
  BY <1>2 DEF HandleMessage
<1>3. CASE DeleteMessage(w)
  BY <1>3 DEF DeleteMessage
<1>4. CASE WorkerStops(w)
  BY <1>4 DEF WorkerStops
<1> QED
  BY <1>1, <1>2, <1>3, <1>4 DEF WorkerStep

LEMMA TypeInductive == TypeInv /\ [Next]_vars => TypeInv'
<1> SUFFICES ASSUME TypeInv, [Next]_vars PROVE TypeInv'
  OBVIOUS
<1>1. CASE \E m \in Messages : VisibilityExpires(m)
  BY <1>1 DEF VisibilityExpires, TypeInv, BatchLeft, TypeOK, Received, dispatchVars, workerVars
<1>2. CASE Cancel
  BY <1>2 DEF Cancel, TypeInv, BatchLeft, TypeOK, Received, pollVars, dispatchVars, workerVars
<1>3. CASE UNCHANGED vars
  BY <1>3 DEF vars, TypeInv, BatchLeft, TypeOK, Received, pollVars, dispatchVars, workerVars
<1> QED
  BY <1>1, <1>2, <1>3, TypePoll, TypeDispatch, TypeWorker DEF Next

\* Every variable keeps its type, and jobQueue never holds more than its
\* capacity.
THEOREM TypeCorrect == Spec => []TypeOK
<1>1. TypeInv => TypeOK
  BY DEF TypeInv
<1> QED
  BY <1>1, TypeInit, TypeInductive, PTL DEF Spec

-----------------------------------------------------------------------------
(* HandOffReady.  A worker is in one place only: registered in idle, chosen  *)
(* by the dispatcher, or neither, and in the first two it still waits unless *)
(* it has left after the cancellation.                                       *)

Waits(w) == wstage[w] = "waiting" \/ (cancelled /\ wstage[w] = "returned")

IdleOnce == \A i, j \in DOMAIN idle : idle[i] = idle[j] => i = j
IdleWaits == \A i \in DOMAIN idle : Waits(idle[i])
ChosenWaits ==
    dispatcher = "handing" => Waits(chosen) /\ \A i \in DOMAIN idle : idle[i] # chosen

HandOffInv == TypeInv /\ IdleOnce /\ IdleWaits /\ ChosenWaits

\* Steps that leave the registered workers where they are.
LEMMA HandOffQuiet ==
    ASSUME HandOffInv, TypeInv', idle' = idle, chosen' = chosen,
           dispatcher' = "handing" => dispatcher = "handing",
           \A w \in Workers : Waits(w) => Waits(w)'
    PROVE  HandOffInv'
<1>1. idle \in Seq(Workers) /\ (dispatcher = "handing" => chosen \in Workers)
  BY DEF HandOffInv, TypeInv, TypeOK
<1>2. \A i \in DOMAIN idle : idle[i] \in Workers
  BY <1>1
<1> QED
  BY <1>1, <1>2 DEF HandOffInv, IdleOnce, IdleWaits, ChosenWaits

LEMMA HandOffDispatch ==
    ASSUME HandOffInv, TypeInv', DispatchStep
    PROVE  HandOffInv'
<1>1. idle \in Seq(Workers) /\ wstage \in [Workers -> {"register", "waiting", "working", "acking", "returned"}]
  BY DEF HandOffInv, TypeInv, TypeOK
<1>2. CASE ReadJob \/ DispatcherStops
  BY <1>2, HandOffQuiet DEF ReadJob, DispatcherStops, workerVars, Waits
<1>3. CASE ChooseWorker
  <2>1. idle # <<>> /\ chosen' = Head(idle) /\ idle' = Tail(idle) /\ UNCHANGED <<wstage, cancelled>>
    BY <1>3 DEF ChooseWorker, workerVars
  <2>2. /\ DOMAIN idle = 1..Len(idle) /\ Len(idle) \in Nat \ {0}
        /\ DOMAIN idle' = 1..(Len(idle) - 1)
        /\ \A i \in DOMAIN idle' : idle'[i] = idle[i + 1] /\ i + 1 \in DOMAIN idle
        /\ chosen' = idle[1] /\ 1 \in DOMAIN idle
    BY <1>1, <2>1
  <2>3. IdleOnce'
    BY <2>2 DEF HandOffInv, IdleOnce
  <2>4. IdleWaits' /\ Waits(chosen)'
    BY <2>1, <2>2 DEF HandOffInv, IdleWaits, Waits
  <2>5. \A i \in DOMAIN idle' : idle'[i] # chosen'
    BY <2>2 DEF HandOffInv, IdleOnce
  <2> QED
    BY <2>3, <2>4, <2>5 DEF HandOffInv, ChosenWaits
<1>4. CASE HandOver
  <2>1. /\ dispatcher = "handing" /\ dispatcher' = "reading"
        /\ wstage' = [wstage EXCEPT ![chosen] = "working"]
        /\ UNCHANGED <<idle, cancelled>>
    BY <1>4 DEF HandOver
  <2>2. \A i \in DOMAIN idle : idle[i] \in Workers /\ idle[i] # chosen
    BY <1>1, <2>1 DEF HandOffInv, ChosenWaits
  <2>3. IdleWaits'
    BY <1>1, <2>1, <2>2 DEF HandOffInv, IdleWaits, Waits
  <2>4. IdleOnce' /\ ChosenWaits'
    BY <2>1 DEF HandOffInv, IdleOnce, ChosenWaits
  <2> QED
    BY <2>3, <2>4 DEF HandOffInv
<1> QED
  BY <1>2, <1>3, <1>4 DEF DispatchStep

LEMMA HandOffWorker ==
    ASSUME HandOffInv, TypeInv', NEW w \in Workers, WorkerStep(w)
    PROVE  HandOffInv'
<1>1. idle \in Seq(Workers) /\ wstage \in [Workers -> {"register", "waiting", "working", "acking", "returned"}]
  BY DEF HandOffInv, TypeInv, TypeOK
<1>2. CASE Register(w)
  <2>1. /\ wstage[w] = "register" /\ wstage' = [wstage EXCEPT ![w] = "waiting"]
        /\ idle' = Append(idle, w) /\ UNCHANGED <<dispatcher, chosen, cancelled>>
    BY <1>2 DEF Register, dispatchVars
  <2>2. /\ DOMAIN idle = 1..Len(idle) /\ Len(idle) \in Nat
        /\ DOMAIN idle' = 1..(Len(idle) + 1)
        /\ \A i \in DOMAIN idle : idle'[i] = idle[i] /\ idle[i] \in Workers
        /\ idle'[Len(idle) + 1] = w
    BY <1>1, <2>1
  <2>3. ~Waits(w) /\ Waits(w)' /\ \A x \in Workers \ {w} : Waits(x)' = Waits(x)
    BY <1>1, <2>1 DEF Waits
  <2>4. \A i \in DOMAIN idle : idle[i] # w
    BY <2>3 DEF HandOffInv, IdleWaits
  <2>5. \A i \in DOMAIN idle' : i \in DOMAIN idle \/ i = Len(idle) + 1
    BY <2>2
  <2>6. IdleOnce'
    BY <2>2, <2>4, <2>5 DEF HandOffInv, IdleOnce
  <2>7. IdleWaits'
    BY <2>2, <2>3, <2>4, <2>5 DEF HandOffInv, IdleWaits
  <2>8. ChosenWaits'
    <3>1. dispatcher = "handing" => chosen \in Workers \ {w}
      BY <2>3 DEF HandOffInv, ChosenWaits, TypeInv, TypeOK
    <3> QED
      BY <2>1, <2>2, <2>3, <2>5, <3>1 DEF HandOffInv, ChosenWaits
  <2> QED
    BY <2>6, <2>7, <2>8 DEF HandOffInv
<1>3. CASE HandleMessage(w) \/ DeleteMessage(w) \/ WorkerStops(w)
  <2>1. UNCHANGED <<idle, dispatcher, chosen, cancelled>>
    BY <1>3 DEF HandleMessage, DeleteMessage, WorkerStops, dispatchVars
  <2>2. \A x \in Workers : Waits(x) => Waits(x)'
    BY <1>1, <1>3, <2>1 DEF HandleMessage, DeleteMessage, WorkerStops, Waits
  <2> QED
    BY <2>1, <2>2, HandOffQuiet
<1> QED
  BY <1>2, <1>3 DEF WorkerStep

LEMMA HandOffInductive == HandOffInv /\ [Next]_vars => HandOffInv'
<1> SUFFICES ASSUME HandOffInv, [Next]_vars PROVE HandOffInv'
  OBVIOUS
<1>1. TypeInv'
  BY TypeInductive DEF HandOffInv
<1>2. CASE PollStep
  BY <1>1, <1>2, HandOffQuiet
     DEF PollStep, ReceiveMessage, PushJob, PollerStops, PoolWaited, dispatchVars, workerVars, Waits
<1>3. CASE \E m \in Messages : VisibilityExpires(m)
  BY <1>1, <1>3, HandOffQuiet DEF VisibilityExpires, dispatchVars, workerVars, Waits
<1>4. CASE Cancel
  BY <1>1, <1>4, HandOffQuiet DEF Cancel, dispatchVars, workerVars, Waits
<1>5. CASE UNCHANGED vars
  BY <1>1, <1>5, HandOffQuiet DEF vars, dispatchVars, workerVars, Waits
<1> QED
  BY <1>1, <1>2, <1>3, <1>4, <1>5, HandOffDispatch, HandOffWorker DEF Next

\* The dispatcher's unguarded send finds its worker receiving, for any number
\* of workers and any capacities.
THEOREM HandOffIsReady == Spec => []HandOffReady
<1>1. Init => HandOffInv
  BY TypeInit DEF Init, HandOffInv, IdleOnce, IdleWaits, ChosenWaits
<1>2. HandOffInv => HandOffReady
  BY DEF HandOffInv, IdleOnce, ChosenWaits, Waits, HandOffReady
<1> QED
  BY <1>1, <1>2, HandOffInductive, PTL DEF Spec

-----------------------------------------------------------------------------
(* DeletedWasHandled.  A job keeps the number of its delivery on the way     *)
(* from the channel to DeleteMessage, and only HandleMessage leads there.    *)

TakenSome == dispatcher \in {"choosing", "handing"} => taken >= 1
JobIsDelivery == \A w \in Workers : wstage[w] \in {"working", "acking"} => wjob[w] \in Jobs
AckIsHandled == \A w \in Workers : wstage[w] = "acking" => wjob[w] \in handled

DeletedInv == TypeInv /\ TakenSome /\ JobIsDelivery /\ AckIsHandled /\ DeletedWasHandled

\* Deliveries are only added, and what was handled stays handled.
LEMMA DeletedQuiet ==
    ASSUME DeletedInv, TypeInv', TakenSome', handled \subseteq handled',
           \A i \in Jobs : i \in Jobs' /\ deliveries'[i] = deliveries[i],
           \A w \in Workers : wstage'[w] \in {"working", "acking"} =>
               wstage'[w] = wstage[w] /\ wjob'[w] = wjob[w],
           \A m \in Messages : sqs'[m] = "deleted" => sqs[m] = "deleted"
    PROVE  DeletedInv'
<1>1. JobIsDelivery' /\ AckIsHandled'
  BY DEF DeletedInv, JobIsDelivery, AckIsHandled
<1>2. DeletedWasHandled'
  <2> SUFFICES ASSUME NEW m \in Messages, sqs'[m] = "deleted"
               PROVE  \E i \in handled' : i \in Jobs' /\ deliveries'[i] = m
    BY DEF DeletedWasHandled
  <2>1. PICK i \in handled : i \in Jobs /\ deliveries[i] = m
    BY DEF DeletedInv, DeletedWasHandled
  <2> QED
    BY <2>1
<1> QED
  BY <1>1, <1>2 DEF DeletedInv

LEMMA DeletedPoll ==
    ASSUME DeletedInv, TypeInv', PollStep
    PROVE  DeletedInv'
<1>1. UNCHANGED <<taken, dispatcher, wstage, wjob, handled>>
  BY DEF PollStep, ReceiveMessage, PushJob, PollerStops, PoolWaited, dispatchVars, workerVars
<1>2. TakenSome'
  BY <1>1 DEF DeletedInv, TakenSome
<1>3. CASE ReceiveMessage
  <2>1. PICK b \in Batches :
          /\ deliveries' = deliveries \o b
          /\ sqs' = [m \in Messages |->
                      IF \E i \in DOMAIN b : b[i] = m THEN "inflight" ELSE sqs[m]]
    BY <1>3 DEF ReceiveMessage
  <2>2. b \in Seq(Messages) /\ deliveries \in Seq(Messages)
    <3>1. PICK n \in 1..BatchSize : b \in [1..n -> Messages]
      BY DEF Batches
    <3>2. n \in Nat
      BY <3>1, PoolAssumption
    <3> QED
      BY <3>1, <3>2 DEF DeletedInv, TypeInv, TypeOK
  <2>3. \A i \in Jobs : i \in Jobs' /\ deliveries'[i] = deliveries[i]
    BY <2>1, <2>2, ConcatProperties DEF Jobs, Received
  <2> QED
    BY <1>1, <1>2, <2>1, <2>3, DeletedQuiet
<1>4. CASE PushJob \/ PollerStops \/ PoolWaited
  <2>1. UNCHANGED <<deliveries, sqs>>
    BY <1>4 DEF PushJob, PollerStops, PoolWaited
  <2> QED
    BY <1>1, <1>2, <2>1, DeletedQuiet DEF Jobs, Received
<1> QED
  BY <1>3, <1>4 DEF PollStep

LEMMA DeletedDispatch ==
    ASSUME DeletedInv, TypeInv', DispatchStep
    PROVE  DeletedInv'
<1>1. UNCHANGED <<deliveries, sqs, handled>> /\ Jobs' = Jobs /\ taken \in Nat /\ taken <= Received
  <2>1. UNCHANGED <<deliveries, sqs, handled>>
    <3>1. CASE ReadJob \/ ChooseWorker
      BY <3>1 DEF ReadJob, ChooseWorker, pollVars, workerVars
    <3>2. CASE HandOver \/ DispatcherStops
      BY <3>2 DEF HandOver, DispatcherStops, pollVars, workerVars
    <3> QED
      BY <3>1, <3>2 DEF DispatchStep
  <2>2. Jobs' = Jobs
    BY <2>1 DEF Jobs, Received
  <2>3. taken \in Nat /\ queued \in Nat /\ taken <= queued /\ queued <= Received
    BY DEF DeletedInv, TypeInv, TypeOK
  <2>4. Received \in Nat
    BY DEF Received, DeletedInv, TypeInv, TypeOK
  <2> QED
    BY <2>1, <2>2, <2>3, <2>4
<1>2. TakenSome'
  BY <1>1 DEF DispatchStep, ReadJob, ChooseWorker, HandOver, DispatcherStops, DeletedInv, TakenSome
<1>3. CASE ReadJob \/ ChooseWorker \/ DispatcherStops
  BY <1>1, <1>2, <1>3, DeletedQuiet DEF ReadJob, ChooseWorker, DispatcherStops, workerVars
<1>4. CASE HandOver
  <2>1. /\ wstage' = [wstage EXCEPT ![chosen] = "working"]
        /\ wjob' = [wjob EXCEPT ![chosen] = taken]
        /\ wstage \in [Workers -> {"register", "waiting", "working", "acking", "returned"}]
        /\ wjob \in [Workers -> Nat]
    BY <1>4 DEF HandOver, DeletedInv, TypeInv, TypeOK
  <2>2. taken \in Jobs
    BY <1>1, <1>4 DEF HandOver, DeletedInv, TakenSome, Jobs, Received, TypeInv, TypeOK
  <2>3. JobIsDelivery' /\ AckIsHandled'
    BY <1>1, <2>1, <2>2 DEF DeletedInv, JobIsDelivery, AckIsHandled
  <2>4. DeletedWasHandled'
    BY <1>1 DEF DeletedInv, DeletedWasHandled
  <2> QED
    BY <1>2, <2>3, <2>4 DEF DeletedInv
<1> QED
  BY <1>3, <1>4 DEF DispatchStep

LEMMA DeletedWorker ==
    ASSUME DeletedInv, TypeInv', NEW w \in Workers, WorkerStep(w)
    PROVE  DeletedInv'
<1>1. /\ UNCHANGED <<deliveries, taken, dispatcher>> /\ Jobs' = Jobs /\ TakenSome'
      /\ handled \subseteq handled'
  BY DEF WorkerStep, Register, HandleMessage, DeleteMessage, WorkerStops, pollVars, dispatchVars,
         Jobs, Received, DeletedInv, TakenSome
<1>2. /\ wstage \in [Workers -> {"register", "waiting", "working", "acking", "returned"}]
      /\ wjob \in [Workers -> Nat]
      /\ sqs \in [Messages -> {"visible", "inflight", "deleted"}]
  BY DEF DeletedInv, TypeInv, TypeOK
<1>3. CASE Register(w) \/ WorkerStops(w)
  BY <1>1, <1>2, <1>3, DeletedQuiet DEF Register, WorkerStops, pollVars
<1>4. CASE HandleMessage(w)
  <2>1. /\ wstage[w] = "working" /\ wstage' = [wstage EXCEPT ![w] = "acking"]
        /\ handled' = handled \cup {wjob[w]} /\ UNCHANGED <<wjob, sqs>>
    BY <1>4 DEF HandleMessage, pollVars
  <2>2. JobIsDelivery' /\ AckIsHandled'
    BY <1>1, <1>2, <2>1 DEF DeletedInv, JobIsDelivery, AckIsHandled
  <2>3. DeletedWasHandled'
    BY <1>1, <2>1 DEF DeletedInv, DeletedWasHandled
  <2> QED
    BY <1>1, <2>2, <2>3 DEF DeletedInv
<1>5. CASE DeleteMessage(w)
  <2>1. /\ wstage[w] = "acking" /\ wstage' = [wstage EXCEPT ![w] = "register"]
        /\ wjob' = [wjob EXCEPT ![w] = 0] /\ handled' = handled
        /\ sqs' \in {sqs, [sqs EXCEPT ![deliveries[wjob[w]]] = "deleted"]}
    BY <1>5 DEF DeleteMessage
  <2>2. JobIsDelivery' /\ AckIsHandled'
    BY <1>1, <1>2, <2>1 DEF DeletedInv, JobIsDelivery, AckIsHandled
  <2>3. wjob[w] \in Jobs /\ wjob[w] \in handled
    BY <2>1 DEF DeletedInv, JobIsDelivery, AckIsHandled
  <2>4. \A m \in Messages : sqs'[m] = "deleted" => sqs[m] = "deleted" \/ m = deliveries[wjob[w]]
    BY <1>2, <2>1
  <2>5. DeletedWasHandled'
    BY <1>1, <2>1, <2>3, <2>4 DEF DeletedInv, DeletedWasHandled
  <2> QED
    BY <1>1, <2>2, <2>5 DEF DeletedInv
<1> QED
  BY <1>3, <1>4, <1>5 DEF WorkerStep

LEMMA DeletedInductive == DeletedInv /\ [Next]_vars => DeletedInv'
<1> SUFFICES ASSUME DeletedInv, [Next]_vars PROVE DeletedInv'
  OBVIOUS
<1>1. TypeInv'
  BY TypeInductive DEF DeletedInv
<1>2. ASSUME NEW m \in Messages, VisibilityExpires(m) PROVE DeletedInv'
  <2>1. \A n \in Messages : sqs'[n] = "deleted" => sqs[n] = "deleted"
    BY <1>2 DEF VisibilityExpires, DeletedInv, TypeInv, TypeOK
  <2>2. UNCHANGED <<deliveries, dispatchVars, workerVars>>
    BY <1>2 DEF VisibilityExpires
  <2> QED
    BY <1>1, <2>1, <2>2, DeletedQuiet
       DEF dispatchVars, workerVars, Jobs, Received, DeletedInv, TakenSome
<1>3. CASE Cancel \/ UNCHANGED vars
  <2>1. UNCHANGED <<pollVars, dispatchVars, workerVars>>
    BY <1>3 DEF Cancel, vars
  <2> QED
    BY <1>1, <2>1, DeletedQuiet
       DEF pollVars, dispatchVars, workerVars, Jobs, Received, DeletedInv, TakenSome
<1> QED
  BY <1>1, <1>2, <1>3, DeletedPoll, DeletedDispatch, DeletedWorker DEF Next

\* SQS forgets no message that HandleMessage has not run for.
THEOREM DeletedIsHandled == Spec => []DeletedWasHandled
<1>1. Init => DeletedInv
  BY TypeInit DEF Init, DeletedInv, TakenSome, JobIsDelivery, AckIsHandled, DeletedWasHandled
<1>2. DeletedInv => DeletedWasHandled
  BY DEF DeletedInv
<1> QED
  BY <1>1, <1>2, DeletedInductive, PTL DEF Spec

-----------------------------------------------------------------------------
(* JobsAccounted and OneWorkerPerJob.  Jobs are handed over in the order of  *)
(* their numbers, so the one the dispatcher holds is above every other.      *)

InHand == dispatcher \in {"choosing", "handing"}

\* A worker has a job exactly while it works on it, and what was handled was
\* with a worker before.
JobAtWork ==
    \A w \in Workers :
        /\ wjob[w] # 0 <=> wstage[w] \in {"working", "acking"}
        /\ wstage[w] = "working" => wjob[w] \notin handled

\* What a worker has, or has handled, was taken before the job in hand.
Behind(i) == i <= taken /\ (InHand => i < taken)
AllBehind == (\A w \in Workers : Behind(wjob[w])) /\ (\A i \in handled : Behind(i))

OneJobEach == \A w, x \in Workers : wjob[w] = wjob[x] /\ wjob[w] # 0 => w = x

AccountInv == TypeInv /\ TakenSome /\ JobAtWork /\ AllBehind /\ OneJobEach /\ JobsAccounted

\* Steps that neither hand a job over nor end one.
LEMMA AccountQuiet ==
    ASSUME AccountInv, TypeInv', UNCHANGED <<taken, dispatcher, wjob, handled>>,
           \A w \in Workers : wstage'[w] = "working" <=> wstage[w] = "working",
           \A w \in Workers : wstage'[w] = "acking" <=> wstage[w] = "acking",
           cancelled => cancelled'
    PROVE  AccountInv'
<1>1. TakenSome' /\ OneJobEach'
  BY DEF AccountInv, TakenSome, OneJobEach
<1>2. AllBehind'
  BY DEF AccountInv, AllBehind, Behind, InHand
<1>3. JobAtWork'
  BY DEF AccountInv, JobAtWork
<1>4. JobsAccounted'
  BY DEF AccountInv, JobsAccounted
<1> QED
  BY <1>1, <1>2, <1>3, <1>4 DEF AccountInv

LEMMA AccountDispatch ==
    ASSUME AccountInv, TypeInv', DispatchStep
    PROVE  AccountInv'
<1>1. /\ taken \in Nat /\ wjob \in [Workers -> Nat] /\ handled \subseteq Nat
      /\ wstage \in [Workers -> {"register", "waiting", "working", "acking", "returned"}]
  BY DEF AccountInv, TypeInv, TypeOK
<1>2. CASE ReadJob
  <2>1. /\ dispatcher = "reading" /\ dispatcher' = "choosing" /\ taken' = taken + 1
        /\ UNCHANGED <<wstage, wjob, handled, cancelled>>
    BY <1>2 DEF ReadJob, workerVars
  <2>2. TakenSome' /\ OneJobEach' /\ JobAtWork'
    BY <1>1, <2>1 DEF AccountInv, TakenSome, OneJobEach, JobAtWork
  <2>3. AllBehind'
    BY <1>1, <2>1 DEF AccountInv, AllBehind, Behind, InHand
  <2>4. JobsAccounted'
    BY <1>1, <2>1 DEF AccountInv, JobsAccounted
  <2> QED
    BY <2>2, <2>3, <2>4 DEF AccountInv
<1>3. CASE ChooseWorker
  <2>1. /\ dispatcher = "choosing" /\ dispatcher' = "handing"
        /\ UNCHANGED <<taken, wstage, wjob, handled, cancelled>>
    BY <1>3 DEF ChooseWorker, workerVars
  <2>2. TakenSome' /\ OneJobEach' /\ JobAtWork'
    BY <2>1 DEF AccountInv, TakenSome, OneJobEach, JobAtWork
  <2>3. AllBehind'
    BY <2>1 DEF AccountInv, AllBehind, Behind, InHand
  <2>4. JobsAccounted'
    BY <2>1 DEF AccountInv, JobsAccounted
  <2> QED
    BY <2>2, <2>3, <2>4 DEF AccountInv
<1>4. CASE HandOver
  <2>1. /\ dispatcher = "handing" /\ dispatcher' = "reading" /\ wstage[chosen] = "waiting"
        /\ wstage' = [wstage EXCEPT ![chosen] = "working"]
        /\ wjob' = [wjob EXCEPT ![chosen] = taken]
        /\ UNCHANGED <<taken, handled, cancelled>>
    BY <1>4 DEF HandOver
  <2>2. chosen \in Workers
    BY <2>1 DEF AccountInv, TypeInv, TypeOK
  <2>3. /\ wjob'[chosen] = taken /\ wstage'[chosen] = "working"
        /\ \A w \in Workers \ {chosen} : wjob'[w] = wjob[w] /\ wstage'[w] = wstage[w]
    BY <1>1, <2>1, <2>2
  <2>4. taken \notin handled /\ \A w \in Workers : wjob[w] # taken
    BY <1>1, <2>1 DEF AccountInv, AllBehind, Behind, InHand
  <2>5. TakenSome' /\ OneJobEach' /\ JobAtWork'
    BY <1>1, <2>1, <2>2, <2>3, <2>4 DEF AccountInv, TakenSome, OneJobEach, JobAtWork
  <2>6. AllBehind'
    BY <1>1, <2>1, <2>3 DEF AccountInv, AllBehind, Behind, InHand
  <2>7. JobsAccounted'
    BY <2>1, <2>2, <2>3 DEF AccountInv, JobsAccounted
  <2> QED
    BY <2>5, <2>6, <2>7 DEF AccountInv
<1>5. CASE DispatcherStops
  <2>1. /\ dispatcher' = "returned" /\ UNCHANGED <<taken, wstage, wjob, handled, cancelled>>
        /\ cancelled \/ dispatcher = "reading"
    BY <1>5 DEF DispatcherStops, workerVars
  <2>2. TakenSome' /\ OneJobEach' /\ JobAtWork'
    BY <2>1 DEF AccountInv, TakenSome, OneJobEach, JobAtWork
  <2>3. AllBehind'
    BY <2>1 DEF AccountInv, AllBehind, Behind, InHand
  <2>4. JobsAccounted'
    BY <2>1 DEF AccountInv, JobsAccounted
  <2> QED
    BY <2>2, <2>3, <2>4 DEF AccountInv
<1> QED
  BY <1>2, <1>3, <1>4, <1>5 DEF DispatchStep

LEMMA AccountWorker ==
    ASSUME AccountInv, TypeInv', NEW w \in Workers, WorkerStep(w)
    PROVE  AccountInv'
<1>1. /\ taken \in Nat /\ wjob \in [Workers -> Nat] /\ handled \subseteq Nat
      /\ wstage \in [Workers -> {"register", "waiting", "working", "acking", "returned"}]
  BY DEF AccountInv, TypeInv, TypeOK
<1>2. UNCHANGED <<taken, dispatcher, cancelled>> /\ TakenSome'
  BY DEF WorkerStep, Register, HandleMessage, DeleteMessage, WorkerStops, dispatchVars,
         AccountInv, TakenSome
<1>3. CASE Register(w) \/ WorkerStops(w)
  <2>1. UNCHANGED <<wjob, handled>>
    BY <1>3 DEF Register, WorkerStops
  <2>2. /\ \A x \in Workers : wstage'[x] = "working" <=> wstage[x] = "working"
        /\ \A x \in Workers : wstage'[x] = "acking" <=> wstage[x] = "acking"
    BY <1>1, <1>3 DEF Register, WorkerStops
  <2> QED
    BY <1>2, <2>1, <2>2, AccountQuiet
<1>4. CASE HandleMessage(w)
  <2>1. /\ wstage[w] = "working" /\ wstage'[w] = "acking" /\ UNCHANGED wjob
        /\ handled' = handled \cup {wjob[w]}
        /\ \A x \in Workers \ {w} : wstage'[x] = wstage[x]
    BY <1>1, <1>4 DEF HandleMessage
  <2>2. OneJobEach' /\ AllBehind'
    BY <1>2, <2>1 DEF AccountInv, OneJobEach, AllBehind, Behind, InHand
  <2>3. JobAtWork'
    BY <1>2, <2>1 DEF AccountInv, JobAtWork, OneJobEach
  <2>4. JobsAccounted'
    BY <1>2, <2>1 DEF AccountInv, JobsAccounted
  <2> QED
    BY <1>2, <2>2, <2>3, <2>4 DEF AccountInv
<1>5. CASE DeleteMessage(w)
  <2>1. /\ wstage[w] = "acking" /\ wstage'[w] = "register" /\ wjob'[w] = 0 /\ handled' = handled
        /\ \A x \in Workers \ {w} : wstage'[x] = wstage[x] /\ wjob'[x] = wjob[x]
    BY <1>1, <1>5 DEF DeleteMessage
  <2>2. OneJobEach' /\ JobAtWork'
    BY <2>1 DEF AccountInv, OneJobEach, JobAtWork
  <2>3. AllBehind'
    BY <1>1, <1>2, <2>1 DEF AccountInv, AllBehind, Behind, InHand, TakenSome
  <2>4. JobsAccounted'
    BY <1>2, <2>1 DEF AccountInv, JobsAccounted
  <2> QED
    BY <1>2, <2>2, <2>3, <2>4 DEF AccountInv
<1> QED
  BY <1>3, <1>4, <1>5 DEF WorkerStep

LEMMA AccountInductive == AccountInv /\ [Next]_vars => AccountInv'
<1> SUFFICES ASSUME AccountInv, [Next]_vars PROVE AccountInv'
  OBVIOUS
<1>1. TypeInv'
  BY TypeInductive DEF AccountInv
<1>2. CASE PollStep
  BY <1>1, <1>2, AccountQuiet
     DEF PollStep, ReceiveMessage, PushJob, PollerStops, PoolWaited, dispatchVars, workerVars
<1>3. CASE \E m \in Messages : VisibilityExpires(m)
  BY <1>1, <1>3, AccountQuiet DEF VisibilityExpires, dispatchVars, workerVars
<1>4. CASE Cancel
  BY <1>1, <1>4, AccountQuiet DEF Cancel, dispatchVars, workerVars
<1>5. CASE UNCHANGED vars
  BY <1>1, <1>5, AccountQuiet DEF vars, dispatchVars, workerVars
<1> QED
  BY <1>1, <1>2, <1>3, <1>4, <1>5, AccountDispatch, AccountWorker DEF Next

LEMMA AccountInit == Init => AccountInv
<1> SUFFICES ASSUME Init PROVE AccountInv
  OBVIOUS
<1>1. TypeInv
  BY TypeInit
<1> QED
  BY <1>1 DEF Init, AccountInv, TakenSome, JobAtWork, AllBehind, Behind, InHand, OneJobEach,
              JobsAccounted

\* Until a shutdown no job is lost on the way from jobQueue to its worker.
THEOREM AllAccounted == Spec => []JobsAccounted
<1>1. AccountInv => JobsAccounted
  BY DEF AccountInv
<1> QED
  BY <1>1, AccountInit, AccountInductive, PTL DEF Spec

\* No job is worked on twice, before a shutdown or after.
THEOREM NotTwice == Spec => []OneWorkerPerJob
<1>1. AccountInv => OneWorkerPerJob
  BY DEF AccountInv, OneJobEach, JobAtWork, OneWorkerPerJob
<1> QED
  BY <1>1, AccountInit, AccountInductive, PTL DEF Spec

-----------------------------------------------------------------------------
(* RegisterNeverBlocks, if idleWorkerQueue has room for every worker.        *)

\* Registered workers are different and wait, so beside one that registers
\* there are fewer of them than workers.
LEMMA RoomLeft ==
    ASSUME HandOffInv, IsFiniteSet(Workers), Cardinality(Workers) <= IdleCap,
           NEW w \in Workers, wstage[w] = "register"
    PROVE  Len(idle) < IdleCap
<1>1. idle \in Seq(Workers) /\ Len(idle) \in Nat /\ DOMAIN idle = 1..Len(idle)
  BY DEF HandOffInv, TypeInv, TypeOK
<1>2. \A i \in 1..Len(idle) : idle[i] \in Workers \ {w}
  BY <1>1 DEF HandOffInv, IdleWaits, Waits
<1>3. idle \in Injection(1..Len(idle), Workers \ {w})
  BY <1>1, <1>2 DEF HandOffInv, IdleOnce, Injection, IsInjective
<1>4. IsFiniteSet(Workers \ {w}) /\ Cardinality(Workers \ {w}) = Cardinality(Workers) - 1
  BY FS_RemoveElement
<1>5. Cardinality(1..Len(idle)) <= Cardinality(Workers \ {w})
  BY <1>3, <1>4, FS_Injection DEF ExistsInjection
<1>6. Cardinality(1..Len(idle)) = Len(idle)
  <2>1. \A n \in Nat : Cardinality(1..n) = n
    BY FS_Interval
  <2> QED
    BY <1>1, <2>1
<1>7. Cardinality(Workers) \in Nat
  BY FS_CardinalityType
<1> QED
  BY <1>1, <1>4, <1>5, <1>6, <1>7, PoolAssumption

\* A worker that is done always finds room for its inbox, as main gives
\* idleWorkerQueue the capacity of the number of workers.
THEOREM RegisterRoom ==
    ASSUME IsFiniteSet(Workers), Cardinality(Workers) <= IdleCap
    PROVE  Spec => []RegisterNeverBlocks
<1>1. Init => HandOffInv
  BY TypeInit DEF Init, HandOffInv, IdleOnce, IdleWaits, ChosenWaits
<1>2. HandOffInv => RegisterNeverBlocks
  BY RoomLeft DEF RegisterNeverBlocks
<1> QED
  BY <1>1, <1>2, HandOffInductive, PTL DEF Spec

-----------------------------------------------------------------------------
(* EncodeService.  Until the dispatcher returns, what it took is in its hand *)
(* or has begun: jobs begin in the order of their numbers, and the one lost  *)
(* with a dispatcher that stops is the last that was taken.                  *)

TakenBegan ==
    dispatcher # "returned" =>
        \A i \in 1..taken :
            \/ i = taken /\ InHand
            \/ i \in handled
            \/ \E w \in Workers : wjob[w] = i /\ wstage[w] = "working"

ServiceInv == AccountInv /\ DeletedInv /\ TakenBegan /\ handled \subseteq Nat \ {0}

\* Steps by which no worker begins or ends.
LEMMA ServiceQuiet ==
    ASSUME ServiceInv, UNCHANGED <<taken, wjob, handled>>,
           \A w \in Workers : wstage'[w] = "working" <=> wstage[w] = "working",
           dispatcher' # "returned" => dispatcher # "returned" /\ (InHand => InHand')
    PROVE  TakenBegan' /\ handled' \subseteq Nat \ {0}
  BY DEF ServiceInv, TakenBegan

LEMMA ServiceInductive == ServiceInv /\ [Next]_vars => ServiceInv'
<1> SUFFICES ASSUME ServiceInv, [Next]_vars PROVE TakenBegan' /\ handled' \subseteq Nat \ {0}
  BY AccountInductive, DeletedInductive DEF ServiceInv
<1>2. /\ taken \in Nat /\ wjob \in [Workers -> Nat]
      /\ wstage \in [Workers -> {"register", "waiting", "working", "acking", "returned"}]
  BY DEF ServiceInv, AccountInv, TypeInv, TypeOK
<1>3. CASE PollStep
  BY <1>3, ServiceQuiet
     DEF PollStep, ReceiveMessage, PushJob, PollerStops, PoolWaited, dispatchVars, workerVars, InHand
<1>4. CASE DispatchStep
  <2>1. CASE ReadJob
    <3>1. /\ dispatcher = "reading" /\ dispatcher' = "choosing" /\ taken' = taken + 1
          /\ UNCHANGED <<wstage, wjob, handled>>
      BY <2>1 DEF ReadJob, workerVars
    <3>2. \A i \in 1..taken' : i \in 1..taken \/ i = taken'
      BY <1>2, <3>1
    <3> QED
      BY <3>1, <3>2 DEF ServiceInv, TakenBegan, InHand
  <2>2. CASE ChooseWorker \/ DispatcherStops
    BY <2>2, ServiceQuiet DEF ChooseWorker, DispatcherStops, workerVars, InHand
  <2>3. CASE HandOver
    <3>1. /\ dispatcher = "handing" /\ dispatcher' = "reading" /\ wstage[chosen] = "waiting"
          /\ wstage' = [wstage EXCEPT ![chosen] = "working"]
          /\ wjob' = [wjob EXCEPT ![chosen] = taken]
          /\ UNCHANGED <<taken, handled>> /\ chosen \in Workers
      BY <2>3 DEF HandOver, ServiceInv, AccountInv, TypeInv, TypeOK
    <3>2. /\ wjob'[chosen] = taken /\ wstage'[chosen] = "working"
          /\ \A w \in Workers \ {chosen} : wjob'[w] = wjob[w] /\ wstage'[w] = wstage[w]
      BY <1>2, <3>1
    <3> QED
      BY <3>1, <3>2 DEF ServiceInv, TakenBegan, InHand
  <2> QED
    BY <1>4, <2>1, <2>2, <2>3 DEF DispatchStep
<1>5. ASSUME NEW w \in Workers, WorkerStep(w) PROVE TakenBegan' /\ handled' \subseteq Nat \ {0}
  <2>1. CASE Register(w) \/ WorkerStops(w)
    <3>1. UNCHANGED <<taken, dispatcher, wjob, handled>>
      BY <2>1 DEF Register, WorkerStops, dispatchVars
    <3>2. \A x \in Workers : wstage'[x] = "working" <=> wstage[x] = "working"
      BY <1>2, <2>1 DEF Register, WorkerStops
    <3> QED
      BY <3>1, <3>2, ServiceQuiet DEF InHand
  <2>2. CASE HandleMessage(w)
    <3>1. /\ wstage[w] = "working" /\ handled' = handled \cup {wjob[w]}
          /\ UNCHANGED <<taken, dispatcher, wjob>>
          /\ \A x \in Workers \ {w} : wstage'[x] = wstage[x]
      BY <1>2, <2>2 DEF HandleMessage, dispatchVars
    <3>2. wjob[w] \in Nat \ {0}
      BY <1>2, <3>1 DEF ServiceInv, AccountInv, JobAtWork
    <3>3. \A i, x : x \in Workers /\ wjob[x] = i /\ wstage[x] = "working"
            => i \in handled' \/ (wjob'[x] = i /\ wstage'[x] = "working")
      BY <3>1
    <3>4. TakenBegan'
      BY <3>1, <3>3 DEF ServiceInv, TakenBegan, InHand
    <3> QED
      BY <3>1, <3>2, <3>4 DEF ServiceInv
  <2>3. CASE DeleteMessage(w)
    <3>1. /\ wstage[w] = "acking" /\ UNCHANGED <<taken, dispatcher, handled>>
          /\ \A x \in Workers \ {w} : wstage'[x] = wstage[x] /\ wjob'[x] = wjob[x]
      BY <1>2, <2>3 DEF DeleteMessage, dispatchVars
    <3> QED
      BY <3>1 DEF ServiceInv, TakenBegan, InHand
  <2> QED
    BY <1>5, <2>1, <2>2, <2>3 DEF WorkerStep
<1>6. CASE (\E m \in Messages : VisibilityExpires(m)) \/ Cancel \/ UNCHANGED vars
  BY <1>6, ServiceQuiet DEF VisibilityExpires, Cancel, vars, dispatchVars, workerVars, InHand
<1> QED
  BY <1>3, <1>4, <1>5, <1>6 DEF Next

Serving == [w \in Workers |-> IF wstage[w] = "working" THEN wjob[w] ELSE 0]

LEMMA ServiceInitOK == Init => ServiceInv /\ Service!ServiceInit
<1> SUFFICES ASSUME Init PROVE ServiceInv /\ Service!ServiceInit
  OBVIOUS
<1>1. DeletedInv
  BY TypeInit DEF Init, DeletedInv, TakenSome, JobIsDelivery, AckIsHandled, DeletedWasHandled
<1>2. TakenBegan /\ handled \subseteq Nat \ {0}
  BY DEF Init, TakenBegan
<1>3. Serving = [w \in Workers |-> 0]
  BY DEF Init, Serving
<1> QED
  BY <1>1, <1>2, <1>3, AccountInit DEF ServiceInv, Service!ServiceInit, Init, Serving

\* The hand-over begins the first job that was not begun.
LEMMA HandOverBegins ==
    ASSUME ServiceInv, HandOver
    PROVE  \E w \in Workers : Service!Begin(w)
<1>1. /\ taken \in Nat /\ wjob \in [Workers -> Nat] /\ handled \subseteq Nat \ {0}
      /\ wstage \in [Workers -> {"register", "waiting", "working", "acking", "returned"}]
      /\ deliveries \in Seq(Messages) /\ queued \in Nat /\ taken <= queued /\ queued <= Received
  BY DEF ServiceInv, AccountInv, TypeInv, TypeOK
<1>2. /\ dispatcher = "handing" /\ dispatcher' = "reading" /\ wstage[chosen] = "waiting"
      /\ wstage' = [wstage EXCEPT ![chosen] = "working"]
      /\ wjob' = [wjob EXCEPT ![chosen] = taken]
      /\ UNCHANGED <<sqs, deliveries, handled>> /\ chosen \in Workers
  BY DEF HandOver, pollVars, ServiceInv, AccountInv, TypeInv, TypeOK
<1>3. taken \in 1..Len(deliveries)
  BY <1>1, <1>2 DEF ServiceInv, DeletedInv, TakenSome, Received
<1>4. Serving[chosen] = 0 /\ Serving' = [Serving EXCEPT ![chosen] = taken]
  BY <1>1, <1>2 DEF Serving
<1>5. handled \cup ({Serving[w] : w \in Workers} \ {0}) = 1..(taken - 1)
  <2>1. \A w \in Workers : Serving[w] = 0 \/ (Serving[w] = wjob[w] /\ wjob[w] \in Nat)
    BY <1>1 DEF Serving
  <2>2. \A w \in Workers : Serving[w] # 0 => Serving[w] \in 1..(taken - 1)
    BY <1>1, <1>2, <2>1 DEF ServiceInv, AccountInv, AllBehind, Behind, InHand
  <2>3. handled \subseteq 1..(taken - 1)
    BY <1>1, <1>2 DEF ServiceInv, AccountInv, AllBehind, Behind, InHand
  <2>4. ASSUME NEW i \in 1..(taken - 1)
        PROVE  i \in handled \/ \E w \in Workers : Serving[w] = i /\ i # 0
    <3>1. i \in 1..taken /\ i # taken /\ i # 0
      BY <1>1
    <3> QED
      BY <1>2, <3>1 DEF ServiceInv, TakenBegan, Serving
  <2> QED
    BY <2>2, <2>3, <2>4
<1> QED
  BY <1>2, <1>3, <1>4, <1>5 DEF Service!Begin, Service!Begun, Serving

LEMMA ServiceStep == ServiceInv /\ [Next]_vars => [Service!ServiceNext]_Service!serviceVars
<1> SUFFICES ASSUME ServiceInv, [Next]_vars
             PROVE  Service!ServiceNext \/ UNCHANGED <<sqs, deliveries, Serving, handled>>
  BY DEF Service!serviceVars, Serving
<1>1. /\ wjob \in [Workers -> Nat]
      /\ wstage \in [Workers -> {"register", "waiting", "working", "acking", "returned"}]
  BY DEF ServiceInv, AccountInv, TypeInv, TypeOK
<1>2. CASE PollStep
  <2>1. UNCHANGED <<Serving, handled>>
    BY <1>2 DEF PollStep, ReceiveMessage, PushJob, PollerStops, PoolWaited, workerVars, Serving
  <2>2. CASE ReceiveMessage
    <3>1. PICK b \in Batches :
            /\ deliveries' = deliveries \o b
            /\ sqs' = [m \in Messages |->
                        IF \E i \in DOMAIN b : b[i] = m THEN "inflight" ELSE sqs[m]]
      BY <2>2 DEF ReceiveMessage
    <3>2. PICK n \in 1..BatchSize : b \in [1..n -> Messages]
      BY DEF Batches
    <3>3. DOMAIN b = 1..n /\ \A i \in 1..n : sqs[b[i]] = "visible"
      BY <3>2 DEF Batches
    <3>4. sqs' = [m \in Messages |-> IF \E i \in 1..n : b[i] = m THEN "inflight" ELSE sqs[m]]
      BY <3>1, <3>3
    <3>5. \E k \in 1..BatchSize : \E batch \in [1..k -> Messages] :
            /\ \A i \in 1..k : sqs[batch[i]] = "visible"
            /\ deliveries' = deliveries \o batch
            /\ sqs' = [m \in Messages |->
                        IF \E i \in 1..k : batch[i] = m THEN "inflight" ELSE sqs[m]]
      <4>1. deliveries' = deliveries \o b
        BY <3>1
      <4> QED
        BY <3>2, <3>3, <3>4, <4>1, Zenon
    <3>6. Service!Deliver
      BY <2>1, <3>5, Zenon DEF Service!Deliver, Serving
    <3> QED
      BY <3>6 DEF Service!ServiceNext
  <2>3. CASE PushJob \/ PollerStops \/ PoolWaited
    BY <2>1, <2>3 DEF PushJob, PollerStops, PoolWaited
  <2> QED
    BY <1>2, <2>2, <2>3 DEF PollStep
<1>3. CASE DispatchStep
  <2>1. CASE ReadJob \/ ChooseWorker \/ DispatcherStops
    BY <2>1 DEF ReadJob, ChooseWorker, DispatcherStops, pollVars, workerVars, Serving
  <2>2. CASE HandOver
    BY <2>2, HandOverBegins DEF Service!ServiceNext
  <2> QED
    BY <1>3, <2>1, <2>2 DEF DispatchStep
<1>4. ASSUME NEW w \in Workers, WorkerStep(w)
      PROVE  Service!ServiceNext \/ UNCHANGED <<sqs, deliveries, Serving, handled>>
  <2>1. CASE Register(w) \/ WorkerStops(w)
    <3>1. UNCHANGED <<sqs, deliveries, wjob, handled>>
      BY <2>1 DEF Register, WorkerStops, pollVars
    <3>2. \A x \in Workers : wstage'[x] = "working" <=> wstage[x] = "working"
      BY <1>1, <2>1 DEF Register, WorkerStops
    <3> QED
      BY <3>1, <3>2 DEF Serving
  <2>2. CASE HandleMessage(w)
    <3>1. /\ wstage[w] = "working" /\ wstage' = [wstage EXCEPT ![w] = "acking"]
          /\ handled' = handled \cup {wjob[w]} /\ UNCHANGED <<sqs, deliveries, wjob>>
      BY <2>2 DEF HandleMessage, pollVars
    <3>2. Serving[w] = wjob[w] /\ Serving[w] # 0
      BY <3>1 DEF Serving, ServiceInv, AccountInv, JobAtWork
    <3>3. Serving' = [Serving EXCEPT ![w] = 0]
      BY <1>1, <3>1 DEF Serving
    <3>4. Service!End(w)
      BY <3>1, <3>2, <3>3 DEF Service!End, Serving
    <3> QED
      BY <3>4 DEF Service!ServiceNext
  <2>3. CASE DeleteMessage(w)
    <3>1. /\ wstage[w] = "acking" /\ UNCHANGED <<deliveries, handled>>
          /\ wstage'[w] = "register"
          /\ \A x \in Workers \ {w} : wstage'[x] = wstage[x] /\ wjob'[x] = wjob[x]
          /\ UNCHANGED sqs \/ sqs' = [sqs EXCEPT ![deliveries[wjob[w]]] = "deleted"]
      BY <1>1, <2>3 DEF DeleteMessage
    <3>2. UNCHANGED Serving
      BY <3>1 DEF Serving
    <3>3. wjob[w] \in handled
      BY <3>1 DEF ServiceInv, DeletedInv, AckIsHandled
    <3>4. CASE sqs' = [sqs EXCEPT ![deliveries[wjob[w]]] = "deleted"]
      <4>1. Service!Delete(wjob[w])
        BY <3>1, <3>2, <3>3, <3>4 DEF Service!Delete, Serving
      <4> QED
        BY <3>3, <4>1 DEF Service!ServiceNext
    <3> QED
      BY <3>1, <3>2, <3>4
  <2> QED
    BY <1>4, <2>1, <2>2, <2>3 DEF WorkerStep
<1>5. ASSUME NEW m \in Messages, VisibilityExpires(m) PROVE Service!ServiceNext
  <2>1. Service!Expire(m)
    BY <1>5 DEF VisibilityExpires, Service!Expire, workerVars
  <2> QED
    BY <2>1 DEF Service!ServiceNext
<1>6. CASE Cancel \/ UNCHANGED vars
  BY <1>6 DEF Cancel, vars, pollVars, workerVars, Serving
<1> QED
  BY <1>2, <1>3, <1>4, <1>5, <1>6 DEF Next

\* The poller, the dispatcher and the workers implement EncodeService, for any
\* number of workers, any batch and any capacities, shutdowns included.
THEOREM PoolImplementsService == Spec => ImplementsService
<1> QED
  BY ServiceInitOK, ServiceInductive, ServiceStep, PTL DEF Spec, ImplementsService, Service!ServiceSpec
=============================================================================
