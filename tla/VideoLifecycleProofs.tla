------------------------ MODULE VideoLifecycleProofs ------------------------
(* VideoPipeline implements VideoLifecycle, for any faults and crashes.  The *)
(* hard part is that a job delivered once settles its video once, which      *)
(* takes an invariant on messages, workers and statuses together             *)
(* (SettledOnce).  Last, what it promises of a job and of the pushes,        *)
(* however often the job is given out.                                       *)
EXTENDS VideoPipelineProofs

\* Before its document is inserted a video cannot be found, nor deleted.
NotYetThere ==
    \A v \in Videos :
        upload[v] \in {"store", "insert"} => status[v] = "none" /\ v \notin deleting

\* The stages in which a worker has still to write the status.
Unsettled == {"lookup", "download", "encode", "put_hls", "mark_ready", "mark_failed"}

\* The message of a video that a worker holds is in flight, and of no other.
HeldOnce ==
    /\ \A w \in Workers : job[w] \in Videos => message[job[w]] = "inflight"
    /\ \A v \in Videos : message[v] = "inflight" => \E w \in Workers : job[w] = v
    /\ \A w, x \in Workers : job[w] = job[x] /\ job[w] \in Videos => w = x

\* Nobody has written an end of the encode before the message is received, nor
\* while its worker has still to write one.
SettledOnce ==
    /\ \A v \in Videos : message[v] \in {"none", "visible"} => status[v] \in {"none", "processing"}
    /\ \A w \in Workers : stage[w] \in Unsettled => status[job[w]] \in {"none", "processing"}

SentOnce ==
    \A v \in Videos : upload[v] \in {"store", "insert", "announce", "enqueue"} => message[v] = "none"

Once == HeldOnce /\ SettledOnce /\ SentOnce

LifeInv == TypeOK /\ DeletersKnown /\ NotYetThere /\ (~Redelivers => Once)

LEMMA LifeInit == Init => LifeInv
<1> SUFFICES ASSUME Init PROVE LifeInv
  OBVIOUS
<1>1. TypeOK
  BY TypeInit
<1>2. DeletersKnown /\ NotYetThere
  BY FilesFact DEF Init, DeletersKnown, NotYetThere
<1>3. Once
  BY FilesFact DEF Init, Once, HeldOnce, SettledOnce, SentOnce, Unsettled
<1> QED
  BY <1>1, <1>2, <1>3 DEF LifeInv

\* With one delivery per job there is neither a crash nor a lost or early message.
LEMMA OneDeliveryFact ==
    ASSUME ~Redelivers
    PROVE  "slow_encode" \notin Faults /\ "ack" \notin Faults /\ MaxCrashes = 0
BY PipelineAssumption DEF Redelivers

LEMMA NextTypes == TypeOK /\ Next => TypeOK'
BY TypeUpload, TypeWork, TypeQueue, TypeDelete DEF Next

LEMMA LifeUpload ==
    ASSUME LifeInv, NEW v \in Videos, UploadStep(v)
    PROVE  LifeInv'
<1> USE DEF UploadStep, StoreRaw, InsertDoc, AnnounceUpload, Enqueue, UploadAbandoned, UploadTo
<1>1. TypeOK /\ TypeOK'
  BY TypeUpload DEF LifeInv
<1>2. UNCHANGED <<workerVars, deleteVars>>
  OBVIOUS
<1>3. \A u \in Videos \ {v} :
        upload'[u] = upload[u] /\ status'[u] = status[u] /\ message'[u] = message[u]
  BY <1>1 DEF TypeOK, docVars
<1>4. DeletersKnown'
  BY <1>2 DEF LifeInv, DeletersKnown, deleteVars
<1>5. NotYetThere'
  <2>1. upload'[v] \in {"store", "insert"} => upload[v] = "store" /\ status'[v] = status[v]
    BY <1>1 DEF TypeOK, docVars
  <2> QED
    BY <1>2, <1>3, <2>1 DEF LifeInv, NotYetThere, deleteVars
<1>6. ASSUME ~Redelivers PROVE Once'
  <2>1. Once
    BY <1>6 DEF LifeInv
  <2>2. message[v] = "none"
    BY <2>1 DEF Once, SentOnce
  <2>3. message'[v] \in {"none", "visible"}
    BY <1>1, <2>2 DEF TypeOK
  <2>4. message'[v] # "none" => upload'[v] \in {"accepted", "rejected"}
    BY <1>1, <2>2 DEF TypeOK
  <2>5. status'[v] \in {"none", "processing"}
    BY <1>1, <2>1, <2>2 DEF Once, SettledOnce, TypeOK, docVars
  <2>6. \A w \in Workers : job[w] # v
    BY <2>1, <2>2 DEF Once, HeldOnce
  <2>7. UNCHANGED <<stage, job>>
    BY <1>2 DEF workerVars
  <2>8. HeldOnce'
    BY <1>3, <2>1, <2>2, <2>3, <2>6, <2>7 DEF Once, HeldOnce
  <2>9. SettledOnce'
    <3>1. \A w \in Workers : stage[w] \in Unsettled => job[w] \in Videos \ {v}
      BY <2>6, HasJob, <1>1 DEF Unsettled
    <3> QED
      BY <1>3, <2>1, <2>5, <2>7, <3>1 DEF Once, SettledOnce
  <2>10. SentOnce'
    BY <1>3, <2>1, <2>4 DEF Once, SentOnce
  <2> QED
    BY <2>8, <2>9, <2>10 DEF Once
<1> QED
  BY <1>1, <1>4, <1>5, <1>6 DEF LifeInv, Redelivers

\* A step of a worker or of the queue touches no request of the API.
LEMMA LifeApart ==
    ASSUME LifeInv, UNCHANGED <<upload, deleteVars>>,
           \A v \in Videos : status[v] = "none" => status'[v] = "none"
    PROVE  DeletersKnown' /\ NotYetThere'
BY DEF LifeInv, DeletersKnown, NotYetThere, deleteVars

LEMMA OnceQueue ==
    ASSUME LifeInv, ~Redelivers,
           \/ \E v \in Videos : VisibilityExpires(v)
           \/ \E w \in Workers, v \in Videos : Receive(w, v)
           \/ WorkerCrash
    PROVE  Once'
<1>1. TypeOK /\ Once
  BY DEF LifeInv
<1>2. ~ \E v \in Videos : VisibilityExpires(v)
  BY <1>1, OneDeliveryFact DEF VisibilityExpires, Once, HeldOnce
<1>3. ~ WorkerCrash
  BY <1>1, OneDeliveryFact DEF WorkerCrash, TypeOK
<1>4. PICK w \in Workers, v \in Videos : Receive(w, v)
  BY <1>2, <1>3
<1>5. \A x \in Workers : job[x] # v
  BY <1>1, <1>4 DEF Receive, Once, HeldOnce
<1>6. job'[w] = v /\ stage'[w] = "lookup" /\ message'[v] = "inflight"
  BY <1>1, <1>4 DEF Receive, TypeOK
<1>7. \A x \in Workers \ {w} : job'[x] = job[x] /\ stage'[x] = stage[x]
  BY <1>1, <1>4 DEF Receive, TypeOK
<1>8. \A u \in Videos \ {v} : message'[u] = message[u]
  BY <1>1, <1>4 DEF Receive, TypeOK
<1>9. HeldOnce'
  <2>1. \A x \in Workers : job'[x] \in Videos => message'[job'[x]] = "inflight"
    BY <1>1, <1>5, <1>6, <1>7, <1>8 DEF Once, HeldOnce
  <2>2. ASSUME NEW u \in Videos, message'[u] = "inflight" PROVE \E x \in Workers : job'[x] = u
    <3>1. CASE u = v
      BY <1>6, <3>1
    <3>2. CASE u # v
      <4>1. PICK x \in Workers : job[x] = u
        BY <1>1, <1>8, <2>2, <3>2 DEF Once, HeldOnce
      <4>2. x # w
        BY <1>1, <1>4, <4>1, FilesFact DEF Receive, TypeOK
      <4> QED
        BY <1>7, <4>1, <4>2
    <3> QED
      BY <3>1, <3>2
  <2>3. \A x, y \in Workers : job'[x] = job'[y] /\ job'[x] \in Videos => x = y
    BY <1>1, <1>5, <1>6, <1>7 DEF Once, HeldOnce
  <2> QED
    BY <2>1, <2>2, <2>3 DEF HeldOnce
<1>10. status[v] \in {"none", "processing"} /\ status' = status
  BY <1>1, <1>4 DEF Receive, Once, SettledOnce, docVars
<1>11. SettledOnce'
  BY <1>1, <1>6, <1>7, <1>8, <1>10 DEF Once, SettledOnce, Unsettled
<1>12. SentOnce'
  BY <1>1, <1>4, <1>8 DEF Receive, Once, SentOnce
<1> QED
  BY <1>9, <1>11, <1>12 DEF Once

\* Between the receipt and the acknowledgement only the worker's own stage and
\* the status of its own video change.
LEMMA OnceGoesOn ==
    ASSUME TypeOK, Once, NEW w \in Workers, stage[w] # "idle",
           UNCHANGED <<upload, message, job>>,
           \A x \in Workers \ {w} : stage'[x] = stage[x],
           \A v \in Videos \ {job[w]} : status'[v] = status[v],
           stage'[w] \in Unsettled =>
               stage[w] \in Unsettled /\ status'[job[w]] = status[job[w]]
    PROVE  Once'
<1>1. job[w] \in Videos
  BY HasJob
<1>2. \A x \in Workers : stage[x] \in Unsettled => job[x] \in Videos
  BY HasJob DEF Unsettled
<1>3. message[job[w]] = "inflight"
  BY <1>1 DEF Once, HeldOnce
<1>4. HeldOnce' /\ SentOnce'
  BY DEF Once, HeldOnce, SentOnce
<1>5. \A v \in Videos : message[v] \in {"none", "visible"} => status'[v] = status[v]
  BY <1>3
<1>6. ASSUME NEW x \in Workers, stage'[x] \in Unsettled
      PROVE  status'[job[x]] \in {"none", "processing"}
  <2>1. CASE x = w
    BY <1>6, <2>1 DEF Once, SettledOnce
  <2>2. CASE x # w
    <3>1. stage[x] \in Unsettled /\ job[x] \in Videos /\ job[x] # job[w]
      BY <1>1, <1>2, <1>6, <2>2 DEF Once, HeldOnce
    <3> QED
      BY <3>1 DEF Once, SettledOnce
  <2> QED
    BY <2>1, <2>2
<1> QED
  BY <1>4, <1>5, <1>6 DEF Once, SettledOnce

\* The status after a worker's update.
LEMMA UpdateFact ==
    ASSUME TypeOK, NEW w \in Workers, MarkReady(w) \/ MarkFailed(w)
    PROVE  /\ job[w] \in Videos
           /\ \A v \in Videos \ {job[w]} : status'[v] = status[v]
           /\ status[job[w]] = "none" => status'[job[w]] = "none"
           /\ status'[job[w]] \in {status[job[w]], "ready", "failed"}
<1>1. job[w] \in Videos
  BY HasJob DEF MarkReady, MarkFailed
<1>2. status \in [Videos -> Statuses]
  BY DEF TypeOK
<1> QED
  BY <1>1, <1>2 DEF MarkReady, MarkFailed, SetReady, SetFailed, docVars

LEMMA OnceWork ==
    ASSUME LifeInv, ~Redelivers, NEW w \in Workers, WorkStep(w)
    PROVE  Once'
<1>1. TypeOK /\ Once
  BY DEF LifeInv
<1>2. stage \in [Workers -> WorkerStages] /\ job \in [Workers -> Videos \cup {NoVideo}]
  BY <1>1 DEF TypeOK
<1>3. CASE Lookup(w)
  BY <1>1, <1>2, <1>3, OnceGoesOn DEF Lookup, WorkerTo, Unsettled, docVars
<1>4. CASE Download(w)
  BY <1>1, <1>2, <1>4, OnceGoesOn DEF Download, WorkerTo, Unsettled, docVars
<1>5. CASE Encode(w)
  BY <1>1, <1>2, <1>5, OnceGoesOn DEF Encode, WorkerTo, Unsettled, docVars
<1>6. CASE PutHls(w)
  BY <1>1, <1>2, <1>6, OnceGoesOn DEF PutHls, WorkerTo, Unsettled, docVars
<1>7. CASE MarkReady(w)
  <2>1. stage'[w] \notin Unsettled /\ stage[w] # "idle" /\ UNCHANGED <<upload, message, job>>
    BY <1>2, <1>7 DEF MarkReady, WorkerTo, Unsettled
  <2>2. \A x \in Workers \ {w} : stage'[x] = stage[x]
    BY <1>2, <1>7 DEF MarkReady, WorkerTo
  <2> QED
    BY <1>1, <1>7, <2>1, <2>2, UpdateFact, OnceGoesOn
<1>8. CASE MarkFailed(w)
  <2>1. stage'[w] \notin Unsettled /\ stage[w] # "idle" /\ UNCHANGED <<upload, message, job>>
    BY <1>2, <1>8 DEF MarkFailed, WorkerTo, Unsettled
  <2>2. \A x \in Workers \ {w} : stage'[x] = stage[x]
    BY <1>2, <1>8 DEF MarkFailed, WorkerTo
  <2> QED
    BY <1>1, <1>8, <2>1, <2>2, UpdateFact, OnceGoesOn
<1>9. CASE Announce(w)
  BY <1>1, <1>2, <1>9, OnceGoesOn DEF Announce, WorkerTo, Unsettled, docVars
<1>10. CASE Ack(w)
  <2>1. job[w] \in Videos /\ UNCHANGED <<upload, docVars>>
    BY <1>1, <1>10, HasJob DEF Ack
  <2>2. message' = [message EXCEPT ![job[w]] = "deleted"]
    BY <1>10, OneDeliveryFact DEF Ack
  <2>3. message'[job[w]] = "deleted" /\ \A v \in Videos \ {job[w]} : message'[v] = message[v]
    BY <1>1, <2>1, <2>2 DEF TypeOK
  <2>4. job'[w] = NoVideo /\ stage'[w] = "idle"
    BY <1>2, <1>10 DEF Ack
  <2>5. \A x \in Workers \ {w} : job'[x] = job[x] /\ stage'[x] = stage[x]
    BY <1>2, <1>10 DEF Ack
  <2>6. HeldOnce'
    <3>1. \A x \in Workers : job'[x] \in Videos => x # w /\ job'[x] = job[x] /\ job[x] # job[w]
      BY <1>1, <2>1, <2>4, <2>5, FilesFact DEF Once, HeldOnce
    <3>2. \A x \in Workers : job'[x] \in Videos => message'[job'[x]] = "inflight"
      BY <1>1, <2>3, <3>1 DEF Once, HeldOnce
    <3>3. ASSUME NEW v \in Videos, message'[v] = "inflight" PROVE \E x \in Workers : job'[x] = v
      <4>1. v # job[w] /\ message[v] = "inflight"
        BY <2>3, <3>3
      <4>2. PICK x \in Workers : job[x] = v
        BY <1>1, <4>1 DEF Once, HeldOnce
      <4> QED
        BY <2>5, <4>1, <4>2
    <3>4. \A x, y \in Workers : job'[x] = job'[y] /\ job'[x] \in Videos => x = y
      BY <1>1, <3>1 DEF Once, HeldOnce
    <3> QED
      BY <3>2, <3>3, <3>4 DEF HeldOnce
  <2>7. SettledOnce'
    BY <1>1, <2>1, <2>3, <2>4, <2>5 DEF Once, SettledOnce, Unsettled, docVars
  <2>8. SentOnce'
    <3>1. message[job[w]] = "inflight"
      BY <1>1, <2>1 DEF Once, HeldOnce
    <3> QED
      BY <1>1, <2>1, <2>3, <3>1 DEF Once, SentOnce
  <2> QED
    BY <2>6, <2>7, <2>8 DEF Once
<1> QED
  BY <1>3, <1>4, <1>5, <1>6, <1>7, <1>8, <1>9, <1>10 DEF WorkStep

\* DELETE takes away documents of the videos in deleting, and nothing else here.
LEMMA DeleteFact ==
    ASSUME LifeInv, NEW d \in Deleters, DeleteStep(d)
    PROVE  /\ UNCHANGED <<upload, message, stage, job>>
           /\ \A v \in Videos : status'[v] = status[v] \/ (status'[v] = "none" /\ v \in deleting)
           /\ \A v \in deleting' : v \in deleting \/ status[v] # "none"
           /\ deleting \subseteq deleting'
<1> USE DEF DeleteStep, DeleteLookup, DeleteRaw, ListHls, DeleteHls, DeleteDoc, DeleteAbandoned,
            DeleteReturns, DeleteTo, workerVars, docVars
<1>1. UNCHANGED <<upload, message, stage, job>>
  OBVIOUS
<1>2. deleting \subseteq deleting' /\ \A v \in deleting' : v \in deleting \/ status[v] # "none"
  OBVIOUS
<1>3. \A v \in Videos : status'[v] = status[v] \/ (status'[v] = "none" /\ v \in deleting)
  <2>1. CASE UNCHANGED status
    BY <2>1
  <2>2. CASE dstage[d] = "del_doc" /\ status' = [status EXCEPT ![dvideo[d]] = "none"]
    BY <2>2 DEF LifeInv, TypeOK, DeletersKnown
  <2> QED
    BY <2>1, <2>2
<1> QED
  BY <1>1, <1>2, <1>3

LEMMA LifeDelete ==
    ASSUME LifeInv, NEW d \in Deleters, DeleteStep(d)
    PROVE  LifeInv'
<1>1. TypeOK'
  BY TypeDelete DEF LifeInv
<1>2. DeletersKnown'
  <2>1. ASSUME NEW v \in Videos, DeleteLookup(d, v) PROVE DeletersKnown'
    BY <2>1 DEF DeleteLookup, LifeInv, TypeOK, DeletersKnown
  <2>2. CASE UNCHANGED <<dvideo, deleting>>
    BY <2>2 DEF LifeInv, DeletersKnown
  <2>3. CASE DeleteReturns(d)
    BY <2>3 DEF DeleteReturns, LifeInv, TypeOK, DeletersKnown
  <2> QED
    BY <2>1, <2>2, <2>3
       DEF DeleteStep, DeleteRaw, ListHls, DeleteHls, DeleteDoc, DeleteAbandoned
<1>3. NotYetThere'
  BY DeleteFact DEF LifeInv, NotYetThere
<1>4. ASSUME ~Redelivers PROVE Once'
  <2>1. Once /\ \A w \in Workers : stage[w] \in Unsettled => job[w] \in Videos
    BY <1>4, HasJob DEF LifeInv, Unsettled
  <2>2. HeldOnce' /\ SentOnce'
    BY <2>1, DeleteFact DEF Once, HeldOnce, SentOnce
  <2>3. SettledOnce'
    BY <2>1, DeleteFact DEF Once, SettledOnce
  <2> QED
    BY <2>2, <2>3 DEF Once
<1> QED
  BY <1>1, <1>2, <1>3, <1>4 DEF LifeInv, Redelivers

\* The status a step of the workers or of the queue leaves behind.
LEMMA WorkFact ==
    ASSUME LifeInv, NEW w \in Workers, WorkStep(w)
    PROVE  /\ UNCHANGED <<upload, deleteVars>>
           /\ \A v \in Videos : status[v] = "none" => status'[v] = "none"
<1>1. UNCHANGED <<upload, deleteVars>>
  BY DEF WorkStep, Lookup, Download, Encode, PutHls, MarkReady, MarkFailed, Announce, Ack
<1>2. CASE MarkReady(w) \/ MarkFailed(w)
  BY <1>1, <1>2, UpdateFact DEF LifeInv
<1>3. CASE UNCHANGED docVars
  BY <1>1, <1>3 DEF docVars
<1> QED
  BY <1>2, <1>3 DEF WorkStep, Lookup, Download, Encode, PutHls, Announce, Ack

LEMMA LifeInductive == LifeInv /\ [Next]_vars => LifeInv'
<1> SUFFICES ASSUME LifeInv, [Next]_vars PROVE LifeInv'
  OBVIOUS
<1>1. ASSUME NEW v \in Videos, UploadStep(v) PROVE LifeInv'
  BY <1>1, LifeUpload
<1>2. ASSUME NEW w \in Workers, WorkStep(w) PROVE LifeInv'
  <2>1. TypeOK'
    BY <1>2, TypeWork DEF LifeInv
  <2> QED
    BY <1>2, <2>1, WorkFact, LifeApart, OnceWork DEF LifeInv, Redelivers
<1>3. ASSUME \/ \E v \in Videos : VisibilityExpires(v)
             \/ \E w \in Workers, v \in Videos : Receive(w, v)
             \/ WorkerCrash
      PROVE  LifeInv'
  <2>1. TypeOK'
    BY <1>3, TypeQueue DEF LifeInv
  <2>2. UNCHANGED <<upload, docVars, deleteVars>>
    BY <1>3 DEF VisibilityExpires, Receive, WorkerCrash
  <2>3. DeletersKnown' /\ NotYetThere'
    BY <2>2, LifeApart DEF docVars
  <2> QED
    BY <1>3, <2>1, <2>3, OnceQueue DEF LifeInv, Redelivers
<1>4. ASSUME NEW d \in Deleters, DeleteStep(d) PROVE LifeInv'
  BY <1>4, LifeDelete
<1>5. CASE UNCHANGED vars
  <2> USE <1>5 DEF vars, docVars, workerVars, deleteVars, LifeInv
  <2>1. TypeOK'
    BY DEF TypeOK
  <2>2. DeletersKnown' /\ NotYetThere'
    BY DEF DeletersKnown, NotYetThere
  <2>3. Once => Once'
    BY DEF Once, HeldOnce, SettledOnce, SentOnce
  <2> QED
    BY <2>1, <2>2, <2>3 DEF Redelivers
<1> QED
  BY <1>1, <1>2, <1>3, <1>4, <1>5 DEF Next

-----------------------------------------------------------------------------
(* The refinement.                                                           *)

\* A step that changes the life of one video, or of none.
LEMMA OneLife ==
    ASSUME NEW v \in Videos,
           \A u \in Videos \ {v} : LifeOf(u)' = LifeOf(u)
    PROVE  life' = [life EXCEPT ![v] = LifeOf(v)']
BY DEF life

LEMMA SameLife ==
    ASSUME \A v \in Videos : LifeOf(v)' = LifeOf(v)
    PROVE  life' = life
BY DEF life

\* The insert is the abstract Upload, and nothing else of Upload shows.
LEMMA UploadRefines ==
    ASSUME LifeInv, NEW v \in Videos, UploadStep(v)
    PROVE  [Lifecycle!Next]_life
<1>1. status \in [Videos -> Statuses] /\ deleting' = deleting
  BY DEF LifeInv, TypeOK, UploadStep, StoreRaw, InsertDoc, AnnounceUpload, Enqueue,
         UploadAbandoned, deleteVars
<1>2. CASE status' = status
  BY <1>1, <1>2, SameLife DEF LifeOf
<1>3. CASE InsertDoc(v) /\ status' # status
  <2>1. status' = [status EXCEPT ![v] = "processing"]
    BY <1>3 DEF InsertDoc
  <2>2. LifeOf(v) = "none" /\ LifeOf(v)' = "processing"
    BY <1>1, <1>3, <2>1 DEF InsertDoc, LifeInv, NotYetThere, LifeOf
  <2>3. life' = [life EXCEPT ![v] = "processing"]
    BY <1>1, <2>1, <2>2, OneLife DEF LifeOf
  <2>4. Lifecycle!Upload(v)
    BY <2>2, <2>3 DEF Lifecycle!Upload, Lifecycle!Becomes, life
  <2> QED
    BY <2>4 DEF Lifecycle!Next
<1> QED
  BY <1>2, <1>3 DEF UploadStep, StoreRaw, InsertDoc, AnnounceUpload, Enqueue, UploadAbandoned, docVars

\* MarkReady and MarkFailed settle a video, or settle it again if jobs can be
\* delivered again; on a missing document they change nothing.
LEMMA WorkRefines ==
    ASSUME LifeInv, NEW w \in Workers, MarkReady(w) \/ MarkFailed(w)
    PROVE  [Lifecycle!Next]_life
<1>1. TypeOK /\ status \in [Videos -> Statuses] /\ deleting' = deleting
  BY DEF LifeInv, TypeOK, MarkReady, MarkFailed, deleteVars
<1>2. PICK v \in Videos : v = job[w]
  BY <1>1, UpdateFact
<1>3. \A u \in Videos \ {v} : LifeOf(u)' = LifeOf(u)
  BY <1>2, <1>1, UpdateFact DEF LifeOf
<1>4. CASE status'[v] = status[v]
  BY <1>1, <1>3, <1>4, SameLife DEF LifeOf
<1>5. CASE status'[v] # status[v]
  <2>1. status[v] # "none" /\ status'[v] \in {"ready", "failed"}
    BY <1>2, <1>1, <1>5, UpdateFact
  <2>2. LifeOf(v) = status[v] /\ LifeOf(v)' = status'[v]
    BY <2>1 DEF LifeOf
  <2>3. life[v] = status[v] /\ life' = [life EXCEPT ![v] = status'[v]]
    BY <1>3, <2>2, OneLife DEF life
  <2>4. stage[w] \in Unsettled
    BY DEF MarkReady, MarkFailed, Unsettled
  <2>5. CASE status[v] = "processing"
    <3>1. Lifecycle!Settle(v)
      BY <2>1, <2>3, <2>5 DEF Lifecycle!Settle, Lifecycle!Becomes
    <3> QED
      BY <3>1 DEF Lifecycle!Next
  <2>6. CASE status[v] # "processing"
    <3>1. Redelivers
      BY <1>2, <2>1, <2>4, <2>6 DEF LifeInv, Once, SettledOnce
    <3>2. status[v] \in {"ready", "failed"}
      BY <1>1, <2>1, <2>6 DEF Statuses
    <3>3. Lifecycle!Resettle(v)
      BY <2>1, <2>3, <3>1, <3>2 DEF Lifecycle!Resettle, Lifecycle!Becomes
    <3> QED
      BY <3>3 DEF Lifecycle!Next
  <2> QED
    BY <2>5, <2>6
<1> QED
  BY <1>4, <1>5

\* DeleteByID is the abstract Delete, unless another DELETE was first.
LEMMA DeleteRefines ==
    ASSUME LifeInv, NEW d \in Deleters, DeleteStep(d)
    PROVE  [Lifecycle!Next]_life
<1>1. status \in [Videos -> Statuses]
  BY DEF LifeInv, TypeOK
<1>2. CASE UNCHANGED status
  BY <1>2, DeleteFact, SameLife DEF LifeOf
<1>3. CASE DeleteDoc(d) /\ status' # status
  <2>1. PICK v \in Videos : v = dvideo[d]
    BY <1>3 DEF DeleteDoc, LifeInv, TypeOK
  <2>2. status' = [status EXCEPT ![v] = "none"] /\ deleting' = deleting
    BY <1>3, <2>1 DEF DeleteDoc, DeleteReturns, docVars
  <2>3. v \in deleting
    BY <2>1, FilesFact DEF LifeInv, DeletersKnown
  <2>4. status[v] \in {"processing", "ready", "failed"}
    BY <1>1, <1>3, <2>2 DEF Statuses
  <2>5. LifeOf(v) = status[v] /\ LifeOf(v)' = "gone"
    BY <1>1, <2>2, <2>3, <2>4 DEF LifeOf
  <2>6. \A u \in Videos \ {v} : LifeOf(u)' = LifeOf(u)
    BY <1>1, <2>2 DEF LifeOf
  <2>7. life[v] = status[v] /\ life' = [life EXCEPT ![v] = "gone"]
    BY <2>5, <2>6, OneLife DEF life
  <2>8. Lifecycle!Delete(v)
    BY <2>4, <2>7 DEF Lifecycle!Delete, Lifecycle!Becomes
  <2> QED
    BY <2>8 DEF Lifecycle!Next
<1> QED
  BY <1>2, <1>3 DEF DeleteStep, DeleteLookup, DeleteRaw, ListHls, DeleteHls, DeleteDoc,
                    DeleteAbandoned, docVars

LEMMA LifeRefines == LifeInv /\ [Next]_vars => [Lifecycle!Next]_life
<1> SUFFICES ASSUME LifeInv, [Next]_vars PROVE [Lifecycle!Next]_life
  OBVIOUS
<1>1. ASSUME NEW w \in Workers, WorkStep(w), UNCHANGED docVars PROVE life' = life
  BY <1>1, WorkFact, SameLife DEF docVars, deleteVars, LifeOf
<1>2. ASSUME NEW w \in Workers, WorkStep(w) PROVE [Lifecycle!Next]_life
  BY <1>1, <1>2, WorkRefines DEF WorkStep, Lookup, Download, Encode, PutHls, Announce, Ack
<1>3. ASSUME UNCHANGED <<docVars, deleteVars>> PROVE life' = life
  BY <1>3, SameLife DEF docVars, deleteVars, LifeOf
<1>4. CASE \/ \E v \in Videos : VisibilityExpires(v)
           \/ \E w \in Workers, v \in Videos : Receive(w, v)
           \/ WorkerCrash
  BY <1>3, <1>4 DEF VisibilityExpires, Receive, WorkerCrash
<1>5. CASE UNCHANGED vars
  BY <1>3, <1>5 DEF vars
<1> QED
  BY <1>2, <1>4, <1>5, UploadRefines, DeleteRefines DEF Next

\* Upload, the encode workers and DELETE together implement VideoLifecycle: a
\* video is uploaded, settles once if its job is delivered once, may settle again
\* if not, and never comes back after a DELETE.
THEOREM PipelineImplementsLifecycle == Spec => ImplementsLifecycle
<1>1. Init => Lifecycle!Init
  <2> SUFFICES ASSUME Init PROVE Lifecycle!Init
    OBVIOUS
  <2>1. \A v \in Videos : LifeOf(v) = "none"
    BY DEF Init, LifeOf
  <2> QED
    BY <2>1 DEF Lifecycle!Init, life
<1> QED
  BY <1>1, LifeInit, LifeInductive, LifeRefines, PTL DEF Spec, ImplementsLifecycle, Lifecycle!Spec

\* A worker that ends after the document is gone does not create it anew.
THEOREM DeletedStaysDeleted == Spec => NoResurrection
<1> DEFINE Stays ==
      \A v \in Videos :
        upload[v] \notin {"store", "insert"} /\ status[v] = "none" => status'[v] = "none"
<1>1. ASSUME LifeInv, [Next]_vars PROVE [Stays]_status
  <2>1. ASSUME NEW v \in Videos, UploadStep(v) PROVE Stays
    <3>1. \/ status' = status
          \/ upload[v] = "insert" /\ status' = [status EXCEPT ![v] = "processing"]
      BY <2>1 DEF UploadStep, StoreRaw, InsertDoc, AnnounceUpload, Enqueue, UploadAbandoned, docVars
    <3> QED
      BY <1>1, <3>1 DEF LifeInv, TypeOK
  <2>2. ASSUME NEW w \in Workers, WorkStep(w) PROVE Stays
    BY <1>1, <2>2, WorkFact
  <2>3. ASSUME NEW d \in Deleters, DeleteStep(d) PROVE Stays
    BY <1>1, <2>3, DeleteFact
  <2>4. CASE UNCHANGED status
    BY <2>4
  <2> QED
    BY <1>1, <2>1, <2>2, <2>3, <2>4
       DEF Next, VisibilityExpires, Receive, WorkerCrash, docVars, vars
<1> QED
  BY <1>1, LifeInit, LifeInductive, PTL DEF Spec, NoResurrection

\* Without a second delivery or a crash a ready video stays ready.
THEOREM ReadyStaysReady == ~Redelivers /\ Spec => ReadyIsTerminal
<1> DEFINE Stays == \A v \in Videos : status[v] = "ready" => status'[v] \in {"ready", "none"}
<1>1. ASSUME LifeInv, ~Redelivers, [Next]_vars PROVE [Stays]_status
  <2>1. ASSUME NEW v \in Videos, UploadStep(v) PROVE Stays
    <3>1. \/ status' = status
          \/ upload[v] = "insert" /\ status' = [status EXCEPT ![v] = "processing"]
      BY <2>1 DEF UploadStep, StoreRaw, InsertDoc, AnnounceUpload, Enqueue, UploadAbandoned, docVars
    <3> QED
      BY <1>1, <3>1 DEF LifeInv, TypeOK, NotYetThere
  <2>2. ASSUME NEW w \in Workers, MarkReady(w) \/ MarkFailed(w) PROVE Stays
    <3>1. status[job[w]] \in {"none", "processing"}
      BY <1>1, <2>2 DEF LifeInv, Once, SettledOnce, MarkReady, MarkFailed, Unsettled
    <3> QED
      BY <1>1, <2>2, <3>1, UpdateFact DEF LifeInv
  <2>3. ASSUME NEW d \in Deleters, DeleteStep(d) PROVE Stays
    BY <1>1, <2>3, DeleteFact
  <2>4. CASE UNCHANGED status
    BY <2>4
  <2>5. ASSUME NEW w \in Workers, WorkStep(w) PROVE Stays
    BY <2>2, <2>4, <2>5 DEF WorkStep, Lookup, Download, Encode, PutHls, Announce, Ack, docVars
  <2> QED
    BY <1>1, <2>1, <2>3, <2>4, <2>5
       DEF Next, VisibilityExpires, Receive, WorkerCrash, docVars, vars
<1>2. ASSUME ~Redelivers PROVE Spec => ReadyIsTerminal
  BY <1>1, <1>2, LifeInit, LifeInductive, PTL DEF Spec, ReadyIsTerminal
<1> QED
  BY <1>2
-----------------------------------------------------------------------------
(* DeleteOfReadyIsClean: with one delivery per job no worker is before the   *)
(* end of its walk when a DELETE has seen the prefix of the document.        *)

\* Nobody will put another object of the video: its job was received and its
\* worker is through with the walk.
Through(v) ==
    /\ message[v] \in {"inflight", "deleted"}
    /\ \A w \in Workers : job[w] = v => stage[w] \in {"say_ready", "say_failed", "ack"}

PrefixThrough == \A v \in prefix : Through(v)

\* How far a DELETE of a published video has come.
TakenApart ==
    \A d \in Deleters : dprefix[d] =>
        /\ dvideo[d] \in Videos /\ Through(dvideo[d])
        /\ dstage[d] \in {"list", "del_hls", "del_doc"} => dvideo[d] \notin raw
        /\ dstage[d] = "del_hls" => encoded[dvideo[d]] \subseteq dkeys[d]
        /\ dstage[d] = "del_doc" => encoded[dvideo[d]] = {}

NothingFails == Faults \cap {"slow_encode", "ack", "delete_object"} = {} /\ MaxCrashes = 0

CleanInv == LifeInv /\ PrefixThrough /\ TakenApart

LEMMA CleanInit == Init => CleanInv
  BY LifeInit DEF Init, CleanInv, PrefixThrough, TakenApart

LEMMA OnceFact ==
    ASSUME LifeInv, NothingFails
    PROVE  /\ TypeOK /\ Once /\ ~Redelivers
           /\ "slow_encode" \notin Faults /\ "ack" \notin Faults /\ "delete_object" \notin Faults
  BY DEF LifeInv, NothingFails, Redelivers

\* Uploads, the queue and the other steps of the workers leave a video alone that
\* is through.
LEMMA ThroughUpload ==
    ASSUME LifeInv, NothingFails, NEW v \in Videos, UploadStep(v), NEW u \in Videos, Through(u)
    PROVE  Through(u)' /\ (u \in raw' => u \in raw)
<1>1. message[v] = "none"
  BY OnceFact DEF Once, SentOnce, UploadStep, StoreRaw, InsertDoc, AnnounceUpload, Enqueue,
                  UploadAbandoned
<1>2. u # v
  BY <1>1 DEF Through
<1>3. UNCHANGED <<stage, job>> /\ message'[u] = message[u] /\ (u \in raw' => u \in raw)
  BY <1>2, OnceFact
     DEF UploadStep, StoreRaw, InsertDoc, AnnounceUpload, Enqueue, UploadAbandoned, workerVars, TypeOK
<1> QED
  BY <1>3 DEF Through

LEMMA ThroughQueue ==
    ASSUME LifeInv, NothingFails, NEW u \in Videos, Through(u),
           \/ \E v \in Videos : VisibilityExpires(v)
           \/ \E w \in Workers, v \in Videos : Receive(w, v)
           \/ WorkerCrash
    PROVE  Through(u)'
<1>1. ~ \E v \in Videos : VisibilityExpires(v)
  BY OnceFact DEF VisibilityExpires, Once, HeldOnce
<1>2. ~ WorkerCrash
  BY OnceFact DEF WorkerCrash, TypeOK, NothingFails
<1>3. PICK w \in Workers, v \in Videos : Receive(w, v)
  BY <1>1, <1>2
<1>4. u # v
  BY <1>3 DEF Receive, Through
<1> QED
  BY <1>3, <1>4, OnceFact DEF Receive, Through, TypeOK

LEMMA ThroughWork ==
    ASSUME LifeInv, NothingFails, NEW w \in Workers, WorkStep(w), NEW u \in Videos, Through(u)
    PROVE  Through(u)' /\ encoded'[u] = encoded[u]
<1>1. TypeOK /\ job[w] \in Videos
  <2>1. stage[w] # "idle"
    BY DEF WorkStep, Lookup, Download, Encode, PutHls, MarkReady, MarkFailed, Announce, Ack
  <2> QED
    BY <2>1, HasJob DEF LifeInv
<1>2. CASE Lookup(w) \/ Download(w)
  <2>1. job[w] # u
    BY <1>2 DEF Through, Lookup, Download
  <2> QED
    BY <1>1, <1>2, <2>1 DEF Lookup, Download, WorkerTo, Through, TypeOK
<1>3. CASE Encode(w)
  <2>1. job[w] # u
    BY <1>3 DEF Through, Encode
  <2> QED
    BY <1>1, <1>3, <2>1 DEF Encode, WorkerTo, Through, TypeOK
<1>4. CASE PutHls(w)
  <2>1. job[w] # u
    BY <1>4 DEF Through, PutHls
  <2>2. encoded'[u] = encoded[u]
    BY <1>1, <1>4, <2>1 DEF PutHls, TypeOK
  <2>3. UNCHANGED <<message, job>> /\ \A x \in Workers \ {w} : stage'[x] = stage[x]
    BY <1>1, <1>4 DEF PutHls, WorkerTo, TypeOK
  <2> QED
    BY <2>1, <2>2, <2>3 DEF Through
<1>5. CASE MarkReady(w) \/ MarkFailed(w)
  <2>1. job[w] # u
    BY <1>5 DEF Through, MarkReady, MarkFailed
  <2>2. UNCHANGED <<message, job, encoded>> /\ \A x \in Workers \ {w} : stage'[x] = stage[x]
    BY <1>1, <1>5 DEF MarkReady, MarkFailed, WorkerTo, TypeOK
  <2> QED
    BY <2>1, <2>2 DEF Through
<1>6. CASE Announce(w)
  BY <1>1, <1>6 DEF Announce, WorkerTo, Through, TypeOK
<1>7. CASE Ack(w)
  <2>1. /\ message'[u] \in {message[u], "deleted"} /\ UNCHANGED encoded /\ job'[w] = NoVideo
        /\ \A x \in Workers \ {w} : stage'[x] = stage[x] /\ job'[x] = job[x]
    BY <1>1, <1>7 DEF Ack, TypeOK
  <2> QED
    BY <2>1, FilesFact DEF Through
<1> QED
  BY <1>2, <1>3, <1>4, <1>5, <1>6, <1>7 DEF WorkStep

\* A video gets its prefix from the one worker that holds its job.
LEMMA PrefixWork ==
    ASSUME CleanInv, NothingFails, NEW w \in Workers, WorkStep(w)
    PROVE  PrefixThrough'
<1>1. TypeOK /\ Once
  BY OnceFact DEF CleanInv
<1>2. \A v \in prefix : Through(v)'
  BY <1>1, ThroughWork DEF CleanInv, PrefixThrough, TypeOK
<1>3. CASE MarkReady(w)
  <2>1. job[w] \in Videos /\ prefix' \subseteq prefix \cup {job[w]}
    BY <1>1, <1>3, HasJob DEF MarkReady, SetReady, docVars
  <2>2. message[job[w]] = "inflight" /\ \A x \in Workers : job[x] = job[w] => x = w
    BY <1>1, <2>1 DEF Once, HeldOnce
  <2>3. stage'[w] \in {"say_ready", "ack"} /\ UNCHANGED <<message, job>>
    BY <1>1, <1>3 DEF MarkReady, WorkerTo, TypeOK
  <2>4. ASSUME NEW v \in prefix' PROVE Through(v)'
    <3>1. CASE v \in prefix
      BY <1>2, <3>1
    <3>2. CASE v = job[w]
      BY <2>2, <2>3, <3>2 DEF Through
    <3> QED
      BY <2>1, <2>4, <3>1, <3>2
  <2> QED
    BY <2>4 DEF PrefixThrough
<1>4. CASE UNCHANGED prefix
  BY <1>2, <1>4 DEF PrefixThrough
<1> QED
  BY <1>3, <1>4
     DEF WorkStep, Lookup, Download, Encode, PutHls, MarkFailed, SetFailed, Announce, Ack, docVars

LEMMA CleanDelete ==
    ASSUME CleanInv, NothingFails, NEW d \in Deleters, DeleteStep(d)
    PROVE  PrefixThrough' /\ TakenApart'
<1>1. /\ TypeOK /\ "delete_object" \notin Faults
  BY OnceFact DEF CleanInv
<1>2. UNCHANGED <<message, stage, job>> /\ prefix' \subseteq prefix /\ raw' \subseteq raw
  BY DEF DeleteStep, DeleteLookup, DeleteRaw, ListHls, DeleteHls, DeleteDoc, DeleteAbandoned,
         workerVars, docVars
<1>3. PrefixThrough'
  BY <1>2 DEF CleanInv, PrefixThrough, Through
<1> SUFFICES TakenApart'
  BY <1>3
<1>4. \A v \in Videos : encoded'[v] \subseteq encoded[v]
  <2>1. CASE DeleteHls(d)
    BY <1>1, <2>1 DEF DeleteHls, TypeOK
  <2>2. CASE UNCHANGED encoded
    BY <2>2
  <2> QED
    BY <2>1, <2>2 DEF DeleteStep, DeleteLookup, DeleteRaw, ListHls, DeleteDoc, DeleteAbandoned
<1>5. \A e \in Deleters \ {d} : /\ dprefix'[e] = dprefix[e] /\ dvideo'[e] = dvideo[e]
                                /\ dstage'[e] = dstage[e] /\ dkeys'[e] = dkeys[e]
  <2> USE DEF DeleteReturns, DeleteTo, TypeOK
  <2>1. ASSUME NEW v \in Videos, DeleteLookup(d, v) PROVE UNCHANGED dkeys /\
          \A e \in Deleters \ {d} :
            dprefix'[e] = dprefix[e] /\ dvideo'[e] = dvideo[e] /\ dstage'[e] = dstage[e]
    BY <1>1, <2>1 DEF DeleteLookup
  <2>2. CASE DeleteRaw(d) \/ ListHls(d)
    BY <1>1, <2>2 DEF DeleteRaw, ListHls
  <2>3. CASE DeleteHls(d)
    BY <1>1, <2>3 DEF DeleteHls
  <2>4. CASE DeleteDoc(d) \/ DeleteAbandoned(d)
    BY <1>1, <2>4 DEF DeleteDoc, DeleteAbandoned
  <2> QED
    BY <2>1, <2>2, <2>3, <2>4 DEF DeleteStep
\* It is enough to look at d.
<1>6. ASSUME dprefix'[d] =>
               /\ dvideo'[d] \in Videos /\ Through(dvideo'[d])
               /\ dstage'[d] \in {"list", "del_hls", "del_doc"} => dvideo'[d] \notin raw'
               /\ dstage'[d] = "del_hls" => encoded'[dvideo'[d]] \subseteq dkeys'[d]
               /\ dstage'[d] = "del_doc" => encoded'[dvideo'[d]] = {}
      PROVE  TakenApart'
  BY <1>2, <1>4, <1>5, <1>6 DEF CleanInv, TakenApart, Through
<1>7. CASE DeleteReturns(d)
  <2>1. ~dprefix'[d]
    BY <1>1, <1>7 DEF DeleteReturns, TypeOK
  <2> QED
    BY <1>6, <2>1
<1>8. ASSUME NEW v \in Videos, DeleteLookup(d, v) PROVE TakenApart'
  <2>1. dstage'[d] = "del_raw" /\ dvideo'[d] = v
    BY <1>1, <1>8 DEF DeleteLookup, DeleteTo, TypeOK
  <2>2. dprefix'[d] => v \in prefix
    BY <1>1, <1>8 DEF DeleteLookup, TypeOK
  <2> QED
    BY <1>6, <2>1, <2>2 DEF CleanInv, PrefixThrough
<1>9. CASE DeleteRaw(d)
  <2>1. /\ dprefix'[d] => dstage'[d] = "list"
        /\ UNCHANGED <<dprefix, dvideo>> /\ raw' = raw \ {dvideo[d]}
    BY <1>1, <1>9 DEF DeleteRaw, DeleteTo, TypeOK
  <2> QED
    BY <1>6, <2>1 DEF CleanInv, TakenApart
<1>10. ASSUME dstage[d] \in {"list", "del_hls"}, UNCHANGED <<dprefix, dvideo, raw>>,
              encoded'[dvideo[d]] \subseteq dkeys'[d],
              dstage' = [dstage EXCEPT ![d] = AfterKeys(dkeys'[d])]
       PROVE  TakenApart'
  <2>1. dstage'[d] = IF dkeys'[d] = {} THEN "del_doc" ELSE "del_hls"
    BY <1>1, <1>10 DEF AfterKeys, TypeOK
  <2> QED
    BY <1>6, <1>10, <2>1 DEF CleanInv, TakenApart
<1>11. CASE ListHls(d)
  <2>1. CASE dkeys' = [dkeys EXCEPT ![d] = encoded[dvideo[d]]]
    <3>1. CASE DeleteReturns(d)
      BY <1>7, <3>1
    <3>2. CASE /\ dstage' = [dstage EXCEPT ![d] = AfterKeys(encoded[dvideo[d]])]
               /\ UNCHANGED <<dvideo, dprefix>>
      <4>1. dstage[d] = "list" /\ UNCHANGED <<raw, encoded>> /\ dkeys'[d] = encoded[dvideo[d]]
        BY <1>1, <1>11, <2>1 DEF ListHls, TypeOK
      <4> QED
        BY <1>10, <3>2, <4>1
    <3> QED
      BY <1>11, <3>1, <3>2 DEF ListHls, DeleteTo
  <2> QED
    BY <1>7, <1>11, <2>1 DEF ListHls
<1>12. CASE DeleteHls(d)
  <2>1. PICK k \in dkeys[d] :
          /\ dstage[d] = "del_hls" /\ UNCHANGED <<raw, dvideo, dprefix>>
          /\ encoded' = [encoded EXCEPT ![dvideo[d]] = @ \ {k}]
          /\ dkeys' = [dkeys EXCEPT ![d] = @ \ {k}]
          /\ dstage' = [dstage EXCEPT ![d] = AfterKeys(dkeys[d] \ {k})]
    BY <1>1, <1>12 DEF DeleteHls, DeleteTo
  <2>2. dkeys'[d] = dkeys[d] \ {k}
    BY <1>1, <2>1 DEF TypeOK
  <2>3. CASE dprefix[d]
    <3>1. dvideo[d] \in Videos /\ encoded[dvideo[d]] \subseteq dkeys[d]
      BY <2>1, <2>3 DEF CleanInv, TakenApart
    <3>2. encoded'[dvideo[d]] \subseteq dkeys'[d]
      BY <1>1, <2>1, <2>2, <3>1 DEF TypeOK
    <3> QED
      BY <1>10, <2>1, <2>2, <3>2
  <2>4. CASE ~dprefix[d]
    BY <1>6, <2>1, <2>4
  <2> QED
    BY <2>3, <2>4
<1> QED
  BY <1>7, <1>8, <1>9, <1>11, <1>12 DEF DeleteStep, DeleteDoc, DeleteAbandoned

LEMMA CleanStep == NothingFails /\ CleanInv /\ [Next]_vars => CleanInv'
<1> SUFFICES ASSUME NothingFails, CleanInv, [Next]_vars PROVE CleanInv'
  OBVIOUS
<1>1. LifeInv /\ LifeInv' /\ TypeOK
  BY LifeInductive DEF CleanInv, LifeInv
<1>2. prefix \subseteq Videos /\ \A d \in Deleters : dprefix[d] => dvideo[d] \in Videos
  BY <1>1 DEF TypeOK, CleanInv, TakenApart
\* A step that puts and deletes nothing.
<1>3. ASSUME \A u \in Videos : Through(u) =>
               Through(u)' /\ (u \in raw' => u \in raw) /\ encoded'[u] = encoded[u],
             UNCHANGED <<dstage, dvideo, dprefix, dkeys>>
      PROVE  TakenApart'
  BY <1>2, <1>3 DEF CleanInv, TakenApart
<1>4. ASSUME NEW v \in Videos, UploadStep(v) PROVE CleanInv'
  <2>1. UNCHANGED <<prefix, encoded, dstage, dvideo, dprefix, dkeys>>
    BY <1>4 DEF UploadStep, StoreRaw, InsertDoc, AnnounceUpload, Enqueue, UploadAbandoned, docVars,
                deleteVars
  <2>2. \A u \in Videos : Through(u) => Through(u)' /\ (u \in raw' => u \in raw)
    BY <1>1, <1>4, ThroughUpload
  <2>3. PrefixThrough'
    BY <1>2, <2>1, <2>2 DEF CleanInv, PrefixThrough
  <2> QED
    BY <1>1, <1>3, <2>1, <2>2, <2>3 DEF CleanInv
<1>5. ASSUME NEW w \in Workers, WorkStep(w) PROVE CleanInv'
  <2>1. UNCHANGED <<raw, dstage, dvideo, dprefix, dkeys>>
    BY <1>5 DEF WorkStep, Lookup, Download, Encode, PutHls, MarkReady, MarkFailed, Announce, Ack,
                deleteVars
  <2> QED
    BY <1>1, <1>3, <1>5, <2>1, ThroughWork, PrefixWork DEF CleanInv
<1>6. ASSUME \/ \E v \in Videos : VisibilityExpires(v)
             \/ \E w \in Workers, v \in Videos : Receive(w, v)
             \/ WorkerCrash
      PROVE  CleanInv'
  <2>1. UNCHANGED <<raw, prefix, encoded, dstage, dvideo, dprefix, dkeys>>
    BY <1>6 DEF VisibilityExpires, Receive, WorkerCrash, docVars, deleteVars
  <2>2. \A u \in Videos : Through(u) => Through(u)'
    BY <1>1, <1>6, ThroughQueue
  <2>3. PrefixThrough'
    BY <1>2, <2>1, <2>2 DEF CleanInv, PrefixThrough
  <2> QED
    BY <1>1, <1>3, <2>1, <2>2, <2>3 DEF CleanInv
<1>7. ASSUME NEW d \in Deleters, DeleteStep(d) PROVE CleanInv'
  BY <1>1, <1>7, CleanDelete DEF CleanInv
<1>8. CASE UNCHANGED vars
  BY <1>1, <1>8
     DEF vars, docVars, workerVars, deleteVars, CleanInv, PrefixThrough, TakenApart, Through
<1> QED
  BY <1>4, <1>5, <1>6, <1>7, <1>8 DEF Next

\* With every job delivered once and no call failing, a DELETE of a published video
\* leaves no object behind, whatever the other requests and the workers do.
THEOREM DeleteIsClean == Spec => []DeleteOfReadyIsClean
<1>1. ASSUME NothingFails PROVE Spec => []CleanInv
  BY <1>1, CleanInit, CleanStep, PTL DEF Spec
<1>2. CleanInv => DeleteOfReadyIsClean
  BY DEF CleanInv, TakenApart, DeleteOfReadyIsClean
<1>3. CASE NothingFails
  BY <1>1, <1>2, <1>3, PTL
<1>4. CASE ~NothingFails
  <2>1. DeleteOfReadyIsClean
    BY <1>4 DEF NothingFails, DeleteOfReadyIsClean
  <2> QED
    BY <2>1, PTL
<1> QED
  BY <1>3, <1>4

-----------------------------------------------------------------------------
(* The job of a video and its pushes: only the faults the promises name take *)
(* them away.                                                              *)

Sending == {"store", "insert", "announce", "enqueue"}

\* Until Upload has sent the job no worker has it, and nobody has announced an
\* end of the encode.
SentLast ==
    /\ \A v \in Videos : upload[v] \in Sending =>
           message[v] = "none" /\ told[v] \in {"none", "processing"}
    /\ \A v \in Videos : upload[v] = "accepted" => message[v] # "none"
    /\ \A w \in Workers : job[w] \in Videos => upload[job[w]] \notin Sending

\* The status is stored before it is announced, but for "failed" of a video of
\* which an update was lost.
StoredFirst ==
    \A w \in Workers :
        /\ stage[w] = "say_ready" => status[job[w]] # "processing"
        /\ stage[w] = "say_failed" => status[job[w]] # "processing" \/ job[w] \in unsaved

\* Without any silent fault it is stored before the message is deleted.
NoneLost == "mark_failed" \notin Faults => unsaved = {}

StoredBeforeAck ==
    Faults \cap SilentFaults = {} =>
        /\ \A w \in Workers : stage[w] = "ack" => status[job[w]] # "processing"
        /\ \A v \in Videos : message[v] = "deleted" => status[v] # "processing"

JobInv ==
    /\ TypeOK
    /\ SentLast
    /\ StoredFirst
    /\ NoneLost
    /\ StoredBeforeAck
    /\ SettledPushIsStored

LEMMA JobInit == Init => JobInv
<1> SUFFICES ASSUME Init PROVE JobInv
  OBVIOUS
<1>1. TypeOK
  BY TypeInit
<1> QED
  BY <1>1, FilesFact
     DEF Init, JobInv, SentLast, StoredFirst, NoneLost, StoredBeforeAck, SettledPushIsStored, Sending

\* Only the insert has a video processing.
LEMMA ProcessingFact ==
    ASSUME JobInv, Next, NEW v \in Videos, status'[v] = "processing"
    PROVE  status[v] = "processing" \/ upload[v] = "insert"
<1>1. TypeOK
  BY DEF JobInv
<1>2. ASSUME NEW u \in Videos, UploadStep(u)
      PROVE  status[v] = "processing" \/ upload[v] = "insert"
  <2>1. \/ status' = status
        \/ upload[u] = "insert" /\ status' = [status EXCEPT ![u] = "processing"]
    BY <1>2 DEF UploadStep, StoreRaw, InsertDoc, AnnounceUpload, Enqueue, UploadAbandoned, docVars
  <2> QED
    BY <1>1, <2>1 DEF TypeOK
<1>3. ASSUME NEW w \in Workers, MarkReady(w) \/ MarkFailed(w) PROVE status[v] = "processing"
  BY <1>1, <1>3, UpdateFact
<1>4. ASSUME NEW d \in Deleters, DeleteDoc(d) PROVE status[v] = "processing"
  BY <1>1, <1>4 DEF DeleteDoc, TypeOK, docVars
<1>5. CASE status' = status
  BY <1>5
<1> QED
  BY <1>2, <1>3, <1>4, <1>5
     DEF Next, WorkStep, Lookup, Download, Encode, PutHls, Announce, Ack, VisibilityExpires, Receive,
         WorkerCrash, DeleteStep, DeleteLookup, DeleteRaw, ListHls, DeleteHls, DeleteAbandoned, docVars

\* What was lost stays on record, and only a failing markFailed loses anything.
LEMMA UnsavedFact ==
    ASSUME JobInv, Next
    PROVE  unsaved \subseteq unsaved' /\ NoneLost'
<1>1. unsaved' = unsaved \/ ("mark_failed" \in Faults /\ unsaved \subseteq unsaved')
  BY DEF Next, UploadStep, StoreRaw, InsertDoc, AnnounceUpload, Enqueue, UploadAbandoned, WorkStep,
         Lookup, Download, Encode, PutHls, MarkReady, SetReady, MarkFailed, SetFailed, Announce, Ack,
         VisibilityExpires, Receive, WorkerCrash, DeleteStep, DeleteLookup, DeleteRaw, ListHls,
         DeleteHls, DeleteDoc, DeleteAbandoned, docVars
<1> QED
  BY <1>1 DEF JobInv, NoneLost

LEMMA JobUpload ==
    ASSUME JobInv, NEW v \in Videos, UploadStep(v)
    PROVE  JobInv'
<1>1. TypeOK /\ TypeOK' /\ Next
  BY TypeUpload DEF JobInv, Next
<1> USE DEF UploadStep, StoreRaw, InsertDoc, AnnounceUpload, Enqueue, UploadAbandoned, UploadTo
<1>2. UNCHANGED <<stage, job>>
  BY DEF workerVars
<1>3. \A u \in Videos \ {v} : /\ upload'[u] = upload[u] /\ status'[u] = status[u]
                              /\ message'[u] = message[u] /\ told'[u] = told[u]
  BY <1>1 DEF TypeOK, docVars
<1>4. upload[v] \in Sending /\ message[v] = "none" /\ told[v] \in {"none", "processing"}
  BY DEF JobInv, SentLast, Sending
<1>5. /\ message'[v] \in {"none", "visible"} /\ told'[v] \in {"none", "processing"}
      /\ upload'[v] \in Sending => message'[v] = "none"
      /\ upload'[v] = "accepted" => message'[v] # "none"
  BY <1>1, <1>4 DEF TypeOK, Sending
<1>6. \A w \in Workers : job[w] \in Videos => job[w] # v
  BY <1>4 DEF JobInv, SentLast
<1>7. SentLast'
  BY <1>2, <1>3, <1>5, <1>6 DEF JobInv, SentLast
<1>8. \A w \in Workers : stage[w] # "idle" => job[w] \in Videos
  BY <1>1, HasJob
<1>9. unsaved \subseteq unsaved' /\ NoneLost'
  BY <1>1, UnsavedFact
<1>10. StoredFirst' /\ StoredBeforeAck'
  BY <1>2, <1>3, <1>5, <1>6, <1>8, <1>9 DEF JobInv, StoredFirst, StoredBeforeAck
<1>11. SettledPushIsStored'
  BY <1>3, <1>5, <1>9 DEF JobInv, SettledPushIsStored
<1> QED
  BY <1>1, <1>7, <1>9, <1>10, <1>11 DEF JobInv

LEMMA JobQueue ==
    ASSUME JobInv,
           \/ \E v \in Videos : VisibilityExpires(v)
           \/ \E w \in Workers, v \in Videos : Receive(w, v)
           \/ WorkerCrash
    PROVE  JobInv'
<1>1. TypeOK /\ TypeOK'
  BY TypeQueue DEF JobInv
<1>2. UNCHANGED <<upload, status, told, unsaved>>
  BY DEF VisibilityExpires, Receive, WorkerCrash, docVars
<1>3. ASSUME NEW v \in Videos, VisibilityExpires(v) PROVE SentLast' /\ StoredFirst' /\ StoredBeforeAck'
  <2>1. message[v] = "inflight" /\ message' = [message EXCEPT ![v] = "visible"] /\ UNCHANGED <<stage, job>>
    BY <1>3 DEF VisibilityExpires, workerVars
  <2> QED
    BY <1>1, <1>2, <2>1 DEF JobInv, SentLast, StoredFirst, StoredBeforeAck, TypeOK
<1>4. ASSUME NEW w \in Workers, NEW v \in Videos, Receive(w, v)
      PROVE  SentLast' /\ StoredFirst' /\ StoredBeforeAck'
  <2>1. message[v] = "visible" /\ message' = [message EXCEPT ![v] = "inflight"]
    BY <1>4 DEF Receive
  <2>2. stage'[w] = "lookup" /\ job'[w] = v
    BY <1>1, <1>4 DEF Receive, TypeOK
  <2>3. \A x \in Workers \ {w} : stage'[x] = stage[x] /\ job'[x] = job[x]
    BY <1>1, <1>4 DEF Receive, TypeOK
  <2>4. upload[v] \notin Sending
    BY <2>1 DEF JobInv, SentLast
  <2>5. \A u \in Videos : message'[u] = message[u] \/ (u = v /\ message'[u] = "inflight")
    BY <1>1, <2>1 DEF TypeOK
  <2>6. SentLast'
    BY <1>2, <2>2, <2>3, <2>4, <2>5 DEF JobInv, SentLast
  <2>7. StoredFirst' /\ StoredBeforeAck'
    BY <1>2, <2>2, <2>3, <2>5 DEF JobInv, StoredFirst, StoredBeforeAck
  <2> QED
    BY <2>6, <2>7
<1>5. ASSUME WorkerCrash PROVE SentLast' /\ StoredFirst' /\ StoredBeforeAck'
  <2>1. message' = message /\ \A w \in Workers : stage'[w] = "idle" /\ job'[w] \notin Videos
    BY <1>5, FilesFact DEF WorkerCrash
  <2> QED
    BY <1>2, <2>1 DEF JobInv, SentLast, StoredFirst, StoredBeforeAck
<1>6. NoneLost' /\ SettledPushIsStored'
  BY <1>2 DEF JobInv, NoneLost, SettledPushIsStored
<1> QED
  BY <1>1, <1>3, <1>4, <1>5, <1>6 DEF JobInv

\* From one step of the job to the next, as far as the push.
LEMMA JobGoesOn ==
    ASSUME JobInv, TypeOK', Next, NEW w \in Workers, stage[w] # "idle",
           UNCHANGED <<upload, message, told, job>>,
           \A x \in Workers \ {w} : stage'[x] = stage[x],
           stage'[w] = "say_ready" => status'[job[w]] # "processing",
           stage'[w] = "say_failed" => status'[job[w]] # "processing" \/ job[w] \in unsaved',
           stage'[w] = "ack" /\ Faults \cap SilentFaults = {} => status'[job[w]] # "processing"
    PROVE  JobInv'
<1>1. \A v \in Videos : upload[v] \notin Sending =>
        (status'[v] = "processing" => status[v] = "processing")
  BY ProcessingFact DEF Sending
<1>2. \A x \in Workers : stage[x] # "idle" => job[x] \in Videos /\ upload[job[x]] \notin Sending
  BY HasJob DEF JobInv, SentLast
<1>3. SentLast'
  BY DEF JobInv, SentLast
<1>4. unsaved \subseteq unsaved' /\ NoneLost'
  BY UnsavedFact
<1>5. StoredFirst'
  BY <1>1, <1>2, <1>4 DEF JobInv, StoredFirst
<1>6. StoredBeforeAck'
  BY <1>1, <1>2 DEF JobInv, SentLast, StoredBeforeAck
<1>7. SettledPushIsStored'
  BY <1>1, <1>4 DEF JobInv, SentLast, SettledPushIsStored
<1> QED
  BY <1>3, <1>4, <1>5, <1>6, <1>7 DEF JobInv

LEMMA JobWork ==
    ASSUME JobInv, NEW w \in Workers, WorkStep(w)
    PROVE  JobInv'
<1>1. TypeOK /\ TypeOK' /\ Next
  BY TypeWork DEF JobInv, Next
<1>2. /\ stage \in [Workers -> WorkerStages] /\ job \in [Workers -> Videos \cup {NoVideo}]
      /\ status \in [Videos -> Statuses]
  BY <1>1 DEF TypeOK
<1>3. CASE Lookup(w)
  BY <1>1, <1>2, <1>3, JobGoesOn DEF Lookup, WorkerTo, docVars, SilentFaults
<1>4. CASE Download(w)
  BY <1>1, <1>2, <1>4, JobGoesOn DEF Download, WorkerTo, docVars
<1>5. CASE Encode(w)
  BY <1>1, <1>2, <1>5, JobGoesOn DEF Encode, WorkerTo, docVars
<1>6. CASE PutHls(w)
  BY <1>1, <1>2, <1>6, JobGoesOn DEF PutHls, WorkerTo, docVars
<1>7. CASE MarkReady(w)
  <2>1. job[w] \in Videos
    BY <1>1, <1>7, HasJob DEF MarkReady
  <2>2. SetReady(job[w]) => status'[job[w]] # "processing"
    BY <1>2, <2>1 DEF SetReady, docVars
  <2>3. /\ stage[w] # "idle" /\ UNCHANGED <<upload, message, told, job>>
        /\ \A x \in Workers \ {w} : stage'[x] = stage[x]
    BY <1>2, <1>7 DEF MarkReady, WorkerTo
  <2>4. \/ stage'[w] = "say_ready" /\ SetReady(job[w])
        \/ stage'[w] = "ack" /\ "mark_ready" \in Faults
    BY <1>2, <1>7 DEF MarkReady, WorkerTo
  <2> QED
    BY <1>1, <2>2, <2>3, <2>4, JobGoesOn DEF SilentFaults
<1>8. CASE MarkFailed(w)
  <2>1. job[w] \in Videos
    BY <1>1, <1>8, HasJob DEF MarkFailed
  <2>2. SetFailed(job[w]) => status'[job[w]] # "processing"
    BY <1>2, <2>1 DEF SetFailed
  <2>3. /\ stage[w] # "idle" /\ UNCHANGED <<upload, message, told, job>>
        /\ \A x \in Workers \ {w} : stage'[x] = stage[x]
    BY <1>2, <1>8 DEF MarkFailed, WorkerTo
  <2>4. stage'[w] = "say_failed" /\ (SetFailed(job[w]) \/ job[w] \in unsaved')
    BY <1>2, <1>8 DEF MarkFailed, WorkerTo
  <2> QED
    BY <1>1, <2>2, <2>3, <2>4, JobGoesOn
<1>9. CASE Announce(w)
  <2>1. job[w] \in Videos /\ UNCHANGED <<upload, status, unsaved, message, job>>
    BY <1>1, <1>9, HasJob DEF Announce, WorkerTo, docVars
  <2>2. stage'[w] = "ack" /\ \A x \in Workers \ {w} : stage'[x] = stage[x]
    BY <1>2, <1>9 DEF Announce, WorkerTo
  <2>3. \/ status[job[w]] # "processing"
        \/ told'[job[w]] = "failed" /\ job[w] \in unsaved
    BY <1>1, <1>9, <2>1 DEF Announce, JobInv, StoredFirst, TypeOK
  <2>4. \A v \in Videos \ {job[w]} : told'[v] = told[v]
    BY <1>1, <1>9 DEF Announce, TypeOK
  <2>5. SentLast'
    BY <2>1, <2>4 DEF JobInv, SentLast
  <2>6. StoredFirst' /\ NoneLost' /\ StoredBeforeAck'
    BY <2>1, <2>2, <2>3 DEF JobInv, StoredFirst, NoneLost, StoredBeforeAck, SilentFaults
  <2>7. SettledPushIsStored'
    BY <2>1, <2>3, <2>4 DEF JobInv, SettledPushIsStored
  <2> QED
    BY <1>1, <2>5, <2>6, <2>7 DEF JobInv
<1>10. CASE Ack(w)
  <2>1. job[w] \in Videos /\ UNCHANGED <<upload, status, unsaved, told>>
    BY <1>1, <1>10, HasJob DEF Ack, docVars
  <2>2. \A v \in Videos : message'[v] = message[v] \/ (v = job[w] /\ message'[v] = "deleted")
    BY <1>1, <1>10 DEF Ack, TypeOK
  <2>3. stage'[w] = "idle" /\ job'[w] = NoVideo
    BY <1>2, <1>10 DEF Ack
  <2>4. \A x \in Workers \ {w} : stage'[x] = stage[x] /\ job'[x] = job[x]
    BY <1>2, <1>10 DEF Ack
  <2>5. SentLast'
    BY <2>1, <2>2, <2>3, <2>4, FilesFact DEF JobInv, SentLast
  <2>6. StoredFirst' /\ NoneLost'
    BY <2>1, <2>3, <2>4 DEF JobInv, StoredFirst, NoneLost
  <2>7. StoredBeforeAck'
    BY <1>10, <2>1, <2>2, <2>3, <2>4 DEF Ack, JobInv, StoredBeforeAck
  <2>8. SettledPushIsStored'
    BY <2>1 DEF JobInv, SettledPushIsStored
  <2> QED
    BY <1>1, <2>5, <2>6, <2>7, <2>8 DEF JobInv
<1> QED
  BY <1>3, <1>4, <1>5, <1>6, <1>7, <1>8, <1>9, <1>10 DEF WorkStep

LEMMA JobDelete ==
    ASSUME JobInv, NEW d \in Deleters, DeleteStep(d)
    PROVE  JobInv'
<1>1. TypeOK /\ TypeOK'
  BY TypeDelete DEF JobInv
<1>2. UNCHANGED <<upload, message, told, stage, job>>
  BY DEF DeleteStep, DeleteLookup, DeleteRaw, ListHls, DeleteHls, DeleteDoc, DeleteAbandoned, workerVars
<1>3. \A v \in Videos : status'[v] = status[v] \/ status'[v] = "none"
  BY <1>1 DEF DeleteStep, DeleteLookup, DeleteRaw, ListHls, DeleteHls, DeleteDoc, DeleteAbandoned,
              docVars, TypeOK
<1>4. \A w \in Workers : stage[w] # "idle" => job[w] \in Videos
  BY <1>1, HasJob
<1>5. unsaved \subseteq unsaved' /\ NoneLost'
  BY UnsavedFact DEF Next
<1>6. SentLast' /\ SettledPushIsStored'
  BY <1>2, <1>3, <1>5 DEF JobInv, SentLast, SettledPushIsStored
<1>7. StoredFirst' /\ StoredBeforeAck'
  BY <1>2, <1>3, <1>4, <1>5 DEF JobInv, StoredFirst, StoredBeforeAck
<1> QED
  BY <1>1, <1>5, <1>6, <1>7 DEF JobInv

LEMMA JobInductive == JobInv /\ [Next]_vars => JobInv'
<1> SUFFICES ASSUME JobInv, [Next]_vars PROVE JobInv'
  OBVIOUS
<1>1. CASE Next
  BY <1>1, JobUpload, JobQueue, JobWork, JobDelete DEF Next
<1>2. CASE UNCHANGED vars
  <2> USE <1>2 DEF vars, docVars, workerVars, deleteVars, JobInv
  <2>1. TypeOK'
    BY DEF TypeOK
  <2> QED
    BY <2>1 DEF SentLast, StoredFirst, NoneLost, StoredBeforeAck, SettledPushIsStored
<1> QED
  BY <1>1, <1>2

\* Without silent faults an accepted upload keeps its job until the end of the
\* encode is stored, however often workers crash and the job is given out.
THEOREM JobKept == Spec => []JobUntilSettled
<1>1. JobInv => JobUntilSettled
  BY DEF JobInv, TypeOK, SentLast, StoredBeforeAck, JobUntilSettled
<1> QED
  BY <1>1, JobInit, JobInductive, PTL DEF Spec

\* For any faults, redelivery and crashes: a pushed "ready" is in the store, and a
\* pushed "failed" is, unless an update of markFailed for that video was lost.
THEOREM PushAfterStore == Spec => []SettledPushIsStored
<1>1. JobInv => SettledPushIsStored
  BY DEF JobInv
<1> QED
  BY <1>1, JobInit, JobInductive, PTL DEF Spec

\* Upload's own push is not overtaken by the worker's.
THEOREM ProcessingPushedFirst == Spec => ProcessingPushIsFirst
<1> DEFINE First == \A v \in Videos : told[v] \in {"ready", "failed"} => told'[v] # "processing"
<1>1. ASSUME JobInv, [Next]_vars PROVE [First]_told
  <2>1. ASSUME NEW v \in Videos, AnnounceUpload(v) PROVE First
    <3>1. told[v] \in {"none", "processing"}
      BY <1>1, <2>1 DEF AnnounceUpload, JobInv, SentLast, Sending
    <3> QED
      BY <1>1, <2>1, <3>1 DEF AnnounceUpload, JobInv, TypeOK
  <2>2. ASSUME NEW w \in Workers, Announce(w) PROVE First
    <3>1. \/ told' = [told EXCEPT ![job[w]] = "ready"]
          \/ told' = [told EXCEPT ![job[w]] = "failed"]
      BY <2>2 DEF Announce
    <3> QED
      BY <1>1, <3>1 DEF JobInv, TypeOK
  <2>3. CASE UNCHANGED told
    BY <2>3
  <2> QED
    BY <1>1, <2>1, <2>2, <2>3
       DEF Next, UploadStep, StoreRaw, InsertDoc, Enqueue, UploadAbandoned, WorkStep, Lookup, Download,
           Encode, PutHls, MarkReady, MarkFailed, Ack, VisibilityExpires, Receive, WorkerCrash,
           DeleteStep, DeleteLookup, DeleteRaw, ListHls, DeleteHls, DeleteDoc, DeleteAbandoned, vars
<1> QED
  BY <1>1, JobInit, JobInductive, PTL DEF Spec, ProcessingPushIsFirst
=============================================================================
