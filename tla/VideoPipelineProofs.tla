------------------------ MODULE VideoPipelineProofs ------------------------
(* Proofs about VideoPipeline, for any videos, workers, requests and faults. *)
EXTENDS VideoPipeline, TLAPS

\* The files of an encode are numbered from 1, and the master is one of them.
LEMMA FilesFact ==
    /\ HlsFiles = 1..HlsFileCount /\ HlsFileCount \in Nat /\ HlsFileCount >= 2
    /\ 1 \in HlsFiles /\ Master \in HlsFiles
    /\ NoVideo \notin Videos /\ MaxCrashes \in Nat
BY PipelineAssumption DEF HlsFiles, Master

LEMMA TypeInit == Init => TypeOK
BY FilesFact DEF Init, TypeOK, UploadStages, Statuses, WorkerStages, DeleteStages

LEMMA TypeUpload ==
    ASSUME TypeOK, NEW v \in Videos, UploadStep(v)
    PROVE  TypeOK'
<1> USE DEF TypeOK, UploadStages, Statuses, docVars, workerVars, deleteVars, UploadTo
<1>1. CASE StoreRaw(v)
  BY <1>1 DEF StoreRaw
<1>2. CASE InsertDoc(v)
  BY <1>2 DEF InsertDoc
<1>3. CASE AnnounceUpload(v)
  BY <1>3 DEF AnnounceUpload
<1>4. CASE Enqueue(v)
  BY <1>4 DEF Enqueue
<1>5. CASE UploadAbandoned(v)
  BY <1>5 DEF UploadAbandoned
<1> QED
  BY <1>1, <1>2, <1>3, <1>4, <1>5 DEF UploadStep

\* A worker at work holds the job of a video.
LEMMA HasJob ==
    ASSUME TypeOK, NEW w \in Workers, stage[w] # "idle"
    PROVE  job[w] \in Videos
BY DEF TypeOK

\* A worker that goes from one step of a job to the next keeps its job.
LEMMA WorkerGoesOn ==
    ASSUME TypeOK, NEW w \in Workers, stage[w] # "idle",
           NEW s \in WorkerStages \ {"idle"},
           stage' = [stage EXCEPT ![w] = s], job' = job
    PROVE  /\ stage' \in [Workers -> WorkerStages]
           /\ job' \in [Workers -> Videos \cup {NoVideo}]
           /\ \A x \in Workers : job'[x] = NoVideo <=> stage'[x] = "idle"
<1>1. stage \in [Workers -> WorkerStages] /\ job \in [Workers -> Videos \cup {NoVideo}]
  BY DEF TypeOK
<1>2. \A x \in Workers : job[x] = NoVideo <=> stage[x] = "idle"
  BY DEF TypeOK
<1>3. \A x \in Workers : stage'[x] = IF x = w THEN s ELSE stage[x]
  BY <1>1
<1> QED
  BY <1>1, <1>2, <1>3

LEMMA TypeWork ==
    ASSUME TypeOK, NEW w \in Workers, WorkStep(w)
    PROVE  TypeOK'
<1>1. ASSUME NEW s \in WorkerStages \ {"idle"}, stage[w] # "idle", WorkerTo(w, s),
             UNCHANGED <<upload, raw, message, deleteVars>>,
             status' \in [Videos -> Statuses], prefix' \subseteq Videos, unsaved' \subseteq Videos,
             encoded' \in [Videos -> SUBSET HlsFiles], told' \in [Videos -> Statuses]
      PROVE  TypeOK'
  <2>1. /\ stage' \in [Workers -> WorkerStages]
        /\ job' \in [Workers -> Videos \cup {NoVideo}]
        /\ \A x \in Workers : job'[x] = NoVideo <=> stage'[x] = "idle"
    BY <1>1, WorkerGoesOn DEF WorkerTo
  <2> QED
    BY <1>1, <2>1 DEF TypeOK, WorkerTo, deleteVars
<1>2. /\ status \in [Videos -> Statuses] /\ prefix \subseteq Videos /\ unsaved \subseteq Videos
      /\ encoded \in [Videos -> SUBSET HlsFiles] /\ told \in [Videos -> Statuses]
      /\ next \in [Workers -> HlsFiles]
  BY DEF TypeOK
<1>3. CASE Lookup(w)
  BY <1>1, <1>2, <1>3 DEF Lookup, WorkerStages, docVars
<1>4. CASE Download(w)
  BY <1>1, <1>2, <1>4 DEF Download, WorkerStages, docVars
<1>5. CASE Encode(w)
  <2>1. CASE WorkerTo(w, "mark_failed")
    <3>1. stage[w] # "idle" /\ "mark_failed" \in WorkerStages \ {"idle"}
      BY <1>5 DEF Encode, WorkerStages
    <3>2. UNCHANGED <<upload, raw, docVars, encoded, message, told, deleteVars>>
      BY <1>5 DEF Encode
    <3> QED
      BY <1>1, <1>2, <2>1, <3>1, <3>2 DEF docVars
  <2>2. CASE /\ stage' = [stage EXCEPT ![w] = "put_hls"]
             /\ next' = [next EXCEPT ![w] = 1]
             /\ UNCHANGED <<job, crashes>>
    <3>1. stage[w] # "idle" /\ "put_hls" \in WorkerStages \ {"idle"}
      BY <1>5 DEF Encode, WorkerStages
    <3>2. /\ stage' \in [Workers -> WorkerStages]
          /\ job' \in [Workers -> Videos \cup {NoVideo}]
          /\ \A x \in Workers : job'[x] = NoVideo <=> stage'[x] = "idle"
      BY <2>2, <3>1, WorkerGoesOn
    <3>3. next' \in [Workers -> HlsFiles]
      BY <1>2, <2>2, FilesFact
    <3> QED
      BY <1>5, <2>2, <3>2, <3>3 DEF Encode, TypeOK, docVars, deleteVars
  <2> QED
    BY <1>5, <2>1, <2>2 DEF Encode
<1>6. CASE PutHls(w)
  <2> DEFINE put == [encoded EXCEPT ![job[w]] = @ \cup {next[w]}]
  <2>1. encoded' \in [Videos -> SUBSET HlsFiles]
    <3>1. next[w] \in HlsFiles
      BY <1>2
    <3>2. put \in [Videos -> SUBSET HlsFiles]
      BY <1>2, <3>1
    <3>3. encoded' \in {encoded, put}
      BY <1>6 DEF PutHls
    <3> QED
      BY <1>2, <3>2, <3>3
  <2>2. CASE /\ next[w] < HlsFileCount
             /\ next' = [next EXCEPT ![w] = @ + 1]
             /\ UNCHANGED <<stage, job, crashes>>
    <3>1. next' \in [Workers -> HlsFiles]
      BY <1>2, <2>2, FilesFact
    <3> QED
      BY <1>6, <2>1, <2>2, <3>1 DEF PutHls, TypeOK, docVars, deleteVars
  <2>3. CASE WorkerTo(w, "mark_ready") \/ WorkerTo(w, "mark_failed")
    BY <1>1, <1>2, <1>6, <2>1, <2>3 DEF PutHls, WorkerStages, docVars
  <2> QED
    BY <1>6, <2>2, <2>3 DEF PutHls
<1>7. CASE MarkReady(w)
  <2>1. job[w] \in Videos
    BY <1>7, HasJob DEF MarkReady
  <2>2. status' \in [Videos -> Statuses] /\ prefix' \subseteq Videos /\ unsaved' \subseteq Videos
    BY <1>2, <1>7, <2>1 DEF MarkReady, SetReady, Statuses, docVars
  <2> QED
    BY <1>1, <1>2, <1>7, <2>2 DEF MarkReady, WorkerStages
<1>8. CASE MarkFailed(w)
  <2>1. job[w] \in Videos
    BY <1>8, HasJob DEF MarkFailed
  <2>2. status' \in [Videos -> Statuses] /\ prefix' \subseteq Videos /\ unsaved' \subseteq Videos
    BY <1>2, <1>8, <2>1 DEF MarkFailed, SetFailed, Statuses, docVars
  <2> QED
    BY <1>1, <1>2, <1>8, <2>2 DEF MarkFailed, WorkerStages
<1>9. CASE Announce(w)
  <2>1. told' \in [Videos -> Statuses]
    BY <1>2, <1>9 DEF Announce, Statuses
  <2> QED
    BY <1>1, <1>2, <1>9, <2>1 DEF Announce, WorkerStages, docVars
<1>10. CASE Ack(w)
  BY <1>10, FilesFact DEF Ack, TypeOK, WorkerStages, docVars, deleteVars
<1> QED
  BY <1>3, <1>4, <1>5, <1>6, <1>7, <1>8, <1>9, <1>10 DEF WorkStep

LEMMA TypeQueue ==
    ASSUME TypeOK,
           \/ \E v \in Videos : VisibilityExpires(v)
           \/ \E w \in Workers, v \in Videos : Receive(w, v)
           \/ WorkerCrash
    PROVE  TypeOK'
<1> USE FilesFact DEF TypeOK, WorkerStages, docVars, workerVars, deleteVars
<1>1. ASSUME NEW v \in Videos, VisibilityExpires(v) PROVE TypeOK'
  BY <1>1 DEF VisibilityExpires
<1>2. ASSUME NEW w \in Workers, NEW v \in Videos, Receive(w, v) PROVE TypeOK'
  BY <1>2 DEF Receive
<1>3. CASE WorkerCrash
  BY <1>3 DEF WorkerCrash
<1> QED
  BY <1>1, <1>2, <1>3

LEMMA TypeDelete ==
    ASSUME TypeOK, NEW d \in Deleters, DeleteStep(d)
    PROVE  TypeOK'
<1> USE DEF TypeOK, Statuses, DeleteStages, docVars, workerVars, deleteVars, DeleteTo, AfterKeys
<1>1. ASSUME NEW v \in Videos, DeleteLookup(d, v) PROVE TypeOK'
  BY <1>1, FilesFact DEF DeleteLookup
<1>2. CASE DeleteRaw(d)
  BY <1>2 DEF DeleteRaw
<1>3. CASE ListHls(d)
  <2>1. dvideo[d] \in Videos /\ dstage[d] # "idle"
    BY <1>3 DEF ListHls
  <2>2. CASE DeleteReturns(d)
    BY <1>3, <2>2 DEF ListHls, DeleteReturns
  <2>3. CASE /\ dkeys' = [dkeys EXCEPT ![d] = encoded[dvideo[d]]]
             /\ DeleteTo(d, AfterKeys(encoded[dvideo[d]]))
             /\ UNCHANGED <<dvideo, dprefix, deleting>>
    <3>1. dkeys' \in [Deleters -> SUBSET HlsFiles]
      BY <2>1, <2>3
    <3> QED
      BY <1>3, <2>1, <2>3, <3>1 DEF ListHls
  <2> QED
    BY <1>3, <2>2, <2>3 DEF ListHls
<1>4. CASE DeleteHls(d)
  <2>1. PICK k \in dkeys[d] :
          /\ dstage[d] = "del_hls"
          /\ encoded' \in {encoded, [encoded EXCEPT ![dvideo[d]] = @ \ {k}]}
          /\ dkeys' = [dkeys EXCEPT ![d] = @ \ {k}]
          /\ DeleteTo(d, AfterKeys(dkeys[d] \ {k}))
          /\ UNCHANGED <<upload, raw, docVars, message, workerVars, told,
                         dvideo, dprefix, deleting>>
    BY <1>4 DEF DeleteHls
  <2>2. encoded' \in [Videos -> SUBSET HlsFiles]
    BY <2>1
  <2>3. dkeys' \in [Deleters -> SUBSET HlsFiles]
    BY <2>1
  <2> QED
    BY <2>1, <2>2, <2>3
<1>5. CASE DeleteDoc(d)
  BY <1>5 DEF DeleteDoc, DeleteReturns
<1>6. CASE DeleteAbandoned(d)
  BY <1>6 DEF DeleteAbandoned, DeleteReturns
<1> QED
  BY <1>1, <1>2, <1>3, <1>4, <1>5, <1>6 DEF DeleteStep

\* Every variable keeps its type.
THEOREM TypeCorrect == Spec => []TypeOK
<1>1. TypeOK /\ [Next]_vars => TypeOK'
  <2> SUFFICES ASSUME TypeOK, [Next]_vars PROVE TypeOK'
    OBVIOUS
  <2>1. CASE Next
    BY <2>1, TypeUpload, TypeWork, TypeQueue, TypeDelete DEF Next
  <2>2. CASE UNCHANGED vars
    BY <2>2 DEF vars, docVars, workerVars, deleteVars, TypeOK
  <2> QED
    BY <2>1, <2>2
<1> QED
  BY <1>1, TypeInit, PTL DEF Spec

-----------------------------------------------------------------------------
(* ReadyIsPlayable and ManifestIsLast.  What a worker has behind it carries  *)
(* them: the files it has already put are there, unless a DELETE of the same *)
(* video has begun, and those that delete objects are all in deleting.       *)

\* The walk of uploadHLSDir has put every file before the next one.
WalkBehind ==
    \A w \in Workers :
        stage[w] = "put_hls" /\ job[w] \notin deleting
            => 1..(next[w] - 1) \subseteq encoded[job[w]]

\* A worker about to mark the document ready has put every file.
WalkDone ==
    \A w \in Workers :
        stage[w] = "mark_ready" /\ job[w] \notin deleting => encoded[job[w]] = HlsFiles

DeletersKnown == \A d \in Deleters : dvideo[d] # NoVideo => dvideo[d] \in deleting

PlayableInv ==
    TypeOK /\ ReadyIsPlayable /\ ManifestIsLast /\ WalkBehind /\ WalkDone /\ DeletersKnown

LEMMA PlayableInit == Init => PlayableInv
BY TypeInit, FilesFact
   DEF Init, PlayableInv, ReadyIsPlayable, ManifestIsLast, WalkBehind, WalkDone, DeletersKnown

\* The parts of the invariant that no step of the API's Upload or of the queue,
\* and no crash, can disturb: they neither delete nor put an encoded object.
LEMMA PlayableQuiet ==
    ASSUME PlayableInv, TypeOK', UNCHANGED <<prefix, encoded, dvideo, deleting>>,
           \A v \in Videos : status'[v] = "ready" => status[v] = "ready",
           \A w \in Workers : stage'[w] \in {"put_hls", "mark_ready"} =>
               stage'[w] = stage[w] /\ job'[w] = job[w] /\ next'[w] = next[w]
    PROVE  PlayableInv'
<1>1. ReadyIsPlayable' /\ ManifestIsLast'
  BY DEF PlayableInv, ReadyIsPlayable, ManifestIsLast
<1>2. WalkBehind'
  BY DEF PlayableInv, WalkBehind
<1>3. WalkDone'
  BY DEF PlayableInv, WalkDone
<1>4. DeletersKnown'
  BY DEF PlayableInv, DeletersKnown
<1> QED
  BY <1>1, <1>2, <1>3, <1>4 DEF PlayableInv

LEMMA PlayableUpload ==
    ASSUME PlayableInv, NEW v \in Videos, UploadStep(v)
    PROVE  PlayableInv'
<1>1. TypeOK /\ TypeOK'
  BY TypeUpload DEF PlayableInv
<1>2. UNCHANGED <<prefix, encoded, workerVars, deleteVars>>
  BY DEF UploadStep, StoreRaw, InsertDoc, AnnounceUpload, Enqueue, UploadAbandoned, docVars
<1>3. \A u \in Videos : status'[u] = "ready" => status[u] = "ready"
  <2>1. status' \in {status, [status EXCEPT ![v] = "processing"]}
    BY DEF UploadStep, StoreRaw, InsertDoc, AnnounceUpload, Enqueue, UploadAbandoned, docVars
  <2> QED
    BY <1>1, <2>1 DEF TypeOK
<1> QED
  BY <1>1, <1>2, <1>3, PlayableQuiet DEF workerVars, deleteVars

LEMMA PlayableQueue ==
    ASSUME PlayableInv,
           \/ \E v \in Videos : VisibilityExpires(v)
           \/ \E w \in Workers, v \in Videos : Receive(w, v)
           \/ WorkerCrash
    PROVE  PlayableInv'
<1>1. TypeOK /\ TypeOK'
  BY TypeQueue DEF PlayableInv
<1>2. UNCHANGED <<docVars, encoded, deleteVars>>
  BY DEF VisibilityExpires, Receive, WorkerCrash
<1>3. \A w \in Workers : stage'[w] \in {"put_hls", "mark_ready"} =>
        stage'[w] = stage[w] /\ job'[w] = job[w] /\ next'[w] = next[w]
  <2>1. CASE \E v \in Videos : VisibilityExpires(v)
    BY <2>1 DEF VisibilityExpires, workerVars
  <2>2. ASSUME NEW w \in Workers, NEW v \in Videos, Receive(w, v)
        PROVE  \A x \in Workers : stage'[x] \in {"put_hls", "mark_ready"} =>
                 stage'[x] = stage[x] /\ job'[x] = job[x] /\ next'[x] = next[x]
    BY <1>1, <2>2 DEF Receive, TypeOK
  <2>3. CASE WorkerCrash
    BY <2>3 DEF WorkerCrash
  <2> QED
    BY <2>1, <2>2, <2>3
<1> QED
  BY <1>1, <1>2, <1>3, PlayableQuiet DEF docVars, deleteVars

\* A step of one worker that puts nothing and enters neither the walk nor
\* MarkReady leaves the invariant alone.
LEMMA PlayableWorkQuiet ==
    ASSUME PlayableInv, TypeOK', NEW w \in Workers,
           UNCHANGED <<prefix, encoded, deleteVars>>,
           \A v \in Videos : status'[v] = "ready" => status[v] = "ready",
           \E s \in WorkerStages \ {"put_hls", "mark_ready"} : stage' = [stage EXCEPT ![w] = s],
           \A x \in Workers \ {w} : job'[x] = job[x] /\ next'[x] = next[x]
    PROVE  PlayableInv'
<1>1. stage \in [Workers -> WorkerStages]
  BY DEF PlayableInv, TypeOK
<1>2. \A x \in Workers : stage'[x] \in {"put_hls", "mark_ready"} =>
        stage'[x] = stage[x] /\ job'[x] = job[x] /\ next'[x] = next[x]
  BY <1>1
<1> QED
  BY <1>2, PlayableQuiet DEF deleteVars

LEMMA PlayablePutHls ==
    ASSUME PlayableInv, TypeOK', NEW w \in Workers, PutHls(w)
    PROVE  PlayableInv'
<1> DEFINE v == job[w]
           put == [encoded EXCEPT ![v] = @ \cup {next[w]}]
<1>1. /\ encoded \in [Videos -> SUBSET HlsFiles] /\ next \in [Workers -> HlsFiles]
      /\ stage \in [Workers -> WorkerStages]
  BY DEF PlayableInv, TypeOK
<1>2. v \in Videos /\ stage[w] = "put_hls" /\ next[w] \in HlsFiles
  BY <1>1, HasJob DEF PlayableInv, PutHls
<1>3. UNCHANGED <<docVars, deleteVars, job>>
  BY DEF PutHls, WorkerTo
<1>4. put \in [Videos -> SUBSET HlsFiles]
  BY <1>1, <1>2
<1>5. encoded' = put \/ encoded' = encoded
  BY DEF PutHls
<1>6. \A u \in Videos : encoded[u] \subseteq encoded'[u] /\ encoded'[u] \subseteq HlsFiles
  BY <1>1, <1>4, <1>5
<1>7. \A u \in Videos : encoded'[u] = encoded[u] \/ (u = v /\ encoded'[u] = encoded[u] \cup {next[w]})
  BY <1>1, <1>5
<1>8. v \notin deleting => 1..(next[w] - 1) \subseteq encoded[v]
  BY <1>2 DEF PlayableInv, WalkBehind
<1>9. ReadyIsPlayable'
  BY <1>3, <1>6 DEF PlayableInv, ReadyIsPlayable, docVars, deleteVars
<1>10. ManifestIsLast'
  <2> SUFFICES ASSUME NEW u \in Videos \ deleting, Master \in encoded'[u]
               PROVE  1..Master \subseteq encoded'[u]
    BY <1>3 DEF ManifestIsLast, deleteVars
  <2>1. CASE Master \in encoded[u]
    BY <1>6, <2>1 DEF PlayableInv, ManifestIsLast
  <2>2. CASE Master \notin encoded[u]
    <3>1. u = v /\ next[w] = Master /\ encoded'[u] = encoded[u] \cup {Master}
      BY <1>7, <2>2
    <3>2. 1..(Master - 1) \subseteq encoded[u]
      BY <1>8, <3>1
    <3>3. \A i \in 1..Master : i = Master \/ i \in 1..(Master - 1)
      BY FilesFact DEF Master
    <3> QED
      BY <3>1, <3>2, <3>3
  <2> QED
    BY <2>1, <2>2
<1>11. WalkBehind' /\ WalkDone'
  <2>1. ASSUME NEW x \in Workers, x # w, stage'[x] = stage[x], next'[x] = next[x], job[x] \notin deleting
        PROVE  /\ stage[x] = "put_hls" => 1..(next[x] - 1) \subseteq encoded'[job[x]]
               /\ stage[x] = "mark_ready" => encoded'[job[x]] = HlsFiles
    <3>1. stage[x] \in {"put_hls", "mark_ready"} => job[x] \in Videos
      BY HasJob DEF PlayableInv
    <3>2. CASE stage[x] = "put_hls"
      BY <1>6, <2>1, <3>1, <3>2 DEF PlayableInv, WalkBehind
    <3>3. CASE stage[x] = "mark_ready"
      BY <1>6, <2>1, <3>1, <3>3 DEF PlayableInv, WalkDone
    <3> QED
      BY <3>2, <3>3
  <2>2. CASE /\ next[w] < HlsFileCount
             /\ encoded' = put
             /\ next' = [next EXCEPT ![w] = @ + 1]
             /\ UNCHANGED <<stage, job, crashes>>
    <3>1. \A x \in Workers \ {w} : stage'[x] = stage[x] /\ next'[x] = next[x]
      BY <1>1, <2>2
    <3>2. v \notin deleting => 1..(next'[w] - 1) \subseteq encoded'[v]
      <4>1. next'[w] = next[w] + 1 /\ next[w] \in Nat
        BY <1>1, <1>2, <2>2, FilesFact
      <4>2. \A i \in 1..(next'[w] - 1) : i = next[w] \/ i \in 1..(next[w] - 1)
        BY <4>1
      <4>3. encoded'[v] = encoded[v] \cup {next[w]}
        BY <1>1, <1>2, <2>2
      <4> QED
        BY <1>8, <4>2, <4>3
    <3>3. stage' = stage /\ job' = job /\ deleting' = deleting
      BY <1>3, <2>2 DEF deleteVars
    <3> QED
      BY <1>2, <2>1, <3>1, <3>2, <3>3 DEF WalkBehind, WalkDone
  <2>3. CASE next[w] = HlsFileCount /\ encoded' = put /\ WorkerTo(w, "mark_ready")
    <3>1. \A x \in Workers \ {w} : stage'[x] = stage[x] /\ next'[x] = next[x]
      BY <1>1, <2>3 DEF WorkerTo
    <3>2. v \notin deleting => encoded'[v] = HlsFiles
      <4>1. \A i \in HlsFiles : i = next[w] \/ i \in 1..(next[w] - 1)
        BY <2>3, FilesFact
      <4>2. encoded'[v] = encoded[v] \cup {next[w]}
        BY <1>1, <1>2, <2>3
      <4> QED
        BY <1>2, <1>6, <1>8, <4>1, <4>2
    <3>3. stage'[w] = "mark_ready" /\ job' = job /\ deleting' = deleting
      BY <1>1, <1>3, <2>3 DEF WorkerTo, deleteVars
    <3> QED
      BY <2>1, <3>1, <3>2, <3>3 DEF WalkBehind, WalkDone
  <2>4. CASE WorkerTo(w, "mark_failed")
    <3>1. \A x \in Workers \ {w} : stage'[x] = stage[x] /\ next'[x] = next[x]
      BY <1>1, <2>4 DEF WorkerTo
    <3>2. stage'[w] = "mark_failed" /\ job' = job /\ deleting' = deleting
      BY <1>1, <1>3, <2>4 DEF WorkerTo, deleteVars
    <3> QED
      BY <2>1, <3>1, <3>2 DEF WalkBehind, WalkDone
  <2> QED
    BY <2>2, <2>3, <2>4 DEF PutHls
<1>12. DeletersKnown'
  BY <1>3 DEF PlayableInv, DeletersKnown, deleteVars
<1> QED
  BY <1>9, <1>10, <1>11, <1>12 DEF PlayableInv

\* The walk starts with the first file: nothing is behind it.
LEMMA PlayableEncode ==
    ASSUME PlayableInv, TypeOK', NEW w \in Workers, Encode(w)
    PROVE  PlayableInv'
<1>1. stage \in [Workers -> WorkerStages] /\ next \in [Workers -> HlsFiles]
  BY DEF PlayableInv, TypeOK
<1>2. UNCHANGED <<docVars, encoded, deleteVars, job>>
  BY DEF Encode, WorkerTo
<1>3. CASE WorkerTo(w, "mark_failed")
  BY <1>2, <1>3, PlayableWorkQuiet DEF WorkerTo, WorkerStages, docVars
<1>4. CASE /\ stage' = [stage EXCEPT ![w] = "put_hls"]
           /\ next' = [next EXCEPT ![w] = 1]
           /\ UNCHANGED <<job, crashes>>
  <2>1. ReadyIsPlayable' /\ ManifestIsLast' /\ DeletersKnown'
    BY <1>2 DEF PlayableInv, ReadyIsPlayable, ManifestIsLast, DeletersKnown, docVars, deleteVars
  <2>2. \A x \in Workers \ {w} : stage'[x] = stage[x] /\ next'[x] = next[x]
    BY <1>1, <1>4
  <2>3. stage'[w] = "put_hls" /\ next'[w] = 1 /\ 1..(next'[w] - 1) = {}
    BY <1>1, <1>4
  <2>4. WalkBehind' /\ WalkDone'
    BY <1>2, <2>2, <2>3 DEF PlayableInv, WalkBehind, WalkDone, deleteVars
  <2> QED
    BY <2>1, <2>4 DEF PlayableInv
<1> QED
  BY <1>3, <1>4 DEF Encode

\* WalkDone is what makes the update right: every file is there by then.
LEMMA PlayableMarkReady ==
    ASSUME PlayableInv, TypeOK', NEW w \in Workers, MarkReady(w)
    PROVE  PlayableInv'
<1>1. /\ stage \in [Workers -> WorkerStages]
      /\ status \in [Videos -> Statuses] /\ prefix \subseteq Videos
  BY DEF PlayableInv, TypeOK
<1>2. UNCHANGED <<encoded, deleteVars, job, next>>
  BY DEF MarkReady, WorkerTo
<1>3. stage[w] = "mark_ready" /\ job[w] \in Videos
  BY HasJob DEF PlayableInv, MarkReady
<1>4. job[w] \notin deleting => encoded[job[w]] = HlsFiles
  BY <1>3 DEF PlayableInv, WalkDone
<1>5. \/ UNCHANGED docVars
      \/ /\ status' = [status EXCEPT ![job[w]] = "ready"]
         /\ prefix' = prefix \cup {job[w]}
  BY DEF MarkReady, SetReady
<1>6. ReadyIsPlayable'
  BY <1>1, <1>2, <1>3, <1>4, <1>5 DEF PlayableInv, ReadyIsPlayable, docVars, deleteVars
<1>7. ManifestIsLast' /\ DeletersKnown'
  BY <1>2 DEF PlayableInv, ManifestIsLast, DeletersKnown, deleteVars
<1>8. \A x \in Workers : stage'[x] = stage[x] \/ stage'[x] \notin {"put_hls", "mark_ready"}
  BY <1>1 DEF MarkReady, WorkerTo
<1>9. WalkBehind' /\ WalkDone'
  BY <1>2, <1>8 DEF PlayableInv, WalkBehind, WalkDone, deleteVars
<1> QED
  BY <1>6, <1>7, <1>9 DEF PlayableInv

LEMMA PlayableWork ==
    ASSUME PlayableInv, NEW w \in Workers, WorkStep(w)
    PROVE  PlayableInv'
<1>1. TypeOK /\ TypeOK'
  BY TypeWork DEF PlayableInv
<1>2. CASE Lookup(w)
  BY <1>1, <1>2, PlayableWorkQuiet DEF Lookup, WorkerTo, WorkerStages, docVars
<1>3. CASE Download(w)
  BY <1>1, <1>3, PlayableWorkQuiet DEF Download, WorkerTo, WorkerStages, docVars
<1>4. CASE MarkFailed(w)
  <2>1. \A v \in Videos : status'[v] = "ready" => status[v] = "ready"
    BY <1>1, <1>4 DEF MarkFailed, SetFailed, docVars, TypeOK
  <2>2. UNCHANGED <<prefix, encoded, deleteVars>>
    BY <1>4 DEF MarkFailed, SetFailed, docVars
  <2> QED
    BY <1>1, <1>4, <2>1, <2>2, PlayableWorkQuiet DEF MarkFailed, WorkerTo, WorkerStages
<1>5. CASE Announce(w)
  BY <1>1, <1>5, PlayableWorkQuiet DEF Announce, WorkerTo, WorkerStages, docVars
<1>6. CASE Ack(w)
  <2>1. stage' = [stage EXCEPT ![w] = "idle"] /\ "idle" \in WorkerStages \ {"put_hls", "mark_ready"}
    BY <1>6 DEF Ack, WorkerStages
  <2>2. \A x \in Workers \ {w} : job'[x] = job[x] /\ next'[x] = next[x]
    BY <1>1, <1>6 DEF Ack, TypeOK
  <2>3. UNCHANGED <<docVars, encoded, deleteVars>>
    BY <1>6 DEF Ack
  <2> QED
    BY <1>1, <2>1, <2>2, <2>3, PlayableWorkQuiet DEF docVars
<1> QED
  BY <1>1, <1>2, <1>3, <1>4, <1>5, <1>6, PlayableEncode, PlayablePutHls, PlayableMarkReady
     DEF WorkStep

\* A DELETE takes away objects and documents of a video in deleting only.
LEMMA PlayableDelete ==
    ASSUME PlayableInv, NEW d \in Deleters, DeleteStep(d)
    PROVE  PlayableInv'
<1>1. TypeOK /\ TypeOK'
  BY TypeDelete DEF PlayableInv
<1>2. UNCHANGED <<stage, job, next>> /\ deleting \subseteq deleting'
  BY DEF DeleteStep, DeleteLookup, DeleteRaw, ListHls, DeleteHls, DeleteDoc, DeleteAbandoned,
         DeleteReturns, workerVars
<1>3. \A v \in Videos \ deleting : v # dvideo[d]
  BY FilesFact DEF PlayableInv, DeletersKnown
<1>4. \A v \in Videos \ deleting : encoded'[v] = encoded[v]
  <2>1. CASE DeleteHls(d)
    <3>1. PICK k \in dkeys[d] :
            encoded' \in {encoded, [encoded EXCEPT ![dvideo[d]] = @ \ {k}]}
      BY <2>1 DEF DeleteHls
    <3> QED
      BY <1>1, <1>3, <3>1 DEF TypeOK
  <2>2. CASE UNCHANGED encoded
    BY <2>2
  <2> QED
    BY <2>1, <2>2
       DEF DeleteStep, DeleteLookup, DeleteRaw, ListHls, DeleteDoc, DeleteAbandoned
<1>5. \A v \in Videos \ deleting : status'[v] = status[v] /\ (v \in prefix => v \in prefix')
  <2>1. CASE DeleteDoc(d)
    BY <1>1, <1>3, <2>1 DEF DeleteDoc, TypeOK, docVars
  <2>2. CASE UNCHANGED docVars
    BY <2>2 DEF docVars
  <2> QED
    BY <2>1, <2>2 DEF DeleteStep, DeleteLookup, DeleteRaw, ListHls, DeleteHls, DeleteAbandoned
<1>6. ReadyIsPlayable' /\ ManifestIsLast'
  BY <1>2, <1>4, <1>5 DEF PlayableInv, ReadyIsPlayable, ManifestIsLast
<1>7. WalkBehind' /\ WalkDone'
  <2>1. \A w \in Workers : stage[w] \in {"put_hls", "mark_ready"} => job[w] \in Videos
    BY HasJob DEF PlayableInv
  <2> QED
    BY <1>2, <1>4, <2>1 DEF PlayableInv, WalkBehind, WalkDone
<1>8. DeletersKnown'
  <2>1. ASSUME NEW v \in Videos, DeleteLookup(d, v) PROVE DeletersKnown'
    <3>1. dvideo' = [dvideo EXCEPT ![d] = v] /\ deleting' = deleting \cup {v}
      BY <2>1 DEF DeleteLookup
    <3>2. \A e \in Deleters : dvideo'[e] = IF e = d THEN v ELSE dvideo[e]
      BY <1>1, <3>1 DEF TypeOK
    <3> QED
      BY <3>1, <3>2 DEF PlayableInv, DeletersKnown
  <2>2. CASE UNCHANGED <<dvideo, deleting>>
    BY <2>2 DEF PlayableInv, DeletersKnown
  <2>3. CASE DeleteReturns(d)
    BY <1>1, <2>3 DEF DeleteReturns, PlayableInv, DeletersKnown, TypeOK
  <2> QED
    BY <2>1, <2>2, <2>3
       DEF DeleteStep, DeleteRaw, ListHls, DeleteHls, DeleteDoc, DeleteAbandoned
<1> QED
  BY <1>1, <1>6, <1>7, <1>8 DEF PlayableInv

LEMMA PlayableInductive == PlayableInv /\ [Next]_vars => PlayableInv'
<1> SUFFICES ASSUME PlayableInv, [Next]_vars PROVE PlayableInv'
  OBVIOUS
<1>1. CASE Next
  BY <1>1, PlayableUpload, PlayableQueue, PlayableWork, PlayableDelete DEF Next
<1>2. CASE UNCHANGED vars
  <2>1. TypeOK'
    BY <1>2 DEF vars, docVars, workerVars, deleteVars, PlayableInv, TypeOK
  <2> QED
    BY <1>2, <2>1, PlayableQuiet DEF vars, docVars, workerVars, deleteVars
<1> QED
  BY <1>1, <1>2

\* A document says ready only while every file of the encode is stored.
THEOREM ReadyPlayable == Spec => []ReadyIsPlayable
<1>1. PlayableInv => ReadyIsPlayable
  BY DEF PlayableInv
<1> QED
  BY <1>1, PlayableInit, PlayableInductive, PTL DEF Spec

\* The master playlist is never stored without the files it refers to.
THEOREM ManifestLast == Spec => []ManifestIsLast
<1>1. PlayableInv => ManifestIsLast
  BY DEF PlayableInv
<1> QED
  BY <1>1, PlayableInit, PlayableInductive, PTL DEF Spec
=============================================================================
