--------------------------- MODULE VideoPipeline ---------------------------
(***************************************************************************)
(* The write path of the platform: the API's Upload handler, the encode    *)
(* queue (SQS), the encode workers and the API's DeleteVideo handler, over *)
(* the stores they share: the raw and the encoded bucket (S3) and the      *)
(* videos collection (MongoDB).                                            *)
(*                                                                         *)
(* Every call to a store or to the queue is one step, so requests and jobs *)
(* interleave between calls.  Any call may fail if its kind is in Faults;  *)
(* a failed write may have taken effect all the same (a lost reply).       *)
(***************************************************************************)
EXTENDS Naturals

CONSTANTS
    Videos,       \* ids handed out by primitive.NewObjectID: one upload each
    NoVideo,      \* "no job" / "no request", not an id
    Workers,      \* encode workers of the pool
    Deleters,     \* DELETE requests that may be served at the same time
    HlsFileCount, \* files of one encode, in the order uploadHLSDir walks them
    Faults,       \* the kinds of fault this instance admits
    MaxCrashes    \* crashes of the worker process; a bound of the model

FaultKinds ==
    {"put_raw", "insert", "enqueue", "api_crash",           \* Upload
     "lookup", "download", "encode", "put_hls",             \* processVideo
     "mark_ready", "mark_failed",
     "ack", "slow_encode",                                  \* queue
     "delete_object", "list", "delete_doc"}                 \* DeleteVideo

ASSUME PipelineAssumption ==
    /\ NoVideo \notin Videos
    /\ HlsFileCount \in Nat /\ HlsFileCount >= 2
    /\ Faults \subseteq FaultKinds
    /\ MaxCrashes \in Nat

\* Walk order is lexical: 360p/*, 720p/*, master.m3u8, thumbnail.jpg.
HlsFiles == 1..HlsFileCount
Master   == HlsFileCount - 1

UploadStages == {"store", "insert", "announce", "enqueue", "accepted", "rejected"}
Statuses     == {"none", "processing", "ready", "failed"}
WorkerStages == {"idle", "lookup", "download", "encode", "put_hls", "mark_ready",
                 "say_ready", "mark_failed", "say_failed", "ack"}
DeleteStages == {"idle", "del_raw", "list", "del_hls", "del_doc"}

VARIABLES
    upload,    \* where each video's Upload request is
    raw,       \* videos whose original is in the raw bucket
    status,    \* status of the Mongo document, "none" without a document
    prefix,    \* documents whose encoded_prefix is set
    unsaved,   \* history: videos of which an update of markFailed was lost
    encoded,   \* objects under each video's prefix in the encoded bucket
    message,   \* each video's job in SQS
    stage,     \* where each worker is in processVideo
    job,       \* the video whose job it holds
    next,      \* next file uploadHLSDir will put
    told,      \* last status handed to the realtime bridge for each video
    dstage,    \* where each DELETE request is
    dvideo,    \* the video it deletes
    dprefix,   \* whether the document it read had an encoded_prefix
    dkeys,     \* objects listed and still to be deleted
    deleting,  \* history: videos some DELETE has begun to take apart
    crashes    \* crashes of the worker process so far

docVars    == <<status, prefix, unsaved>>
workerVars == <<stage, job, next, crashes>>
deleteVars == <<dstage, dvideo, dprefix, dkeys, deleting>>
vars == <<upload, raw, docVars, encoded, message, workerVars, told, deleteVars>>

TypeOK ==
    /\ upload \in [Videos -> UploadStages]
    /\ raw \subseteq Videos
    /\ status \in [Videos -> Statuses]
    /\ prefix \subseteq Videos
    /\ unsaved \subseteq Videos
    /\ encoded \in [Videos -> SUBSET HlsFiles]
    /\ message \in [Videos -> {"none", "visible", "inflight", "deleted"}]
    /\ stage \in [Workers -> WorkerStages]
    /\ job \in [Workers -> Videos \cup {NoVideo}]
    /\ \A w \in Workers : job[w] = NoVideo <=> stage[w] = "idle"
    /\ next \in [Workers -> HlsFiles]
    /\ told \in [Videos -> Statuses]
    /\ dstage \in [Deleters -> DeleteStages]
    /\ dvideo \in [Deleters -> Videos \cup {NoVideo}]
    /\ \A d \in Deleters : dvideo[d] = NoVideo <=> dstage[d] = "idle"
    /\ dprefix \in [Deleters -> BOOLEAN]
    /\ dkeys \in [Deleters -> SUBSET HlsFiles]
    /\ deleting \subseteq Videos
    /\ crashes \in 0..MaxCrashes

Init ==
    /\ upload = [v \in Videos |-> "store"]
    /\ raw = {}
    /\ status = [v \in Videos |-> "none"]
    /\ prefix = {}
    /\ unsaved = {}
    /\ encoded = [v \in Videos |-> {}]
    /\ message = [v \in Videos |-> "none"]
    /\ stage = [w \in Workers |-> "idle"]
    /\ job = [w \in Workers |-> NoVideo]
    /\ next = [w \in Workers |-> 1]
    /\ told = [v \in Videos |-> "none"]
    /\ dstage = [d \in Deleters |-> "idle"]
    /\ dvideo = [d \in Deleters |-> NoVideo]
    /\ dprefix = [d \in Deleters |-> FALSE]
    /\ dkeys = [d \in Deleters |-> {}]
    /\ deleting = {}
    /\ crashes = 0

-----------------------------------------------------------------------------
(* Upload.  A request ends "accepted" (200) or "rejected" (any error).     *)

UploadTo(v, s) == upload' = [upload EXCEPT ![v] = s]

\* s3.PutObject of the original.
StoreRaw(v) ==
    /\ upload[v] = "store"
    /\ \/ raw' = raw \cup {v} /\ UploadTo(v, "insert")
       \/ /\ "put_raw" \in Faults
          /\ raw' \in {raw, raw \cup {v}}
          /\ UploadTo(v, "rejected")
    /\ UNCHANGED <<docVars, encoded, message, workerVars, told, deleteVars>>

\* videos.Create with status processing and no encoded_prefix.
InsertDoc(v) ==
    /\ upload[v] = "insert"
    /\ \/ status' = [status EXCEPT ![v] = "processing"] /\ UploadTo(v, "announce")
       \/ /\ "insert" \in Faults
          /\ status' \in {status, [status EXCEPT ![v] = "processing"]}
          /\ UploadTo(v, "rejected")
    /\ UNCHANGED <<raw, prefix, unsaved, encoded, message, workerVars, told, deleteVars>>

\* pushVideoWS "processing", before the job exists.
AnnounceUpload(v) ==
    /\ upload[v] = "announce"
    /\ told' = [told EXCEPT ![v] = "processing"]
    /\ UploadTo(v, "enqueue")
    /\ UNCHANGED <<raw, docVars, encoded, message, workerVars, deleteVars>>

\* Mutant: the job is sent by a goroutine of its own, started before the push.
EnqueueInBackground(v) ==
    /\ upload[v] \in {"announce", "enqueue"}
    /\ message[v] = "none"
    /\ message' = [message EXCEPT ![v] = "visible"]
    /\ UNCHANGED <<upload, raw, docVars, encoded, workerVars, told, deleteVars>>

\* sqs.SendMessage; on an error the document stays as it is.
Enqueue(v) ==
    /\ upload[v] = "enqueue"
    /\ \/ message' = [message EXCEPT ![v] = "visible"] /\ UploadTo(v, "accepted")
       \/ /\ "enqueue" \in Faults
          /\ message' \in {message, [message EXCEPT ![v] = "visible"]}
          /\ UploadTo(v, "rejected")
    /\ UNCHANGED <<raw, docVars, encoded, workerVars, told, deleteVars>>

\* The API process dies, or the client goes away and r.Context() is cancelled.
UploadAbandoned(v) ==
    /\ "api_crash" \in Faults
    /\ upload[v] \in {"insert", "announce", "enqueue"}
    /\ UploadTo(v, "rejected")
    /\ UNCHANGED <<raw, docVars, encoded, message, workerVars, told, deleteVars>>

-----------------------------------------------------------------------------
(* The encode queue and processVideo.                                      *)

WorkerTo(w, s) ==
    /\ stage' = [stage EXCEPT ![w] = s]
    /\ UNCHANGED <<job, next, crashes>>

\* Mutant: the message is deleted as soon as it is received.
ReceiveAndAck(w, v) ==
    /\ stage[w] = "idle"
    /\ message[v] = "visible"
    /\ message' = [message EXCEPT ![v] = "deleted"]
    /\ stage' = [stage EXCEPT ![w] = "lookup"]
    /\ job' = [job EXCEPT ![w] = v]
    /\ UNCHANGED <<upload, raw, docVars, encoded, next, crashes, told, deleteVars>>

\* ReceiveMessage hides the message for VisibilityTimeout seconds.
Receive(w, v) ==
    /\ stage[w] = "idle"
    /\ message[v] = "visible"
    /\ message' = [message EXCEPT ![v] = "inflight"]
    /\ stage' = [stage EXCEPT ![w] = "lookup"]
    /\ job' = [job EXCEPT ![w] = v]
    /\ UNCHANGED <<upload, raw, docVars, encoded, next, crashes, told, deleteVars>>

\* Mutant: a timeout shorter than an encode.
VisibilityExpiresEarly(v) ==
    /\ message[v] = "inflight"
    /\ message' = [message EXCEPT ![v] = "visible"]
    /\ UNCHANGED <<upload, raw, docVars, encoded, workerVars, told, deleteVars>>

\* Nothing extends the timeout: it runs out under a worker if the encode is
\* slow, and always after the holder is gone.
VisibilityExpires(v) ==
    /\ message[v] = "inflight"
    /\ "slow_encode" \in Faults \/ \A w \in Workers : job[w] # v
    /\ message' = [message EXCEPT ![v] = "visible"]
    /\ UNCHANGED <<upload, raw, docVars, encoded, workerVars, told, deleteVars>>

\* GetByID and MkdirTemp: an error, and ErrVideoNotFound, end the job at once.
Lookup(w) ==
    /\ stage[w] = "lookup"
    /\ \/ status[job[w]] # "none" /\ WorkerTo(w, "download")
       \/ status[job[w]] = "none" /\ WorkerTo(w, "ack")
       \/ "lookup" \in Faults /\ WorkerTo(w, "ack")
    /\ UNCHANGED <<upload, raw, docVars, encoded, message, told, deleteVars>>

\* Mutant: the early return without markFailed.
DownloadGivesUp(w) ==
    /\ stage[w] = "download"
    /\ \/ job[w] \in raw /\ WorkerTo(w, "encode")
       \/ job[w] \notin raw /\ WorkerTo(w, "ack")
       \/ "download" \in Faults /\ WorkerTo(w, "ack")
    /\ UNCHANGED <<upload, raw, docVars, encoded, message, told, deleteVars>>

\* downloadRaw, and the output directory.
Download(w) ==
    /\ stage[w] = "download"
    /\ \/ job[w] \in raw /\ WorkerTo(w, "encode")
       \/ job[w] \notin raw /\ WorkerTo(w, "mark_failed")
       \/ "download" \in Faults /\ WorkerTo(w, "mark_failed")
    /\ UNCHANGED <<upload, raw, docVars, encoded, message, told, deleteVars>>

\* Mutant: the document is marked ready before the upload.
EncodeThenReady(w) ==
    /\ stage[w] = "encode"
    /\ WorkerTo(w, "mark_ready")
    /\ UNCHANGED <<upload, raw, docVars, encoded, message, told, deleteVars>>

\* EncodeToHLS: all files of the local directory, or an error.
Encode(w) ==
    /\ stage[w] = "encode"
    /\ \/ /\ stage' = [stage EXCEPT ![w] = "put_hls"]
          /\ next' = [next EXCEPT ![w] = 1]
          /\ UNCHANGED <<job, crashes>>
       \/ "encode" \in Faults /\ WorkerTo(w, "mark_failed")
    /\ UNCHANGED <<upload, raw, docVars, encoded, message, told, deleteVars>>

\* Mutant: an object that cannot be put is skipped.
PutHlsSkips(w) ==
    LET v == job[w] IN
    /\ stage[w] = "put_hls"
    /\ encoded' \in {encoded, [encoded EXCEPT ![v] = @ \cup {next[w]}]}
    /\ IF next[w] < HlsFileCount
       THEN next' = [next EXCEPT ![w] = @ + 1] /\ UNCHANGED <<stage, job, crashes>>
       ELSE WorkerTo(w, "mark_ready")
    /\ UNCHANGED <<upload, raw, docVars, message, told, deleteVars>>

\* One PutObject of uploadHLSDir; the first error ends the walk.
PutHls(w) ==
    LET v   == job[w]
        put == [encoded EXCEPT ![v] = @ \cup {next[w]}]
    IN
    /\ stage[w] = "put_hls"
    /\ \/ /\ next[w] < HlsFileCount
          /\ encoded' = put
          /\ next' = [next EXCEPT ![w] = @ + 1]
          /\ UNCHANGED <<stage, job, crashes>>
       \/ next[w] = HlsFileCount /\ encoded' = put /\ WorkerTo(w, "mark_ready")
       \/ /\ "put_hls" \in Faults
          /\ encoded' \in {encoded, put}
          /\ WorkerTo(w, "mark_failed")
    /\ UNCHANGED <<upload, raw, docVars, message, told, deleteVars>>

\* Mutant: the update is an upsert.
SetReadyUpserts(v) ==
    /\ status' = [status EXCEPT ![v] = "ready"]
    /\ prefix' = prefix \cup {v}
    /\ UNCHANGED unsaved

\* An UpdateOne by id, whatever the status; a missing document is no error.
SetReady(v) ==
    IF status[v] = "none"
    THEN UNCHANGED docVars
    ELSE /\ status' = [status EXCEPT ![v] = "ready"]
         /\ prefix' = prefix \cup {v}
         /\ UNCHANGED unsaved

\* Mutant: the failure is pushed and never stored.
SetFailedForgets(v) == UNCHANGED docVars

\* The same kind of update; it leaves encoded_prefix alone.
SetFailed(v) ==
    /\ status' = [status EXCEPT ![v] = IF @ = "none" THEN "none" ELSE "failed"]
    /\ UNCHANGED <<prefix, unsaved>>

\* An error of MarkReady is returned without markFailed.
MarkReady(w) ==
    /\ stage[w] = "mark_ready"
    /\ \/ SetReady(job[w]) /\ WorkerTo(w, "say_ready")
       \/ /\ "mark_ready" \in Faults
          /\ SetReady(job[w]) \/ UNCHANGED docVars
          /\ WorkerTo(w, "ack")
    /\ UNCHANGED <<upload, raw, encoded, message, told, deleteVars>>

\* markFailed goes on whether or not the store took the update.
MarkFailed(w) ==
    /\ stage[w] = "mark_failed"
    /\ \/ SetFailed(job[w])
       \/ /\ "mark_failed" \in Faults
          /\ unsaved' = unsaved \cup {job[w]}
          /\ UNCHANGED <<status, prefix>>
    /\ WorkerTo(w, "say_failed")
    /\ UNCHANGED <<upload, raw, encoded, message, told, deleteVars>>

\* publishMetadataStatusChange, publishVideoWS.
Announce(w) ==
    /\ \/ /\ stage[w] = "say_ready"
          /\ told' = [told EXCEPT ![job[w]] = "ready"]
       \/ /\ stage[w] = "say_failed"
          /\ told' = [told EXCEPT ![job[w]] = "failed"]
    /\ WorkerTo(w, "ack")
    /\ UNCHANGED <<upload, raw, docVars, encoded, message, deleteVars>>

\* Mutant: the worker goes back to idle with its job still set.
AckKeepsJob(w) ==
    /\ stage[w] = "ack"
    /\ message' = [message EXCEPT ![job[w]] = "deleted"]
    /\ WorkerTo(w, "idle")
    /\ UNCHANGED <<upload, raw, docVars, encoded, told, deleteVars>>

\* DeleteMessage, after success and after an error alike.  It may fail, and
\* with the receipt of an expired delivery SQS may keep the message.
Ack(w) ==
    /\ stage[w] = "ack"
    /\ \/ message' = [message EXCEPT ![job[w]] = "deleted"]
       \/ Faults \cap {"ack", "slow_encode"} # {} /\ UNCHANGED message
    /\ stage' = [stage EXCEPT ![w] = "idle"]
    /\ job' = [job EXCEPT ![w] = NoVideo]
    /\ next' = [next EXCEPT ![w] = 1]
    /\ UNCHANGED <<upload, raw, docVars, encoded, crashes, told, deleteVars>>

\* The worker process dies with every job it holds, and is started again.
WorkerCrash ==
    /\ crashes < MaxCrashes
    /\ crashes' = crashes + 1
    /\ stage' = [w \in Workers |-> "idle"]
    /\ job' = [w \in Workers |-> NoVideo]
    /\ next' = [w \in Workers |-> 1]
    /\ UNCHANGED <<upload, raw, docVars, encoded, message, told, deleteVars>>

-----------------------------------------------------------------------------
(* DeleteVideo.                                                            *)

DeleteTo(d, s) == dstage' = [dstage EXCEPT ![d] = s]

\* The request returns: every local of the handler is gone.
DeleteReturns(d) ==
    /\ DeleteTo(d, "idle")
    /\ dvideo' = [dvideo EXCEPT ![d] = NoVideo]
    /\ dprefix' = [dprefix EXCEPT ![d] = FALSE]
    /\ dkeys' = [dkeys EXCEPT ![d] = {}]
    /\ UNCHANGED deleting

\* GetByID: the rest of the handler uses this copy of the document.
DeleteLookup(d, v) ==
    /\ dstage[d] = "idle"
    /\ status[v] # "none"
    /\ DeleteTo(d, "del_raw")
    /\ dvideo' = [dvideo EXCEPT ![d] = v]
    /\ dprefix' = [dprefix EXCEPT ![d] = v \in prefix]
    /\ deleting' = deleting \cup {v}
    /\ UNCHANGED <<upload, raw, docVars, encoded, message, workerVars, told, dkeys>>

\* Mutant: the encoded objects are forgotten.
DeleteRawOnly(d) ==
    /\ dstage[d] = "del_raw"
    /\ raw' = raw \ {dvideo[d]}
    /\ DeleteTo(d, "del_doc")
    /\ UNCHANGED <<upload, docVars, encoded, message, workerVars, told,
                   dvideo, dprefix, dkeys, deleting>>

\* An error of this DeleteObject is ignored.
DeleteRaw(d) ==
    /\ dstage[d] = "del_raw"
    /\ \/ raw' = raw \ {dvideo[d]}
       \/ "delete_object" \in Faults /\ UNCHANGED raw
    /\ DeleteTo(d, IF dprefix[d] THEN "list" ELSE "del_doc")
    /\ UNCHANGED <<upload, docVars, encoded, message, workerVars, told,
                   dvideo, dprefix, dkeys, deleting>>

AfterKeys(keys) == IF keys = {} THEN "del_doc" ELSE "del_hls"

\* ListObjectsV2, one page; an error ends the request, the document stays.
ListHls(d) ==
    /\ dstage[d] = "list"
    /\ \/ /\ dkeys' = [dkeys EXCEPT ![d] = encoded[dvideo[d]]]
          /\ DeleteTo(d, AfterKeys(encoded[dvideo[d]]))
          /\ UNCHANGED <<dvideo, dprefix, deleting>>
       \/ "list" \in Faults /\ DeleteReturns(d)
    /\ UNCHANGED <<upload, raw, docVars, encoded, message, workerVars, told>>

\* DeleteObject of the next listed key; errors are ignored.
DeleteHls(d) ==
    \E k \in dkeys[d] :
        /\ dstage[d] = "del_hls"
        /\ \A j \in dkeys[d] : k <= j
        /\ \/ encoded' = [encoded EXCEPT ![dvideo[d]] = @ \ {k}]
           \/ "delete_object" \in Faults /\ UNCHANGED encoded
        /\ dkeys' = [dkeys EXCEPT ![d] = @ \ {k}]
        /\ DeleteTo(d, AfterKeys(dkeys[d] \ {k}))
        /\ UNCHANGED <<upload, raw, docVars, message, workerVars, told,
                       dvideo, dprefix, deleting>>

\* DeleteByID: 204 if it removed the document, 404 if it was gone already.
DeleteDoc(d) ==
    /\ dstage[d] = "del_doc"
    /\ \/ /\ status' = [status EXCEPT ![dvideo[d]] = "none"]
          /\ prefix' = prefix \ {dvideo[d]}
          /\ UNCHANGED unsaved
       \/ "delete_doc" \in Faults /\ UNCHANGED docVars
    /\ DeleteReturns(d)
    /\ UNCHANGED <<upload, raw, encoded, message, workerVars, told>>

DeleteAbandoned(d) ==
    /\ "api_crash" \in Faults
    /\ dstage[d] # "idle"
    /\ DeleteReturns(d)
    /\ UNCHANGED <<upload, raw, docVars, encoded, message, workerVars, told>>

-----------------------------------------------------------------------------
UploadStep(v) ==
    StoreRaw(v) \/ InsertDoc(v) \/ AnnounceUpload(v) \/ Enqueue(v) \/ UploadAbandoned(v)

\* What a worker does with the job it holds.
WorkStep(w) ==
    Lookup(w) \/ Download(w) \/ Encode(w) \/ PutHls(w) \/ MarkReady(w)
        \/ MarkFailed(w) \/ Announce(w) \/ Ack(w)

DeleteStep(d) ==
    \/ \E v \in Videos : DeleteLookup(d, v)
    \/ DeleteRaw(d) \/ ListHls(d) \/ DeleteHls(d) \/ DeleteDoc(d) \/ DeleteAbandoned(d)

Next ==
    \/ \E v \in Videos : UploadStep(v) \/ VisibilityExpires(v)
    \/ \E w \in Workers : WorkStep(w) \/ \E v \in Videos : Receive(w, v)
    \/ \E d \in Deleters : DeleteStep(d)
    \/ WorkerCrash

\* The workers keep polling and finish the jobs they hold, and SQS gives a
\* hidden message back in the end.  Nobody has to upload or delete anything.
Fairness ==
    /\ \A w \in Workers : WF_vars(WorkStep(w))
    /\ \A v \in Videos : WF_vars(\E w \in Workers : Receive(w, v))
    /\ \A v \in Videos : WF_vars(VisibilityExpires(v))

Spec     == Init /\ [][Next]_vars
FairSpec == Spec /\ Fairness

-----------------------------------------------------------------------------
(* Properties.                                                             *)

SilentFaults == {"lookup", "mark_ready", "mark_failed"}

\* A ready video whose deletion has not begun has every file of its encode in
\* the encoded bucket and its prefix in the document: MarkReady comes after a
\* walk of uploadHLSDir without errors, and a second encode only overwrites.
ReadyIsPlayable ==
    \A v \in Videos \ deleting :
        status[v] = "ready" => v \in prefix /\ encoded[v] = HlsFiles

\* Whoever can fetch the master playlist can fetch all it refers to, also while
\* files are still being uploaded and after an upload that failed half-way.
ManifestIsLast ==
    \A v \in Videos \ deleting : Master \in encoded[v] => 1..Master \subseteq encoded[v]

\* No accepted upload loses its job: as long as the document says processing,
\* SQS still has the message, whatever crashes and is delivered twice.  The
\* faults that drop a job without a status, SilentFaults, are the exception.
JobUntilSettled ==
    Faults \cap SilentFaults = {} =>
        \A v \in Videos :
            upload[v] = "accepted" /\ status[v] = "processing"
                => message[v] \in {"visible", "inflight"}

\* Whatever fails, "ready" is not pushed before the document has its end, and
\* "failed" before it only if an update of markFailed for this very video was
\* lost, which markFailed does not look at: another video, another kind of
\* fault, a redelivery or a crash never makes a push run ahead of the store.
SettledPushIsStored ==
    \A v \in Videos :
        told[v] \in {"ready", "failed"} /\ status[v] = "processing"
            => told[v] = "failed" /\ v \in unsaved

\* "processing" is never pushed after "ready" or "failed": Upload pushes it
\* before it sends the job, whatever the worker does then.
ProcessingPushIsFirst ==
    [][\A v \in Videos : told[v] \in {"ready", "failed"} => told'[v] # "processing"]_told

\* A deleted video does not come back: a worker that finishes the encode after
\* the document is gone must not create it anew.
NoResurrection ==
    [][\A v \in Videos :
        upload[v] \notin {"store", "insert"} /\ status[v] = "none" => status'[v] = "none"]_status

\* DELETE of a published video leaves no object behind when it comes to remove
\* the document, however many requests delete it and whatever the worker does
\* with other copies of the document; each job delivered once, no call failing.
DeleteOfReadyIsClean ==
    Faults \cap {"slow_encode", "ack", "delete_object"} = {} /\ MaxCrashes = 0 =>
        \A d \in Deleters :
            dstage[d] = "del_doc" /\ dprefix[d]
                => dvideo[d] \notin raw /\ encoded[dvideo[d]] = {}

\* Every accepted upload becomes ready or failed, or is deleted.
Settles ==
    \A v \in Videos : upload[v] = "accepted" ~> status[v] # "processing"

\* A ready video stays ready until it is deleted.
ReadyIsTerminal ==
    [][\A v \in Videos : status[v] = "ready" => status'[v] \in {"ready", "none"}]_status

\* The life a video leads in the collection, with "gone" after a DELETE, and the
\* faults that have a job delivered again.
Redelivers == Faults \cap {"slow_encode", "ack"} # {} \/ MaxCrashes > 0

LifeOf(v) ==
    IF status[v] # "none" THEN status[v]
    ELSE IF v \in deleting THEN "gone" ELSE "none"

life == [v \in Videos |-> LifeOf(v)]

Lifecycle == INSTANCE VideoLifecycle WITH state <- life

\* Upload, the workers and DELETE, whatever fails on their way, take each video
\* through the life VideoLifecycle allows it.
ImplementsLifecycle == Lifecycle!Spec
=============================================================================
