----------------------------- MODULE SearchSync -----------------------------
(***************************************************************************)
(* How the search index follows the videos collection, for one video: the  *)
(* handlers and the worker that write the Mongo document and publish a     *)
(* metadata event, the queue, and the consumers that read the document     *)
(* again and index it, dropping events that the version tracker calls      *)
(* stale; and the backfill, a tool run by hand that indexes what a scan of *)
(* the collection finds.  Videos share none of this state.                 *)
(*                                                                         *)
(* Every write is made once by a writer of its own, so the name of the     *)
(* writer stands for what the document holds after its write, and for the  *)
(* event it publishes.                                                     *)
(***************************************************************************)
EXTENDS Integers, FiniteSets

CONSTANTS
    Creator,      \* the Upload request
    Patchers,     \* PATCH requests
    Encoders,     \* status changes by the worker: MarkReady, MarkFailed
    Removers,     \* DELETE requests
    NoWriter,     \* no document
    Consumers,    \* search index consumers
    Backfills,    \* runs of search-backfill
    MsTicks,      \* clock ticks in the millisecond that Mongo keeps of a time
    Skew,         \* how far the worker's clock is ahead of the API's
    MaxReceives,  \* maxReceiveCount of the queue's redrive policy
    Faults        \* the kinds of fault this instance admits

FaultKinds == {"store", "publish", "consumer", "clear"}

Writers == {Creator} \cup Patchers \cup Encoders \cup Removers

ASSUME SyncAssumption ==
    /\ NoWriter \notin Writers
    /\ Creator \notin Patchers \cup Encoders \cup Removers
    /\ Patchers \cap Encoders = {} /\ (Patchers \cup Encoders) \cap Removers = {}
    /\ MsTicks \in Nat \ {0} /\ Skew \in Nat
    /\ MaxReceives \in Nat \ {0}
    /\ Faults \subseteq FaultKinds

\* Nat are UnixNano, always positive: zero is the absent Redis key.
NoVersion == 0

VARIABLES
    clock,      \* the API's clock: it ticks with every reading
    doc,        \* the document, by the last write in it
    updatedAt,  \* its updated_at
    wstage,     \* each writer: "idle", "stamped", "written", "publishing", "done", "failed"
    stamp,      \* the time.Now() each writer has taken
    version,    \* the correlation_version of each writer's event
    event,      \* its event: "none", "visible", "inflight", "deleted", "dead"
    receives,   \* how often it was received
    cstage,     \* where each consumer is in Handle
    cevent,     \* the event it handles
    cread,      \* the document it read
    ccur,       \* the version Commit read
    index,      \* the document in Elasticsearch
    committed,  \* the version tracker's key in Redis
    readUpTo,   \* history: highest version of an event that got to GetByID
    floor,      \* history: readUpTo when the last write landed
    landed,     \* history: the place of each write in the order of all, 0 for none
    bstage,     \* each backfill, at this video: "idle", "pending", "done"
    bcopy,      \* the document it has scanned
    passed      \* history: the index has its document from a backfill that a
                \* write had overtaken

historyVars  == <<floor, landed>>
writerVars   == <<doc, updatedAt, wstage, stamp, historyVars>>
queueVars    == <<version, event, receives>>
consumerVars == <<cstage, cevent, cread, ccur, readUpTo>>
backfillVars == <<bstage, bcopy, passed>>
searchVars   == <<index, committed, backfillVars>>
vars == <<clock, writerVars, queueVars, consumerVars, searchVars>>

TypeOK ==
    /\ clock \in Nat \ {0}
    /\ doc \in Writers \cup {NoWriter}
    /\ updatedAt \in Nat
    /\ wstage \in [Writers -> {"idle", "stamped", "written", "publishing", "done", "failed"}]
    /\ stamp \in [Writers -> Nat]
    /\ version \in [Writers -> Nat]
    /\ event \in [Writers -> {"none", "visible", "inflight", "deleted", "dead"}]
    /\ receives \in [Writers -> 0..MaxReceives]
    /\ cstage \in [Consumers -> {"idle", "check", "read", "upsert", "get", "set",
                                 "unindex", "clear", "ack"}]
    /\ cevent \in [Consumers -> Writers \cup {NoWriter}]
    /\ \A c \in Consumers : cevent[c] = NoWriter <=> cstage[c] = "idle"
    /\ cread \in [Consumers -> Writers \cup {NoWriter}]
    /\ ccur \in [Consumers -> Nat]
    /\ index \in Writers \cup {NoWriter}
    /\ committed \in Nat
    /\ readUpTo \in Nat /\ floor \in Nat
    /\ landed \in [Writers -> Nat]
    /\ bstage \in [Backfills -> {"idle", "pending", "done"}]
    /\ bcopy \in [Backfills -> Writers \cup {NoWriter}]
    /\ \A b \in Backfills : bcopy[b] # NoWriter <=> bstage[b] = "pending"
    /\ passed \in BOOLEAN

Init ==
    /\ clock = MsTicks
    /\ doc = NoWriter /\ updatedAt = NoVersion
    /\ wstage = [w \in Writers |-> "idle"]
    /\ stamp = [w \in Writers |-> NoVersion]
    /\ version = [w \in Writers |-> NoVersion]
    /\ event = [w \in Writers |-> "none"]
    /\ receives = [w \in Writers |-> 0]
    /\ cstage = [c \in Consumers |-> "idle"]
    /\ cevent = [c \in Consumers |-> NoWriter]
    /\ cread = [c \in Consumers |-> NoWriter]
    /\ ccur = [c \in Consumers |-> NoVersion]
    /\ index = NoWriter /\ committed = NoVersion
    /\ readUpTo = NoVersion /\ floor = NoVersion
    /\ landed = [w \in Writers |-> 0]
    /\ bstage = [b \in Backfills |-> "idle"]
    /\ bcopy = [b \in Backfills |-> NoWriter]
    /\ passed = FALSE

-----------------------------------------------------------------------------
(* The writers.                                                            *)

WriterTo(w, s) == wstage' = [wstage EXCEPT ![w] = s]

\* An error ends the request; only that of Upload matters to others.
Fails(w) == WriterTo(w, IF w = Creator THEN "failed" ELSE "done")

\* time.Now() of the process that w runs in: the worker's clock is another one.
Now(w) == IF w \in Encoders THEN clock + Skew ELSE clock

\* BSON dates are milliseconds.
Truncate(t) == t - (t % MsTicks)

\* The id is known once the document exists; the worker gets the job after
\* Upload is through with publishing, and none after a failed insert.
MayStart(w) ==
    CASE w = Creator       -> TRUE
      [] w \in Encoders    -> wstage[Creator] = "done"
      [] OTHER             -> wstage[Creator] \in {"publishing", "done", "failed"}

\* Create, UpdateMetadata, MarkReady and MarkFailed take the time first ...
TakeTime(w) ==
    /\ w \notin Removers
    /\ wstage[w] = "idle" /\ MayStart(w)
    /\ stamp' = [stamp EXCEPT ![w] = Now(w)]
    /\ clock' = clock + 1
    /\ WriterTo(w, "stamped")
    /\ UNCHANGED <<doc, updatedAt, historyVars, queueVars, consumerVars, searchVars>>

Lands(w) ==
    /\ doc' = w
    /\ updatedAt' = Truncate(stamp[w])
    /\ floor' = readUpTo
    /\ landed' = [landed EXCEPT ![w] = 1 + Cardinality({x \in Writers : landed[x] > 0})]

Finds(w) == w = Creator \/ doc # NoWriter
Fades == UNCHANGED <<doc, updatedAt, historyVars>>

\* ... and write afterwards.  An update of a missing document is ErrVideoNotFound
\* for a PATCH (404) and passes unnoticed for the worker.  After an error, which
\* the write may survive, only markFailed goes on to publish.
Write(w) ==
    /\ wstage[w] = "stamped"
    /\ \/ /\ Finds(w) /\ Lands(w)
          /\ WriterTo(w, IF w \in Patchers THEN "written" ELSE "publishing")
       \/ /\ ~Finds(w) /\ Fades
          /\ WriterTo(w, IF w \in Patchers THEN "done" ELSE "publishing")
       \/ /\ "store" \in Faults
          /\ Fades \/ (Finds(w) /\ Lands(w))
          /\ Fails(w) \/ (w \in Encoders /\ WriterTo(w, "publishing"))
    /\ UNCHANGED <<clock, stamp, queueVars, consumerVars, searchVars>>

\* PatchVideo reads the document back: the event gets the updated_at found,
\* perhaps that of a later write, and no event if the document is gone.
ReadBack(w) ==
    /\ wstage[w] = "written"
    /\ \/ doc = NoWriter /\ WriterTo(w, "done") /\ UNCHANGED stamp
       \/ /\ doc # NoWriter
          /\ WriterTo(w, "publishing")
          /\ stamp' = [stamp EXCEPT ![w] = updatedAt]
       \/ "store" \in Faults /\ Fails(w) /\ UNCHANGED stamp
    /\ UNCHANGED <<clock, doc, updatedAt, historyVars, queueVars, consumerVars, searchVars>>

\* DeleteByID; the request that finds nothing returns 404 and publishes nothing.
Remove(w) ==
    /\ w \in Removers
    /\ wstage[w] = "idle" /\ MayStart(w)
    /\ \/ doc = NoWriter /\ WriterTo(w, "done") /\ Fades
       \/ /\ doc # NoWriter
          /\ doc' = NoWriter /\ updatedAt' = NoVersion
          /\ floor' = readUpTo /\ UNCHANGED landed
          /\ \/ WriterTo(w, "publishing")
             \/ "store" \in Faults /\ Fails(w)
       \/ "store" \in Faults /\ Fails(w) /\ Fades
    /\ UNCHANGED <<clock, stamp, queueVars, consumerVars, searchVars>>

\* Upload and PATCH send the time of their write, DeleteVideo and the worker the
\* time of publishing.
EventVersion(w) == IF w \in Encoders \cup Removers THEN Now(w) ELSE stamp[w]

\* Publish, with its attempts; the error of the last one is only logged, and the
\* process may die before the first.
Publish(w) ==
    /\ wstage[w] = "publishing"
    /\ \/ /\ event' = [event EXCEPT ![w] = "visible"]
          /\ version' = [version EXCEPT ![w] = EventVersion(w)]
       \/ "publish" \in Faults /\ UNCHANGED <<event, version>>
    /\ clock' = IF w \in Encoders \cup Removers THEN clock + 1 ELSE clock
    /\ stamp' = [stamp EXCEPT ![w] = NoVersion]
    /\ WriterTo(w, "done")
    /\ UNCHANGED <<doc, updatedAt, historyVars, receives, consumerVars, searchVars>>

-----------------------------------------------------------------------------
(* The metadata queue.                                                     *)

\* The message leaves the queue.
Gone(w, how) ==
    /\ event' = [event EXCEPT ![w] = how]
    /\ receives' = [receives EXCEPT ![w] = 0]

\* The visibility timeout of a message not deleted; after maxReceiveCount
\* receives it goes to the dead letter queue.
VisibilityExpires(w) ==
    /\ event[w] = "inflight"
    /\ \A c \in Consumers : cevent[c] # w
    /\ \/ /\ receives[w] < MaxReceives
          /\ event' = [event EXCEPT ![w] = "visible"]
          /\ UNCHANGED receives
       \/ receives[w] = MaxReceives /\ Gone(w, "dead")
    /\ UNCHANGED <<clock, writerVars, version, consumerVars, searchVars>>

-----------------------------------------------------------------------------
(* The consumers.                                                          *)

ConsumerTo(c, s) == cstage' = [cstage EXCEPT ![c] = s]

\* Mutant: a deletion is dropped like an update if its version is stale.
ReceiveGatesDelete(c, w) ==
    /\ cstage[c] = "idle"
    /\ event[w] = "visible"
    /\ event' = [event EXCEPT ![w] = "inflight"]
    /\ receives' = [receives EXCEPT ![w] = @ + 1]
    /\ cevent' = [cevent EXCEPT ![c] = w]
    /\ ConsumerTo(c, "check")
    /\ UNCHANGED <<clock, writerVars, version, cread, ccur, readUpTo, searchVars>>

Receive(c, w) ==
    /\ cstage[c] = "idle"
    /\ event[w] = "visible"
    /\ event' = [event EXCEPT ![w] = "inflight"]
    /\ receives' = [receives EXCEPT ![w] = @ + 1]
    /\ cevent' = [cevent EXCEPT ![c] = w]
    /\ ConsumerTo(c, IF w \in Removers THEN "unindex" ELSE "check")
    /\ UNCHANGED <<clock, writerVars, version, cread, ccur, readUpTo, searchVars>>

\* ShouldApply: no key, or an older version in it.
ShouldApply(w) == committed = NoVersion \/ version[w] > committed

Check(c) ==
    /\ cstage[c] = "check"
    /\ ConsumerTo(c, IF ShouldApply(cevent[c]) THEN "read" ELSE "ack")
    /\ UNCHANGED <<clock, writerVars, queueVars, cevent, cread, ccur, readUpTo, searchVars>>

\* Mutant: the event brings the document with it.
ReadFromEvent(c) ==
    /\ cstage[c] = "read"
    /\ cread' = [cread EXCEPT ![c] = cevent[c]]
    /\ readUpTo' = IF version[cevent[c]] > readUpTo THEN version[cevent[c]] ELSE readUpTo
    /\ ConsumerTo(c, IF doc = NoWriter THEN "unindex" ELSE "upsert")
    /\ UNCHANGED <<clock, writerVars, queueVars, cevent, ccur, searchVars>>

\* Store.GetByID: the event only says which document to look at.
Read(c) ==
    /\ cstage[c] = "read"
    /\ cread' = [cread EXCEPT ![c] = doc]
    /\ readUpTo' = IF version[cevent[c]] > readUpTo THEN version[cevent[c]] ELSE readUpTo
    /\ ConsumerTo(c, IF doc = NoWriter THEN "unindex" ELSE "upsert")
    /\ UNCHANGED <<clock, writerVars, queueVars, cevent, ccur, searchVars>>

Upsert(c) ==
    /\ cstage[c] = "upsert"
    /\ index' = cread[c] /\ passed' = FALSE
    /\ cread' = [cread EXCEPT ![c] = NoWriter]
    /\ ConsumerTo(c, "get")
    /\ UNCHANGED <<clock, writerVars, queueVars, cevent, ccur, readUpTo, committed, bstage, bcopy>>

\* Commit: GET, then SET unless a higher version was found.  An error of this
\* GET is ignored, and reads as no version.
CommitGet(c) ==
    /\ cstage[c] = "get"
    /\ \/ ccur' = [ccur EXCEPT ![c] = committed]
       \/ "consumer" \in Faults /\ ccur' = [ccur EXCEPT ![c] = NoVersion]
    /\ ConsumerTo(c, "set")
    /\ UNCHANGED <<clock, writerVars, queueVars, cevent, cread, readUpTo, searchVars>>

CommitSet(c) ==
    /\ cstage[c] = "set"
    /\ committed' = IF version[cevent[c]] >= ccur[c] THEN version[cevent[c]] ELSE committed
    /\ ccur' = [ccur EXCEPT ![c] = NoVersion]
    /\ ConsumerTo(c, "ack")
    /\ UNCHANGED <<clock, writerVars, queueVars, cevent, cread, readUpTo, index, backfillVars>>

Unindex(c) ==
    /\ cstage[c] = "unindex"
    /\ index' = NoWriter /\ passed' = FALSE
    /\ ConsumerTo(c, "clear")
    /\ UNCHANGED <<clock, writerVars, queueVars, cevent, cread, ccur, readUpTo, committed,
                   bstage, bcopy>>

\* The error of Clear is ignored.
Clear(c) ==
    /\ cstage[c] = "clear"
    /\ \/ committed' = NoVersion
       \/ "clear" \in Faults /\ UNCHANGED committed
    /\ ConsumerTo(c, "ack")
    /\ UNCHANGED <<clock, writerVars, queueVars, cevent, cread, ccur, readUpTo, index,
                   backfillVars>>

\* Handle is over: the consumer polls again.
Forget(c) ==
    /\ ConsumerTo(c, "idle")
    /\ cevent' = [cevent EXCEPT ![c] = NoWriter]
    /\ cread' = [cread EXCEPT ![c] = NoWriter]
    /\ ccur' = [ccur EXCEPT ![c] = NoVersion]
    /\ UNCHANGED readUpTo

\* Mutant: the event is deleted but the consumer still holds it.
AckKeepsEvent(c) ==
    /\ cstage[c] = "ack"
    /\ event' = [event EXCEPT ![cevent[c]] = "deleted"]
    /\ ConsumerTo(c, "idle")
    /\ UNCHANGED <<clock, writerVars, version, receives, cevent, cread, ccur, readUpTo, searchVars>>

\* DeleteMessage, only after Handle returned without an error.
Ack(c) ==
    /\ cstage[c] = "ack"
    /\ Gone(cevent[c], "deleted")
    /\ Forget(c)
    /\ UNCHANGED <<clock, writerVars, version, searchVars>>

\* Mutant: the message is deleted after an error too, as encode jobs are.
ConsumerFailsAndAcks(c) ==
    /\ "consumer" \in Faults
    /\ cstage[c] # "idle"
    /\ Gone(cevent[c], "deleted")
    /\ Forget(c)
    /\ UNCHANGED <<clock, writerVars, version, searchVars>>

\* An error anywhere in Handle or of DeleteMessage, or the process dies: the
\* message stays.
ConsumerFails(c) ==
    /\ "consumer" \in Faults
    /\ cstage[c] # "idle"
    /\ Forget(c)
    /\ UNCHANGED <<clock, writerVars, queueVars, searchVars>>

-----------------------------------------------------------------------------
(* The backfill.                                                           *)

BackfillTo(b, s, d) == bstage' = [bstage EXCEPT ![b] = s] /\ bcopy' = [bcopy EXCEPT ![b] = d]

\* The scan of the collection comes to the video, or finds none; what it found
\* waits for its bulk request to fill.
Scan(b) ==
    /\ bstage[b] = "idle"
    /\ BackfillTo(b, IF doc = NoWriter THEN "done" ELSE "pending", doc)
    /\ UNCHANGED <<clock, writerVars, queueVars, consumerVars, index, committed, passed>>

\* BulkUpsertSearchDocs asks neither the document nor the version tracker.  An
\* error, after which the item may be indexed or not, ends the tool.
BulkIndex(b) ==
    /\ bstage[b] = "pending"
    /\ BackfillTo(b, "done", NoWriter)
    /\ \/ index' = bcopy[b] /\ passed' = (bcopy[b] # doc)
       \/ "consumer" \in Faults /\ UNCHANGED <<index, passed>>
    /\ UNCHANGED <<clock, writerVars, queueVars, consumerVars, committed>>

-----------------------------------------------------------------------------
WriterStep(w) == TakeTime(w) \/ Write(w) \/ ReadBack(w) \/ Remove(w) \/ Publish(w)

HandleStep(c) ==
    Check(c) \/ Read(c) \/ Upsert(c) \/ CommitGet(c) \/ CommitSet(c)
        \/ Unindex(c) \/ Clear(c) \/ Ack(c)

Next ==
    \/ \E w \in Writers : WriterStep(w) \/ VisibilityExpires(w)
    \/ \E c \in Consumers :
        HandleStep(c) \/ ConsumerFails(c) \/ \E w \in Writers : Receive(c, w)
    \/ \E b \in Backfills : Scan(b) \/ BulkIndex(b)

Spec == Init /\ [][Next]_vars

-----------------------------------------------------------------------------
(* Properties.                                                             *)

\* Nothing is under way: every request has returned or was never made, and no
\* event is waiting or being handled.
Quiet ==
    /\ \A w \in Writers : wstage[w] \in {"idle", "done", "failed"}
    /\ \A w \in Writers : event[w] \notin {"visible", "inflight"}

OneConsumer == \A c, d \in Consumers : c = d

\* When nothing is under way and the event of the last write was handled, the
\* index holds the document as it is, unless that event carries a version no
\* higher than one with which the consumer had read the document before the
\* write, and unless a backfill then brought back a document it had scanned
\* earlier.  Holds for one consumer, whatever becomes of the other events, with
\* events reordered, delivered again and failing half-way.
FreshUnlessOutstamped ==
    Quiet /\ OneConsumer /\ ~passed /\ doc # NoWriter =>
        (event[doc] = "deleted" /\ version[doc] > floor => index = doc)

\* A deleted video whose event was handled leaves the index, whatever the
\* clocks say: a late event of an earlier write finds no document and removes
\* what it may have left, a backfill included, unless that had scanned the
\* document before it went and came last.
DeletedLeavesIndex ==
    Quiet /\ OneConsumer /\ ~passed /\ doc = NoWriter =>
        ((\E w \in Removers : event[w] = "deleted") => index = NoWriter)

\* The index never goes back to an earlier state of a document, except to
\* none: events are reordered and repeated, but each only makes the consumer
\* read the document again.  A backfill beside the consumer ends this.
IndexOnlyAdvances ==
    [][OneConsumer /\ (\A b \in Backfills : bstage'[b] = "idle") /\ index' # NoWriter /\ index # NoWriter
        => landed[index'] >= landed[index]]_index

\* When nothing is under way the index holds the document as it is.
IndexFollowsStore == Quiet => index = doc
=============================================================================
