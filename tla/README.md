# Formal model of the video platform

TLA+ modules, TLC runs and machine-checked proofs about the services under
`src/`: the API, the encode worker, the stores and queues between them, and the
pages of the web client that watch a video and search.
Every definition is translated from the code. `PROJECT.json` maps each one to
its lines, lists the hazards of the code with the properties that watch them,
and pairs every property with a mutant of the code that breaks it.

## 1. Inventory of the system

| Component | Code | State it keeps | Operations |
|---|---|---|---|
| Upload | `api/internal/handlers/handlers.go` `Upload` | the request's progress | PUT of the original, insert, metadata event, realtime push, encode job |
| Delete | same file, `DeleteVideo` | a copy of the document, read first | objects deleted one by one, cache DEL, document, event |
| Patch | same file, `PatchVideo` | nothing | update, read back, cache DEL, event, catalog push |
| Reads | `GetVideo`, `ListVideos`, `Watch`, `SearchVideos` | Redis `video:<id>` entries (`internal/cache`) | read through the cache, fill |
| Encode worker pool | `worker/cmd/worker/encode_worker.go` | `jobQueue`, `idleWorkerQueue`, inboxes, wait groups | poll, dispatch, work, delete message, stop |
| Encode processor | `internal/worker/processor.go`, `ffmpeg.go` | temporary directory | download, encode, upload files, `MarkReady` / `MarkFailed`, announce |
| Video store | `internal/store/mongo.go` | collection `videos` | `Create`, `UpdateMetadata`, `MarkReady`, `MarkFailed`, `DeleteByID`, reads |
| Metadata events | `internal/videometaqueue` | an SQS queue with a dead letter queue | `Publish`, five attempts |
| Search consumer | `internal/videosearchsync`, `worker/cmd/worker/index_consumer.go` | index documents, one version per video in Redis | `Handle`: check version, read Mongo, upsert or delete, commit |
| Search query | `internal/search/esclient/search.go`, `internal/cache/cached_videosearch.go` | cached answers with a TTL | query |
| Backfill | `cmd/search-backfill` | none | scan Mongo, bulk upsert |
| Realtime | `internal/ws`, `internal/wsevents` | topics and senders of the hub, limits of each connection | subscribe, unsubscribe, publish, Redis pub/sub bridge |
| Web client | `web/src` | React state | polling, WebSocket feed, search box, upload form |
| Others | `internal/tracing`, `applog`, `config`, `awsclient`, `streamutil` | none that others read | |

How they interact. The API and the worker share no memory. They meet in S3 (two
buckets), in one MongoDB document per video, in two SQS queues (encode jobs,
metadata events), in Redis (cache entries, committed versions, pub/sub) and in
Elasticsearch. No operation spans two of these stores, there is no transaction,
and SQS delivers at least once in any order. Inside the worker process the
goroutines meet in Go channels and in one context.

Hard behaviours, and the property each component owes:

* **Write path** (upload, queue, workers, delete): any call fails with or without
  effect; a job is delivered twice, or its holder dies; DELETE runs against a
  running encode. A *ready* document must be playable, an accepted upload must
  settle, a deleted video must stay deleted, pushes must not run ahead of the store.
* **Pool**: four kinds of goroutine and a cancellation between any two steps. No
  job lost or doubled, no message deleted unhandled, no goroutine stuck.
* **Search index**: versions from two clocks, taken before the write and cut to
  milliseconds; reordered and repeated events; non-atomic commit. The index must
  follow the document, and deleted videos must leave it.
* **Video cache**: a fill races the DEL of a writer, DELETE's DEL comes before the document
  goes, errors skip a DEL. The entry must be the document or nothing, away from exactly these.
* **Search cache**: entries are shared by requests written differently, filled late, and
  deleted by nobody. An answer must be of the page asked for, and not too old.
* **Realtime**: two sets of topics under two mutexes, a fan-out without lock, connections
  that break in the middle. A confirmed subscriber must get its push, in order; limits
  must neither leak nor refuse too early.
* **Web feed**: lost pushes, answers out of order and from a stale entry, an old push
  shadowing polls. The page must not run ahead of Mongo, nor go back, and must settle.
* **Home search**: two requests for each run of the debounced search, all of them overtaking
  each other. What is shown must be of the words in the box, and the skeleton be there while they are looked for.

The list with lines is `hazards` in `PROJECT.json`.

## 2. Plan

| Order | Module | Contents | State |
|---|---|---|---|
| 1 | `VideoPipeline` | write path: Upload, encode queue, processVideo, DeleteVideo | done |
| 2 | `EncodePool`, `EncodeService` | goroutines and channels of the worker process; the service they implement | done |
| 3 | `SearchSync` | writers, metadata queue, consumer, version tracker, backfill | done |
| 4 | `VideoLifecycle` | abstract life of a document, which `VideoPipeline` implements | done |
| 5 | `VideoCache` | `GetVideo`'s fill against PATCH, DELETE and the worker | done |
| 6 | `SearchCache` | pagination, keys and TTL of cached searches | done |
| 7 | `WsHub`, `WsLimits` | connections, hub, bridge; limits of topics | done |
| 8 | `WatchFeed` | polls and pushes merged by the web client, on top of `VideoCache` | done |
| 9 | `HomeSearch` | the debounced search box and its sequence number | done |
| 10 | `*Proofs` | theorems for every value of the constants | every safety property of a passing run |
| 11 | several consumers in `SearchSync`; the upload queue page | non-atomic commit; loads that overtake each other | left |

Composition. `WatchFeed` EXTENDS `VideoCache`: the page reads through the cache while the
worker writes and pushes. `VideoPipeline` implements `VideoLifecycle` (an `INSTANCE` with
`life` for its state), and `EncodePool` implements `EncodeService` (with `serving` for its
workers' jobs). `ServingMC` puts the two caches of the API, the search box, the hub and the limits
side by side, as machines that share no state and of which one (`atWork`) takes the steps of a behaviour:
`WsHub` lets any subscribe be refused, and `WsLimits` says when one is. `VideoPipeline` treats the pool as
workers that receive one job at a time; `EncodeService` is what stands behind that (each
delivery reaches one worker once, and its message is deleted only after the handler ran).
`SearchSync` and `VideoCache` take the writers of a document apart in a finer grain (time
taken, write, event; write, push, DEL) and leave out what `VideoPipeline` is about. Between
`WsHub` and `WatchFeed` lies one assumption: a push that was published may be lost, but
those that arrive keep their order, which is what `PushOrder` says of the hub.

## 3. Modules and how they correspond to the code

### VideoPipeline
One action per call that leaves the process. `upload[v]` is the program counter
of the `Upload` request of `v` (`store`, `insert`, `announce`, `enqueue`, then
`accepted` for 200 or `rejected` for any error), `stage[w]` and `job[w]` that of
`processVideo` in worker `w`, `dstage[d]` that of `DeleteVideo`. `status` and
`prefix` are the fields of the document, `raw` and `encoded` the buckets,
`message` the encode job in SQS, `told` the last status handed to the realtime bridge.
The history `unsaved` has the videos of which an update of `markFailed` was lost.

* A call fails if its kind is in the constant `Faults`. A failed write may have
  landed, so both outcomes are there (`encoded' \in {encoded, put}`).
* `HlsFiles` are the files of one encode in the order of `filepath.WalkDir`:
  the directories `360p` and `720p`, then `master.m3u8`, then `thumbnail.jpg`.
  `Master` is thus the last but one, and all before it is what it refers to.
* `MarkReady`/`MarkFailed` update by id whatever the status is, and do nothing
  without a document, as `UpdateOne` does. `processVideo` returns an error of
  `MarkReady` with no `markFailed`; `markFailed` drops the error of its update and
  announces *failed* all the same. `SettledPushIsStored` confines what that does: only a video in
  `unsaved` can have an announced end and a document still in processing, and the end is *failed*.
* `Ack` follows success and error alike, as `processJob` does. With a slow encode or
  a failed delete the message may survive it.
* `DeleteVideo` decides from the copy it read (`dprefix`); errors of
  `DeleteObject` are ignored, one of the listing ends the request.
* `WorkerCrash` loses every job in hand; the messages come back when they expire.
* The metadata event of each of these handlers is in `SearchSync`, the cache DEL in
  `VideoCache`, the pushes' way to the browsers in `WsHub`.

### VideoLifecycle
What all of this does to a document: *none*, *processing*, then *ready* or *failed*, then
*gone* for ever. `Resettle`, from one end of an encode to the other, is there only where
jobs are delivered again (`Redelivered`). `VideoPipeline!ImplementsLifecycle` maps `life` to it: the
status, and *gone* once a DELETE has begun on a video with no document.

### EncodePool
The poller (`runEncodeWorker`), the dispatcher and the workers as three program
counters, `idle` for `idleWorkerQueue` (a channel of inboxes), and for the order
of jobs three counters: `taken <= queued <= Len(deliveries)`. Jobs are handed on in
one order, so the poller's batch is what lies between `queued` and
`Len(deliveries)`, and the buffer of `jobQueue` what lies between `taken` and
`queued`. `HandOver` is a rendezvous: an unbuffered channel needs its receiver.
A cancelled `select` may still take the other case, so each stop is an action
beside the ordinary one. An inbox left in `idle` by a worker that returned stays there.

### EncodeService
The same process with its poller, dispatcher and channels left out: SQS delivers, a worker that is
free begins the next delivery, ends it, and the message may then be deleted, or come back when
its time is up. `EncodePool!ImplementsService` maps `serving` to the jobs of workers at
`working`; what lies in batch, channel and hand is deliveries not yet begun.

### SearchSync
One video (videos share nothing here). A writer makes one write: `TakeTime`,
`Write`, for a PATCH `ReadBack`, then `Publish`. The name of the writer stands for
the document's contents after its write. `clock` ticks with every reading;
`Truncate` is BSON's millisecond; `Now(w)` is the clock of the process `w` runs in, that of the worker `Skew`
ahead, for stamps (`MarkReady` and `MarkFailed` run there) and versions alike. The version of
an event is the stamp (Upload), the `updated_at` read back (PATCH), or a new
reading (worker, DELETE), as in `NewEvent`. A store call may fail with or without
effect, and then only `markFailed` still publishes. A consumer goes through
`Handle` in the order of the code; any error leaves the message, which comes back
until `MaxReceives`. `Commit` is two steps, and an error of its GET counts as no version.
A backfill is `Scan` (the cursor comes to the video) and `BulkIndex` (its batch is full or
the scan over), with anything in between: it asks neither the document again nor the
tracker. `passed` remembers that it brought back a document a write had overtaken.

### VideoCache
One document, its Redis entry, and every call to either as a step. `wstage` is the place
of a PATCH (`idle`, `written`, `del`), of an encode (`idle`, `push`, `del`) or of a DELETE
(`idle`, `del`, `delete`), and `rstage` that of a GET. A call of Redis may fail (all of them
are ignored); a call of Mongo by a writer may fail with effect, after which PATCH and
`MarkReady` return with no DEL, while `markFailed` goes on. Three history variables say when the
code leaves an entry that is not the document: `crossed` (a GET has read, then a writer
wrote, or it read between a DELETE's DEL and its `DeleteByID`), `tainted` (such a GET
filled the entry) and `missed` (a DEL failed or was skipped).

### SearchCache
`From` and `Size` are `ParseSearchPagination` with the same defaults and caps again in the client,
`Key` the normalized key, `SearchPublished` what is sent to Elasticsearch and so what the
answer is of. The words of a query stand for what the analyzer makes of it, the spelling for
case and blanks. `Tick` ages entries and answers; a request may spend `MaxDelay` ticks at a step.

### WsHub and WsLimits
`stage[c]` is where the goroutine of a connection is: each critical section of `connState.mu`
and of `Hub.mu` is a step, the replies too. `topics[c]` is the connection's set, `hub` and
`senders` the hub's two maps. `Break` is a peer that takes no more writes, `StopReading` a read
deadline or a message that ends `serveConn`. A push is `queued` by `Bridge.Publish`, or lost there
when it goes by Redis; one goroutine takes them from Redis (`MayTake`), while without Redis
each publisher fans out itself; `Take` copies the subscribers, `Send` writes to one. `owed[m]` is
history: who had its *subscribed* when the push was published and has not given up since.
`HandleSubscribe` lets the limits refuse at will. `WsLimits` has the limits themselves: one
connection's requests, which its goroutine serves one by one, and the clock between them.
`TrySubscribe` and `RemoveTopic` are functions of `connState` (its topics and the times of its
subscribes, of which the loop over `subTimes` cuts the stale ones off, but only when the topics
leave room); `history` keeps every request with its time and answer, and the properties
compare the answers with it.

### WatchFeed
Each refresh asks GET /videos/{id} (the steps of `VideoCache`) and GET /watch (one read of Mongo)
and applies both answers together (`Apply`, the `Promise.all`) or nothing. Several refreshes may be
under way. `wsWatch` is the last push, `Watch` and `EffectiveVideoStatus` the merge the views
show, `PlayerShown` the condition for a player. The first push may be Upload's *processing*.

### HomeSearch
Each change of the trimmed words is a run of the effect with its own number, `searchSeq` the last
one. `runStage[r]` is where a run is: its timer, GET /videos/search, then the GETs of the videos it
found, which `Promise.all` makes one answer that cannot fail. `SetQuery` clears the timer of the
run before, but not its requests; `Late` is their answer. Rows, total and error are the number
of the run that set them, 0 for none.

### MC modules
They give names to fault sets, symmetries, bounds and the requests of searches; the `.cfg`
files give the constants. Operators commented *Mutant* are
plausible errors of the definition that follows them; nothing uses them.

## 4. Runs

| Run | Bounds | Shows |
|---|---|---|
| `PipelineFaults` | 1 video, 2 workers, 1 DELETE, 3 files, all faults, 1 crash; 1.78M states | `ReadyIsPlayable`, `ManifestIsLast`, `NoResurrection`, `ProcessingPushIsFirst`, `SettledPushIsStored`, `ImplementsLifecycle` (with redelivery) |
| `PipelineSettles` | the same with 2 files, faults that end in a stored status; fair; 206k states | `Settles`, `JobUntilSettled` |
| `PipelineOnce` | 2 workers, 2 DELETEs, each job delivered once, all other faults but DeleteObject's; 2.6k states | `DeleteOfReadyIsClean`, `ReadyIsTerminal` |
| `PipelineSilent` | 1 worker, only MarkReady fails | `Settles` **violated** |
| `PipelineRedelivery` | 2 workers, slow encode, encode fails | `ReadyIsTerminal` **violated** |
| `PoolRuns` | 2 messages, 3 deliveries, 2 workers, buffer 1, batch 2; fair; 112k states | `HandOffReady`, `RegisterNeverBlocks`, `JobsAccounted`, `DeletedWasHandled`, `ImplementsService`, `EveryJobHandled`, `WorkersStop` |
| `PoolShutdown` | 1 message, 1 worker; fair | `ShutdownCompletes` **violated** |
| `SearchFollows` | create, PATCH, encode, DELETE, backfill, 1 consumer, 2 ticks per ms, skew 1, 2 receives, all faults; `TwoWait`, `BackfillBesideOne`; 2.2M states | `FreshUnlessOutstamped`, `DeletedLeavesIndex`, `IndexOnlyAdvances` |
| `SearchStale` | create and 2 PATCHes, no fault | `IndexFollowsStore` **violated** |
| `Serving` | cache: 2 PATCHes, 1 encode, 1 DELETE, 2 GETs, all faults; search: 2 searches of 5 requests, TTL 2, delay 1; box: 5 runs for 2 queries and none; hub: 2 connections, 1 video and the catalog, 2 pushes, with and without Redis; limits: 1 connection, 2 topics, 1 place, 2 subscribes per window of 1, 8 requests and ticks; 1.65M states | `CacheCoherent`, `DeletedHasNoEntry`; `AnswersTheRequest`, `AnswerIsRecent`; `ResultsAreOfTheQuery`; `HubMatchesConnections`, `ConfirmedIsServed`, `PushOrder`; `AnswersAreWarranted`, `CapBeforeRate` |
| `WatchPage` | 1 encode, 2 refreshes at a time, Mongo errors of the worker; fair; 230k states | `ReadyIsStored`, `EndOfEncodeSticks`, `PageSettles`, `PlayerUnlessMissed` |
| `PlayerMissed` | 1 encode, 1 refresh at a time, no fault but lost pushes; fair | `PlayerMounts` **violated** |

The runs of the pipeline's faults, the pool, the index, the page and of what serves it also check the type
invariant of their module (`HubTypeOK` for `WsHub`). `LimitsTypeOK`, `HomeTypeOK` and `OneWorkerPerJob` (which `ImplementsService` implies)
are proved and in no run.

All runs have `CHECK_DEADLOCK FALSE`: nobody is obliged to upload, patch or delete,
and a stopped process stays stopped, so ends without a successor are legal. That no
goroutine or job hangs is said by the liveness properties instead.

Why the bounds are enough. One video, since no action touches two; two workers
are what a redelivery needs, two DELETEs what overlapping requests need. Three
files are a segment, the master and a thumbnail; with two the properties of
`PipelineSettles` see the same and liveness is affordable. One crash with two
workers, each of which may hold the job, covers a crash during a first or
second delivery. In the pool, buffer 1 and batch 2 make the channel full and
the batch pending at the same time, three deliveries make a worker come round again and one message
come twice. In `SearchSync` each kind of writer occurs once, two ticks per
millisecond make truncation matter, and two receives are a retry and a dead letter. Its
two constraints cut the product, not a case: `TwoWait` leaves any two events to reorder, and
`BackfillBesideOne` the backfill with one kind of writer besides Upload at a time. In the cache two
GETs are a stale fill and one that hits it, two PATCHes a read-back that sees another's write;
the machines of `Serving` share no key and no request, so one of them is at work at a
time. The search's requests are two spellings, numbers absent, negative, zero and too
large, another page and a query of blanks; with TTL 2 and delay 1 an entry is filled late over
a newer one, hit and expires. Two connections are one that is served and one that
disturbs it, two pushes are an order. Eight requests and ticks fill, prune and refill the window
with a topic given up in between. Two refreshes are enough to overtake each other; five runs of the
search have one in its timer and two others with their answers under way, with the box emptied
between.

Bounds that are of the model, not of the code: `MaxCrashes`, `MaxDeliveries`,
`MaxReceives` (5 in `init-localstack.sh`), `QueueCap` (32), `IdleCap` and the
workers (3), `BatchSize` (10), `HlsFileCount`, `Pushes`, `ScriptLength`, `MaxRuns`, the limits of a
connection (32 topics, 40 subscribes in 10 s), `DefaultSize` (20) and `MaxSize` (50), `TTL`, `MaxDelay`. The theorems
below hold for all those of their modules.

Fairness. `VideoPipeline`: a worker finishes the job it holds (`ffmpeg` and every
store call return), some worker polls a visible message in the end, and SQS makes a hidden
message visible again. Uploads, DELETEs and faults are never forced. Weak fairness on
the whole of `WorkStep(w)` leaves open which outcome a call has. `EncodePool`: every
goroutine runs when it can and `HandleMessage` returns; nothing forces a
receive or a cancellation. `WatchFeed`: the polling interval keeps firing, a GET
that was sent is answered, GET /watch does not fail for ever (strong fairness of `WatchRead`), answers
are applied, and the entry expires (its TTL is 300 s unless configured otherwise; with TTL 0 an entry that a late fill
left stays, and so does what the page reads). No writer is forced to go on and no push to arrive.
`SearchSync`, `VideoCache`, `SearchCache`, `HomeSearch`, `WsHub` and `WsLimits` claim no liveness; that the
skeleton of a search goes is there as a safety property: it is shown only while the last run is under way.

## 5. What the code does otherwise than it says

1. **Shutdown can hang** (`PoolShutdown`). `workerCh <- job` in the dispatcher
   (`encode_worker.go:89`) has no `ctx.Done()` case. Taken the inbox, cancelled,
   worker returned: the send never ends, nor do `pool.Wait` and `wg.Wait` in `main.go:132`.
2. **An error of `MarkReady` leaves *processing* for ever** (`PipelineSilent`):
   `processor.go:195` returns without `markFailed`, and the message is deleted.
   `docs/overview/02-upload-and-encoding.md` has every error end in `MarkFailed`.
3. **A ready video can become *failed*** (`PipelineRedelivery`): an encode longer than
   300 s is delivered again, and `MarkFailed` does not look at the status.
   `ReadyIsPlayable` still holds: the files are never harmed, only the status.
4. **The index can stay behind** (`SearchStale`): versions are times taken before
   the write. `FreshUnlessOutstamped` says exactly when it does not happen: when
   the last write's event has a version above every event with which the consumer had read
   the document before that write.

5. **A missed push keeps the player away** (`PlayerMissed`). `useVideoWatchFeed.ts:131` prefers the last
   push to every later poll. When *processing* was the last one to arrive, the polls bring the manifest
   again and again, the badge turns to ready (`PageSettles`), and the player does not appear until the page is
   loaded again. `docs/overview/05-realtime-and-status.md:69` promises to "fall back to
   polling if messages are missed", line 8 the player "as soon as the manifest is available".
   `PlayerUnlessMissed` says that nothing else keeps it away: with no push, or with the push of the end,
   the player appears whatever is late or lost.

One more thing is no contradiction of a text, and a property states it as its exception:
`CacheCoherent` names the entries that are left stale until their TTL.

## 6. Proofs

Checked by TLAPS for any sets of videos, workers, requests, messages, for any
capacities, any numbers of readers, connections and pushes and any `Faults`, from the named
assumptions of the modules (sentinels are not members, sets of writers are disjoint, at least two
files, capacities not zero) and nothing else.

* `VideoPipelineProofs!TypeCorrect`: `TypeOK` is inductive. `HasJob` and
  `WorkerGoesOn` say that a worker at work holds a job and keeps it.
* `VideoPipelineProofs!ReadyPlayable` and `ManifestLast`. `ReadyIsPlayable` is not
  inductive: nothing in it says that the files are there when `MarkReady` runs.
  `PlayableInv` adds what a walk has behind it (`WalkBehind`: all files before
  `next` are stored; `WalkDone`: at `mark_ready` all are) and that whoever deletes is
  known (`DeletersKnown`), which confines every loss of an object or a document to
  videos in `deleting`. `ManifestIsLast` follows from `WalkBehind` at the moment `next` is
  the master. The lemmas `PlayableQuiet` and `PlayableWorkQuiet` dispose of all steps
  that put and delete nothing.
* `EncodePoolProofs!TypeCorrect` with `BatchLeft` (a pushing poller has a batch).
* `EncodePoolProofs!HandOffIsReady`. Being registered once is not inductive without
  knowing that a registered worker waits (`IdleWaits`), that a chosen one is
  registered nowhere and waits (`ChosenWaits`), or has left after the cancellation,
  which is the very case in which finding 1 strikes.
* `EncodePoolProofs!DeletedIsHandled`. A worker's job is a delivery
  (`JobIsDelivery`) and at `acking` a handled one (`AckIsHandled`).
* `EncodePoolProofs!AllAccounted` and `NotTwice`. Jobs are handed over in the order they were taken, so
  the one in the dispatcher's hand is above every job at a worker or handled (`AllBehind`) and no
  worker has it yet.
* `EncodePoolProofs!RegisterRoom`, for a finite set of workers and an `idleWorkerQueue` with room for
  all of them: the registered ones are different and wait, so beside the worker that registers there are
  fewer of them than workers.
* `VideoLifecycleProofs!PipelineImplementsLifecycle`, the refinement. `LifeInv` adds to the types
  what makes each step a step of the abstract life: a video not yet inserted has no document and
  nobody deletes it (`NotYetThere`), and without redelivery a message in flight is with exactly one
  worker (`HeldOnce`) and no end of the encode is stored before the message is received, nor while its
  worker has still to write one (`SettledOnce`). `DeletedStaysDeleted` and
  `ReadyStaysReady` (without redelivery) come from the same invariant.
* `VideoLifecycleProofs!JobKept`, `PushAfterStore`, `ProcessingPushedFirst`. `JobInv` follows the job from
  `enqueue` to `Ack`: until Upload has sent it no worker has it and no end was announced (`SentLast`),
  a status is stored before the worker announces it, for each video whose updates of `markFailed` were not lost
  (`StoredFirst`; with `mark_failed` not among the faults none are, `NoneLost`), and without silent faults
  before the message is deleted (`StoredBeforeAck`). `PushAfterStore` thus holds for any faults: what `markFailed`
  loses of one video never shows in the pushes of another.
* `VideoCacheProofs!Coherent` and `DeletedLeavesNoEntry`. `CacheInv` says besides that a GET about to fill
  holds the document as it is or is in `crossed` (`CopyFresh`), and that between a DELETE's DEL and its
  `DeleteByID` only such a GET can fill (`LeavingHasNoEntry`).
* `WsHubProofs!BooksAgree` (`BookInv`: the topic under way is the connection's, `AboutKnown`),
  `ConfirmedServed` and `InOrder`. `OwedWaits` is the heart of the second: whoever is owed a push is up, has
  its topic in its own set and, while the fan-out runs, is among its targets. It follows from
  `BooksAgree` at the moment `Take` copies the subscribers. `OneFanout` gives the order: with Redis a
  push is fanned out only when all earlier ones are done, so no connection has got a later one.

* `VideoLifecycleProofs!DeleteIsClean`. With one delivery per job and no call failing, a video that has
  its prefix is `Through`: its message was received and its worker is past the walk, so nobody will put
  another object (`PrefixThrough`). It stays so, also after a DELETE has read the prefix, and
  `TakenApart` says how far that DELETE has come: original gone, what is left of the encode listed.
* `SearchSyncProofs`, for any writers, skew and faults. `OrderInv`: a writer writes once, the
  document is the last write of all, and what the consumer has read is no older than what is
  indexed; so `NeverBack`. `DeleteInv`: an event in the queue says that the insert is past
  (`BegunFirst`), hence a deletion whose event exists leaves the document away for good, and the
  consumer that handles it finds none; so `HandledIsGone`. `FreshInv`: no version got past the read
  above `readUpTo` (`UpTo`), a copy that a write has overtaken was read for an event at or below the
  `floor` of that write (`OvertakenBelow`), so any version above it, in hand or committed, has brought
  the document itself (`AboveFloorHas`); so `HandledIsFresh`. `TypeCorrect` needs that an event
  exists only after its writer is done, and the finiteness of the set of writes that have landed.
* `SearchCacheProofs!OwnAnswer` and `RecentAnswer`, of `SearchInit /\ [][SearchNext]_searchVars`.
  `EntriesRight`: an entry has the answer for every request of its key, as old as TTL and the
  delay of its fill less what it has left; `RequestsRight` the same for what a request has in hand.

* `SearchCacheProofs!ResultsOfTheQuery`. `LastRun` says where the run that counts has got to: on its way it
  shows no error, waiting for the videos it has set its own total, and it ends with all of one
  answer or with its error alone. Steps of other runs change nothing of it, for `Late` comes first.
* `EncodePoolProofs!PoolImplementsService`, the second refinement. Each step of a goroutine maps to a step of
  `EncodeService` or to a stutter. The hard one is `HandOver`, which must begin the first delivery not
  begun: with `TakenBegan` (all that was taken has begun, but what is in the hand) and `AllBehind` from
  above, what has begun is `1..(taken - 1)`. The job a stopping dispatcher loses is then the last it took,
  and nothing begins after it.
* `WatchFeedProofs!FeedReadsCoherent` rests on a refinement of its own, `FeedImplementsCache`: whatever the page
  does, document and entry go through a behaviour of `VideoCache`, so its theorems hold here.
* `WatchFeedProofs!ReadyStored`. `ReadyInv` follows *ready* to every place it can be in (entry, copies, answers,
  page, pushes, a worker about to push: `SomeReady`) and says that Mongo has it then; it needs that an
  encode that has not ended finds the document in processing (`SettledByAll`). The hypothesis
  `OneEncode` is the property's own.
* `WatchFeedProofs!EndSticks`. `EndIsLast`: the push of an end is the last there is, and once it is on the page
  no other comes; the merge then shows it whatever the polls bring.
* `WsHubProofs!AnswersWarranted` and `CapFirst`, for any limits and window. `subTimes` says less than the
  history and more than the window, being pruned only on the way to the rate. The invariant is an injection
  of its times into the new subscribes of the history, with every one of the window hit (`Tracks`), in the order of
  the clock (`Ascending`), so that what the loop leaves is exactly the window (`RecentIsSuffix`). For
  `CapFirst`: with no topic given up each new subscribe is another topic held, so the cap, not above
  the rate, is met first.

Only model-checked are the liveness properties (`Settles`, `EveryJobHandled`, `WorkersStop`,
`PageSettles`, `PlayerUnlessMissed`), which the prover cannot do, and what the runs refute.
Every invariant and action property of a passing run, and both refinements, are proved.

## 7. Not modelled

The upload queue page, which loads its list every minute and at each catalog push without a sequence
number. `ListVideos`: one read. Left out for good: tracing, logging,
configuration and AWS client set-up (no state others read), FFmpeg's arguments (an
encode is one step that yields all files or fails), the Elasticsearch query (data),
the streaming proxy (path checks and a copy), UI markup. `NoopVersionTracker` and a nil Redis
client are not what the worker installs. Listings of more than one page of S3
keys are taken as one page. An SQS message that outlives its consumer's
120 s is treated like one whose consumer failed. WebSocket framing, origins, the token, and the timing of
pings are not modelled; a dead peer shows as a read or write that fails. `wsLive` only
chooses the polling interval. Several replicas of the consumer would break what is said of
one, since `Commit` is a GET and a SET; the properties say `OneConsumer`.
