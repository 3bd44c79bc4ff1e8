----------------------------- MODULE VideoCache -----------------------------
(***************************************************************************)
(* The Redis entry video:<id> of one video against its Mongo document:     *)
(* GetVideo reads through the entry and fills it, and every writer deletes *)
(* it on its way, PatchVideo and the worker after their write, DeleteVideo *)
(* before.  Each call to Mongo or Redis is a step.                         *)
(***************************************************************************)
CONSTANTS
    Patchers,   \* PATCH requests; their names stand for the metadata they write
    Encoders,   \* runs of processVideo that get to MarkReady or markFailed
    Removers,   \* DELETE requests
    Readers,    \* GET /videos/{id} that may be served at the same time
    NoDoc,      \* no document
    NoPatch,    \* the metadata of the upload
    NoEntry,    \* no Redis entry
    Faults      \* the kinds of fault this instance admits

FaultKinds == {"store", "cache"}   \* a writer's call of Mongo; a call of Redis

Writers == Patchers \cup Encoders \cup Removers

ASSUME CacheAssumption ==
    /\ Patchers \cap Encoders = {} /\ (Patchers \cup Encoders) \cap Removers = {}
    /\ NoPatch \notin Patchers
    /\ Faults \subseteq FaultKinds

Documents == [status : {"processing", "ready", "failed"}, by : Patchers \cup {NoPatch}]

ASSUME NoneAssumption ==
    NoDoc \notin Documents /\ NoEntry \notin Documents \cup {NoDoc}

VARIABLES
    doc,       \* the document
    entry,     \* what Redis holds of it
    wstage,    \* each writer: "idle", "written", "push", "del", "delete", "done"
    outcome,   \* what each encoder announces
    rstage,    \* each GET: "idle", "get", "mongo", "set", "answered"
    copy,      \* the document it has got
    crossed,   \* history: GETs overtaken by a writer since they read Mongo, or
               \* that read it between the DEL and the DeleteByID of a DELETE
    tainted,   \* history: the entry was filled by one of these
    missed     \* history: a writer has failed to delete the entry since

writerVars == <<wstage, outcome>>
readerVars == <<rstage, copy>>
cacheVars  == <<doc, entry, writerVars, readerVars, crossed, tainted, missed>>

TypeOK ==
    /\ doc \in Documents \cup {NoDoc}
    /\ entry \in Documents \cup {NoEntry}
    /\ wstage \in [Writers -> {"idle", "written", "push", "del", "delete", "done"}]
    /\ outcome \in [Encoders -> {"processing", "ready", "failed"}]
    /\ rstage \in [Readers -> {"idle", "get", "mongo", "set", "answered"}]
    /\ copy \in [Readers -> Documents \cup {NoDoc}]
    /\ \A r \in Readers : rstage[r] = "set" => copy[r] # NoDoc
    /\ \A w \in Writers :
        /\ wstage[w] = "written" => w \in Patchers
        /\ wstage[w] = "push" => w \in Encoders
        /\ wstage[w] = "delete" => w \in Removers
    /\ crossed \subseteq Readers
    /\ tainted \in BOOLEAN /\ missed \in BOOLEAN

\* Upload has inserted the document.
CacheInit ==
    /\ doc = [status |-> "processing", by |-> NoPatch]
    /\ entry = NoEntry
    /\ wstage = [w \in Writers |-> "idle"]
    /\ outcome = [e \in Encoders |-> "processing"]
    /\ rstage = [r \in Readers |-> "idle"]
    /\ copy = [r \in Readers |-> NoDoc]
    /\ crossed = {} /\ tainted = FALSE /\ missed = FALSE

-----------------------------------------------------------------------------
(* The writers.                                                            *)

WriterTo(w, s) == wstage' = [wstage EXCEPT ![w] = s]

\* A write changes the document behind the back of every GET that has read it.
Overtakes == crossed' = {r \in Readers : rstage[r] = "set"}
Lands(d) == doc' = d /\ Overtakes
Fades == UNCHANGED <<doc, crossed>>

\* UpdateMetadata; no document is a 404.  After an error the handler returns,
\* though the write may have been made.
PatchWrite(p) ==
    LET patched == [doc EXCEPT !.by = p] IN
    /\ wstage[p] = "idle"
    /\ \/ doc = NoDoc /\ WriterTo(p, "done") /\ Fades /\ UNCHANGED missed
       \/ doc # NoDoc /\ WriterTo(p, "written") /\ Lands(patched) /\ UNCHANGED missed
       \/ /\ "store" \in Faults /\ doc # NoDoc
          /\ WriterTo(p, "done") /\ Lands(patched) /\ missed' = TRUE
    /\ UNCHANGED <<entry, outcome, readerVars, tainted>>

\* GetByID, whose error or nil ends the request before the DEL.
PatchReadBack(p) ==
    /\ wstage[p] = "written"
    /\ \/ doc = NoDoc /\ WriterTo(p, "done") /\ UNCHANGED missed
       \/ doc # NoDoc /\ WriterTo(p, "del") /\ UNCHANGED missed
       \/ "store" \in Faults /\ WriterTo(p, "done") /\ missed' = TRUE
    /\ UNCHANGED <<doc, entry, outcome, readerVars, crossed, tainted>>

\* Mutant: an error of MarkReady is only logged, like one of MarkFailed.
MarkStatusGoesOn(e, s) ==
    /\ wstage[e] = "idle"
    /\ outcome' = [outcome EXCEPT ![e] = s]
    /\ WriterTo(e, "push")
    /\ \/ IF doc = NoDoc THEN Fades ELSE Lands([doc EXCEPT !.status = s])
       \/ "store" \in Faults /\ Fades
    /\ UNCHANGED <<entry, readerVars, tainted, missed>>

\* MarkReady or MarkFailed; a missing document passes unnoticed.  An error of
\* MarkReady ends processVideo, one of MarkFailed does not.
MarkStatus(e, s) ==
    /\ wstage[e] = "idle"
    /\ outcome' = [outcome EXCEPT ![e] = s]
    /\ \/ /\ WriterTo(e, "push") /\ UNCHANGED missed
          /\ IF doc = NoDoc THEN Fades ELSE Lands([doc EXCEPT !.status = s])
       \/ /\ "store" \in Faults /\ s = "ready" /\ doc # NoDoc
          /\ WriterTo(e, "done") /\ Lands([doc EXCEPT !.status = s]) /\ missed' = TRUE
       \/ /\ "store" \in Faults /\ s = "failed"
          /\ WriterTo(e, "push") /\ Fades /\ UNCHANGED missed
    /\ UNCHANGED <<entry, readerVars, tainted>>

\* Mutant: the push is the last thing that is done.
PushEnds(e) ==
    /\ wstage[e] = "push"
    /\ WriterTo(e, "done")
    /\ UNCHANGED <<doc, entry, outcome, readerVars, crossed, tainted, missed>>

\* publishVideoWS, before the DEL.
Push(e) ==
    /\ wstage[e] = "push"
    /\ WriterTo(e, "del")
    /\ outcome' = [outcome EXCEPT ![e] = "processing"]
    /\ UNCHANGED <<doc, entry, readerVars, crossed, tainted, missed>>

\* Mutant: no DEL, as the document goes anyway.
FindForDeleteOnly(d) ==
    /\ d \in Removers
    /\ wstage[d] = "idle"
    /\ WriterTo(d, IF doc = NoDoc THEN "done" ELSE "delete")
    /\ UNCHANGED <<doc, entry, outcome, readerVars, crossed, tainted, missed>>

\* DeleteVideo begins with GetByID ...
FindForDelete(d) ==
    /\ d \in Removers
    /\ wstage[d] = "idle"
    /\ WriterTo(d, IF doc = NoDoc THEN "done" ELSE "del")
    /\ UNCHANGED <<doc, entry, outcome, readerVars, crossed, tainted, missed>>

\* VideoCache.Del, whose error is ignored.
Del(w) ==
    /\ wstage[w] = "del"
    /\ \/ entry' = NoEntry /\ tainted' = FALSE /\ missed' = FALSE
       \/ "cache" \in Faults /\ missed' = TRUE /\ UNCHANGED <<entry, tainted>>
    /\ IF w \in Removers
       THEN WriterTo(w, "delete") /\ Overtakes
       ELSE WriterTo(w, "done") /\ UNCHANGED crossed
    /\ UNCHANGED <<doc, outcome, readerVars>>

\* ... and ends with DeleteByID.
DeleteByID(d) ==
    /\ wstage[d] = "delete"
    /\ WriterTo(d, "done")
    /\ Lands(NoDoc) \/ ("store" \in Faults /\ Fades)
    /\ UNCHANGED <<entry, outcome, readerVars, tainted, missed>>

\* The TTL.
Expire ==
    /\ entry # NoEntry
    /\ entry' = NoEntry /\ tainted' = FALSE /\ missed' = FALSE
    /\ UNCHANGED <<doc, writerVars, readerVars, crossed>>

-----------------------------------------------------------------------------
(* GetVideo.                                                               *)

ReaderTo(r, s, d) == rstage' = [rstage EXCEPT ![r] = s] /\ copy' = [copy EXCEPT ![r] = d]

Request(r) ==
    /\ rstage[r] = "idle"
    /\ ReaderTo(r, "get", NoDoc)
    /\ UNCHANGED <<doc, entry, writerVars, crossed, tainted, missed>>

\* VideoCache.Get: an error is like no entry.
CacheGet(r) ==
    /\ rstage[r] = "get"
    /\ \/ entry # NoEntry /\ ReaderTo(r, "answered", entry)
       \/ (entry = NoEntry \/ "cache" \in Faults) /\ ReaderTo(r, "mongo", NoDoc)
    /\ UNCHANGED <<doc, entry, writerVars, crossed, tainted, missed>>

\* Mutant: a document that is not there is cached all the same.
MongoReadFillsAlways(r) ==
    /\ rstage[r] = "mongo"
    /\ ReaderTo(r, "set", doc)
    /\ UNCHANGED <<doc, entry, writerVars, crossed, tainted, missed>>

MongoRead(r) ==
    /\ rstage[r] = "mongo"
    /\ ReaderTo(r, IF doc = NoDoc THEN "answered" ELSE "set", doc)
    /\ crossed' = IF doc # NoDoc /\ \E d \in Removers : wstage[d] = "delete"
                  THEN crossed \cup {r} ELSE crossed
    /\ UNCHANGED <<doc, entry, writerVars, tainted, missed>>

\* VideoCache.Set, whose error is ignored.
CacheSet(r) ==
    /\ rstage[r] = "set"
    /\ ReaderTo(r, "answered", copy[r])
    /\ \/ entry' = copy[r] /\ tainted' = (r \in crossed)
       \/ "cache" \in Faults /\ UNCHANGED <<entry, tainted>>
    /\ crossed' = crossed \ {r}
    /\ UNCHANGED <<doc, writerVars, missed>>

Answered(r) ==
    /\ rstage[r] = "answered"
    /\ ReaderTo(r, "idle", NoDoc)
    /\ UNCHANGED <<doc, entry, writerVars, crossed, tainted, missed>>

-----------------------------------------------------------------------------
WriterStep ==
    \/ \E p \in Patchers : PatchWrite(p) \/ PatchReadBack(p)
    \/ \E e \in Encoders, s \in {"ready", "failed"} : MarkStatus(e, s)
    \/ \E d \in Removers : FindForDelete(d) \/ DeleteByID(d)
    \/ \E w \in Writers : Del(w)

ReaderStep(r) == CacheGet(r) \/ MongoRead(r) \/ CacheSet(r)

CacheNext ==
    \/ WriterStep \/ Expire
    \/ \E e \in Encoders : Push(e)
    \/ \E r \in Readers : Request(r) \/ ReaderStep(r) \/ Answered(r)

CacheSpec == CacheInit /\ [][CacheNext]_cacheVars

-----------------------------------------------------------------------------
\* A writer other than DELETE has written and not yet deleted the entry.
Writing == \E w \in Patchers \cup Encoders : wstage[w] \in {"written", "push", "del"}

\* When no PATCH and no encode is half-way, the entry is the document as it is,
\* or nothing; with two exceptions the code does leave: an entry filled by a GET
\* that a write, or the DELETE that was to follow its DEL, overtook, and a write
\* whose DEL was never made or failed.
CacheCoherent == ~Writing /\ ~tainted /\ ~missed => entry \in {NoEntry, doc}

\* With the same exceptions a deleted video has no entry, whatever PATCH or
\* encode was half-way when it went.
DeletedHasNoEntry == doc = NoDoc /\ ~tainted /\ ~missed => entry = NoEntry
=============================================================================
