----------------------------- MODULE WatchFeed -----------------------------
(***************************************************************************)
(* The watch and upload-detail pages for one video, on top of VideoCache:  *)
(* useVideoPolling, whose refreshes ask GET /videos/{id} (through the      *)
(* cache) and GET /watch (straight from Mongo) at once and may overtake    *)
(* each other, useVideoWatchFeed, which merges pushes with them, and the   *)
(* status the page shows.                                                  *)
(*                                                                         *)
(* A push that is under way may be lost at any time: Redis, the hub or the *)
(* socket is down, or the page subscribed too late.  wsLive only chooses   *)
(* between two intervals and times are left out.  No view calls the feed's *)
(* own refresh.                                                            *)
(***************************************************************************)
EXTENDS VideoCache, Sequences

CONSTANT Nothing    \* null

ASSUME NothingAssumption == Nothing \notin {"processing", "ready", "failed", "asked"}

VARIABLES
    watchOf,    \* each refresh: "asked", or the status GET /watch answered
    video,      \* poll.video, its status
    pollWatch,  \* poll.watch, its status; a manifest comes with "ready"
    wsWatch,    \* the status of the last push that reached the page
    pushes      \* pushes under way, in the order of the Redis channel

feedVars == <<watchOf, video, pollWatch, wsWatch, pushes>>
vars == <<cacheVars, feedVars>>

PageStatuses == {Nothing, "processing", "ready", "failed"}

FeedTypeOK ==
    /\ TypeOK
    /\ watchOf \in [Readers -> PageStatuses \cup {"asked"}]
    /\ video \in PageStatuses /\ pollWatch \in PageStatuses /\ wsWatch \in PageStatuses
    /\ pushes \in Seq(PageStatuses \ {Nothing})

\* The page may have been opened before Upload's own push was delivered.
Init ==
    /\ CacheInit
    /\ watchOf = [r \in Readers |-> Nothing]
    /\ video = Nothing /\ pollWatch = Nothing /\ wsWatch = Nothing
    /\ pushes = <<"processing">>

-----------------------------------------------------------------------------
(* The refreshes of useVideoPolling: one at once, one per interval, one per *)
(* push.                                                                    *)

StatusOf(d) == IF d = NoDoc THEN Nothing ELSE d.status

Refresh(r) ==
    /\ Request(r)
    /\ watchOf' = [watchOf EXCEPT ![r] = "asked"]
    /\ UNCHANGED <<video, pollWatch, wsWatch, pushes>>

GetVideoStep(r) == ReaderStep(r) /\ UNCHANGED feedVars

\* The Watch handler.
WatchRead(r) ==
    /\ watchOf[r] = "asked"
    /\ watchOf' = [watchOf EXCEPT ![r] = StatusOf(doc)]
    /\ UNCHANGED <<cacheVars, video, pollWatch, wsWatch, pushes>>

\* One of the two requests fails; which, and why, makes no difference.
RequestFails(r) ==
    /\ watchOf[r] = "asked"
    /\ watchOf' = [watchOf EXCEPT ![r] = Nothing]
    /\ UNCHANGED <<cacheVars, video, pollWatch, wsWatch, pushes>>

\* Mutant: the first answer of watch is kept.
ApplyKeepsWatch(r) ==
    /\ Answered(r)
    /\ watchOf[r] # "asked"
    /\ IF copy[r] # NoDoc /\ watchOf[r] # Nothing
       THEN /\ video' = copy[r].status
            /\ pollWatch' = IF pollWatch = Nothing THEN watchOf[r] ELSE pollWatch
       ELSE UNCHANGED <<video, pollWatch>>
    /\ watchOf' = [watchOf EXCEPT ![r] = Nothing]
    /\ UNCHANGED <<wsWatch, pushes>>

\* Mutant: an answer is taken for newer than any push.
ApplyForgetsPush(r) ==
    /\ Answered(r)
    /\ watchOf[r] # "asked"
    /\ IF copy[r] # NoDoc /\ watchOf[r] # Nothing
       THEN video' = copy[r].status /\ pollWatch' = watchOf[r] /\ wsWatch' = Nothing
       ELSE UNCHANGED <<video, pollWatch, wsWatch>>
    /\ watchOf' = [watchOf EXCEPT ![r] = Nothing]
    /\ UNCHANGED pushes

\* Mutant: the first of the two answers is waited for.
ApplyEarly(r) ==
    /\ Answered(r)
    /\ IF copy[r] # NoDoc /\ watchOf[r] # Nothing
       THEN video' = copy[r].status /\ pollWatch' = watchOf[r]
       ELSE UNCHANGED <<video, pollWatch>>
    /\ watchOf' = [watchOf EXCEPT ![r] = Nothing]
    /\ UNCHANGED <<wsWatch, pushes>>

\* Promise.all: both answers are taken, or an error of either changes nothing.
Apply(r) ==
    /\ Answered(r)
    /\ watchOf[r] # "asked"
    /\ IF copy[r] # NoDoc /\ watchOf[r] # Nothing
       THEN video' = copy[r].status /\ pollWatch' = watchOf[r]
       ELSE UNCHANGED <<video, pollWatch>>
    /\ watchOf' = [watchOf EXCEPT ![r] = Nothing]
    /\ UNCHANGED <<wsWatch, pushes>>

-----------------------------------------------------------------------------
(* Pushes.                                                                 *)

\* publishVideoWS of the worker.
Announce(e) ==
    /\ Push(e)
    /\ pushes' = Append(pushes, outcome[e])
    /\ UNCHANGED <<watchOf, video, pollWatch, wsWatch>>

\* onmessage: setWsWatch, and one refresh of the polling.
PushArrives(r) ==
    /\ pushes # <<>>
    /\ wsWatch' = Head(pushes)
    /\ pushes' = Tail(pushes)
    /\ Request(r)
    /\ watchOf' = [watchOf EXCEPT ![r] = "asked"]
    /\ UNCHANGED <<video, pollWatch>>

PushIsLost ==
    /\ pushes # <<>>
    /\ pushes' = Tail(pushes)
    /\ UNCHANGED <<cacheVars, watchOf, video, pollWatch, wsWatch>>

-----------------------------------------------------------------------------
(* What the page shows.                                                    *)

Watch == IF wsWatch # Nothing THEN wsWatch ELSE pollWatch

\* Mutant: any answer of watch is preferred.
EffectiveIsWatch(videoStatus, watch) == IF watch # Nothing THEN watch ELSE videoStatus

EffectiveVideoStatus(videoStatus, watch) ==
    IF watch \in {"ready", "failed"} THEN watch ELSE videoStatus

\* The views show a status once they have a video ...
Shown == IF video = Nothing THEN Nothing ELSE EffectiveVideoStatus(video, Watch)

\* ... and the player once they have a manifest.
PlayerShown == video # Nothing /\ Watch = "ready"

-----------------------------------------------------------------------------
Next ==
    \/ WriterStep /\ UNCHANGED feedVars
    \/ Expire /\ UNCHANGED feedVars
    \/ \E e \in Encoders : Announce(e)
    \/ \E r \in Readers :
        \/ Refresh(r) \/ GetVideoStep(r) \/ WatchRead(r) \/ RequestFails(r) \/ Apply(r)
        \/ PushArrives(r)
    \/ PushIsLost

\* The interval keeps firing, requests are answered, and not all of them with an
\* error, and the entry expires.  Nothing makes a writer go on, nor a push arrive.
Fairness ==
    /\ WF_vars(\E r \in Readers : Refresh(r))
    /\ \A r \in Readers : WF_vars(GetVideoStep(r)) /\ SF_vars(WatchRead(r)) /\ WF_vars(Apply(r))
    /\ WF_vars(Expire /\ UNCHANGED feedVars)

Spec == Init /\ [][Next]_vars /\ Fairness

-----------------------------------------------------------------------------
(* Properties.                                                             *)

OneEncode == \A d, e \in Encoders : d = e

\* The page never shows "ready" before Mongo does, by whichever of the three
\* ways it learnt of it.  (A second encode may end otherwise meanwhile.)
ReadyIsStored ==
    OneEncode /\ Shown = "ready" => doc = NoDoc \/ doc.status = "ready"

\* Once a push has shown the page the end of the encode, it shows nothing else,
\* though polls that read older states, or the stale entry, come in later.
EndOfEncodeSticks ==
    [][OneEncode /\ wsWatch \in {"ready", "failed"} /\ Shown # Nothing
        => Shown' = wsWatch]_vars

\* The page ends up showing the status of a document that has settled, with
\* pushes lost, a fill that outlived its DEL, and a push that stays "processing".
PageSettles ==
    \A s \in {"ready", "failed"} :
        OneEncode /\ <>[](doc # NoDoc /\ doc.status = s) => <>[](Shown = s)

\* The page mounts the player of a video that is ready, for it prefers pushes and
\* falls back to polling if one is missed.
PlayerMounts ==
    OneEncode /\ <>[](doc # NoDoc /\ doc.status = "ready") => <>[]PlayerShown

\* It does so if it has got no push, by polling alone, or the push of the end, by
\* whatever polls that come late: only an old push that stays keeps the player away.
PlayerUnlessMissed ==
    OneEncode /\ <>[](doc # NoDoc /\ doc.status = "ready") /\ <>[](wsWatch # "processing")
        => <>[]PlayerShown
=============================================================================
