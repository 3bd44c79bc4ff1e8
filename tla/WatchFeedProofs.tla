-------------------------- MODULE WatchFeedProofs --------------------------
(* What WatchFeed promises of the page, for any number of refreshes at once, *)
(* of PATCH and DELETE requests, and any faults.                             *)
EXTENDS WatchFeed, VideoCacheProofs, Integers

-----------------------------------------------------------------------------
(* The page is a client of the cache like any other.                        *)

LEMMA FeedStepIsCacheStep == [Next]_vars => [CacheNext]_cacheVars
<1>1. ASSUME NEW r \in Readers,
             \/ Refresh(r) \/ GetVideoStep(r) \/ WatchRead(r) \/ RequestFails(r) \/ Apply(r)
             \/ PushArrives(r)
      PROVE  CacheNext \/ UNCHANGED cacheVars
  <2>1. Request(r) \/ ReaderStep(r) \/ Answered(r) \/ UNCHANGED cacheVars
    BY <1>1 DEF Refresh, GetVideoStep, WatchRead, RequestFails, Apply, PushArrives
  <2> QED
    BY <2>1 DEF CacheNext
<1>2. ASSUME NEW e \in Encoders, Announce(e) PROVE CacheNext
  BY <1>2 DEF Announce, CacheNext
<1>3. CASE WriterStep \/ Expire
  BY <1>3 DEF CacheNext
<1>4. CASE PushIsLost \/ UNCHANGED vars
  BY <1>4 DEF PushIsLost, vars
<1> QED
  BY <1>1, <1>2, <1>3, <1>4 DEF Next

\* Whatever the page does, the document and its entry go through a behaviour of
\* VideoCache: no refresh, push or late answer touches them otherwise.
THEOREM FeedImplementsCache == Spec => CacheSpec
<1>1. Init => CacheInit
  BY DEF Init
<1> QED
  BY <1>1, FeedStepIsCacheStep, PTL DEF Spec, CacheSpec

\* So what the page is answered from the entry is as good as VideoCache says.
THEOREM FeedReadsCoherent == Spec => []CacheCoherent
  BY FeedImplementsCache, Coherent, PTL

-----------------------------------------------------------------------------
(* Types.                                                                  *)

LEMMA FeedTypeInit == Init => FeedTypeOK
<1> SUFFICES ASSUME Init PROVE FeedTypeOK
  OBVIOUS
<1>1. TypeOK
  BY TypeInit DEF Init
<1>2. pushes \in Seq(PageStatuses \ {Nothing})
  BY NothingAssumption DEF Init, PageStatuses
<1> QED
  BY <1>1, <1>2 DEF Init, FeedTypeOK, PageStatuses

LEMMA StatusFact ==
    ASSUME NEW d \in Documents \cup {NoDoc}
    PROVE  StatusOf(d) \in PageStatuses /\ (d # NoDoc => d.status \in PageStatuses \ {Nothing})
  BY NothingAssumption DEF StatusOf, Documents, PageStatuses

LEMMA FeedTypeStep == FeedTypeOK /\ [Next]_vars => FeedTypeOK'
<1> SUFFICES ASSUME FeedTypeOK, [Next]_vars PROVE FeedTypeOK'
  OBVIOUS
<1>1. TypeOK'
  BY FeedStepIsCacheStep, TypeStep DEF FeedTypeOK
<1>2. CASE UNCHANGED feedVars
  BY <1>1, <1>2 DEF FeedTypeOK, feedVars
<1>3. ASSUME NEW e \in Encoders, Announce(e) PROVE FeedTypeOK'
  <2>1. outcome[e] \in PageStatuses \ {Nothing}
    BY NothingAssumption DEF FeedTypeOK, TypeOK, PageStatuses
  <2> QED
    BY <1>1, <1>3, <2>1 DEF FeedTypeOK, Announce
<1>4. ASSUME NEW r \in Readers, Refresh(r) \/ WatchRead(r) \/ RequestFails(r) PROVE FeedTypeOK'
  <2>1. StatusOf(doc) \in PageStatuses /\ Nothing \in PageStatuses
    BY StatusFact DEF FeedTypeOK, TypeOK, PageStatuses
  <2>2. watchOf' \in [Readers -> PageStatuses \cup {"asked"}]
    BY <1>4, <2>1 DEF FeedTypeOK, Refresh, WatchRead, RequestFails
  <2> QED
    BY <1>1, <1>4, <2>2 DEF FeedTypeOK, Refresh, WatchRead, RequestFails
<1>5. ASSUME NEW r \in Readers, Apply(r) PROVE FeedTypeOK'
  <2>1. watchOf[r] \in PageStatuses /\ Nothing \in PageStatuses
    BY <1>5 DEF FeedTypeOK, Apply, PageStatuses
  <2>2. copy[r] # NoDoc => copy[r].status \in PageStatuses
    BY StatusFact DEF FeedTypeOK, TypeOK
  <2>3. video' \in PageStatuses /\ pollWatch' \in PageStatuses
    BY <1>5, <2>1, <2>2 DEF FeedTypeOK, Apply
  <2>4. watchOf' \in [Readers -> PageStatuses \cup {"asked"}]
    BY <1>5, <2>1 DEF FeedTypeOK, Apply
  <2> QED
    BY <1>1, <1>5, <2>3, <2>4 DEF FeedTypeOK, Apply
<1>6. ASSUME NEW r \in Readers, PushArrives(r) PROVE FeedTypeOK'
  BY <1>1, <1>6 DEF FeedTypeOK, PushArrives
<1>7. CASE PushIsLost
  BY <1>1, <1>7 DEF FeedTypeOK, PushIsLost
<1> QED
  BY <1>2, <1>3, <1>4, <1>5, <1>6, <1>7 DEF Next, GetVideoStep, vars

\* The state of the page stays of its types.
THEOREM FeedTypeCorrect == Spec => []FeedTypeOK
<1> QED
  BY FeedTypeInit, FeedTypeStep, PTL DEF Spec

-----------------------------------------------------------------------------
(* "ready" is nowhere before it is in Mongo.                               *)

DocReady == doc = NoDoc \/ doc.status = "ready"

\* "ready" is in the entry, in an answer, on the page or in a push.
SomeReady ==
    \/ entry # NoEntry /\ entry.status = "ready"
    \/ \E r \in Readers : copy[r] # NoDoc /\ copy[r].status = "ready"
    \/ \E r \in Readers : watchOf[r] = "ready"
    \/ "ready" \in {video, pollWatch, wsWatch}
    \/ \E i \in DOMAIN pushes : pushes[i] = "ready"
    \/ \E e \in Encoders : wstage[e] = "push" /\ outcome[e] = "ready"

\* A document that has settled will not be settled again.
SettledByAll ==
    \A e \in Encoders : wstage[e] = "idle" /\ doc # NoDoc => doc.status = "processing"

ReadyInv ==
    /\ FeedTypeOK
    /\ OneEncode => SettledByAll /\ (SomeReady => DocReady)

LEMMA ReadyInit == Init => ReadyInv
<1> SUFFICES ASSUME Init PROVE ReadyInv
  OBVIOUS
<1>1. ~SomeReady
  BY NothingAssumption DEF Init, CacheInit, SomeReady
<1>2. SettledByAll
  BY DEF Init, CacheInit, SettledByAll
<1> QED
  BY <1>1, <1>2, FeedTypeInit DEF ReadyInv

\* What the writers do to the document's status.
LEMMA StatusStep ==
    ASSUME FeedTypeOK, OneEncode, SettledByAll, WriterStep
    PROVE  SettledByAll' /\ (DocReady => DocReady')
<1>1. ASSUME NEW p \in Patchers, PatchWrite(p) \/ PatchReadBack(p)
      PROVE  SettledByAll' /\ (DocReady => DocReady')
  <2>1. \A e \in Encoders : wstage'[e] = wstage[e]
    BY <1>1, CacheAssumption DEF PatchWrite, PatchReadBack, WriterTo, FeedTypeOK, TypeOK, Writers
  <2>2. doc' = doc \/ (doc # NoDoc /\ doc' = [doc EXCEPT !.by = p])
    BY <1>1 DEF PatchWrite, PatchReadBack, Lands, Fades
  <2>3. doc # NoDoc => [doc EXCEPT !.by = p].status = doc.status
    BY DEF FeedTypeOK, TypeOK, Documents
  <2> QED
    BY <2>1, <2>2, <2>3 DEF SettledByAll, DocReady
<1>2. ASSUME NEW e \in Encoders, NEW s \in {"ready", "failed"}, MarkStatus(e, s)
      PROVE  SettledByAll' /\ (DocReady => DocReady')
  <2>1. \A x \in Encoders : wstage'[x] # "idle"
    <3>1. wstage'[e] # "idle"
      BY <1>2 DEF MarkStatus, WriterTo, FeedTypeOK, TypeOK, Writers
    <3> QED
      BY <3>1 DEF OneEncode
  <2>2. DocReady => doc = NoDoc
    BY <1>2 DEF MarkStatus, SettledByAll, DocReady
  <2>3. doc = NoDoc => doc' = NoDoc
    BY <1>2 DEF MarkStatus, Fades, Lands
  <2> QED
    BY <2>1, <2>2, <2>3 DEF SettledByAll, DocReady
<1>3. ASSUME NEW d \in Removers, FindForDelete(d) \/ DeleteByID(d)
      PROVE  SettledByAll' /\ (DocReady => DocReady')
  <2>1. \A e \in Encoders : wstage'[e] = wstage[e]
    BY <1>3, CacheAssumption DEF FindForDelete, DeleteByID, WriterTo, FeedTypeOK, TypeOK, Writers
  <2>2. doc' = doc \/ doc' = NoDoc
    BY <1>3 DEF FindForDelete, DeleteByID, Lands, Fades
  <2> QED
    BY <2>1, <2>2 DEF SettledByAll, DocReady
<1>4. ASSUME NEW w \in Writers, Del(w) PROVE SettledByAll' /\ (DocReady => DocReady')
  BY <1>4 DEF Del, WriterTo, FeedTypeOK, TypeOK, SettledByAll, DocReady, Writers
<1> QED
  BY <1>1, <1>2, <1>3, <1>4 DEF WriterStep

\* A writer announces "ready" only of a document that is, or of none.
LEMMA ReadyWrite ==
    ASSUME FeedTypeOK, WriterStep, UNCHANGED feedVars, SomeReady', ~SomeReady
    PROVE  DocReady'
<1>1. UNCHANGED copy /\ (entry' = entry \/ entry' = NoEntry)
  BY DEF WriterStep, PatchWrite, PatchReadBack, MarkStatus, FindForDelete, DeleteByID, Del, readerVars
<1>2. PICK e \in Encoders : wstage'[e] = "push" /\ outcome'[e] = "ready"
  BY <1>1 DEF SomeReady, feedVars
<1>3. ~(wstage[e] = "push" /\ outcome[e] = "ready")
  BY DEF SomeReady
<1>4. ASSUME NEW x \in Encoders, NEW s \in {"ready", "failed"}, MarkStatus(x, s) PROVE DocReady'
  <2>1. x = e
    BY <1>2, <1>3, <1>4 DEF MarkStatus, WriterTo, FeedTypeOK, TypeOK, Writers
  <2>2. s = "ready" /\ wstage'[e] = "push"
    BY <1>2, <1>4, <2>1 DEF MarkStatus, FeedTypeOK, TypeOK
  <2>3. CASE doc = NoDoc /\ doc' = doc
    BY <2>3 DEF DocReady
  <2>4. CASE doc # NoDoc /\ doc' = [doc EXCEPT !.status = s]
    <3>1. [doc EXCEPT !.status = s].status = s
      BY <2>4 DEF FeedTypeOK, TypeOK, Documents
    <3> QED
      BY <2>2, <2>4, <3>1 DEF DocReady
  <2> QED
    BY <1>4, <2>1, <2>2, <2>3, <2>4
       DEF MarkStatus, Lands, Fades, WriterTo, FeedTypeOK, TypeOK, Writers
<1>5. (\E x \in Encoders, s \in {"ready", "failed"} : MarkStatus(x, s))
      \/ (outcome' = outcome /\ (wstage'[e] = "push" => wstage[e] = "push"))
  BY DEF WriterStep, PatchWrite, PatchReadBack, FindForDelete, DeleteByID, Del, WriterTo,
         FeedTypeOK, TypeOK, Writers
<1> QED
  BY <1>2, <1>3, <1>4, <1>5

\* No other step writes to Mongo, or takes an encode back to its beginning.
LEMMA NoOtherWrite ==
    ASSUME FeedTypeOK, [CacheNext]_cacheVars, ~WriterStep
    PROVE  UNCHANGED doc /\ \A e \in Encoders : wstage[e] # "idle" => wstage'[e] # "idle"
<1>1. ASSUME NEW e \in Encoders, Push(e)
      PROVE  UNCHANGED doc /\ \A x \in Encoders : wstage[x] # "idle" => wstage'[x] # "idle"
  BY <1>1 DEF Push, WriterTo, FeedTypeOK, TypeOK, Writers
<1>2. CASE \/ Expire \/ UNCHANGED cacheVars
           \/ \E r \in Readers : Request(r) \/ ReaderStep(r) \/ Answered(r)
  BY <1>2 DEF Expire, Request, ReaderStep, CacheGet, MongoRead, CacheSet, Answered, writerVars,
              cacheVars
<1> QED
  BY <1>1, <1>2 DEF CacheNext

\* Everything else only passes on what it has read.
LEMMA ReadyPassedOn ==
    ASSUME FeedTypeOK, ~SomeReady, ~DocReady, Next, ~(WriterStep /\ UNCHANGED feedVars)
    PROVE  ~SomeReady'
<1>1. ASSUME NEW e \in Encoders, Announce(e) PROVE ~SomeReady'
  <2>1. outcome[e] # "ready"
    BY <1>1 DEF Announce, Push, SomeReady
  <2>2. \A i \in DOMAIN pushes' : pushes'[i] # "ready"
    BY <1>1, <2>1 DEF Announce, FeedTypeOK, SomeReady
  <2>3. \A x \in Encoders : wstage'[x] = "push" => wstage[x] = "push" /\ outcome'[x] = outcome[x]
    BY <1>1 DEF Announce, Push, WriterTo, FeedTypeOK, TypeOK, Writers
  <2> QED
    BY <1>1, <2>2, <2>3 DEF Announce, Push, SomeReady, readerVars
<1>2. ASSUME NEW r \in Readers, Refresh(r) \/ RequestFails(r) \/ WatchRead(r)
      PROVE  ~SomeReady'
  <2>1. StatusOf(doc) # "ready"
    BY NothingAssumption DEF StatusOf, DocReady
  <2>2. \A x \in Readers : watchOf'[x] # "ready"
    BY <1>2, <2>1, NothingAssumption DEF Refresh, RequestFails, WatchRead, FeedTypeOK, SomeReady
  <2>3. \A x \in Readers : copy'[x] = copy[x] \/ copy'[x] = NoDoc
    BY <1>2 DEF Refresh, RequestFails, WatchRead, Request, ReaderTo, cacheVars, readerVars,
                FeedTypeOK, TypeOK
  <2>4. UNCHANGED <<doc, entry, wstage, outcome, video, pollWatch, wsWatch, pushes>>
    BY <1>2 DEF Refresh, RequestFails, WatchRead, Request, cacheVars, writerVars
  <2> QED
    BY <2>2, <2>3, <2>4 DEF SomeReady
<1>3. ASSUME NEW r \in Readers, GetVideoStep(r) PROVE ~SomeReady'
  <2>1. UNCHANGED <<doc, wstage, outcome, watchOf, video, pollWatch, wsWatch, pushes>>
    BY <1>3 DEF GetVideoStep, ReaderStep, CacheGet, MongoRead, CacheSet, writerVars, feedVars
  <2>2. entry' = entry \/ (entry' = copy[r] /\ copy[r] # NoDoc)
    BY <1>3 DEF GetVideoStep, ReaderStep, CacheGet, MongoRead, CacheSet, FeedTypeOK, TypeOK
  <2>3. \A x \in Readers : copy'[x] \in {copy[x], NoDoc, doc} \/ (entry # NoEntry /\ copy'[x] = entry)
    BY <1>3 DEF GetVideoStep, ReaderStep, CacheGet, MongoRead, CacheSet, ReaderTo, FeedTypeOK, TypeOK
  <2> QED
    BY <2>1, <2>2, <2>3 DEF SomeReady, DocReady
<1>4. ASSUME NEW r \in Readers, Apply(r) PROVE ~SomeReady'
  <2>1. /\ video' = video \/ (copy[r] # NoDoc /\ video' = copy[r].status)
        /\ pollWatch' = pollWatch \/ pollWatch' = watchOf[r]
    BY <1>4 DEF Apply
  <2>2. \A x \in Readers : watchOf'[x] # "ready"
    BY <1>4, NothingAssumption DEF Apply, FeedTypeOK, SomeReady
  <2>3. \A x \in Readers : copy'[x] = copy[x] \/ copy'[x] = NoDoc
    BY <1>4 DEF Apply, Answered, ReaderTo, FeedTypeOK, TypeOK
  <2>4. UNCHANGED <<doc, entry, wstage, outcome, wsWatch, pushes>>
    BY <1>4 DEF Apply, Answered, writerVars
  <2> QED
    BY <2>1, <2>2, <2>3, <2>4 DEF SomeReady
<1>5. ASSUME pushes # <<>>, pushes' = Tail(pushes)
      PROVE  Head(pushes) # "ready" /\ \A i \in DOMAIN pushes' : pushes'[i] # "ready"
  BY <1>5 DEF FeedTypeOK, SomeReady
<1>6. ASSUME NEW r \in Readers, PushArrives(r) PROVE ~SomeReady'
  <2>1. \A x \in Readers : watchOf'[x] # "ready" /\ (copy'[x] = copy[x] \/ copy'[x] = NoDoc)
    BY <1>6 DEF PushArrives, Request, ReaderTo, FeedTypeOK, TypeOK, SomeReady
  <2>2. UNCHANGED <<doc, entry, wstage, outcome, video, pollWatch>> /\ wsWatch' # "ready"
    BY <1>5, <1>6 DEF PushArrives, Request, writerVars
  <2> QED
    BY <1>5, <1>6, <2>1, <2>2 DEF PushArrives, SomeReady
<1>7. CASE PushIsLost
  <2>1. UNCHANGED <<doc, entry, wstage, outcome, copy, watchOf, video, pollWatch, wsWatch>>
    BY <1>7 DEF PushIsLost, cacheVars, writerVars, readerVars
  <2> QED
    BY <1>5, <1>7, <2>1 DEF PushIsLost, SomeReady
<1>8. CASE Expire /\ UNCHANGED feedVars
  BY <1>8 DEF Expire, writerVars, readerVars, feedVars, SomeReady
<1> QED
  BY <1>1, <1>2, <1>3, <1>4, <1>6, <1>7, <1>8 DEF Next

LEMMA ReadyStep == ReadyInv /\ [Next]_vars => ReadyInv'
<1> SUFFICES ASSUME ReadyInv, [Next]_vars, OneEncode
             PROVE  SettledByAll' /\ (SomeReady' => DocReady')
  BY FeedTypeStep DEF ReadyInv, OneEncode
<1>1. FeedTypeOK /\ SettledByAll /\ (SomeReady => DocReady)
  BY DEF ReadyInv
<1>2. CASE UNCHANGED vars
  BY <1>1, <1>2
     DEF vars, cacheVars, writerVars, readerVars, feedVars, SettledByAll, SomeReady, DocReady
<1>3. CASE Next
  <2>1. SettledByAll' /\ (DocReady => DocReady')
    <3>1. CASE WriterStep
      BY <1>1, <3>1, StatusStep
    <3>2. CASE ~WriterStep
      BY <1>1, <3>2, FeedStepIsCacheStep, NoOtherWrite DEF SettledByAll, DocReady
    <3> QED
      BY <3>1, <3>2
  <2>2. CASE DocReady
    BY <2>1, <2>2
  <2>3. CASE ~DocReady
    BY <1>1, <1>3, <2>1, <2>3, ReadyWrite, ReadyPassedOn
  <2> QED
    BY <2>1, <2>2, <2>3
<1> QED
  BY <1>2, <1>3

\* Neither a refresh, however late, nor a push shows "ready" before Mongo has it.
THEOREM ReadyStored == Spec => []ReadyIsStored
<1>1. ReadyInv => ReadyIsStored
  <2> SUFFICES ASSUME ReadyInv, OneEncode, Shown = "ready" PROVE DocReady
    BY DEF ReadyIsStored, DocReady
  <2>1. "ready" \in {video, pollWatch, wsWatch}
    BY NothingAssumption DEF Shown, EffectiveVideoStatus, Watch
  <2> QED
    BY <2>1 DEF ReadyInv, SomeReady
<1> QED
  BY <1>1, ReadyInit, ReadyStep, PTL DEF Spec

-----------------------------------------------------------------------------
(* The end of the encode is the last push there is.                        *)

EndOfEncode == {"ready", "failed"}

Announced == \A e \in Encoders : wstage[e] \in {"del", "done"}

EndIsLast ==
    /\ \A i \in DOMAIN pushes : pushes[i] \in EndOfEncode => i = Len(pushes) /\ Announced
    /\ wsWatch \in EndOfEncode => pushes = <<>> /\ Announced

EndInv == FeedTypeOK /\ (OneEncode => EndIsLast)

LEMMA EndInit == Init => EndInv
  BY FeedTypeInit, NothingAssumption DEF Init, EndInv, EndIsLast, EndOfEncode

\* An encode that has announced its end has only its DEL to make.
LEMMA AnnouncedStays ==
    ASSUME FeedTypeOK, [CacheNext]_cacheVars, Announced
    PROVE  Announced'
<1>1. ASSUME NEW e \in Encoders PROVE wstage'[e] \in {"del", "done"}
  <2>1. wstage[e] \in {"del", "done"} /\ e \in Writers /\ e \notin Patchers /\ e \notin Removers
    BY CacheAssumption DEF Announced, Writers
  <2>2. CASE WriterStep
    BY <2>1, <2>2 DEF WriterStep, PatchWrite, PatchReadBack, MarkStatus, FindForDelete, DeleteByID,
                      Del, WriterTo, FeedTypeOK, TypeOK
  <2>3. CASE \E x \in Encoders : Push(x)
    BY <2>1, <2>3 DEF Push, WriterTo, FeedTypeOK, TypeOK
  <2>4. CASE \/ Expire \/ UNCHANGED cacheVars
             \/ \E r \in Readers : Request(r) \/ ReaderStep(r) \/ Answered(r)
    BY <2>1, <2>4 DEF Expire, Request, ReaderStep, CacheGet, MongoRead, CacheSet, Answered,
                      writerVars, cacheVars
  <2> QED
    BY <2>2, <2>3, <2>4 DEF CacheNext
<1> QED
  BY <1>1 DEF Announced

LEMMA EndStep == EndInv /\ [Next]_vars => EndInv'
<1> SUFFICES ASSUME EndInv, [Next]_vars, OneEncode PROVE EndIsLast'
  BY FeedTypeStep DEF EndInv, OneEncode
<1>1. FeedTypeOK /\ EndIsLast /\ (Announced => Announced')
  BY FeedStepIsCacheStep, AnnouncedStays DEF EndInv
<1>2. ASSUME NEW e \in Encoders, Announce(e) PROVE EndIsLast'
  <2>1. ~Announced
    BY <1>2 DEF Announce, Push, Announced
  <2>2. Announced'
    <3>1. wstage'[e] = "del"
      BY <1>1, <1>2 DEF Announce, Push, WriterTo, FeedTypeOK, TypeOK, Writers
    <3> QED
      BY <3>1 DEF OneEncode, Announced
  <2>3. wsWatch' \notin EndOfEncode
    BY <1>1, <1>2, <2>1 DEF EndIsLast, Announce
  <2>4. \A i \in DOMAIN pushes' : i = Len(pushes') \/ pushes'[i] \notin EndOfEncode
    BY <1>1, <1>2, <2>1 DEF EndIsLast, Announce, FeedTypeOK
  <2> QED
    BY <2>2, <2>3, <2>4 DEF EndIsLast
<1>3. ASSUME pushes # <<>>, pushes' = Tail(pushes)
      PROVE  /\ \A i \in DOMAIN pushes' :
                    pushes'[i] \in EndOfEncode => i = Len(pushes') /\ Announced'
             /\ Head(pushes) \in EndOfEncode => pushes' = <<>> /\ Announced'
             /\ wsWatch \notin EndOfEncode
  <2>1. wsWatch \notin EndOfEncode
    BY <1>1, <1>3 DEF EndIsLast
  <2>2. \A i \in DOMAIN pushes' : i + 1 \in DOMAIN pushes /\ pushes'[i] = pushes[i + 1]
    BY <1>1, <1>3 DEF FeedTypeOK
  <2>3. Len(pushes') = Len(pushes) - 1 /\ Len(pushes) \in Nat /\ DOMAIN pushes' \subseteq Nat
    BY <1>1, <1>3 DEF FeedTypeOK
  <2>4. Head(pushes) = pushes[1] /\ 1 \in DOMAIN pushes /\ (Len(pushes) = 1 => pushes' = <<>>)
    BY <1>1, <1>3 DEF FeedTypeOK
  <2>5. \A i \in DOMAIN pushes : pushes[i] \in EndOfEncode => i = Len(pushes) /\ Announced'
    BY <1>1 DEF EndIsLast
  <2> QED
    BY <2>1, <2>2, <2>3, <2>4, <2>5
<1>4. CASE PushIsLost \/ \E r \in Readers : PushArrives(r)
  BY <1>3, <1>4 DEF PushIsLost, PushArrives, EndIsLast
<1>5. CASE UNCHANGED <<wsWatch, pushes>>
  BY <1>1, <1>5 DEF EndIsLast
<1>6. \/ (\E e \in Encoders : Announce(e)) \/ PushIsLost \/ (\E r \in Readers : PushArrives(r))
      \/ UNCHANGED <<wsWatch, pushes>>
  BY DEF Next, Refresh, GetVideoStep, WatchRead, RequestFails, Apply, vars, feedVars
<1> QED
  BY <1>2, <1>4, <1>5, <1>6

LEMMA ShownStep ==
    ASSUME EndInv, [Next]_vars, OneEncode, wsWatch \in EndOfEncode, Shown # Nothing
    PROVE  Shown' = wsWatch
<1>1. FeedTypeOK /\ pushes = <<>> /\ Announced
  BY DEF EndInv, EndIsLast
<1>2. wsWatch' = wsWatch
  BY <1>1 DEF Next, Announce, Refresh, GetVideoStep, WatchRead, RequestFails, Apply, PushArrives,
              PushIsLost, vars, feedVars
<1>3. video # Nothing
  BY DEF Shown
<1>4. video' # Nothing
  <2>1. ASSUME NEW r \in Readers, Apply(r) PROVE video' # Nothing
    BY <1>1, <1>3, <2>1, StatusFact DEF Apply, FeedTypeOK, TypeOK
  <2>2. (\E r \in Readers : Apply(r)) \/ video' = video
    BY DEF Next, Announce, Refresh, GetVideoStep, WatchRead, RequestFails, PushArrives,
           PushIsLost, vars, feedVars
  <2> QED
    BY <1>3, <2>1, <2>2
<1> QED
  BY <1>2, <1>4, NothingAssumption DEF Shown, EffectiveVideoStatus, Watch, EndOfEncode

\* Once a push has shown the end of the encode, no answer, late or stale, and no
\* other push hides it.
THEOREM EndSticks == Spec => EndOfEncodeSticks
<1>1. EndInv /\ [Next]_vars
        => [OneEncode /\ wsWatch \in {"ready", "failed"} /\ Shown # Nothing => Shown' = wsWatch]_vars
  BY ShownStep DEF EndOfEncode
<1> QED
  BY <1>1, EndInit, EndStep, PTL DEF Spec, EndOfEncodeSticks
=============================================================================
