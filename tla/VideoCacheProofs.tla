-------------------------- MODULE VideoCacheProofs --------------------------
(* What VideoCache promises of the entry of a video, for any number of       *)
(* PATCH, DELETE and GET requests and of encodes, and any faults.            *)
EXTENDS VideoCache, TLAPS

Deleting == \E d \in Removers : wstage[d] = "delete"

\* A GET that nothing has crossed is about to fill the entry with the document as
\* it is, and no DELETE has made its DEL already.
CopyFresh ==
    \A r \in Readers : rstage[r] = "set" /\ r \notin crossed => copy[r] = doc /\ ~Deleting

\* DeletedHasNoEntry from the moment the DELETE has made its DEL.
LeavingHasNoEntry == (doc = NoDoc \/ Deleting) /\ ~tainted /\ ~missed => entry = NoEntry

CacheInv == TypeOK /\ CopyFresh /\ LeavingHasNoEntry /\ CacheCoherent

-----------------------------------------------------------------------------
LEMMA DocumentFact ==
    ASSUME NEW d \in Documents, NEW s \in {"processing", "ready", "failed"}, NEW p \in Patchers
    PROVE  [d EXCEPT !.status = s] \in Documents /\ [d EXCEPT !.by = p] \in Documents
  BY DEF Documents

LEMMA TypeInit == CacheInit => TypeOK
<1> SUFFICES ASSUME CacheInit PROVE TypeOK
  OBVIOUS
<1>1. doc \in Documents
  BY DEF CacheInit, Documents
<1>2. /\ wstage \in [Writers -> {"idle", "written", "push", "del", "delete", "done"}]
      /\ \A w \in Writers : wstage[w] = "idle"
      /\ outcome \in [Encoders -> {"processing", "ready", "failed"}]
  BY DEF CacheInit
<1>3. /\ rstage \in [Readers -> {"idle", "get", "mongo", "set", "answered"}]
      /\ \A r \in Readers : rstage[r] = "idle"
      /\ copy \in [Readers -> Documents \cup {NoDoc}]
  BY DEF CacheInit
<1>4. entry = NoEntry /\ crossed = {} /\ tainted \in BOOLEAN /\ missed \in BOOLEAN
  BY DEF CacheInit
<1> QED
  BY <1>1, <1>2, <1>3, <1>4 DEF TypeOK

LEMMA TypePatch ==
    ASSUME TypeOK, NEW p \in Patchers, PatchWrite(p) \/ PatchReadBack(p)
    PROVE  TypeOK'
<1>1. doc # NoDoc => [doc EXCEPT !.by = p] \in Documents
  BY DocumentFact DEF TypeOK, Documents
<1>2. doc' \in Documents \cup {NoDoc} /\ crossed' \subseteq Readers
  BY <1>1 DEF TypeOK, PatchWrite, PatchReadBack, Lands, Fades, Overtakes
<1>3. wstage' \in [Writers -> {"idle", "written", "push", "del", "delete", "done"}]
  BY DEF TypeOK, PatchWrite, PatchReadBack, WriterTo
<1>4. /\ \A w \in Writers \ {p} : wstage'[w] = wstage[w]
      /\ wstage'[p] \in {"written", "del", "done"}
  BY DEF TypeOK, PatchWrite, PatchReadBack, WriterTo, Writers
<1>5. missed' \in BOOLEAN
  BY DEF TypeOK, PatchWrite, PatchReadBack
<1> QED
  BY <1>2, <1>3, <1>4, <1>5
     DEF TypeOK, PatchWrite, PatchReadBack, readerVars

LEMMA TypeMark ==
    ASSUME TypeOK, NEW e \in Encoders, NEW s \in {"ready", "failed"}, MarkStatus(e, s)
    PROVE  TypeOK'
<1>1. doc # NoDoc => [doc EXCEPT !.status = s] \in Documents
  BY DEF TypeOK, Documents
<1>2. doc' \in Documents \cup {NoDoc} /\ crossed' \subseteq Readers
  BY <1>1 DEF TypeOK, MarkStatus, Lands, Fades, Overtakes
<1>3. /\ wstage' \in [Writers -> {"idle", "written", "push", "del", "delete", "done"}]
      /\ \A w \in Writers \ {e} : wstage'[w] = wstage[w]
      /\ wstage'[e] \in {"push", "done"}
  BY DEF TypeOK, MarkStatus, WriterTo, Writers
<1>4. missed' \in BOOLEAN /\ outcome' \in [Encoders -> {"processing", "ready", "failed"}]
  BY DEF TypeOK, MarkStatus
<1> QED
  BY <1>2, <1>3, <1>4 DEF TypeOK, MarkStatus, readerVars

LEMMA TypeAfterWrite ==
    ASSUME TypeOK,
           \/ \E e \in Encoders : Push(e)
           \/ \E d \in Removers : FindForDelete(d) \/ DeleteByID(d)
           \/ \E w \in Writers : Del(w)
           \/ Expire
    PROVE  TypeOK'
<1>1. ASSUME NEW e \in Encoders, Push(e) PROVE TypeOK'
  BY <1>1 DEF TypeOK, Push, WriterTo, Writers, readerVars
<1>2. ASSUME NEW d \in Removers, FindForDelete(d) PROVE TypeOK'
  BY <1>2 DEF TypeOK, FindForDelete, WriterTo, Writers, readerVars
<1>3. ASSUME NEW d \in Removers, DeleteByID(d) PROVE TypeOK'
  BY <1>3 DEF TypeOK, DeleteByID, Lands, Fades, Overtakes, WriterTo, Writers, readerVars
<1>4. ASSUME NEW w \in Writers, Del(w) PROVE TypeOK'
  BY <1>4 DEF TypeOK, Del, Overtakes, WriterTo, Writers, readerVars
<1>5. CASE Expire
  BY <1>5 DEF TypeOK, Expire, writerVars, readerVars
<1> QED
  BY <1>1, <1>2, <1>3, <1>4, <1>5

LEMMA TypeRead ==
    ASSUME TypeOK, NEW r \in Readers, Request(r) \/ ReaderStep(r) \/ Answered(r)
    PROVE  TypeOK'
<1>1. CASE Request(r) \/ Answered(r)
  BY <1>1 DEF TypeOK, Request, Answered, ReaderTo, writerVars
<1>2. CASE CacheGet(r)
  BY <1>2, NoneAssumption DEF TypeOK, CacheGet, ReaderTo, writerVars
<1>3. CASE MongoRead(r)
  BY <1>3 DEF TypeOK, MongoRead, ReaderTo, writerVars
<1>4. CASE CacheSet(r)
  <2>1. copy[r] \in Documents /\ entry' \in Documents \cup {NoEntry}
    BY <1>4 DEF TypeOK, CacheSet
  <2>2. tainted' \in BOOLEAN
    <3>1. tainted' = (r \in crossed) \/ tainted' = tainted
      BY <1>4 DEF CacheSet
    <3>2. (r \in crossed) \in BOOLEAN
      OBVIOUS
    <3> QED
      BY <3>1, <3>2, Zenon DEF TypeOK
  <2>3. /\ rstage' = [rstage EXCEPT ![r] = "answered"] /\ copy' = [copy EXCEPT ![r] = copy[r]]
        /\ crossed' = crossed \ {r} /\ UNCHANGED <<doc, wstage, outcome, missed>>
    BY <1>4 DEF CacheSet, ReaderTo, writerVars
  <2> QED
    BY <2>1, <2>2, <2>3 DEF TypeOK
<1> QED
  BY <1>1, <1>2, <1>3, <1>4 DEF ReaderStep

LEMMA TypeStep == TypeOK /\ [CacheNext]_cacheVars => TypeOK'
<1> SUFFICES ASSUME TypeOK, [CacheNext]_cacheVars PROVE TypeOK'
  OBVIOUS
<1>1. CASE CacheNext
  BY <1>1, TypePatch, TypeMark, TypeAfterWrite, TypeRead DEF CacheNext, WriterStep
<1>2. CASE UNCHANGED cacheVars
  BY <1>2 DEF TypeOK, cacheVars, writerVars, readerVars
<1> QED
  BY <1>1, <1>2

\* The state of the cache's writers, readers and history stays of its types.
THEOREM TypeCorrect == CacheSpec => []TypeOK
<1> QED
  BY TypeInit, TypeStep, PTL DEF CacheSpec

-----------------------------------------------------------------------------
LEMMA CacheInvInit == CacheInit => CacheInv
  BY TypeInit DEF CacheInit, CacheInv, CopyFresh, LeavingHasNoEntry, CacheCoherent

\* A PATCH or an encode leaves the entry, and no DELETE gets any further.
LEMMA CoherentWrite ==
    ASSUME CacheInv, NEW w \in Patchers \cup Encoders,
           \/ w \in Patchers /\ (PatchWrite(w) \/ PatchReadBack(w))
           \/ w \in Encoders /\ \E s \in {"ready", "failed"} : MarkStatus(w, s)
           \/ w \in Encoders /\ Push(w)
    PROVE  CopyFresh' /\ LeavingHasNoEntry' /\ CacheCoherent'
<1> USE DEF PatchWrite, PatchReadBack, MarkStatus, Push, WriterTo
<1>1. UNCHANGED <<entry, rstage, copy, tainted>>
  BY DEF readerVars
<1>2. \A x \in Writers \ {w} : wstage'[x] = wstage[x]
  BY DEF CacheInv, TypeOK
<1>3. Deleting' <=> Deleting
  BY <1>2, CacheAssumption DEF Deleting, Writers
<1>4. \/ doc' = doc /\ crossed' = crossed
      \/ doc # NoDoc /\ doc' # NoDoc /\ crossed' = {r \in Readers : rstage[r] = "set"}
  <2>1. ASSUME doc # NoDoc, NEW s \in {"ready", "failed"}
        PROVE  [doc EXCEPT !.status = s] # NoDoc
    BY <2>1, NoneAssumption DEF CacheInv, TypeOK, Documents
  <2>2. ASSUME doc # NoDoc, w \in Patchers PROVE [doc EXCEPT !.by = w] # NoDoc
    BY <2>2, NoneAssumption DEF CacheInv, TypeOK, Documents
  <2> QED
    BY <2>1, <2>2 DEF Lands, Fades, Overtakes
<1>5. CopyFresh'
  BY <1>1, <1>3, <1>4 DEF CacheInv, CopyFresh
<1>6. missed => missed'
  OBVIOUS
<1>7. LeavingHasNoEntry'
  BY <1>1, <1>3, <1>4, <1>6 DEF CacheInv, LeavingHasNoEntry
<1>8. wstage'[w] \in {"written", "push", "del"} \/ missed' \/ doc' = NoDoc \/ (doc' = doc /\ ~Writing)
  BY DEF CacheInv, TypeOK, Writers, Fades
<1>9. CacheCoherent'
  BY <1>1, <1>4, <1>7, <1>8 DEF CacheInv, CacheCoherent, Writing, LeavingHasNoEntry
<1> QED
  BY <1>5, <1>7, <1>9

\* Entries go, by a DEL or by the TTL.
LEMMA CoherentDel ==
    ASSUME CacheInv, (\E w \in Writers : Del(w)) \/ Expire
    PROVE  CopyFresh' /\ LeavingHasNoEntry' /\ CacheCoherent'
<1>1. CASE Expire
  BY <1>1 DEF Expire, CacheInv, CopyFresh, LeavingHasNoEntry, CacheCoherent, Deleting, Writing,
              writerVars, readerVars
<1>2. ASSUME NEW w \in Writers, Del(w) PROVE CopyFresh' /\ LeavingHasNoEntry' /\ CacheCoherent'
  <2>1. UNCHANGED <<doc, rstage, copy>>
    BY <1>2 DEF Del, readerVars
  <2>2. \A x \in Writers \ {w} : wstage'[x] = wstage[x]
    BY <1>2 DEF Del, WriterTo, CacheInv, TypeOK
  <2>3. CopyFresh'
    <3>1. CASE w \in Removers
      BY <1>2, <2>1, <3>1 DEF Del, Overtakes, CopyFresh
    <3>2. CASE w \notin Removers
      <4>1. Deleting' => Deleting
        BY <2>2, <3>2 DEF Deleting, Writers
      <4> QED
        BY <1>2, <2>1, <3>2, <4>1 DEF Del, CacheInv, CopyFresh
    <3> QED
      BY <3>1, <3>2
  <2>4. missed' \/ entry' = NoEntry
    BY <1>2 DEF Del
  <2> QED
    BY <2>3, <2>4 DEF LeavingHasNoEntry, CacheCoherent
<1> QED
  BY <1>1, <1>2

\* The two ends of a DELETE.
LEMMA CoherentDelete ==
    ASSUME CacheInv, NEW d \in Removers, FindForDelete(d) \/ DeleteByID(d)
    PROVE  CopyFresh' /\ LeavingHasNoEntry' /\ CacheCoherent'
<1>1. /\ UNCHANGED <<entry, rstage, copy, tainted, missed>>
      /\ \A x \in Writers \ {d} : wstage'[x] = wstage[x]
      /\ wstage'[d] \in {"del", "done"}
  BY DEF FindForDelete, DeleteByID, WriterTo, readerVars, CacheInv, TypeOK, Writers
<1>2. Deleting' => Deleting
  BY <1>1 DEF Deleting, Writers
<1>3. Writing' <=> Writing
  BY <1>1, CacheAssumption DEF Writing, Writers
<1>4. CASE UNCHANGED <<doc, crossed>>
  BY <1>1, <1>2, <1>3, <1>4 DEF CacheInv, CopyFresh, LeavingHasNoEntry, CacheCoherent
<1>5. CASE DeleteByID(d) /\ Lands(NoDoc)
  <2>1. Deleting
    BY <1>5 DEF DeleteByID, Deleting
  <2>2. CopyFresh'
    BY <1>1, <1>5 DEF Lands, Overtakes, CopyFresh
  <2>3. ~tainted /\ ~missed => entry = NoEntry
    BY <2>1 DEF CacheInv, LeavingHasNoEntry
  <2> QED
    BY <1>1, <2>2, <2>3 DEF LeavingHasNoEntry, CacheCoherent
<1> QED
  BY <1>4, <1>5 DEF FindForDelete, DeleteByID, Fades

\* GETs: only the last step of one touches the entry.
LEMMA CoherentRead ==
    ASSUME CacheInv, NEW r \in Readers, Request(r) \/ ReaderStep(r) \/ Answered(r)
    PROVE  CopyFresh' /\ LeavingHasNoEntry' /\ CacheCoherent'
<1>1. UNCHANGED <<doc, wstage, missed>>
  BY DEF Request, ReaderStep, CacheGet, MongoRead, CacheSet, Answered, writerVars
<1>2. (Deleting' <=> Deleting) /\ (Writing' <=> Writing)
  BY <1>1 DEF Deleting, Writing
<1>3. \A x \in Readers \ {r} : rstage'[x] = rstage[x] /\ copy'[x] = copy[x]
  BY DEF Request, ReaderStep, CacheGet, MongoRead, CacheSet, Answered, ReaderTo, CacheInv, TypeOK
<1>4. CASE Request(r) \/ CacheGet(r) \/ Answered(r)
  <2>1. UNCHANGED <<entry, crossed, tainted>> /\ rstage'[r] # "set"
    BY <1>4 DEF Request, CacheGet, Answered, ReaderTo, CacheInv, TypeOK
  <2> QED
    BY <1>1, <1>2, <1>3, <2>1 DEF CacheInv, CopyFresh, LeavingHasNoEntry, CacheCoherent
<1>5. CASE MongoRead(r)
  <2>1. UNCHANGED <<entry, tainted>> /\ copy'[r] = doc
    BY <1>5 DEF MongoRead, ReaderTo, CacheInv, TypeOK
  <2>2. crossed \subseteq crossed' /\ (rstage'[r] = "set" /\ Deleting => r \in crossed')
    BY <1>5 DEF MongoRead, ReaderTo, Deleting, CacheInv, TypeOK
  <2> QED
    BY <1>1, <1>2, <1>3, <2>1, <2>2 DEF CacheInv, CopyFresh, LeavingHasNoEntry, CacheCoherent
<1>6. CASE CacheSet(r)
  <2>1. rstage[r] = "set" /\ rstage'[r] = "answered" /\ crossed' = crossed \ {r}
    BY <1>6 DEF CacheSet, ReaderTo, CacheInv, TypeOK
  <2>2. CopyFresh'
    BY <1>1, <1>2, <1>3, <2>1 DEF CacheInv, CopyFresh
  <2>3. CASE UNCHANGED <<entry, tainted>>
    BY <1>1, <1>2, <2>2, <2>3 DEF CacheInv, LeavingHasNoEntry, CacheCoherent
  <2>4. CASE entry' = copy[r] /\ tainted' = (r \in crossed)
    <3>1. CASE r \in crossed
      BY <2>2, <2>4, <3>1 DEF LeavingHasNoEntry, CacheCoherent
    <3>2. CASE r \notin crossed
      <4>1. copy[r] = doc /\ doc # NoDoc /\ ~Deleting
        BY <2>1, <3>2 DEF CacheInv, CopyFresh, TypeOK
      <4> QED
        BY <1>1, <1>2, <2>2, <2>4, <4>1 DEF LeavingHasNoEntry, CacheCoherent
    <3> QED
      BY <3>1, <3>2
  <2> QED
    BY <1>6, <2>3, <2>4 DEF CacheSet
<1> QED
  BY <1>4, <1>5, <1>6 DEF ReaderStep

LEMMA CacheInvStep == CacheInv /\ [CacheNext]_cacheVars => CacheInv'
<1> SUFFICES ASSUME CacheInv, [CacheNext]_cacheVars PROVE CacheInv'
  OBVIOUS
<1>1. TypeOK'
  BY TypeStep DEF CacheInv
<1>2. CASE CacheNext
  <2>1. CopyFresh' /\ LeavingHasNoEntry' /\ CacheCoherent'
    BY <1>2, CoherentWrite, CoherentDel, CoherentDelete, CoherentRead DEF CacheNext, WriterStep
  <2> QED
    BY <1>1, <2>1 DEF CacheInv
<1>3. CASE UNCHANGED cacheVars
  BY <1>1, <1>3
     DEF cacheVars, writerVars, readerVars, CacheInv, CopyFresh, LeavingHasNoEntry, CacheCoherent,
         Deleting, Writing
<1> QED
  BY <1>2, <1>3

\* When nothing is half-way the entry is the document or nothing, save for a GET
\* that a writer overtook and a DEL that failed or was never made.
THEOREM Coherent == CacheSpec => []CacheCoherent
<1>1. CacheInv => CacheCoherent
  BY DEF CacheInv
<1> QED
  BY <1>1, CacheInvInit, CacheInvStep, PTL DEF CacheSpec

\* With the same exceptions a deleted video has no entry.
THEOREM DeletedLeavesNoEntry == CacheSpec => []DeletedHasNoEntry
<1>1. CacheInv => DeletedHasNoEntry
  BY DEF CacheInv, LeavingHasNoEntry, DeletedHasNoEntry
<1> QED
  BY <1>1, CacheInvInit, CacheInvStep, PTL DEF CacheSpec
=============================================================================
