-------------------------- MODULE SearchSyncProofs --------------------------
(* What SearchSync promises, for any writers, clocks, consumers and faults. *)
EXTENDS SearchSync, FiniteSetTheorems, TLAPS

\* The writes that have landed, as landed numbers them.
Landed == {x \in Writers : landed[x] > 0}

\* A writer is through before it has an event, a message waits only as long as it
\* may be received again, and a DELETE neither takes the time nor reads back.
QueueSane ==
    \A w \in Writers :
        /\ w \in Removers => wstage[w] \notin {"stamped", "written"}
        /\ wstage[w] # "done" => event[w] = "none"
        /\ event[w] = "none" => receives[w] = 0
        /\ event[w] = "visible" => receives[w] < MaxReceives

\* A consumer holds an event that was published.
HeldSent == \A c \in Consumers : cevent[c] # NoWriter => event[cevent[c]] # "none"

TypeInv == TypeOK /\ QueueSane /\ HeldSent /\ IsFiniteSet(Landed)

-----------------------------------------------------------------------------
(* The order of the writes.                                                *)

\* A writer writes once, and the document is the last write of all.
WroteOnce ==
    /\ \A w \in Writers : wstage[w] \in {"idle", "stamped"} => landed[w] = 0
    /\ \A w \in Writers : landed[w] <= Cardinality(Landed)
    /\ doc # NoWriter => landed[doc] > 0 /\ landed[doc] = Cardinality(Landed)

\* What the index, a consumer and a backfill have was the document once.
Known(w) == w # NoWriter => landed[w] > 0
StatesKnown ==
    /\ Known(index)
    /\ \A c \in Consumers : Known(cread[c])
    /\ \A b \in Backfills : Known(bcopy[b])
    /\ \A c \in Consumers : cstage[c] = "upsert" => cread[c] # NoWriter

NoBackfill == \A b \in Backfills : bstage[b] = "idle"

\* What the only consumer has read is no older than what is indexed.
ReadsOn ==
    OneConsumer /\ NoBackfill /\ index # NoWriter =>
        \A c \in Consumers : cstage[c] = "upsert" => landed[cread[c]] >= landed[index]

OrderInv == WroteOnce /\ StatesKnown /\ ReadsOn

-----------------------------------------------------------------------------
(* The deletion.                                                           *)

\* The document is inserted before anything else happens to the video ...
Begun == wstage[Creator] \notin {"idle", "stamped"}
BegunFirst ==
    /\ doc # NoWriter => Begun
    /\ \A w \in Writers \ {Creator} : wstage[w] # "idle" => Begun

\* ... and stays away when it is deleted.
GoneKnown ==
    /\ \A w \in Removers : wstage[w] = "publishing" \/ event[w] # "none" => doc = NoWriter
    /\ \A c \in Consumers : cstage[c] \in {"unindex", "clear"} => doc = NoWriter
    /\ \A c \in Consumers : cevent[c] \in Removers => cstage[c] \in {"unindex", "clear", "ack"}

\* The index is clear of the video, or a backfill has put it back.
Cleared == index = NoWriter \/ passed
ClearedInTime ==
    OneConsumer =>
        /\ \A c \in Consumers : cstage[c] = "clear" => Cleared
        /\ \A c \in Consumers : cstage[c] = "ack" /\ cevent[c] \in Removers => Cleared
        /\ \A w \in Removers :
               event[w] = "deleted" => Cleared /\ \A c \in Consumers : cstage[c] # "upsert"

DeleteInv == BegunFirst /\ GoneKnown /\ ClearedInTime

-----------------------------------------------------------------------------
(* The last write.                                                         *)

\* No version is above readUpTo that got past the read.
UpTo ==
    /\ committed <= readUpTo /\ floor <= readUpTo
    /\ \A c \in Consumers : cstage[c] \in {"upsert", "get", "set"} => version[cevent[c]] <= readUpTo
    /\ doc # NoWriter =>
         \A c \in Consumers : cstage[c] = "ack" => version[cevent[c]] <= readUpTo

\* A document that a write has overtaken was read for an event below the floor,
\* before the event of that write was handled.
OvertakenBelow ==
    OneConsumer /\ doc # NoWriter =>
        \A c \in Consumers : cstage[c] = "upsert" /\ cread[c] # doc =>
            version[cevent[c]] <= floor /\ committed <= floor /\ event[doc] # "deleted"

\* A version above the floor has brought the document into the index.
Has == index = doc \/ passed
AboveFloorHas ==
    OneConsumer /\ doc # NoWriter =>
        /\ \A c \in Consumers :
               cstage[c] \in {"get", "set", "ack"} /\ version[cevent[c]] > floor => Has
        /\ committed > floor => Has
        /\ event[doc] = "deleted" /\ version[doc] > floor => Has

FreshInv == UpTo /\ OvertakenBelow /\ AboveFloorHas

IInv == TypeInv /\ OrderInv /\ DeleteInv /\ FreshInv

-----------------------------------------------------------------------------
(* What the steps do.                                                      *)

ConsumerStep(c) == HandleStep(c) \/ ConsumerFails(c) \/ \E w \in Writers : Receive(c, w)
BackfillStep(b) == Scan(b) \/ BulkIndex(b)

LEMMA NextFact ==
    Next <=> \/ \E w \in Writers : WriterStep(w)
             \/ \E w \in Writers : VisibilityExpires(w)
             \/ \E c \in Consumers : ConsumerStep(c)
             \/ \E b \in Backfills : BackfillStep(b)
  BY DEF Next, ConsumerStep, BackfillStep

LEMMA WritersFact ==
    /\ Creator \in Writers /\ NoWriter \notin Writers
    /\ Creator \notin Removers /\ Creator \notin Patchers /\ Creator \notin Encoders
    /\ Patchers \subseteq Writers /\ Encoders \subseteq Writers /\ Removers \subseteq Writers
    /\ \A w \in Removers : w \notin Patchers /\ w \notin Encoders
    /\ \A w \in Patchers : w \notin Encoders
    /\ MaxReceives \in Nat /\ MaxReceives > 0
  BY SyncAssumption DEF Writers

\* A handled event has a writer, whose event it is.
LEMMA HasEvent ==
    ASSUME TypeInv, NEW c \in Consumers, cstage[c] # "idle"
    PROVE  cevent[c] \in Writers /\ event[cevent[c]] # "none" /\ wstage[cevent[c]] = "done"
  BY DEF TypeInv, TypeOK, HeldSent, QueueSane

\* The three things a writer may do to the document.
Keeps == UNCHANGED <<doc, floor, landed>>
LandsAs(w) ==
    /\ wstage[w] = "stamped" /\ (w = Creator \/ doc # NoWriter)
    /\ doc' = w
    /\ floor' = readUpTo
    /\ landed' = [landed EXCEPT ![w] = 1 + Cardinality(Landed)]
Goes(w) ==
    /\ w \in Removers /\ wstage[w] = "idle" /\ doc # NoWriter
    /\ doc' = NoWriter
    /\ floor' = readUpTo
    /\ UNCHANGED landed

LEMMA WriterDoc ==
    ASSUME NEW w \in Writers, WriterStep(w)
    PROVE  Keeps \/ LandsAs(w) \/ Goes(w)
<1>1. CASE TakeTime(w) \/ ReadBack(w) \/ Publish(w)
  BY <1>1 DEF TakeTime, ReadBack, Publish, Keeps, historyVars
<1>2. CASE Write(w)
  BY <1>2 DEF Write, Finds, Fades, Lands, Keeps, LandsAs, Landed, historyVars
<1>3. CASE Remove(w)
  BY <1>3 DEF Remove, Fades, Keeps, Goes, historyVars
<1> QED
  BY <1>1, <1>2, <1>3 DEF WriterStep

\* Where a writer goes from where.
LEMMA WriterGoes ==
    ASSUME TypeInv, NEW w \in Writers, WriterStep(w)
    PROVE  /\ wstage' \in [Writers -> {"idle", "stamped", "written", "publishing", "done", "failed"}]
           /\ \A x \in Writers \ {w} : wstage'[x] = wstage[x]
           /\ wstage[w] # "done" /\ wstage'[w] # "idle"
           /\ wstage'[w] = "stamped" => wstage[w] = "idle" /\ Keeps
           /\ wstage[w] = "idle" => MayStart(w)
           /\ w \in Removers /\ wstage'[w] = "publishing" => doc' = NoWriter
           /\ UNCHANGED <<receives, consumerVars, searchVars>>
<1> USE WritersFact DEF WriterTo, Fails, TypeInv, TypeOK, queueVars
<1>1. CASE TakeTime(w)
  BY <1>1 DEF TakeTime, Keeps, historyVars
<1>2. CASE Write(w)
  <2>1. PICK s \in {"written", "publishing", "done", "failed"} : wstage' = [wstage EXCEPT ![w] = s]
    BY <1>2 DEF Write
  <2>2. wstage[w] = "stamped" /\ UNCHANGED <<receives, consumerVars, searchVars>>
    BY <1>2 DEF Write
  <2>3. w \notin Removers
    BY <2>2 DEF QueueSane
  <2> QED
    BY <2>1, <2>2, <2>3
<1>3. CASE ReadBack(w)
  <2>1. PICK s \in {"publishing", "done", "failed"} : wstage' = [wstage EXCEPT ![w] = s]
    BY <1>3 DEF ReadBack
  <2>2. wstage[w] = "written" /\ UNCHANGED <<receives, consumerVars, searchVars>>
    BY <1>3 DEF ReadBack
  <2>3. w \notin Removers
    BY <2>2 DEF QueueSane
  <2> QED
    BY <2>1, <2>2, <2>3
<1>4. CASE Remove(w)
  BY <1>4 DEF Remove, Fades
<1>5. CASE Publish(w)
  BY <1>5 DEF Publish
<1> QED
  BY <1>1, <1>2, <1>3, <1>4, <1>5 DEF WriterStep

\* Only a writer that publishes gets an event, and a new one at that.
LEMMA WriterEvent ==
    ASSUME TypeInv, NEW w \in Writers, WriterStep(w)
    PROVE  \/ UNCHANGED <<event, version>>
           \/ /\ Keeps /\ wstage[w] = "publishing" /\ wstage'[w] = "done"
              /\ event' = [event EXCEPT ![w] = "visible"]
              /\ version' \in [Writers -> Nat]
              /\ \A x \in Writers \ {w} : version'[x] = version[x]
<1>1. CASE TakeTime(w) \/ Write(w) \/ ReadBack(w) \/ Remove(w)
  BY <1>1 DEF TakeTime, Write, ReadBack, Remove, queueVars
<1>2. CASE Publish(w)
  <2>1. EventVersion(w) \in Nat
    BY SyncAssumption DEF EventVersion, Now, TypeInv, TypeOK
  <2>2. Keeps /\ wstage[w] = "publishing" /\ wstage'[w] = "done"
    BY <1>2 DEF Publish, WriterTo, Keeps, historyVars, TypeInv, TypeOK
  <2> QED
    BY <1>2, <2>1, <2>2 DEF Publish, TypeInv, TypeOK
<1> QED
  BY <1>1, <1>2 DEF WriterStep

LEMMA RestBelow ==
    ASSUME NEW t \in Nat, NEW m \in Nat, m > 0
    PROVE  t % m \in Nat /\ t % m <= t
  OBVIOUS

LEMMA TruncateType ==
    ASSUME NEW t \in Nat
    PROVE  Truncate(t) \in Nat
<1>1. MsTicks \in Nat /\ MsTicks > 0
  BY SyncAssumption
<1>2. t % MsTicks \in Nat /\ t % MsTicks <= t
  BY <1>1, RestBelow
<1> QED
  BY <1>2 DEF Truncate

-----------------------------------------------------------------------------
(* Types.                                                                  *)

LEMMA TypeInit == Init => TypeInv
<1> SUFFICES ASSUME Init PROVE TypeInv
  OBVIOUS
<1>1. Landed = {}
  BY DEF Init, Landed
<1>2. IsFiniteSet(Landed)
  BY <1>1, FS_EmptySet
<1>3. TypeOK
  <2>1. MsTicks \in Nat \ {0} /\ 0 \in 0..MaxReceives
    BY SyncAssumption
  <2>2. /\ clock \in Nat \ {0} /\ updatedAt \in Nat /\ committed \in Nat
        /\ readUpTo \in Nat /\ floor \in Nat
        /\ doc = NoWriter /\ index = NoWriter /\ passed \in BOOLEAN
    BY <2>1 DEF Init, NoVersion
  <2>3. /\ stamp \in [Writers -> Nat] /\ version \in [Writers -> Nat]
        /\ landed \in [Writers -> Nat] /\ ccur \in [Consumers -> Nat]
        /\ receives \in [Writers -> 0..MaxReceives]
    BY <2>1 DEF Init, NoVersion
  <2> QED
    BY <2>2, <2>3 DEF Init, TypeOK
<1> QED
  BY <1>2, <1>3, WritersFact DEF Init, TypeInv, QueueSane, HeldSent

\* The set of writes grows by the one that lands.
LEMMA LandedGrows ==
    ASSUME TypeInv, NEW w \in Writers, LandsAs(w), landed[w] = 0
    PROVE  /\ Landed' = Landed \cup {w} /\ IsFiniteSet(Landed')
           /\ Cardinality(Landed) \in Nat /\ Cardinality(Landed') = 1 + Cardinality(Landed)
           /\ landed' \in [Writers -> Nat]
           /\ landed'[w] = 1 + Cardinality(Landed)
           /\ \A x \in Writers \ {w} : landed'[x] = landed[x]
<1>1. Cardinality(Landed) \in Nat /\ w \notin Landed
  BY FS_CardinalityType DEF TypeInv, Landed
<1>2. landed \in [Writers -> Nat]
  BY DEF TypeInv, TypeOK
<1>3. /\ landed' \in [Writers -> Nat] /\ landed'[w] = 1 + Cardinality(Landed)
      /\ \A x \in Writers \ {w} : landed'[x] = landed[x]
  BY <1>1, <1>2 DEF LandsAs
<1>4. Landed' = Landed \cup {w}
  BY <1>1, <1>2, <1>3 DEF Landed
<1> QED
  BY <1>1, <1>3, <1>4, FS_AddElement DEF TypeInv

LEMMA TypeWriter ==
    ASSUME TypeInv, WroteOnce, NEW w \in Writers, WriterStep(w)
    PROVE  TypeInv'
<1>1. TypeOK
  BY DEF TypeInv
<1>2. clock' \in Nat \ {0} /\ stamp' \in [Writers -> Nat]
  <2>1. Now(w) \in Nat
    BY <1>1, SyncAssumption DEF Now, TypeOK
  <2> QED
    BY <1>1, <2>1, WritersFact
       DEF WriterStep, TakeTime, Write, ReadBack, Remove, Publish, TypeOK, NoVersion
<1>3. doc' \in Writers \cup {NoWriter} /\ floor' \in Nat
  BY <1>1, WriterDoc DEF Keeps, LandsAs, Goes, TypeOK
<1>4. updatedAt' \in Nat
  <2>1. UNCHANGED updatedAt \/ updatedAt' = Truncate(stamp[w]) \/ updatedAt' = NoVersion
    BY DEF WriterStep, TakeTime, Write, ReadBack, Remove, Publish, Fades, Lands
  <2> QED
    BY <1>1, <2>1, TruncateType DEF TypeOK, NoVersion
<1>5. landed' \in [Writers -> Nat] /\ IsFiniteSet(Landed')
  <2>1. CASE UNCHANGED landed
    BY <1>1, <2>1 DEF TypeOK, TypeInv, Landed
  <2>2. CASE LandsAs(w)
    BY <2>2, LandedGrows DEF WroteOnce, LandsAs
  <2> QED
    BY <2>1, <2>2, WriterDoc DEF Keeps, Goes
<1>6. event' \in [Writers -> {"none", "visible", "inflight", "deleted", "dead"}]
      /\ version' \in [Writers -> Nat]
  BY <1>1, WriterEvent DEF TypeOK
<1>7. UNCHANGED <<receives, consumerVars, searchVars>>
      /\ wstage' \in [Writers -> {"idle", "stamped", "written", "publishing", "done", "failed"}]
  BY WriterGoes
<1>8. TypeOK'
  BY <1>1, <1>2, <1>3, <1>4, <1>5, <1>6, <1>7 DEF TypeOK, consumerVars, searchVars, backfillVars
<1>9. QueueSane'
  <2>1. w \in Removers => wstage'[w] \notin {"stamped", "written"}
    BY WritersFact, WriterGoes
       DEF WriterStep, TakeTime, Write, ReadBack, Remove, Publish, WriterTo, Fails, TypeInv, TypeOK,
           QueueSane
  <2>2. event[w] = "none" /\ receives[w] = 0
    BY WriterGoes DEF TypeInv, QueueSane
  <2>3. \A x \in Writers \ {w} : wstage'[x] = wstage[x] /\ event'[x] = event[x]
    BY <1>1, WriterGoes, WriterEvent DEF TypeOK
  <2>4. /\ wstage'[w] # "done" => event'[w] = "none"
        /\ event'[w] \in {"none", "visible"}
    BY <1>1, <2>2, WriterEvent DEF TypeOK
  <2> QED
    BY <1>7, <2>1, <2>2, <2>3, <2>4, WritersFact DEF TypeInv, QueueSane
<1>10. HeldSent'
  <2>1. \A x \in Writers : event[x] # "none" => event'[x] # "none"
    BY <1>1, WriterEvent DEF TypeOK
  <2> QED
    BY <1>1, <1>7, <2>1 DEF consumerVars, TypeInv, HeldSent, TypeOK
<1> QED
  BY <1>5, <1>8, <1>9, <1>10 DEF TypeInv

LEMMA TypeExpires ==
    ASSUME TypeInv, NEW w \in Writers, VisibilityExpires(w)
    PROVE  TypeInv'
<1>1. IsFiniteSet(Landed')
  BY DEF VisibilityExpires, TypeInv, Landed, writerVars, historyVars
<1>2. TypeOK'
  BY WritersFact DEF VisibilityExpires, Gone, TypeInv, TypeOK, writerVars, historyVars, consumerVars,
                     searchVars, backfillVars
<1>3. QueueSane'
  BY WritersFact DEF VisibilityExpires, Gone, TypeInv, TypeOK, QueueSane, writerVars
<1>4. HeldSent'
  BY DEF VisibilityExpires, Gone, TypeInv, TypeOK, HeldSent, consumerVars
<1> QED
  BY <1>1, <1>2, <1>3, <1>4 DEF TypeInv

\* Consumers and backfills leave the writers alone.
LEMMA ConsumerFrame ==
    ASSUME TypeOK, NEW c \in Consumers, ConsumerStep(c)
    PROVE  /\ UNCHANGED <<clock, writerVars, version, bstage, bcopy>>
           /\ \A d \in Consumers \ {c} :
                  cstage'[d] = cstage[d] /\ cevent'[d] = cevent[d] /\ cread'[d] = cread[d]
<1> USE DEF ConsumerTo, TypeOK, queueVars, searchVars, backfillVars
<1>1. CASE Check(c) \/ Read(c) \/ Upsert(c)
  BY <1>1 DEF Check, Read, Upsert
<1>2. CASE CommitGet(c) \/ CommitSet(c)
  BY <1>2 DEF CommitGet, CommitSet
<1>3. CASE Unindex(c) \/ Clear(c)
  BY <1>3 DEF Unindex, Clear
<1>4. CASE Ack(c) \/ ConsumerFails(c)
  BY <1>4 DEF Ack, ConsumerFails, Forget
<1>5. CASE \E w \in Writers : Receive(c, w)
  BY <1>5 DEF Receive
<1> QED
  BY <1>1, <1>2, <1>3, <1>4, <1>5 DEF ConsumerStep, HandleStep

LEMMA TypeConsumer ==
    ASSUME TypeInv, NEW c \in Consumers, ConsumerStep(c)
    PROVE  TypeInv'
<1> DEFINE e == cevent[c]
<1>1. TypeOK /\ QueueSane /\ HeldSent
  BY DEF TypeInv
<1>2. UNCHANGED <<clock, writerVars, version, bstage, bcopy>>
  BY <1>1, ConsumerFrame
<1>3. IsFiniteSet(Landed')
  BY <1>2 DEF writerVars, historyVars, TypeInv, Landed
<1> SUFFICES TypeOK' /\ QueueSane' /\ HeldSent'
  BY <1>3 DEF TypeInv
<1> USE WritersFact DEF TypeOK, ConsumerTo, writerVars, historyVars
<1>4. ASSUME UNCHANGED <<event, receives, cevent>>
      PROVE  QueueSane' /\ HeldSent'
  BY <1>1, <1>2, <1>4 DEF QueueSane, HeldSent
<1>5. CASE Check(c)
  BY <1>1, <1>2, <1>4, <1>5 DEF Check, queueVars, searchVars, backfillVars
<1>6. CASE Read(c)
  <2>1. readUpTo' \in Nat
    BY <1>1, <1>6 DEF Read
  <2> QED
    BY <1>1, <1>2, <1>4, <1>6, <2>1 DEF Read, queueVars, searchVars, backfillVars
<1>7. CASE Upsert(c)
  <2>1. /\ cstage[c] = "upsert" /\ cstage' = [cstage EXCEPT ![c] = "get"]
        /\ UNCHANGED <<event, receives, cevent, ccur, readUpTo, committed>>
    BY <1>7 DEF Upsert, queueVars
  <2>2. /\ index' \in Writers \cup {NoWriter} /\ passed' \in BOOLEAN
        /\ cread' \in [Consumers -> Writers \cup {NoWriter}]
    BY <1>1, <1>7 DEF Upsert
  <2> QED
    BY <1>1, <1>2, <1>4, <2>1, <2>2
<1>8. CASE CommitGet(c)
  <2>1. ccur' \in [Consumers -> Nat]
    BY <1>1, <1>8 DEF CommitGet, NoVersion
  <2> QED
    BY <1>1, <1>2, <1>4, <1>8, <2>1 DEF CommitGet, queueVars, searchVars, backfillVars
<1>9. CASE CommitSet(c)
  <2>1. ccur' \in [Consumers -> Nat] /\ committed' \in Nat
    BY <1>1, <1>9 DEF CommitSet, NoVersion
  <2> QED
    BY <1>1, <1>2, <1>4, <1>9, <2>1 DEF CommitSet, queueVars, backfillVars
<1>10. CASE Unindex(c)
  <2>1. /\ cstage[c] = "unindex" /\ cstage' = [cstage EXCEPT ![c] = "clear"]
        /\ UNCHANGED <<event, receives, cevent, cread, ccur, readUpTo, committed>>
    BY <1>10 DEF Unindex, queueVars
  <2>2. index' \in Writers \cup {NoWriter} /\ passed' \in BOOLEAN
    BY <1>1, <1>10 DEF Unindex
  <2> QED
    BY <1>1, <1>2, <1>4, <2>1, <2>2
<1>11. CASE Clear(c)
  <2>1. committed' \in Nat
    BY <1>1, <1>11 DEF Clear, NoVersion
  <2> QED
    BY <1>1, <1>2, <1>4, <1>11, <2>1 DEF Clear, queueVars, backfillVars
<1>12. ASSUME Forget(c)
       PROVE  /\ cstage' \in [Consumers -> {"idle", "check", "read", "upsert", "get", "set",
                                            "unindex", "clear", "ack"}]
              /\ cevent' \in [Consumers -> Writers \cup {NoWriter}]
              /\ \A d \in Consumers : cevent'[d] = NoWriter <=> cstage'[d] = "idle"
              /\ \A d \in Consumers : cevent'[d] \in {cevent[d], NoWriter}
              /\ cread' \in [Consumers -> Writers \cup {NoWriter}]
              /\ ccur' \in [Consumers -> Nat] /\ readUpTo' = readUpTo
  <2>1. cread' \in [Consumers -> Writers \cup {NoWriter}] /\ ccur' \in [Consumers -> Nat]
    BY <1>1, <1>12 DEF Forget, NoVersion
  <2>2. /\ cstage' = [cstage EXCEPT ![c] = "idle"] /\ cevent' = [cevent EXCEPT ![c] = NoWriter]
        /\ readUpTo' = readUpTo
    BY <1>12 DEF Forget
  <2> QED
    BY <1>1, <2>1, <2>2
<1>13. CASE Ack(c)
  <2>1. e \in Writers /\ event[e] # "none" /\ wstage[e] = "done"
    BY <1>13, HasEvent DEF Ack
  <2>2. event' = [event EXCEPT ![e] = "deleted"] /\ receives' = [receives EXCEPT ![e] = 0]
        /\ UNCHANGED searchVars
    BY <1>13 DEF Ack, Gone
  <2>3. Forget(c)
    BY <1>13 DEF Ack
  <2>4. TypeOK'
    BY <1>1, <1>2, <1>12, <2>1, <2>2, <2>3 DEF searchVars, backfillVars
  <2>5. QueueSane'
    BY <1>1, <1>2, <2>1, <2>2 DEF QueueSane
  <2>6. HeldSent'
    BY <1>1, <1>12, <2>1, <2>2, <2>3 DEF HeldSent
  <2> QED
    BY <2>4, <2>5, <2>6
<1>14. CASE ConsumerFails(c)
  <2>1. UNCHANGED <<event, receives>> /\ UNCHANGED searchVars
    BY <1>14 DEF ConsumerFails, queueVars
  <2>2. Forget(c)
    BY <1>14 DEF ConsumerFails
  <2>3. TypeOK'
    BY <1>1, <1>2, <1>12, <2>1, <2>2 DEF searchVars, backfillVars
  <2>4. QueueSane'
    BY <1>1, <1>2, <2>1 DEF QueueSane
  <2>5. HeldSent'
    BY <1>1, <1>12, <2>1, <2>2 DEF HeldSent
  <2> QED
    BY <2>3, <2>4, <2>5
<1>15. ASSUME NEW w \in Writers, Receive(c, w) PROVE TypeOK' /\ QueueSane' /\ HeldSent'
  <2>1. event[w] = "visible" /\ receives[w] < MaxReceives /\ wstage[w] = "done"
    BY <1>1, <1>15 DEF Receive, QueueSane
  <2>2. /\ event' = [event EXCEPT ![w] = "inflight"] /\ cevent' = [cevent EXCEPT ![c] = w]
        /\ receives' = [receives EXCEPT ![w] = @ + 1]
        /\ UNCHANGED <<cread, ccur, readUpTo>> /\ UNCHANGED searchVars
    BY <1>15 DEF Receive
  <2>3. receives' \in [Writers -> 0..MaxReceives]
    <3>1. receives[w] + 1 \in 0..MaxReceives
      BY <1>1, <2>1
    <3> QED
      BY <1>1, <2>2, <3>1
  <2>4. TypeOK'
    <3>1. /\ cstage' \in [Consumers -> {"idle", "check", "read", "upsert", "get", "set",
                                 "unindex", "clear", "ack"}]
          /\ cstage'[c] # "idle" /\ cstage[c] = "idle"
          /\ \A d \in Consumers \ {c} : cstage'[d] = cstage[d]
      BY <1>1, <1>15 DEF Receive
    <3>2. \A d \in Consumers : cevent'[d] = NoWriter <=> cstage'[d] = "idle"
      BY <1>1, <2>2, <3>1
    <3>3. /\ event' \in [Writers -> {"none", "visible", "inflight", "deleted", "dead"}]
          /\ cevent' \in [Consumers -> Writers \cup {NoWriter}]
          /\ UNCHANGED <<index, committed, passed>>
      BY <1>1, <2>2 DEF searchVars, backfillVars
    <3> QED
      BY <1>1, <1>2, <2>2, <2>3, <3>1, <3>2, <3>3
  <2>5. QueueSane'
    BY <1>1, <1>2, <2>1, <2>2 DEF QueueSane
  <2>6. HeldSent'
    BY <1>1, <2>1, <2>2 DEF HeldSent
  <2> QED
    BY <2>4, <2>5, <2>6
<1> QED
  BY <1>5, <1>6, <1>7, <1>8, <1>9, <1>10, <1>11, <1>13, <1>14, <1>15 DEF ConsumerStep, HandleStep

LEMMA TypeBackfill ==
    ASSUME TypeInv, NEW b \in Backfills, BackfillStep(b)
    PROVE  TypeInv'
<1>1. UNCHANGED <<clock, writerVars, queueVars, consumerVars, committed>>
  BY DEF BackfillStep, Scan, BulkIndex
<1>2. IsFiniteSet(Landed') /\ QueueSane' /\ HeldSent'
  BY <1>1 DEF writerVars, historyVars, queueVars, consumerVars, TypeInv, Landed, QueueSane, HeldSent
<1>3. index' \in Writers \cup {NoWriter} /\ passed' \in BOOLEAN
  <2>1. CASE Scan(b)
    BY <2>1 DEF Scan, TypeInv, TypeOK
  <2>2. CASE BulkIndex(b)
    BY <2>2 DEF BulkIndex, TypeInv, TypeOK
  <2> QED
    BY <2>1, <2>2 DEF BackfillStep
<1>4. /\ bstage' \in [Backfills -> {"idle", "pending", "done"}]
      /\ bcopy' \in [Backfills -> Writers \cup {NoWriter}]
      /\ \A x \in Backfills : bcopy'[x] # NoWriter <=> bstage'[x] = "pending"
  BY WritersFact DEF BackfillStep, Scan, BulkIndex, BackfillTo, TypeInv, TypeOK
<1>5. TypeOK'
  BY <1>1, <1>3, <1>4 DEF writerVars, historyVars, queueVars, consumerVars, TypeInv, TypeOK
<1> QED
  BY <1>2, <1>5 DEF TypeInv

-----------------------------------------------------------------------------
(* The order of the writes is kept.                                        *)

LEMMA OrderInit == Init => OrderInv
<1> SUFFICES ASSUME Init PROVE OrderInv
  OBVIOUS
<1>1. Landed = {} /\ TypeOK
  BY TypeInit DEF Init, Landed, TypeInv
<1>2. Cardinality(Landed) = 0
  BY <1>1, FS_EmptySet
<1>3. WroteOnce
  BY <1>1, <1>2 DEF Init, WroteOnce
<1>4. StatesKnown /\ ReadsOn
  BY DEF Init, StatesKnown, Known, ReadsOn
<1> QED
  BY <1>3, <1>4 DEF OrderInv

LEMMA OrderWriter ==
    ASSUME TypeInv, OrderInv, NEW w \in Writers, WriterStep(w)
    PROVE  OrderInv'
<1>1. TypeOK /\ doc \in Writers \cup {NoWriter} /\ NoWriter \notin Writers
  BY WritersFact DEF TypeInv, TypeOK
<1>2. UNCHANGED <<cstage, cread, bstage, bcopy, index>>
  BY WriterGoes DEF consumerVars, searchVars, backfillVars
<1>3. \A x \in Writers : wstage'[x] \in {"idle", "stamped"} =>
          wstage[x] \in {"idle", "stamped"} /\ (x = w => Keeps)
  BY WriterGoes
<1>4. CASE UNCHANGED landed /\ doc' \in {doc, NoWriter}
  <2>1. Landed' = Landed
    BY <1>4 DEF Landed
  <2>2. WroteOnce'
    BY <1>3, <1>4, <2>1 DEF OrderInv, WroteOnce
  <2>3. StatesKnown' /\ ReadsOn'
    BY <1>2, <1>4 DEF OrderInv, StatesKnown, Known, ReadsOn, NoBackfill
  <2> QED
    BY <2>2, <2>3 DEF OrderInv
<1>5. CASE LandsAs(w)
  <2>1. landed[w] = 0
    BY <1>5 DEF OrderInv, WroteOnce, LandsAs
  <2>2. /\ Cardinality(Landed) \in Nat /\ Cardinality(Landed') = 1 + Cardinality(Landed)
        /\ landed' \in [Writers -> Nat] /\ landed'[w] = 1 + Cardinality(Landed)
        /\ \A x \in Writers \ {w} : landed'[x] = landed[x]
    BY <1>5, <2>1, LandedGrows
  <2>3. WroteOnce'
    <3>1. \A x \in Writers : wstage'[x] \in {"idle", "stamped"} => x # w
      BY <1>3, <1>5, WriterGoes DEF LandsAs
    <3>2. \A x \in Writers : wstage'[x] \in {"idle", "stamped"} => landed'[x] = 0
      BY <1>3, <2>2, <3>1 DEF OrderInv, WroteOnce
    <3>3. \A x \in Writers : landed'[x] <= Cardinality(Landed')
      BY <1>1, <2>2 DEF OrderInv, WroteOnce, TypeOK
    <3>4. doc' = w
      BY <1>5 DEF LandsAs
    <3> QED
      BY <2>2, <3>2, <3>3, <3>4 DEF WroteOnce
  <2>4. \A x \in Writers : landed[x] > 0 => x # w /\ landed'[x] = landed[x]
    BY <2>1, <2>2
  <2>5. StatesKnown'
    <3>1. \A x \in Writers \cup {NoWriter} : Known(x) => (x # NoWriter => landed'[x] > 0)
      BY <1>1, <2>4 DEF Known
    <3> QED
      BY <1>1, <1>2, <3>1 DEF OrderInv, StatesKnown, Known, TypeOK
  <2>6. ReadsOn'
    <3> SUFFICES ASSUME OneConsumer, NoBackfill, index # NoWriter,
                        NEW c \in Consumers, cstage[c] = "upsert"
                 PROVE  landed'[cread[c]] >= landed'[index]
      BY <1>2 DEF ReadsOn, NoBackfill
    <3>1. landed[cread[c]] >= landed[index]
      BY DEF OrderInv, ReadsOn
    <3>2. /\ cread[c] \in Writers /\ index \in Writers
          /\ landed[cread[c]] > 0 /\ landed[index] > 0
      BY <1>1 DEF OrderInv, StatesKnown, Known, TypeOK
    <3> QED
      BY <2>4, <3>1, <3>2
  <2> QED
    BY <2>3, <2>5, <2>6 DEF OrderInv
<1> QED
  BY <1>4, <1>5, WriterDoc DEF Keeps, Goes

\* A step of the consumer that upserts is the only one to change the index of a
\* document there is.
LEMMA OrderConsumer ==
    ASSUME TypeInv, OrderInv, NEW c \in Consumers, ConsumerStep(c)
    PROVE  OrderInv'
<1>1. TypeOK /\ doc \in Writers \cup {NoWriter} /\ NoWriter \notin Writers
  BY WritersFact DEF TypeInv, TypeOK
<1>2. /\ UNCHANGED <<doc, wstage, landed, bstage, bcopy>>
      /\ \A d \in Consumers \ {c} : cstage'[d] = cstage[d] /\ cread'[d] = cread[d]
  BY <1>1, ConsumerFrame DEF writerVars, historyVars
<1>3. WroteOnce'
  <2>1. Landed' = Landed
    BY <1>2 DEF Landed
  <2> QED
    BY <1>2, <2>1 DEF OrderInv, WroteOnce
<1>4. \A x : Known(x)' <=> Known(x)
  BY <1>2 DEF Known
<1>5. Known(doc)
  BY DEF OrderInv, WroteOnce, Known
<1>6. CASE Read(c)
  <2>1. /\ cread'[c] = doc /\ UNCHANGED index
        /\ cstage'[c] = "upsert" => doc # NoWriter
    BY <1>1, <1>6 DEF Read, ConsumerTo, searchVars, TypeOK
  <2>2. StatesKnown'
    BY <1>2, <1>5, <2>1 DEF OrderInv, StatesKnown, Known
  <2>3. ReadsOn'
    <3> SUFFICES ASSUME OneConsumer, NoBackfill, index # NoWriter,
                        NEW d \in Consumers, cstage'[d] = "upsert"
                 PROVE  landed[cread'[d]] >= landed[index]
      BY <1>2, <2>1 DEF ReadsOn, NoBackfill
    <3>1. d = c /\ doc # NoWriter /\ index \in Writers
      BY <1>1, <2>1 DEF OneConsumer, TypeOK
    <3>2. landed[doc] = Cardinality(Landed) /\ landed[index] <= Cardinality(Landed)
      BY <3>1 DEF OrderInv, WroteOnce
    <3> QED
      BY <2>1, <3>1, <3>2
  <2> QED
    BY <1>3, <2>2, <2>3 DEF OrderInv
<1>7. CASE Upsert(c)
  <2>1. index' = cread[c] /\ cread'[c] = NoWriter /\ cstage'[c] = "get" /\ cstage[c] = "upsert"
    BY <1>1, <1>7 DEF Upsert, ConsumerTo, TypeOK
  <2>2. StatesKnown'
    BY <1>2, <2>1 DEF OrderInv, StatesKnown, Known
  <2>3. ReadsOn'
    BY <2>1 DEF ReadsOn, OneConsumer
  <2> QED
    BY <1>3, <2>2, <2>3 DEF OrderInv
<1>8. ASSUME index' \in {index, NoWriter}, cread'[c] \in {cread[c], NoWriter},
             cstage'[c] # "upsert"
      PROVE  OrderInv'
  <2>1. StatesKnown'
    BY <1>2, <1>8 DEF OrderInv, StatesKnown, Known
  <2>2. ReadsOn'
    BY <1>2, <1>8 DEF ReadsOn, OneConsumer
  <2> QED
    BY <1>3, <2>1, <2>2 DEF OrderInv
<1> USE DEF ConsumerTo, TypeOK, searchVars
<1>9. CASE Check(c) \/ CommitGet(c) \/ CommitSet(c)
  BY <1>1, <1>8, <1>9 DEF Check, CommitGet, CommitSet
<1>10. CASE Unindex(c) \/ Clear(c)
  BY <1>1, <1>8, <1>10 DEF Unindex, Clear
<1>11. CASE Ack(c) \/ ConsumerFails(c)
  BY <1>1, <1>8, <1>11 DEF Ack, ConsumerFails, Forget
<1>12. CASE \E w \in Writers : Receive(c, w)
  BY <1>1, <1>8, <1>12 DEF Receive
<1> QED
  BY <1>6, <1>7, <1>9, <1>10, <1>11, <1>12 DEF ConsumerStep, HandleStep

LEMMA OrderBackfill ==
    ASSUME TypeInv, OrderInv, NEW b \in Backfills, BackfillStep(b)
    PROVE  OrderInv'
<1>1. TypeOK
  BY DEF TypeInv
<1>2. UNCHANGED <<doc, wstage, landed, cstage, cread>>
  BY DEF BackfillStep, Scan, BulkIndex, writerVars, historyVars, consumerVars
<1>3. WroteOnce'
  <2>1. Landed' = Landed
    BY <1>2 DEF Landed
  <2> QED
    BY <1>2, <2>1 DEF OrderInv, WroteOnce
<1>4. Known(doc)
  BY DEF OrderInv, WroteOnce, Known
<1>5. CASE Scan(b)
  <2>1. /\ UNCHANGED index
        /\ \A x \in Backfills : bcopy'[x] = bcopy[x] \/ bcopy'[x] = doc
        /\ bstage'[b] # "idle"
    BY <1>1, <1>5 DEF Scan, BackfillTo, TypeOK
  <2> QED
    BY <1>2, <1>3, <1>4, <2>1 DEF OrderInv, StatesKnown, Known, ReadsOn, NoBackfill
<1>6. CASE BulkIndex(b)
  <2>1. /\ index' = index \/ index' = bcopy[b]
        /\ \A x \in Backfills : bcopy'[x] = bcopy[x] \/ bcopy'[x] = NoWriter
        /\ bstage'[b] # "idle"
    BY <1>1, <1>6 DEF BulkIndex, BackfillTo, TypeOK
  <2> QED
    BY <1>2, <1>3, <2>1 DEF OrderInv, StatesKnown, Known, ReadsOn, NoBackfill
<1> QED
  BY <1>5, <1>6 DEF BackfillStep

LEMMA OrderExpires ==
    ASSUME OrderInv, NEW w \in Writers, VisibilityExpires(w)
    PROVE  OrderInv'
<1>1. UNCHANGED <<doc, wstage, landed, cstage, cread, bstage, bcopy, index>>
  BY DEF VisibilityExpires, writerVars, historyVars, consumerVars, searchVars, backfillVars
<1>2. Landed' = Landed
  BY <1>1 DEF Landed
<1> QED
  BY <1>1, <1>2 DEF OrderInv, WroteOnce, StatesKnown, Known, ReadsOn, NoBackfill

-----------------------------------------------------------------------------
(* The deletion is kept.                                                   *)

LEMMA DeleteInit == Init => DeleteInv
  BY WritersFact
     DEF Init, DeleteInv, BegunFirst, Begun, GoneKnown, ClearedInTime, Cleared

\* An event says that the document was there.
LEMMA EventBegun ==
    ASSUME TypeInv, BegunFirst, NEW w \in Writers, event[w] # "none"
    PROVE  Begun
<1>1. wstage[w] = "done"
  BY DEF TypeInv, QueueSane
<1> QED
  BY <1>1 DEF BegunFirst, Begun

LEMMA StaysGone ==
    ASSUME Begun, doc = NoWriter, NEW w \in Writers, WriterStep(w)
    PROVE  doc' = NoWriter
  BY WriterDoc DEF Begun, Keeps, LandsAs, Goes

LEMMA DeleteWriter ==
    ASSUME TypeInv, DeleteInv, NEW w \in Writers, WriterStep(w)
    PROVE  DeleteInv'
<1>1. TypeOK /\ BegunFirst
  BY DEF TypeInv, DeleteInv
<1>2. UNCHANGED <<cstage, cevent, index, passed>>
  BY WriterGoes DEF consumerVars, searchVars, backfillVars
<1>3. Begun => Begun'
  BY WriterGoes, WritersFact DEF Begun
<1>4. BegunFirst'
  <2>1. w # Creator => Begun
    BY <1>1, WriterGoes DEF BegunFirst, Begun, MayStart
  <2>2. \A x \in Writers \ {Creator} : wstage'[x] # "idle" => Begun'
    BY <1>1, <1>3, <2>1, WriterGoes DEF BegunFirst
  <2>3. LandsAs(w) /\ w = Creator => Begun'
    BY WriterGoes DEF Begun, LandsAs
  <2>4. doc' # NoWriter => Begun'
    BY <1>1, <1>3, <2>1, <2>3, WriterDoc DEF BegunFirst, Keeps, Goes, LandsAs
  <2> QED
    BY <2>2, <2>4 DEF BegunFirst
<1>5. \A x \in Writers : event'[x] # "none" => event[x] # "none" \/ (x = w /\ wstage[w] = "publishing")
  BY <1>1, WriterEvent DEF TypeOK
<1>6. \A x \in Writers : event'[x] = "deleted" => event[x] = "deleted"
  BY <1>1, WriterEvent DEF TypeOK
<1>7. GoneKnown'
  <2>1. ASSUME NEW x \in Removers, wstage'[x] = "publishing" \/ event'[x] # "none"
        PROVE  doc' = NoWriter
    <3>1. x \in Writers \ {Creator}
      BY WritersFact
    <3>2. CASE x = w /\ wstage'[w] = "publishing"
      BY <2>1, <3>2, WriterGoes
    <3>3. CASE wstage[x] = "publishing" \/ event[x] # "none"
      <4>1. doc = NoWriter
        BY <2>1, <3>3 DEF DeleteInv, GoneKnown
      <4>2. Begun
        BY <1>1, <3>1, <3>3, EventBegun DEF BegunFirst
      <4> QED
        BY <4>1, <4>2, StaysGone
    <3> QED
      BY <1>5, <2>1, <3>1, <3>2, <3>3, WriterGoes
  <2>2. ASSUME NEW c \in Consumers, cstage[c] \in {"unindex", "clear"}
        PROVE  doc' = NoWriter
    <3>1. doc = NoWriter
      BY <2>2 DEF DeleteInv, GoneKnown
    <3>2. Begun
      BY <1>1, <2>2, HasEvent, EventBegun
    <3> QED
      BY <3>1, <3>2, StaysGone
  <2> QED
    BY <1>2, <2>1, <2>2 DEF DeleteInv, GoneKnown
<1>8. ClearedInTime'
  BY <1>2, <1>6, WritersFact DEF DeleteInv, ClearedInTime, Cleared
<1> QED
  BY <1>4, <1>7, <1>8 DEF DeleteInv

\* What a consumer does to the events.
LEMMA ConsumerEvent ==
    ASSUME TypeInv, NEW c \in Consumers, ConsumerStep(c), NEW w \in Writers
    PROVE  /\ event'[w] # "none" => event[w] # "none"
           /\ event'[w] = "deleted" => event[w] = "deleted" \/ (cevent[c] = w /\ Ack(c))
<1> USE DEF TypeOK, queueVars
<1>1. CASE Ack(c)
  BY <1>1, HasEvent DEF Ack, Gone, TypeInv
<1>2. ASSUME NEW x \in Writers, Receive(c, x) PROVE event'[w] = event[w] \/ (w = x /\ event[w] = "visible" /\ event'[w] = "inflight")
  BY <1>2 DEF Receive, TypeInv
<1>3. CASE UNCHANGED event
  BY <1>3
<1> QED
  BY <1>1, <1>2, <1>3
     DEF ConsumerStep, HandleStep, Check, Read, Upsert, CommitGet, CommitSet, Unindex, Clear, ConsumerFails

LEMMA DeleteConsumer ==
    ASSUME TypeInv, DeleteInv, NEW c \in Consumers, ConsumerStep(c)
    PROVE  DeleteInv'
<1> DEFINE e == cevent[c]
<1>1. TypeOK /\ BegunFirst /\ GoneKnown
  BY DEF TypeInv, DeleteInv
<1>2. /\ UNCHANGED <<doc, wstage>>
      /\ \A d \in Consumers \ {c} : cstage'[d] = cstage[d] /\ cevent'[d] = cevent[d]
  BY <1>1, ConsumerFrame DEF writerVars
<1>3. BegunFirst'
  BY <1>1, <1>2 DEF BegunFirst, Begun
<1>4. \A w \in Removers : event'[w] # "none" => event[w] # "none"
  BY ConsumerEvent, WritersFact
\* It is enough to look at c.
<1>5. ASSUME cstage'[c] \in {"unindex", "clear"} => doc = NoWriter,
             cevent'[c] \in Removers => cstage'[c] \in {"unindex", "clear", "ack"}
      PROVE  GoneKnown'
  BY <1>1, <1>2, <1>4, <1>5 DEF GoneKnown
<1>6. ASSUME OneConsumer =>
               /\ cstage'[c] = "clear" => Cleared'
               /\ cstage'[c] = "ack" /\ cevent'[c] \in Removers => Cleared'
               /\ \A w \in Removers : event'[w] = "deleted" => Cleared' /\ cstage'[c] # "upsert"
      PROVE  ClearedInTime'
  <2> SUFFICES ASSUME OneConsumer
               PROVE  /\ \A d \in Consumers : cstage'[d] = "clear" => Cleared'
                      /\ \A d \in Consumers : cstage'[d] = "ack" /\ cevent'[d] \in Removers => Cleared'
                      /\ \A w \in Removers :
                           event'[w] = "deleted" => Cleared' /\ \A d \in Consumers : cstage'[d] # "upsert"
    BY DEF ClearedInTime
  <2>1. \A d \in Consumers : d = c
    BY DEF OneConsumer
  <2> QED
    BY <1>6, <2>1
<1>7. ASSUME OneConsumer
      PROVE  /\ cstage[c] = "clear" => Cleared
             /\ cstage[c] = "ack" /\ e \in Removers => Cleared
             /\ \A w \in Removers : event[w] = "deleted" => Cleared /\ cstage[c] # "upsert"
  BY <1>7 DEF DeleteInv, ClearedInTime
<1>8. \A w \in Removers : event'[w] = "deleted" => event[w] = "deleted" \/ (e = w /\ Ack(c))
  BY ConsumerEvent, WritersFact
<1>9. e \in Removers => cstage[c] \in {"unindex", "clear", "ack"}
  BY <1>1 DEF GoneKnown
<1>10. \A w \in Removers : event[w] # "none" => doc = NoWriter
  BY <1>1 DEF GoneKnown
<1> SUFFICES GoneKnown' /\ ClearedInTime'
  BY <1>3 DEF DeleteInv
<1> USE DEF ConsumerTo, TypeOK
<1>11. ASSUME UNCHANGED <<index, passed>>
       PROVE  Cleared' <=> Cleared
  BY <1>11 DEF Cleared
<1>12. CASE Check(c) \/ CommitGet(c) \/ CommitSet(c)
  <2>1. /\ cstage[c] \in {"check", "get", "set"} /\ cstage'[c] \in {"read", "ack", "set"}
        /\ cevent'[c] = e /\ UNCHANGED <<index, passed>>
    BY <1>1, <1>12 DEF Check, CommitGet, CommitSet, searchVars, backfillVars
  <2>2. ~Ack(c)
    BY <2>1 DEF Ack
  <2> QED
    BY <1>5, <1>6, <1>7, <1>8, <1>9, <1>11, <2>1, <2>2
<1>13. CASE Read(c)
  <2>1. /\ cstage[c] = "read" /\ cstage'[c] = IF doc = NoWriter THEN "unindex" ELSE "upsert"
        /\ cevent'[c] = e /\ UNCHANGED <<index, passed>>
    BY <1>1, <1>13 DEF Read, searchVars, backfillVars
  <2>2. ~Ack(c)
    BY <2>1 DEF Ack
  <2> QED
    BY <1>5, <1>6, <1>7, <1>8, <1>9, <1>10, <1>11, <2>1, <2>2
<1>14. CASE Upsert(c)
  <2>1. cstage[c] = "upsert" /\ cstage'[c] = "get" /\ cevent'[c] = e
    BY <1>1, <1>14 DEF Upsert
  <2>2. ~Ack(c)
    BY <2>1 DEF Ack
  <2> QED
    BY <1>5, <1>6, <1>7, <1>8, <1>9, <2>1, <2>2
<1>15. CASE Unindex(c)
  <2>1. cstage[c] = "unindex" /\ cstage'[c] = "clear" /\ cevent'[c] = e /\ Cleared'
    BY <1>1, <1>15 DEF Unindex, Cleared
  <2>2. doc = NoWriter
    BY <1>1, <2>1 DEF GoneKnown
  <2> QED
    BY <1>5, <1>6, <2>1, <2>2
<1>16. CASE Clear(c)
  <2>1. /\ cstage[c] = "clear" /\ cstage'[c] = "ack" /\ cevent'[c] = e
        /\ UNCHANGED <<index, passed>>
    BY <1>1, <1>16 DEF Clear, backfillVars
  <2> QED
    BY <1>5, <1>6, <1>7, <1>11, <2>1
<1>17. CASE Ack(c) \/ ConsumerFails(c)
  <2>1. /\ cstage'[c] = "idle" /\ cevent'[c] = NoWriter
        /\ UNCHANGED <<index, passed>>
    BY <1>1, <1>17 DEF Ack, ConsumerFails, Forget, searchVars, backfillVars
  <2>2. Ack(c) => cstage[c] = "ack"
    BY DEF Ack
  <2>3. NoWriter \notin Removers
    BY WritersFact
  <2> QED
    BY <1>5, <1>6, <1>7, <1>8, <1>11, <2>1, <2>2, <2>3
<1>18. ASSUME NEW w \in Writers, Receive(c, w) PROVE GoneKnown' /\ ClearedInTime'
  <2>1. /\ cstage[c] = "idle" /\ event[w] # "none"
        /\ cstage'[c] = IF w \in Removers THEN "unindex" ELSE "check"
        /\ cevent'[c] = w /\ UNCHANGED <<index, passed>>
    BY <1>1, <1>18 DEF Receive, searchVars, backfillVars
  <2>2. ~Ack(c)
    BY <2>1 DEF Ack
  <2> QED
    BY <1>5, <1>6, <1>7, <1>8, <1>10, <1>11, <2>1, <2>2
<1> QED
  BY <1>12, <1>13, <1>14, <1>15, <1>16, <1>17, <1>18 DEF ConsumerStep, HandleStep

\* A backfill that overwrites what was cleared is one that was overtaken.
LEMMA DeleteBackfill ==
    ASSUME TypeInv, DeleteInv, NEW b \in Backfills, BackfillStep(b)
    PROVE  DeleteInv'
<1>1. UNCHANGED <<doc, wstage, event, cstage, cevent>>
  BY DEF BackfillStep, Scan, BulkIndex, writerVars, queueVars, consumerVars
<1>2. Cleared /\ doc = NoWriter => Cleared'
  <2>1. CASE Scan(b)
    BY <2>1 DEF Scan, Cleared
  <2>2. CASE BulkIndex(b)
    BY <2>2 DEF BulkIndex, Cleared, TypeInv, TypeOK
  <2> QED
    BY <2>1, <2>2 DEF BackfillStep
<1>3. \A c \in Consumers : cevent[c] \in Removers => doc = NoWriter
  BY WritersFact DEF TypeInv, HeldSent, DeleteInv, GoneKnown
<1>4. BegunFirst' /\ GoneKnown'
  BY <1>1 DEF DeleteInv, BegunFirst, Begun, GoneKnown
<1>5. ClearedInTime'
  BY <1>1, <1>2, <1>3, WritersFact DEF DeleteInv, GoneKnown, ClearedInTime
<1> QED
  BY <1>4, <1>5 DEF DeleteInv

LEMMA DeleteExpires ==
    ASSUME TypeInv, DeleteInv, NEW w \in Writers, VisibilityExpires(w)
    PROVE  DeleteInv'
<1>1. UNCHANGED <<doc, wstage, cstage, cevent, index, passed>>
  BY DEF VisibilityExpires, writerVars, consumerVars, searchVars, backfillVars
<1>2. \A x \in Writers : /\ event'[x] # "none" => event[x] # "none"
                         /\ event'[x] = "deleted" => event[x] = "deleted"
  BY DEF VisibilityExpires, Gone, TypeInv, TypeOK
<1>3. \A x \in Removers : /\ event'[x] # "none" => event[x] # "none"
                          /\ event'[x] = "deleted" => event[x] = "deleted"
  BY <1>2, WritersFact
<1> QED
  BY <1>1, <1>3 DEF DeleteInv, BegunFirst, Begun, GoneKnown, ClearedInTime, Cleared

-----------------------------------------------------------------------------
(* The last write is kept.                                                 *)

LEMMA FreshInit == Init => FreshInv
  BY DEF Init, FreshInv, UpTo, OvertakenBelow, AboveFloorHas, Has, NoVersion

\* An event that is handled has its version for good.
LEMMA HeldVersion ==
    ASSUME TypeInv, NEW w \in Writers, WriterStep(w), NEW c \in Consumers, cstage[c] # "idle"
    PROVE  version'[cevent[c]] = version[cevent[c]]
  BY WriterGoes, WriterEvent, HasEvent

\* Nobody inserts the document while an event is handled.
LEMMA StillThere ==
    ASSUME TypeInv, BegunFirst, NEW w \in Writers, WriterStep(w), doc' # NoWriter,
           NEW c \in Consumers, cstage[c] # "idle"
    PROVE  doc # NoWriter
  BY HasEvent, EventBegun, StaysGone

LEMMA FreshWriter ==
    ASSUME TypeInv, DeleteInv, FreshInv, NEW w \in Writers, WriterStep(w)
    PROVE  FreshInv'
<1>1. /\ TypeOK /\ BegunFirst
      /\ readUpTo \in Nat /\ floor \in Nat /\ committed \in Nat
  BY DEF TypeInv, TypeOK, DeleteInv
<1>2. UNCHANGED <<cstage, cevent, cread, index, committed, passed, readUpTo>>
  BY WriterGoes DEF consumerVars, searchVars, backfillVars
<1>3. Keeps \/ LandsAs(w) \/ doc' = NoWriter
  BY WriterDoc DEF Goes
<1>4. event[w] = "none" /\ \A x \in Writers : event'[x] = "deleted" => event[x] = "deleted" /\ x # w
  <2>1. event[w] = "none"
    BY WriterGoes DEF TypeInv, QueueSane
  <2> QED
    BY <1>1, <2>1, WriterEvent DEF TypeOK
<1>5. \A x \in Writers \ {w} : version'[x] = version[x]
  BY WriterEvent
<1>6. UpTo'
  <2>1. floor' <= readUpTo
    BY <1>1, WriterDoc DEF FreshInv, UpTo, Keeps, LandsAs, Goes
  <2>2. ASSUME NEW c \in Consumers, cstage[c] \in {"upsert", "get", "set"}
        PROVE  version'[cevent[c]] <= readUpTo
    BY <2>2, HeldVersion DEF FreshInv, UpTo
  <2>3. ASSUME NEW c \in Consumers, cstage[c] = "ack", doc' # NoWriter
        PROVE  version'[cevent[c]] <= readUpTo
    BY <1>1, <2>3, HeldVersion, StillThere DEF FreshInv, UpTo
  <2> QED
    BY <1>2, <2>1, <2>2, <2>3 DEF FreshInv, UpTo
<1>7. OvertakenBelow'
  <2> SUFFICES ASSUME OneConsumer, doc' # NoWriter,
                      NEW c \in Consumers, cstage[c] = "upsert", cread[c] # doc'
               PROVE  version[cevent[c]] <= floor' /\ committed <= floor' /\ event'[doc'] # "deleted"
    BY <1>2, HeldVersion DEF OvertakenBelow
  <2>1. doc # NoWriter
    BY <1>1, StillThere
  <2>2. CASE Keeps
    BY <1>1, <1>4, <2>1, <2>2 DEF FreshInv, OvertakenBelow, Keeps, TypeOK
  <2>3. CASE LandsAs(w)
    BY <1>4, <2>3 DEF FreshInv, UpTo, LandsAs
  <2> QED
    BY <1>3, <2>2, <2>3
<1>8. AboveFloorHas'
  <2> SUFFICES ASSUME OneConsumer, doc' # NoWriter
               PROVE  /\ \A c \in Consumers :
                           cstage[c] \in {"get", "set", "ack"} /\ version[cevent[c]] > floor' => Has'
                      /\ committed > floor' => Has'
                      /\ event'[doc'] = "deleted" /\ version'[doc'] > floor' => Has'
    BY <1>2, HeldVersion DEF AboveFloorHas
  <2>1. CASE Keeps
    <3>1. doc \in Writers /\ doc' = doc /\ floor' = floor /\ doc # NoWriter
      BY <1>1, <2>1 DEF Keeps, TypeOK
    <3>2. Has' <=> Has
      BY <1>2, <3>1 DEF Has
    <3>3. event'[doc] = "deleted" => event[doc] = "deleted" /\ version'[doc] = version[doc]
      BY <1>4, <1>5, <3>1
    <3> QED
      BY <3>1, <3>2, <3>3 DEF FreshInv, AboveFloorHas
  <2>2. CASE LandsAs(w)
    <3>1. doc' = w /\ floor' = readUpTo
      BY <2>2 DEF LandsAs
    <3>2. ASSUME NEW c \in Consumers, cstage[c] \in {"get", "set", "ack"}
          PROVE  ~(version[cevent[c]] > floor')
      <4>1. doc # NoWriter
        BY <1>1, <3>2, StillThere
      <4>2. version[cevent[c]] <= readUpTo
        BY <3>2, <4>1 DEF FreshInv, UpTo
      <4>3. version[cevent[c]] \in Nat
        BY <1>1, <3>2, HasEvent DEF TypeOK
      <4> QED
        BY <1>1, <3>1, <4>2, <4>3
    <3>3. ~(committed > floor')
      BY <1>1, <3>1 DEF FreshInv, UpTo
    <3>4. event'[doc'] # "deleted"
      BY <1>4, <3>1
    <3> QED
      BY <3>2, <3>3, <3>4
  <2> QED
    BY <1>3, <2>1, <2>2
<1> QED
  BY <1>6, <1>7, <1>8 DEF FreshInv

LEMMA UpToConsumer ==
    ASSUME TypeInv, DeleteInv, UpTo, NEW c \in Consumers, ConsumerStep(c)
    PROVE  UpTo'
<1> DEFINE e == cevent[c]
<1>1. /\ TypeOK /\ readUpTo \in Nat /\ floor \in Nat /\ committed \in Nat
      /\ \A w \in Writers : version[w] \in Nat
  BY DEF TypeInv, TypeOK
<1>2. /\ UNCHANGED <<doc, floor, version>>
      /\ \A d \in Consumers \ {c} : cstage'[d] = cstage[d] /\ cevent'[d] = cevent[d]
  BY <1>1, ConsumerFrame DEF writerVars, historyVars
<1>3. \A d \in Consumers : cstage[d] # "idle" => version[cevent[d]] \in Nat
  BY <1>1, HasEvent
\* It is enough to look at c.
<1>4. ASSUME readUpTo' \in Nat, readUpTo' >= readUpTo, committed' <= readUpTo',
             cstage'[c] \in {"upsert", "get", "set"} => version[cevent'[c]] <= readUpTo',
             cstage'[c] = "ack" /\ doc # NoWriter => version[cevent'[c]] <= readUpTo'
      PROVE  UpTo'
  <2>1. floor' <= readUpTo'
    BY <1>1, <1>2, <1>4 DEF UpTo
  <2>2. \A d \in Consumers \ {c} :
          /\ cstage[d] \in {"upsert", "get", "set"} => version[cevent[d]] <= readUpTo'
          /\ cstage[d] = "ack" /\ doc # NoWriter => version[cevent[d]] <= readUpTo'
    BY <1>1, <1>3, <1>4 DEF UpTo
  <2> QED
    BY <1>2, <1>4, <2>1, <2>2 DEF UpTo
<1> USE DEF ConsumerTo, TypeOK
<1>5. CASE Check(c)
  <2>1. cstage[c] = "check" /\ cevent'[c] = e /\ UNCHANGED <<committed, readUpTo>>
    BY <1>1, <1>5 DEF Check, searchVars
  <2>2. cstage'[c] = "read" \/ (cstage'[c] = "ack" /\ ~(version[e] > committed))
    BY <1>1, <1>5 DEF Check, ShouldApply
  <2> QED
    BY <1>1, <1>3, <1>4, <2>1, <2>2 DEF UpTo
<1>6. CASE Read(c)
  <2>1. /\ cstage[c] = "read" /\ cstage'[c] \in {"unindex", "upsert"} /\ cevent'[c] = e
        /\ readUpTo' = (IF version[e] > readUpTo THEN version[e] ELSE readUpTo)
        /\ UNCHANGED committed
    BY <1>1, <1>6 DEF Read, searchVars
  <2>2. version[e] \in Nat
    BY <1>3, <2>1
  <2>3. readUpTo' \in Nat /\ readUpTo' >= readUpTo /\ version[e] <= readUpTo'
    BY <1>1, <2>1, <2>2
  <2>4. committed' <= readUpTo'
    BY <1>1, <2>1, <2>3 DEF UpTo
  <2> QED
    BY <1>4, <2>1, <2>3, <2>4
<1>7. CASE Upsert(c) \/ CommitGet(c)
  <2>1. /\ cstage[c] \in {"upsert", "get"} /\ cstage'[c] \in {"get", "set"} /\ cevent'[c] = e
        /\ UNCHANGED <<committed, readUpTo>>
    BY <1>1, <1>7 DEF Upsert, CommitGet, searchVars
  <2> QED
    BY <1>1, <1>4, <2>1 DEF UpTo
<1>8. CASE CommitSet(c)
  <2>1. /\ cstage[c] = "set" /\ cstage'[c] = "ack" /\ cevent'[c] = e
        /\ committed' \in {version[e], committed} /\ UNCHANGED readUpTo
    BY <1>1, <1>8 DEF CommitSet
  <2> QED
    BY <1>1, <1>4, <2>1 DEF UpTo
<1>9. CASE Unindex(c) \/ Clear(c)
  <2>1. /\ cstage[c] \in {"unindex", "clear"} /\ cstage'[c] \in {"clear", "ack"} /\ cevent'[c] = e
        /\ committed' \in {NoVersion, committed} /\ UNCHANGED readUpTo
    BY <1>1, <1>9 DEF Unindex, Clear
  <2>2. doc = NoWriter
    BY <2>1 DEF DeleteInv, GoneKnown
  <2> QED
    BY <1>1, <1>4, <2>1, <2>2 DEF UpTo, NoVersion
<1>10. CASE Ack(c) \/ ConsumerFails(c)
  <2>1. cstage'[c] = "idle" /\ UNCHANGED <<committed, readUpTo>>
    BY <1>1, <1>10 DEF Ack, ConsumerFails, Forget, searchVars
  <2> QED
    BY <1>1, <1>4, <2>1 DEF UpTo
<1>11. ASSUME NEW w \in Writers, Receive(c, w) PROVE UpTo'
  <2>1. cstage'[c] \in {"unindex", "check"} /\ UNCHANGED <<committed, readUpTo>>
    BY <1>1, <1>11 DEF Receive, searchVars
  <2> QED
    BY <1>1, <1>4, <2>1 DEF UpTo
<1> QED
  BY <1>5, <1>6, <1>7, <1>8, <1>9, <1>10, <1>11 DEF ConsumerStep, HandleStep

LEMMA FreshConsumer ==
    ASSUME TypeInv, DeleteInv, FreshInv, NEW c \in Consumers, ConsumerStep(c)
    PROVE  FreshInv'
<1> DEFINE e == cevent[c]
<1>1. /\ TypeOK /\ readUpTo \in Nat /\ floor \in Nat /\ committed \in Nat
      /\ \A w \in Writers : version[w] \in Nat
  BY DEF TypeInv, TypeOK
<1>2. UNCHANGED <<doc, floor, version>>
  BY <1>1, ConsumerFrame DEF writerVars, historyVars
<1> SUFFICES ASSUME OneConsumer, doc # NoWriter
             PROVE  OvertakenBelow' /\ AboveFloorHas'
  BY <1>2, UpToConsumer DEF FreshInv, OvertakenBelow, AboveFloorHas
<1>3. \A d \in Consumers : d = c
  BY DEF OneConsumer
<1>4. /\ cstage[c] = "upsert" /\ cread[c] # doc =>
           version[e] <= floor /\ committed <= floor /\ event[doc] # "deleted"
      /\ cstage[c] \in {"get", "set", "ack"} /\ version[e] > floor => Has
      /\ committed > floor => Has
      /\ event[doc] = "deleted" /\ version[doc] > floor => Has
  BY DEF FreshInv, OvertakenBelow, AboveFloorHas
<1>5. doc \in Writers /\ cstage[c] \notin {"unindex", "clear"}
  BY <1>1 DEF TypeOK, DeleteInv, GoneKnown
<1>6. event'[doc] = "deleted" => event[doc] = "deleted" \/ (e = doc /\ Ack(c))
  BY <1>5, ConsumerEvent
<1>7. cstage[c] # "idle" => version[e] \in Nat
  BY <1>1, HasEvent
\* It is enough to look at c.
<1>8. ASSUME cstage'[c] # "upsert",
             cstage'[c] \in {"get", "set", "ack"} /\ version[cevent'[c]] > floor => Has',
             committed' > floor => Has',
             event'[doc] = "deleted" /\ version[doc] > floor => Has'
      PROVE  OvertakenBelow' /\ AboveFloorHas'
  BY <1>2, <1>3, <1>8 DEF OvertakenBelow, AboveFloorHas
<1> USE DEF ConsumerTo, TypeOK
<1>9. ASSUME UNCHANGED <<index, passed>> PROVE Has' <=> Has
  BY <1>2, <1>9 DEF Has
<1>10. CASE Check(c)
  <2>1. cstage[c] = "check" /\ cevent'[c] = e /\ UNCHANGED <<committed, index, passed>>
    BY <1>1, <1>10 DEF Check, searchVars, backfillVars
  <2>2. cstage'[c] = "read" \/ (cstage'[c] = "ack" /\ ~(version[e] > committed))
    BY <1>1, <1>10 DEF Check, ShouldApply
  <2>3. ~Ack(c)
    BY <2>1 DEF Ack
  <2>4. cstage'[c] = "ack" /\ version[e] > floor => committed > floor
    BY <1>1, <1>7, <2>1, <2>2
  <2> QED
    BY <1>4, <1>6, <1>8, <1>9, <2>1, <2>2, <2>3, <2>4
<1>11. CASE Read(c)
  <2>1. /\ cstage[c] = "read" /\ cstage'[c] = "upsert" /\ cread'[c] = doc
        /\ UNCHANGED <<committed, index, passed>>
    BY <1>1, <1>11 DEF Read, searchVars, backfillVars
  <2>2. ~Ack(c)
    BY <2>1 DEF Ack
  <2>3. OvertakenBelow'
    BY <1>2, <1>3, <2>1 DEF OvertakenBelow
  <2>4. \A d \in Consumers : cstage'[d] \notin {"get", "set", "ack"}
    BY <1>3, <2>1
  <2>5. AboveFloorHas'
    BY <1>2, <1>4, <1>6, <1>9, <2>1, <2>2, <2>4 DEF AboveFloorHas
  <2> QED
    BY <2>3, <2>5
<1>12. CASE Upsert(c)
  <2>1. /\ cstage[c] = "upsert" /\ cstage'[c] = "get" /\ cevent'[c] = e
        /\ index' = cread[c] /\ UNCHANGED <<committed, event>>
    BY <1>1, <1>12 DEF Upsert, queueVars
  <2>2. CASE cread[c] = doc
    <3>1. Has'
      BY <1>2, <2>1, <2>2 DEF Has
    <3> QED
      BY <1>8, <2>1, <3>1
  <2>3. CASE cread[c] # doc
    <3>1. version[e] <= floor /\ committed <= floor /\ event[doc] # "deleted"
      BY <1>4, <2>1, <2>3
    <3>2. ~(version[e] > floor) /\ ~(committed > floor)
      BY <1>1, <1>7, <2>1, <3>1
    <3> QED
      BY <1>8, <2>1, <3>1, <3>2
  <2> QED
    BY <2>2, <2>3
<1>13. CASE CommitGet(c) \/ CommitSet(c)
  <2>1. /\ cstage[c] \in {"get", "set"} /\ cstage'[c] \in {"set", "ack"} /\ cevent'[c] = e
        /\ committed' \in {version[e], committed} /\ UNCHANGED <<index, passed>>
    BY <1>1, <1>13 DEF CommitGet, CommitSet, searchVars, backfillVars
  <2>2. ~Ack(c)
    BY <2>1 DEF Ack
  <2> QED
    BY <1>4, <1>6, <1>8, <1>9, <2>1, <2>2
<1>14. CASE Unindex(c) \/ Clear(c)
  BY <1>5, <1>14 DEF Unindex, Clear
<1>15. CASE Ack(c) \/ ConsumerFails(c)
  <2>1. cstage'[c] = "idle" /\ UNCHANGED <<committed, index, passed>>
    BY <1>1, <1>15 DEF Ack, ConsumerFails, Forget, searchVars, backfillVars
  <2>2. Ack(c) => cstage[c] = "ack"
    BY DEF Ack
  <2> QED
    BY <1>4, <1>6, <1>8, <1>9, <2>1, <2>2
<1>16. ASSUME NEW w \in Writers, Receive(c, w) PROVE OvertakenBelow' /\ AboveFloorHas'
  <2>1. /\ cstage[c] = "idle" /\ cstage'[c] \in {"unindex", "check"}
        /\ UNCHANGED <<committed, index, passed>>
    BY <1>1, <1>16 DEF Receive, searchVars, backfillVars
  <2>2. ~Ack(c)
    BY <2>1 DEF Ack
  <2> QED
    BY <1>4, <1>6, <1>8, <1>9, <2>1, <2>2
<1> QED
  BY <1>10, <1>11, <1>12, <1>13, <1>14, <1>15, <1>16 DEF ConsumerStep, HandleStep

\* A backfill brings the document as it is, or is known to have been overtaken.
LEMMA FreshBackfill ==
    ASSUME FreshInv, NEW b \in Backfills, BackfillStep(b)
    PROVE  FreshInv'
<1>1. /\ UNCHANGED <<doc, floor, version, event, cstage, cevent, cread, readUpTo>>
      /\ UNCHANGED committed
  BY DEF BackfillStep, Scan, BulkIndex, writerVars, historyVars, queueVars, consumerVars
<1>2. Has => Has'
  <2>1. CASE Scan(b)
    BY <1>1, <2>1 DEF Scan, Has
  <2>2. CASE BulkIndex(b)
    <3>1. CASE index' = bcopy[b] /\ passed' = (bcopy[b] # doc)
      <4>1. CASE bcopy[b] = doc
        BY <1>1, <3>1, <4>1 DEF Has
      <4>2. CASE bcopy[b] # doc
        <5>1. passed'
          BY <3>1, <4>2
        <5> QED
          BY <5>1 DEF Has
      <4> QED
        BY <4>1, <4>2
    <3>2. CASE UNCHANGED <<index, passed>>
      BY <1>1, <3>2 DEF Has
    <3> QED
      BY <2>2, <3>1, <3>2 DEF BulkIndex
  <2> QED
    BY <2>1, <2>2 DEF BackfillStep
<1>3. UpTo' /\ OvertakenBelow'
  BY <1>1 DEF FreshInv, UpTo, OvertakenBelow
<1>4. AboveFloorHas'
  BY <1>1, <1>2 DEF FreshInv, AboveFloorHas
<1> QED
  BY <1>3, <1>4 DEF FreshInv

LEMMA FreshExpires ==
    ASSUME TypeInv, FreshInv, NEW w \in Writers, VisibilityExpires(w)
    PROVE  FreshInv'
<1>1. /\ UNCHANGED <<doc, floor, version, cstage, cevent, cread, readUpTo>>
      /\ UNCHANGED <<committed, index, passed>>
  BY DEF VisibilityExpires, writerVars, historyVars, consumerVars, searchVars, backfillVars
<1>2. doc # NoWriter => doc \in Writers
  BY DEF TypeInv, TypeOK
<1>3. doc # NoWriter /\ event'[doc] = "deleted" => event[doc] = "deleted"
  BY <1>2 DEF VisibilityExpires, Gone, TypeInv, TypeOK
<1>4. UpTo' /\ OvertakenBelow'
  BY <1>1, <1>3 DEF FreshInv, UpTo, OvertakenBelow
<1>5. AboveFloorHas'
  BY <1>1, <1>3 DEF FreshInv, AboveFloorHas, Has
<1> QED
  BY <1>4, <1>5 DEF FreshInv

-----------------------------------------------------------------------------
(* The theorems.                                                           *)

LEMMA InvInit == Init => IInv
  BY TypeInit, OrderInit, DeleteInit, FreshInit DEF IInv

LEMMA InvStep == IInv /\ [Next]_vars => IInv'
<1> SUFFICES ASSUME IInv, [Next]_vars PROVE IInv'
  OBVIOUS
<1>1. TypeInv /\ OrderInv /\ DeleteInv /\ FreshInv
  BY DEF IInv
<1>2. ASSUME NEW w \in Writers, WriterStep(w) PROVE IInv'
  <2>1. WroteOnce
    BY <1>1 DEF OrderInv
  <2> QED
    BY <1>1, <1>2, <2>1, TypeWriter, OrderWriter, DeleteWriter, FreshWriter DEF IInv
<1>3. ASSUME NEW w \in Writers, VisibilityExpires(w) PROVE IInv'
  BY <1>1, <1>3, TypeExpires, OrderExpires, DeleteExpires, FreshExpires DEF IInv
<1>4. ASSUME NEW c \in Consumers, ConsumerStep(c) PROVE IInv'
  BY <1>1, <1>4, TypeConsumer, OrderConsumer, DeleteConsumer, FreshConsumer DEF IInv
<1>5. ASSUME NEW b \in Backfills, BackfillStep(b) PROVE IInv'
  BY <1>1, <1>5, TypeBackfill, OrderBackfill, DeleteBackfill, FreshBackfill DEF IInv
<1>6. CASE UNCHANGED vars
  <2>1. UNCHANGED <<clock, doc, updatedAt, wstage, stamp, floor, landed, version, event, receives>>
        /\ UNCHANGED <<cstage, cevent, cread, ccur, readUpTo, index, committed, bstage, bcopy, passed>>
    BY <1>6 DEF vars, writerVars, historyVars, queueVars, consumerVars, searchVars, backfillVars
  <2>2. Landed' = Landed
    BY <2>1 DEF Landed
  <2>3. TypeInv'
    BY <1>1, <2>1, <2>2 DEF TypeInv, TypeOK, QueueSane, HeldSent
  <2>4. OrderInv'
    BY <1>1, <2>1, <2>2 DEF OrderInv, WroteOnce, StatesKnown, Known, ReadsOn, NoBackfill
  <2>5. DeleteInv'
    BY <1>1, <2>1 DEF DeleteInv, BegunFirst, Begun, GoneKnown, ClearedInTime, Cleared
  <2>6. FreshInv'
    BY <1>1, <2>1 DEF FreshInv, UpTo, OvertakenBelow, AboveFloorHas, Has
  <2> QED
    BY <2>3, <2>4, <2>5, <2>6 DEF IInv
<1> QED
  BY <1>2, <1>3, <1>4, <1>5, <1>6, NextFact

LEMMA Invariant == Spec => []IInv
  BY InvInit, InvStep, PTL DEF Spec

\* The variables keep their types, receive counts the bound of the redrive policy.
THEOREM TypeCorrect == Spec => []TypeOK
<1>1. IInv => TypeOK
  BY DEF IInv, TypeInv
<1> QED
  BY <1>1, Invariant, PTL

\* With one consumer, a document whose last event was handled with a version above
\* those read before it is in the index as it is, for any writers and clocks.
THEOREM HandledIsFresh == Spec => []FreshUnlessOutstamped
<1>1. IInv => FreshUnlessOutstamped
  BY DEF IInv, FreshInv, AboveFloorHas, Has, FreshUnlessOutstamped
<1> QED
  BY <1>1, Invariant, PTL

\* With one consumer, a document whose deletion was handled is not in the index.
THEOREM HandledIsGone == Spec => []DeletedLeavesIndex
<1>1. IInv => DeletedLeavesIndex
  BY DEF IInv, DeleteInv, ClearedInTime, Cleared, DeletedLeavesIndex
<1> QED
  BY <1>1, Invariant, PTL

\* With one consumer and until a backfill starts, the index never goes back to an
\* earlier state of the document.
THEOREM NeverBack == Spec => IndexOnlyAdvances
<1>1. IInv /\ [Next]_vars =>
        [OneConsumer /\ (\A b \in Backfills : bstage'[b] = "idle") /\ index' # NoWriter /\ index # NoWriter
           => landed[index'] >= landed[index]]_index
  <2> SUFFICES ASSUME IInv, Next, OneConsumer, \A b \in Backfills : bstage'[b] = "idle",
                      index' # NoWriter, index # NoWriter, index' # index
               PROVE  landed[index'] >= landed[index]
    BY DEF vars, searchVars
  <2>1. TypeOK /\ ReadsOn
    BY DEF IInv, TypeInv, OrderInv
  <2>2. ~\E w \in Writers : WriterStep(w) \/ VisibilityExpires(w)
    BY DEF WriterStep, TakeTime, Write, ReadBack, Remove, Publish, VisibilityExpires, searchVars
  <2>3. ~\E b \in Backfills : BackfillStep(b)
    BY <2>1 DEF BackfillStep, Scan, BulkIndex, BackfillTo, TypeOK
  <2>4. PICK c \in Consumers : ConsumerStep(c)
    BY <2>2, <2>3, NextFact
  <2>5. Upsert(c)
    BY <2>4 DEF ConsumerStep, HandleStep, Check, Read, CommitGet, CommitSet, Unindex, Clear, Ack,
                ConsumerFails, Receive, searchVars
  <2>6. UNCHANGED bstage
    BY <2>1, <2>4, ConsumerFrame
  <2> QED
    BY <2>1, <2>5, <2>6 DEF Upsert, ReadsOn, NoBackfill
<1> QED
  BY <1>1, Invariant, PTL DEF Spec, IndexOnlyAdvances
=============================================================================
