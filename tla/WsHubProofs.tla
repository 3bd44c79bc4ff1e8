----------------------------- MODULE WsHubProofs -----------------------------
(* What WsHub promises, for any connections, videos and number of pushes; and,
   at the end, the limits of one connection (WsLimits), whatever they are. *)
EXTENDS WsHub, WsLimits, TLAPS, FiniteSetTheorems, WellFoundedInduction

\* A push that is under way has a topic.
TopicKnown == \A m \in Messages : pushed[m] \in {"queued", "fanning"} => topicOf[m] \in Topics

TypeInv == HubTypeOK /\ TopicKnown

\* What the goroutine of a connection may do, its client's requests included.
ConnAction(c) ==
    \/ ConnStep(c) \/ StopReading(c) \/ Break(c)
    \/ \E t \in Topics : HandleSubscribe(c, t) \/ HandleUnsubscribe(c, t)

PushAction(m) == PushStep(m) \/ \E t \in Topics : Publish(m, t)

LEMMA TopicsFact == NoTopic \notin Topics
  BY HubAssumption DEF Topics

\* Whatever a client asks, it is a topic it asks for that changes anything.
LEMMA NextFact ==
    ASSUME HubTypeOK, Next
    PROVE  (\E c \in Conns : ConnAction(c)) \/ (\E m \in Messages : PushAction(m))
<1>1. ASSUME NEW c \in Conns, ClientAsks(c)
      PROVE  \E t \in Topics : HandleSubscribe(c, t) \/ HandleUnsubscribe(c, t)
  <2>1. PICK t : HandleSubscribe(c, t) \/ HandleUnsubscribe(c, t)
    BY <1>1 DEF ClientAsks
  <2>2. t \in Topics
    BY <2>1 DEF HandleSubscribe, HandleUnsubscribe, HubTypeOK
  <2> QED
    BY <2>1, <2>2
<1> QED
  BY <1>1 DEF Next, ConnAction, PushAction

-----------------------------------------------------------------------------
LEMMA TypeInit == Init => TypeInv
<1> SUFFICES ASSUME Init PROVE TypeInv
  OBVIOUS
<1>1. /\ stage \in [Conns -> Stages] /\ \A c \in Conns : stage[c] = "new"
      /\ about \in [Conns -> Topics \cup {NoTopic}] /\ peer \in [Conns -> {"up", "broken"}]
      /\ topics \in [Conns -> SUBSET Topics] /\ hub \in [Topics -> SUBSET Conns]
      /\ senders \subseteq Conns /\ viaRedis \in BOOLEAN
  BY DEF Init, Stages
<1>2. /\ pushed \in [Messages -> {"new", "queued", "fanning", "done"}]
      /\ \A m \in Messages : pushed[m] = "new"
      /\ topicOf \in [Messages -> Topics \cup {NoTopic}]
      /\ targets \in [Messages -> SUBSET Conns] /\ owed \in [Messages -> SUBSET Conns]
  BY DEF Init
<1>3. last \in [Conns -> 0..Pushes]
  BY HubAssumption DEF Init
<1> QED
  BY <1>1, <1>2, <1>3 DEF TypeInv, HubTypeOK, TopicKnown

\* The step of a connection leaves the others and the pushes alone.
LEMMA ConnFrame ==
    ASSUME HubTypeOK, NEW c \in Conns, ConnAction(c)
    PROVE  /\ UNCHANGED <<viaRedis, pushVars>>
           /\ \A x \in Conns \ {c} :
                  /\ stage'[x] = stage[x] /\ about'[x] = about[x] /\ peer'[x] = peer[x]
                  /\ topics'[x] = topics[x] /\ last'[x] = last[x]
                  /\ x \in senders' <=> x \in senders
                  /\ \A t \in Topics : x \in hub'[t] <=> x \in hub[t]
                  /\ \A m \in Messages : x \in owed'[m] <=> x \in owed[m]
<1> USE DEF Goto, ReadsOn, Release, pushVars, hubVars, historyVars
<1>1. CASE Connect(c)
  BY <1>1 DEF Connect, HubTypeOK
<1>2. CASE Reply(c) \/ StopReading(c) \/ Break(c)
  BY <1>2 DEF Reply, StopReading, Break, HubTypeOK
<1>3. CASE HubSubscribe(c) \/ HubUnsubscribe(c)
  BY <1>3 DEF HubSubscribe, HubUnsubscribe, HubTypeOK
<1>4. CASE UnsubscribeAll(c)
  BY <1>4 DEF UnsubscribeAll, HubTypeOK
<1>5. ASSUME NEW t \in Topics, HandleSubscribe(c, t) \/ HandleUnsubscribe(c, t)
      PROVE  /\ UNCHANGED <<viaRedis, pushVars, hubVars, last>>
             /\ \A x \in Conns \ {c} :
                  /\ stage'[x] = stage[x] /\ about'[x] = about[x] /\ peer'[x] = peer[x]
                  /\ topics'[x] = topics[x]
                  /\ \A m \in Messages : x \in owed'[m] <=> x \in owed[m]
  BY <1>5 DEF HandleSubscribe, HandleUnsubscribe, HubTypeOK
<1> QED
  BY <1>1, <1>2, <1>3, <1>4, <1>5 DEF ConnAction, ConnStep

LEMMA TypeConn ==
    ASSUME TypeInv, NEW c \in Conns, ConnAction(c)
    PROVE  TypeInv'
<1>1. HubTypeOK /\ TopicKnown
  BY DEF TypeInv
<1>2. UNCHANGED <<viaRedis, pushed, topicOf, targets>>
  BY <1>1, ConnFrame DEF pushVars
<1> USE DEF Goto, ReadsOn, Release, hubVars, historyVars, Stages
<1>3. CASE Connect(c) \/ Reply(c)
  BY <1>1, <1>2, <1>3 DEF Connect, Reply, HubTypeOK, TypeInv, TopicKnown
<1>4. CASE StopReading(c) \/ Break(c)
  BY <1>1, <1>2, <1>4 DEF StopReading, Break, HubTypeOK, TypeInv, TopicKnown
<1>5. CASE HubSubscribe(c)
  BY <1>1, <1>2, <1>5 DEF HubSubscribe, HubTypeOK, TypeInv, TopicKnown
<1>6. CASE HubUnsubscribe(c)
  BY <1>1, <1>2, <1>6 DEF HubUnsubscribe, HubTypeOK, TypeInv, TopicKnown
<1>7. CASE UnsubscribeAll(c)
  BY <1>1, <1>2, <1>7, HubAssumption DEF UnsubscribeAll, HubTypeOK, TypeInv, TopicKnown
<1>8. ASSUME NEW t \in Topics, HandleSubscribe(c, t) PROVE TypeInv'
  BY <1>1, <1>2, <1>8 DEF HandleSubscribe, HubTypeOK, TypeInv, TopicKnown
<1>9. ASSUME NEW t \in Topics, HandleUnsubscribe(c, t) PROVE TypeInv'
  BY <1>1, <1>2, <1>9 DEF HandleUnsubscribe, HubTypeOK, TypeInv, TopicKnown
<1> QED
  BY <1>3, <1>4, <1>5, <1>6, <1>7, <1>8, <1>9 DEF ConnAction, ConnStep

LEMMA TypePush ==
    ASSUME TypeInv, NEW m \in Messages, PushAction(m)
    PROVE  TypeInv'
<1> USE DEF connVars, hubVars, TypeInv, HubTypeOK, TopicKnown
<1>1. ASSUME NEW t \in Topics, Publish(m, t) PROVE TypeInv'
  BY <1>1 DEF Publish
<1>2. CASE Take(m)
  <2>1. hub[topicOf[m]] \subseteq Conns
    BY <1>2 DEF Take, MayTake
  <2> QED
    BY <1>2, <2>1 DEF Take, MayTake, historyVars
<1>3. ASSUME NEW c \in Conns, Send(m, c) PROVE TypeInv'
  <2>1. m \in 0..Pushes
    BY HubAssumption DEF Messages
  <2>2. last' \in [Conns -> 0..Pushes] /\ owed' \in [Messages -> SUBSET Conns]
    BY <1>3, <2>1 DEF Send
  <2>3. targets' \in [Messages -> SUBSET Conns]
    BY <1>3 DEF Send
  <2> QED
    BY <1>3, <2>2, <2>3 DEF Send
<1>4. CASE FanoutEnds(m)
  BY <1>4 DEF FanoutEnds, historyVars
<1> QED
  BY <1>1, <1>2, <1>3, <1>4 DEF PushAction, PushStep

LEMMA TypeStep == TypeInv /\ [Next]_vars => TypeInv'
<1> SUFFICES ASSUME TypeInv, [Next]_vars PROVE TypeInv'
  OBVIOUS
<1>1. CASE Next
  BY <1>1, NextFact, TypeConn, TypePush DEF TypeInv
<1>2. CASE UNCHANGED vars
  BY <1>2 DEF vars, connVars, hubVars, pushVars, historyVars, TypeInv, HubTypeOK, TopicKnown
<1> QED
  BY <1>1, <1>2

\* Connections, hub and pushes stay of their types.
THEOREM TypeCorrect == Spec => []HubTypeOK
<1>1. TypeInv => HubTypeOK
  BY DEF TypeInv
<1> QED
  BY <1>1, TypeInit, TypeStep, PTL DEF Spec

-----------------------------------------------------------------------------
(* The two books of topics, a connection's and the hub's.                   *)

\* The topic a connection is subscribing to is one of its own already, the one
\* it is unsubscribing from no more.
AboutKnown ==
    \A c \in Conns :
        /\ stage[c] = "new" => topics[c] = {}
        /\ stage[c] \in {"subscribing", "replying"} => about[c] \in topics[c]
        /\ stage[c] = "unsubscribing" => about[c] \notin topics[c]
        /\ stage[c] = "reading" => about[c] = NoTopic

BookInv == TypeInv /\ AboutKnown /\ HubMatchesConnections

\* The same of one connection.
AboutKnownOf(c) ==
    /\ stage[c] = "new" => topics[c] = {}
    /\ stage[c] \in {"subscribing", "replying"} => about[c] \in topics[c]
    /\ stage[c] = "unsubscribing" => about[c] \notin topics[c]
    /\ stage[c] = "reading" => about[c] = NoTopic

MatchesOf(c) ==
    /\ stage[c] \in {"new", "closed"} => InHub(c) = {} /\ c \notin senders
    /\ stage[c] \in {"reading", "replying"} => InHub(c) = topics[c]
    /\ stage[c] = "subscribing" => InHub(c) = topics[c] \ {about[c]}
    /\ stage[c] = "unsubscribing" => InHub(c) = topics[c] \cup {about[c]}
    /\ InHub(c) # {} => c \in senders

LEMMA BookInit == Init => BookInv
  BY TypeInit DEF Init, BookInv, AboutKnown, HubMatchesConnections, InHub

LEMMA BookConn ==
    ASSUME BookInv, NEW c \in Conns, ConnAction(c)
    PROVE  AboutKnown' /\ HubMatchesConnections'
<1>1. HubTypeOK /\ AboutKnownOf(c) /\ MatchesOf(c)
  BY DEF BookInv, TypeInv, AboutKnown, HubMatchesConnections, AboutKnownOf, MatchesOf
<1>2. ASSUME NEW x \in Conns \ {c} PROVE AboutKnownOf(x)' /\ MatchesOf(x)'
  <2>1. /\ stage'[x] = stage[x] /\ about'[x] = about[x] /\ topics'[x] = topics[x]
        /\ x \in senders' <=> x \in senders
        /\ \A t \in Topics : x \in hub'[t] <=> x \in hub[t]
    BY <1>1, ConnFrame
  <2>2. InHub(x)' = InHub(x)
    BY <2>1 DEF InHub
  <2>3. AboutKnownOf(x) /\ MatchesOf(x)
    BY DEF BookInv, AboutKnown, HubMatchesConnections, AboutKnownOf, MatchesOf
  <2> QED
    BY <2>1, <2>2, <2>3 DEF AboutKnownOf, MatchesOf
<1>3. AboutKnownOf(c)' /\ MatchesOf(c)'
  <2> USE <1>1 DEF Goto, AboutKnownOf, MatchesOf, InHub, hubVars, HubTypeOK
  <2>1. CASE Connect(c) \/ StopReading(c)
    BY <2>1 DEF Connect, StopReading
  <2>2. CASE Reply(c)
    BY <2>2 DEF Reply, ReadsOn
  <2>3. CASE Break(c)
    BY <2>3 DEF Break
  <2>4. CASE HubSubscribe(c)
    <3>1. /\ stage[c] = "subscribing" /\ stage'[c] = "replying" /\ about'[c] = about[c]
          /\ topics' = topics /\ c \in senders'
          /\ \A t \in Topics : c \in hub'[t] <=> c \in hub[t] \/ t = about[c]
      BY <2>4 DEF HubSubscribe
    <3>2. InHub(c)' = InHub(c) \cup {about[c]}
      BY <3>1
    <3> QED
      BY <3>1, <3>2
  <2>5. CASE HubUnsubscribe(c)
    <3>1. /\ stage[c] = "unsubscribing" /\ stage'[c] \in {"reading", "leaving"}
          /\ about'[c] = NoTopic /\ topics' = topics /\ senders' = senders
          /\ \A t \in Topics : c \in hub'[t] <=> c \in hub[t] /\ t # about[c]
      BY <2>5 DEF HubUnsubscribe, ReadsOn
    <3>2. InHub(c)' = InHub(c) \ {about[c]}
      BY <3>1
    <3> QED
      BY <3>1, <3>2
  <2>6. CASE UnsubscribeAll(c)
    BY <2>6 DEF UnsubscribeAll
  <2>7. ASSUME NEW t \in Topics, HandleSubscribe(c, t) PROVE AboutKnownOf(c)' /\ MatchesOf(c)'
    <3>1. /\ stage[c] = "reading" /\ stage'[c] = "subscribing" /\ about'[c] = t
          /\ t \notin topics[c] /\ topics'[c] = topics[c] \cup {t} /\ UNCHANGED <<hub, senders>>
      BY <2>7 DEF HandleSubscribe
    <3>2. InHub(c)' = InHub(c)
      BY <3>1
    <3> QED
      BY <3>1, <3>2
  <2>8. ASSUME NEW t \in Topics, HandleUnsubscribe(c, t) PROVE AboutKnownOf(c)' /\ MatchesOf(c)'
    <3>1. /\ stage[c] = "reading" /\ stage'[c] = "unsubscribing" /\ about'[c] = t
          /\ t \in topics[c] /\ topics'[c] = topics[c] \ {t} /\ UNCHANGED <<hub, senders>>
      BY <2>8 DEF HandleUnsubscribe
    <3>2. InHub(c)' = InHub(c)
      BY <3>1
    <3> QED
      BY <3>1, <3>2
  <2> QED
    BY <2>1, <2>2, <2>3, <2>4, <2>5, <2>6, <2>7, <2>8 DEF ConnAction, ConnStep
<1> QED
  BY <1>2, <1>3 DEF AboutKnown, HubMatchesConnections, AboutKnownOf, MatchesOf

LEMMA PushFrame ==
    ASSUME NEW m \in Messages, PushAction(m)
    PROVE  UNCHANGED <<stage, about, peer, topics, hub, senders, viaRedis>>
  BY DEF PushAction, PushStep, Publish, Take, Send, FanoutEnds, connVars, hubVars

LEMMA BookStep == BookInv /\ [Next]_vars => BookInv'
<1> SUFFICES ASSUME BookInv, [Next]_vars PROVE BookInv'
  OBVIOUS
<1>1. TypeInv' /\ HubTypeOK
  BY TypeStep DEF BookInv, TypeInv
<1>2. CASE UNCHANGED <<stage, about, topics, hub, senders>>
  BY <1>1, <1>2 DEF BookInv, AboutKnown, HubMatchesConnections, InHub
<1>3. CASE Next
  BY <1>1, <1>2, <1>3, NextFact, BookConn, PushFrame DEF BookInv
<1> QED
  BY <1>2, <1>3 DEF vars, connVars, hubVars

\* The hub and a connection agree, but for the topic under way, and a closed
\* connection is nowhere in the hub.
THEOREM BooksAgree == Spec => []HubMatchesConnections
<1>1. BookInv => HubMatchesConnections
  BY DEF BookInv
<1> QED
  BY <1>1, BookInit, BookStep, PTL DEF Spec

-----------------------------------------------------------------------------
(* Who is owed a push.                                                      *)

\* A push that somebody waits for is under way, they have the topic confirmed,
\* and once the fan-out has begun they are among its targets.
OwedWaits ==
    \A m \in Messages : \A c \in owed[m] :
        /\ pushed[m] \in {"queued", "fanning"}
        /\ topicOf[m] \in Confirmed(c)
        /\ pushed[m] = "fanning" => c \in targets[m]

ServeInv == BookInv /\ OwedWaits

LEMMA ServeInit == Init => ServeInv
  BY BookInit DEF Init, ServeInv, OwedWaits

\* The hub has a confirmed subscriber, and can write to it.
LEMMA ConfirmedFact ==
    ASSUME BookInv, NEW c \in Conns, NEW t \in Confirmed(c)
    PROVE  t \in Topics /\ c \in hub[t] /\ c \in senders /\ peer[c] = "up"
<1>1. stage[c] \in Stages \ {"new", "leaving", "closed"} /\ peer[c] = "up" /\ t \in topics[c] \ {about[c]}
  BY DEF Confirmed, BookInv, AboutKnown
<1>2. t \in InHub(c)
  BY <1>1 DEF BookInv, HubMatchesConnections, Stages
<1>3. InHub(c) # {} => c \in senders
  BY DEF BookInv, HubMatchesConnections
<1> QED
  BY <1>1, <1>2, <1>3 DEF InHub

\* What a connection does takes a confirmed topic from it only together with
\* what it is owed of that topic.
LEMMA ConfirmedStays ==
    ASSUME BookInv, NEW c \in Conns, ConnAction(c),
           NEW m \in Messages, c \in owed[m], c \in owed'[m], topicOf[m] \in Confirmed(c)
    PROVE  topicOf[m] \in Confirmed(c)'
<1>1. HubTypeOK /\ peer[c] = "up" /\ stage[c] \in Stages \ {"leaving", "closed"}
      /\ topicOf[m] \in topics[c] \ {about[c]} /\ topicOf[m] \in Topics
  BY ConfirmedFact DEF BookInv, TypeInv, Confirmed
<1>2. UNCHANGED topicOf
  BY <1>1, ConnFrame DEF pushVars
<1> USE <1>1, TopicsFact DEF Goto, ReadsOn, Release, Confirmed, Stages, HubTypeOK
<1>3. CASE Connect(c)
  BY <1>3 DEF Connect, BookInv, AboutKnown
<1>4. CASE Reply(c) \/ HubUnsubscribe(c)
  BY <1>2, <1>4 DEF Reply, HubUnsubscribe
<1>5. CASE StopReading(c) \/ Break(c)
  BY <1>5 DEF StopReading, Break
<1>6. CASE HubSubscribe(c)
  BY <1>2, <1>6 DEF HubSubscribe
<1>7. CASE UnsubscribeAll(c)
  BY <1>7 DEF UnsubscribeAll
<1>8. ASSUME NEW t \in Topics, HandleSubscribe(c, t) PROVE topicOf[m] \in Confirmed(c)'
  BY <1>2, <1>8 DEF HandleSubscribe
<1>9. ASSUME NEW t \in Topics, HandleUnsubscribe(c, t) PROVE topicOf[m] \in Confirmed(c)'
  BY <1>2, <1>9 DEF HandleUnsubscribe
<1> QED
  BY <1>3, <1>4, <1>5, <1>6, <1>7, <1>8, <1>9 DEF ConnAction, ConnStep

LEMMA OwedShrinks ==
    ASSUME HubTypeOK, NEW c \in Conns, ConnAction(c), NEW m \in Messages
    PROVE  owed'[m] \subseteq owed[m]
  BY DEF ConnAction, ConnStep, Connect, Reply, HubSubscribe, HubUnsubscribe, UnsubscribeAll,
         StopReading, Break, HandleSubscribe, HandleUnsubscribe, Release, historyVars, HubTypeOK

LEMMA ServeConn ==
    ASSUME ServeInv, NEW c \in Conns, ConnAction(c)
    PROVE  OwedWaits'
<1>1. BookInv /\ HubTypeOK
  BY DEF ServeInv, BookInv, TypeInv
<1> SUFFICES ASSUME NEW m \in Messages, NEW x \in owed'[m]
             PROVE  /\ pushed'[m] \in {"queued", "fanning"}
                    /\ topicOf'[m] \in Confirmed(x)'
                    /\ pushed'[m] = "fanning" => x \in targets'[m]
  BY DEF OwedWaits
<1>2. x \in owed[m] /\ x \in Conns
  BY <1>1, OwedShrinks DEF HubTypeOK
<1>3. UNCHANGED <<pushed, topicOf, targets>>
  BY <1>1, ConnFrame DEF pushVars
<1>4. topicOf[m] \in Confirmed(x)
  BY <1>2 DEF ServeInv, OwedWaits
<1>5. CASE x = c
  BY <1>1, <1>2, <1>3, <1>4, <1>5, ConfirmedStays DEF ServeInv, OwedWaits
<1>6. CASE x # c
  <2>1. stage'[x] = stage[x] /\ about'[x] = about[x] /\ peer'[x] = peer[x] /\ topics'[x] = topics[x]
    BY <1>1, <1>2, <1>6, ConnFrame
  <2>2. Confirmed(x)' = Confirmed(x)
    BY <2>1 DEF Confirmed
  <2> QED
    BY <1>2, <1>3, <1>4, <2>2 DEF ServeInv, OwedWaits
<1> QED
  BY <1>5, <1>6

LEMMA ServePush ==
    ASSUME ServeInv, NEW m \in Messages, PushAction(m)
    PROVE  OwedWaits'
<1>1. BookInv /\ HubTypeOK /\ TopicKnown
  BY DEF ServeInv, BookInv, TypeInv
<1>2. \A c \in Conns : Confirmed(c)' = Confirmed(c)
  BY PushFrame DEF Confirmed
<1>3. \A n \in Messages : owed[n] \subseteq Conns
  BY <1>1 DEF HubTypeOK
<1>4. ASSUME NEW t \in Topics, Publish(m, t) PROVE OwedWaits'
  <2>1. pushed[m] = "new" /\ owed[m] = {}
    BY <1>4 DEF Publish, ServeInv, OwedWaits
  <2>2. \A n \in Messages \ {m} : /\ pushed'[n] = pushed[n] /\ topicOf'[n] = topicOf[n]
                                   /\ owed'[n] = owed[n] /\ targets'[n] = targets[n]
    BY <1>1, <1>4 DEF Publish, HubTypeOK
  <2>3. \/ owed'[m] = {}
        \/ /\ pushed'[m] = "queued" /\ topicOf'[m] = t
           /\ owed'[m] = {c \in Conns : t \in Confirmed(c)}
    BY <1>1, <1>4, <2>1 DEF Publish, HubTypeOK
  <2> QED
    BY <1>2, <1>3, <2>2, <2>3 DEF ServeInv, OwedWaits
<1>5. CASE Take(m)
  <2>1. /\ pushed[m] = "queued" /\ pushed'[m] = "fanning" /\ targets'[m] = hub[topicOf[m]]
        /\ UNCHANGED <<topicOf, owed>>
        /\ \A n \in Messages \ {m} : pushed'[n] = pushed[n] /\ targets'[n] = targets[n]
    BY <1>1, <1>5 DEF Take, MayTake, HubTypeOK, historyVars
  <2>2. \A c \in owed[m] : c \in hub[topicOf[m]]
    BY <1>1, <1>3, ConfirmedFact DEF ServeInv, OwedWaits
  <2> QED
    BY <1>2, <1>3, <2>1, <2>2 DEF ServeInv, OwedWaits
<1>6. ASSUME NEW c \in Conns, Send(m, c) PROVE OwedWaits'
  <2>1. /\ UNCHANGED <<pushed, topicOf>> /\ targets'[m] = targets[m] \ {c}
        /\ \A n \in Messages \ {m} : targets'[n] = targets[n] /\ owed'[n] = owed[n]
    BY <1>1, <1>6 DEF Send, HubTypeOK
  <2>2. c \in owed[m] => c \in senders /\ peer[c] = "up"
    BY <1>1, ConfirmedFact DEF ServeInv, OwedWaits
  <2>3. owed'[m] = owed[m] \ {c}
    BY <1>1, <1>6, <2>2 DEF Send, HubTypeOK
  <2> QED
    BY <1>2, <1>3, <2>1, <2>3 DEF ServeInv, OwedWaits
<1>7. CASE FanoutEnds(m)
  <2>1. pushed[m] = "fanning" /\ owed[m] = {}
    BY <1>7 DEF FanoutEnds, ServeInv, OwedWaits
  <2>2. /\ UNCHANGED <<owed, targets>>
        /\ \A n \in Messages \ {m} : pushed'[n] = pushed[n] /\ topicOf'[n] = topicOf[n]
    BY <1>1, <1>7 DEF FanoutEnds, HubTypeOK, historyVars
  <2> QED
    BY <1>2, <1>3, <2>1, <2>2 DEF ServeInv, OwedWaits
<1> QED
  BY <1>4, <1>5, <1>6, <1>7 DEF PushAction, PushStep

LEMMA ServeStep == ServeInv /\ [Next]_vars => ServeInv'
<1> SUFFICES ASSUME ServeInv, [Next]_vars PROVE ServeInv'
  OBVIOUS
<1>1. BookInv' /\ HubTypeOK
  BY BookStep DEF ServeInv, BookInv, TypeInv
<1>2. CASE Next
  BY <1>1, <1>2, NextFact, ServeConn, ServePush DEF ServeInv
<1>3. CASE UNCHANGED vars
  BY <1>1, <1>3
     DEF vars, connVars, pushVars, historyVars, ServeInv, OwedWaits, Confirmed
<1> QED
  BY <1>2, <1>3

\* A push published after a client had its "subscribed" is not done before it
\* was written to that client, or the client has given up.
THEOREM ConfirmedServed == Spec => []ConfirmedIsServed
<1>1. ServeInv => ConfirmedIsServed
  BY DEF ServeInv, BookInv, TypeInv, HubTypeOK, OwedWaits, ConfirmedIsServed
<1> QED
  BY <1>1, ServeInit, ServeStep, PTL DEF Spec

-----------------------------------------------------------------------------
(* The order of the pushes.                                                 *)

\* With Redis the fan-outs come one after the other, and no connection has been
\* sent a push later than one that is not done.
OneFanout ==
    viaRedis =>
        \A m \in Messages :
            /\ pushed[m] = "fanning" => \A n \in Messages : n < m => pushed[n] = "done"
            /\ pushed[m] # "done" => \A c \in Conns : last[c] <= m
            /\ targets[m] # {} => pushed[m] = "fanning"

OrderInv == TypeInv /\ OneFanout

LEMMA OrderInit == Init => OrderInv
<1> SUFFICES ASSUME Init PROVE OneFanout
  BY TypeInit DEF OrderInv
<1>1. \A m \in Messages : 0 <= m /\ pushed[m] = "new" /\ targets[m] = {}
  BY HubAssumption DEF Init, Messages
<1> QED
  BY <1>1 DEF Init, OneFanout

LEMMA LastConn ==
    ASSUME HubTypeOK, NEW c \in Conns, ConnAction(c), NEW x \in Conns
    PROVE  last'[x] = last[x] \/ (last'[x] = 0 /\ stage'[x] = "closed")
  BY DEF ConnAction, ConnStep, Connect, Reply, HubSubscribe, HubUnsubscribe, UnsubscribeAll, Goto,
         StopReading, Break, HandleSubscribe, HandleUnsubscribe, historyVars, HubTypeOK

LEMMA OrderPush ==
    ASSUME OrderInv, viaRedis, NEW m \in Messages, PushAction(m)
    PROVE  OneFanout' /\ \A c \in Conns : last'[c] >= last[c]
<1>1. HubTypeOK /\ m \in Int /\ \A c \in Conns : last[c] \in Int
  BY HubAssumption DEF OrderInv, TypeInv, HubTypeOK, Messages
<1>2. Messages \subseteq Int
  BY HubAssumption DEF Messages
<1>3. CASE Take(m) \/ FanoutEnds(m) \/ \E t \in Topics : Publish(m, t)
  <2>1. UNCHANGED last
    BY <1>3 DEF Take, FanoutEnds, Publish, historyVars
  <2>2. \A n \in Messages \ {m} : pushed'[n] = pushed[n] /\ targets'[n] = targets[n]
    BY <1>1, <1>3 DEF Take, FanoutEnds, Publish, HubTypeOK
  <2>3. /\ pushed[m] # "done"
        /\ pushed'[m] = "fanning" => \A n \in Messages : n < m => pushed[n] = "done"
        /\ targets'[m] # {} => pushed'[m] = "fanning"
    <3>1. CASE Take(m)
      BY <1>1, <3>1 DEF Take, MayTake, HubTypeOK
    <3>2. CASE FanoutEnds(m)
      BY <1>1, <3>2 DEF FanoutEnds, HubTypeOK
    <3>3. CASE \E t \in Topics : Publish(m, t)
      <4>1. pushed[m] = "new" /\ pushed'[m] \in {"queued", "done"} /\ UNCHANGED targets
        BY <1>1, <3>3 DEF Publish, HubTypeOK
      <4>2. targets[m] = {}
        BY <4>1 DEF OrderInv, OneFanout
      <4> QED
        BY <4>1, <4>2
    <3> QED
      BY <1>3, <3>1, <3>2, <3>3
  <2>4. \A n \in Messages :
           pushed'[n] = "fanning" => \A k \in Messages : k < n => pushed'[k] = "done"
    <3> SUFFICES ASSUME NEW n \in Messages, pushed'[n] = "fanning",
                        NEW k \in Messages, k < n
                 PROVE  pushed'[k] = "done"
      OBVIOUS
    <3>1. CASE n = m
      BY <1>1, <1>2, <2>2, <2>3, <3>1 DEF OrderInv, OneFanout
    <3>2. CASE n # m
      BY <1>2, <2>2, <2>3, <3>2 DEF OrderInv, OneFanout
    <3> QED
      BY <3>1, <3>2
  <2>5. \A n \in Messages : pushed'[n] # "done" => pushed[n] # "done"
    BY <2>2, <2>3
  <2>6. \A n \in Messages : targets'[n] # {} => pushed'[n] = "fanning"
    BY <2>2, <2>3 DEF OrderInv, OneFanout
  <2>7. \A n \in Messages : pushed'[n] # "done" => \A c \in Conns : last'[c] <= n
    BY <2>1, <2>5 DEF OrderInv, OneFanout
  <2>8. \A c \in Conns : last'[c] >= last[c]
    BY <1>1, <2>1
  <2>9. OneFanout'
    BY <2>4, <2>6, <2>7 DEF OneFanout
  <2> QED
    BY <2>8, <2>9
<1>4. ASSUME NEW c \in Conns, Send(m, c) PROVE OneFanout' /\ \A x \in Conns : last'[x] >= last[x]
  <2>1. pushed[m] = "fanning" /\ UNCHANGED pushed
    BY <1>4 DEF Send, OrderInv, OneFanout
  <2>2. \A n \in Messages : targets'[n] \subseteq targets[n]
    BY <1>1, <1>4 DEF Send, HubTypeOK
  <2>3. \A x \in Conns : last'[x] = last[x] \/ last'[x] = m
    BY <1>1, <1>4 DEF Send, HubTypeOK
  <2>4. \A x \in Conns : last[x] <= m
    BY <2>1 DEF OrderInv, OneFanout
  <2>5. \A n \in Messages : pushed[n] # "done" => m <= n
    <3>1. \A n \in Messages : n < m => pushed[n] = "done"
      BY <2>1 DEF OrderInv, OneFanout
    <3> QED
      BY <1>1, <1>2, <3>1
  <2>6. \A x \in Conns : last'[x] >= last[x]
    BY <1>1, <1>2, <2>3, <2>4
  <2>7. \A n \in Messages : pushed'[n] # "done" => \A x \in Conns : last'[x] <= n
    <3> SUFFICES ASSUME NEW n \in Messages, pushed'[n] # "done", NEW x \in Conns
                 PROVE  last'[x] <= n
      OBVIOUS
    <3>1. m <= n /\ last[x] <= n
      BY <2>1, <2>5 DEF OrderInv, OneFanout
    <3> QED
      BY <2>3, <3>1
  <2>8. \A n \in Messages : targets'[n] # {} => pushed'[n] = "fanning"
    BY <2>1, <2>2 DEF OrderInv, OneFanout
  <2> QED
    BY <2>1, <2>6, <2>7, <2>8 DEF OrderInv, OneFanout
<1> QED
  BY <1>3, <1>4 DEF PushAction, PushStep

LEMMA OrderConn ==
    ASSUME OrderInv, NEW c \in Conns, ConnAction(c)
    PROVE  OneFanout'
<1>1. HubTypeOK /\ UNCHANGED <<viaRedis, pushed, targets>>
  BY ConnFrame DEF OrderInv, TypeInv, pushVars
<1>2. \A m \in Messages : 0 <= m
  BY HubAssumption DEF Messages
<1>3. \A x \in Conns : last'[x] = last[x] \/ last'[x] = 0
  BY <1>1, LastConn
<1> QED
  BY <1>1, <1>2, <1>3 DEF OrderInv, OneFanout

LEMMA OrderStep == OrderInv /\ [Next]_vars => OrderInv'
<1> SUFFICES ASSUME OrderInv, [Next]_vars PROVE OrderInv'
  OBVIOUS
<1>1. HubTypeOK /\ TypeInv'
  BY TypeStep DEF OrderInv, TypeInv
<1>2. CASE Next
  <2>1. ASSUME NEW m \in Messages, PushAction(m) PROVE OneFanout'
    <3>1. viaRedis' = viaRedis
      BY <2>1, PushFrame
    <3>2. CASE viaRedis
      BY <2>1, <3>2, OrderPush
    <3> QED
      BY <3>1, <3>2 DEF OneFanout
  <2> QED
    BY <1>1, <1>2, <2>1, NextFact, OrderConn DEF OrderInv
<1>3. CASE UNCHANGED vars
  BY <1>1, <1>3 DEF vars, pushVars, historyVars, OrderInv, OneFanout
<1> QED
  BY <1>2, <1>3

\* With Redis each connection gets its pushes in the order they were published.
THEOREM InOrder == Spec => PushOrder
<1>1. OrderInv /\ [Next]_vars
        => [\A c \in Conns : viaRedis /\ stage'[c] # "closed" => last'[c] >= last[c]]_vars
  <2> SUFFICES ASSUME OrderInv, Next, viaRedis, NEW c \in Conns, stage'[c] # "closed"
               PROVE  last'[c] >= last[c]
    OBVIOUS
  <2>1. HubTypeOK /\ last[c] \in Int
    BY HubAssumption DEF OrderInv, TypeInv, HubTypeOK
  <2>2. ASSUME NEW x \in Conns, ConnAction(x) PROVE last'[c] >= last[c]
    BY <2>1, <2>2, LastConn
  <2>3. ASSUME NEW m \in Messages, PushAction(m) PROVE last'[c] >= last[c]
    BY <2>3, OrderPush
  <2> QED
    BY <2>1, <2>2, <2>3, NextFact
<1> QED
  BY <1>1, OrderInit, OrderStep, PTL DEF Spec, PushOrder

-----------------------------------------------------------------------------
(***************************************************************************)
(* The limits of a connection.  subTimes is pruned only on the way to the  *)
(* rate, so it says less than the history, and more than the window: the   *)
(* invariant is that its times are those of different new subscribes and   *)
(* that every new subscribe of the window is among them (Tracks), in the   *)
(* order of the clock (Ascending), so that what the loop of trySubscribe   *)
(* leaves is exactly the window.                                           *)
(***************************************************************************)
\* A set of naturals that is not empty has a least member.
LEMMA LeastOf ==
    ASSUME NEW S \in SUBSET Nat, S # {}
    PROVE  \E x \in S : \A y \in S : x <= y
<1> DEFINE Less == {ss \in Nat \X Nat : ss[1] < ss[2]}
<1>1. Less = OpToRel(<, Nat)
  BY DEF OpToRel
<1>2. IsWellFoundedOn(Less, Nat)
  BY <1>1, NatLessThanWellFounded, Zenon
<1> HIDE DEF Less
<1>3. \E x \in S : \A y \in S : ~(<<y, x>> \in Less)
  BY <1>2, WFMin, Zenon
<1>4. \A x, y \in S : x <= y \/ <<y, x>> \in Less
  BY DEF Less
<1> QED
  BY <1>3, <1>4

\* The loop of trySubscribe stops where the first time is that is not stale.
LEMMA StaleStops ==
    ASSUME NEW times \in Seq(Nat), NEW cutoff \in Int
    PROVE  /\ Stale(times, cutoff) \in 0..Len(times)
           /\ \A i \in 1..Stale(times, cutoff) : times[i] < cutoff
           /\ Stale(times, cutoff) < Len(times) => times[Stale(times, cutoff) + 1] >= cutoff
<1> DEFINE Fresh == {i \in 1..Len(times) : times[i] >= cutoff}
           Stops(n) == /\ \A i \in 1..n : times[i] < cutoff
                       /\ n < Len(times) => times[n + 1] >= cutoff
<1>1. \A i \in 1..Len(times) : times[i] \in Nat
  OBVIOUS
<1>2. \E n \in 0..Len(times) : Stops(n)
  <2>1. CASE Fresh = {}
    <3>1. \A i \in 1..Len(times) : times[i] < cutoff
      BY <1>1, <2>1
    <3>2. Len(times) \in 0..Len(times) /\ ~(Len(times) < Len(times))
      OBVIOUS
    <3> QED
      BY <3>1, <3>2
  <2>2. CASE Fresh # {}
    <3>1. PICK x \in Fresh : \A y \in Fresh : x <= y
      BY <2>2, LeastOf, Fresh \in SUBSET Nat
    <3>2. x - 1 \in 0..Len(times) /\ (x - 1) + 1 = x /\ times[x] >= cutoff
      OBVIOUS
    <3>3. \A i \in 1..(x - 1) : times[i] < cutoff
      BY <1>1, <3>1, <3>2
    <3>4. Stops(x - 1)
      BY <3>2, <3>3
    <3> QED
      BY <3>2, <3>4
  <2> QED
    BY <2>1, <2>2
<1> HIDE DEF Stops
<1>3. Stale(times, cutoff) = CHOOSE n \in 0..Len(times) : Stops(n)
  BY DEF Stale, Stops
<1>4. Stale(times, cutoff) \in 0..Len(times) /\ Stops(Stale(times, cutoff))
  BY <1>2, <1>3
<1> QED
  BY <1>4 DEF Stops

Ascending(times, now) ==
    \A i, j \in 1..Len(times) : i <= j => times[i] <= times[j] /\ times[j] <= now

LEMMA RecentIsSuffix ==
    ASSUME NEW times \in Seq(Nat), NEW now \in Nat, NEW cutoff \in Int, Ascending(times, now)
    PROVE  \E n \in 0..Len(times) :
             /\ Recent(times, cutoff) \in Seq(Nat)
             /\ Len(Recent(times, cutoff)) = Len(times) - n
             /\ \A i \in 1..(Len(times) - n) : Recent(times, cutoff)[i] = times[i + n]
             /\ \A i \in 1..n : times[i] < cutoff
             /\ \A i \in 1..(Len(times) - n) : times[i + n] >= cutoff
<1> DEFINE n == Stale(times, cutoff)
<1>1. /\ n \in 0..Len(times) /\ \A i \in 1..n : times[i] < cutoff
      /\ n < Len(times) => times[n + 1] >= cutoff
  BY StaleStops
<1>2. Recent(times, cutoff) = SubSeq(times, n + 1, Len(times))
  BY DEF Recent
<1> HIDE DEF n
<1>3. /\ Recent(times, cutoff) \in Seq(Nat)
      /\ Len(Recent(times, cutoff)) = Len(times) - n
      /\ \A i \in 1..(Len(times) - n) : Recent(times, cutoff)[i] = times[i + n]
  <2>1. Len(times) \in Nat /\ n \in Nat /\ n <= Len(times) /\ n + 1 \in 1..(Len(times) + 1)
    BY <1>1
  <2>2. \A i \in (n + 1)..Len(times) : times[i] \in Nat
    BY <2>1
  <2> QED
    BY <1>2, <2>1, <2>2
<1>4. ASSUME NEW i \in 1..(Len(times) - n) PROVE times[i + n] >= cutoff
  <2>1. i + n \in 1..Len(times) /\ n + 1 \in 1..Len(times) /\ n + 1 <= i + n /\ n < Len(times)
    BY <1>1
  <2>2. times[n + 1] <= times[i + n] /\ times[n + 1] \in Nat /\ times[i + n] \in Nat
    BY <2>1 DEF Ascending
  <2> QED
    BY <1>1, <2>1, <2>2
<1> QED
  BY <1>1, <1>3, <1>4

\* subTimes are the times of different new subscribes of the history, and all those
\* in the window are among them.
TrackedBy(p, times, log, now) ==
    /\ \A a, b \in 1..Len(times) : p[a] = p[b] => a = b
    /\ \A a \in 1..Len(times) : log[p[a]].reason = "new" /\ log[p[a]].at = times[a]
    /\ \A j \in 1..Len(log) : log[j].reason = "new" =>
          (\E a \in 1..Len(times) : p[a] = j) \/ log[j].at < now - SubscribeRateWindow

Tracks(times, log, now) ==
    \E p \in [1..Len(times) -> 1..Len(log)] : TrackedBy(p, times, log, now)

LEMMA TracksPruned ==
    ASSUME NEW times \in Seq(Nat), NEW log \in Seq(Entries), NEW now \in Nat,
           Ascending(times, now), Tracks(times, log, now)
    PROVE  Tracks(Recent(times, now - SubscribeRateWindow), log, now)
<1> DEFINE recent == Recent(times, now - SubscribeRateWindow)
<1>0. now - SubscribeRateWindow \in Int
  BY LimitsAssumption
<1>1. PICK n \in 0..Len(times) :
             /\ recent \in Seq(Nat) /\ Len(recent) = Len(times) - n
             /\ \A i \in 1..(Len(times) - n) : recent[i] = times[i + n]
             /\ \A i \in 1..n : times[i] < now - SubscribeRateWindow
  BY <1>0, RecentIsSuffix
<1>2. PICK p \in [1..Len(times) -> 1..Len(log)] : TrackedBy(p, times, log, now)
  BY DEF Tracks
<1> HIDE DEF recent
<1> DEFINE q == [a \in 1..Len(recent) |-> p[a + n]]
<1>3. \A a \in 1..Len(recent) : a + n \in 1..Len(times) /\ q[a] = p[a + n]
  BY <1>1 DEF TrackedBy
<1>4. q \in [1..Len(recent) -> 1..Len(log)]
  BY <1>2, <1>3 DEF TrackedBy
<1>5. ASSUME NEW a \in 1..Len(recent), NEW b \in 1..Len(recent), q[a] = q[b] PROVE a = b
  <2>1. a + n = b + n
    BY <1>2, <1>3, <1>5 DEF TrackedBy
  <2> QED
    BY <2>1, <1>1 DEF TrackedBy
<1>6. \A a \in 1..Len(recent) : log[q[a]].reason = "new" /\ log[q[a]].at = recent[a]
  BY <1>1, <1>2, <1>3 DEF TrackedBy
<1>7. ASSUME NEW j \in 1..Len(log), log[j].reason = "new"
      PROVE  (\E a \in 1..Len(recent) : q[a] = j) \/ log[j].at < now - SubscribeRateWindow
  <2>1. CASE \E a \in 1..Len(times) : p[a] = j
    <3>1. PICK a \in 1..Len(times) : p[a] = j
      BY <2>1
    <3>2. CASE a <= n
      BY <1>1, <1>2, <3>1, <3>2 DEF TrackedBy
    <3>3. CASE a > n
      <4>1. a - n \in 1..Len(recent) /\ (a - n) + n = a
        BY <1>1, <3>3 DEF TrackedBy
      <4> QED
        BY <1>3, <3>1, <4>1
    <3> QED
      BY <3>2, <3>3
  <2> QED
    BY <1>2, <1>7, <2>1 DEF TrackedBy
<1> HIDE DEF q
<1>8. Tracks(recent, log, now)
  BY <1>4, <1>5, <1>6, <1>7 DEF Tracks, TrackedBy
<1> QED
  BY <1>8 DEF recent

LEMMA TracksOther ==
    ASSUME NEW times \in Seq(Nat), NEW log \in Seq(Entries), NEW now \in Nat,
           NEW e \in Entries, e.reason # "new", Tracks(times, log, now)
    PROVE  Tracks(times, Append(log, e), now)
<1>1. PICK p \in [1..Len(times) -> 1..Len(log)] : TrackedBy(p, times, log, now)
  BY DEF Tracks
<1> DEFINE logged == Append(log, e)
<1>2. /\ Len(logged) = Len(log) + 1 /\ logged[Len(log) + 1] = e
      /\ \A j \in 1..Len(log) : logged[j] = log[j]
      /\ Len(log) \in Nat
  OBVIOUS
<1> HIDE DEF logged
<1>3. \A a \in 1..Len(times) : p[a] \in 1..Len(log) /\ p[a] \in 1..Len(logged)
  BY <1>2 DEF TrackedBy
<1>4. p \in [1..Len(times) -> 1..Len(logged)]
  BY <1>3
<1>5. \A a \in 1..Len(times) : logged[p[a]].reason = "new" /\ logged[p[a]].at = times[a]
  BY <1>1, <1>2, <1>3 DEF TrackedBy
<1>6. \A j \in 1..Len(logged) : logged[j].reason = "new" =>
        (\E a \in 1..Len(times) : p[a] = j) \/ logged[j].at < now - SubscribeRateWindow
  <2>1. \A j \in 1..Len(logged) : j \in 1..Len(log) \/ j = Len(log) + 1
    BY <1>2 DEF TrackedBy
  <2> QED
    BY <1>1, <1>2, <2>1 DEF TrackedBy
<1>7. Tracks(times, logged, now)
  BY <1>1, <1>4, <1>5, <1>6 DEF Tracks, TrackedBy
<1> QED
  BY <1>7 DEF logged

LEMMA TracksNew ==
    ASSUME NEW times \in Seq(Nat), NEW log \in Seq(Entries), NEW now \in Nat,
           NEW e \in Entries, e.reason = "new", e.at = now, Tracks(times, log, now)
    PROVE  Tracks(Append(times, now), Append(log, e), now)
<1>1. PICK p \in [1..Len(times) -> 1..Len(log)] : TrackedBy(p, times, log, now)
  BY DEF Tracks
<1> DEFINE more == Append(times, now)
           logged == Append(log, e)
           q == [a \in 1..Len(more) |-> IF a = Len(more) THEN Len(logged) ELSE p[a]]
<1>2. /\ Len(logged) = Len(log) + 1 /\ logged[Len(log) + 1] = e
      /\ \A j \in 1..Len(log) : logged[j] = log[j]
      /\ Len(more) = Len(times) + 1 /\ more[Len(times) + 1] = now
      /\ \A a \in 1..Len(times) : more[a] = times[a]
      /\ Len(log) \in Nat /\ Len(times) \in Nat
  OBVIOUS
<1> HIDE DEF more, logged
<1>3. /\ \A a \in 1..Len(times) : a \in 1..Len(more) /\ a # Len(more)
      /\ Len(more) \in 1..Len(more)
      /\ \A a \in 1..Len(more) : a \in 1..Len(times) \/ a = Len(more)
      /\ \A j \in 1..Len(logged) : j \in 1..Len(log) \/ j = Len(logged)
      /\ \A j \in 1..Len(log) : j \in 1..Len(logged)
      /\ Len(logged) \in 1..Len(logged) /\ Len(logged) \notin 1..Len(log)
  BY <1>2 DEF TrackedBy
<1>4. /\ \A a \in 1..Len(times) : q[a] = p[a] /\ q[a] \in 1..Len(log)
      /\ q[Len(more)] = Len(logged)
  BY <1>3
<1> HIDE DEF q
<1>5. q \in [1..Len(more) -> 1..Len(logged)]
  <2>1. \A a \in 1..Len(more) : q[a] \in 1..Len(logged)
    BY <1>3, <1>4
  <2>2. q = [a \in 1..Len(more) |-> q[a]]
    BY DEF q
  <2> QED
    BY <2>1, <2>2
<1>6. \A a, b \in 1..Len(more) : q[a] = q[b] => a = b
  <2>1. \A a \in 1..Len(times) : q[a] # q[Len(more)]
    BY <1>3, <1>4
  <2>2. \A a, b \in 1..Len(times) : q[a] = q[b] => a = b
    BY <1>1, <1>4 DEF TrackedBy
  <2> QED
    BY <1>3, <2>1, <2>2
<1>7. \A a \in 1..Len(more) : logged[q[a]].reason = "new" /\ logged[q[a]].at = more[a]
  <2>1. \A a \in 1..Len(times) : logged[q[a]].reason = "new" /\ logged[q[a]].at = more[a]
    <3> TAKE a \in 1..Len(times)
    <3>1. logged[q[a]] = log[p[a]] /\ more[a] = times[a]
      BY <1>2, <1>4
    <3>2. log[p[a]].reason = "new" /\ log[p[a]].at = times[a]
      BY <1>1 DEF TrackedBy
    <3> QED
      BY <3>1, <3>2
  <2>2. logged[q[Len(more)]] = e /\ more[Len(more)] = now
    BY <1>2, <1>4
  <2> QED
    BY <1>3, <2>1, <2>2
<1>8. \A j \in 1..Len(logged) : logged[j].reason = "new" =>
        (\E a \in 1..Len(more) : q[a] = j) \/ logged[j].at < now - SubscribeRateWindow
  BY <1>1, <1>2, <1>3, <1>4 DEF TrackedBy
<1>9. Tracks(more, logged, now)
  BY <1>5, <1>6, <1>7, <1>8 DEF Tracks, TrackedBy
<1> QED
  BY <1>9 DEF more, logged

LEMMA TracksLater ==
    ASSUME NEW times \in Seq(Nat), NEW log \in Seq(Entries), NEW now \in Nat,
           Tracks(times, log, now)
    PROVE  Tracks(times, log, now + 1)
<1>1. \A j \in 1..Len(log) : log[j].at < now - SubscribeRateWindow
                                => log[j].at < (now + 1) - SubscribeRateWindow
  <2> TAKE j \in 1..Len(log)
  <2>1. log[j] \in Entries
    OBVIOUS
  <2>2. log[j].at \in Nat
    BY <2>1 DEF Entries
  <2> QED
    BY <2>2, LimitsAssumption
<1>2. PICK p \in [1..Len(times) -> 1..Len(log)] : TrackedBy(p, times, log, now)
  BY DEF Tracks
<1>3. \A j \in 1..Len(log) : log[j].reason = "new" =>
        (\E a \in 1..Len(times) : p[a] = j) \/ log[j].at < (now + 1) - SubscribeRateWindow
  BY <1>1, <1>2 DEF TrackedBy
<1> QED
  BY <1>2, <1>3 DEF Tracks, TrackedBy

\* subTimes, once pruned, has as many times as the window has new subscribes.
LEMMA WindowCount ==
    ASSUME NEW times \in Seq(Nat), NEW log \in Seq(Entries), NEW now \in Nat,
           NEW e \in Entries, e.at = now, Tracks(times, log, now),
           \A a \in 1..Len(times) : times[a] >= now - SubscribeRateWindow
    PROVE  Cardinality(NewInWindow(Append(log, e), Len(log) + 1)) = Len(times)
<1> DEFINE logged == Append(log, e)
           window == NewInWindow(logged, Len(log) + 1)
<1>1. PICK p \in [1..Len(times) -> 1..Len(log)] : TrackedBy(p, times, log, now)
  BY DEF Tracks
<1>2. /\ logged[Len(log) + 1] = e /\ \A j \in 1..Len(log) : logged[j] = log[j]
      /\ Len(log) \in Nat /\ (Len(log) + 1) - 1 = Len(log) /\ Len(times) \in Nat
  OBVIOUS
<1> HIDE DEF logged
<1>3. window = {j \in 1..Len(log) : log[j].reason = "new"
                                     /\ log[j].at >= now - SubscribeRateWindow}
  BY <1>2 DEF NewInWindow
<1> HIDE DEF window
<1>4. ASSUME NEW a \in 1..Len(times) PROVE p[a] \in window
  <2>1. log[p[a]].reason = "new" /\ log[p[a]].at = times[a]
    BY <1>1 DEF TrackedBy
  <2> QED
    BY <1>3, <2>1
<1>5. ASSUME NEW j \in window PROVE \E a \in 1..Len(times) : p[a] = j
  <2>1. j \in 1..Len(log) /\ log[j].reason = "new" /\ log[j].at >= now - SubscribeRateWindow
    BY <1>3
  <2>2. log[j].at \in Nat /\ now - SubscribeRateWindow \in Int
    <3>1. log[j] \in Entries
      BY <2>1
    <3> QED
      BY <3>1, LimitsAssumption DEF Entries
  <2> QED
    BY <1>1, <2>1, <2>2 DEF TrackedBy
<1>6. p \in Bijection(1..Len(times), window)
  <2>1. p \in [1..Len(times) -> window]
    BY <1>4
  <2>2. \A a, b \in 1..Len(times) : p[a] = p[b] => a = b
    BY <1>1 DEF TrackedBy
  <2> QED
    BY <1>5, <2>1, <2>2 DEF Bijection, Injection, Surjection, IsInjective
<1>7. IsFiniteSet(1..Len(times)) /\ Cardinality(1..Len(times)) = Len(times)
  <2>1. \A n \in Nat : IsFiniteSet(1..n) /\ Cardinality(1..n) = n
    <3> TAKE n \in Nat
    <3>1. IsFiniteSet(1..n) /\ Cardinality(1..n) = IF 1 > n THEN 0 ELSE n - 1 + 1
      BY FS_Interval
    <3> QED
      BY <3>1
  <2> QED
    BY <1>2, <2>1
<1>8. Cardinality(window) = Len(times)
  BY <1>6, <1>7, FS_Bijection DEF ExistsBijection
<1> QED
  BY <1>8 DEF window, logged

-----------------------------------------------------------------------------
(* The history.                                                            *)

\* What is said of an entry does not depend on what comes after it.
LEMMA WarrantedStays ==
    ASSUME NEW log \in Seq(Entries), NEW e \in Entries, NEW i \in 1..Len(log),
           Warranted(log, i)
    PROVE  Warranted(Append(log, e), i)
<1> DEFINE logged == Append(log, e)
<1>1. \A j \in 1..i : logged[j] = log[j]
  OBVIOUS
<1> HIDE DEF logged
<1>2. \A j \in 1..(i - 1) : j \in 1..i /\ \A k \in (j + 1)..(i - 1) : k \in 1..i
  OBVIOUS
<1>3. Held(logged, i) = Held(log, i)
  BY <1>1, <1>2 DEF Held
<1>4. NewInWindow(logged, i) = NewInWindow(log, i) /\ logged[i] = log[i]
  BY <1>1, <1>2 DEF NewInWindow
<1>5. Warranted(logged, i)
  BY <1>3, <1>4 DEF Warranted
<1> QED
  BY <1>5 DEF logged

\* The topics held after one more request.
LEMMA HeldAppend ==
    ASSUME NEW log \in Seq(Entries), NEW e \in Entries
    PROVE  /\ Held(Append(log, e), Len(log) + 1) = Held(log, Len(log) + 1)
           /\ Held(Append(log, e), Len(log) + 2) =
                CASE e.reason = "new"     -> Held(log, Len(log) + 1) \cup {e.topic}
                  [] e.reason = "removed" -> Held(log, Len(log) + 1) \ {e.topic}
                  [] OTHER                -> Held(log, Len(log) + 1)
<1> DEFINE logged == Append(log, e)
           len == Len(log)
<1>1. len \in Nat /\ logged[len + 1] = e /\ \A j \in 1..len : logged[j] = log[j]
  OBVIOUS
<1> HIDE DEF logged, len
<1> DEFINE Old(j) == log[j].reason = "new"
                     /\ \A k \in (j + 1)..len : log[k].topic = log[j].topic => log[k].reason # "removed"
<1>2. Held(log, len + 1) = {log[j].topic : j \in {j \in 1..len : Old(j)}}
  BY <1>1 DEF Held
<1>3. Held(logged, len + 1) = Held(log, len + 1)
  BY <1>1 DEF Held
<1> DEFINE New(j) == logged[j].reason = "new"
                     /\ \A k \in (j + 1)..(len + 1) :
                            logged[k].topic = logged[j].topic => logged[k].reason # "removed"
<1>4. Held(logged, len + 2) = {logged[j].topic : j \in {j \in 1..(len + 1) : New(j)}}
  BY <1>1 DEF Held
<1>5. ASSUME NEW j \in 1..len
      PROVE  New(j) <=> Old(j) /\ (e.topic = log[j].topic => e.reason # "removed")
  <2>1. \A k \in (j + 1)..(len + 1) : k \in (j + 1)..len \/ k = len + 1
    BY <1>1
  <2>2. \A k \in (j + 1)..len : k \in (j + 1)..(len + 1) /\ logged[k] = log[k]
    BY <1>1
  <2>3. len + 1 \in (j + 1)..(len + 1)
    BY <1>1
  <2> QED
    BY <1>1, <2>1, <2>2, <2>3
<1>6. New(len + 1) <=> e.reason = "new"
  BY <1>1
<1>7. \A j \in 1..(len + 1) : j \in 1..len \/ j = len + 1
  BY <1>1
<1>8. 1..len \subseteq 1..(len + 1) /\ len + 1 \in 1..(len + 1)
  BY <1>1
<1> HIDE DEF New, Old
<1>9. ASSUME NEW t
      PROVE  t \in Held(logged, len + 2) <=>
                \/ t \in Held(log, len + 1) /\ (e.topic = t => e.reason # "removed")
                \/ t = e.topic /\ e.reason = "new"
  BY <1>1, <1>2, <1>4, <1>5, <1>6, <1>7, <1>8
<1>10. Held(logged, len + 2) =
                CASE e.reason = "new"     -> Held(log, len + 1) \cup {e.topic}
                  [] e.reason = "removed" -> Held(log, len + 1) \ {e.topic}
                  [] OTHER                -> Held(log, len + 1)
  BY <1>9
<1> QED
  BY <1>3, <1>10 DEF logged, len

-----------------------------------------------------------------------------
(* The invariant.                                                          *)

NoRemoval == \A i \in DOMAIN served : served[i].reason # "removed"

\* connState says of the topics and the times what the history says.
Books ==
    /\ connState.topics = Held(served, Len(served) + 1)
    /\ Ascending(connState.subTimes, clock)
    /\ Tracks(connState.subTimes, served, clock)

\* The limits hold; without a topic given up each time is that of a topic.
Bounds ==
    /\ IsFiniteSet(connState.topics)
    /\ Cardinality(connState.topics) <= MaxSubscriptionsPerConn
    /\ Len(connState.subTimes) <= SubscribeRateMaxSubscribe
    /\ NoRemoval => Len(connState.subTimes) <= Cardinality(connState.topics)

LimitsInv == LimitsTypeOK /\ Books /\ Bounds /\ AnswersAreWarranted /\ CapBeforeRate

LEMMA LimitsInvInit == LimitsInit => LimitsInv
<1> SUFFICES ASSUME LimitsInit PROVE LimitsInv
  OBVIOUS
<1>1. connState.topics = {} /\ connState.subTimes = <<>> /\ served = <<>> /\ clock = 0
  BY DEF LimitsInit, NewConnState
<1>2. LimitsTypeOK
  BY DEF LimitsInit, NewConnState, LimitsTypeOK
<1>3. Books
  <2>1. Held(<<>>, 1) = {}
    BY DEF Held
  <2>2. [a \in 1..0 |-> 1] \in [1..0 -> 1..0] /\ TrackedBy([a \in 1..0 |-> 1], <<>>, <<>>, 0)
    BY DEF TrackedBy
  <2>3. Tracks(<<>>, <<>>, 0)
    BY <2>2 DEF Tracks
  <2> QED
    BY <1>1, <2>1, <2>3 DEF Books, Ascending
<1>4. Bounds
  BY <1>1, FS_EmptySet, LimitsAssumption DEF Bounds
<1> QED
  BY <1>1, <1>2, <1>3, <1>4 DEF LimitsInv, AnswersAreWarranted, CapBeforeRate

\* One request more, whatever it was answered.
LEMMA ServedOne ==
    ASSUME LimitsInv, NEW e \in Entries, e.at = clock, served' = Append(served, e),
           UNCHANGED clock, Warranted(served', Len(served) + 1)
    PROVE  /\ AnswersAreWarranted' /\ served' \in Seq(Entries)
           /\ NoRemoval' => NoRemoval /\ e.reason # "removed"
           /\ Held(served', Len(served') + 1) =
                CASE e.reason = "new"     -> connState.topics \cup {e.topic}
                  [] e.reason = "removed" -> connState.topics \ {e.topic}
                  [] OTHER                -> connState.topics
           /\ Held(served', Len(served) + 1) = connState.topics
           /\ (NoRemoval' => e.reason # "rate_limited") => CapBeforeRate'
<1>1. /\ served \in Seq(Entries) /\ served' \in Seq(Entries)
      /\ Len(served') = Len(served) + 1 /\ served'[Len(served) + 1] = e
      /\ \A i \in 1..Len(served) : served'[i] = served[i]
      /\ Len(served) \in Nat
  BY DEF LimitsInv, LimitsTypeOK
<1>2. DOMAIN served' = 1..(Len(served) + 1) /\ DOMAIN served = 1..Len(served)
  BY <1>1
<1>3. AnswersAreWarranted'
  <2>1. \A i \in 1..Len(served) : Warranted(served', i)
    BY <1>1, <1>2, WarrantedStays DEF LimitsInv, AnswersAreWarranted
  <2> QED
    BY <1>2, <1>1, <2>1 DEF AnswersAreWarranted
<1>4. /\ \A i \in 1..Len(served) : i \in DOMAIN served'
      /\ Len(served) + 1 \in DOMAIN served'
      /\ \A i \in DOMAIN served' : i \in 1..Len(served) \/ i = Len(served) + 1
  BY <1>1, <1>2
<1>5. NoRemoval' => NoRemoval /\ e.reason # "removed"
  BY <1>1, <1>2, <1>4 DEF NoRemoval
<1>6. (NoRemoval' => e.reason # "rate_limited") => CapBeforeRate'
  BY <1>1, <1>2, <1>4, <1>5 DEF NoRemoval, CapBeforeRate, LimitsInv
<1>7. Len(served') + 1 = Len(served) + 2
  BY <1>1
<1> QED
  BY <1>1, <1>3, <1>5, <1>6, <1>7, HeldAppend DEF LimitsInv, Books

LEMMA StateTypes ==
    ASSUME LimitsTypeOK
    PROVE  /\ connState.topics \in SUBSET ScriptTopics /\ connState.subTimes \in Seq(Nat)
           /\ clock \in Nat /\ served \in Seq(Entries)
           /\ connState = [topics |-> connState.topics, subTimes |-> connState.subTimes]
  BY DEF LimitsTypeOK

\* A request that changes nothing.
LEMMA KeepsBooks ==
    ASSUME LimitsInv, NEW e \in Entries, e.at = clock, served' = Append(served, e),
           UNCHANGED <<clock, connState>>, Warranted(served', Len(served) + 1),
           e.reason \in {"already", "subscription_limit", "not_subscribed"}
    PROVE  LimitsInv'
<1>1. LimitsTypeOK /\ Books /\ Bounds
  BY DEF LimitsInv
<1>2. LimitsTypeOK'
  BY <1>1, ServedOne DEF LimitsTypeOK
<1>3. Tracks(connState.subTimes, served', clock)
  BY <1>1, StateTypes, TracksOther DEF Books
<1>4. Books'
  BY <1>1, <1>3, ServedOne DEF Books
<1>5. Bounds' /\ AnswersAreWarranted' /\ CapBeforeRate'
  BY <1>1, ServedOne DEF Bounds
<1> QED
  BY <1>2, <1>4, <1>5 DEF LimitsInv

\* A topic given up keeps its time.
LEMMA GivesUp ==
    ASSUME LimitsInv, NEW t \in ScriptTopics, NEW e \in Entries, e.at = clock,
           served' = Append(served, e), UNCHANGED clock, Warranted(served', Len(served) + 1),
           e.topic = t, e.reason = "removed",
           connState' = [connState EXCEPT !.topics = @ \ {t}]
    PROVE  LimitsInv'
<1>1. LimitsTypeOK /\ Books /\ Bounds
  BY DEF LimitsInv
<1>2. connState'.topics = connState.topics \ {t} /\ connState'.subTimes = connState.subTimes
  BY <1>1 DEF LimitsTypeOK
<1>3. LimitsTypeOK'
  BY <1>1, ServedOne DEF LimitsTypeOK
<1>4. Tracks(connState.subTimes, served', clock)
  BY <1>1, StateTypes, TracksOther DEF Books
<1>5. Books'
  BY <1>1, <1>2, <1>4, ServedOne DEF Books
<1>6. Bounds'
  <2>1. /\ IsFiniteSet(connState.topics \ {t})
        /\ Cardinality(connState.topics \ {t}) <= Cardinality(connState.topics)
    BY <1>1, FS_Subset DEF Bounds
  <2>2. Cardinality(connState.topics) \in Nat /\ Cardinality(connState.topics \ {t}) \in Nat
    BY <1>1, <2>1, FS_CardinalityType DEF Bounds
  <2>3. ~NoRemoval'
    BY ServedOne
  <2>4. /\ Cardinality(connState.topics \ {t}) <= MaxSubscriptionsPerConn
        /\ Len(connState.subTimes) <= SubscribeRateMaxSubscribe
    BY <1>1, <2>1, <2>2, LimitsAssumption DEF Bounds
  <2> QED
    BY <1>2, <2>1, <2>3, <2>4 DEF Bounds
<1>7. AnswersAreWarranted' /\ CapBeforeRate'
  BY ServedOne
<1> QED
  BY <1>3, <1>5, <1>6, <1>7 DEF LimitsInv

\* The pruned times, on the way to the rate.
LEMMA PrunedFact ==
    ASSUME LimitsTypeOK, Books
    PROVE  LET recent == Recent(connState.subTimes, clock - SubscribeRateWindow)
           IN  /\ recent \in Seq(Nat) /\ Len(recent) \in Nat
               /\ Len(recent) <= Len(connState.subTimes)
               /\ Ascending(recent, clock)
               /\ \A a \in 1..Len(recent) : recent[a] >= clock - SubscribeRateWindow
               /\ Tracks(recent, served, clock)
<1> DEFINE times == connState.subTimes
           recent == Recent(times, clock - SubscribeRateWindow)
<1>1. times \in Seq(Nat) /\ clock \in Nat /\ clock - SubscribeRateWindow \in Int
  BY StateTypes, LimitsAssumption
<1>2. Ascending(times, clock) /\ Tracks(times, served, clock)
  BY DEF Books
<1>3. Tracks(recent, served, clock)
  BY <1>1, <1>2, StateTypes, TracksPruned
<1>4. PICK n \in 0..Len(times) :
        /\ recent \in Seq(Nat) /\ Len(recent) = Len(times) - n
        /\ \A i \in 1..(Len(times) - n) : recent[i] = times[i + n]
        /\ \A i \in 1..(Len(times) - n) : times[i + n] >= clock - SubscribeRateWindow
  BY <1>1, <1>2, RecentIsSuffix
<1> HIDE DEF recent, times
<1>5. \A i \in 1..Len(recent) : i + n \in 1..Len(times)
  BY <1>1, <1>4
<1>6. Ascending(recent, clock)
  <2> SUFFICES ASSUME NEW i \in 1..Len(recent), NEW j \in 1..Len(recent), i <= j
               PROVE  recent[i] <= recent[j] /\ recent[j] <= clock
    BY DEF Ascending
  <2>1. i + n <= j + n
    BY <1>4
  <2>2. times[i + n] <= times[j + n] /\ times[j + n] <= clock
    BY <1>2, <1>5, <2>1 DEF Ascending
  <2>3. recent[i] = times[i + n] /\ recent[j] = times[j + n]
    BY <1>4
  <2> QED
    BY <2>2, <2>3
<1>7. Len(recent) \in Nat /\ Len(recent) <= Len(times)
  BY <1>1, <1>4
<1>8. \A a \in 1..Len(recent) : recent[a] >= clock - SubscribeRateWindow
  BY <1>4
<1> QED
  BY <1>3, <1>4, <1>6, <1>7, <1>8 DEF recent, times

\* A subscribe that meets the rate.
LEMMA Refuses ==
    ASSUME LimitsInv, NEW e \in Entries, e.at = clock, served' = Append(served, e),
           UNCHANGED clock, e.reason = "rate_limited",
           Cardinality(connState.topics) < MaxSubscriptionsPerConn,
           Len(Recent(connState.subTimes, clock - SubscribeRateWindow)) >= SubscribeRateMaxSubscribe,
           connState' = [connState EXCEPT
                           !.subTimes = Recent(connState.subTimes, clock - SubscribeRateWindow)]
    PROVE  LimitsInv'
<1> DEFINE recent == Recent(connState.subTimes, clock - SubscribeRateWindow)
<1>1. LimitsTypeOK /\ Books /\ Bounds
  BY DEF LimitsInv
<1>2. /\ recent \in Seq(Nat) /\ Len(recent) \in Nat /\ Len(recent) <= Len(connState.subTimes)
      /\ Ascending(recent, clock) /\ Tracks(recent, served, clock)
      /\ \A a \in 1..Len(recent) : recent[a] >= clock - SubscribeRateWindow
  BY <1>1, PrunedFact
<1>3. connState'.topics = connState.topics /\ connState'.subTimes = recent
  BY <1>1 DEF LimitsTypeOK
<1>4. Len(recent) >= SubscribeRateMaxSubscribe
  OBVIOUS
<1>5. connState' \in [topics : SUBSET ScriptTopics, subTimes : Seq(Nat)]
  BY <1>1, <1>2 DEF LimitsTypeOK
<1> HIDE DEF recent
<1>6. Len(connState.subTimes) \in Nat /\ Len(recent) = SubscribeRateMaxSubscribe
  BY <1>1, <1>2, <1>4, StateTypes, LimitsAssumption DEF Bounds
<1>7. Warranted(served', Len(served) + 1)
  <2>1. Cardinality(NewInWindow(served', Len(served) + 1)) = Len(recent)
    BY <1>1, <1>2, StateTypes, WindowCount
  <2>2. served'[Len(served) + 1] = e
    BY <1>1, StateTypes
  <2> QED
    BY <1>6, <2>1, <2>2 DEF Warranted
<1>8. LimitsTypeOK'
  BY <1>1, <1>5, <1>7, ServedOne DEF LimitsTypeOK
<1>9. Tracks(recent, served', clock)
  BY <1>1, <1>2, StateTypes, TracksOther
<1>10. Books'
  BY <1>1, <1>2, <1>3, <1>7, <1>9, ServedOne DEF Books
<1>11. ~NoRemoval
  <2>1. Cardinality(connState.topics) \in Nat
    BY <1>1, FS_CardinalityType DEF Bounds
  <2> QED
    BY <1>1, <1>2, <1>6, <2>1, LimitsAssumption DEF Bounds
<1>12. Bounds'
  <2>1. ~NoRemoval'
    BY <1>7, <1>11, ServedOne
  <2>2. Len(recent) <= SubscribeRateMaxSubscribe
    BY <1>6, LimitsAssumption
  <2> QED
    BY <1>1, <1>3, <2>1, <2>2 DEF Bounds
<1>13. AnswersAreWarranted' /\ CapBeforeRate'
  BY <1>7, <1>11, ServedOne
<1> QED
  BY <1>8, <1>10, <1>12, <1>13 DEF LimitsInv

\* A subscribe that is granted.
LEMMA Grants ==
    ASSUME LimitsInv, NEW t \in ScriptTopics, NEW e \in Entries, e.at = clock,
           served' = Append(served, e), UNCHANGED clock, e.topic = t, e.reason = "new",
           t \notin connState.topics,
           Cardinality(connState.topics) < MaxSubscriptionsPerConn,
           Len(Recent(connState.subTimes, clock - SubscribeRateWindow)) < SubscribeRateMaxSubscribe,
           connState' = [topics |-> connState.topics \cup {t},
                         subTimes |-> Append(Recent(connState.subTimes, clock - SubscribeRateWindow),
                                             clock)]
    PROVE  LimitsInv'
<1> DEFINE recent == Recent(connState.subTimes, clock - SubscribeRateWindow)
<1>1. LimitsTypeOK /\ Books /\ Bounds
  BY DEF LimitsInv
<1>2. /\ recent \in Seq(Nat) /\ Len(recent) \in Nat /\ Len(recent) <= Len(connState.subTimes)
      /\ Ascending(recent, clock) /\ Tracks(recent, served, clock)
      /\ \A a \in 1..Len(recent) : recent[a] >= clock - SubscribeRateWindow
  BY <1>1, PrunedFact
<1>3. connState'.topics = connState.topics \cup {t} /\ connState'.subTimes = Append(recent, clock)
  OBVIOUS
<1>4. Len(recent) < SubscribeRateMaxSubscribe
  OBVIOUS
<1>5. connState' \in [topics : SUBSET ScriptTopics, subTimes : Seq(Nat)]
  BY <1>1, <1>2, StateTypes
<1> HIDE DEF recent
<1>6. Len(connState.subTimes) \in Nat /\ clock \in Nat
  BY <1>1, StateTypes
<1>7. Warranted(served', Len(served) + 1)
  <2>1. Cardinality(NewInWindow(served', Len(served) + 1)) = Len(recent)
    BY <1>1, <1>2, StateTypes, WindowCount
  <2>2. served'[Len(served) + 1] = e
    BY <1>1, StateTypes
  <2>3. Held(served', Len(served) + 1) = connState.topics
    BY <1>1, StateTypes, HeldAppend DEF Books
  <2> QED
    BY <1>4, <2>1, <2>2, <2>3 DEF Warranted
<1>8. LimitsTypeOK'
  BY <1>1, <1>5, <1>7, ServedOne DEF LimitsTypeOK
<1>9. Tracks(Append(recent, clock), served', clock)
  BY <1>1, <1>2, StateTypes, TracksNew
<1>10. Len(Append(recent, clock)) = Len(recent) + 1
  BY <1>2
<1>11. Ascending(Append(recent, clock), clock)
  <2>1. \A i \in 1..Len(recent) : Append(recent, clock)[i] = recent[i] /\ recent[i] <= clock
    BY <1>2 DEF Ascending
  <2>2. Append(recent, clock)[Len(recent) + 1] = clock
    BY <1>2
  <2>3. \A i \in 1..(Len(recent) + 1) : i \in 1..Len(recent) \/ i = Len(recent) + 1
    BY <1>2
  <2> QED
    BY <1>2, <1>6, <1>10, <2>1, <2>2, <2>3 DEF Ascending
<1>12. Books'
  BY <1>3, <1>7, <1>9, <1>11, ServedOne DEF Books
<1>13. Bounds'
  <2>1. /\ IsFiniteSet(connState.topics \cup {t})
        /\ Cardinality(connState.topics \cup {t}) = Cardinality(connState.topics) + 1
        /\ Cardinality(connState.topics) \in Nat
    BY <1>1, FS_AddElement, FS_CardinalityType DEF Bounds
  <2>2. NoRemoval' => NoRemoval
    BY <1>7, ServedOne
  <2>3. Cardinality(connState.topics \cup {t}) <= MaxSubscriptionsPerConn
    BY <2>1, LimitsAssumption
  <2>4. Len(Append(recent, clock)) <= SubscribeRateMaxSubscribe
    BY <1>2, <1>4, <1>10, LimitsAssumption
  <2>5. NoRemoval => Len(connState.subTimes) <= Cardinality(connState.topics)
    BY <1>1 DEF Bounds
  <2>6. NoRemoval' => Len(Append(recent, clock)) <= Cardinality(connState.topics \cup {t})
    BY <1>2, <1>6, <1>10, <2>1, <2>2, <2>5
  <2> QED
    BY <1>3, <2>1, <2>3, <2>4, <2>6 DEF Bounds
<1>14. AnswersAreWarranted' /\ CapBeforeRate'
  BY <1>7, ServedOne
<1> QED
  BY <1>8, <1>12, <1>13, <1>14 DEF LimitsInv

\* The clock goes on: what was pruned stays out of the window.
LEMMA ClockStep == LimitsInv /\ ClockTicks => LimitsInv'
<1> SUFFICES ASSUME LimitsInv, ClockTicks PROVE LimitsInv'
  OBVIOUS
<1>1. LimitsTypeOK /\ Books /\ Bounds
  BY DEF LimitsInv
<1>2. UNCHANGED <<connState, served>> /\ clock' = clock + 1 /\ clock \in Nat
  BY <1>1, StateTypes DEF ClockTicks
<1>3. LimitsTypeOK'
  BY <1>1, <1>2 DEF LimitsTypeOK
<1>4. Tracks(connState.subTimes, served, clock + 1)
  BY <1>1, <1>2, StateTypes, TracksLater DEF Books
<1>5. Ascending(connState.subTimes, clock + 1)
  <2>1. \A i \in 1..Len(connState.subTimes) : connState.subTimes[i] \in Nat
    BY <1>1, StateTypes
  <2> QED
    BY <1>1, <1>2, <2>1 DEF Books, Ascending
<1>6. Books'
  BY <1>1, <1>2, <1>4, <1>5 DEF Books
<1>7. Bounds' /\ AnswersAreWarranted' /\ CapBeforeRate'
  BY <1>1, <1>2 DEF Bounds, NoRemoval, LimitsInv, AnswersAreWarranted, CapBeforeRate
<1> QED
  BY <1>3, <1>6, <1>7 DEF LimitsInv

\* What the history had said of the topics before one request more.
LEMMA Logged ==
    ASSUME LimitsInv, NEW e \in Entries, served' = Append(served, e)
    PROVE  served'[Len(served) + 1] = e /\ Held(served', Len(served) + 1) = connState.topics
<1>1. LimitsTypeOK /\ Books
  BY DEF LimitsInv
<1>2. served \in Seq(Entries)
  BY <1>1, StateTypes
<1>3. Held(Append(served, e), Len(served) + 1) = Held(served, Len(served) + 1)
  BY <1>2, HeldAppend
<1>4. Append(served, e)[Len(served) + 1] = e
  BY <1>2
<1> QED
  BY <1>1, <1>3, <1>4 DEF Books

LEMMA EntryFact ==
    ASSUME LimitsInv, NEW t \in ScriptTopics, NEW reason \in Reasons
    PROVE  [topic |-> t, at |-> clock, reason |-> reason] \in Entries
  BY StateTypes DEF LimitsInv, Entries

LEMMA UnsubscribeStep ==
    ASSUME LimitsInv, NEW t \in ScriptTopics, AskUnsubscribe(t)
    PROVE  LimitsInv'
<1>1. CASE t \in connState.topics
  <2> DEFINE e == [topic |-> t, at |-> clock, reason |-> "removed"]
  <2>1. /\ connState' = [connState EXCEPT !.topics = @ \ {t}]
        /\ served' = Append(served, e) /\ UNCHANGED clock
    BY <1>1 DEF AskUnsubscribe, Serve, RemoveTopic, Answer
  <2>2. e \in Entries /\ e.at = clock /\ e.topic = t /\ e.reason = "removed"
    BY EntryFact, "removed" \in Reasons DEF Reasons
  <2>3. Warranted(served', Len(served) + 1)
    <3> HIDE DEF e
    <3>1. served'[Len(served) + 1] = e /\ Held(served', Len(served) + 1) = connState.topics
      BY <2>1, <2>2, Logged
    <3> QED
      BY <1>1, <2>2, <3>1 DEF Warranted
  <2> HIDE DEF e
  <2> QED
    BY <2>1, <2>2, <2>3, GivesUp
<1>2. CASE t \notin connState.topics
  <2> DEFINE e == [topic |-> t, at |-> clock, reason |-> "not_subscribed"]
  <2>1. served' = Append(served, e) /\ UNCHANGED <<clock, connState>>
    BY <1>2 DEF AskUnsubscribe, Serve, RemoveTopic, Answer
  <2>2. e \in Entries /\ e.at = clock /\ e.topic = t /\ e.reason = "not_subscribed"
    BY EntryFact, "not_subscribed" \in Reasons DEF Reasons
  <2>3. Warranted(served', Len(served) + 1)
    <3> HIDE DEF e
    <3>1. served'[Len(served) + 1] = e /\ Held(served', Len(served) + 1) = connState.topics
      BY <2>1, <2>2, Logged
    <3> QED
      BY <1>2, <2>2, <3>1 DEF Warranted
  <2> HIDE DEF e
  <2> QED
    BY <2>1, <2>2, <2>3, KeepsBooks
<1> QED
  BY <1>1, <1>2

LEMMA SubscribeStep ==
    ASSUME LimitsInv, NEW t \in ScriptTopics, AskSubscribe(t)
    PROVE  LimitsInv'
<1> DEFINE recent == Recent(connState.subTimes, clock - SubscribeRateWindow)
           e(reason) == [topic |-> t, at |-> clock, reason |-> reason]
<1>0. /\ \A r \in Reasons : e(r) \in Entries /\ e(r).at = clock /\ e(r).topic = t /\ e(r).reason = r
      /\ {"already", "subscription_limit", "rate_limited", "new"} \subseteq Reasons
  BY EntryFact DEF Reasons
<1>n. Cardinality(connState.topics) \in Nat /\ Cardinality(connState.topics) <= MaxSubscriptionsPerConn
  BY FS_CardinalityType DEF LimitsInv, Bounds
<1>l. LimitsTypeOK /\ Books
  BY DEF LimitsInv
<1>r. Len(recent) \in Nat
  BY <1>l, PrunedFact
<1>1. CASE t \in connState.topics
  <2>1. served' = Append(served, e("already")) /\ UNCHANGED <<clock, connState>>
    BY <1>1 DEF AskSubscribe, Serve, TrySubscribe, Answer
  <2>2. Warranted(served', Len(served) + 1)
    <3> HIDE DEF e
    <3>1. /\ served'[Len(served) + 1] = e("already")
          /\ Held(served', Len(served) + 1) = connState.topics
      BY <1>0, <2>1, Logged
    <3> QED
      BY <1>0, <1>1, <3>1 DEF Warranted
  <2> HIDE DEF e
  <2> QED
    BY <1>0, <2>1, <2>2, KeepsBooks
<1>2. CASE t \notin connState.topics /\ Cardinality(connState.topics) >= MaxSubscriptionsPerConn
  <2>1. served' = Append(served, e("subscription_limit")) /\ UNCHANGED <<clock, connState>>
    BY <1>2 DEF AskSubscribe, Serve, TrySubscribe, Answer
  <2>2. Cardinality(connState.topics) = MaxSubscriptionsPerConn
    BY <1>2, <1>n, LimitsAssumption
  <2>3. Warranted(served', Len(served) + 1)
    <3> HIDE DEF e
    <3>1. /\ served'[Len(served) + 1] = e("subscription_limit")
          /\ Held(served', Len(served) + 1) = connState.topics
      BY <1>0, <2>1, Logged
    <3> QED
      BY <1>0, <2>2, <3>1 DEF Warranted
  <2> HIDE DEF e
  <2> QED
    BY <1>0, <2>1, <2>3, KeepsBooks
<1>3. CASE /\ t \notin connState.topics /\ Cardinality(connState.topics) < MaxSubscriptionsPerConn
           /\ Len(recent) >= SubscribeRateMaxSubscribe
  <2>1. /\ served' = Append(served, e("rate_limited")) /\ UNCHANGED clock
        /\ connState' = [connState EXCEPT !.subTimes = recent]
    <3>1. ~(Cardinality(connState.topics) >= MaxSubscriptionsPerConn)
      BY <1>3, <1>n, LimitsAssumption
    <3> HIDE DEF recent
    <3> QED
      BY <1>3, <3>1 DEF AskSubscribe, Serve, TrySubscribe, Answer, recent
  <2> HIDE DEF e
  <2> QED
    BY <1>0, <1>3, <2>1, Refuses
<1>4. CASE /\ t \notin connState.topics /\ Cardinality(connState.topics) < MaxSubscriptionsPerConn
           /\ Len(recent) < SubscribeRateMaxSubscribe
  <2>1. /\ served' = Append(served, e("new")) /\ UNCHANGED clock
        /\ connState' = [topics |-> connState.topics \cup {t}, subTimes |-> Append(recent, clock)]
    <3>1. /\ ~(Cardinality(connState.topics) >= MaxSubscriptionsPerConn)
          /\ ~(Len(recent) >= SubscribeRateMaxSubscribe)
      BY <1>4, <1>n, <1>r, LimitsAssumption
    <3> HIDE DEF recent
    <3> QED
      BY <1>4, <3>1 DEF AskSubscribe, Serve, TrySubscribe, Answer, recent
  <2> HIDE DEF e
  <2> QED
    BY <1>0, <1>4, <2>1, Grants
<1> QED
  BY <1>1, <1>2, <1>3, <1>4, <1>n, <1>r, LimitsAssumption

LEMMA LimitsInvStep == LimitsInv /\ [LimitsNext]_limitsVars => LimitsInv'
<1> SUFFICES ASSUME LimitsInv, [LimitsNext]_limitsVars PROVE LimitsInv'
  OBVIOUS
<1>1. CASE ClockTicks
  BY <1>1, ClockStep
<1>2. ASSUME NEW t \in ScriptTopics, AskSubscribe(t) \/ AskUnsubscribe(t) PROVE LimitsInv'
  BY <1>2, SubscribeStep, UnsubscribeStep
<1>3. CASE UNCHANGED limitsVars
  BY <1>3 DEF limitsVars, LimitsInv, LimitsTypeOK, Books, Bounds, NoRemoval, AnswersAreWarranted,
              CapBeforeRate
<1> QED
  BY <1>1, <1>2, <1>3 DEF LimitsNext

LEMMA LimitsInvariant == LimitsSpec => []LimitsInv
<1> QED
  BY LimitsInvInit, LimitsInvStep, PTL DEF LimitsSpec

\* The state of a connection, its clock and its history are of their types.
THEOREM LimitsTypeCorrect == LimitsSpec => []LimitsTypeOK
<1>1. LimitsInv => LimitsTypeOK
  BY DEF LimitsInv
<1> QED
  BY <1>1, LimitsInvariant, PTL

\* Every answer of trySubscribe and removeTopic is the one the whole history of the
\* connection calls for, though subTimes keeps only the end of it: for any limits,
\* any window and any sequence of requests.
THEOREM AnswersWarranted == LimitsSpec => []AnswersAreWarranted
<1>1. LimitsInv => AnswersAreWarranted
  BY DEF LimitsInv
<1> QED
  BY <1>1, LimitsInvariant, PTL

\* A connection that gives up no topic is never refused for the rate, as the rate
\* allows no fewer subscribes in a window than there may be topics.
THEOREM CapFirst == LimitsSpec => []CapBeforeRate
<1>1. LimitsInv => CapBeforeRate
  BY DEF LimitsInv
<1> QED
  BY <1>1, LimitsInvariant, PTL
=============================================================================
