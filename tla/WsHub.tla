------------------------------- MODULE WsHub -------------------------------
(***************************************************************************)
(* Realtime pushes, from the bridge to the browsers: Bridge.Publish, the   *)
(* Redis channel and its subscriber, Hub.Publish, and the connections of   *)
(* one API process, each served by a goroutine that reads the client's     *)
(* messages and keeps the connection's own topics, apart from the hub's.   *)
(*                                                                         *)
(* The two mutexes (of a connection's topics and of the hub) are never     *)
(* held together, and the hub's is not held while a push is written, so    *)
(* each critical section and each write is a step.                         *)
(***************************************************************************)
EXTENDS Naturals

CONSTANTS
    Conns,       \* WebSocket connections, each opened once
    Videos,      \* video ids a client may name
    NoVideo,     \* the empty video_id
    Catalog,     \* TopicCatalog
    NoTopic,     \* the empty topic, or an error of TopicFromSubscribe
    Pushes       \* how many pushes are published; a bound of the model

ASSUME HubAssumption ==
    /\ NoVideo \notin Videos /\ Catalog \notin Videos
    /\ NoTopic \notin Videos \cup {Catalog}
    /\ Pushes \in Nat

Topics   == Videos \cup {Catalog}
Messages == 1..Pushes   \* in the order they are published

VARIABLES
    stage,      \* where each connection's goroutine is
    about,      \* the topic of the message it handles
    peer,       \* "up", or "broken": no answer comes, and writes to it fail
    topics,     \* connState.topics
    hub,        \* Hub.topics
    senders,    \* Hub.senders
    viaRedis,   \* WSEventChannel is set
    pushed,     \* each push: "new", "queued", "fanning", "done"
    topicOf,    \* its topic
    targets,    \* connections Hub.Publish has still to write it to
    last,       \* history: the last push each connection was sent
    owed        \* history: connections told "subscribed" before the push, that wait for it

connVars    == <<stage, about, peer, topics>>
hubVars     == <<hub, senders>>
pushVars    == <<pushed, topicOf, targets>>
historyVars == <<last, owed>>
vars == <<connVars, hubVars, viaRedis, pushVars, historyVars>>

Stages == {"new", "reading", "subscribing", "replying", "unsubscribing", "leaving", "closed"}

HubTypeOK ==
    /\ stage \in [Conns -> Stages]
    /\ about \in [Conns -> Topics \cup {NoTopic}]
    /\ \A c \in Conns : stage[c] \in {"subscribing", "unsubscribing"} => about[c] \in Topics
    /\ peer \in [Conns -> {"up", "broken"}]
    /\ topics \in [Conns -> SUBSET Topics]
    /\ hub \in [Topics -> SUBSET Conns]
    /\ senders \subseteq Conns
    /\ viaRedis \in BOOLEAN
    /\ pushed \in [Messages -> {"new", "queued", "fanning", "done"}]
    /\ topicOf \in [Messages -> Topics \cup {NoTopic}]
    /\ targets \in [Messages -> SUBSET Conns]
    /\ last \in [Conns -> 0..Pushes]
    /\ owed \in [Messages -> SUBSET Conns]

Init ==
    /\ stage = [c \in Conns |-> "new"]
    /\ about = [c \in Conns |-> NoTopic]
    /\ peer = [c \in Conns |-> "up"]
    /\ topics = [c \in Conns |-> {}]
    /\ hub = [t \in Topics |-> {}]
    /\ senders = {}
    /\ viaRedis \in BOOLEAN
    /\ pushed = [m \in Messages |-> "new"]
    /\ topicOf = [m \in Messages |-> NoTopic]
    /\ targets = [m \in Messages |-> {}]
    /\ last = [c \in Conns |-> 0]
    /\ owed = [m \in Messages |-> {}]

-----------------------------------------------------------------------------
(* The connections.                                                        *)

Goto(c, s, t) == stage' = [stage EXCEPT ![c] = s] /\ about' = [about EXCEPT ![c] = t]

\* After a reply, whose write error ends serveConn.
ReadsOn(c) ==
    \/ Goto(c, "reading", NoTopic)
    \/ peer[c] = "broken" /\ Goto(c, "leaving", NoTopic)

\* Connection c is no longer promised the pushes of the topics in T.
Release(c, T) ==
    owed' = [m \in Messages |-> IF topicOf[m] \in T THEN owed[m] \ {c} ELSE owed[m]]

\* The upgrade and the hello, whose error ends serveConn.
Connect(c) ==
    /\ stage[c] = "new"
    /\ \E s \in {"reading", "leaving"} : Goto(c, s, NoTopic)
    /\ UNCHANGED <<peer, topics, hubVars, viaRedis, pushVars, historyVars>>

\* The browser is gone, or takes nothing any more: the next write fails or is
\* lost, and so do all that follow.
Break(c) ==
    /\ peer[c] = "up"
    /\ stage[c] \notin {"new", "leaving"}
    /\ peer' = [peer EXCEPT ![c] = "broken"]
    /\ Release(c, Topics)
    /\ UNCHANGED <<stage, about, topics, hubVars, viaRedis, pushVars, last>>

\* A client message names a video or the channel of uploads, not both.
TopicFromSubscribe(vid, ch) ==
    CASE vid # NoVideo /\ ch = ""        -> vid
      [] vid = NoVideo /\ ch = "uploads" -> Catalog
      [] OTHER                           -> NoTopic

\* Mutant: the error of TopicFromSubscribe is not looked at.
HandleSubscribeAny(c, t) ==
    /\ stage[c] = "reading"
    /\ t \notin topics[c]
    /\ topics' = [topics EXCEPT ![c] = @ \cup {t}]
    /\ Goto(c, "subscribing", t)
    /\ UNCHANGED <<peer, hubVars, viaRedis, pushVars, historyVars>>

\* handleSubscribe up to the end of trySubscribe, whose limits (WsLimits) may
\* refuse any new topic.  A refusal, or a topic already there, changes nothing.
HandleSubscribe(c, t) ==
    /\ stage[c] = "reading"
    /\ t \in Topics \ topics[c]
    /\ topics' = [topics EXCEPT ![c] = @ \cup {t}]
    /\ Goto(c, "subscribing", t)
    /\ UNCHANGED <<peer, hubVars, viaRedis, pushVars, historyVars>>

\* Hub.Subscribe, with writeText of the connection as its sender.
HubSubscribe(c) ==
    /\ stage[c] = "subscribing"
    /\ hub' = [hub EXCEPT ![about[c]] = @ \cup {c}]
    /\ senders' = senders \cup {c}
    /\ Goto(c, "replying", about[c])
    /\ UNCHANGED <<peer, topics, viaRedis, pushVars, historyVars>>

\* The reply "subscribed".
Reply(c) ==
    /\ stage[c] = "replying"
    /\ ReadsOn(c)
    /\ UNCHANGED <<peer, topics, hubVars, viaRedis, pushVars, historyVars>>

\* handleUnsubscribe up to the end of removeTopic; for another topic only an
\* error is written.
HandleUnsubscribe(c, t) ==
    /\ stage[c] = "reading"
    /\ t \in topics[c]
    /\ topics' = [topics EXCEPT ![c] = @ \ {t}]
    /\ Release(c, {t})
    /\ Goto(c, "unsubscribing", t)
    /\ UNCHANGED <<peer, hubVars, viaRedis, pushVars, last>>

\* Hub.Unsubscribe and the reply.
HubUnsubscribe(c) ==
    /\ stage[c] = "unsubscribing"
    /\ hub' = [hub EXCEPT ![about[c]] = @ \ {c}]
    /\ ReadsOn(c)
    /\ UNCHANGED <<peer, topics, senders, viaRedis, pushVars, historyVars>>

\* ReadMessage or handleClientText returns an error: the read deadline that no
\* pong extends any more, or a message of another protocol version.
StopReading(c) ==
    /\ stage[c] = "reading"
    /\ Goto(c, "leaving", NoTopic)
    /\ Release(c, Topics)
    /\ UNCHANGED <<peer, topics, hubVars, viaRedis, pushVars, last>>

\* Mutant: only the sender is dropped.
UnsubscribeAllKeepsTopics(c) ==
    /\ stage[c] = "leaving"
    /\ senders' = senders \ {c}
    /\ Goto(c, "closed", NoTopic)
    /\ UNCHANGED <<peer, topics, hub, viaRedis, pushVars, historyVars>>

UnsubscribeAll(c) ==
    /\ stage[c] = "leaving"
    /\ senders' = senders \ {c}
    /\ hub' = [t \in Topics |-> hub[t] \ {c}]
    /\ Goto(c, "closed", NoTopic)
    /\ topics' = [topics EXCEPT ![c] = {}]
    /\ peer' = [peer EXCEPT ![c] = "broken"]
    /\ last' = [last EXCEPT ![c] = 0]
    /\ UNCHANGED <<viaRedis, pushVars, owed>>

-----------------------------------------------------------------------------
(* The bridge and the fan-out.                                             *)

\* Topics for which the client has its reply.
Confirmed(c) ==
    IF peer[c] = "up" /\ stage[c] \in Stages \ {"leaving", "closed"}
    THEN topics[c] \ {about[c]} ELSE {}

\* Bridge.Publish.  Redis keeps nothing while the subscriber is away from it, and
\* an error of PUBLISH is only logged: the push is lost.
Publish(m, t) ==
    /\ pushed[m] = "new"
    /\ \A n \in Messages : n < m => pushed[n] # "new"
    /\ \/ /\ pushed' = [pushed EXCEPT ![m] = "queued"]
          /\ topicOf' = [topicOf EXCEPT ![m] = t]
          /\ owed' = [owed EXCEPT ![m] = {c \in Conns : t \in Confirmed(c)}]
       \/ /\ viaRedis
          /\ pushed' = [pushed EXCEPT ![m] = "done"]
          /\ UNCHANGED <<topicOf, owed>>
    /\ UNCHANGED <<connVars, hubVars, viaRedis, targets, last>>

\* Mutant: a goroutine for every push from Redis.
MayTakeAtOnce(m) == pushed[m] = "queued"

\* One goroutine takes the pushes from Redis; without Redis each handler makes
\* its own call.
MayTake(m) ==
    /\ pushed[m] = "queued"
    /\ viaRedis => \A n \in Messages : n < m => pushed[n] = "done"

\* Hub.Publish copies the subscribers of the topic ...
Take(m) ==
    /\ MayTake(m)
    /\ pushed' = [pushed EXCEPT ![m] = "fanning"]
    /\ targets' = [targets EXCEPT ![m] = hub[topicOf[m]]]
    /\ UNCHANGED <<connVars, hubVars, viaRedis, topicOf, historyVars>>

\* Mutant: the first error ends the fan-out.
SendOrStop(m, c) ==
    /\ c \in targets[m]
    /\ IF c \in senders /\ peer[c] = "up"
       THEN /\ targets' = [targets EXCEPT ![m] = @ \ {c}]
            /\ last' = [last EXCEPT ![c] = m]
            /\ owed' = [owed EXCEPT ![m] = @ \ {c}]
       ELSE targets' = [targets EXCEPT ![m] = {}] /\ UNCHANGED <<last, owed>>
    /\ UNCHANGED <<connVars, hubVars, viaRedis, pushed, topicOf>>

\* ... and writes to them in any order.  One that has no sender any more is
\* passed over, like one whose write fails; a connection that closes between
\* the two is such a failure.
Send(m, c) ==
    /\ c \in targets[m]
    /\ targets' = [targets EXCEPT ![m] = @ \ {c}]
    /\ IF c \in senders /\ peer[c] = "up"
       THEN /\ last' = [last EXCEPT ![c] = m]
            /\ owed' = [owed EXCEPT ![m] = @ \ {c}]
       ELSE UNCHANGED <<last, owed>>
    /\ UNCHANGED <<connVars, hubVars, viaRedis, pushed, topicOf>>

FanoutEnds(m) ==
    /\ pushed[m] = "fanning" /\ targets[m] = {}
    /\ pushed' = [pushed EXCEPT ![m] = "done"]
    /\ topicOf' = [topicOf EXCEPT ![m] = NoTopic]
    /\ UNCHANGED <<connVars, hubVars, viaRedis, targets, historyVars>>

-----------------------------------------------------------------------------
ClientAsks(c) ==
    \E vid \in Videos \cup {NoVideo}, ch \in {"", "uploads", "other"} :
        LET t == TopicFromSubscribe(vid, ch)
        IN  HandleSubscribe(c, t) \/ HandleUnsubscribe(c, t)

ConnStep(c) ==
    Connect(c) \/ HubSubscribe(c) \/ HubUnsubscribe(c) \/ Reply(c) \/ UnsubscribeAll(c)

PushStep(m) == Take(m) \/ FanoutEnds(m) \/ \E c \in Conns : Send(m, c)

Next ==
    \/ \E c \in Conns : ConnStep(c) \/ ClientAsks(c) \/ StopReading(c) \/ Break(c)
    \/ \E m \in Messages : PushStep(m) \/ \E t \in Topics : Publish(m, t)

Spec == Init /\ [][Next]_vars

-----------------------------------------------------------------------------
(* Properties.                                                             *)

InHub(c) == {t \in Topics : c \in hub[t]}

\* A connection's own topics and the hub's, updated under different mutexes,
\* differ only by the topic that is being added or removed, every connection in
\* the hub has a sender, and a closed connection has left nothing behind.
HubMatchesConnections ==
    \A c \in Conns :
        /\ stage[c] \in {"new", "closed"} => InHub(c) = {} /\ c \notin senders
        /\ stage[c] \in {"reading", "replying"} => InHub(c) = topics[c]
        /\ stage[c] = "subscribing" => InHub(c) = topics[c] \ {about[c]}
        /\ stage[c] = "unsubscribing" => InHub(c) = topics[c] \cup {about[c]}
        /\ InHub(c) # {} => c \in senders

\* A push that was published after a client had its "subscribed" reaches it,
\* unless the client gave up the topic or its connection meanwhile: whatever
\* happens to other connections, and however the hub changes during the fan-out.
ConfirmedIsServed == \A m \in Messages : pushed[m] = "done" => owed[m] = {}

\* Pushes from Redis reach each connection in the order they were published.
PushOrder == [][\A c \in Conns : viaRedis /\ stage'[c] # "closed" => last'[c] >= last[c]]_vars
=============================================================================
