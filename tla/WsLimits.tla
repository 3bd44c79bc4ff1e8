------------------------------ MODULE WsLimits ------------------------------
(***************************************************************************)
(* The limits on the topics of one WebSocket connection: trySubscribe and  *)
(* removeTopic, as operators on the fields of connState they read and      *)
(* write, called in turn by the one goroutine that serves the connection.  *)
(* What they answer is compared with a definition of the limits over the   *)
(* whole history of the connection, which prunes nothing.                  *)
(***************************************************************************)
EXTENDS Integers, Sequences, FiniteSets

CONSTANTS
    MaxSubscriptionsPerConn,
    SubscribeRateWindow,       \* in ticks of the clock
    SubscribeRateMaxSubscribe,
    ScriptTopics,              \* topics the client names
    ScriptLength               \* requests and ticks of a behaviour; a bound of the model

ASSUME LimitsAssumption ==
    /\ MaxSubscriptionsPerConn \in Nat /\ SubscribeRateWindow \in Nat
    /\ SubscribeRateMaxSubscribe \in Nat
    /\ MaxSubscriptionsPerConn <= SubscribeRateMaxSubscribe

VARIABLES
    connState,  \* [topics, subTimes]
    clock,      \* time.Now()
    served      \* history: the requests, when they came and what they were answered

limitsVars == <<connState, clock, served>>

Reasons == {"already", "subscription_limit", "rate_limited", "new", "removed", "not_subscribed"}

Entries == [topic : ScriptTopics, at : Nat, reason : Reasons]

LimitsTypeOK ==
    /\ connState \in [topics : SUBSET ScriptTopics, subTimes : Seq(Nat)]
    /\ clock \in Nat
    /\ served \in Seq(Entries)

\* connState of a new connection.
NewConnState == [topics |-> {}, subTimes |-> <<>>]

Answer(st, reason) == [st |-> st, reason |-> reason]

\* Where the loop of trySubscribe over the times before the cutoff stops.
Stale(times, cutoff) ==
    CHOOSE n \in 0..Len(times) :
        /\ \A i \in 1..n : times[i] < cutoff
        /\ n < Len(times) => times[n + 1] >= cutoff

Recent(times, cutoff) == SubSeq(times, Stale(times, cutoff) + 1, Len(times))

\* Mutant: the new subscribe is counted before it is known to be one.
TrySubscribeCountsAll(st, topic, now) ==
    LET recent == Recent(st.subTimes, now - SubscribeRateWindow)
    IN  CASE Len(recent) >= SubscribeRateMaxSubscribe -> Answer(st, "rate_limited")
          [] topic \in st.topics -> Answer([st EXCEPT !.subTimes = Append(recent, now)], "already")
          [] Cardinality(st.topics) >= MaxSubscriptionsPerConn -> Answer(st, "subscription_limit")
          [] OTHER -> Answer([topics |-> st.topics \cup {topic},
                              subTimes |-> Append(recent, now)], "new")

\* The times are pruned only on the way to the rate, and stay so if that refuses.
TrySubscribe(st, topic, now) ==
    LET recent == Recent(st.subTimes, now - SubscribeRateWindow)
    IN  CASE topic \in st.topics -> Answer(st, "already")
          [] topic \notin st.topics /\ Cardinality(st.topics) >= MaxSubscriptionsPerConn ->
                Answer(st, "subscription_limit")
          [] OTHER ->
                IF Len(recent) >= SubscribeRateMaxSubscribe
                THEN Answer([st EXCEPT !.subTimes = recent], "rate_limited")
                ELSE Answer([topics |-> st.topics \cup {topic},
                             subTimes |-> Append(recent, now)], "new")

\* Mutant: the topic given up gives its subscribe back.
RemoveTopicRefunds(st, topic) ==
    IF topic \in st.topics
    THEN Answer([topics |-> st.topics \ {topic},
                 subTimes |-> SubSeq(st.subTimes, 1, Len(st.subTimes) - 1)], "removed")
    ELSE Answer(st, "not_subscribed")

RemoveTopic(st, topic) ==
    IF topic \in st.topics
    THEN Answer([st EXCEPT !.topics = @ \ {topic}], "removed")
    ELSE Answer(st, "not_subscribed")

-----------------------------------------------------------------------------
(* The goroutine of the connection.                                        *)

LimitsInit == connState = NewConnState /\ clock = 0 /\ served = <<>>

GoesOn == Len(served) + clock < ScriptLength

Serve(topic, answer) ==
    /\ GoesOn
    /\ connState' = answer.st
    /\ served' = Append(served, [topic |-> topic, at |-> clock, reason |-> answer.reason])
    /\ UNCHANGED clock

AskSubscribe(topic)   == Serve(topic, TrySubscribe(connState, topic, clock))
AskUnsubscribe(topic) == Serve(topic, RemoveTopic(connState, topic))

ClockTicks == GoesOn /\ clock' = clock + 1 /\ UNCHANGED <<connState, served>>

LimitsNext == ClockTicks \/ \E topic \in ScriptTopics : AskSubscribe(topic) \/ AskUnsubscribe(topic)

LimitsSpec == LimitsInit /\ [][LimitsNext]_limitsVars

-----------------------------------------------------------------------------
(* The limits, told from the history alone.                                *)

\* What a history before its i-th entry says of the connection.
Held(log, i) ==
    {log[j].topic : j \in {j \in 1..(i - 1) :
        /\ log[j].reason = "new"
        /\ \A k \in (j + 1)..(i - 1) :
            log[k].topic = log[j].topic => log[k].reason # "removed"}}

NewInWindow(log, i) ==
    {j \in 1..(i - 1) : /\ log[j].reason = "new"
                        /\ log[j].at >= log[i].at - SubscribeRateWindow}

Warranted(log, i) ==
    CASE log[i].reason = "already"  -> log[i].topic \in Held(log, i)
      [] log[i].reason = "removed"  -> log[i].topic \in Held(log, i)
      [] log[i].reason = "not_subscribed" -> log[i].topic \notin Held(log, i)
      [] log[i].reason = "subscription_limit" ->
            Cardinality(Held(log, i)) = MaxSubscriptionsPerConn
      [] log[i].reason = "rate_limited" ->
            Cardinality(NewInWindow(log, i)) = SubscribeRateMaxSubscribe
      [] log[i].reason = "new" ->
            /\ log[i].topic \notin Held(log, i)
            /\ Cardinality(Held(log, i)) < MaxSubscriptionsPerConn
            /\ Cardinality(NewInWindow(log, i)) < SubscribeRateMaxSubscribe

\* A connection never holds more topics, nor gets more new subscribes in any window,
\* than allowed, and is refused only when a limit is met exactly, though subTimes is
\* pruned only now and then, and a topic given up frees its place but not its
\* subscribe.
AnswersAreWarranted == \A i \in DOMAIN served : Warranted(served, i)

\* A connection that has given up no topic meets the limit of topics before that of
\* the rate, as protocol.go says of the two constants.
CapBeforeRate ==
    (\A i \in DOMAIN served : served[i].reason # "removed")
        => \A i \in DOMAIN served : served[i].reason # "rate_limited"
=============================================================================
