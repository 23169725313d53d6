--------------------------- MODULE InfoGenerator ---------------------------
(***************************************************************************)
(* The JSON info generator (JsonInfoGeneratorNode): it collects the latest *)
(* messages of some topics for the order the client has, and publishes     *)
(* them from time to time.  Messages are numbered topic by topic.           *)
(***************************************************************************)
EXTENDS Naturals, Sequences, SequencesExt

CONSTANTS
  ros_subscriber_topics,
  messages_aggregated_count,
  OrderIds,   \* bound: ids of orders
  MaxReceived \* bound: messages received since an id

ASSUME InfoAssumption ==
  messages_aggregated_count \in Nat \ {0} /\ MaxReceived \in Nat

VARIABLES
  order_id,
  messages,    \* the deques by topic
  since,       \* what arrived since order_id was set, by topic
  info         \* what was published last

infoVars == <<order_id, messages, since, info>>

NoMessages == [t \in {} |-> << >>]

InfoInit ==
  /\ order_id = "-1"
  /\ messages = NoMessages
  /\ since = [t \in ros_subscriber_topics |-> << >>]
  /\ info = NoMessages

\* A mutant: the messages of the order before are kept.
OrderIdCallbackKeeps(id) ==
  /\ id # order_id
  /\ order_id' = id
  /\ since' = [t \in ros_subscriber_topics |-> << >>]
  /\ UNCHANGED <<messages, info>>

\* __order_id_callback; an id that is repeated changes nothing.
OrderIdCallback(id) ==
  /\ id # order_id
  /\ order_id' = id
  /\ messages' = NoMessages
  /\ since' = [t \in ros_subscriber_topics |-> << >>]
  /\ UNCHANGED info

Arrived == FoldFunction(LAMBDA s, n : n + Len(s), 0, since)

\* __ros_subscriber_callback
SubscriberCallback(topic) ==
  LET message == <<topic, Len(since[topic]) + 1>>
      longer  == IF topic \in DOMAIN messages THEN Append(messages[topic], message) ELSE <<message>>
  IN  /\ Arrived < MaxReceived
      /\ messages' = [t \in DOMAIN messages \cup {topic} |->
                        IF t # topic THEN messages[t]
                        ELSE IF Len(longer) > messages_aggregated_count THEN Tail(longer) ELSE longer]
      /\ since' = [since EXCEPT ![topic] = Append(@, message)]
      /\ UNCHANGED <<order_id, info>>

\* __timer_callback
TimerCallback ==
  /\ info' = messages
  /\ UNCHANGED <<order_id, messages, since>>

InfoNext ==
  \/ \E id \in OrderIds : OrderIdCallback(id)
  \/ \E t \in ros_subscriber_topics : SubscriberCallback(t)
  \/ TimerCallback
-----------------------------------------------------------------------------
(* Properties.                                                             *)

\* What is collected is, of every topic that had a message since the client
\* took up its order, the last messages and nothing of an order before.
InfoOfOneOrder ==
  /\ DOMAIN messages = {t \in ros_subscriber_topics : since[t] # << >>}
  /\ \A t \in DOMAIN messages :
       LET n == Len(since[t])
       IN  messages[t] = SubSeq(since[t], IF n > messages_aggregated_count
                                          THEN n - messages_aggregated_count + 1 ELSE 1, n)
=============================================================================
