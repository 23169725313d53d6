----------------------------- MODULE MqttBridge -----------------------------
(***************************************************************************)
(* The MQTT bridge of isaac_ros_mqtt_bridge: two processes, MqttToRosNode  *)
(* and RosToMqttNode, each with an MQTT client of its own whose network    *)
(* thread runs beside the ROS executor, and the broker between them and    *)
(* the master control.                                                     *)
(*                                                                         *)
(* paho-mqtt and the broker are not part of the repository; they are       *)
(* modelled from how the nodes use them: a TCP connection keeps the order  *)
(* of its packets and loses those under way when it breaks, QoS 1 messages *)
(* are sent again after a reconnection, QoS 0 messages are not, a broker   *)
(* publishes the will of a client that went without DISCONNECT, and an     *)
(* exception out of on_message ends the network thread.                    *)
(***************************************************************************)
EXTENDS Naturals, Sequences, SequencesExt, FiniteSets

CONSTANTS
  Payloads,      \* what the master control may send
  Translation,   \* Translation[t][p]: what on_mqtt_message makes of p for topic t
  Deployments,   \* the sets of nodes that are started together
  NumRetries,    \* num_retries
  RetryForever,  \* retry_forever
  MaxMessages,   \* bound: messages of the master control
  MaxStates,     \* bound: states the robot reports
  MaxFaults      \* bound: refused connections, breaks and crashes

ToRos  == "mqtt_to_ros"
ToMqtt == "ros_to_mqtt"
Clients == {ToRos, ToMqtt}

ConnectionStates == {"NONE", "ONLINE", "OFFLINE", "CONNECTIONBROKEN"}
Topics == {"order", "instantActions"}

ASSUME BridgeAssumption ==
  /\ DOMAIN Translation = Topics
  /\ \A t \in Topics : DOMAIN Translation[t] = Payloads
  /\ Deployments \subseteq SUBSET Clients
  /\ {NumRetries, MaxMessages, MaxStates, MaxFaults} \subseteq Nat
  /\ RetryForever \in BOOLEAN

\* Where the launch file connects the topics of the two kinds of messages.
RosTopic == [order |-> "client_commands", instantActions |-> "instant_actions_commands"]

VARIABLES
  phase,       \* what a process does: "connecting" in its constructor,
               \* "spinning", "stopping" in disconnect(), "gone", or "absent"
               \* when it is not deployed
  retries,     \* the counter of the connection loop
  loop,        \* the network thread: "none", "running", "dead"
  link,        \* the client's connection: "down", "opened", "acked", "up"
  uplink,      \* packets on their way to the broker
  downlink,    \* packets on their way to a client
  unacked,     \* QoS 1 messages a client has not seen acknowledged
  session,     \* the broker's end: "none", "live", "orphan" (the client is
               \* gone, the broker has not noticed)
  subscribed,  \* topics of the session of MqttToRosNode
  retained,    \* the retained message of topic "connection"
  handled,     \* what became of the messages: topic, payload, result
  robotState,  \* the state the robot is in, a number that grows
  seenState,   \* the last state that reached the broker
  messages,    \* number of messages the master control has sent
  faults       \* number of refused connections, breaks and crashes

clientVars == <<phase, retries, loop, link, unacked>>
brokerVars == <<session, subscribed, retained, seenState>>
vars == <<phase, retries, loop, link, uplink, downlink, unacked, session, subscribed,
          retained, handled, robotState, seenState, messages, faults>>

Subscribe(t)  == [type |-> "SUBSCRIBE", what |-> t]
Connection(s) == [type |-> "CONNECTION", what |-> s]
StateOf(n)    == [type |-> "STATE", what |-> n]
Disconnect    == [type |-> "DISCONNECT", what |-> ToRos]
PubAck        == [type |-> "PUBACK", what |-> ToRos]
Message(t, p) == [type |-> t, what |-> p]

UplinkPackets ==
  {Subscribe(t) : t \in Topics} \cup {Connection(s) : s \in ConnectionStates} \cup
  {StateOf(n) : n \in 0..MaxStates} \cup {Disconnect}

DownlinkPackets == {PubAck} \cup {Message(t, p) : t \in Topics, p \in Payloads}

Init ==
  /\ \E nodes \in Deployments :
       phase = [c \in Clients |-> IF c \in nodes THEN "connecting" ELSE "absent"]
  /\ retries = [c \in Clients |-> 0]
  /\ loop = [c \in Clients |-> "none"]
  /\ link = [c \in Clients |-> "down"]
  /\ uplink = [c \in Clients |-> << >>]
  /\ downlink = [c \in Clients |-> << >>]
  /\ unacked = [c \in Clients |-> << >>]
  /\ session = [c \in Clients |-> "none"]
  /\ subscribed = {}
  /\ retained = "NONE"
  /\ handled = {}
  /\ robotState = 0
  /\ seenState = 0
  /\ messages = 0
  /\ faults = 0
-----------------------------------------------------------------------------
(* The constructors of both nodes: the loop around connect().              *)

\* A mutant: the loop takes one turn more than num_retries.
MayRetryOnceMore(c) == retries[c] <= NumRetries \/ RetryForever

MayRetry(c) == retries[c] < NumRetries \/ RetryForever

\* connect() opens the connection; loop_start() starts the network thread.
Connect(c) ==
  /\ phase[c] = "connecting"
  /\ MayRetry(c)
  /\ phase' = [phase EXCEPT ![c] = "spinning"]
  /\ loop' = [loop EXCEPT ![c] = "running"]
  /\ link' = [link EXCEPT ![c] = "opened"]
  /\ UNCHANGED <<retries, uplink, downlink, unacked, brokerVars, handled, robotState,
                 messages, faults>>

\* Refused, timed out or unknown host: sleep, count and try again.
ConnectFails(c) ==
  /\ phase[c] = "connecting"
  /\ MayRetry(c)
  /\ faults < MaxFaults
  /\ faults' = faults + 1
  /\ retries' = [retries EXCEPT ![c] = @ + 1]
  /\ UNCHANGED <<phase, loop, link, uplink, downlink, unacked, brokerVars, handled,
                 robotState, messages>>

\* Any other error of connect() leaves the constructor, which stands before
\* the try of main.
ConnectRaises(c) ==
  /\ phase[c] = "connecting"
  /\ MayRetry(c)
  /\ faults < MaxFaults
  /\ faults' = faults + 1
  /\ phase' = [phase EXCEPT ![c] = "gone"]
  /\ UNCHANGED <<retries, loop, link, uplink, downlink, unacked, brokerVars, handled,
                 robotState, messages>>

\* The node spins without a connection, and without a thread to make one.
GiveUp(c) ==
  /\ phase[c] = "connecting"
  /\ ~MayRetry(c)
  /\ phase' = [phase EXCEPT ![c] = "spinning"]
  /\ UNCHANGED <<retries, loop, link, uplink, downlink, unacked, brokerVars, handled,
                 robotState, messages, faults>>
-----------------------------------------------------------------------------
(* The callbacks of the network threads.                                   *)

\* A mutant: only the constructor subscribes, the first time.
ConnectPacketsNoTopics == <<Connection("ONLINE")>>

\* A mutant: the connection message goes first.
ConnectPacketsOnlineFirst ==
  <<Connection("ONLINE"), Subscribe("order"), Subscribe("instantActions")>>

ConnectPackets == <<Subscribe("order"), Subscribe("instantActions"), Connection("ONLINE")>>

\* on_mqtt_connect, after which the thread sends the unacknowledged messages
\* again.  RosToMqttNode only logs.
OnMqttConnect(c) ==
  /\ loop[c] = "running"
  /\ link[c] = "acked"
  /\ link' = [link EXCEPT ![c] = "up"]
  /\ uplink' = [uplink EXCEPT ![c] =
                  @ \o (IF c = ToRos THEN ConnectPackets ELSE << >>) \o unacked[c]]
  /\ unacked' = [unacked EXCEPT ![c] =
                   IF c = ToRos THEN Append(@, Connection("ONLINE")) ELSE @]
  /\ UNCHANGED <<phase, retries, loop, downlink, brokerVars, handled, robotState, messages,
                 faults>>

\* What on_mqtt_message catches.
Caught == {"FieldTypeMismatchException", "JSONDecodeError"}

\* The result of on_mqtt_message: the topic published on and the message.
Result(t, p) ==
  LET v == Translation[t][p]
  IN  CASE v[1] # "raised" -> [topic |-> RosTopic[t], message |-> v]
        [] v[1] = "raised" /\ v[2] \in Caught ->
             [topic |-> "order_valid_error", message |-> v]
        [] OTHER -> [topic |-> "none", message |-> v]

\* What is remembered of it.
Outcome(t, p) ==
  [type |-> t, payload |-> p, topic |-> Result(t, p).topic, message |-> Result(t, p).message]

\* on_mqtt_message.  An exception it does not catch ends the thread.
OnMqttMessage ==
  /\ loop[ToRos] = "running"
  /\ downlink[ToRos] # << >>
  /\ LET m == Head(downlink[ToRos])
     IN  /\ m.type \in Topics
         /\ handled' = handled \cup {Outcome(m.type, m.what)}
         /\ loop' = [loop EXCEPT ![ToRos] = IF Result(m.type, m.what).topic = "none" THEN "dead" ELSE @]
  /\ downlink' = [downlink EXCEPT ![ToRos] = Tail(@)]
  /\ UNCHANGED <<phase, retries, link, uplink, unacked, brokerVars, robotState, messages,
                 faults>>

\* The thread takes the acknowledgement of its oldest message.
OnPubAck(c) ==
  /\ loop[c] = "running"
  /\ downlink[c] # << >>
  /\ Head(downlink[c]) = PubAck
  /\ downlink' = [downlink EXCEPT ![c] = Tail(@)]
  /\ unacked' = [unacked EXCEPT ![c] = IF @ = << >> THEN @ ELSE Tail(@)]
  /\ UNCHANGED <<phase, retries, loop, link, uplink, brokerVars, handled, robotState,
                 messages, faults>>

\* The thread connects again, as long as disconnect() was not called.
Reconnect(c) ==
  /\ phase[c] = "spinning"
  /\ loop[c] = "running"
  /\ link[c] = "down"
  /\ link' = [link EXCEPT ![c] = "opened"]
  /\ UNCHANGED <<phase, retries, loop, uplink, downlink, unacked, brokerVars, handled,
                 robotState, messages, faults>>
-----------------------------------------------------------------------------
(* The callbacks of the executors.                                         *)

\* The robot changes; its next state message says so.
RobotChanges ==
  /\ robotState < MaxStates
  /\ robotState' = robotState + 1
  /\ UNCHANGED <<clientVars, uplink, downlink, brokerVars, handled, messages, faults>>

\* A mutant: the state is a QoS 1 message, sent again after a reconnection.
RosSubscriberCallbackQos1 ==
  /\ phase[ToMqtt] = "spinning"
  /\ StateOf(robotState) \notin Range(uplink[ToMqtt])
  /\ uplink' = [uplink EXCEPT ![ToMqtt] =
                  IF link[ToMqtt] = "down" THEN @ ELSE Append(@, StateOf(robotState))]
  /\ unacked' = [unacked EXCEPT ![ToMqtt] = Append(@, StateOf(robotState))]
  /\ UNCHANGED <<phase, retries, loop, link, downlink, brokerVars, handled, robotState,
                 messages, faults>>

\* __ros_subscriber_callback: a QoS 0 message, lost without a connection.
RosSubscriberCallback ==
  /\ phase[ToMqtt] = "spinning"
  /\ StateOf(robotState) \notin Range(uplink[ToMqtt])
  /\ uplink' = [uplink EXCEPT ![ToMqtt] =
                  IF link[ToMqtt] = "down" THEN @ ELSE Append(@, StateOf(robotState))]
  /\ UNCHANGED <<clientVars, downlink, brokerVars, handled, robotState, messages, faults>>

\* KeyboardInterrupt in MqttToRosNode: disconnect() queues OFFLINE and
\* DISCONNECT and waits for the thread to send them.
Interrupt ==
  /\ phase[ToRos] = "spinning"
  /\ phase' = [phase EXCEPT ![ToRos] = "stopping"]
  /\ uplink' = [uplink EXCEPT ![ToRos] =
                  IF link[ToRos] = "down" \/ loop[ToRos] # "running" THEN @
                  ELSE @ \o <<Connection("OFFLINE"), Disconnect>>]
  /\ unacked' = [unacked EXCEPT ![ToRos] = Append(@, Connection("OFFLINE"))]
  /\ UNCHANGED <<retries, loop, link, downlink, brokerVars, handled, robotState, messages,
                 faults>>

\* loop_stop() returns: the thread has sent DISCONNECT and closed the
\* connection, there was none, or the thread is dead and sends nothing.
Stopped ==
  /\ phase[ToRos] = "stopping"
  /\ \/ Disconnect \notin Range(uplink[ToRos])
     \/ loop[ToRos] # "running"
  /\ phase' = [phase EXCEPT ![ToRos] = "gone"]
  /\ loop' = [loop EXCEPT ![ToRos] = "none"]
  /\ link' = [link EXCEPT ![ToRos] = "down"]
  /\ uplink' = [uplink EXCEPT ![ToRos] = << >>]
  /\ downlink' = [downlink EXCEPT ![ToRos] = << >>]
  /\ unacked' = [unacked EXCEPT ![ToRos] = << >>]
  /\ session' = [session EXCEPT ![ToRos] = IF @ = "live" THEN "orphan" ELSE @]
  /\ UNCHANGED <<retries, subscribed, retained, handled, robotState, seenState, messages,
                 faults>>
-----------------------------------------------------------------------------
(* The broker, and the faults.                                             *)

\* A mutant: the will is not set.
PublishWillNever(c) == retained

PublishWill(c) == IF c = ToRos THEN "CONNECTIONBROKEN" ELSE retained

\* The broker takes the connection; a session the client still has there is
\* closed first, with its will.
BrokerAccepts(c) ==
  /\ link[c] = "opened"
  /\ link' = [link EXCEPT ![c] = "acked"]
  /\ session' = [session EXCEPT ![c] = "live"]
  /\ retained' = IF session[c] = "none" THEN retained ELSE PublishWill(c)
  /\ subscribed' = IF c = ToRos THEN {} ELSE subscribed
  /\ UNCHANGED <<phase, retries, loop, uplink, downlink, unacked, handled, robotState,
                 seenState, messages, faults>>

BrokerReceives(c) ==
  /\ session[c] = "live"
  /\ link[c] \in {"acked", "up"}
  /\ uplink[c] # << >>
  /\ LET m == Head(uplink[c])
     IN  /\ subscribed' = IF m.type = "SUBSCRIBE" THEN subscribed \cup {m.what} ELSE subscribed
         /\ retained' = IF m.type = "CONNECTION" THEN m.what ELSE retained
         /\ seenState' = IF m.type = "STATE" THEN m.what ELSE seenState
         /\ downlink' = [downlink EXCEPT ![c] =
                           IF m.type = "CONNECTION" THEN Append(@, PubAck) ELSE @]
         /\ session' = [session EXCEPT ![c] = IF m.type = "DISCONNECT" THEN "none" ELSE @]
         /\ link' = [link EXCEPT ![c] = IF m.type = "DISCONNECT" THEN "down" ELSE @]
         /\ uplink' = [uplink EXCEPT ![c] = IF m.type = "DISCONNECT" THEN << >> ELSE Tail(@)]
  /\ UNCHANGED <<phase, retries, loop, unacked, handled, robotState, messages, faults>>

\* A message of the master control reaches the session, if it is subscribed;
\* to an orphan it is sent in vain.
MasterSends(t, p) ==
  /\ messages < MaxMessages
  /\ messages' = messages + 1
  /\ downlink' = [downlink EXCEPT ![ToRos] =
                    IF session[ToRos] = "live" /\ t \in subscribed
                    THEN Append(@, Message(t, p)) ELSE @]
  /\ UNCHANGED <<clientVars, uplink, brokerVars, handled, robotState, faults>>

\* The packets under way are lost; the client sees it at once.
CloseLink(c) ==
  /\ link' = [link EXCEPT ![c] = "down"]
  /\ uplink' = [uplink EXCEPT ![c] = << >>]
  /\ downlink' = [downlink EXCEPT ![c] = << >>]
  /\ session' = [session EXCEPT ![c] = IF @ = "live" THEN "orphan" ELSE @]

Break(c) ==
  /\ link[c] # "down"
  /\ faults < MaxFaults
  /\ faults' = faults + 1
  /\ CloseLink(c)
  /\ UNCHANGED <<phase, retries, loop, unacked, subscribed, retained, handled, robotState,
                 seenState, messages>>

\* SIGTERM, SIGKILL, or an exception out of the executor.
Crash(c) ==
  /\ phase[c] \notin {"gone", "absent"}
  /\ faults < MaxFaults
  /\ faults' = faults + 1
  /\ phase' = [phase EXCEPT ![c] = "gone"]
  /\ loop' = [loop EXCEPT ![c] = "none"]
  /\ unacked' = [unacked EXCEPT ![c] = << >>]
  /\ CloseLink(c)
  /\ UNCHANGED <<retries, subscribed, retained, handled, robotState, seenState, messages>>

\* Somebody starts the node again.
Restart(c) ==
  /\ phase[c] = "gone"
  /\ phase' = [phase EXCEPT ![c] = "connecting"]
  /\ retries' = [retries EXCEPT ![c] = 0]
  /\ UNCHANGED <<loop, link, uplink, downlink, unacked, brokerVars, handled, robotState,
                 messages, faults>>

\* The broker notices that a client has gone, or that its thread no longer
\* answers: it closes the session and publishes the will.
KeepAliveExpires(c) ==
  /\ \/ session[c] = "orphan"
     \/ session[c] = "live" /\ loop[c] = "dead"
  /\ session' = [session EXCEPT ![c] = "none"]
  /\ link' = [link EXCEPT ![c] = IF session[c] = "orphan" THEN @ ELSE "down"]
  /\ uplink' = [uplink EXCEPT ![c] = IF session[c] = "orphan" THEN @ ELSE << >>]
  /\ downlink' = [downlink EXCEPT ![c] = IF session[c] = "orphan" THEN @ ELSE << >>]
  /\ retained' = PublishWill(c)
  /\ UNCHANGED <<phase, retries, loop, unacked, subscribed, handled, robotState, seenState,
                 messages, faults>>
-----------------------------------------------------------------------------
Constructor(c) == Connect(c) \/ ConnectFails(c) \/ ConnectRaises(c) \/ GiveUp(c)

NetworkThread(c) ==
  \/ OnMqttConnect(c) \/ OnPubAck(c) \/ Reconnect(c)
  \/ c = ToRos /\ OnMqttMessage

Broker(c) == BrokerAccepts(c) \/ BrokerReceives(c) \/ KeepAliveExpires(c)

Environment(c) == Break(c) \/ Crash(c) \/ Restart(c)

Next ==
  \/ \E c \in Clients : Constructor(c) \/ NetworkThread(c) \/ Broker(c) \/ Environment(c)
  \/ Interrupt \/ Stopped
  \/ RobotChanges \/ RosSubscriberCallback
  \/ \E t \in Topics, p \in Payloads : MasterSends(t, p)

\* The processes, their network threads and the broker go on; nobody has to
\* send messages, to break connections or to stop and start processes.
Fairness ==
  /\ \A c \in Clients : WF_vars(Constructor(c)) /\ WF_vars(NetworkThread(c)) /\ WF_vars(Broker(c))
  /\ WF_vars(Stopped)

Spec == Init /\ [][Next]_vars

FairSpec == Spec /\ Fairness
-----------------------------------------------------------------------------
\* Every variable has its type: a client connects again no more often than it
\* has retries (connect_client_with_retries), and its queues hold its packets.
TypeOK ==
  /\ phase \in [Clients -> {"connecting", "spinning", "stopping", "gone", "absent"}]
  /\ retries \in [Clients -> 0..(IF RetryForever THEN MaxFaults ELSE NumRetries)]
  /\ loop \in [Clients -> {"none", "running", "dead"}]
  /\ link \in [Clients -> {"down", "opened", "acked", "up"}]
  /\ uplink \in [Clients -> Seq(UplinkPackets)]
  /\ downlink \in [Clients -> Seq(DownlinkPackets)]
  /\ unacked \in [Clients -> Seq(UplinkPackets)]
  /\ session \in [Clients -> {"none", "live", "orphan"}]
  /\ subscribed \subseteq Topics
  /\ retained \in ConnectionStates
  /\ robotState \in 0..MaxStates
  /\ seenState \in 0..MaxStates
  /\ messages \in 0..MaxMessages
  /\ faults \in 0..MaxFaults

\* When the retained connection message of a live session says ONLINE, every
\* topic of the master control is subscribed: a master that sends an order
\* because it read ONLINE (on_mqtt_connect) is not talking to nobody.
OnlineMeansSubscribed ==
  retained = "ONLINE" /\ session[ToRos] = "live" => subscribed = Topics

\* ONLINE does not outlive the session it was published in: the broker closes
\* no session without either the OFFLINE of disconnect() or the will
\* CONNECTIONBROKEN, whatever crashes, breaks and takeovers came before.
OnlineMeansSession == session[ToRos] = "none" => retained # "ONLINE"

\* The master control is never told an older state of the robot after a newer
\* one, though connections break and messages are lost
\* (__ros_subscriber_callback).
StateNeverGoesBack == [][seenState' >= seenState]_vars

\* A network thread that an exception of on_mqtt_message ended, in a process
\* that goes on spinning, is noticed: the broker's keep-alive takes ONLINE
\* back.
DeadThreadNoticed == loop[ToRos] = "dead" ~> retained # "ONLINE"

\* A bridge whose process and network thread live on is reachable again after
\* every break: subscribed to all topics, and reported ONLINE for good.  The
\* will of a broken session never overwrites the ONLINE of a later one.
Reconnected ==
  <>[](phase[ToRos] = "spinning" /\ loop[ToRos] = "running")
    => <>[](retained = "ONLINE" /\ session[ToRos] = "live" /\ subscribed = Topics)
=============================================================================
