-------------------------- MODULE MqttBridge_proofs --------------------------
(***************************************************************************)
(* Proofs about the MQTT bridge: what the broker's retained connection     *)
(* message promises, and the order of the robot's states, for any number   *)
(* of retries, messages, states and faults and any deployment.             *)
(***************************************************************************)
EXTENDS MqttBridge, SequenceTheorems, TLAPS

USE DEF clientVars, brokerVars

-----------------------------------------------------------------------------
(***************************************************************************)
(* Packets.                                                                *)
(***************************************************************************)
LEMMA ClientsApart == ToRos # ToMqtt /\ ToRos \in Clients /\ ToMqtt \in Clients
BY DEF ToRos, ToMqtt, Clients

LEMMA PacketTypes ==
  /\ \A m \in UplinkPackets :
       /\ m.type = "CONNECTION" => m.what \in ConnectionStates
       /\ m.type = "SUBSCRIBE" => m.what \in Topics
       /\ m.type = "STATE" => m.what \in 0..MaxStates
  /\ \A s \in ConnectionStates : Connection(s) \in UplinkPackets
  /\ \A t \in Topics : Subscribe(t) \in UplinkPackets
  /\ \A n \in 0..MaxStates : StateOf(n) \in UplinkPackets
  /\ Disconnect \in UplinkPackets
  /\ PubAck \in DownlinkPackets
  /\ \A t \in Topics, p \in Payloads : Message(t, p) \in DownlinkPackets
<1>1. ASSUME NEW m \in UplinkPackets
      PROVE  /\ m.type = "CONNECTION" => m.what \in ConnectionStates
             /\ m.type = "SUBSCRIBE" => m.what \in Topics
             /\ m.type = "STATE" => m.what \in 0..MaxStates
  <2>1. CASE \E t \in Topics : m = Subscribe(t)
    BY <2>1 DEF Subscribe
  <2>2. CASE \E s \in ConnectionStates : m = Connection(s)
    BY <2>2 DEF Connection
  <2>3. CASE \E n \in 0..MaxStates : m = StateOf(n)
    BY <2>3 DEF StateOf
  <2>4. CASE m = Disconnect
    BY <2>4 DEF Disconnect
  <2>5. QED
    BY <2>1, <2>2, <2>3, <2>4 DEF UplinkPackets
<1>2. QED
  BY <1>1 DEF UplinkPackets, DownlinkPackets

LEMMA ConnectPacketsTyped ==
  /\ ConnectPackets \in Seq(UplinkPackets)
  /\ Len(ConnectPackets) = 3
  /\ ConnectPackets[1] = Subscribe("order")
  /\ ConnectPackets[2] = Subscribe("instantActions")
  /\ ConnectPackets[3] = Connection("ONLINE")
BY PacketTypes DEF ConnectPackets, Topics, ConnectionStates

-----------------------------------------------------------------------------
(***************************************************************************)
(* Types.                                                                  *)
(***************************************************************************)
\* A connection that closes loses the packets of its client.
LEMMA EmptyQueue ==
  ASSUME NEW S, NEW q \in [Clients -> Seq(S)], NEW c \in Clients
  PROVE  /\ [q EXCEPT ![c] = << >>] \in [Clients -> Seq(S)]
         /\ \A d \in Clients : [q EXCEPT ![c] = << >>][d] = IF d = c THEN << >> ELSE q[d]
<1>1. << >> \in Seq(S)
  OBVIOUS
<1>2. QED
  BY <1>1

\* A client that may retry for ever does so once for each fault.
RetriesAreFaults == RetryForever => \A c \in Clients : retries[c] <= faults

TypeInv == TypeOK /\ RetriesAreFaults

LEMMA InitTypes == Init => TypeInv
<1> SUFFICES ASSUME Init PROVE TypeInv
  OBVIOUS
<1>1. /\ NumRetries \in Nat /\ MaxStates \in Nat /\ MaxMessages \in Nat /\ MaxFaults \in Nat
  BY BridgeAssumption
<1>2. phase \in [Clients -> {"connecting", "spinning", "stopping", "gone", "absent"}]
  BY DEF Init
<1>3. retries \in [Clients -> 0..(IF RetryForever THEN MaxFaults ELSE NumRetries)]
  BY <1>1 DEF Init
<1>4. /\ uplink \in [Clients -> Seq(UplinkPackets)]
      /\ downlink \in [Clients -> Seq(DownlinkPackets)]
      /\ unacked \in [Clients -> Seq(UplinkPackets)]
  BY DEF Init
<1>5. RetriesAreFaults
  BY DEF Init, RetriesAreFaults
<1>6. QED
  BY <1>1, <1>2, <1>3, <1>4, <1>5 DEF Init, TypeInv, TypeOK, ConnectionStates

LEMMA ConstructorTypes ==
  ASSUME TypeInv, NEW c \in Clients, Constructor(c)
  PROVE  TypeInv'
<1>a. NumRetries \in Nat /\ MaxFaults \in Nat /\ faults \in Nat /\ retries[c] \in Nat
  BY BridgeAssumption DEF TypeInv, TypeOK
<1>1. CASE Connect(c)
  BY <1>1 DEF Connect, TypeInv, TypeOK, RetriesAreFaults
<1>2. CASE ConnectFails(c)
  <2>1. retries[c] + 1 \in 0..(IF RetryForever THEN MaxFaults ELSE NumRetries)
    BY <1>a, <1>2 DEF ConnectFails, MayRetry, TypeInv, RetriesAreFaults
  <2>2. retries' \in [Clients -> 0..(IF RetryForever THEN MaxFaults ELSE NumRetries)]
    BY <1>2, <2>1 DEF ConnectFails, TypeInv, TypeOK
  <2>3. \A d \in Clients : retries[d] \in Int /\ retries'[d] \in {retries[d], retries[d] + 1}
    BY <1>2 DEF ConnectFails, TypeInv, TypeOK
  <2>4. RetriesAreFaults'
    BY <1>a, <1>2, <2>3 DEF ConnectFails, TypeInv, RetriesAreFaults
  <2>5. faults' \in 0..MaxFaults
    BY <1>a, <1>2 DEF ConnectFails
  <2>6. QED
    BY <1>2, <2>2, <2>4, <2>5 DEF ConnectFails, TypeInv, TypeOK
<1>3. CASE ConnectRaises(c)
  <2>1. faults' \in 0..MaxFaults /\ faults' = faults + 1
    BY <1>a, <1>3 DEF ConnectRaises
  <2>2. RetriesAreFaults'
    <3>1. \A d \in Clients : retries[d] \in Int
      BY DEF TypeInv, TypeOK
    <3>2. QED
      BY <1>a, <1>3, <2>1, <3>1 DEF ConnectRaises, TypeInv, RetriesAreFaults
  <2>3. QED
    BY <1>3, <2>1, <2>2 DEF ConnectRaises, TypeInv, TypeOK
<1>4. CASE GiveUp(c)
  BY <1>4 DEF GiveUp, TypeInv, TypeOK, RetriesAreFaults
<1>5. QED
  BY <1>1, <1>2, <1>3, <1>4 DEF Constructor

LEMMA ThreadTypes ==
  ASSUME TypeInv, NEW c \in Clients, NetworkThread(c)
  PROVE  TypeInv'
<1>1. CASE OnMqttConnect(c)
  <2>1. (IF c = ToRos THEN ConnectPackets ELSE << >>) \in Seq(UplinkPackets)
    BY ConnectPacketsTyped
  <2>2. uplink' \in [Clients -> Seq(UplinkPackets)]
    BY <1>1, <2>1 DEF OnMqttConnect, TypeInv, TypeOK
  <2>3. Connection("ONLINE") \in UplinkPackets
    BY PacketTypes DEF ConnectionStates
  <2>4. unacked' \in [Clients -> Seq(UplinkPackets)]
    BY <1>1, <2>3 DEF OnMqttConnect, TypeInv, TypeOK
  <2>5. QED
    BY <1>1, <2>2, <2>4 DEF OnMqttConnect, TypeInv, TypeOK, RetriesAreFaults
<1>2. CASE OnMqttMessage
  <2>1. downlink' \in [Clients -> Seq(DownlinkPackets)]
    BY <1>2, ClientsApart DEF OnMqttMessage, TypeInv, TypeOK
  <2>2. loop' \in [Clients -> {"none", "running", "dead"}]
    BY <1>2 DEF OnMqttMessage, TypeInv, TypeOK
  <2>3. UNCHANGED <<phase, retries, link, uplink, unacked, brokerVars, robotState, messages,
                    faults>>
    BY <1>2 DEF OnMqttMessage
  <2>4. QED
    BY <2>1, <2>2, <2>3 DEF TypeInv, TypeOK, RetriesAreFaults
<1>3. CASE OnPubAck(c)
  <2>1. /\ downlink' \in [Clients -> Seq(DownlinkPackets)]
        /\ unacked' \in [Clients -> Seq(UplinkPackets)]
    BY <1>3 DEF OnPubAck, TypeInv, TypeOK
  <2>2. QED
    BY <1>3, <2>1 DEF OnPubAck, TypeInv, TypeOK, RetriesAreFaults
<1>4. CASE Reconnect(c)
  BY <1>4 DEF Reconnect, TypeInv, TypeOK, RetriesAreFaults
<1>5. QED
  BY <1>1, <1>2, <1>3, <1>4 DEF NetworkThread

LEMMA BrokerTypes ==
  ASSUME TypeInv, NEW c \in Clients, Broker(c)
  PROVE  TypeInv'
<1>1. PublishWill(c) \in ConnectionStates
  BY DEF PublishWill, ConnectionStates, TypeInv, TypeOK
<1>2. CASE BrokerAccepts(c)
  BY <1>1, <1>2 DEF BrokerAccepts, TypeInv, TypeOK, RetriesAreFaults
<1>3. CASE BrokerReceives(c)
  <2>1. Head(uplink[c]) \in UplinkPackets /\ Tail(uplink[c]) \in Seq(UplinkPackets)
    BY <1>3 DEF BrokerReceives, TypeInv, TypeOK
  <2>2. subscribed' \subseteq Topics /\ retained' \in ConnectionStates
        /\ seenState' \in 0..MaxStates
    BY <1>3, <2>1, PacketTypes DEF BrokerReceives, TypeInv, TypeOK
  <2>3. uplink' \in [Clients -> Seq(UplinkPackets)]
    BY <1>3, <2>1 DEF BrokerReceives, TypeInv, TypeOK
  <2>4. downlink' \in [Clients -> Seq(DownlinkPackets)]
    BY <1>3, PacketTypes DEF BrokerReceives, TypeInv, TypeOK
  <2>5. /\ session' \in [Clients -> {"none", "live", "orphan"}]
        /\ link' \in [Clients -> {"down", "opened", "acked", "up"}]
    BY <1>3 DEF BrokerReceives, TypeInv, TypeOK
  <2>6. UNCHANGED <<phase, retries, loop, unacked, robotState, messages, faults>>
    BY <1>3 DEF BrokerReceives
  <2>7. QED
    BY <2>2, <2>3, <2>4, <2>5, <2>6 DEF TypeInv, TypeOK, RetriesAreFaults
<1>4. CASE KeepAliveExpires(c)
  <2>1. /\ uplink' \in [Clients -> Seq(UplinkPackets)]
        /\ downlink' \in [Clients -> Seq(DownlinkPackets)]
    BY <1>4 DEF KeepAliveExpires, TypeInv, TypeOK
  <2>2. QED
    BY <1>1, <1>4, <2>1 DEF KeepAliveExpires, TypeInv, TypeOK, RetriesAreFaults
<1>5. QED
  BY <1>2, <1>3, <1>4 DEF Broker

LEMMA EnvironmentTypes ==
  ASSUME TypeInv, NEW c \in Clients, Environment(c)
  PROVE  TypeInv'
<1>a. NumRetries \in Nat /\ MaxFaults \in Nat /\ faults \in Nat
      /\ \A d \in Clients : retries[d] \in Nat
  BY BridgeAssumption DEF TypeInv, TypeOK
<1>1. CASE Break(c) \/ Crash(c)
  <2>1. faults' \in 0..MaxFaults /\ faults' = faults + 1 /\ retries' = retries
    BY <1>a, <1>1 DEF Break, Crash
  <2>2. RetriesAreFaults'
    BY <1>a, <2>1 DEF TypeInv, RetriesAreFaults
  <2>3. /\ uplink' \in [Clients -> Seq(UplinkPackets)]
        /\ downlink' \in [Clients -> Seq(DownlinkPackets)]
        /\ unacked' \in [Clients -> Seq(UplinkPackets)]
    <3>1. CloseLink(c)
      BY <1>1 DEF Break, Crash
    <3>2. /\ uplink' \in [Clients -> Seq(UplinkPackets)]
          /\ downlink' \in [Clients -> Seq(DownlinkPackets)]
      BY <3>1 DEF CloseLink, TypeInv, TypeOK
    <3>3. unacked' = unacked \/ unacked' = [unacked EXCEPT ![c] = << >>]
      BY <1>1 DEF Break, Crash
    <3>4. unacked' \in [Clients -> Seq(UplinkPackets)]
      <4>1. unacked \in [Clients -> Seq(UplinkPackets)]
        BY DEF TypeInv, TypeOK
      <4>2. [unacked EXCEPT ![c] = << >>] \in [Clients -> Seq(UplinkPackets)]
        BY <4>1, EmptyQueue
      <4>3. QED
        BY <3>3, <4>1, <4>2
    <3>5. QED
      BY <3>2, <3>4
  <2>4. /\ link' \in [Clients -> {"down", "opened", "acked", "up"}]
        /\ session' \in [Clients -> {"none", "live", "orphan"}]
        /\ phase' \in [Clients -> {"connecting", "spinning", "stopping", "gone", "absent"}]
        /\ loop' \in [Clients -> {"none", "running", "dead"}]
    BY <1>1 DEF Break, Crash, CloseLink, TypeInv, TypeOK
  <2>5. UNCHANGED <<subscribed, retained, robotState, seenState, messages>>
    BY <1>1 DEF Break, Crash
  <2>6. QED
    BY <2>1, <2>2, <2>3, <2>4, <2>5 DEF TypeInv, TypeOK
<1>2. CASE Restart(c)
  <2>1. /\ retries' \in [Clients -> 0..(IF RetryForever THEN MaxFaults ELSE NumRetries)]
        /\ \A d \in Clients : retries'[d] \in {0, retries[d]}
    BY <1>a, <1>2 DEF Restart, TypeInv, TypeOK
  <2>2. RetriesAreFaults'
    BY <1>a, <1>2, <2>1 DEF Restart, TypeInv, RetriesAreFaults
  <2>3. QED
    BY <1>2, <2>1, <2>2 DEF Restart, TypeInv, TypeOK
<1>3. QED
  BY <1>1, <1>2 DEF Environment

LEMMA NextTypes == TypeInv /\ [Next]_vars => TypeInv'
<1> SUFFICES ASSUME TypeInv, [Next]_vars PROVE TypeInv'
  OBVIOUS
<1>1. CASE UNCHANGED vars
  BY <1>1 DEF vars, TypeInv, TypeOK, RetriesAreFaults
<1>2. CASE Interrupt
  <2>1. Connection("OFFLINE") \in UplinkPackets /\ Disconnect \in UplinkPackets
    BY PacketTypes DEF ConnectionStates
  <2>2. <<Connection("OFFLINE"), Disconnect>> \in Seq(UplinkPackets)
    BY <2>1
  <2>3. uplink' \in [Clients -> Seq(UplinkPackets)]
    BY <1>2, <2>2, ClientsApart DEF Interrupt, TypeInv, TypeOK
  <2>4. unacked' \in [Clients -> Seq(UplinkPackets)]
    BY <1>2, <2>1, ClientsApart DEF Interrupt, TypeInv, TypeOK
  <2>5. QED
    BY <1>2, <2>3, <2>4 DEF Interrupt, TypeInv, TypeOK, RetriesAreFaults
<1>3. CASE Stopped
  <2>1. /\ uplink' \in [Clients -> Seq(UplinkPackets)]
        /\ downlink' \in [Clients -> Seq(DownlinkPackets)]
        /\ unacked' \in [Clients -> Seq(UplinkPackets)]
    BY <1>3, ClientsApart DEF Stopped, TypeInv, TypeOK
  <2>2. QED
    BY <1>3, <2>1 DEF Stopped, TypeInv, TypeOK, RetriesAreFaults
<1>4. CASE RobotChanges
  BY <1>4, BridgeAssumption DEF RobotChanges, TypeInv, TypeOK, RetriesAreFaults
<1>5. CASE RosSubscriberCallback
  <2>1. StateOf(robotState) \in UplinkPackets
    BY PacketTypes DEF TypeInv, TypeOK
  <2>2. uplink' \in [Clients -> Seq(UplinkPackets)]
    BY <1>5, <2>1, ClientsApart DEF RosSubscriberCallback, TypeInv, TypeOK
  <2>3. QED
    BY <1>5, <2>2 DEF RosSubscriberCallback, TypeInv, TypeOK, RetriesAreFaults
<1>6. ASSUME NEW t \in Topics, NEW p \in Payloads, MasterSends(t, p)
      PROVE  TypeInv'
  <2>1. Message(t, p) \in DownlinkPackets
    BY PacketTypes
  <2>2. downlink' \in [Clients -> Seq(DownlinkPackets)]
    BY <1>6, <2>1, ClientsApart DEF MasterSends, TypeInv, TypeOK
  <2>3. messages' \in 0..MaxMessages
    BY <1>6, BridgeAssumption DEF MasterSends, TypeInv, TypeOK
  <2>4. QED
    BY <1>6, <2>2, <2>3 DEF MasterSends, TypeInv, TypeOK, RetriesAreFaults
<1>7. QED
  BY <1>1, <1>2, <1>3, <1>4, <1>5, <1>6, ConstructorTypes, ThreadTypes, BrokerTypes,
     EnvironmentTypes DEF Next

LEMMA TypeInvCorrect == Spec => []TypeInv
BY InitTypes, NextTypes, PTL DEF Spec

\* Every variable of the bridge has its type in every execution: no loop of a
\* constructor makes more turns than it has retries
\* (connect_client_with_retries), and every queue holds packets of its own.
THEOREM BridgeTypeCorrect == Spec => []TypeOK
BY TypeInvCorrect, PTL DEF TypeInv

-----------------------------------------------------------------------------
(***************************************************************************)
(* Who sends what.                                                         *)
(***************************************************************************)
ConnectionPackets == {Connection(s) : s \in ConnectionStates}
RosPackets == {Subscribe(t) : t \in Topics} \cup ConnectionPackets \cup {Disconnect}
StatePackets == {StateOf(n) : n \in 0..MaxStates}

\* Only the two nodes' own packets are under way; the states of the robot are
\* not sent again.
OwnPackets ==
  /\ uplink[ToRos] \in Seq(RosPackets) /\ unacked[ToRos] \in Seq(ConnectionPackets)
  /\ uplink[ToMqtt] \in Seq(StatePackets) /\ unacked[ToMqtt] = << >>

LEMMA OwnTypes ==
  /\ \A m \in RosPackets : m.type # "STATE"
  /\ \A m \in ConnectionPackets : m.type = "CONNECTION" /\ m \in RosPackets
  /\ \A m \in StatePackets : m.type = "STATE" /\ m.what \in 0..MaxStates
  /\ Disconnect \in RosPackets
  /\ \A m \in RosPackets : m.type = "DISCONNECT" <=> m = Disconnect
  /\ \A m \in RosPackets : m.type = "CONNECTION" => m = Connection(m.what)
  /\ \A m \in RosPackets : m.type = "SUBSCRIBE" <=> m \in {Subscribe(t) : t \in Topics}
<1>1. \A t : Subscribe(t).type = "SUBSCRIBE" /\ Subscribe(t).what = t
  BY DEF Subscribe
<1>2. \A s : Connection(s).type = "CONNECTION" /\ Connection(s).what = s
  BY DEF Connection
<1>3. \A n : StateOf(n).type = "STATE" /\ StateOf(n).what = n
  BY DEF StateOf
<1>4. Disconnect.type = "DISCONNECT"
  BY DEF Disconnect
<1>5. \A m \in RosPackets : \/ m.type = "SUBSCRIBE" /\ m \in {Subscribe(t) : t \in Topics}
                            \/ m.type = "CONNECTION" /\ m = Connection(m.what)
                            \/ m.type = "DISCONNECT" /\ m = Disconnect
  BY <1>1, <1>2, <1>4 DEF RosPackets, ConnectionPackets
<1>6. /\ \A m \in ConnectionPackets : m.type = "CONNECTION" /\ m \in RosPackets
      /\ \A m \in StatePackets : m.type = "STATE" /\ m.what \in 0..MaxStates
      /\ Disconnect \in RosPackets
  BY <1>2, <1>3 DEF RosPackets, ConnectionPackets, StatePackets
<1>7. \A m \in {Subscribe(t) : t \in Topics} : m.type = "SUBSCRIBE"
  BY <1>1
<1>8. QED
  BY <1>4, <1>5, <1>6, <1>7

LEMMA OwnStep ==
  ASSUME TypeOK, OwnPackets, [Next]_vars
  PROVE  OwnPackets'
<1>a. /\ uplink \in [Clients -> Seq(UplinkPackets)]
      /\ unacked \in [Clients -> Seq(UplinkPackets)]
      /\ ToRos \in Clients /\ ToMqtt \in Clients /\ ToRos # ToMqtt
  BY ClientsApart DEF TypeOK
<1>b. ASSUME UNCHANGED <<uplink, unacked>> PROVE OwnPackets'
  BY <1>b DEF OwnPackets
<1>c. ASSUME NEW c \in Clients, uplink' = [uplink EXCEPT ![c] = << >>],
             unacked' \in {unacked, [unacked EXCEPT ![c] = << >>]}
      PROVE  OwnPackets'
  <2>1. \A d \in Clients : uplink'[d] = IF d = c THEN << >> ELSE uplink[d]
    BY <1>a, <1>c, EmptyQueue
  <2>2. \A d \in Clients : unacked'[d] = unacked[d] \/ unacked'[d] = << >>
    BY <1>a, <1>c, EmptyQueue
  <2>3. \A S : << >> \in Seq(S)
    OBVIOUS
  <2>4. QED
    BY <1>a, <2>1, <2>2, <2>3 DEF OwnPackets
<1>1. CASE UNCHANGED vars
  BY <1>1, <1>b DEF vars
<1>2. ASSUME NEW c \in Clients, Constructor(c) PROVE OwnPackets'
  BY <1>2, <1>b DEF Constructor, Connect, ConnectFails, ConnectRaises, GiveUp
<1>3. ASSUME NEW c \in Clients, NetworkThread(c) PROVE OwnPackets'
  <2>1. CASE OnMqttConnect(c)
    <3>1. CASE c = ToRos
      <4>1. ConnectPackets \in Seq(RosPackets) /\ Connection("ONLINE") \in ConnectionPackets
        BY DEF ConnectPackets, RosPackets, ConnectionPackets, Topics, ConnectionStates
      <4>2. unacked[c] \in Seq(RosPackets)
        BY <3>1 DEF OwnPackets, RosPackets
      <4>3. /\ uplink' = [uplink EXCEPT ![c] = uplink[c] \o ConnectPackets \o unacked[c]]
            /\ unacked' = [unacked EXCEPT ![c] = Append(unacked[c], Connection("ONLINE"))]
        BY <2>1, <3>1 DEF OnMqttConnect
      <4>4. /\ uplink[c] \o ConnectPackets \o unacked[c] \in Seq(RosPackets)
            /\ Append(unacked[c], Connection("ONLINE")) \in Seq(ConnectionPackets)
        BY <3>1, <4>1, <4>2 DEF OwnPackets
      <4>5. QED
        BY <1>a, <3>1, <4>3, <4>4 DEF OwnPackets
    <3>2. CASE c = ToMqtt
      <4>1. /\ uplink' = [uplink EXCEPT ![c] = uplink[c] \o << >> \o << >>]
            /\ unacked' = [unacked EXCEPT ![c] = unacked[c]]
        BY <1>a, <2>1, <3>2 DEF OnMqttConnect, OwnPackets
      <4>2. uplink[c] \o << >> \o << >> \in Seq(StatePackets)
        BY <3>2 DEF OwnPackets
      <4>3. QED
        BY <1>a, <3>2, <4>1, <4>2 DEF OwnPackets
    <3>3. QED
      BY <1>3, <3>1, <3>2 DEF Clients
  <2>2. CASE OnMqttMessage \/ Reconnect(c)
    BY <2>2, <1>b DEF OnMqttMessage, Reconnect
  <2>3. CASE OnPubAck(c)
    <3>1. uplink' = uplink
          /\ unacked' = [unacked EXCEPT ![c] = IF @ = << >> THEN @ ELSE Tail(@)]
      BY <2>3 DEF OnPubAck
    <3>2. QED
      BY <1>a, <3>1 DEF OwnPackets
  <2>4. QED
    BY <1>3, <2>1, <2>2, <2>3 DEF NetworkThread
<1>4. ASSUME NEW c \in Clients, Broker(c) PROVE OwnPackets'
  <2>1. CASE BrokerAccepts(c)
    BY <2>1, <1>b DEF BrokerAccepts
  <2>2. CASE BrokerReceives(c)
    <3>1. unacked' = unacked /\ uplink[c] # << >>
          /\ \/ uplink' = [uplink EXCEPT ![c] = << >>]
             \/ uplink' = [uplink EXCEPT ![c] = Tail(uplink[c])]
      BY <2>2 DEF BrokerReceives
    <3>2. CASE uplink' = [uplink EXCEPT ![c] = << >>]
      BY <1>c, <3>1, <3>2
    <3>3. CASE uplink' = [uplink EXCEPT ![c] = Tail(uplink[c])]
      <4>1. \A d \in Clients : uplink'[d] = IF d = c THEN Tail(uplink[c]) ELSE uplink[d]
        BY <1>a, <3>3
      <4>2. CASE c = ToRos
        <5>1. Tail(uplink[ToRos]) \in Seq(RosPackets)
          BY <3>1, <4>2 DEF OwnPackets
        <5>2. QED
          BY <1>a, <3>1, <4>1, <4>2, <5>1 DEF OwnPackets
      <4>3. CASE c = ToMqtt
        <5>1. Tail(uplink[ToMqtt]) \in Seq(StatePackets)
          BY <3>1, <4>3 DEF OwnPackets
        <5>2. QED
          BY <1>a, <3>1, <4>1, <4>3, <5>1 DEF OwnPackets
      <4>4. QED
        BY <4>2, <4>3 DEF Clients
    <3>4. QED
      BY <3>1, <3>2, <3>3
  <2>3. CASE KeepAliveExpires(c)
    <3>1. unacked' = unacked /\ (uplink' = [uplink EXCEPT ![c] = << >>] \/ uplink' = uplink)
      BY <2>3, <1>a DEF KeepAliveExpires
    <3>2. QED
      BY <1>b, <1>c, <3>1
  <2>4. QED
    BY <1>4, <2>1, <2>2, <2>3 DEF Broker
<1>5. ASSUME NEW c \in Clients, Environment(c) PROVE OwnPackets'
  <2>1. CASE Restart(c)
    BY <2>1, <1>b DEF Restart
  <2>2. CASE Break(c) \/ Crash(c)
    BY <2>2, <1>c DEF Break, Crash, CloseLink
  <2>3. QED
    BY <1>5, <2>1, <2>2 DEF Environment
<1>6. CASE Interrupt
  <2>1. <<Connection("OFFLINE"), Disconnect>> \in Seq(RosPackets)
        /\ Connection("OFFLINE") \in ConnectionPackets
    BY DEF RosPackets, ConnectionPackets, ConnectionStates
  <2>2. /\ uplink'[ToRos] \in
             {uplink[ToRos], uplink[ToRos] \o <<Connection("OFFLINE"), Disconnect>>}
        /\ unacked'[ToRos] = Append(unacked[ToRos], Connection("OFFLINE"))
        /\ uplink'[ToMqtt] = uplink[ToMqtt] /\ unacked'[ToMqtt] = unacked[ToMqtt]
    BY <1>a, <1>6 DEF Interrupt
  <2>3. /\ uplink[ToRos] \o <<Connection("OFFLINE"), Disconnect>> \in Seq(RosPackets)
        /\ Append(unacked[ToRos], Connection("OFFLINE")) \in Seq(ConnectionPackets)
    BY <2>1 DEF OwnPackets
  <2>4. QED
    BY <2>2, <2>3 DEF OwnPackets
<1>7. CASE Stopped
  BY <1>7, <1>a, <1>c DEF Stopped
<1>8. CASE RosSubscriberCallback
  <2>1. StateOf(robotState) \in StatePackets
    BY DEF StatePackets, TypeOK
  <2>2. /\ uplink'[ToMqtt] \in {uplink[ToMqtt], Append(uplink[ToMqtt], StateOf(robotState))}
        /\ uplink'[ToRos] = uplink[ToRos] /\ unacked' = unacked
    BY <1>a, <1>8 DEF RosSubscriberCallback
  <2>3. Append(uplink[ToMqtt], StateOf(robotState)) \in Seq(StatePackets)
    BY <2>1 DEF OwnPackets
  <2>4. QED
    BY <2>2, <2>3 DEF OwnPackets
<1>9. CASE RobotChanges \/ \E t \in Topics, p \in Payloads : MasterSends(t, p)
  BY <1>9, <1>b DEF RobotChanges, MasterSends
<1>10. QED
  BY <1>1, <1>2, <1>3, <1>4, <1>5, <1>6, <1>7, <1>8, <1>9 DEF Next

LEMMA OwnCorrect == Spec => []OwnPackets
<1>1. Init => OwnPackets
  BY ClientsApart DEF Init, OwnPackets
<1>2. TypeOK /\ OwnPackets /\ [Next]_vars => OwnPackets'
  BY OwnStep
<1>3. QED
  BY <1>1, <1>2, BridgeTypeCorrect, PTL DEF Spec

-----------------------------------------------------------------------------
(***************************************************************************)
(* The states of the robot.                                                *)
(***************************************************************************)
\* The states under way are newer and newer.
StatesInOrder ==
  LET queue == uplink[ToMqtt] IN
  /\ seenState <= robotState
  /\ \A i \in 1..Len(queue) : seenState <= queue[i].what /\ queue[i].what <= robotState
  /\ \A i, j \in 1..Len(queue) : i < j => queue[i].what <= queue[j].what

\* The broker receives the first packet of a queue.
LEMMA QueueFacts ==
  ASSUME NEW S, NEW s \in Seq(S)
  PROVE  /\ Len(s) \in Nat /\ \A i \in 1..Len(s) : s[i] \in S /\ i \in Nat
         /\ s # << >> =>
              /\ Head(s) \in S /\ Head(s) = s[1] /\ 1 \in 1..Len(s)
              /\ Tail(s) \in Seq(S) /\ Len(Tail(s)) = Len(s) - 1
              /\ \A i \in 1..Len(s) - 1 : i + 1 \in 1..Len(s) /\ Tail(s)[i] = s[i + 1]
<1>1. Len(s) \in Nat /\ \A i \in 1..Len(s) : s[i] \in S /\ i \in Nat
  BY LenProperties, ElementOfSeq
<1>2. CASE s # << >>
  BY <1>1, <1>2, HeadTailProperties, EmptySeq
<1>3. QED
  BY <1>1, <1>2

\* What a step may do to the states under way.
LEMMA StatesStep ==
  ASSUME TypeOK, OwnPackets, [Next]_vars
  PROVE  \/ UNCHANGED <<uplink[ToMqtt], seenState>> /\ robotState' >= robotState
         \/ uplink'[ToMqtt] = << >> /\ UNCHANGED <<seenState, robotState>>
         \/ /\ uplink'[ToMqtt] = Append(uplink[ToMqtt], StateOf(robotState))
            /\ UNCHANGED <<seenState, robotState>>
         \/ /\ uplink[ToMqtt] # << >> /\ uplink'[ToMqtt] = Tail(uplink[ToMqtt])
            /\ seenState' = uplink[ToMqtt][1].what /\ robotState' = robotState
<1>a. /\ uplink \in [Clients -> Seq(UplinkPackets)] /\ unacked[ToMqtt] = << >>
      /\ uplink[ToMqtt] \in Seq(StatePackets) /\ uplink[ToRos] \in Seq(RosPackets)
      /\ ToRos \in Clients /\ ToMqtt \in Clients /\ ToRos # ToMqtt /\ robotState \in Nat
  BY ClientsApart DEF TypeOK, OwnPackets
<1> DEFINE Kept == UNCHANGED <<uplink[ToMqtt], seenState>> /\ robotState' >= robotState
           Lost == uplink'[ToMqtt] = << >> /\ UNCHANGED <<seenState, robotState>>
<1>b. ASSUME UNCHANGED <<uplink, seenState, robotState>> PROVE Kept
  BY <1>a, <1>b
<1>c. ASSUME NEW c \in Clients, uplink' = [uplink EXCEPT ![c] = << >>],
             UNCHANGED <<seenState, robotState>>
      PROVE  Kept \/ Lost
  BY <1>a, <1>c, EmptyQueue
<1>1. CASE UNCHANGED vars
  BY <1>1, <1>b DEF vars
<1>2. ASSUME NEW c \in Clients, Constructor(c) PROVE Kept
  BY <1>2, <1>b DEF Constructor, Connect, ConnectFails, ConnectRaises, GiveUp
<1>3. ASSUME NEW c \in Clients, NetworkThread(c) PROVE Kept
  <2>1. CASE OnMqttConnect(c)
    <3>1. UNCHANGED <<seenState, robotState>>
      BY <2>1 DEF OnMqttConnect
    <3>2. CASE c = ToRos
      <4>1. uplink'[ToMqtt] = uplink[ToMqtt]
        BY <1>a, <2>1, <3>2 DEF OnMqttConnect
      <4>2. QED
        BY <1>a, <3>1, <4>1
    <3>3. CASE c = ToMqtt
      <4>1. uplink'[ToMqtt] = uplink[ToMqtt] \o << >> \o << >>
        BY <1>a, <2>1, <3>3 DEF OnMqttConnect
      <4>2. uplink[ToMqtt] \o << >> \o << >> = uplink[ToMqtt]
        BY <1>a, ConcatEmptySeq
      <4>3. QED
        BY <1>a, <3>1, <4>1, <4>2
    <3>4. QED
      BY <3>2, <3>3 DEF Clients
  <2>2. CASE OnMqttMessage \/ OnPubAck(c) \/ Reconnect(c)
    BY <2>2, <1>b DEF OnMqttMessage, OnPubAck, Reconnect
  <2>3. QED
    BY <1>3, <2>1, <2>2 DEF NetworkThread
<1>4. CASE \E c \in Clients : BrokerAccepts(c)
  BY <1>4, <1>b DEF BrokerAccepts
<1>5. CASE BrokerReceives(ToRos)
  <2>1. Head(uplink[ToRos]) \in RosPackets /\ Head(uplink[ToRos]).type # "STATE"
    BY <1>a, <1>5, QueueFacts, OwnTypes DEF BrokerReceives
  <2>2. seenState' = seenState
    BY <1>5, <2>1 DEF BrokerReceives
  <2>3. uplink'[ToMqtt] = uplink[ToMqtt] /\ robotState' = robotState
    BY <1>a, <1>5 DEF BrokerReceives
  <2>4. QED
    BY <1>a, <2>2, <2>3
<1>6. CASE BrokerReceives(ToMqtt)
  <2>1. /\ uplink[ToMqtt] # << >> /\ Head(uplink[ToMqtt]) = uplink[ToMqtt][1]
        /\ Head(uplink[ToMqtt]).type = "STATE"
    BY <1>a, <1>6, QueueFacts, OwnTypes DEF BrokerReceives
  <2>2. uplink'[ToMqtt] = Tail(uplink[ToMqtt]) /\ robotState' = robotState
    BY <1>a, <1>6, <2>1 DEF BrokerReceives
  <2>3. seenState' = uplink[ToMqtt][1].what
    BY <1>6, <2>1 DEF BrokerReceives
  <2>4. QED
    BY <2>1, <2>2, <2>3
<1>7. ASSUME NEW c \in Clients, KeepAliveExpires(c) PROVE Kept \/ Lost
  <2>1. /\ uplink' = uplink \/ uplink' = [uplink EXCEPT ![c] = << >>]
        /\ UNCHANGED <<seenState, robotState>>
    BY <1>7, <1>a DEF KeepAliveExpires
  <2>2. QED
    BY <1>b, <1>c, <2>1
<1>8. ASSUME NEW c \in Clients, Environment(c) PROVE Kept \/ Lost
  <2>1. CASE Restart(c)
    BY <2>1, <1>b DEF Restart
  <2>2. CASE Break(c) \/ Crash(c)
    BY <2>2, <1>c DEF Break, Crash, CloseLink
  <2>3. QED
    BY <1>8, <2>1, <2>2 DEF Environment
<1>9. CASE Interrupt
  <2>1. uplink'[ToMqtt] = uplink[ToMqtt] /\ UNCHANGED <<seenState, robotState>>
    BY <1>a, <1>9 DEF Interrupt
  <2>2. QED
    BY <1>a, <2>1
<1>10. CASE Stopped
  BY <1>10, <1>a, <1>c DEF Stopped
<1>11. CASE RosSubscriberCallback
  <2>1. /\ uplink'[ToMqtt] \in {uplink[ToMqtt], Append(uplink[ToMqtt], StateOf(robotState))}
        /\ UNCHANGED <<seenState, robotState>>
    BY <1>a, <1>11 DEF RosSubscriberCallback
  <2>2. QED
    BY <1>a, <2>1
<1>12. CASE RobotChanges
  BY <1>a, <1>12 DEF RobotChanges
<1>13. CASE \E t \in Topics, p \in Payloads : MasterSends(t, p)
  BY <1>13, <1>b DEF MasterSends
<1>14. QED
  BY <1>1, <1>2, <1>3, <1>4, <1>5, <1>6, <1>7, <1>8, <1>9, <1>10, <1>11, <1>12, <1>13
     DEF Next, Broker, Clients

LEMMA StatesInOrderStep ==
  ASSUME TypeOK, TypeOK', OwnPackets, StatesInOrder, [Next]_vars
  PROVE  StatesInOrder' /\ seenState' >= seenState
<1> DEFINE queue == uplink[ToMqtt]
<1>a. /\ seenState \in Nat /\ robotState \in Nat /\ robotState' \in Nat
      /\ queue \in Seq(StatePackets) /\ Len(queue) \in Nat
      /\ \A i \in 1..Len(queue) : queue[i].what \in Nat /\ i \in Nat
  <2>1. seenState \in Nat /\ robotState \in Nat /\ robotState' \in Nat
    BY BridgeAssumption DEF TypeOK
  <2>2. queue \in Seq(StatePackets) /\ Len(queue) \in Nat
    BY DEF OwnPackets
  <2>3. \A i \in 1..Len(queue) : queue[i] \in StatePackets /\ i \in Nat
    BY <2>2
  <2>4. \A m \in StatePackets : m.what \in Nat
    BY OwnTypes, BridgeAssumption
  <2>5. QED
    BY <2>1, <2>2, <2>3, <2>4
<1>b. /\ seenState <= robotState
      /\ \A i \in 1..Len(queue) : seenState <= queue[i].what /\ queue[i].what <= robotState
      /\ \A i, j \in 1..Len(queue) : i < j => queue[i].what <= queue[j].what
  BY DEF StatesInOrder
<1> HIDE DEF queue
<1>1. CASE UNCHANGED <<uplink[ToMqtt], seenState>> /\ robotState' >= robotState
  BY <1>1, <1>a, <1>b DEF StatesInOrder, queue
<1>2. CASE uplink'[ToMqtt] = << >> /\ UNCHANGED <<seenState, robotState>>
  BY <1>2, <1>a, <1>b DEF StatesInOrder
<1>3. CASE /\ uplink'[ToMqtt] = Append(queue, StateOf(robotState))
           /\ UNCHANGED <<seenState, robotState>>
  <2>1. /\ Len(Append(queue, StateOf(robotState))) = Len(queue) + 1
        /\ \A i \in 1..Len(queue) : Append(queue, StateOf(robotState))[i] = queue[i]
        /\ Append(queue, StateOf(robotState))[Len(queue) + 1].what = robotState
    BY <1>a, AppendProperties DEF StateOf
  <2>2. \A i \in 1..Len(queue) + 1 : i \in 1..Len(queue) \/ i = Len(queue) + 1
    BY <1>a
  <2>3. QED
    BY <1>3, <1>a, <1>b, <2>1, <2>2 DEF StatesInOrder
<1>4. CASE /\ queue # << >> /\ uplink'[ToMqtt] = Tail(queue)
           /\ seenState' = queue[1].what /\ robotState' = robotState
  <2>1. /\ 1 \in 1..Len(queue) /\ Len(Tail(queue)) = Len(queue) - 1
        /\ \A i \in 1..Len(queue) - 1 : i + 1 \in 1..Len(queue) /\ Tail(queue)[i] = queue[i + 1]
    BY <1>4, <1>a, QueueFacts
  <2>2. QED
    BY <1>4, <1>a, <1>b, <2>1 DEF StatesInOrder
<1>5. QED
  BY <1>1, <1>2, <1>3, <1>4, <1>a, StatesStep DEF queue

\* The theorem of StateNeverGoesBack (__ros_subscriber_callback): the master
\* control is told the states of the robot in the order the robot reached
\* them, whatever connections break and whatever messages are lost.
THEOREM StatesCorrect == Spec => StateNeverGoesBack
<1>1. Init => StatesInOrder
  BY DEF Init, StatesInOrder, Clients
<1>2. TypeOK /\ TypeOK' /\ OwnPackets /\ StatesInOrder /\ [Next]_vars
        => StatesInOrder' /\ seenState' >= seenState
  BY StatesInOrderStep
<1>3. TypeOK /\ UNCHANGED vars => seenState' >= seenState
  BY DEF TypeOK, vars, brokerVars
<1>4. Spec => [](TypeOK /\ OwnPackets)
  BY BridgeTypeCorrect, OwnCorrect, PTL
<1>5. TypeOK /\ TypeOK' /\ OwnPackets /\ StatesInOrder /\ [Next]_vars
        => [seenState' >= seenState]_vars
  BY <1>2
<1>6. QED
  BY <1>1, <1>2, <1>4, <1>5, PTL DEF Spec, StateNeverGoesBack

-----------------------------------------------------------------------------
(***************************************************************************)
(* The connection message.                                                 *)
(***************************************************************************)
\* A process without a network thread has no connection, and a client without
\* a connection has nothing under way.
Links ==
  \A c \in Clients :
    /\ phase[c] \in {"connecting", "gone", "absent"} => link[c] = "down"
    /\ link[c] = "down" => uplink[c] = << >>

\* A step of one client leaves the links of the other alone.
LEMMA LinksOfOne ==
  ASSUME TypeOK, Links, NEW c \in Clients,
         \A d \in Clients \ {c} : UNCHANGED <<phase[d], link[d], uplink[d]>>,
         phase'[c] \in {"connecting", "gone", "absent"} => link'[c] = "down",
         link'[c] = "down" => uplink'[c] = << >>
  PROVE  Links'
BY DEF Links

LEMMA LinksStep ==
  ASSUME TypeOK, Links, [Next]_vars
  PROVE  Links'
<1>a. /\ phase \in [Clients -> {"connecting", "spinning", "stopping", "gone", "absent"}]
      /\ link \in [Clients -> {"down", "opened", "acked", "up"}]
      /\ uplink \in [Clients -> Seq(UplinkPackets)]
      /\ ToRos \in Clients /\ ToMqtt \in Clients /\ ToRos # ToMqtt
  BY ClientsApart DEF TypeOK
<1>b. ASSUME UNCHANGED <<phase, link, uplink>> PROVE Links'
  BY <1>b DEF Links
<1>1. CASE UNCHANGED vars
  BY <1>1, <1>b DEF vars
<1>2. ASSUME NEW c \in Clients, Constructor(c) PROVE Links'
  <2>1. uplink' = uplink /\ phase[c] = "connecting" /\ link[c] = "down" /\ uplink[c] = << >>
    BY <1>2 DEF Constructor, Connect, ConnectFails, ConnectRaises, GiveUp, Links
  <2>2. CASE Connect(c)
    BY <1>a, <2>1, <2>2, LinksOfOne DEF Connect
  <2>3. CASE ConnectFails(c)
    BY <1>b, <2>3 DEF ConnectFails
  <2>4. CASE ConnectRaises(c) \/ GiveUp(c)
    BY <1>a, <2>1, <2>4, LinksOfOne DEF ConnectRaises, GiveUp
  <2>5. QED
    BY <1>2, <2>2, <2>3, <2>4 DEF Constructor
<1>3. ASSUME NEW c \in Clients, NetworkThread(c) PROVE Links'
  <2>1. CASE OnMqttConnect(c)
    <3>1. /\ phase' = phase /\ link[c] = "acked" /\ link'[c] = "up"
          /\ \A d \in Clients \ {c} : UNCHANGED <<link[d], uplink[d]>>
      BY <1>a, <2>1 DEF OnMqttConnect
    <3>2. phase[c] \notin {"connecting", "gone", "absent"}
      BY <3>1 DEF Links
    <3>3. QED
      BY <3>1, <3>2, LinksOfOne
  <2>2. CASE Reconnect(c)
    BY <1>a, <2>2, LinksOfOne DEF Reconnect
  <2>3. CASE OnMqttMessage \/ OnPubAck(c)
    BY <1>b, <2>3 DEF OnMqttMessage, OnPubAck
  <2>4. QED
    BY <1>3, <2>1, <2>2, <2>3 DEF NetworkThread
<1>4. ASSUME NEW c \in Clients, BrokerAccepts(c) PROVE Links'
  <2>1. /\ UNCHANGED <<phase, uplink>> /\ link[c] = "opened" /\ link'[c] = "acked"
        /\ \A d \in Clients \ {c} : link'[d] = link[d]
    BY <1>a, <1>4 DEF BrokerAccepts
  <2>2. phase[c] \notin {"connecting", "gone", "absent"}
    BY <2>1 DEF Links
  <2>3. QED
    BY <2>1, <2>2, LinksOfOne
<1>5. ASSUME NEW c \in Clients, BrokerReceives(c) PROVE Links'
  <2>1. /\ phase' = phase /\ link[c] # "down"
        /\ link'[c] = link[c] \/ (link'[c] = "down" /\ uplink'[c] = << >>)
        /\ \A d \in Clients \ {c} : UNCHANGED <<link[d], uplink[d]>>
    BY <1>a, <1>5, EmptyQueue DEF BrokerReceives
  <2>2. phase[c] \notin {"connecting", "gone", "absent"}
    BY <2>1 DEF Links
  <2>3. QED
    BY <2>1, <2>2, LinksOfOne
<1>6. ASSUME NEW c \in Clients, KeepAliveExpires(c) PROVE Links'
  <2>1. CASE session[c] = "orphan"
    BY <1>a, <1>b, <1>6, <2>1 DEF KeepAliveExpires
  <2>2. CASE session[c] # "orphan"
    <3>1. /\ phase' = phase /\ link'[c] = "down" /\ uplink'[c] = << >>
          /\ \A d \in Clients \ {c} : UNCHANGED <<link[d], uplink[d]>>
      BY <1>a, <1>6, <2>2, EmptyQueue DEF KeepAliveExpires
    <3>2. QED
      BY <3>1, LinksOfOne
  <2>3. QED
    BY <2>1, <2>2
<1>7. ASSUME NEW c \in Clients, Environment(c) PROVE Links'
  <2>1. CASE Restart(c)
    <3>1. phase[c] = "gone" /\ link[c] = "down" /\ uplink[c] = << >>
      BY <2>1 DEF Restart, Links
    <3>2. QED
      BY <1>a, <2>1, <3>1, LinksOfOne DEF Restart
  <2>2. CASE Break(c) \/ Crash(c)
    <3>1. /\ link'[c] = "down" /\ uplink'[c] = << >>
          /\ \A d \in Clients \ {c} : UNCHANGED <<phase[d], link[d], uplink[d]>>
      BY <1>a, <2>2, EmptyQueue DEF Break, Crash, CloseLink
    <3>2. QED
      BY <3>1, LinksOfOne
  <2>3. QED
    BY <1>7, <2>1, <2>2 DEF Environment
<1>8. CASE Interrupt
  <2>1. /\ link' = link /\ phase'[ToRos] = "stopping"
        /\ link[ToRos] = "down" => uplink'[ToRos] = uplink[ToRos]
        /\ \A d \in Clients \ {ToRos} : UNCHANGED <<phase[d], uplink[d]>>
    BY <1>a, <1>8 DEF Interrupt
  <2>2. link[ToRos] = "down" => uplink[ToRos] = << >>
    BY <1>a DEF Links
  <2>3. QED
    BY <1>a, <2>1, <2>2, LinksOfOne
<1>9. CASE Stopped
  <2>1. /\ link'[ToRos] = "down" /\ uplink'[ToRos] = << >>
        /\ \A d \in Clients \ {ToRos} : UNCHANGED <<phase[d], link[d], uplink[d]>>
    BY <1>a, <1>9, EmptyQueue DEF Stopped
  <2>2. QED
    BY <1>a, <2>1, LinksOfOne
<1>10. CASE RosSubscriberCallback
  <2>1. /\ UNCHANGED <<phase, link>>
        /\ link[ToMqtt] = "down" => uplink'[ToMqtt] = uplink[ToMqtt]
        /\ \A d \in Clients \ {ToMqtt} : uplink'[d] = uplink[d]
    BY <1>a, <1>10 DEF RosSubscriberCallback
  <2>2. /\ link[ToMqtt] = "down" => uplink[ToMqtt] = << >>
        /\ phase[ToMqtt] \in {"connecting", "gone", "absent"} => link[ToMqtt] = "down"
    BY <1>a DEF Links
  <2>3. QED
    BY <1>a, <2>1, <2>2, LinksOfOne
<1>11. CASE RobotChanges \/ \E t \in Topics, p \in Payloads : MasterSends(t, p)
  BY <1>11, <1>b DEF RobotChanges, MasterSends
<1>12. QED
  BY <1>1, <1>2, <1>3, <1>4, <1>5, <1>6, <1>7, <1>8, <1>9, <1>10, <1>11 DEF Next, Broker

LEMMA LinksCorrect == Spec => []Links
<1>1. Init => Links
  BY DEF Init, Links
<1>2. TypeOK /\ Links /\ [Next]_vars => Links'
  BY LinksStep
<1>3. QED
  BY <1>1, <1>2, BridgeTypeCorrect, PTL DEF Spec

\* What follows the DISCONNECT of disconnect() and precedes it.
Farewell ==
  LET queue == uplink[ToRos] IN
  \A i \in 1..Len(queue) :
    queue[i] = Disconnect =>
      IF i = 1 THEN retained # "ONLINE" ELSE queue[i - 1] = Connection("OFFLINE")

\* An ONLINE on its way is behind the subscriptions of its connection, and
\* the broker has accepted that connection.
Welcome ==
  LET queue == uplink[ToRos] IN
  \A i \in 1..Len(queue) :
    queue[i] = Connection("ONLINE") =>
      /\ link[ToRos] # "opened"
      /\ \A t \in Topics : t \in subscribed \/ \E j \in 1..i - 1 : queue[j] = Subscribe(t)

\* The kinds of steps as MqttToRosNode and its session see them.
Aside ==
  /\ UNCHANGED <<uplink[ToRos], session[ToRos], subscribed, retained>>
  /\ link'[ToRos] = link[ToRos] \/ uplink[ToRos] = << >>

CutOff ==
  /\ uplink'[ToRos] = << >>
  /\ session'[ToRos] # "live"
  /\ \/ retained' = "CONNECTIONBROKEN"
     \/ retained' = retained /\ (session'[ToRos] = "none" => session[ToRos] = "none")

Forgotten ==
  /\ UNCHANGED <<uplink[ToRos], link[ToRos], subscribed>>
  /\ session'[ToRos] = "none" /\ retained' = "CONNECTIONBROKEN"

Accepted ==
  /\ link[ToRos] = "opened" /\ link'[ToRos] # "opened"
  /\ uplink'[ToRos] = uplink[ToRos] /\ session'[ToRos] = "live"
  /\ IF session[ToRos] = "none" THEN retained' = retained ELSE retained' = "CONNECTIONBROKEN"

Greets ==
  /\ link'[ToRos] # "opened"
  /\ uplink'[ToRos] = (uplink[ToRos] \o ConnectPackets) \o unacked[ToRos]
  /\ UNCHANGED <<session[ToRos], subscribed, retained>>

Parts ==
  /\ uplink'[ToRos] = uplink[ToRos] \o <<Connection("OFFLINE"), Disconnect>>
  /\ UNCHANGED <<link[ToRos], session[ToRos], subscribed, retained>>

Hangs ==
  /\ uplink[ToRos] # << >> /\ uplink[ToRos][1] = Disconnect
  /\ uplink'[ToRos] = << >> /\ session'[ToRos] = "none" /\ retained' = retained

Delivers ==
  /\ uplink[ToRos] # << >> /\ uplink'[ToRos] = Tail(uplink[ToRos])
  /\ session'[ToRos] = "live" /\ session[ToRos] = "live" /\ link'[ToRos] = link[ToRos]
  /\ \/ \E t \in Topics : /\ uplink[ToRos][1] = Subscribe(t)
                          /\ subscribed' = subscribed \cup {t} /\ retained' = retained
     \/ \E s \in ConnectionStates : /\ uplink[ToRos][1] = Connection(s)
                                    /\ subscribed' = subscribed /\ retained' = s

\* Every step is of one of these kinds.
LEMMA KindsOfSteps ==
  ASSUME TypeOK, OwnPackets, Links, [Next]_vars
  PROVE  Aside \/ CutOff \/ Forgotten \/ Accepted \/ Greets \/ Parts \/ Hangs \/ Delivers
<1>a. /\ link \in [Clients -> {"down", "opened", "acked", "up"}]
      /\ uplink \in [Clients -> Seq(UplinkPackets)]
      /\ session \in [Clients -> {"none", "live", "orphan"}]
      /\ uplink[ToRos] \in Seq(RosPackets) /\ uplink[ToMqtt] \in Seq(StatePackets)
      /\ ToRos \in Clients /\ ToMqtt \in Clients /\ ToRos # ToMqtt
  BY ClientsApart DEF TypeOK, OwnPackets
<1>b. ASSUME UNCHANGED <<link, uplink, session, subscribed, retained>> PROVE Aside
  BY <1>b DEF Aside
<1>1. CASE UNCHANGED vars
  BY <1>1, <1>b DEF vars
<1>2. ASSUME NEW c \in Clients, Constructor(c) PROVE Aside
  <2>1. UNCHANGED <<uplink, session, subscribed, retained>> /\ uplink[c] = << >>
    BY <1>2 DEF Constructor, Connect, ConnectFails, ConnectRaises, GiveUp, Links
  <2>2. link' = link \/ link' = [link EXCEPT ![c] = "opened"]
    BY <1>2 DEF Constructor, Connect, ConnectFails, ConnectRaises, GiveUp
  <2>3. QED
    BY <1>a, <2>1, <2>2 DEF Aside
<1>3. ASSUME NEW c \in Clients, NetworkThread(c) PROVE Aside \/ Greets
  <2>1. CASE OnMqttConnect(c)
    <3>1. UNCHANGED <<session, subscribed, retained>>
      BY <2>1 DEF OnMqttConnect
    <3>2. CASE c = ToRos
      <4>1. /\ link'[ToRos] = "up"
            /\ uplink'[ToRos] = (uplink[ToRos] \o ConnectPackets) \o unacked[ToRos]
        BY <1>a, <2>1, <3>2 DEF OnMqttConnect
      <4>2. QED
        BY <3>1, <4>1 DEF Greets
    <3>3. CASE c = ToMqtt
      <4>1. link'[ToRos] = link[ToRos] /\ uplink'[ToRos] = uplink[ToRos]
        BY <1>a, <2>1, <3>3 DEF OnMqttConnect
      <4>2. QED
        BY <3>1, <4>1 DEF Aside
    <3>4. QED
      BY <3>2, <3>3 DEF Clients
  <2>2. CASE Reconnect(c)
    BY <1>a, <2>2 DEF Reconnect, Aside, Links
  <2>3. CASE OnMqttMessage \/ OnPubAck(c)
    BY <1>b, <2>3 DEF OnMqttMessage, OnPubAck
  <2>4. QED
    BY <1>3, <2>1, <2>2, <2>3 DEF NetworkThread
<1>4. ASSUME NEW c \in Clients, BrokerAccepts(c) PROVE Aside \/ Accepted
  <2>1. CASE c = ToRos
    BY <1>a, <1>4, <2>1 DEF BrokerAccepts, PublishWill, Accepted
  <2>2. CASE c # ToRos
    BY <1>a, <1>4, <2>2 DEF BrokerAccepts, PublishWill, Aside
  <2>3. QED
    BY <2>1, <2>2
<1>5. CASE BrokerReceives(ToMqtt)
  <2>1. uplink[ToMqtt] # << >> /\ Head(uplink[ToMqtt]).type = "STATE"
    BY <1>a, <1>5, QueueFacts, OwnTypes DEF BrokerReceives
  <2>2. QED
    BY <1>a, <1>5, <2>1 DEF BrokerReceives, Aside
<1>6. CASE BrokerReceives(ToRos)
  <2> DEFINE m == Head(uplink[ToRos])
  <2>1. m \in RosPackets /\ m = uplink[ToRos][1] /\ uplink[ToRos] # << >>
    BY <1>a, <1>6, QueueFacts DEF BrokerReceives
  <2>2. CASE m = Disconnect
    <3>1. uplink'[ToRos] = << >> /\ session'[ToRos] = "none" /\ retained' = retained
      BY <1>a, <1>6, <2>2 DEF BrokerReceives, Disconnect
    <3>2. QED
      BY <2>1, <2>2, <3>1 DEF Hangs
  <2>3. ASSUME NEW t \in Topics, m = Subscribe(t) PROVE Delivers
    <3>1. m.type = "SUBSCRIBE" /\ m.what = t
      BY <2>3 DEF Subscribe
    <3> HIDE DEF m
    <3>2. /\ uplink'[ToRos] = Tail(uplink[ToRos]) /\ link'[ToRos] = link[ToRos]
          /\ session[ToRos] = "live" /\ session'[ToRos] = "live"
          /\ subscribed' = subscribed \cup {t} /\ retained' = retained
      BY <1>a, <1>6, <3>1 DEF BrokerReceives, m
    <3>3. QED
      BY <2>1, <2>3, <3>2 DEF Delivers
  <2>4. ASSUME NEW s \in ConnectionStates, m = Connection(s) PROVE Delivers
    <3>1. m.type = "CONNECTION" /\ m.what = s
      BY <2>4 DEF Connection
    <3> HIDE DEF m
    <3>2. /\ uplink'[ToRos] = Tail(uplink[ToRos]) /\ link'[ToRos] = link[ToRos]
          /\ session[ToRos] = "live" /\ session'[ToRos] = "live"
          /\ subscribed' = subscribed /\ retained' = s
      BY <1>a, <1>6, <3>1 DEF BrokerReceives, m
    <3>3. QED
      BY <2>1, <2>4, <3>2 DEF Delivers
  <2>5. m = Disconnect \/ (\E t \in Topics : m = Subscribe(t))
          \/ (\E s \in ConnectionStates : m = Connection(s))
    BY <2>1 DEF RosPackets, ConnectionPackets
  <2> HIDE DEF m
  <2>6. CASE \E t \in Topics : m = Subscribe(t)
    BY <2>3, <2>6
  <2>7. CASE \E s \in ConnectionStates : m = Connection(s)
    BY <2>4, <2>7
  <2>8. QED
    BY <2>2, <2>5, <2>6, <2>7
<1>7. ASSUME NEW c \in Clients, KeepAliveExpires(c) PROVE Aside \/ CutOff \/ Forgotten
  <2>1. CASE c # ToRos
    BY <1>a, <1>7, <2>1 DEF KeepAliveExpires, PublishWill, Aside
  <2>2. CASE c = ToRos /\ session[ToRos] = "orphan"
    BY <1>a, <1>7, <2>2 DEF KeepAliveExpires, PublishWill, Forgotten
  <2>3. CASE c = ToRos /\ session[ToRos] # "orphan"
    BY <1>a, <1>7, <2>3, EmptyQueue DEF KeepAliveExpires, PublishWill, CutOff
  <2>4. QED
    BY <2>1, <2>2, <2>3
<1>8. ASSUME NEW c \in Clients, Environment(c) PROVE Aside \/ CutOff
  <2>1. CASE Restart(c)
    BY <2>1, <1>b DEF Restart
  <2>2. CASE Break(c) \/ Crash(c)
    <3>1. retained' = retained /\ subscribed' = subscribed
          /\ \A d \in Clients :
               IF d = c THEN /\ uplink'[d] = << >> 
                             /\ session'[d] = IF session[d] = "live" THEN "orphan" ELSE session[d]
                        ELSE UNCHANGED <<link[d], uplink[d], session[d]>>
      BY <1>a, <2>2, EmptyQueue DEF Break, Crash, CloseLink
    <3>2. QED
      BY <1>a, <3>1 DEF Aside, CutOff
  <2>3. QED
    BY <1>8, <2>1, <2>2 DEF Environment
<1>9. CASE Interrupt
  <2>1. UNCHANGED <<link, session, subscribed, retained>>
    BY <1>9 DEF Interrupt
  <2>2. \/ uplink'[ToRos] = uplink[ToRos]
        \/ uplink'[ToRos] = uplink[ToRos] \o <<Connection("OFFLINE"), Disconnect>>
    BY <1>a, <1>9 DEF Interrupt
  <2>3. QED
    BY <2>1, <2>2 DEF Aside, Parts
<1>10. CASE Stopped
  <2>1. retained' = retained /\ uplink'[ToRos] = << >>
        /\ session'[ToRos] = IF session[ToRos] = "live" THEN "orphan" ELSE session[ToRos]
    BY <1>a, <1>10, EmptyQueue DEF Stopped
  <2>2. QED
    BY <2>1 DEF CutOff
<1>11. CASE RosSubscriberCallback
  BY <1>a, <1>11 DEF RosSubscriberCallback, Aside
<1>12. CASE RobotChanges
  BY <1>12, <1>b DEF RobotChanges
<1>13. CASE \E t \in Topics, p \in Payloads : MasterSends(t, p)
  BY <1>13, <1>b DEF MasterSends
<1>14. QED
  BY <1>1, <1>2, <1>3, <1>4, <1>5, <1>6, <1>7, <1>8, <1>9, <1>10, <1>11, <1>12, <1>13
     DEF Next, Broker, Clients

\* The packets of MqttToRosNode apart from each other.
LEMMA PacketsApart ==
  /\ Disconnect # Connection("ONLINE") /\ Connection("OFFLINE") # Connection("ONLINE")
  /\ \A t \in Topics : Subscribe(t) # Disconnect /\ Subscribe(t) # Connection("ONLINE")
  /\ \A s \in ConnectionStates :
       Connection(s) # Disconnect /\ (Connection(s) = Connection("ONLINE") => s = "ONLINE")
BY DEF Disconnect, Connection, Subscribe

\* s is a with b behind it.
Joined(a, b, s) ==
  /\ Len(a) \in Nat /\ Len(b) \in Nat /\ Len(s) = Len(a) + Len(b)
  /\ \A i \in 1..Len(a) : s[i] = a[i]
  /\ \A j \in 1..Len(b) : s[Len(a) + j] = b[j]

LEMMA JoinedConcat ==
  ASSUME NEW S, NEW a \in Seq(S), NEW b \in Seq(S)
  PROVE  a \o b \in Seq(S) /\ Joined(a, b, a \o b)
<1>1. /\ a \o b \in Seq(S) /\ Len(a) \in Nat /\ Len(b) \in Nat
      /\ Len(a \o b) = Len(a) + Len(b)
  BY ConcatProperties, LenProperties
<1>2. \A i \in 1..Len(a) + Len(b) :
        (a \o b)[i] = IF i <= Len(a) THEN a[i] ELSE b[i - Len(a)]
  BY ConcatProperties
<1>3. ASSUME NEW j \in 1..Len(b)
      PROVE  Len(a) + j \in 1..Len(a) + Len(b) /\ (a \o b)[Len(a) + j] = b[j]
  <2>1. /\ Len(a) + j \in 1..Len(a) + Len(b) /\ ~(Len(a) + j <= Len(a))
        /\ (Len(a) + j) - Len(a) = j
    BY <1>1, <1>3
  <2>2. (a \o b)[Len(a) + j] = b[(Len(a) + j) - Len(a)]
    BY <1>2, <2>1
  <2>3. QED
    BY <2>1, <2>2
<1>4. \A i \in 1..Len(a) : i \in 1..Len(a) + Len(b) /\ (a \o b)[i] = a[i]
  BY <1>1, <1>2
<1>5. QED
  BY <1>1, <1>3, <1>4 DEF Joined

\* The packets that on_mqtt_connect puts behind those already under way.
LEMMA GreetingPackets ==
  ASSUME OwnPackets, Greets
  PROVE  LET old == uplink[ToRos]
             new == uplink'[ToRos]
         IN  /\ Len(old) \in Nat /\ Len(new) \in Nat /\ Len(old) + 3 <= Len(new)
             /\ \A i \in 1..Len(old) : new[i] = old[i]
             /\ new[Len(old) + 1] = Subscribe("order")
             /\ new[Len(old) + 2] = Subscribe("instantActions")
             /\ \A i \in 1..Len(new) : i > Len(old) => new[i] # Disconnect
<1> DEFINE old == uplink[ToRos]
           new == uplink'[ToRos]
           more == unacked[ToRos]
<1>1. /\ old \in Seq(RosPackets) /\ more \in Seq(ConnectionPackets)
      /\ ConnectPackets \in Seq(RosPackets) /\ Len(ConnectPackets) = 3
      /\ ConnectPackets[1] = Subscribe("order")
      /\ ConnectPackets[2] = Subscribe("instantActions")
      /\ ConnectPackets[3] = Connection("ONLINE")
  BY DEF OwnPackets, ConnectPackets, RosPackets, ConnectionPackets, Topics, ConnectionStates
<1>2. more \in Seq(RosPackets)
  BY <1>1 DEF RosPackets
<1>3. new = (old \o ConnectPackets) \o more
  BY DEF Greets
<1> HIDE DEF old, new, more
<1>4. old \o ConnectPackets \in Seq(RosPackets)
      /\ Joined(old, ConnectPackets, old \o ConnectPackets)
  BY <1>1, JoinedConcat
<1>5. Joined(old \o ConnectPackets, more, new)
  BY <1>2, <1>3, <1>4, JoinedConcat
<1>a. /\ Len(old) \in Nat /\ Len(old \o ConnectPackets) = Len(old) + 3
      /\ \A i \in 1..Len(old) : (old \o ConnectPackets)[i] = old[i]
      /\ \A j \in 1..3 : (old \o ConnectPackets)[Len(old) + j] = ConnectPackets[j]
  BY <1>1, <1>4 DEF Joined
<1>b. /\ Len(more) \in Nat /\ Len(new) = Len(old) + 3 + Len(more)
      /\ \A i \in 1..Len(old) + 3 : new[i] = (old \o ConnectPackets)[i]
      /\ \A j \in 1..Len(more) : new[(Len(old) + 3) + j] = more[j]
  BY <1>5, <1>a DEF Joined
<1>6. \A i \in 1..Len(old) : new[i] = old[i]
  BY <1>a, <1>b
<1>7. \A j \in 1..3 : new[Len(old) + j] = ConnectPackets[j]
  BY <1>a, <1>b
<1>8. ASSUME NEW i \in 1..Len(new), i > Len(old) PROVE new[i] # Disconnect
  <2>1. CASE i <= Len(old) + 3
    <3>1. i = Len(old) + 1 \/ i = Len(old) + 2 \/ i = Len(old) + 3
      BY <1>a, <1>8, <2>1
    <3>2. new[i] \in {Subscribe("order"), Subscribe("instantActions"), Connection("ONLINE")}
      BY <1>1, <1>7, <3>1
    <3>3. QED
      BY <3>2, PacketsApart DEF Topics
  <2>2. CASE i > Len(old) + 3
    <3> DEFINE j == i - (Len(old) + 3)
    <3>1. j \in 1..Len(more) /\ i = (Len(old) + 3) + j
      BY <1>a, <1>b, <1>8, <2>2
    <3>2. new[i] = more[j] /\ more[j] \in ConnectionPackets
      BY <1>1, <1>b, <3>1, ElementOfSeq
    <3>3. QED
      BY <3>2, PacketsApart DEF ConnectionPackets
  <2>3. QED
    BY <1>a, <1>b, <1>8, <2>1, <2>2
<1>9. /\ Len(new) \in Nat /\ Len(old) + 3 <= Len(new)
      /\ new[Len(old) + 1] = Subscribe("order")
      /\ new[Len(old) + 2] = Subscribe("instantActions")
  BY <1>1, <1>a, <1>b, <1>7
<1>10. QED
  BY <1>a, <1>6, <1>8, <1>9 DEF old, new

\* The packets that disconnect() puts behind those already under way.
LEMMA PartingPackets ==
  ASSUME OwnPackets, Parts
  PROVE  LET old == uplink[ToRos]
             new == uplink'[ToRos]
         IN  /\ Len(old) \in Nat /\ Len(new) = Len(old) + 2
             /\ \A i \in 1..Len(old) : new[i] = old[i]
             /\ new[Len(old) + 1] = Connection("OFFLINE")
             /\ new[Len(old) + 2] = Disconnect
<1> DEFINE old == uplink[ToRos]
           more == <<Connection("OFFLINE"), Disconnect>>
<1>1. /\ old \in Seq(RosPackets) /\ more \in Seq(RosPackets) /\ Len(more) = 2
      /\ more[1] = Connection("OFFLINE") /\ more[2] = Disconnect
  BY DEF OwnPackets, RosPackets, ConnectionPackets, ConnectionStates
<1>2. uplink'[ToRos] = old \o more
  BY DEF Parts
<1> HIDE DEF old, more
<1>3. Joined(old, more, old \o more)
  BY <1>1, JoinedConcat
<1>4. QED
  BY <1>1, <1>2, <1>3 DEF old, Joined

\* The packets behind the one the broker takes.
LEMMA DeliveredPackets ==
  ASSUME OwnPackets, Delivers
  PROVE  LET old == uplink[ToRos]
             new == uplink'[ToRos]
         IN  /\ Len(old) \in Nat /\ Len(new) = Len(old) - 1 /\ 1 \in 1..Len(old)
             /\ \A i \in 1..Len(new) : i + 1 \in 1..Len(old) /\ new[i] = old[i + 1]
<1>1. uplink[ToRos] \in Seq(RosPackets)
  BY DEF OwnPackets
<1>2. QED
  BY <1>1, QueueFacts DEF Delivers

\* What a connection message promises, and what has to be under way for it.
Promise == Farewell /\ Welcome /\ OnlineMeansSession /\ OnlineMeansSubscribed

LEMMA PromiseGreets ==
  ASSUME TypeOK, OwnPackets, Promise, Greets
  PROVE  Promise'
<1> DEFINE old == uplink[ToRos]
           new == uplink'[ToRos]
<1>1. /\ Len(old) \in Nat /\ Len(new) \in Nat /\ Len(old) + 3 <= Len(new)
      /\ \A i \in 1..Len(old) : new[i] = old[i]
      /\ new[Len(old) + 1] = Subscribe("order")
      /\ new[Len(old) + 2] = Subscribe("instantActions")
      /\ \A i \in 1..Len(new) : i > Len(old) => new[i] # Disconnect
  BY GreetingPackets
<1>2. /\ link'[ToRos] # "opened"
      /\ UNCHANGED <<session[ToRos], subscribed, retained>>
  BY DEF Greets
<1>3. /\ \A i \in 1..Len(old) : old[i] = Disconnect =>
           IF i = 1 THEN retained # "ONLINE" ELSE old[i - 1] = Connection("OFFLINE")
      /\ \A i \in 1..Len(old) : old[i] = Connection("ONLINE") =>
           \A t \in Topics : t \in subscribed \/ \E j \in 1..i - 1 : old[j] = Subscribe(t)
  BY DEF Promise, Farewell, Welcome
<1> HIDE DEF old, new
<1>4. ASSUME NEW i \in 1..Len(new), new[i] = Disconnect
      PROVE  IF i = 1 THEN retained # "ONLINE" ELSE new[i - 1] = Connection("OFFLINE")
  <2>1. i \in 1..Len(old) /\ (i # 1 => i - 1 \in 1..Len(old))
    BY <1>1, <1>4
  <2>2. QED
    BY <1>1, <1>3, <1>4, <2>1
<1>5. ASSUME NEW i \in 1..Len(new), new[i] = Connection("ONLINE"), NEW t \in Topics
      PROVE  t \in subscribed \/ \E j \in 1..i - 1 : new[j] = Subscribe(t)
  <2>1. CASE i \in 1..Len(old)
    <3>1. ASSUME NEW j \in 1..i - 1, old[j] = Subscribe(t) PROVE new[j] = Subscribe(t)
      <4>1. j \in 1..Len(old)
        BY <1>1, <2>1, <3>1
      <4>2. QED
        BY <1>1, <3>1, <4>1
    <3>2. t \in subscribed \/ \E j \in 1..i - 1 : old[j] = Subscribe(t)
      BY <1>1, <1>3, <1>5, <2>1
    <3>3. QED
      BY <3>1, <3>2
  <2>2. CASE i \notin 1..Len(old)
    <3>1. i # Len(old) + 1 /\ i # Len(old) + 2
      BY <1>1, <1>5, PacketsApart DEF Topics
    <3>2. Len(old) + 1 \in 1..i - 1 /\ Len(old) + 2 \in 1..i - 1
      BY <1>1, <2>2, <3>1
    <3>3. QED
      BY <1>1, <3>2 DEF Topics
  <2>3. QED
    BY <2>1, <2>2
<1>6. Farewell' /\ Welcome'
  BY <1>2, <1>4, <1>5 DEF Farewell, Welcome, new
<1>7. OnlineMeansSession' /\ OnlineMeansSubscribed'
  BY <1>2 DEF Promise, OnlineMeansSession, OnlineMeansSubscribed
<1>8. QED
  BY <1>6, <1>7 DEF Promise

LEMMA PromiseParts ==
  ASSUME TypeOK, OwnPackets, Promise, Parts
  PROVE  Promise'
<1> DEFINE old == uplink[ToRos]
           new == uplink'[ToRos]
<1>1. /\ Len(old) \in Nat /\ Len(new) = Len(old) + 2
      /\ \A i \in 1..Len(old) : new[i] = old[i]
      /\ new[Len(old) + 1] = Connection("OFFLINE")
      /\ new[Len(old) + 2] = Disconnect
  BY PartingPackets
<1>2. UNCHANGED <<link[ToRos], session[ToRos], subscribed, retained>>
  BY DEF Parts
<1>3. /\ \A i \in 1..Len(old) : old[i] = Disconnect =>
           IF i = 1 THEN retained # "ONLINE" ELSE old[i - 1] = Connection("OFFLINE")
      /\ \A i \in 1..Len(old) : old[i] = Connection("ONLINE") =>
           /\ link[ToRos] # "opened"
           /\ \A t \in Topics : t \in subscribed \/ \E j \in 1..i - 1 : old[j] = Subscribe(t)
  BY DEF Promise, Farewell, Welcome
<1> HIDE DEF old, new
<1>4. \A i \in 1..Len(new) :
        i \in 1..Len(old) \/ i = Len(old) + 1 \/ (i = Len(old) + 2 /\ i # 1)
  BY <1>1
<1>5. ASSUME NEW i \in 1..Len(new), new[i] = Disconnect
      PROVE  IF i = 1 THEN retained # "ONLINE" ELSE new[i - 1] = Connection("OFFLINE")
  <2>1. CASE i \in 1..Len(old)
    <3>1. i # 1 => i - 1 \in 1..Len(old)
      BY <1>1, <2>1
    <3>2. QED
      BY <1>1, <1>3, <1>5, <2>1, <3>1
  <2>2. CASE i = Len(old) + 1
    BY <1>1, <1>5, <2>2, PacketsApart DEF ConnectionStates
  <2>3. CASE i = Len(old) + 2 /\ i # 1
    <3>1. i - 1 = Len(old) + 1
      BY <1>1, <2>3
    <3>2. QED
      BY <1>1, <2>3, <3>1
  <2>4. QED
    BY <1>4, <2>1, <2>2, <2>3
<1>6. ASSUME NEW i \in 1..Len(new), new[i] = Connection("ONLINE")
      PROVE  /\ link[ToRos] # "opened"
             /\ \A t \in Topics : t \in subscribed \/ \E j \in 1..i - 1 : new[j] = Subscribe(t)
  <2>1. i \in 1..Len(old)
    BY <1>1, <1>4, <1>6, PacketsApart
  <2>2. \A j \in 1..i - 1 : new[j] = old[j]
    BY <1>1, <2>1
  <2>3. QED
    BY <1>1, <1>3, <1>6, <2>1, <2>2
<1>7. Farewell' /\ Welcome'
  BY <1>2, <1>5, <1>6 DEF Farewell, Welcome, new
<1>8. OnlineMeansSession' /\ OnlineMeansSubscribed'
  BY <1>2 DEF Promise, OnlineMeansSession, OnlineMeansSubscribed
<1>9. QED
  BY <1>7, <1>8 DEF Promise

LEMMA PromiseDelivers ==
  ASSUME TypeOK, OwnPackets, Promise, Delivers
  PROVE  Promise'
<1> DEFINE old == uplink[ToRos]
           new == uplink'[ToRos]
<1>1. /\ Len(old) \in Nat /\ Len(new) = Len(old) - 1 /\ 1 \in 1..Len(old)
      /\ \A i \in 1..Len(new) : i + 1 \in 1..Len(old) /\ new[i] = old[i + 1]
  BY DeliveredPackets
<1>2. /\ session'[ToRos] = "live" /\ session[ToRos] = "live" /\ link'[ToRos] = link[ToRos]
      /\ \/ \E t \in Topics : /\ old[1] = Subscribe(t)
                              /\ subscribed' = subscribed \cup {t} /\ retained' = retained
         \/ \E s \in ConnectionStates : /\ old[1] = Connection(s)
                                        /\ subscribed' = subscribed /\ retained' = s
  BY DEF Delivers
<1>3. /\ \A i \in 1..Len(old) : old[i] = Disconnect =>
           IF i = 1 THEN retained # "ONLINE" ELSE old[i - 1] = Connection("OFFLINE")
      /\ \A i \in 1..Len(old) : old[i] = Connection("ONLINE") =>
           /\ link[ToRos] # "opened"
           /\ \A t \in Topics : t \in subscribed \/ \E j \in 1..i - 1 : old[j] = Subscribe(t)
      /\ retained = "ONLINE" => subscribed = Topics
  BY <1>2 DEF Promise, Farewell, Welcome, OnlineMeansSubscribed
<1>4. subscribed \subseteq Topics
  BY DEF TypeOK
<1> HIDE DEF old, new
\* What the broker makes of the packet.
<1>5. /\ subscribed \subseteq subscribed' /\ subscribed' \subseteq Topics
      /\ \A t \in Topics : old[1] = Subscribe(t) => t \in subscribed'
      /\ old[1] = Connection("OFFLINE") => retained' # "ONLINE"
      /\ retained' = "ONLINE" => retained = "ONLINE" \/ old[1] = Connection("ONLINE")
  <2>1. ASSUME NEW t \in Topics, old[1] = Subscribe(t),
               subscribed' = subscribed \cup {t}, retained' = retained
        PROVE  /\ \A u \in Topics : old[1] = Subscribe(u) => u = t
               /\ old[1] # Connection("OFFLINE")
    BY <2>1 DEF Subscribe, Connection
  <2>2. ASSUME NEW s \in ConnectionStates, old[1] = Connection(s),
               subscribed' = subscribed, retained' = s
        PROVE  /\ \A u \in Topics : old[1] # Subscribe(u)
               /\ old[1] = Connection("OFFLINE") => s = "OFFLINE"
    BY <2>2 DEF Subscribe, Connection
  <2>3. CASE \E t \in Topics : /\ old[1] = Subscribe(t)
                               /\ subscribed' = subscribed \cup {t} /\ retained' = retained
    BY <1>4, <2>1, <2>3
  <2>4. CASE \E s \in ConnectionStates : /\ old[1] = Connection(s)
                                         /\ subscribed' = subscribed /\ retained' = s
    BY <1>4, <2>2, <2>4
  <2>5. QED
    BY <1>2, <2>3, <2>4
<1>6. ASSUME NEW i \in 1..Len(new), new[i] = Disconnect
      PROVE  IF i = 1 THEN retained' # "ONLINE" ELSE new[i - 1] = Connection("OFFLINE")
  <2>1. /\ i + 1 \in 1..Len(old) /\ i + 1 # 1 /\ (i + 1) - 1 = i
        /\ i # 1 => i - 1 \in 1..Len(new) /\ (i - 1) + 1 = i
    BY <1>1
  <2>2. old[i] = Connection("OFFLINE")
    BY <1>1, <1>3, <1>6, <2>1
  <2>3. QED
    BY <1>1, <1>5, <2>1, <2>2
<1>7. ASSUME NEW i \in 1..Len(new), new[i] = Connection("ONLINE")
      PROVE  /\ link[ToRos] # "opened"
             /\ \A t \in Topics : t \in subscribed' \/ \E j \in 1..i - 1 : new[j] = Subscribe(t)
  <2>1. i + 1 \in 1..Len(old) /\ old[i + 1] = Connection("ONLINE") /\ (i + 1) - 1 = i
    BY <1>1, <1>7
  <2>2. /\ link[ToRos] # "opened"
        /\ \A t \in Topics : t \in subscribed \/ \E j \in 1..i : old[j] = Subscribe(t)
    BY <1>3, <2>1
  <2>3. \A j \in 1..i : j = 1 \/ (j - 1 \in 1..i - 1 /\ new[j - 1] = old[j])
    <3>1. \A j \in 1..i : j # 1 => j - 1 \in 1..i - 1 /\ j - 1 \in 1..Len(new)
                                   /\ (j - 1) + 1 = j
      BY <1>1
    <3>2. QED
      BY <1>1, <3>1
  <2>4. QED
    BY <1>5, <2>2, <2>3
<1>8. retained' = "ONLINE" => subscribed' = Topics
  <2>1. CASE retained = "ONLINE"
    BY <1>3, <1>5, <2>1
  <2>2. CASE old[1] = Connection("ONLINE")
    <3>1. \A t \in Topics : t \in subscribed
      BY <1>1, <1>3, <2>2
    <3>2. QED
      BY <1>5, <3>1
  <2>3. QED
    BY <1>5, <2>1, <2>2
<1>9. Farewell' /\ Welcome'
  BY <1>2, <1>6, <1>7 DEF Farewell, Welcome, new
<1>10. OnlineMeansSession' /\ OnlineMeansSubscribed'
  BY <1>2, <1>8 DEF OnlineMeansSession, OnlineMeansSubscribed
<1>11. QED
  BY <1>9, <1>10 DEF Promise

LEMMA PromiseStep ==
  ASSUME TypeOK, OwnPackets, Links, Promise, [Next]_vars
  PROVE  Promise'
<1>a. << >> # uplink[ToRos] \/ Len(uplink[ToRos]) = 0
  OBVIOUS
<1>1. CASE Aside
  <2>1. UNCHANGED <<uplink[ToRos], session[ToRos], subscribed, retained>>
        /\ (link'[ToRos] = link[ToRos] \/ Len(uplink[ToRos]) = 0)
    BY <1>a, <1>1 DEF Aside
  <2>2. QED
    BY <2>1 DEF Promise, Farewell, Welcome, OnlineMeansSession, OnlineMeansSubscribed
<1>2. CASE CutOff
  <2>1. Len(uplink'[ToRos]) = 0
    BY <1>2 DEF CutOff
  <2>2. Farewell' /\ Welcome'
    BY <2>1 DEF Farewell, Welcome
  <2>3. OnlineMeansSession' /\ OnlineMeansSubscribed'
    BY <1>2 DEF CutOff, Promise, OnlineMeansSession, OnlineMeansSubscribed
  <2>4. QED
    BY <2>2, <2>3 DEF Promise
<1>3. CASE Forgotten
  BY <1>3 DEF Forgotten, Promise, Farewell, Welcome, OnlineMeansSession, OnlineMeansSubscribed
<1>4. CASE Accepted
  <2>1. /\ uplink'[ToRos] = uplink[ToRos] /\ link[ToRos] = "opened"
        /\ session'[ToRos] = "live" /\ retained' # "ONLINE"
    BY <1>4 DEF Accepted, Promise, OnlineMeansSession
  <2>2. Farewell' /\ Welcome'
    BY <2>1 DEF Promise, Farewell, Welcome
  <2>3. OnlineMeansSession' /\ OnlineMeansSubscribed'
    BY <2>1 DEF OnlineMeansSession, OnlineMeansSubscribed
  <2>4. QED
    BY <2>2, <2>3 DEF Promise
<1>5. CASE Hangs
  <2>1. uplink[ToRos] \in Seq(RosPackets) /\ uplink[ToRos] # << >>
    BY <1>5 DEF Hangs, OwnPackets
  <2>2. 1 \in 1..Len(uplink[ToRos])
    BY <2>1, QueueFacts
  <2>3. retained' # "ONLINE" /\ session'[ToRos] = "none" /\ Len(uplink'[ToRos]) = 0
    BY <1>5, <2>2 DEF Hangs, Promise, Farewell
  <2>4. QED
    BY <2>3 DEF Promise, Farewell, Welcome, OnlineMeansSession, OnlineMeansSubscribed
<1>6. QED
  BY <1>1, <1>2, <1>3, <1>4, <1>5, KindsOfSteps, PromiseGreets, PromiseParts, PromiseDelivers

LEMMA PromiseCorrect == Spec => []Promise
<1>1. Init => Promise
  BY DEF Init, Promise, Farewell, Welcome, OnlineMeansSession, OnlineMeansSubscribed, Clients
<1>2. TypeOK /\ OwnPackets /\ Links /\ Promise /\ [Next]_vars => Promise'
  BY PromiseStep
<1>3. QED
  BY <1>1, <1>2, BridgeTypeCorrect, OwnCorrect, LinksCorrect, PTL DEF Spec

\* The theorem of OnlineMeansSubscribed (on_mqtt_connect): while a session
\* lives, a retained ONLINE says that all topics are subscribed.
THEOREM SubscribedCorrect == Spec => []OnlineMeansSubscribed
<1>1. Promise => OnlineMeansSubscribed
  BY DEF Promise
<1>2. QED
  BY <1>1, PromiseCorrect, PTL

\* The theorem of OnlineMeansSession (disconnect, and the will that
\* MqttToRosNode sets): ONLINE is taken back whenever a session ends.
THEOREM SessionCorrect == Spec => []OnlineMeansSession
<1>1. Promise => OnlineMeansSession
  BY DEF Promise
<1>2. QED
  BY <1>1, PromiseCorrect, PTL
=============================================================================
