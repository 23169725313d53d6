-------------------------- MODULE Recording_proofs --------------------------
(***************************************************************************)
(* Proofs about Recording: what the info generator publishes, how the Mega *)
(* controller leaves its bag, and what the scene recorder knows of its     *)
(* recordings, for every number of topics, messages, waypoints and         *)
(* recordings.                                                             *)
(***************************************************************************)
EXTENDS Recording, SequenceTheorems, TLAPS

-----------------------------------------------------------------------------
(* The info generator.                                                     *)

\* The last messages_aggregated_count elements of s.
Latest(s) ==
  SubSeq(s, IF Len(s) > messages_aggregated_count THEN Len(s) - messages_aggregated_count + 1 ELSE 1,
         Len(s))

\* A deque of bounded length: append, and drop the oldest when it is too long.
Pushed(s, m) ==
  IF Len(Append(s, m)) > messages_aggregated_count THEN Tail(Append(s, m)) ELSE Append(s, m)

Skipped(n) == IF n > messages_aggregated_count THEN n - messages_aggregated_count ELSE 0

LEMMA LatestProperties ==
  ASSUME NEW S, NEW s \in Seq(S)
  PROVE  /\ Len(s) \in Nat /\ Skipped(Len(s)) \in 0..Len(s)
         /\ Latest(s) \in Seq(S) /\ Len(Latest(s)) = Len(s) - Skipped(Len(s))
         /\ \A i \in 1..Len(s) - Skipped(Len(s)) : Latest(s)[i] = s[Skipped(Len(s)) + i]
<1> DEFINE n == Len(s)
           skipped == Skipped(n)
<1>1. n \in Nat
  BY LenProperties
<1>2. skipped \in 0..n /\ Latest(s) = SubSeq(s, skipped + 1, n)
  BY <1>1, InfoAssumption DEF Skipped, Latest
<1> HIDE DEF n, skipped
<1>3. \A i \in skipped + 1..n : s[i] \in S
  BY <1>1, <1>2 DEF n
<1>4. /\ SubSeq(s, skipped + 1, n) \in Seq(S)
      /\ Len(SubSeq(s, skipped + 1, n)) =
           IF skipped + 1 <= n THEN n - (skipped + 1) + 1 ELSE 0
      /\ \A i \in 1..n - (skipped + 1) + 1 :
           SubSeq(s, skipped + 1, n)[i] = s[(skipped + 1) + i - 1]
  BY <1>1, <1>2, <1>3, SubSeqProperties
<1>5. /\ Len(Latest(s)) = n - skipped
      /\ \A i \in 1..n - skipped : Latest(s)[i] = s[skipped + i]
  BY <1>1, <1>2, <1>4
<1>6. QED
  BY <1>1, <1>2, <1>4, <1>5 DEF n, skipped

\* A deque that holds the last elements holds the last after one more.
LEMMA LatestPushed ==
  ASSUME NEW S, NEW s \in Seq(S), NEW m \in S
  PROVE  Pushed(Latest(s), m) = Latest(Append(s, m))
<1> DEFINE K == messages_aggregated_count
           n == Len(s)
           a == Skipped(n)
           b == Skipped(n + 1)
           old == Latest(s)
           longer == Append(old, m)
           all == Append(s, m)
           new == Pushed(old, m)
<1>1. /\ n \in Nat /\ K \in Nat \ {0} /\ a \in 0..n /\ b \in 0..n
      /\ IF n - a + 1 > K THEN b = a + 1 ELSE a = 0 /\ b = 0
  <2>1. n \in Nat
    BY LenProperties
  <2> HIDE DEF n
  <2>2. QED
    BY <2>1, InfoAssumption DEF Skipped
<1>2. /\ old \in Seq(S) /\ Len(old) = n - a
      /\ \A i \in 1..n - a : old[i] = s[a + i]
  BY LatestProperties
<1>3. /\ all \in Seq(S) /\ Len(all) = n + 1 /\ all[n + 1] = m
      /\ \A i \in 1..n : all[i] = s[i]
  BY <1>1, AppendProperties
<1>4. /\ Latest(all) \in Seq(S) /\ Len(Latest(all)) = n + 1 - b
      /\ \A i \in 1..n + 1 - b : Latest(all)[i] = all[b + i]
  <2> DEFINE l == Len(all)
             c == Skipped(l)
  <2>1. /\ Latest(all) \in Seq(S) /\ Len(Latest(all)) = l - c
        /\ \A i \in 1..l - c : Latest(all)[i] = all[c + i]
    BY <1>3, LatestProperties
  <2>2. l = n + 1
    BY <1>3
  <2> HIDE DEF l, n, all
  <2>3. c = b
    BY <2>2
  <2> HIDE DEF c, b
  <2>4. QED
    BY <1>1, <2>1, <2>2, <2>3
<1> HIDE DEF a, b
<1>5. /\ longer \in Seq(S) /\ Len(longer) = n - a + 1 /\ longer[n - a + 1] = m
      /\ \A i \in 1..n - a : longer[i] = old[i]
  <2> HIDE DEF old
  <2>1. /\ longer \in Seq(S) /\ Len(longer) = Len(old) + 1 /\ longer[Len(old) + 1] = m
        /\ \A i \in 1..Len(old) : longer[i] = old[i]
    BY <1>2, AppendProperties
  <2> HIDE DEF longer
  <2>2. QED
    BY <1>2, <2>1
<1>6. new = IF Len(longer) > K THEN Tail(longer) ELSE longer
  BY DEF Pushed
<1>7. Len(longer) > K =>
        /\ Tail(longer) \in Seq(S) /\ Len(Tail(longer)) = Len(longer) - 1
        /\ \A i \in 1..Len(longer) - 1 : Tail(longer)[i] = longer[i + 1]
  <2>1. Len(longer) > K => longer # << >>
    BY <1>1, <1>5, EmptySeq
  <2> HIDE DEF longer
  <2>2. QED
    BY <1>5, <2>1, HeadTailProperties
<1> HIDE DEF old, longer, all, new, K, n
<1>8. ASSUME NEW i \in 1..n - a + 1 PROVE longer[i] = all[a + i]
  <2>1. CASE i \in 1..n - a
    <3>1. a + i \in 1..n
      BY <1>1, <2>1
    <3>2. longer[i] = s[a + i]
      BY <1>2, <1>5, <2>1
    <3>3. QED
      BY <1>3, <3>1, <3>2
  <2>2. CASE i = n - a + 1
    <3>1. a + i = n + 1
      BY <1>1, <2>2
    <3>2. QED
      BY <1>3, <1>5, <2>2, <3>1
  <2>3. QED
    BY <1>1, <1>8, <2>1, <2>2
<1>9. CASE n - a + 1 > K
  <2>1. b = a + 1 /\ new = Tail(longer) /\ new \in Seq(S) /\ Len(new) = n - a
    BY <1>1, <1>5, <1>6, <1>7, <1>9
  <2>2. ASSUME NEW i \in 1..Len(new) PROVE new[i] = Latest(all)[i]
    <3>1. /\ i \in 1..n - a /\ i + 1 \in 1..n - a + 1 /\ i \in 1..n + 1 - b
          /\ a + (i + 1) = b + i
      BY <1>1, <2>1
    <3>2. new[i] = longer[i + 1]
      BY <1>5, <1>7, <1>9, <2>1, <3>1
    <3>3. QED
      BY <1>4, <1>8, <3>1, <3>2
  <2>3. Len(new) = Len(Latest(all))
    BY <1>1, <1>4, <2>1
  <2>4. QED
    BY <1>4, <2>1, <2>2, <2>3, SeqEqual DEF new, old, all
<1>10. CASE ~(n - a + 1 > K)
  <2>1. a = 0 /\ b = 0 /\ new = longer /\ new \in Seq(S) /\ Len(new) = n + 1
    BY <1>1, <1>5, <1>6, <1>10
  <2>2. \A i \in 1..Len(new) : new[i] = Latest(all)[i]
    BY <1>1, <1>4, <1>8, <2>1
  <2>3. Len(new) = Len(Latest(all))
    BY <1>1, <1>4, <2>1
  <2>4. QED
    BY <1>4, <2>1, <2>2, <2>3, SeqEqual DEF new, old, all
<1>11. QED
  BY <1>9, <1>10

\* What arrives, topic by topic.
Numbered == ros_subscriber_topics \X Nat

InfoInv ==
  /\ since \in [ros_subscriber_topics -> Seq(Numbered)]
  /\ messages = [t \in {u \in ros_subscriber_topics : since[u] # << >>} |-> Latest(since[t])]

LEMMA InfoStep ==
  ASSUME InfoInv, [InfoNext]_infoVars
  PROVE  InfoInv'
<1>1. CASE UNCHANGED infoVars
  BY <1>1 DEF infoVars, InfoInv
<1>2. CASE TimerCallback
  BY <1>2 DEF TimerCallback, InfoInv
<1>3. ASSUME NEW id \in OrderIds, OrderIdCallback(id) PROVE InfoInv'
  <2>1. /\ messages' = [t \in {} |-> << >>]
        /\ since' = [t \in ros_subscriber_topics |-> << >>]
    BY <1>3 DEF OrderIdCallback, NoMessages
  <2>2. since' \in [ros_subscriber_topics -> Seq(Numbered)]
    BY <2>1
  <2>3. {u \in ros_subscriber_topics : since'[u] # << >>} = {}
    BY <2>1
  <2>4. messages' = [t \in {u \in ros_subscriber_topics : since'[u] # << >>} |-> Latest(since'[t])]
    BY <2>1, <2>3
  <2>5. QED
    BY <2>2, <2>4 DEF InfoInv
<1>4. ASSUME NEW topic \in ros_subscriber_topics, SubscriberCallback(topic) PROVE InfoInv'
  <2> DEFINE s == since[topic]
             message == <<topic, Len(s) + 1>>
             longer == IF topic \in DOMAIN messages THEN Append(messages[topic], message)
                                                    ELSE <<message>>
             kept == IF Len(longer) > messages_aggregated_count THEN Tail(longer) ELSE longer
             heard == {u \in ros_subscriber_topics : since[u] # << >>}
  <2>1. /\ messages' = [t \in DOMAIN messages \cup {topic} |->
                         IF t = topic THEN kept ELSE messages[t]]
        /\ since' = [since EXCEPT ![topic] = Append(s, message)]
    BY <1>4 DEF SubscriberCallback
  <2>2. /\ s \in Seq(Numbered) /\ message \in Numbered /\ DOMAIN messages = heard
        /\ \A t \in heard : messages[t] = Latest(since[t])
    BY DEF InfoInv, Numbered
  <2>3. /\ Append(s, message) \in Seq(Numbered) /\ Append(s, message) # << >>
    BY <2>2, AppendProperties
  <2>4. longer = Append(Latest(s), message)
    <3>1. CASE s # << >>
      BY <2>2, <3>1
    <3>2. CASE s = << >>
      <4>1. topic \notin heard /\ Len(s) = 0
        BY <3>2
      <4>2. Latest(s) \in Seq(Numbered) /\ Len(Latest(s)) = 0
        BY <2>2, <4>1, LatestProperties, InfoAssumption
      <4>3. Latest(s) = << >>
        BY <4>2, EmptySeq
      <4>4. QED
        BY <2>2, <4>1, <4>3
    <3>3. QED
      BY <3>1, <3>2
  <2>5. kept = Latest(Append(s, message))
    <3>1. kept = Pushed(Latest(s), message)
      BY <2>4 DEF Pushed
    <3>2. QED
      BY <2>2, <3>1, LatestPushed
  <2> HIDE DEF kept, longer, message
  <2>6. since' \in [ros_subscriber_topics -> Seq(Numbered)]
    BY <2>1, <2>3 DEF InfoInv
  <2>7. {u \in ros_subscriber_topics : since'[u] # << >>} = heard \cup {topic}
    BY <2>1, <2>3 DEF InfoInv
  <2>8. /\ messages' = [t \in heard \cup {topic} |-> IF t = topic THEN kept ELSE messages[t]]
    BY <2>1, <2>2
  <2>9. \A t \in heard \cup {topic} : (IF t = topic THEN kept ELSE messages[t]) = Latest(since'[t])
    BY <2>1, <2>2, <2>5 DEF InfoInv
  <2>10. messages' = [t \in heard \cup {topic} |-> Latest(since'[t])]
    BY <2>8, <2>9
  <2>11. QED
    BY <2>6, <2>7, <2>10 DEF InfoInv
<1>5. QED
  BY <1>1, <1>2, <1>3, <1>4 DEF InfoNext

\* The theorem of InfoOfOneOrder (JsonInfoGeneratorNode): what is collected
\* is, of every topic, the last messages of this order.
THEOREM InfoCorrect == Spec => []InfoOfOneOrder
<1>1. Init => InfoInv
  <2> SUFFICES ASSUME Init PROVE InfoInv
    OBVIOUS
  <2>1. /\ messages = [t \in {} |-> << >>]
        /\ since = [t \in ros_subscriber_topics |-> << >>]
    BY DEF Init, InfoInit, NoMessages
  <2>2. {u \in ros_subscriber_topics : since[u] # << >>} = {}
    BY <2>1
  <2>3. since \in [ros_subscriber_topics -> Seq(Numbered)]
    BY <2>1
  <2>4. messages = [t \in {u \in ros_subscriber_topics : since[u] # << >>} |-> Latest(since[t])]
    BY <2>1, <2>2
  <2>5. QED
    BY <2>3, <2>4 DEF InfoInv
<1>2. [Next]_vars => [InfoNext]_infoVars
  BY DEF Next, vars
<1>3. InfoInv /\ [InfoNext]_infoVars => InfoInv'
  BY InfoStep
<1>4. InfoInv => InfoOfOneOrder
  BY DEF InfoInv, InfoOfOneOrder, Latest
<1>5. QED
  BY <1>1, <1>2, <1>3, <1>4, PTL DEF Spec

-----------------------------------------------------------------------------
(* The Mega controller.                                                    *)

\* Where the controller is, what of the bag and of the waypoints it has done.
ControllerInv ==
  /\ enable_upload_to_s3 \in BOOLEAN
  /\ at \in Nat /\ reached \in Nat
  /\ controller \in
       {"created", "waits", "starts", "drives", "sent", "closes", "raises", "uploads", "ended"}
  /\ controller \in {"created", "waits", "starts"} =>
       bag_process = "none" /\ ~uploaded /\ reached = at - 1
  /\ controller \in {"drives", "sent", "closes", "raises"} =>
       ~uploaded /\ bag_process = IF enable_upload_to_s3 THEN "records" ELSE "none"
  /\ controller \in {"drives", "sent"} => reached = at - 1
  /\ controller = "uploads" => bag_process = "ended" /\ ~uploaded
  /\ controller = "ended" => bag_process # "records" /\ (uploaded => bag_process = "ended")

LEMMA ControllerStep ==
  ASSUME ControllerInv, [ControllerNext]_controllerVars
  PROVE  ControllerInv'
<1>1. CASE UNCHANGED controllerVars
  BY <1>1 DEF controllerVars, ControllerInv
<1>2. CASE ReadWaypoints
  BY <1>2 DEF ReadWaypoints, parameters_, ControllerInv
<1>3. CASE Nav2Up
  BY <1>3 DEF Nav2Up, parameters_, ControllerInv
<1>4. CASE RecordBag
  BY <1>4 DEF RecordBag, parameters_, ControllerInv
<1>5. CASE SendNextGoal
  BY <1>5 DEF SendNextGoal, parameters_, ControllerInv
<1>6. CASE GoalFails
  BY <1>6 DEF GoalFails, parameters_, ControllerInv
<1>7. CASE GoalReached
  BY <1>7 DEF GoalReached, parameters_, ControllerInv
<1>8. CASE WaypointsDone
  BY <1>8 DEF WaypointsDone, parameters_, ControllerInv
<1>9. CASE CloseBag
  BY <1>9 DEF CloseBag, Closed, parameters_, ControllerInv
<1>10. CASE UploadBag
  BY <1>10 DEF UploadBag, parameters_, ControllerInv
<1>11. QED
  BY <1>1, <1>2, <1>3, <1>4, <1>5, <1>6, <1>7, <1>8, <1>9, <1>10 DEF ControllerNext

\* The theorem of BagClosed (ROSBagRecorder, main): no process is left
\* recording, and nothing is uploaded that is still written.
THEOREM BagCorrect == Spec => []BagClosed
<1>1. Init => ControllerInv
  BY DEF Init, ControllerInit, ControllerInv
<1>2. [Next]_vars => [ControllerNext]_controllerVars
  BY DEF Next, vars
<1>3. ControllerInv /\ [ControllerNext]_controllerVars => ControllerInv'
  BY ControllerStep
<1>4. ControllerInv => BagClosed
  BY DEF ControllerInv, BagClosed
<1>5. QED
  BY <1>1, <1>2, <1>3, <1>4, PTL DEF Spec

-----------------------------------------------------------------------------
(* The scene recorder.                                                     *)

StartPcs == {"opened", "known", "arms"}
StopPcs  == {"stops", "signals", "forgets", "clears", "cancels"}

RecorderTypes ==
  /\ started \in 0..MaxRecordings
  /\ pc[0] \in StartPcs => started \in Recordings /\ timers[started] = "none"
  /\ timers \in [Recordings -> {"none", "waiting", "runs", "over"}]
  /\ pc \in [Threads -> {"idle"} \cup StartPcs \cup StopPcs]
  /\ recorders \subseteq 1..started /\ crossed \subseteq 1..started
  /\ \A n \in Recordings :
       /\ pc[n] \notin StartPcs
       /\ timers[n] = "runs" <=> pc[n] # "idle"
       /\ n > started => timers[n] = "none"

\* A recording before the last one is over, but for what was crossed.
Past(n) == timers[n] # "waiting" /\ (n \in recorders => n \in signalled)

Unsignalled(n) == n \in recorders /\ n \notin signalled

\* The last recording, when no other Timer was left beside it.
Current(n) ==
  /\ \A m \in Recordings \ {n} : timers[m] \notin {"waiting", "runs"}
  /\ pc[0] \in {"known", "arms"} => process_pid = n
  /\ pc[0] = "arms" => recording
  /\ pc[0] \notin StartPcs =>
       /\ stop_recording_timer = n /\ timers[n] # "none"
       /\ timers[n] = "waiting" => recording \/ pc[0] = "cancels"
       /\ Unsignalled(n) =>
            /\ recording /\ process_pid = n
            /\ \A t \in {0, n} : pc[t] \notin {"forgets", "clears", "cancels"}

RecorderInv ==
  /\ RecorderTypes
  /\ \A n \in (1..started) \ crossed : IF n = started THEN Current(n) ELSE Past(n)

LEMMA ThreadFacts ==
  /\ 0 \in Threads /\ MaxRecordings \in Nat
  /\ \A n \in Recordings : n \in Threads /\ n \in Nat /\ n # 0
  /\ \A t \in Threads : t = 0 \/ t \in Recordings
BY RecorderAssumption DEF Threads, Recordings

\* An uncrossed recording has no other thread beside it but the executor's.
LEMMA OthersIdle ==
  ASSUME RecorderInv, started \in (1..started) \ crossed, NEW t \in Threads, pc[t] # "idle"
  PROVE  /\ started \in Recordings /\ Current(started)
         /\ t \in {0, started} /\ (pc[0] \in StartPcs => t = 0)
<1>1. RecorderTypes /\ Current(started) /\ started \in Recordings
  BY DEF RecorderInv, RecorderTypes, Recordings
<1>2. CASE t = 0
  BY <1>1, <1>2
<1>3. CASE t \in Recordings
  <2>1. timers[t] = "runs"
    BY <1>1, <1>3 DEF RecorderTypes
  <2>2. QED
    BY <1>1, <1>3, <2>1, ThreadFacts DEF Current, RecorderTypes
<1>4. QED
  BY <1>2, <1>3, ThreadFacts

\* start_recording opens a process.
LEMMA StartRecordingStep ==
  ASSUME RecorderInv, StartRecording
  PROVE  RecorderInv'
<1> DEFINE n == started + 1
<1>1. /\ pc[0] = "idle" /\ ~recording /\ started < MaxRecordings /\ started' = n
      /\ recorders' = recorders \cup {n}
      /\ crossed' = IF TimerLeft THEN crossed \cup {n} ELSE crossed
      /\ pc' = [pc EXCEPT ![0] = "opened"]
      /\ UNCHANGED <<recording, process_pid, stop_recording_timer, timers, signalled>>
  BY DEF StartRecording, Goes
<1>2. RecorderTypes /\ started \in Nat /\ n \in Recordings
  BY <1>1, RecorderAssumption DEF RecorderInv, RecorderTypes, Recordings
<1>3. pc'[0] = "opened" /\ \A t \in Recordings : pc'[t] = pc[t]
  BY <1>1, <1>2, ThreadFacts DEF RecorderTypes
<1>4. RecorderTypes'
  <2>1. pc' \in [Threads -> {"idle"} \cup StartPcs \cup StopPcs]
    BY <1>1, <1>2 DEF RecorderTypes, StartPcs
  <2>2. started' \in 0..MaxRecordings /\ 1..started \subseteq 1..n /\ n \in 1..n
    BY <1>1, <1>2, ThreadFacts
  <2>3. recorders' \subseteq 1..started' /\ crossed' \subseteq 1..started'
    BY <1>1, <1>2, <2>2 DEF RecorderTypes
  <2>4. \A m \in Recordings : m > started' => m > started
    BY <1>1, <1>2, ThreadFacts
  <2>5. QED
    BY <1>1, <1>2, <1>3, <2>1, <2>2, <2>3, <2>4, ThreadFacts DEF RecorderTypes
<1>5. ASSUME NEW m \in (1..started) \ crossed PROVE Past(m)
  <2>1. CASE m = started
    BY <1>1, <2>1 DEF RecorderInv, Current, Past, Unsignalled, StartPcs
  <2>2. CASE m # started
    BY <2>2 DEF RecorderInv
  <2>3. QED
    BY <2>1, <2>2
<1>6. ASSUME NEW m \in (1..started') \ crossed', m # started' PROVE Past(m)'
  <2>1. m \in (1..started) \ crossed
    BY <1>1, <1>2, <1>6
  <2>2. QED
    BY <1>1, <1>2, <1>5, <1>6, <2>1 DEF Past
<1>7. ASSUME started' \notin crossed' PROVE Current(started)'
  <2>1. ~TimerLeft
    BY <1>1, <1>7
  <2>2. \A m \in Recordings : timers[m] \notin {"waiting", "runs"}
    <3> SUFFICES ASSUME NEW m \in Recordings PROVE timers[m] \notin {"waiting", "runs"}
      OBVIOUS
    <3>1. CASE m > started
      BY <1>2, <3>1 DEF RecorderTypes
    <3>2. CASE m \in crossed
      BY <2>1, <3>2 DEF TimerLeft
    <3>3. CASE m \in (1..started) \ crossed
      BY <1>5, <2>1, <3>3 DEF TimerLeft, Past
    <3>4. QED
      BY <1>2, <3>1, <3>2, <3>3 DEF Recordings
  <2>3. QED
    BY <1>1, <1>3, <2>2 DEF Current, StartPcs
<1>8. QED
  BY <1>1, <1>4, <1>6, <1>7 DEF RecorderInv

\* The rest of start_recording.
LEMMA StartGoesOnStep ==
  ASSUME RecorderInv, StartGoesOn
  PROVE  RecorderInv'
<1>1. /\ pc[0] \in StartPcs /\ RecorderTypes
      /\ UNCHANGED <<started, recorders, signalled, crossed>>
  BY DEF StartGoesOn, PidKept, RecordingSet, StartTimer, StartPcs, RecorderInv
<1>2. started \in 1..started => started \in Recordings
  BY <1>1 DEF RecorderTypes, Recordings
<1>3. CASE PidKept \/ RecordingSet
  <2>1. /\ timers' = timers /\ stop_recording_timer' = stop_recording_timer
        /\ pc'[0] \in StartPcs /\ pc' \in [Threads -> {"idle"} \cup StartPcs \cup StopPcs]
        /\ \A t \in Recordings : pc'[t] = pc[t]
    BY <1>1, <1>3, ThreadFacts DEF PidKept, RecordingSet, Goes, StartPcs, RecorderTypes
  <2>2. RecorderTypes'
    BY <1>1, <2>1 DEF RecorderTypes
  <2>3. ASSUME Current(started) PROVE Current(started)'
    BY <1>1, <1>3, <2>1, <2>3, ThreadFacts
       DEF Current, PidKept, RecordingSet, Goes, StartPcs, RecorderTypes
  <2>4. QED
    BY <1>1, <2>1, <2>2, <2>3 DEF RecorderInv, Past
<1>4. CASE StartTimer
  <2>1. /\ pc[0] = "arms" /\ pc' = [pc EXCEPT ![0] = "idle"] /\ stop_recording_timer' = started
        /\ timers' = [timers EXCEPT ![started] = "waiting"]
        /\ UNCHANGED <<recording, process_pid>>
    BY <1>4 DEF StartTimer, Goes
  <2>2. /\ pc'[0] = "idle" /\ pc' \in [Threads -> {"idle"} \cup StartPcs \cup StopPcs]
        /\ \A t \in Recordings : pc'[t] = pc[t]
    BY <1>1, <2>1, ThreadFacts DEF RecorderTypes
  <2>3. /\ started \in Recordings
        /\ timers' \in [Recordings -> {"none", "waiting", "runs", "over"}]
        /\ timers'[started] = "waiting" /\ pc[started] = "idle"
        /\ \A m \in Recordings \ {started} : timers'[m] = timers[m]
    BY <1>1, <2>1 DEF RecorderTypes
  <2>4. RecorderTypes'
    BY <1>1, <2>1, <2>2, <2>3 DEF RecorderTypes, StartPcs
  <2>5. ASSUME Current(started) PROVE Current(started)'
    BY <1>1, <2>1, <2>2, <2>3, <2>5 DEF Current, StartPcs, Unsignalled
  <2>6. ASSUME NEW m \in (1..started) \ crossed, m # started, Past(m) PROVE Past(m)'
    BY <1>1, <2>1, <2>3, <2>6 DEF Past, Recordings, RecorderTypes
  <2>7. QED
    BY <1>1, <2>1, <2>4, <2>5, <2>6 DEF RecorderInv
<1>5. QED
  BY <1>3, <1>4 DEF StartGoesOn

\* What a step of stop_recording has to establish: thread t is in it, and goes
\* on or leaves it.
LEMMA StopKeeps ==
  ASSUME RecorderInv, NEW t \in Threads, pc[t] \in StopPcs, NEW to \in StopPcs \cup {"idle"},
         pc' = [pc EXCEPT ![t] = to],
         UNCHANGED <<stop_recording_timer, started, recorders, crossed>>,
         signalled \subseteq signalled',
         timers' \in [Recordings -> {"none", "waiting", "runs", "over"}],
         \A m \in Recordings :
           IF m = t THEN timers'[m] = IF to = "idle" THEN "over" ELSE timers[m]
                    ELSE timers'[m] = timers[m] \/ (timers[m] = "waiting" /\ timers'[m] = "over"),
         started \in (1..started) \ crossed =>
           /\ timers'[started] = "waiting" => recording' \/ pc'[0] = "cancels"
           /\ Unsignalled(started)' =>
                recording' /\ process_pid' = started /\ to \notin {"forgets", "clears", "cancels"}
  PROVE  RecorderInv'
<1>1. RecorderTypes /\ to \notin StartPcs /\ pc[t] \notin StartPcs /\ pc[t] # "idle"
  BY DEF RecorderInv, StartPcs, StopPcs
<1>2. /\ pc'[t] = to /\ \A s \in Threads \ {t} : pc'[s] = pc[s]
      /\ pc' \in [Threads -> {"idle"} \cup StartPcs \cup StopPcs]
  BY <1>1 DEF RecorderTypes
<1>3. \A m \in Recordings : timers[m] = "none" => timers'[m] = "none"
  BY <1>1, ThreadFacts DEF RecorderTypes
<1>4. RecorderTypes'
  <2>1. ASSUME NEW n \in Recordings
        PROVE  /\ pc'[n] \notin StartPcs
               /\ timers'[n] = "runs" <=> pc'[n] # "idle"
               /\ n > started => timers'[n] = "none"
    BY <1>1, <1>2, <1>3, ThreadFacts DEF RecorderTypes
  <2>2. pc'[0] \in StartPcs => started \in Recordings /\ timers'[started] = "none"
    BY <1>1, <1>2, <1>3, ThreadFacts DEF RecorderTypes
  <2>3. QED
    BY <1>1, <1>2, <2>1, <2>2 DEF RecorderTypes
<1>5. ASSUME NEW m \in (1..started) \ crossed, m # started, Past(m) PROVE Past(m)'
  <2>1. m \in Recordings
    BY <1>1, ThreadFacts DEF RecorderTypes, Recordings
  <2>2. QED
    BY <1>5, <2>1 DEF Past
<1>6. ASSUME started \in (1..started) \ crossed PROVE Current(started)'
  <2>1. /\ started \in Recordings /\ Current(started) /\ t \in {0, started}
        /\ pc[0] \notin StartPcs
    BY <1>1, <1>6, OthersIdle
  <2>2. \A m \in Recordings \ {started} : timers'[m] \notin {"waiting", "runs"}
    BY <2>1 DEF Current
  <2>3. pc'[0] \notin StartPcs
    BY <1>1, <1>2, <2>1, ThreadFacts
  <2>4. stop_recording_timer' = started /\ timers'[started] # "none"
    BY <2>1 DEF Current
  <2>5. Unsignalled(started)' => \A s \in {0, started} : pc'[s] \notin {"forgets", "clears", "cancels"}
    <3>1. Unsignalled(started)' => Unsignalled(started)
      BY DEF Unsignalled
    <3>2. QED
      BY <1>2, <1>6, <2>1, <3>1, ThreadFacts DEF Current
  <2>6. QED
    BY <1>6, <2>2, <2>3, <2>4, <2>5 DEF Current, StartPcs
<1>7. QED
  BY <1>4, <1>5, <1>6 DEF RecorderInv

\* Thread t is in stop_recording.
LEMMA StopGoesOnStep ==
  ASSUME RecorderInv, NEW t \in Threads, StopGoesOn(t)
  PROVE  RecorderInv'
<1>1. /\ RecorderTypes /\ pc[t] \in StopPcs
      /\ timers \in [Recordings -> {"none", "waiting", "runs", "over"}]
      /\ UNCHANGED <<stop_recording_timer, started, recorders, crossed>>
  BY DEF StopGoesOn, PidChecked, SignalProcess, SignalFails, PidForgotten, RecordingCleared,
         TimerCancelled, StopPcs, RecorderInv, RecorderTypes
<1>2. started \in (1..started) \ crossed =>
        /\ Current(started) /\ started \in Recordings /\ pc[0] \notin StartPcs
        /\ stop_recording_timer = started
        /\ timers[started] = "waiting" => recording \/ pc[0] = "cancels"
        /\ timers[started] = "waiting" => t = 0
        /\ Unsignalled(started) =>
             recording /\ process_pid = started /\ pc[t] \notin {"forgets", "clears", "cancels"}
  <2>1. pc[t] # "idle" /\ pc[t] \notin StartPcs
    BY <1>1 DEF StopPcs, StartPcs
  <2>2. QED
    BY <1>1, <2>1, OthersIdle, ThreadFacts DEF Current, RecorderTypes
<1>3. ASSUME NEW to \in StopPcs, pc' = [pc EXCEPT ![t] = to], timers' = timers,
             signalled \subseteq signalled',
             started \in (1..started) \ crossed =>
               /\ timers[started] = "waiting" => recording' \/ pc'[0] = "cancels"
               /\ Unsignalled(started)' =>
                    recording' /\ process_pid' = started /\ to \notin {"forgets", "clears", "cancels"}
      PROVE  RecorderInv'
  <2>1. to # "idle"
    BY <1>3 DEF StopPcs
  <2>2. QED
    BY <1>1, <1>3, <2>1, StopKeeps
<1>4. pc'[t] \in StopPcs \cup {"idle"} /\ (t # 0 => pc'[0] = pc[0])
  BY <1>1, ThreadFacts DEF StopGoesOn, PidChecked, SignalProcess, SignalFails, PidForgotten,
     RecordingCleared, TimerCancelled, Goes, Left, StopPcs, RecorderTypes
<1>5. CASE PidChecked(t)
  <2> DEFINE to == IF process_pid # 0 THEN "signals" ELSE "clears"
  <2>1. /\ pc[t] = "stops" /\ pc' = [pc EXCEPT ![t] = to] /\ to \in StopPcs
        /\ UNCHANGED <<recording, process_pid, timers, signalled>>
    BY <1>5 DEF PidChecked, Goes, StopPcs
  <2>2. started \in (1..started) \ crossed /\ Unsignalled(started)' =>
          recording' /\ process_pid' = started /\ to \notin {"forgets", "clears", "cancels"}
    BY <1>1, <1>2, <2>1, ThreadFacts DEF Unsignalled
  <2>3. started \in (1..started) \ crossed /\ timers[started] = "waiting" =>
          recording' \/ pc'[0] = "cancels"
    BY <1>1, <1>2, <2>1
  <2>4. QED
    BY <1>3, <2>1, <2>2, <2>3
<1>6. CASE SignalProcess(t)
  <2>1. /\ pc[t] = "signals" /\ pc' = [pc EXCEPT ![t] = "forgets"] /\ "forgets" \in StopPcs
        /\ signalled \subseteq signalled' /\ process_pid \in signalled'
        /\ UNCHANGED <<recording, process_pid, timers>>
    BY <1>6 DEF SignalProcess, Family, Goes, StopPcs
  <2>2. started \in (1..started) \ crossed => ~Unsignalled(started)'
    BY <1>1, <1>2, <2>1 DEF Unsignalled
  <2>3. started \in (1..started) \ crossed /\ timers[started] = "waiting" =>
          recording' \/ pc'[0] = "cancels"
    BY <1>1, <1>2, <2>1
  <2>4. QED
    BY <1>3, <2>1, <2>2, <2>3
<1>7. CASE PidForgotten(t)
  <2>1. /\ pc[t] = "forgets" /\ pc' = [pc EXCEPT ![t] = "clears"] /\ "clears" \in StopPcs
        /\ UNCHANGED <<recording, timers, signalled>>
    BY <1>7 DEF PidForgotten, Goes, StopPcs
  <2>2. started \in (1..started) \ crossed => ~Unsignalled(started)'
    BY <1>1, <1>2, <2>1 DEF Unsignalled
  <2>3. started \in (1..started) \ crossed /\ timers[started] = "waiting" =>
          recording' \/ pc'[0] = "cancels"
    BY <1>1, <1>2, <2>1
  <2>4. QED
    BY <1>3, <2>1, <2>2, <2>3
<1>8. CASE RecordingCleared(t)
  <2>1. /\ pc[t] = "clears" /\ pc' = [pc EXCEPT ![t] = "cancels"] /\ "cancels" \in StopPcs
        /\ UNCHANGED <<process_pid, timers, signalled>>
    BY <1>8 DEF RecordingCleared, Goes, StopPcs
  <2>2. started \in (1..started) \ crossed => ~Unsignalled(started)'
    BY <1>1, <1>2, <2>1 DEF Unsignalled
  <2>3. started \in (1..started) \ crossed /\ timers[started] = "waiting" => pc'[0] = "cancels"
    BY <1>1, <1>2, <2>1 DEF RecorderTypes
  <2>4. QED
    BY <1>3, <2>1, <2>2, <2>3
<1>9. CASE SignalFails(t)
  <2>1. /\ pc[t] = "signals" /\ pc' = [pc EXCEPT ![t] = "idle"]
        /\ timers' = IF t = 0 THEN timers ELSE [timers EXCEPT ![t] = "over"]
        /\ UNCHANGED <<recording, process_pid, signalled>>
    BY <1>9 DEF SignalFails, Left, Goes
  <2>2. /\ timers' \in [Recordings -> {"none", "waiting", "runs", "over"}]
        /\ \A m \in Recordings : timers'[m] = IF m = t THEN "over" ELSE timers[m]
    BY <1>1, <2>1, ThreadFacts
  <2>3. started \in (1..started) \ crossed =>
          /\ timers'[started] = "waiting" => recording' \/ pc'[0] = "cancels"
          /\ Unsignalled(started)' => recording' /\ process_pid' = started
    BY <1>1, <1>2, <2>1, <2>2 DEF Unsignalled
  <2>4. "idle" \in StopPcs \cup {"idle"} /\ "idle" \notin {"forgets", "clears", "cancels"}
    OBVIOUS
  <2>5. QED
    BY <1>1, <2>1, <2>2, <2>3, <2>4, StopKeeps
<1>10. CASE TimerCancelled(t)
  <2>1. /\ pc[t] = "cancels" /\ pc' = [pc EXCEPT ![t] = "idle"]
        /\ timers' = IF t = 0 THEN Cancelled ELSE [Cancelled EXCEPT ![t] = "over"]
        /\ UNCHANGED <<recording, process_pid, signalled>>
    BY <1>10 DEF TimerCancelled, Left, Goes
  <2>2. /\ Cancelled \in [Recordings -> {"none", "waiting", "runs", "over"}]
        /\ \A m \in Recordings :
             Cancelled[m] = IF m = stop_recording_timer /\ timers[m] = "waiting"
                            THEN "over" ELSE timers[m]
    BY <1>1, ThreadFacts DEF Cancelled
  <2>3. /\ timers' \in [Recordings -> {"none", "waiting", "runs", "over"}]
        /\ \A m \in Recordings : timers'[m] = IF m = t THEN "over" ELSE Cancelled[m]
    BY <1>1, <2>1, <2>2, ThreadFacts
  <2>4. started \in (1..started) \ crossed =>
          /\ timers'[started] # "waiting"
          /\ ~Unsignalled(started)'
    BY <1>1, <1>2, <2>1, <2>2, <2>3 DEF Unsignalled
  <2>5. "idle" \in StopPcs \cup {"idle"}
    OBVIOUS
  <2>6. \A m \in Recordings :
          IF m = t THEN timers'[m] = "over"
                   ELSE timers'[m] = timers[m] \/ (timers[m] = "waiting" /\ timers'[m] = "over")
    BY <2>2, <2>3
  <2>7. QED
    BY <1>1, <2>1, <2>3, <2>4, <2>5, <2>6, StopKeeps
<1>11. QED
  BY <1>5, <1>6, <1>7, <1>8, <1>9, <1>10 DEF StopGoesOn

\* stop_recording is entered, by an action or a Timer.
LEMMA StopBeginsStep ==
  ASSUME RecorderInv, NEW t \in Threads,
         (t = 0 /\ StopRequested) \/ (t \in Recordings /\ TimerFires(t))
  PROVE  RecorderInv'
<1>1. /\ RecorderTypes /\ pc' = [pc EXCEPT ![t] = "stops"] /\ "stops" \in StopPcs
      /\ UNCHANGED <<recording, process_pid, stop_recording_timer, started, recorders, signalled, crossed>>
  BY DEF StopRequested, TimerFires, Goes, StopPcs, RecorderInv
<1>2. /\ pc[t] = "idle"
      /\ timers' \in [Recordings -> {"none", "waiting", "runs", "over"}]
      /\ \A m \in Recordings : timers'[m] = IF m = t THEN "runs" ELSE timers[m]
      /\ t \in Recordings => timers[t] = "waiting"
  BY <1>1, ThreadFacts DEF StopRequested, TimerFires, RecorderTypes
<1>3. /\ pc'[t] = "stops" /\ \A s \in Threads \ {t} : pc'[s] = pc[s]
      /\ pc' \in [Threads -> {"idle"} \cup StartPcs \cup StopPcs]
      /\ "stops" \notin StartPcs \cup {"idle", "forgets", "clears", "cancels"}
  BY <1>1 DEF RecorderTypes, StartPcs
<1>4. RecorderTypes'
  <2>1. ASSUME NEW n \in Recordings
        PROVE  /\ pc'[n] \notin StartPcs
               /\ timers'[n] = "runs" <=> pc'[n] # "idle"
               /\ n > started => timers'[n] = "none"
    BY <1>1, <1>2, <1>3, ThreadFacts DEF RecorderTypes
  <2>2. pc'[0] \in StartPcs => started \in Recordings /\ timers'[started] = "none"
    BY <1>1, <1>2, <1>3, ThreadFacts DEF RecorderTypes
  <2>3. QED
    BY <1>1, <1>2, <1>3, <2>1, <2>2 DEF RecorderTypes
<1>5. ASSUME NEW m \in (1..started) \ crossed, m # started, Past(m) PROVE Past(m)'
  <2>1. m \in Recordings
    BY <1>1, ThreadFacts DEF RecorderTypes, Recordings
  <2>2. QED
    BY <1>1, <1>2, <1>5, <2>1 DEF Past
<1>6. ASSUME started \in (1..started) \ crossed PROVE Current(started)'
  <2>1. Current(started) /\ started \in Recordings
    BY <1>1, <1>6 DEF RecorderInv, RecorderTypes, Recordings
  <2>2. t \in {0, started}
    BY <1>2, <2>1, ThreadFacts DEF Current
  <2>3. \A m \in Recordings \ {started} : timers'[m] \notin {"waiting", "runs"}
    BY <1>2, <2>1, <2>2, ThreadFacts DEF Current
  <2>4. pc[0] \in StartPcs => t # 0 /\ pc'[0] = pc[0]
    BY <1>2, <1>3, ThreadFacts DEF StartPcs
  <2>5. pc[0] \notin StartPcs => pc'[0] \notin StartPcs
    BY <1>3, ThreadFacts
  <2>6. CASE pc[0] \in StartPcs
    BY <1>1, <2>1, <2>3, <2>4, <2>6 DEF Current
  <2>7. CASE pc[0] \notin StartPcs
    <3>1. /\ stop_recording_timer = started /\ timers[started] # "none"
          /\ timers[started] = "waiting" => recording \/ pc[0] = "cancels"
          /\ Unsignalled(started) =>
               /\ recording /\ process_pid = started
               /\ \A s \in {0, started} : pc[s] \notin {"forgets", "clears", "cancels"}
      BY <2>1, <2>7 DEF Current
    <3>2. /\ timers'[started] # "none"
          /\ timers'[started] = "waiting" => timers[started] = "waiting"
          /\ Unsignalled(started)' = Unsignalled(started)
      BY <1>1, <1>2, <2>1, <3>1 DEF Unsignalled
    <3>3. timers'[started] = "waiting" => recording \/ pc'[0] = "cancels"
      <4>1. CASE t = 0
        <5>1. pc[0] = "idle"
          BY <1>2, <4>1
        <5>2. QED
          BY <3>1, <3>2, <5>1
      <4>2. CASE t = started
        BY <1>2, <2>1, <4>2
      <4>3. QED
        BY <2>2, <4>1, <4>2
    <3>4. Unsignalled(started) =>
            \A s \in {0, started} : pc'[s] \notin {"forgets", "clears", "cancels"}
      BY <1>3, <2>1, <3>1, ThreadFacts
    <3>5. QED
      BY <1>1, <2>3, <2>5, <2>7, <3>1, <3>2, <3>3, <3>4 DEF Current, StartPcs
  <2>8. QED
    BY <2>6, <2>7
<1>7. QED
  BY <1>1, <1>4, <1>5, <1>6 DEF RecorderInv

LEMMA RecorderStep ==
  ASSUME RecorderInv, [RecorderNext]_recorderVars
  PROVE  RecorderInv'
<1>1. ASSUME UNCHANGED <<recording, process_pid, stop_recording_timer, started, timers, pc, signalled, crossed>>,
             recorders' \subseteq recorders
      PROVE  RecorderInv'
  <2>1. RecorderTypes'
    BY <1>1 DEF RecorderInv, RecorderTypes
  <2>2. \A n \in Recordings \cup {started} : (Current(n) => Current(n)') /\ (Past(n) => Past(n)')
    BY <1>1 DEF Current, Past, Unsignalled
  <2>3. 1..started \subseteq Recordings
    BY ThreadFacts DEF RecorderInv, RecorderTypes, Recordings
  <2>4. QED
    BY <1>1, <2>1, <2>2, <2>3 DEF RecorderInv
<1>2. CASE UNCHANGED recorderVars
  BY <1>1, <1>2 DEF recorderVars
<1>3. CASE \E n \in Recordings : RecorderEnds(n)
  BY <1>1, <1>3 DEF RecorderEnds
<1>4. CASE StopRequested
  BY <1>4, StopBeginsStep, ThreadFacts
<1>5. CASE \E n \in Recordings : TimerFires(n)
  BY <1>5, StopBeginsStep, ThreadFacts
<1>6. QED
  BY <1>2, <1>3, <1>4, <1>5, StartRecordingStep, StartGoesOnStep, StopGoesOnStep DEF RecorderNext

\* The theorem of RecorderKnown (start_recording, stop_recording): with the Timers
\* beside the executor, for any number of recordings.
THEOREM RecorderCorrect == Spec => []RecorderKnown
<1>1. Init => RecorderInv
  <2> SUFFICES ASSUME Init PROVE RecorderInv
    OBVIOUS
  <2>1. /\ started = 0 /\ recorders = {} /\ crossed = {}
        /\ timers = [n \in Recordings |-> "none"] /\ pc = [t \in Threads |-> "idle"]
    BY DEF Init, RecorderInit
  <2>2. pc[0] = "idle" /\ \A n \in Recordings : pc[n] = "idle"
    BY <2>1, ThreadFacts
  <2>3. pc \in [Threads -> {"idle"} \cup StartPcs \cup StopPcs]
    BY <2>1
  <2>4. timers \in [Recordings -> {"none", "waiting", "runs", "over"}]
    BY <2>1
  <2>5. RecorderTypes
    BY <2>1, <2>2, <2>3, <2>4, ThreadFacts DEF RecorderTypes, StartPcs
  <2>6. 1..started = {}
    BY <2>1
  <2>7. QED
    BY <2>5, <2>6 DEF RecorderInv
<1>2. [Next]_vars => [RecorderNext]_recorderVars
  BY DEF Next, vars
<1>3. RecorderInv /\ [RecorderNext]_recorderVars => RecorderInv'
  BY RecorderStep
<1>4. RecorderInv => RecorderKnown
  <2> SUFFICES ASSUME RecorderInv, NEW n \in recorders \ (signalled \cup crossed)
               PROVE  /\ n = started
                      /\ pc[0] \in StartPcs \/
                           (recording /\ process_pid = n /\ stop_recording_timer = n /\ timers[n] # "none")
                      /\ \A m \in Recordings \ {n} : timers[m] \notin {"waiting", "runs"}
    BY DEF RecorderKnown, StartPcs
  <2>1. n \in (1..started) \ crossed /\ Unsignalled(n)
    BY DEF RecorderInv, RecorderTypes, Unsignalled
  <2>2. n = started /\ Current(started)
    BY <2>1 DEF RecorderInv, Past, Unsignalled
  <2>3. QED
    BY <2>1, <2>2 DEF Current
<1>5. QED
  BY <1>1, <1>2, <1>3, <1>4, PTL DEF Spec
=============================================================================
