------------------------- MODULE StreamSynchronizer -------------------------
(***************************************************************************)
(* MessageStreamSynchronizer: matches the messages of several streams (the *)
(* cameras of a robot) by their timestamps.  One thread, the subscriber's, *)
(* calls it.  PopBuffersAndTriggerCallback is a loop: each of its rounds   *)
(* is an action, so that the callback of each round can be seen.           *)
(***************************************************************************)
EXTENDS MessageBuffer, FiniteSets

CONSTANTS
  NumTopics,   \* message_buffers_.size()
  Threshold,   \* timestamp_delta_threshold_ns_
  MinMessages, \* min_num_messages_
  Period       \* the least time between two messages of a stream

ASSUME SynchronizerAssumption ==
  /\ NumTopics \in Nat \ {0}
  /\ Threshold \in Nat
  /\ MinMessages \in Nat
  /\ Period \in Nat \ {0}

VARIABLES
  pc,       \* "idle", or "popping" inside PopBuffersAndTriggerCallback
  buffers,  \* message_buffers_
  callback  \* the last call of callback_: its time and its messages

vars == <<pc, buffers, callback>>

Streams == 0 .. NumTopics - 1

Messages == {<<i, t>> : i \in Streams, t \in Times}

NoCallback == [time |-> -1, messages |-> {}]

Init ==
  /\ pc = "idle"
  /\ buffers = [i \in Streams |-> EmptyBuffer]
  /\ callback = NoCallback

-----------------------------------------------------------------------------
\* A stream delivers its messages in the order of their timestamps; some may
\* never arrive.
AddMessage(i, t, trigger) ==
  /\ pc = "idle"
  /\ buffers[i].current = -1 \/ t >= buffers[i].current + Period
  /\ buffers' = [buffers EXCEPT ![i] = Push(@, t)]
  /\ pc' = IF trigger THEN "popping" ELSE "idle"
  /\ UNCHANGED callback

\* PopBuffersAndTriggerCallback is also called by the user, after messages
\* added without a trigger.
StartPopping ==
  /\ pc = "idle"
  /\ pc' = "popping"
  /\ UNCHANGED <<buffers, callback>>

ClearBuffers ==
  /\ pc = "idle"
  /\ buffers' = [i \in Streams |-> ClearAll(buffers[i])]
  /\ UNCHANGED <<pc, callback>>

\* PeekMessageTimestamps returns no timestamps unless every buffer has one.
SomeBufferEmpty == \E i \in Streams : IsEmpty(buffers[i])

\* Mutant of FrontMatchIndices: the bound itself is left out.
FrontMatchIndicesBefore ==
  {i \in Streams :
     \A j \in Streams : i # j => buffers[i].next < buffers[j].next + Threshold}

\* GetIndicesOfMessagesBeforeThreshold of the timestamps of the fronts.
FrontMatchIndices ==
  {i \in Streams :
     \A j \in Streams : buffers[i].next <= buffers[j].next + Threshold}

\* The callback gets the latest of the matching timestamps.
TriggerCallbackWithMessages(indices) ==
  \E i \in indices :
    /\ \A j \in indices : buffers[j].next <= buffers[i].next
    /\ callback' = [time |-> buffers[i].next,
                    messages |-> {<<j, Peek(buffers[j])>> : j \in indices}]

PopRound ==
  /\ pc = "popping"
  /\ ~SomeBufferEmpty
  /\ IF Cardinality(FrontMatchIndices) >= MinMessages
     THEN TriggerCallbackWithMessages(FrontMatchIndices)
     ELSE UNCHANGED callback
  /\ buffers' = [i \in Streams |-> IF i \in FrontMatchIndices THEN Pop(buffers[i])
                                   ELSE buffers[i]]
  /\ UNCHANGED pc

PopReturns ==
  /\ pc = "popping"
  /\ SomeBufferEmpty
  /\ pc' = "idle"
  /\ UNCHANGED <<buffers, callback>>

Next ==
  \/ \E i \in Streams : \E t \in Times : \E trigger \in BOOLEAN : AddMessage(i, t, trigger)
  \/ StartPopping
  \/ ClearBuffers
  \/ PopRound
  \/ PopReturns

Spec == Init /\ [][Next]_vars

-----------------------------------------------------------------------------
\* The buffers have no more messages than they may, with the types they have.
TypeOK ==
  /\ pc \in {"idle", "popping"}
  /\ buffers \in [Streams -> Buffer]
  /\ \A i \in Streams : Len(buffers[i].msgs) <= BufferSize
  /\ callback \in [time : Times \cup {-1}, messages : SUBSET Messages]

\* The timestamp a message is matched by (GetNextTimeStamp) is the one of the
\* message the callback gets (Peek), whatever pushes, evictions, pops and
\* clears came before.
NextIsFront ==
  \A i \in Streams :
    ~IsEmpty(buffers[i]) => buffers[i].next = Peek(buffers[i])

\* A match of the message m among those that wait: MinMessages messages of
\* different streams, m one of them, within the threshold of each other.
Waiting(i) == Range(buffers[i].msgs)

HasMatch(m) ==
  \E S \in SUBSET Streams :
    /\ m[1] \in S /\ Cardinality(S) >= MinMessages
    /\ \E match \in [S -> Times] :
         /\ match[m[1]] = m[2]
         /\ \A i \in S : match[i] \in Waiting(i)
         /\ \A i, j \in S : match[i] <= match[j] + Threshold

\* A round pops only "messages that can no longer be a match": one that does
\* not go to the callback had no match among those that wait
\* (PopBuffersAndTriggerCallback).
OnlyUnmatchedDropped ==
  [][pc = "popping" /\ ~SomeBufferEmpty =>
       \A i \in Streams :
         buffers'[i] # buffers[i] =>
           \/ <<i, Peek(buffers[i])>> \in callback'.messages
           \/ ~HasMatch(<<i, Peek(buffers[i])>>)]_vars
=============================================================================
