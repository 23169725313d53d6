------------------------ MODULE SynchronizedStreams ------------------------
(***************************************************************************)
(* The stream synchronizer for streams that belong together: two messages  *)
(* are of the same frame exactly when their timestamps are within the      *)
(* threshold.  It then implements StreamMatching.                          *)
(***************************************************************************)
EXTENDS StreamSynchronizer

CONSTANT FrameOf \* FrameOf[t]: the frame of the messages with timestamp t

ASSUME FramesAssumption ==
  /\ FrameOf \in [Times -> Nat]
  /\ \A t, u \in Times : t <= u => FrameOf[t] <= FrameOf[u]
  /\ \A t, u \in Times : t <= u => (FrameOf[t] = FrameOf[u] <=> u <= t + Threshold)
  /\ Period > Threshold

Frames == {FrameOf[t] : t \in Times}

FrameAt(t) == IF t = -1 THEN -1 ELSE FrameOf[t]

\* The refinement mapping: the frames that wait, and the last frame of each
\* stream, and of the callback.
WaitingFrames ==
  {m \in Streams \X Frames : \E t \in Waiting(m[1]) : FrameOf[t] = m[2]}

LatestFrames == [i \in Streams |-> FrameAt(buffers[i].current)]

MatchedFrame ==
  [frame |-> FrameAt(callback.time), streams |-> {m[1] : m \in callback.messages}]

Matching ==
  INSTANCE StreamMatching WITH
    waiting <- WaitingFrames, latest <- LatestFrames, matched <- MatchedFrame

\* The synchronizer matches the messages of each frame together, all of them
\* that wait, when every stream is at the frame or past it: messages are lost
\* to eviction and ClearBuffers only (AddMessage, PopBuffersAndTriggerCallback).
MatchesFrames == Matching!Spec

\* The timestamps the callback gets increase, over messages lost, evicted and
\* cleared (TriggerCallbackWithMessages).
CallbackTimesIncrease ==
  [][callback' # callback => callback'.time > callback.time]_vars
=============================================================================
