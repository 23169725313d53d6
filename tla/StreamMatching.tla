--------------------------- MODULE StreamMatching ---------------------------
(***************************************************************************)
(* What the stream synchronizer promises when every message belongs to a   *)
(* frame, the instant at which all the cameras take an image: the messages *)
(* of a frame are matched together, frame by frame, once no stream can add *)
(* a message to the frame.                                                 *)
(***************************************************************************)
EXTENDS Integers, FiniteSets

CONSTANTS Streams, Frames, MinMessages

VARIABLES
  waiting, \* the messages received and not matched: pairs of stream and frame
  latest,  \* latest[i]: the frame of the last message of stream i, or -1
  matched  \* the frame of the last match and its streams

vars == <<waiting, latest, matched>>

Init ==
  /\ waiting = {}
  /\ latest = [i \in Streams |-> -1]
  /\ matched = [frame |-> -1, streams |-> {}]

\* The earliest of the messages of stream i that wait.
Earliest(i, k) == <<i, k>> \in waiting /\ \A l \in Frames : <<i, l>> \in waiting => k <= l

\* A message is received; the stream may lose its earliest one for it.
Receive(i, k) ==
  /\ k > latest[i]
  /\ latest' = [latest EXCEPT ![i] = k]
  /\ \/ waiting' = waiting \cup {<<i, k>>}
     \/ \E l \in Frames : /\ Earliest(i, l)
                          /\ waiting' = (waiting \ {<<i, l>>}) \cup {<<i, k>>}
  /\ UNCHANGED matched

\* Every stream waits, and the earliest frame is k: all its messages leave,
\* and they are a match if they are enough.
Decide(k) ==
  LET members == {i \in Streams : <<i, k>> \in waiting} IN
  /\ \A i \in Streams : \E l \in Frames : <<i, l>> \in waiting
  /\ members # {}
  /\ \A i \in Streams : \A l \in Frames : <<i, l>> \in waiting => k <= l
  /\ waiting' = waiting \ {<<i, k>> : i \in members}
  /\ matched' = IF Cardinality(members) >= MinMessages
                THEN [frame |-> k, streams |-> members] ELSE matched
  /\ UNCHANGED latest

Clear ==
  /\ waiting' = {}
  /\ UNCHANGED <<latest, matched>>

Next ==
  \/ \E i \in Streams : \E k \in Frames : Receive(i, k)
  \/ \E k \in Frames : Decide(k)
  \/ Clear

Spec == Init /\ [][Next]_vars
=============================================================================
