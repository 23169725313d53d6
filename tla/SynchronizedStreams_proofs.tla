--------------------- MODULE SynchronizedStreams_proofs ---------------------
(***************************************************************************)
(* Theorems about the stream synchronizer, for any number of streams and   *)
(* any size of the buffers: its buffers keep their invariants, and for     *)
(* streams of common frames it implements StreamMatching.                  *)
(***************************************************************************)
EXTENDS SynchronizedStreams, SequenceTheorems,
        FiniteSetTheorems, TLAPS

-----------------------------------------------------------------------------
(***************************************************************************)
(* Lists of timestamps that are at least a period apart.                   *)
(***************************************************************************)
Spaced(s) == \A m, n \in 1 .. Len(s) : m < n => s[m] + Period <= s[n]

UpTo(s, t) == \A n \in 1 .. Len(s) : s[n] <= t

\* What the other lemmas use of the types of the constants and of a list.
LEMMA ListTypes ==
  ASSUME NEW s \in Seq(Times)
  PROVE  /\ Len(s) \in Nat /\ DOMAIN s = 1 .. Len(s)
         /\ \A n \in 1 .. Len(s) : s[n] \in Times /\ s[n] \in Nat
         /\ Times \subseteq Nat /\ Period \in Nat \ {0} /\ BufferSize \in Nat \ {0}
         /\ (s = << >> <=> Len(s) = 0)
BY LenProperties, EmptySeq, ElementOfSeq, BufferAssumption, SynchronizerAssumption

\* The timestamps of a spaced list are different: without its first one,
\* exactly that one is missing.
LEMMA SpacedTail ==
  ASSUME NEW s \in Seq(Times), s # << >>, Spaced(s)
  PROVE  /\ Tail(s) \in Seq(Times) /\ Len(Tail(s)) = Len(s) - 1
         /\ Head(s) = s[1] /\ Head(s) \in Times
         /\ Spaced(Tail(s))
         /\ \A t \in Int : UpTo(s, t) => UpTo(Tail(s), t)
         /\ Range(Tail(s)) = Range(s) \ {Head(s)}
<1> DEFINE rest == Tail(s)
<1>1. /\ rest \in Seq(Times) /\ Len(rest) = Len(s) - 1
      /\ \A i \in 1 .. Len(s) - 1 : rest[i] = s[i + 1]
      /\ Head(s) = s[1] /\ Head(s) \in Times
  BY HeadTailProperties
<1>2. /\ Len(s) \in Nat \ {0} /\ DOMAIN s = 1 .. Len(s) /\ Period \in Nat \ {0}
      /\ DOMAIN rest = 1 .. Len(s) - 1
      /\ \A n \in 1 .. Len(s) : s[n] \in Nat
  BY <1>1, ListTypes
<1> HIDE DEF rest
<1>3. Spaced(rest)
  <2> SUFFICES ASSUME NEW m \in 1 .. Len(rest), NEW n \in 1 .. Len(rest), m < n
               PROVE  rest[m] + Period <= rest[n]
    BY DEF Spaced
  <2>1. /\ m + 1 \in 1 .. Len(s) /\ n + 1 \in 1 .. Len(s) /\ m + 1 < n + 1
        /\ rest[m] = s[m + 1] /\ rest[n] = s[n + 1]
    BY <1>1, <1>2
  <2> QED BY <2>1 DEF Spaced
<1>4. \A t \in Int : UpTo(s, t) => UpTo(rest, t)
  <2> SUFFICES ASSUME NEW t \in Int, UpTo(s, t), NEW n \in 1 .. Len(rest)
               PROVE  rest[n] <= t
    BY DEF UpTo
  <2>1. n + 1 \in 1 .. Len(s) /\ rest[n] = s[n + 1]
    BY <1>1, <1>2
  <2> QED BY <2>1 DEF UpTo
<1>5. Range(rest) = {s[n] : n \in 2 .. Len(s)}
  <2>1. \A n \in 2 .. Len(s) : n - 1 \in 1 .. Len(s) - 1 /\ rest[n - 1] = s[n]
    BY <1>1, <1>2
  <2>2. \A n \in 1 .. Len(s) - 1 : n + 1 \in 2 .. Len(s) /\ rest[n] = s[n + 1]
    BY <1>1, <1>2
  <2>3. Range(rest) = {rest[n] : n \in 1 .. Len(s) - 1}
    BY <1>2 DEF Range
  <2>4. {rest[n] : n \in 1 .. Len(s) - 1} \subseteq {s[n] : n \in 2 .. Len(s)}
    BY <2>2
  <2>5. {s[n] : n \in 2 .. Len(s)} \subseteq {rest[n] : n \in 1 .. Len(s) - 1}
    BY <2>1
  <2> QED BY <2>3, <2>4, <2>5
<1>6. \A n \in 2 .. Len(s) : s[n] # s[1]
  BY <1>2 DEF Spaced
<1>7. Range(s) = {s[n] : n \in 2 .. Len(s)} \cup {s[1]}
  BY <1>2 DEF Range
<1> QED BY <1>1, <1>3, <1>4, <1>5, <1>6, <1>7 DEF rest

\* A later timestamp can be appended to a spaced list.
LEMMA SpacedAppend ==
  ASSUME NEW s \in Seq(Times), Spaced(s), NEW t \in Times,
         \A n \in 1 .. Len(s) : s[n] + Period <= t
  PROVE  /\ Append(s, t) \in Seq(Times) /\ Len(Append(s, t)) = Len(s) + 1
         /\ Append(s, t) # << >> /\ Head(Append(s, t)) \in Times
         /\ Spaced(Append(s, t)) /\ UpTo(Append(s, t), t)
         /\ Range(Append(s, t)) = Range(s) \cup {t}
<1> DEFINE new == Append(s, t)
<1>1. /\ new \in Seq(Times) /\ Len(new) = Len(s) + 1 /\ new # << >>
      /\ \A n \in 1 .. Len(s) : new[n] = s[n]
      /\ new[Len(s) + 1] = t
  BY AppendProperties
<1>2. /\ Len(s) \in Nat /\ DOMAIN s = 1 .. Len(s) /\ Period \in Nat \ {0} /\ t \in Nat
      /\ DOMAIN new = 1 .. Len(s) + 1
      /\ \A n \in 1 .. Len(s) : s[n] \in Nat
  BY <1>1, ListTypes
<1> HIDE DEF new
<1>3. Head(new) \in Times
  BY <1>1, HeadTailProperties
<1>4. \A n \in 1 .. Len(s) + 1 : (n \in 1 .. Len(s) /\ new[n] = s[n]) \/ (n = Len(s) + 1 /\ new[n] = t)
  BY <1>1, <1>2
<1>5. Spaced(new)
  <2> SUFFICES ASSUME NEW m \in 1 .. Len(new), NEW n \in 1 .. Len(new), m < n
               PROVE  new[m] + Period <= new[n]
    BY DEF Spaced
  <2>1. m \in 1 .. Len(s) /\ new[m] = s[m]
    BY <1>1, <1>2
  <2>2. CASE n \in 1 .. Len(s) /\ new[n] = s[n]
    BY <2>1, <2>2 DEF Spaced
  <2>3. CASE n = Len(s) + 1 /\ new[n] = t
    BY <2>1, <2>3
  <2> QED BY <1>1, <1>4, <2>2, <2>3
<1>6. UpTo(new, t)
  <2> SUFFICES ASSUME NEW n \in 1 .. Len(s) + 1 PROVE new[n] <= t
    BY <1>1 DEF UpTo
  <2>1. CASE n \in 1 .. Len(s) /\ new[n] = s[n]
    BY <1>2, <2>1
  <2>2. CASE n = Len(s) + 1 /\ new[n] = t
    BY <1>2, <2>2
  <2> QED BY <1>4, <2>1, <2>2
<1>7. Range(new) = Range(s) \cup {t}
  <2>1. Range(new) = {new[n] : n \in 1 .. Len(s) + 1}
    BY <1>2 DEF Range
  <2>2. Range(s) = {s[n] : n \in 1 .. Len(s)}
    BY <1>2 DEF Range
  <2>3. /\ \A n \in 1 .. Len(s) : n \in 1 .. Len(s) + 1
        /\ Len(s) + 1 \in 1 .. Len(s) + 1
    BY <1>2
  <2> QED BY <1>1, <1>4, <2>1, <2>2, <2>3
<1> QED BY <1>1, <1>3, <1>5, <1>6, <1>7 DEF new

-----------------------------------------------------------------------------
(***************************************************************************)
(* One buffer.                                                             *)
(***************************************************************************)
\* Its messages are spaced, none is later than the current timestamp, and the
\* next timestamp is the one in front.
BufferInv(b) ==
  /\ b \in Buffer
  /\ Len(b.msgs) <= BufferSize
  /\ ~IsEmpty(b) => b.next = Peek(b)
  /\ Spaced(b.msgs) /\ UpTo(b.msgs, b.current)

\* Nothing is waiting in a new buffer.
LEMMA EmptyBufferInv == BufferInv(EmptyBuffer)
<1>1. << >> \in Seq(Times) /\ Len(<< >>) = 0
  BY EmptySeq
<1>2. EmptyBuffer \in Buffer /\ EmptyBuffer.msgs = << >>
  BY <1>1 DEF EmptyBuffer, Buffer
<1>3. \A n \in 1 .. 0 : FALSE
  OBVIOUS
<1> QED BY <1>1, <1>2, <1>3, BufferAssumption DEF BufferInv, IsEmpty, Spaced, UpTo

\* The message pushed comes last, in the room of the first one if it has to.
LEMMA PushInv ==
  ASSUME NEW b, BufferInv(b), NEW t \in Times,
         b.current = -1 \/ t >= b.current + Period
  PROVE  /\ BufferInv(Push(b, t))
         /\ Push(b, t).current = t
         /\ \/ Range(Push(b, t).msgs) = Range(b.msgs) \cup {t}
            \/ /\ ~IsEmpty(b)
               /\ Range(Push(b, t).msgs) = (Range(b.msgs) \ {Peek(b)}) \cup {t}
<1> DEFINE kept == IF Len(b.msgs) >= BufferSize THEN Tail(b.msgs) ELSE b.msgs
           new == Append(kept, t)
<1>1. /\ b.msgs \in Seq(Times) /\ Spaced(b.msgs) /\ UpTo(b.msgs, b.current)
      /\ Len(b.msgs) <= BufferSize /\ b.last \in Times \cup {-1}
      /\ b.current \in Times \cup {-1}
  BY DEF BufferInv, Buffer
<1>2. /\ Len(b.msgs) \in Nat /\ Times \subseteq Nat /\ Period \in Nat \ {0}
      /\ BufferSize \in Nat \ {0}
      /\ (b.msgs = << >> <=> Len(b.msgs) = 0)
  BY <1>1, ListTypes
<1>3. /\ kept \in Seq(Times) /\ Spaced(kept) /\ UpTo(kept, b.current)
      /\ Len(kept) < BufferSize
      /\ \/ Range(kept) = Range(b.msgs)
         \/ b.msgs # << >> /\ Range(kept) = Range(b.msgs) \ {Head(b.msgs)}
  <2>1. CASE Len(b.msgs) >= BufferSize
    <3>1. kept = Tail(b.msgs) /\ b.msgs # << >>
      BY <1>2, <2>1
    <3> HIDE DEF kept
    <3>2. b.current \in Int
      BY <1>1, <1>2
    <3>3. Len(b.msgs) - 1 < BufferSize
      BY <1>1, <1>2
    <3> QED BY <1>1, <1>2, <3>1, <3>2, <3>3, SpacedTail
  <2>2. CASE ~(Len(b.msgs) >= BufferSize)
    <3>1. kept = b.msgs
      BY <2>2
    <3> HIDE DEF kept
    <3>2. Len(b.msgs) < BufferSize
      BY <1>2, <2>2
    <3> QED BY <1>1, <3>1, <3>2
  <2> QED BY <2>1, <2>2
<1> HIDE DEF kept
<1>4. \A n \in 1 .. Len(kept) : kept[n] + Period <= t
  <2> SUFFICES ASSUME NEW n \in 1 .. Len(kept)
               PROVE  kept[n] + Period <= t
    OBVIOUS
  <2>1. kept[n] \in Nat
    BY <1>3, ListTypes
  <2>2. kept[n] <= b.current
    BY <1>3 DEF UpTo
  <2>3. b.current \in Int /\ t \in Nat /\ Period \in Nat
    <3>1. b.current \in Times \cup {-1} /\ Times \subseteq Nat /\ t \in Times
      BY <1>1, <1>2
    <3>2. \A u \in Nat : u \in Int
      OBVIOUS
    <3>3. t \in Nat
      BY <3>1
    <3>4. b.current = -1 \/ b.current \in Nat
      BY <3>1
    <3>5. Period \in Nat
      BY <1>2
    <3> QED BY <3>2, <3>3, <3>4, <3>5
  <2>4. b.current # -1
    BY <2>1, <2>2, <2>3
  <2>5. b.current + Period <= t
    BY <2>3, <2>4
  <2> QED BY <2>1, <2>2, <2>3, <2>5
<1>5. /\ new \in Seq(Times) /\ Len(new) = Len(kept) + 1 /\ new # << >>
      /\ Head(new) \in Times /\ Spaced(new) /\ UpTo(new, t)
      /\ Range(new) = Range(kept) \cup {t}
  BY <1>3, <1>4, SpacedAppend
<1> HIDE DEF new
<1>6. Push(b, t) = [msgs |-> new, last |-> b.last, current |-> t, next |-> Head(new)]
  BY DEF Push, new, kept
<1>7. /\ Push(b, t).msgs = new /\ Push(b, t).current = t
      /\ Push(b, t).next = Head(new) /\ Push(b, t) \in Buffer
  BY <1>1, <1>5, <1>6 DEF Buffer
<1>8. Len(new) <= BufferSize
  BY <1>2, <1>3, <1>5, ListTypes
<1>9. BufferInv(Push(b, t))
  BY <1>5, <1>7, <1>8 DEF BufferInv, IsEmpty, Peek
<1> QED BY <1>3, <1>5, <1>7, <1>9 DEF IsEmpty, Peek

\* The first message is gone, and it alone.
LEMMA PopInv ==
  ASSUME NEW b, BufferInv(b), ~IsEmpty(b)
  PROVE  /\ BufferInv(Pop(b))
         /\ Pop(b).current = b.current
         /\ Range(Pop(b).msgs) = Range(b.msgs) \ {Peek(b)}
<1> DEFINE rest == Tail(b.msgs)
<1>1. /\ b.msgs \in Seq(Times) /\ b.msgs # << >> /\ Spaced(b.msgs)
      /\ UpTo(b.msgs, b.current) /\ Len(b.msgs) <= BufferSize
      /\ b.current \in Times \cup {-1}
  BY DEF BufferInv, Buffer, IsEmpty
<1>2. b.current \in Int /\ Len(b.msgs) \in Nat /\ BufferSize \in Nat
  BY <1>1, ListTypes
<1>3. /\ rest \in Seq(Times) /\ Len(rest) <= BufferSize
      /\ Head(b.msgs) \in Times /\ Spaced(rest) /\ UpTo(rest, b.current)
      /\ Range(rest) = Range(b.msgs) \ {Head(b.msgs)}
      /\ rest # << >> => Head(rest) \in Times
  BY <1>1, <1>2, SpacedTail, HeadTailProperties
<1> HIDE DEF rest
<1>4. Pop(b) = [msgs |-> rest, last |-> Head(b.msgs), current |-> b.current,
                next |-> IF rest = << >> THEN -1 ELSE Head(rest)]
  BY DEF Pop, rest
<1>5. /\ Pop(b) \in Buffer /\ Pop(b).msgs = rest /\ Pop(b).current = b.current
      /\ rest # << >> => Pop(b).next = Head(rest)
  BY <1>1, <1>3, <1>4 DEF Buffer
<1> QED BY <1>3, <1>5 DEF BufferInv, IsEmpty, Peek

\* A cleared buffer is empty; the current timestamp is kept.
LEMMA ClearAllInv ==
  ASSUME NEW b, BufferInv(b)
  PROVE  /\ BufferInv(ClearAll(b))
         /\ ClearAll(b).current = b.current
         /\ Range(ClearAll(b).msgs) = {}
<1>1. << >> \in Seq(Times) /\ Len(<< >>) = 0
  BY EmptySeq
<1>2. /\ ClearAll(b) \in Buffer /\ ClearAll(b).msgs = << >>
      /\ ClearAll(b).current = b.current
  BY <1>1 DEF ClearAll, BufferInv, Buffer
<1>3. \A n \in 1 .. 0 : FALSE
  OBVIOUS
<1>4. Range(<< >>) = {}
  BY <1>1, <1>3, LenProperties DEF Range
<1> QED BY <1>1, <1>2, <1>3, <1>4, BufferAssumption DEF BufferInv, IsEmpty, Spaced, UpTo

-----------------------------------------------------------------------------
(***************************************************************************)
(* All the buffers.                                                        *)
(***************************************************************************)
BuffersInv ==
  /\ pc \in {"idle", "popping"}
  /\ buffers \in [Streams -> Buffer]
  /\ \A i \in Streams : BufferInv(buffers[i])
  /\ callback \in [time : Times \cup {-1}, messages : SUBSET Messages]

LEMMA InitBuffers == Init => BuffersInv
<1> SUFFICES ASSUME Init PROVE BuffersInv
  OBVIOUS
<1>1. EmptyBuffer \in Buffer /\ BufferInv(EmptyBuffer)
  BY EmptyBufferInv DEF BufferInv
<1> QED BY <1>1 DEF Init, BuffersInv, NoCallback

\* The front of a buffer that is not empty, as the round sees it.
LEMMA FrontOfBuffer ==
  ASSUME BuffersInv, NEW i \in Streams, ~IsEmpty(buffers[i])
  PROVE  /\ buffers[i].next = Peek(buffers[i])
         /\ Peek(buffers[i]) \in Waiting(i)
         /\ Waiting(i) \subseteq Times
         /\ \A t \in Waiting(i) : Peek(buffers[i]) <= t /\ t <= buffers[i].current
         /\ \A t \in Waiting(i) :
              t # Peek(buffers[i]) => Peek(buffers[i]) + Period <= t
<1> DEFINE s == buffers[i].msgs
<1>1. /\ s \in Seq(Times) /\ s # << >> /\ Spaced(s) /\ UpTo(s, buffers[i].current)
      /\ buffers[i].next = Head(s) /\ Peek(buffers[i]) = Head(s)
  BY DEF BuffersInv, BufferInv, Buffer, IsEmpty, Peek
<1>2. Waiting(i) = Range(s)
  BY DEF Waiting
<1> HIDE DEF s
<1>3. /\ Len(s) \in Nat \ {0} /\ DOMAIN s = 1 .. Len(s)
      /\ \A n \in 1 .. Len(s) : s[n] \in Times /\ s[n] \in Nat
      /\ Period \in Nat \ {0}
  BY <1>1, ListTypes
<1>4. Head(s) = s[1]
  BY <1>1, SpacedTail
<1>5. \A n \in 1 .. Len(s) : n # 1 => s[1] + Period <= s[n]
  BY <1>1, <1>3 DEF Spaced
<1>6. \A n \in 1 .. Len(s) : s[n] <= buffers[i].current
  BY <1>1 DEF UpTo
<1>7. Range(s) = {s[n] : n \in 1 .. Len(s)}
  BY <1>3 DEF Range
<1>8. 1 \in 1 .. Len(s)
  BY <1>3
<1>9. \A n \in 1 .. Len(s) : s[1] <= s[n]
  BY <1>3, <1>5, <1>8
<1> QED BY <1>1, <1>2, <1>3, <1>4, <1>5, <1>6, <1>7, <1>8, <1>9

LEMMA AddMessageBuffers ==
  ASSUME BuffersInv, NEW i \in Streams, NEW t \in Times, NEW trigger \in BOOLEAN,
         AddMessage(i, t, trigger)
  PROVE  BuffersInv'
<1>1. BufferInv(Push(buffers[i], t))
  BY PushInv DEF BuffersInv, AddMessage
<1>2. buffers' = [buffers EXCEPT ![i] = Push(buffers[i], t)]
  BY DEF AddMessage
<1>3. buffers' \in [Streams -> Buffer] /\ \A j \in Streams : BufferInv(buffers'[j])
  BY <1>1, <1>2 DEF BuffersInv, BufferInv
<1> QED BY <1>3 DEF BuffersInv, AddMessage

LEMMA ClearBuffersBuffers ==
  ASSUME BuffersInv, ClearBuffers
  PROVE  BuffersInv'
<1>1. \A j \in Streams : BufferInv(ClearAll(buffers[j]))
  BY ClearAllInv DEF BuffersInv
<1>2. buffers' \in [Streams -> Buffer] /\ \A j \in Streams : BufferInv(buffers'[j])
  BY <1>1 DEF ClearBuffers, BufferInv
<1> QED BY <1>2 DEF BuffersInv, ClearBuffers

LEMMA PopRoundBuffers ==
  ASSUME BuffersInv, PopRound
  PROVE  BuffersInv'
<1>1. \A j \in Streams : ~IsEmpty(buffers[j]) /\ BufferInv(Pop(buffers[j]))
  BY PopInv DEF BuffersInv, PopRound, SomeBufferEmpty
<1>2. buffers' \in [Streams -> Buffer] /\ \A j \in Streams : BufferInv(buffers'[j])
  BY <1>1 DEF BuffersInv, PopRound, BufferInv
<1>3. callback' \in [time : Times \cup {-1}, messages : SUBSET Messages]
  <2>1. CASE Cardinality(FrontMatchIndices) >= MinMessages
    <3>1. PICK i \in FrontMatchIndices :
            callback' = [time |-> buffers[i].next,
                         messages |-> {<<j, Peek(buffers[j])>> : j \in FrontMatchIndices}]
      BY <2>1 DEF PopRound, TriggerCallbackWithMessages
    <3>2. \A j \in Streams : Peek(buffers[j]) \in Times /\ buffers[j].next \in Times
      BY <1>1, FrontOfBuffer
    <3>3. FrontMatchIndices \subseteq Streams
      BY DEF FrontMatchIndices
    <3>4. \A j \in Streams : <<j, Peek(buffers[j])>> \in Messages
      BY <3>2 DEF Messages
    <3> QED BY <3>1, <3>2, <3>3, <3>4
  <2>2. CASE ~(Cardinality(FrontMatchIndices) >= MinMessages)
    BY <2>2 DEF PopRound, BuffersInv
  <2> QED BY <2>1, <2>2
<1> QED BY <1>2, <1>3 DEF BuffersInv, PopRound

LEMMA NextBuffers == BuffersInv /\ [Next]_vars => BuffersInv'
<1> SUFFICES ASSUME BuffersInv, [Next]_vars PROVE BuffersInv'
  OBVIOUS
<1>1. ASSUME NEW i \in Streams, NEW t \in Times, NEW trigger \in BOOLEAN,
             AddMessage(i, t, trigger)
      PROVE  BuffersInv'
  BY <1>1, AddMessageBuffers
<1>2. CASE StartPopping
  BY <1>2 DEF BuffersInv, StartPopping
<1>3. CASE ClearBuffers
  BY <1>3, ClearBuffersBuffers
<1>4. CASE PopRound
  BY <1>4, PopRoundBuffers
<1>5. CASE PopReturns
  BY <1>5 DEF BuffersInv, PopReturns
<1>6. CASE UNCHANGED vars
  BY <1>6 DEF BuffersInv, vars
<1> QED BY <1>1, <1>2, <1>3, <1>4, <1>5, <1>6 DEF Next

\* The buffers keep their invariant in every execution.
THEOREM BuffersCorrect == Spec => []BuffersInv
BY InitBuffers, NextBuffers, PTL DEF Spec

\* Every execution keeps the types and the bound of every buffer: Push evicts
\* in time, whatever is popped and cleared in between.
THEOREM SynchronizerTypeCorrect == Spec => []TypeOK
<1>1. BuffersInv => TypeOK
  BY DEF BuffersInv, BufferInv, TypeOK
<1> QED BY <1>1, BuffersCorrect, PTL

\* GetNextTimeStamp is always the timestamp of the message Peek returns.
THEOREM FrontCorrect == Spec => []NextIsFront
<1>1. BuffersInv => NextIsFront
  BY DEF BuffersInv, BufferInv, NextIsFront
<1> QED BY <1>1, BuffersCorrect, PTL

-----------------------------------------------------------------------------
(***************************************************************************)
(* The frames.                                                             *)
(***************************************************************************)
\* Frames are ordered as their timestamps are, and a period takes a stream to
\* a later frame.
LEMMA FramesOrdered ==
  ASSUME NEW t \in Times, NEW u \in Times
  PROVE  /\ t \in Nat /\ FrameOf[t] \in Nat /\ FrameOf[t] \in Frames
         /\ t <= u => FrameOf[t] <= FrameOf[u]
         /\ t <= u + Threshold => FrameOf[t] <= FrameOf[u]
         /\ FrameOf[t] <= FrameOf[u] => t <= u + Threshold
         /\ t + Period <= u => FrameOf[t] < FrameOf[u]
<1>1. /\ t \in Nat /\ u \in Nat /\ Threshold \in Nat /\ Period \in Nat /\ Period > Threshold
      /\ FrameOf[t] \in Nat /\ FrameOf[u] \in Nat
  BY BufferAssumption, SynchronizerAssumption, FramesAssumption
<1>2. /\ t <= u => FrameOf[t] <= FrameOf[u]
      /\ u <= t => FrameOf[u] <= FrameOf[t]
  BY FramesAssumption
<1>3. t <= u => ((FrameOf[t] = FrameOf[u]) <=> (u <= t + Threshold))
  BY FramesAssumption
<1>4. u <= t => ((FrameOf[u] = FrameOf[t]) <=> (t <= u + Threshold))
  BY FramesAssumption
<1>5. t <= u \/ u <= t
  BY <1>1
<1>6. t <= u + Threshold => FrameOf[t] <= FrameOf[u]
  BY <1>1, <1>2, <1>4, <1>5
<1>7. FrameOf[t] <= FrameOf[u] => t <= u + Threshold
  BY <1>1, <1>2, <1>4, <1>5
<1>8. t + Period <= u => FrameOf[t] < FrameOf[u]
  BY <1>1, <1>2, <1>3
<1>9. FrameOf[t] \in Frames
  BY DEF Frames
<1> QED BY <1>1, <1>2, <1>6, <1>7, <1>8, <1>9

\* What is in the refinement mapping, before and after a step.
LEMMA WaitingMembers ==
  /\ WaitingFrames \subseteq Streams \X Frames
  /\ \A j \in Streams, k \in Frames :
       <<j, k>> \in WaitingFrames <=> \E t \in Waiting(j) : FrameOf[t] = k
BY DEF WaitingFrames

LEMMA WaitingMembersAfter ==
  /\ WaitingFrames' \subseteq Streams \X Frames
  /\ \A j \in Streams, k \in Frames :
       <<j, k>> \in WaitingFrames' <=> \E t \in Waiting(j)' : FrameOf[t] = k
BY DEF WaitingFrames, Waiting

LEMMA PairsEqual ==
  ASSUME NEW S, NEW T, NEW A \in SUBSET (S \X T), NEW B \in SUBSET (S \X T),
         \A j \in S, k \in T : <<j, k>> \in A <=> <<j, k>> \in B
  PROVE  A = B
<1>1. \A m \in S \X T : m \in A <=> m \in B
  <2> TAKE m \in S \X T
  <2>1. PICK j \in S, k \in T : m = <<j, k>>
    OBVIOUS
  <2> QED BY <2>1
<1> QED BY <1>1

\* The message in front is of the earliest frame of its stream, and the only
\* one of that frame.
LEMMA FrontFrame ==
  ASSUME BuffersInv, NEW i \in Streams, ~IsEmpty(buffers[i])
  PROVE  /\ Peek(buffers[i]) \in Waiting(i) /\ Peek(buffers[i]) \in Times
         /\ Waiting(i) \subseteq Times
         /\ \A t \in Waiting(i) :
              /\ FrameOf[Peek(buffers[i])] <= FrameOf[t]
              /\ t # Peek(buffers[i]) => FrameOf[Peek(buffers[i])] < FrameOf[t]
<1>1. /\ Peek(buffers[i]) \in Waiting(i) /\ Waiting(i) \subseteq Times
      /\ \A t \in Waiting(i) : Peek(buffers[i]) <= t
      /\ \A t \in Waiting(i) :
           t # Peek(buffers[i]) => Peek(buffers[i]) + Period <= t
  BY FrontOfBuffer
<1> QED BY <1>1, FramesOrdered

-----------------------------------------------------------------------------
(***************************************************************************)
(* The refinement: every step of the synchronizer is one of StreamMatching *)
(* or changes nothing there.                                               *)
(***************************************************************************)
LEMMA InitMatches == Init => Matching!Init
<1> SUFFICES ASSUME Init PROVE Matching!Init
  OBVIOUS
<1>1. \A i \in Streams : buffers[i] = EmptyBuffer
  BY DEF Init
<1>2. \A i \in Streams : Waiting(i) = {}
  <2>1. << >> \in Seq(Times) /\ Len(<< >>) = 0 /\ 1 .. 0 = {}
    BY EmptySeq
  <2>2. Range(<< >>) = {}
    BY <2>1, LenProperties DEF Range
  <2> QED BY <1>1, <2>2 DEF Waiting, EmptyBuffer
<1>3. WaitingFrames = {}
  BY <1>2 DEF WaitingFrames
<1>4. LatestFrames = [i \in Streams |-> -1]
  BY <1>1 DEF LatestFrames, EmptyBuffer, FrameAt
<1>5. MatchedFrame = [frame |-> -1, streams |-> {}]
  BY DEF Init, NoCallback, MatchedFrame, FrameAt
<1> QED BY <1>3, <1>4, <1>5 DEF Matching!Init

LEMMA AddMessageMatches ==
  ASSUME BuffersInv, NEW i \in Streams, NEW t \in Times, NEW trigger \in BOOLEAN,
         AddMessage(i, t, trigger)
  PROVE  Matching!Receive(i, FrameOf[t])
<1> DEFINE k == FrameOf[t]
           b == buffers[i]
<1>1. /\ buffers \in [Streams -> Buffer] /\ BufferInv(b)
      /\ b.current = -1 \/ t >= b.current + Period
      /\ buffers' = [buffers EXCEPT ![i] = Push(b, t)] /\ callback' = callback
  BY DEF BuffersInv, AddMessage
<1>2. /\ Push(b, t).current = t
      /\ \/ Range(Push(b, t).msgs) = Range(b.msgs) \cup {t}
         \/ /\ ~IsEmpty(b)
            /\ Range(Push(b, t).msgs) = (Range(b.msgs) \ {Peek(b)}) \cup {t}
  BY <1>1, PushInv
<1>3. /\ buffers'[i] = Push(b, t)
      /\ \A j \in Streams : j # i => buffers'[j] = buffers[j]
  BY <1>1
<1>4. k \in Nat /\ k \in Frames /\ t \in Nat
  BY FramesOrdered
<1>5. LatestFrames' = [LatestFrames EXCEPT ![i] = k]
  <2>1. \A j \in Streams : FrameAt(buffers'[j].current) =
                             IF j = i THEN k ELSE FrameAt(buffers[j].current)
    BY <1>2, <1>3, <1>4 DEF FrameAt
  <2> QED BY <2>1 DEF LatestFrames, FrameAt
<1>6. k > LatestFrames[i]
  <2>1. b.current \in Times \cup {-1}
    BY <1>1 DEF BufferInv, Buffer
  <2>2. CASE b.current = -1
    BY <1>4, <2>2 DEF LatestFrames, FrameAt
  <2>3. CASE b.current # -1
    <3>1. b.current \in Times /\ b.current \in Nat /\ b.current + Period <= t
      <4>1. b.current \in Times
        BY <2>1, <2>3
      <4>2. b.current \in Nat /\ Period \in Nat
        BY <4>1, FramesOrdered, SynchronizerAssumption
      <4> QED BY <1>1, <1>4, <2>3, <4>1, <4>2
    <3>2. FrameOf[b.current] < k /\ FrameOf[b.current] \in Nat
      BY <3>1, FramesOrdered
    <3> QED BY <1>4, <2>3, <3>2 DEF LatestFrames, FrameAt
  <2> QED BY <2>2, <2>3
<1>7. MatchedFrame' = MatchedFrame
  BY <1>1 DEF MatchedFrame, FrameAt
<1>8. \A j \in Streams : j # i => Waiting(j)' = Waiting(j)
  BY <1>3 DEF Waiting
<1> HIDE DEF k, b
<1>9. CASE Range(Push(b, t).msgs) = Range(b.msgs) \cup {t}
  <2>1. Waiting(i)' = Waiting(i) \cup {t}
    BY <1>3, <1>9 DEF Waiting, b
  <2>2. \A j \in Streams, l \in Frames :
          <<j, l>> \in WaitingFrames' <=> <<j, l>> \in WaitingFrames \cup {<<i, k>>}
    <3> TAKE j \in Streams, l \in Frames
    <3>1. CASE j # i
      BY <1>8, <3>1, WaitingMembers, WaitingMembersAfter
    <3>2. CASE j = i
      <4>1. <<i, l>> \in WaitingFrames' <=> (l = k \/ \E u \in Waiting(i) : FrameOf[u] = l)
        BY <2>1, <3>2, WaitingMembersAfter DEF k
      <4>2. <<i, l>> \in WaitingFrames <=> \E u \in Waiting(i) : FrameOf[u] = l
        BY <3>2, WaitingMembers
      <4> QED BY <3>2, <4>1, <4>2
    <3> QED BY <3>1, <3>2
  <2>3. WaitingFrames \cup {<<i, k>>} \in SUBSET (Streams \X Frames)
    BY <1>4, WaitingMembers
  <2>4. WaitingFrames' = WaitingFrames \cup {<<i, k>>}
    BY <2>2, <2>3, WaitingMembersAfter, PairsEqual
  <2> QED BY <1>5, <1>6, <1>7, <2>4 DEF Matching!Receive, k
<1>10. CASE /\ ~IsEmpty(b)
            /\ Range(Push(b, t).msgs) = (Range(b.msgs) \ {Peek(b)}) \cup {t}
  <2> DEFINE l == FrameOf[Peek(b)]
  <2>1. Waiting(i)' = (Waiting(i) \ {Peek(b)}) \cup {t}
    BY <1>3, <1>10 DEF Waiting, b
  <2>2. /\ Peek(b) \in Waiting(i) /\ Peek(b) \in Times /\ Waiting(i) \subseteq Times
        /\ \A u \in Waiting(i) : l <= FrameOf[u] /\ (u # Peek(b) => l < FrameOf[u])
    BY <1>10, FrontFrame DEF b
  <2>3. l \in Nat /\ l \in Frames /\ \A u \in Waiting(i) : FrameOf[u] \in Nat
    BY <2>2, FramesOrdered
  <2> HIDE DEF l
  <2>4. Matching!Earliest(i, l)
    BY <2>2, <2>3, WaitingMembers DEF Matching!Earliest, l
  <2>5. \A u \in Waiting(i) : FrameOf[u] = l <=> u = Peek(b)
    BY <2>2, <2>3 DEF l
  <2>6. \A j \in Streams, m \in Frames :
          <<j, m>> \in WaitingFrames' <=>
          <<j, m>> \in (WaitingFrames \ {<<i, l>>}) \cup {<<i, k>>}
    <3> TAKE j \in Streams, m \in Frames
    <3>1. CASE j # i
      BY <1>8, <3>1, WaitingMembers, WaitingMembersAfter
    <3>2. CASE j = i
      <4>1. <<i, m>> \in WaitingFrames' <=> (m = k \/ \E u \in Waiting(i) : u # Peek(b) /\ FrameOf[u] = m)
        BY <2>1, <3>2, WaitingMembersAfter DEF k
      <4>2. <<i, m>> \in WaitingFrames <=> \E u \in Waiting(i) : FrameOf[u] = m
        BY <3>2, WaitingMembers
      <4> QED BY <2>2, <2>5, <3>2, <4>1, <4>2
    <3> QED BY <3>1, <3>2
  <2>7. (WaitingFrames \ {<<i, l>>}) \cup {<<i, k>>} \in SUBSET (Streams \X Frames)
    BY <1>4, WaitingMembers
  <2>8. WaitingFrames' = (WaitingFrames \ {<<i, l>>}) \cup {<<i, k>>}
    BY <2>6, <2>7, WaitingMembersAfter, PairsEqual
  <2> QED BY <1>5, <1>6, <1>7, <2>3, <2>4, <2>8 DEF Matching!Receive, k
<1> QED BY <1>2, <1>9, <1>10 DEF b

LEMMA ClearBuffersMatches ==
  ASSUME BuffersInv, ClearBuffers
  PROVE  Matching!Clear
<1>1. \A j \in Streams : /\ Waiting(j)' = {}
                         /\ buffers'[j].current = buffers[j].current
  BY ClearAllInv DEF BuffersInv, ClearBuffers, Waiting
<1>2. WaitingFrames' = {}
  BY <1>1 DEF WaitingFrames, Waiting
<1>3. LatestFrames' = LatestFrames
  BY <1>1 DEF LatestFrames, FrameAt
<1>4. MatchedFrame' = MatchedFrame
  BY DEF ClearBuffers, MatchedFrame, FrameAt
<1> QED BY <1>2, <1>3, <1>4 DEF Matching!Clear

\* The streams whose front is of the earliest frame are those a round pops.
LEMMA PopRoundFronts ==
  ASSUME BuffersInv, ~SomeBufferEmpty, NEW i \in FrontMatchIndices
  PROVE  /\ \A j \in Streams : FrameOf[Peek(buffers[i])] <= FrameOf[Peek(buffers[j])]
         /\ \A j \in Streams :
              j \in FrontMatchIndices <=>
              FrameOf[Peek(buffers[j])] = FrameOf[Peek(buffers[i])]
<1> DEFINE front(j) == Peek(buffers[j])
           k == FrameOf[front(i)]
<1>1. \A j \in Streams : buffers[j].next = front(j) /\ front(j) \in Times
  BY FrontOfBuffer DEF SomeBufferEmpty
<1>2. /\ i \in Streams
      /\ \A j \in Streams :
           j \in FrontMatchIndices <=> \A l \in Streams : front(j) <= front(l) + Threshold
  BY <1>1 DEF FrontMatchIndices
<1> HIDE DEF front
<1>3. \A j, l \in Streams : /\ FrameOf[front(j)] \in Nat /\ FrameOf[front(l)] \in Nat
                            /\ front(j) <= front(l) + Threshold <=>
                                 FrameOf[front(j)] <= FrameOf[front(l)]
  BY <1>1, FramesOrdered
<1>4. \A j \in Streams : k <= FrameOf[front(j)]
  BY <1>2, <1>3
<1>5. \A j \in Streams : j \in FrontMatchIndices <=> FrameOf[front(j)] = k
  <2> TAKE j \in Streams
  <2>1. j \in FrontMatchIndices => FrameOf[front(j)] <= k
    BY <1>2, <1>3
  <2>2. FrameOf[front(j)] = k => j \in FrontMatchIndices
    BY <1>2, <1>3, <1>4
  <2> QED BY <1>2, <1>3, <1>4, <2>1, <2>2
<1> QED BY <1>4, <1>5 DEF front

LEMMA PopRoundMatches ==
  ASSUME BuffersInv, PopRound
  PROVE  (\E k \in Frames : Matching!Decide(k)) \/ UNCHANGED Matching!vars
<1>1. CASE FrontMatchIndices = {}
  <2>1. buffers' = [j \in Streams |-> buffers[j]]
    BY <1>1 DEF PopRound
  <2>2. buffers' = buffers
    BY <2>1 DEF BuffersInv
  <2>3. callback' = callback
    BY <1>1 DEF PopRound, TriggerCallbackWithMessages
  <2> QED BY <2>2, <2>3
       DEF Matching!vars, WaitingFrames, Waiting, LatestFrames, FrameAt, MatchedFrame
<1>2. CASE FrontMatchIndices # {}
  <2>1. PICK i \in FrontMatchIndices : TRUE
    BY <1>2
  <2> DEFINE k == FrameOf[Peek(buffers[i])]
             members == {j \in Streams : <<j, k>> \in WaitingFrames}
  <2>2. ~SomeBufferEmpty /\ \A j \in Streams : ~IsEmpty(buffers[j])
    BY DEF PopRound, SomeBufferEmpty
  <2>3. /\ \A j \in Streams : k <= FrameOf[Peek(buffers[j])]
        /\ \A j \in Streams : j \in FrontMatchIndices <=> FrameOf[Peek(buffers[j])] = k
    BY <2>1, <2>2, PopRoundFronts
  <2>4. \A j \in Streams :
          /\ Peek(buffers[j]) \in Waiting(j) /\ Peek(buffers[j]) \in Times
          /\ Waiting(j) \subseteq Times
          /\ \A t \in Waiting(j) :
               /\ FrameOf[Peek(buffers[j])] <= FrameOf[t]
               /\ t # Peek(buffers[j]) => FrameOf[Peek(buffers[j])] < FrameOf[t]
    BY <2>2, FrontFrame
  <2>5. \A t \in Times : FrameOf[t] \in Nat /\ FrameOf[t] \in Frames
    BY FramesOrdered
  <2>6. FrontMatchIndices \subseteq Streams
    BY DEF FrontMatchIndices
  <2>7. k \in Nat /\ k \in Frames
    BY <2>1, <2>4, <2>5, <2>6
  <2> HIDE DEF k
  <2>8. \A j \in Streams : <<j, k>> \in WaitingFrames <=> FrameOf[Peek(buffers[j])] = k
    <3> TAKE j \in Streams
    <3>1. <<j, k>> \in WaitingFrames <=> \E t \in Waiting(j) : FrameOf[t] = k
      BY <2>7, WaitingMembers
    <3>2. \A t \in Waiting(j) : FrameOf[t] = k => t = Peek(buffers[j])
      BY <2>3, <2>4, <2>5, <2>7
    <3> QED BY <2>4, <3>1, <3>2
  <2>9. members = FrontMatchIndices
    BY <2>3, <2>6, <2>8
  <2>10. \A j \in Streams : \E l \in Frames : <<j, l>> \in WaitingFrames
    BY <2>4, <2>5, WaitingMembers
  <2>11. \A j \in Streams : \A l \in Frames : <<j, l>> \in WaitingFrames => k <= l
    <3> SUFFICES ASSUME NEW j \in Streams, NEW l \in Frames, <<j, l>> \in WaitingFrames
                 PROVE  k <= l
      OBVIOUS
    <3>1. PICK t \in Waiting(j) : FrameOf[t] = l
      BY WaitingMembers
    <3> QED BY <2>3, <2>4, <2>5, <2>7, <3>1
  <2>12. \A j \in Streams : Waiting(j)' = IF j \in FrontMatchIndices
                                          THEN Waiting(j) \ {Peek(buffers[j])}
                                          ELSE Waiting(j)
    BY <2>2, PopInv DEF BuffersInv, PopRound, Waiting
  <2> HIDE DEF members
  <2>13. \A j \in Streams, l \in Frames :
           <<j, l>> \in WaitingFrames' <=>
           <<j, l>> \in WaitingFrames \ {<<n, k>> : n \in members}
    <3> TAKE j \in Streams, l \in Frames
    <3>1. /\ <<j, l>> \in WaitingFrames' <=> \E t \in Waiting(j)' : FrameOf[t] = l
          /\ <<j, l>> \in WaitingFrames <=> \E t \in Waiting(j) : FrameOf[t] = l
      BY WaitingMembers, WaitingMembersAfter
    <3>2. <<j, l>> \in {<<n, k>> : n \in members} <=> j \in FrontMatchIndices /\ l = k
      BY <2>9
    <3>3. CASE j \in FrontMatchIndices
      <4>1. Waiting(j)' = Waiting(j) \ {Peek(buffers[j])}
        BY <2>12, <3>3
      <4>2. \A t \in Waiting(j) : FrameOf[t] = k <=> t = Peek(buffers[j])
        BY <2>3, <2>4, <2>5, <2>7, <3>3
      <4> QED BY <3>1, <3>2, <3>3, <4>1, <4>2
    <3>4. CASE j \notin FrontMatchIndices
      BY <2>12, <3>1, <3>2, <3>4
    <3> QED BY <3>3, <3>4
  <2>14. WaitingFrames' = WaitingFrames \ {<<n, k>> : n \in members}
    BY <2>13, WaitingMembers, WaitingMembersAfter, PairsEqual
  <2>15. LatestFrames' = LatestFrames
    <3>1. \A j \in Streams : buffers'[j].current = buffers[j].current
      BY <2>2, PopInv DEF BuffersInv, PopRound
    <3> QED BY <3>1 DEF LatestFrames, FrameAt
  <2>16. MatchedFrame' = IF Cardinality(members) >= MinMessages
                         THEN [frame |-> k, streams |-> members] ELSE MatchedFrame
    <3>1. CASE Cardinality(FrontMatchIndices) >= MinMessages
      <4>1. PICK n \in FrontMatchIndices :
              callback' = [time |-> buffers[n].next,
                           messages |-> {<<j, Peek(buffers[j])>> : j \in FrontMatchIndices}]
        BY <3>1 DEF PopRound, TriggerCallbackWithMessages
      <4>2. buffers[n].next = Peek(buffers[n]) /\ Peek(buffers[n]) \in Nat
        BY <2>2, <2>4, <2>6, FrontOfBuffer, BufferAssumption
      <4>3. FrameAt(callback'.time) = k
        BY <2>3, <2>6, <4>1, <4>2 DEF FrameAt
      <4>4. {m[1] : m \in callback'.messages} = FrontMatchIndices
        <5>1. /\ \A m \in callback'.messages : m[1] \in FrontMatchIndices
              /\ \A j \in FrontMatchIndices :
                   \E m \in callback'.messages : m[1] = j
          <6> DEFINE pair(j) == <<j, Peek(buffers[j])>>
          <6>1. callback'.messages = {pair(j) : j \in FrontMatchIndices}
            BY <4>1
          <6>2. \A j \in FrontMatchIndices : pair(j)[1] = j
            OBVIOUS
          <6> HIDE DEF pair
          <6> QED BY <6>1, <6>2
        <5>2. \A f : f \in {m[1] : m \in callback'.messages} <=>
                       \E m \in callback'.messages : m[1] = f
          OBVIOUS
        <5> QED BY <5>1, <5>2
      <4> QED BY <2>9, <3>1, <4>3, <4>4 DEF MatchedFrame, FrameAt
    <3>2. CASE ~(Cardinality(FrontMatchIndices) >= MinMessages)
      BY <2>9, <3>2 DEF PopRound, MatchedFrame, FrameAt
    <3> QED BY <3>1, <3>2
  <2>17. members # {}
    BY <1>2, <2>9
  <2>18. Matching!Decide(k)
    <3>1. {j \in Streams : <<j, k>> \in WaitingFrames} = members
      BY DEF members
    <3>2. Matching!Cardinality(members) = Cardinality(members)
      BY DEF Matching!Cardinality, Cardinality
    <3> QED BY <2>10, <2>11, <2>14, <2>15, <2>16, <2>17, <3>1, <3>2 DEF Matching!Decide
  <2> QED BY <2>7, <2>18
<1> QED BY <1>1, <1>2

LEMMA NextMatches == BuffersInv /\ [Next]_vars => [Matching!Next]_(Matching!vars)
<1> SUFFICES ASSUME BuffersInv, [Next]_vars
             PROVE  Matching!Next \/ UNCHANGED Matching!vars
  OBVIOUS
<1>1. ASSUME NEW i \in Streams, NEW t \in Times, NEW trigger \in BOOLEAN,
             AddMessage(i, t, trigger)
      PROVE  Matching!Next
  BY <1>1, AddMessageMatches, FramesOrdered DEF Matching!Next
<1>2. CASE ClearBuffers
  BY <1>2, ClearBuffersMatches DEF Matching!Next
<1>3. CASE PopRound
  BY <1>3, PopRoundMatches DEF Matching!Next
<1>4. CASE UNCHANGED <<buffers, callback>>
  BY <1>4 DEF Matching!vars, WaitingFrames, Waiting, LatestFrames, MatchedFrame, FrameAt
<1> QED BY <1>1, <1>2, <1>3, <1>4 DEF Next, StartPopping, PopReturns, vars

\* For streams of common frames the synchronizer implements StreamMatching:
\* every round takes whole frames, in order, when all the streams have come to
\* them, for any number of streams, any threshold and any size of the buffers.
THEOREM MatchesFramesCorrect == Spec => MatchesFrames
<1>1. Spec => Matching!Init /\ [][Matching!Next]_(Matching!vars)
  BY InitMatches, NextMatches, BuffersCorrect, PTL DEF Spec
<1> QED BY <1>1 DEF MatchesFrames, Matching!Spec

-----------------------------------------------------------------------------
(***************************************************************************)
(* The callback's timestamps increase: what waits is of later frames than  *)
(* the last match, and so is all that a stream can still deliver.          *)
(***************************************************************************)
MatchedPast ==
  \A i \in Streams :
    /\ MatchedFrame.frame <= LatestFrames[i]
    /\ \A l \in Frames :
         <<i, l>> \in WaitingFrames => MatchedFrame.frame < l /\ l <= LatestFrames[i]

LEMMA FrameTypes ==
  ASSUME BuffersInv
  PROVE  /\ Frames \subseteq Nat
         /\ \A i \in Streams : LatestFrames[i] \in Nat \cup {-1}
         /\ MatchedFrame.frame \in Nat \cup {-1}
         /\ WaitingFrames \subseteq Streams \X Frames
<1>1. Frames \subseteq Nat
  BY FramesAssumption DEF Frames
<1>2. \A t \in Times \cup {-1} : FrameAt(t) \in Nat \cup {-1}
  BY FramesAssumption DEF FrameAt
<1>3. /\ \A i \in Streams : buffers[i].current \in Times \cup {-1}
      /\ callback.time \in Times \cup {-1}
  BY DEF BuffersInv, Buffer
<1> QED BY <1>1, <1>2, <1>3, WaitingMembers DEF LatestFrames, MatchedFrame

LEMMA ReceivePast ==
  ASSUME BuffersInv, MatchedPast, NEW i \in Streams, NEW k \in Frames,
         Matching!Receive(i, k)
  PROVE  MatchedPast'
<1>1. /\ k > LatestFrames[i] /\ k \in Nat
      /\ LatestFrames' = [LatestFrames EXCEPT ![i] = k]
      /\ WaitingFrames' \subseteq WaitingFrames \cup {<<i, k>>}
      /\ MatchedFrame' = MatchedFrame
  BY FrameTypes DEF Matching!Receive
<1>2. /\ LatestFrames'[i] = k
      /\ \A j \in Streams : j # i => LatestFrames'[j] = LatestFrames[j]
  BY <1>1 DEF LatestFrames
<1> SUFFICES ASSUME NEW j \in Streams
             PROVE  /\ MatchedFrame'.frame <= LatestFrames'[j]
                    /\ \A l \in Frames : <<j, l>> \in WaitingFrames' =>
                         MatchedFrame'.frame < l /\ l <= LatestFrames'[j]
  BY DEF MatchedPast
<1>3. /\ MatchedFrame.frame <= LatestFrames[j]
      /\ \A l \in Frames : <<j, l>> \in WaitingFrames =>
           MatchedFrame.frame < l /\ l <= LatestFrames[j]
  BY DEF MatchedPast
<1>4. /\ LatestFrames[j] \in Nat \cup {-1} /\ LatestFrames[i] \in Nat \cup {-1}
      /\ MatchedFrame.frame \in Nat \cup {-1} /\ Frames \subseteq Nat
  BY FrameTypes
<1>5. CASE j # i
  BY <1>1, <1>2, <1>3, <1>5
<1>6. CASE j = i
  <2>1. MatchedFrame.frame < k
    BY <1>1, <1>3, <1>4, <1>6
  <2>2. ASSUME NEW l \in Frames, <<j, l>> \in WaitingFrames'
        PROVE  MatchedFrame.frame < l /\ l <= k
    <3>1. CASE l = k
      BY <1>1, <2>1, <3>1
    <3>2. CASE l # k
      <4>1. <<j, l>> \in WaitingFrames
        BY <1>1, <2>2, <3>2
      <4> QED BY <1>1, <1>3, <1>4, <1>6, <4>1
    <3> QED BY <3>1, <3>2
  <2> QED BY <1>1, <1>2, <1>4, <1>6, <2>1, <2>2
<1> QED BY <1>5, <1>6

LEMMA DecidePast ==
  ASSUME BuffersInv, MatchedPast, NEW k \in Frames, Matching!Decide(k)
  PROVE  MatchedPast'
<1> DEFINE members == {j \in Streams : <<j, k>> \in WaitingFrames}
<1>1. /\ \A j \in Streams : \E l \in Frames : <<j, l>> \in WaitingFrames
      /\ \A j \in Streams : \A l \in Frames : <<j, l>> \in WaitingFrames => k <= l
      /\ WaitingFrames' = WaitingFrames \ {<<j, k>> : j \in members}
      /\ MatchedFrame' = [frame |-> k, streams |-> members] \/ MatchedFrame' = MatchedFrame
      /\ LatestFrames' = LatestFrames
  BY DEF Matching!Decide
<1>2. /\ \A j \in Streams : LatestFrames[j] \in Nat \cup {-1}
      /\ MatchedFrame.frame \in Nat \cup {-1} /\ Frames \subseteq Nat /\ k \in Nat
  BY FrameTypes
<1>3. ASSUME NEW j \in Streams, NEW l \in Frames, <<j, l>> \in WaitingFrames'
      PROVE  <<j, l>> \in WaitingFrames /\ k < l
  <2>1. <<j, l>> \in WaitingFrames /\ ~(j \in members /\ l = k)
    BY <1>1, <1>3
  <2>2. k <= l /\ l # k
    BY <1>1, <2>1
  <2> QED BY <1>2, <2>1, <2>2
<1>4. \A j \in Streams : k <= LatestFrames[j]
  <2> TAKE j \in Streams
  <2>1. PICK l \in Frames : <<j, l>> \in WaitingFrames
    BY <1>1
  <2>2. k <= l /\ l <= LatestFrames[j]
    BY <1>1, <2>1 DEF MatchedPast
  <2> QED BY <1>2, <2>2
<1>5. MatchedFrame'.frame = k \/ MatchedFrame'.frame = MatchedFrame.frame
  BY <1>1
<1> HIDE DEF members
<1> QED BY <1>1, <1>3, <1>4, <1>5 DEF MatchedPast

LEMMA StepPast ==
  ASSUME BuffersInv, MatchedPast, [Next]_vars
  PROVE  MatchedPast'
<1>1. [Matching!Next]_(Matching!vars)
  BY NextMatches
<1>2. ASSUME NEW i \in Streams, NEW k \in Frames, Matching!Receive(i, k)
      PROVE  MatchedPast'
  BY <1>2, ReceivePast
<1>3. ASSUME NEW k \in Frames, Matching!Decide(k)
      PROVE  MatchedPast'
  BY <1>3, DecidePast
<1>4. CASE Matching!Clear
  BY <1>4 DEF Matching!Clear, MatchedPast
<1>5. CASE UNCHANGED Matching!vars
  BY <1>5 DEF Matching!vars, MatchedPast
<1> QED BY <1>1, <1>2, <1>3, <1>4, <1>5 DEF Matching!Next

LEMMA InitPast == Init => MatchedPast
<1> SUFFICES ASSUME Init PROVE MatchedPast
  OBVIOUS
<1>1. WaitingFrames = {} /\ LatestFrames = [i \in Streams |-> -1] /\ MatchedFrame.frame = -1
  BY InitMatches DEF Matching!Init
<1> QED BY <1>1 DEF MatchedPast

\* A new call of the callback is for a message that waited: of a later frame.
LEMMA CallbackLater ==
  ASSUME BuffersInv, MatchedPast, [Next]_vars, callback' # callback
  PROVE  callback'.time > callback.time
<1>1. PopRound /\ Cardinality(FrontMatchIndices) >= MinMessages
  BY DEF Next, AddMessage, StartPopping, ClearBuffers, PopRound, PopReturns, vars
<1>2. PICK i \in FrontMatchIndices :
        callback' = [time |-> buffers[i].next,
                     messages |-> {<<j, Peek(buffers[j])>> : j \in FrontMatchIndices}]
  BY <1>1 DEF PopRound, TriggerCallbackWithMessages
<1>3. i \in Streams /\ ~IsEmpty(buffers[i])
  BY <1>1 DEF FrontMatchIndices, PopRound, SomeBufferEmpty
<1> DEFINE t == Peek(buffers[i])
<1>4. callback'.time = t /\ t \in Times /\ t \in Waiting(i)
  BY <1>2, <1>3, FrontOfBuffer
<1>5. t \in Nat /\ FrameOf[t] \in Nat /\ FrameOf[t] \in Frames
  BY <1>4, FramesOrdered
<1>6. MatchedFrame.frame < FrameOf[t]
  BY <1>3, <1>4, <1>5, WaitingMembers DEF MatchedPast
<1> HIDE DEF t
<1>7. callback.time \in Times \cup {-1}
  BY DEF BuffersInv
<1>8. CASE callback.time = -1
  BY <1>4, <1>5, <1>8
<1>9. CASE callback.time # -1
  <2>1. callback.time \in Times
    BY <1>7, <1>9
  <2>2. MatchedFrame.frame = FrameOf[callback.time]
    BY <1>9 DEF MatchedFrame, FrameAt
  <2>3. /\ callback.time \in Nat /\ FrameOf[callback.time] \in Nat
        /\ t <= callback.time => FrameOf[t] <= FrameOf[callback.time]
    BY <1>4, <2>1, FramesOrdered
  <2> QED BY <1>4, <1>5, <1>6, <2>2, <2>3
<1> QED BY <1>8, <1>9

\* The callback never goes back in time, whatever is lost, evicted or cleared.
THEOREM CallbackTimesCorrect == Spec => CallbackTimesIncrease
<1>1. BuffersInv /\ MatchedPast /\ [Next]_vars => MatchedPast'
  BY StepPast
<1>2. BuffersInv /\ MatchedPast /\ [Next]_vars =>
        [callback' # callback => callback'.time > callback.time]_vars
  BY CallbackLater
<1> QED BY <1>1, <1>2, InitPast, BuffersCorrect, PTL DEF Spec, CallbackTimesIncrease

-----------------------------------------------------------------------------
(***************************************************************************)
(* What a round drops: the streams of any match of a front message are     *)
(* among those of the round, which are then enough for the callback.       *)
(***************************************************************************)
LEMMA MatchIsOfRound ==
  ASSUME BuffersInv, ~SomeBufferEmpty, NEW i \in FrontMatchIndices,
         HasMatch(<<i, Peek(buffers[i])>>)
  PROVE  Cardinality(FrontMatchIndices) >= MinMessages
<1> DEFINE k == FrameOf[Peek(buffers[i])]
<1>1. PICK S \in SUBSET Streams :
        /\ i \in S /\ Cardinality(S) >= MinMessages
        /\ \E match \in [S -> Times] :
             /\ match[i] = Peek(buffers[i])
             /\ \A j \in S : match[j] \in Waiting(j)
             /\ \A j, l \in S : match[j] <= match[l] + Threshold
  BY DEF HasMatch
<1>2. PICK match \in [S -> Times] :
        /\ match[i] = Peek(buffers[i])
        /\ \A j \in S : match[j] \in Waiting(j)
        /\ \A j, l \in S : match[j] <= match[l] + Threshold
  BY <1>1
<1>3. \A j \in Streams : /\ k <= FrameOf[Peek(buffers[j])]
                         /\ j \in FrontMatchIndices <=> FrameOf[Peek(buffers[j])] = k
  BY PopRoundFronts
<1>4. S \subseteq FrontMatchIndices
  <2> SUFFICES ASSUME NEW j \in S PROVE j \in FrontMatchIndices
    OBVIOUS
  <2>1. j \in Streams /\ ~IsEmpty(buffers[j])
    BY DEF SomeBufferEmpty
  <2>2. match[j] \in Times /\ match[i] \in Times /\ match[j] <= match[i] + Threshold
    BY <1>1, <1>2
  <2>3. FrameOf[match[j]] <= k
    BY <1>2, <2>2, FramesOrdered
  <2>4. FrameOf[Peek(buffers[j])] <= FrameOf[match[j]] /\ Peek(buffers[j]) \in Times
    BY <1>2, <2>1, FrontFrame
  <2>5. FrameOf[Peek(buffers[j])] \in Nat /\ FrameOf[match[j]] \in Nat /\ k \in Nat
    BY <1>2, <2>2, <2>4, FramesOrdered
  <2> HIDE DEF k
  <2>6. k <= FrameOf[Peek(buffers[j])]
    BY <1>3, <2>1
  <2>7. FrameOf[Peek(buffers[j])] = k
    BY <2>3, <2>4, <2>5, <2>6
  <2> QED BY <1>3, <2>1, <2>7
<1>5. IsFiniteSet(FrontMatchIndices)
  <2>1. IsFiniteSet(Streams)
    BY FS_Interval, SynchronizerAssumption DEF Streams
  <2>2. FrontMatchIndices \subseteq Streams
    BY DEF FrontMatchIndices
  <2> QED BY <2>1, <2>2, FS_Subset
<1>6. Cardinality(S) <= Cardinality(FrontMatchIndices)
  BY <1>4, <1>5, FS_Subset
<1>7. Cardinality(S) \in Nat /\ Cardinality(FrontMatchIndices) \in Nat
  BY <1>4, <1>5, FS_Subset, FS_CardinalityType
<1> QED BY <1>1, <1>6, <1>7, SynchronizerAssumption

LEMMA DroppedUnmatched ==
  ASSUME BuffersInv, [Next]_vars, pc = "popping", ~SomeBufferEmpty,
         NEW i \in Streams, buffers'[i] # buffers[i]
  PROVE  \/ <<i, Peek(buffers[i])>> \in callback'.messages
         \/ ~HasMatch(<<i, Peek(buffers[i])>>)
<1>1. PopRound
  BY DEF Next, AddMessage, StartPopping, ClearBuffers, PopReturns, vars
<1>2. i \in FrontMatchIndices
  BY <1>1 DEF PopRound
<1>3. CASE Cardinality(FrontMatchIndices) >= MinMessages
  <2>1. callback'.messages = {<<j, Peek(buffers[j])>> : j \in FrontMatchIndices}
    BY <1>1, <1>3 DEF PopRound, TriggerCallbackWithMessages
  <2> QED BY <1>2, <2>1
<1>4. CASE ~(Cardinality(FrontMatchIndices) >= MinMessages)
  BY <1>2, <1>4, MatchIsOfRound
<1> QED BY <1>3, <1>4

\* For streams of common frames a round drops only what has no match: the
\* comment of PopBuffersAndTriggerCallback is right for them.
THEOREM OnlyUnmatchedDroppedCorrect == Spec => OnlyUnmatchedDropped
<1>1. BuffersInv /\ [Next]_vars =>
        [pc = "popping" /\ ~SomeBufferEmpty =>
           \A i \in Streams :
             buffers'[i] # buffers[i] =>
               \/ <<i, Peek(buffers[i])>> \in callback'.messages
               \/ ~HasMatch(<<i, Peek(buffers[i])>>)]_vars
  BY DroppedUnmatched
<1> QED BY <1>1, BuffersCorrect, PTL DEF Spec, OnlyUnmatchedDropped
=============================================================================
