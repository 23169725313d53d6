---------------------------- MODULE MessageBuffer ----------------------------
(***************************************************************************)
(* MessageBuffer<T>: a list of messages with their timestamps, bounded by  *)
(* max_size_.  A message is abstracted to its timestamp.  -1 stands for no *)
(* timestamp, as in the code.                                              *)
(***************************************************************************)
EXTENDS Integers, Sequences, Functions

CONSTANTS
  Times,      \* the timestamps messages may have
  BufferSize  \* max_size_

ASSUME BufferAssumption == Times \subseteq Nat /\ BufferSize \in Nat \ {0}

Buffer ==
  [msgs : Seq(Times), last : Times \cup {-1}, current : Times \cup {-1},
   next : Times \cup {-1}]

EmptyBuffer == [msgs |-> << >>, last |-> -1, current |-> -1, next |-> -1]

\* Mutant of Push: one message too many is kept.
PushOneMore(b, t) ==
  LET kept == IF Len(b.msgs) > BufferSize THEN Tail(b.msgs) ELSE b.msgs IN
  [msgs |-> Append(kept, t), last |-> b.last, current |-> t,
   next |-> Head(Append(kept, t))]

\* A full buffer loses its first message.
Push(b, t) ==
  LET kept == IF Len(b.msgs) >= BufferSize THEN Tail(b.msgs) ELSE b.msgs IN
  [msgs |-> Append(kept, t), last |-> b.last, current |-> t,
   next |-> Head(Append(kept, t))]

\* Mutant of Pop: the timestamp of the next message is not brought up to date.
PopStaleNext(b) ==
  [msgs |-> Tail(b.msgs), last |-> Head(b.msgs), current |-> b.current, next |-> b.next]

Pop(b) ==
  LET rest == Tail(b.msgs) IN
  [msgs |-> rest, last |-> Head(b.msgs), current |-> b.current,
   next |-> IF rest = << >> THEN -1 ELSE Head(rest)]

Peek(b) == Head(b.msgs)

IsEmpty(b) == b.msgs = << >>

\* The timestamps stay as they are.
ClearAll(b) == [msgs |-> << >>, last |-> b.last, current |-> b.current, next |-> b.next]
=============================================================================
