---------------------------- MODULE MCMqttBridge ----------------------------
(***************************************************************************)
(* Small instances of the MQTT bridge for TLC.  An order has the fields    *)
(* "ab" and "bA", the latter a list of dicts with the field "aBA" of two   *)
(* words of one letter behind each other, and "aB", an empty list.         *)
(* An instantActions message has the field "ba".                           *)
(***************************************************************************)
EXTENDS MqttBridge, MqttKeys

MCCapital == [l \in Letters |-> IF l = "a" THEN "A" ELSE "B"]

(* A name as a list of words, and its two spellings.                       *)
Snake(words) == FoldLeft(LAMBDA s, w : IF s = << >> THEN w ELSE s \o <<"_">> \o w, << >>, words)
Dromedary(words) ==
  FoldLeft(LAMBDA s, w : IF s = << >> THEN w ELSE s \o <<Capital[w[1]]>> \o Tail(w), << >>, words)

AB    == <<<<"a", "b">>>>
BA    == <<<<"b", "a">>>>
B_A   == <<<<"b">>, <<"a">>>>
A_B   == <<<<"a">>, <<"b">>>>
A_B_A == <<<<"a">>, <<"b">>, <<"a">>>>

Fields(name(_), words, value(_)) == [n \in {name(w) : w \in words} |-> value(CHOOSE w \in words : name(w) = n)]

Number == Scalar("number")
Text   == Scalar("text")

\* What the master control means by its payloads, and what it sends.
Spelled(name(_)) ==
  LET item == Dict(Fields(name, {A_B_A}, LAMBDA w : Number))
      value(w) == CASE w = AB -> Number
                    [] w = B_A -> List([i \in 1..2 |-> item])
                    [] w = A_B -> List(<< >>)
  IN  Dict(Fields(name, {AB, B_A, A_B}, value))

Meant(p) ==
  CASE p = "order" -> Spelled(Snake)
    [] p = "instant" -> Dict(Fields(Snake, {BA}, LAMBDA w : Number))

MeantFor == [order |-> {"order"} \cap Payloads, instantActions |-> {"instant"} \cap Payloads]

Sent(p) ==
  CASE p = "order" -> Spelled(Dromedary)
    [] p = "instant" -> Dict(Fields(Dromedary, {BA}, LAMBDA w : Number))
    [] p = "mistyped" -> Dict(Fields(Dromedary, {AB}, LAMBDA w : Text))
    [] p = "twice" -> Dict([n \in {Snake(A_B), Dromedary(A_B)} |-> List(<< >>)])
    [] p = "garbage" -> Raised("JSONDecodeError")

MessageType ==
  [order |-> Dict([n \in {Snake(AB), Snake(B_A), Snake(A_B)} |->
                     CASE n = Snake(AB) -> Number
                       [] n = Snake(B_A) -> List(<<Dict([k \in {Snake(A_B_A)} |-> Number])>>)
                       [] n = Snake(A_B) -> List(<<Number>>)]),
   instantActions |-> Dict([n \in {Snake(BA)} |-> Number])]

WithMembers(S) == S \cup UNION {Range(Of(v)) : v \in {w \in S : Tag(w) \in {"list", "dict"}}}

Readable == Payloads \ {"garbage"}

\* TLC evaluates a constant definition once, but not one it substitutes: the
\* substitutes below only name the values.
ValueSet ==
  WithMembers(WithMembers(WithMembers(
    {Sent(p) : p \in Readable} \cup {Meant(p) : p \in UNION {MeantFor[t] : t \in Topics}})))
TypeSet == WithMembers(WithMembers(WithMembers({MessageType[t] : t \in Topics})))
MCValues == ValueSet
MCTypes == TypeSet

TranslationTable == [t \in Topics |-> [p \in Payloads |-> Translate(Sent(p), MessageType[t])]]
MCTranslation == TranslationTable

\* A message meant for its topic is published there, with every key spelled as
\* the ROS message spells it, and spelled as the master spells it on the way
\* back; another one is reported on order_valid_error or ends the thread.
AsMeant(h) ==
  IF h.payload \in MeantFor[h.type]
  THEN /\ h.topic = RosTopic[h.type]
       /\ h.message = Meant(h.payload)
       /\ ConvertDictKeys("snake_to_dromedary")[h.message] = Sent(h.payload)
  ELSE h.topic \in {"order_valid_error", "none"}

\* Whatever the network thread has taken from the broker came out as it was
\* meant (on_mqtt_message, convert_dict_keys).
MessagesAsMeant == \A h \in handled : AsMeant(h)
=============================================================================
