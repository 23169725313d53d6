------------------------------ MODULE MqttKeys ------------------------------
(***************************************************************************)
(* The conversions of MqttBridgeUtils.py between the JSON of VDA5050, with *)
(* keys in dromedary case, and ROS messages, with fields in snake case.  A *)
(* name is a sequence of characters, because its case is what the code     *)
(* works on; a value is tagged as a scalar, a list or a dict, and a dict   *)
(* is a function from names.                                               *)
(***************************************************************************)
EXTENDS Naturals, Sequences, SequencesExt

CONSTANTS
  Letters,   \* the lower-case letters names are built from
  Capital,   \* Capital[c] is the capital of letter c
  Values,    \* the values that are converted, and all their members
  Types      \* the types they are read as, and all the types of members

\* A pair of a tag and what the value is made of: the scalar itself, the
\* sequence of items, the function from names, the exception raised.
Tag(v) == v[1]
Of(v)  == v[2]
Scalar(v) == <<"scalar", v>>
List(vs)  == <<"list", vs>>
Dict(f)   == <<"dict", f>>
Raised(exception) == <<"raised", exception>>

ASSUME KeysAssumption ==
  /\ DOMAIN Capital = Letters
  /\ \A c \in Letters : Capital[c] \notin Letters
  /\ \A v \in Values : Tag(v) \in {"list", "dict"} => Range(Of(v)) \subseteq Values

IsCapital(c) == \E l \in Letters : Capital[l] = c
Lower(c) == IF IsCapital(c) THEN CHOOSE l \in Letters : Capital[l] = c ELSE c
Upper(c) == IF c \in Letters THEN Capital[c] ELSE c
-----------------------------------------------------------------------------
(* The conversions of one name.                                            *)

\* A mutant: capitals in a row are taken for one word.
ConvertCamelToSnakeAcronyms(name) ==
  FlattenSeq([i \in DOMAIN name |->
                IF i > 1 /\ IsCapital(name[i]) /\ ~IsCapital(name[i - 1])
                THEN <<"_", Lower(name[i])>> ELSE <<Lower(name[i])>>])

ConvertCamelToSnake(name) ==
  FlattenSeq([i \in DOMAIN name |->
                IF i > 1 /\ IsCapital(name[i])
                THEN <<"_", Lower(name[i])>> ELSE <<Lower(name[i])>>])

\* A mutant: the letter after an underscore keeps its case.
ConvertSnakeToCamelLower(name, dromedary) ==
  SelectSeq([i \in DOMAIN name |-> IF i = 1 /\ ~dromedary THEN Upper(name[i]) ELSE name[i]],
            LAMBDA c : c # "_")

\* ROS field names have no empty word, for which the code raises IndexError.
ConvertSnakeToCamel(name, dromedary) ==
  LET First(i) == i = 1 \/ name[i - 1] = "_"
      Part(i) == CASE name[i] = "_" -> << >>
                 [] First(i) /\ ~(dromedary /\ i = 1) -> <<Upper(name[i])>>
                 [] dromedary /\ i = 1 -> <<Lower(name[i])>>
                 [] OTHER -> <<name[i]>>
  IN  FlattenSeq([i \in DOMAIN name |-> Part(i)])

ConvertName(name, caseConverter) ==
  CASE caseConverter = "camel_to_snake" -> ConvertCamelToSnake(name)
    [] caseConverter = "snake_to_dromedary" -> ConvertSnakeToCamel(name, TRUE)
    [] caseConverter = "snake_to_camel" -> ConvertSnakeToCamel(name, FALSE)
-----------------------------------------------------------------------------
(* The conversion of all keys of a value, and of the items of a list: for  *)
(* an item that is no dict the whole list is appended.                     *)

ConvertDictKeys(caseConverter) ==
  LET convert[v \in Values] ==
        LET old == Of(v)
            new == [k \in DOMAIN old |-> ConvertName(k, caseConverter)]
            members == [k \in DOMAIN old |-> convert[old[k]]]
            items == [i \in DOMAIN old |->
                        IF Tag(old[i]) = "dict" THEN convert[old[i]] ELSE v]
            raises(values) == \E k \in DOMAIN old : Tag(values[k]) = "raised"
        IN  CASE Tag(v) = "scalar" -> v
              [] Tag(v) = "list" ->
                   IF raises(items) THEN Raised("AssertionError") ELSE List(items)
              [] Tag(v) = "dict" ->
                   IF raises(members) \/ ~IsInjective(new)
                   THEN Raised("AssertionError")
                   ELSE Dict([n \in Range(new) |-> members[CHOOSE k \in DOMAIN old : new[k] = n]])
  IN  convert
-----------------------------------------------------------------------------
(* What rosbridge makes of the converted value: a message whose type has   *)
(* the same shape, or an exception.  A list type has its item type.        *)

Converted == Values \cup Range(ConvertDictKeys("camel_to_snake"))

Fits[v \in Converted, type \in Types] ==
  /\ Tag(v) = Tag(type)
  /\ CASE Tag(v) = "scalar" -> v = type
       [] Tag(v) = "list" -> \A i \in DOMAIN Of(v) : Fits[Of(v)[i], Of(type)[1]]
       [] Tag(v) = "dict" ->
            \A n \in DOMAIN Of(v) \cap DOMAIN Of(type) : Fits[Of(v)[n], Of(type)[n]]

KnownFields[v \in Converted, type \in Types] ==
  CASE Tag(v) = "list" -> \A i \in DOMAIN Of(v) : KnownFields[Of(v)[i], Of(type)[1]]
    [] Tag(v) = "dict" ->
         \A n \in DOMAIN Of(v) : n \in DOMAIN Of(type) /\ KnownFields[Of(v)[n], Of(type)[n]]
    [] OTHER -> TRUE

PopulateInstance(v, type) ==
  CASE Tag(v) = "raised" -> v
    [] Tag(v) # "raised" /\ ~Fits[v, type] -> Raised("FieldTypeMismatchException")
    [] Tag(v) # "raised" /\ Fits[v, type] /\ ~KnownFields[v, type] ->
         Raised("NonexistentFieldException")
    [] OTHER -> v

\* json.loads of a payload that is not JSON raises; the body of
\* on_mqtt_message after that.
Translate(payload, type) ==
  IF Tag(payload) = "raised" THEN payload
  ELSE PopulateInstance(ConvertDictKeys("camel_to_snake")[payload], type)
=============================================================================
