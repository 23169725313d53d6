-------------------------- MODULE MCVda5050Client --------------------------
(***************************************************************************)
(* Small instances of the VDA5050 client for TLC.  Order o1 has three      *)
(* nodes: a SOFT and a NONE action at the first, a node to pass through,   *)
(* and a HARD action at the last.  Order "long" is o1 with another node    *)
(* after the first, to be reached exactly, so that a goal can be sent from *)
(* node 1 and pass through node 2.  Order o2 has two nodes: a NONE and a   *)
(* HARD action at the first, none at the last.  The message "empty" has no *)
(* node.                                                                   *)
(***************************************************************************)
EXTENDS Vda5050Claims, Vda5050Execution, TLC

CONSTANTS o1, long, o2, empty, soft, none, hard, note, last

MCOrderActionIds == {soft, none, hard, note, last}

MCNodeCount ==
  [o \in Orders |-> CASE o = o1 -> 3 [] o = long -> 4 [] o = o2 -> 2 [] o = empty -> 0]

MCNodeActions ==
  [o \in Orders |->
     CASE o = o1 -> (0 :> <<soft, none>> @@ 1 :> << >> @@ 2 :> <<hard>>)
       [] o = long -> (0 :> <<soft, none>> @@ 1 :> << >> @@ 2 :> << >> @@ 3 :> <<hard>>)
       [] o = o2 -> (0 :> <<note, last>> @@ 1 :> << >>)
       [] o = empty -> << >>]

MCExactNodes == [o \in Orders |-> IF o = long THEN {1} ELSE {}]

MCBlockingType == soft :> "SOFT" @@ none :> "NONE" @@ hard :> "HARD" @@
                  note :> "NONE" @@ last :> "HARD"

CONSTANTS
  SoftType, NoneType, HardType, LastType, \* the types of the order actions
  cancel1, cancel2, startPause, pause2, stopPause, startTeleop, stopTeleop,
  factsheet, work, odd                     \* instant actions

MCActionType ==
  soft :> SoftType @@ none :> NoneType @@ hard :> HardType @@ note :> "example" @@
  last :> LastType @@
  cancel1 :> "cancelOrder" @@ cancel2 :> "cancelOrder" @@
  startPause :> "startPause" @@ pause2 :> "startPause" @@ stopPause :> "stopPause" @@
  startTeleop :> "startTeleop" @@ stopTeleop :> "stopTeleop" @@
  factsheet :> "factsheetRequest" @@ work :> "example" @@ odd :> "unknown"

Symmetry == Permutations(GoalSlots)
=============================================================================
