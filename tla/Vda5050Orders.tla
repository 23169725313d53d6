--------------------------- MODULE Vda5050Orders ---------------------------
(***************************************************************************)
(* The messages the VDA5050 client works on: the orders (a route of nodes, *)
(* the actions to perform at each of them) and the instant actions.  They  *)
(* are constants: a message never changes once it is received              *)
(* (Order::ConstSharedPtr).  Nodes are numbered from 0, as in the code.    *)
(***************************************************************************)
EXTENDS Integers, Sequences

CONSTANTS
  Orders,         \* ids of the orders master control may send
  NoOrder,        \* current_order_ == nullptr
  OrderActionIds, \* ids of the actions of all the orders
  InstantIds,     \* ids of the instant actions master control may send
  NoAction,       \* no action id: a null pointer, or the empty string
  NodeCount,      \* NodeCount[o]: how many nodes order o has
  NodeActions,    \* NodeActions[o][n]: the action ids at node n, in order
  ExactNodes,     \* ExactNodes[o]: nodes with allowed_deviation_x_y == 0
  ActionType,     \* ActionType[a]: the action type, see below
  BlockingType    \* BlockingType[a]: an empty blocking_type counts as HARD

\* Types executed by an action handler plugin.  "example" is the example
\* handler: its Cancel() fails the action at once.  "handled" is a handler
\* with the default, empty Cancel/Pause/Resume.  "pausable" is one that
\* implements Pause and Resume as its base class asks.
HandledTypes == {"example", "handled", "pausable"}

\* "unknown" stands for any type without a handler.
OrderActionTypes == HandledTypes \cup {"pause_order", "unknown"}

InstantTypes == HandledTypes \cup
  {"cancelOrder", "startTeleop", "stopTeleop", "factsheetRequest",
   "startPause", "stopPause", "unknown"}

BlockingTypes == {"HARD", "SOFT", "NONE"}

ActionIds == OrderActionIds \cup InstantIds

Nodes(o) == 0 .. NodeCount[o] - 1

LastNode(o) == NodeCount[o] - 1

ActionsAt(o, n) ==
  {NodeActions[o][n][i] : i \in DOMAIN NodeActions[o][n]}

\* The ids of the first num_actions_ entries of action_states.
ActionsOf(o) ==
  IF o = NoOrder THEN {} ELSE UNION {ActionsAt(o, n) : n \in Nodes(o)}

\* A goal ends at a node with actions, at the last node, or at a node whose
\* position has to be reached exactly.
IsStop(o, n) ==
  \/ NodeActions[o][n] # << >>
  \/ n = LastNode(o)
  \/ n \in ExactNodes[o]

\* The goal sent from node n passes through to node s and stops there.
IsNextStop(o, n, s) ==
  /\ s \in n + 1 .. LastNode(o)
  /\ IsStop(o, s)
  /\ \A m \in n + 1 .. s - 1 : ~IsStop(o, m)

ASSUME OrdersAssumption ==
  /\ NoOrder \notin Orders
  /\ NoAction \notin ActionIds
  /\ OrderActionIds \cap InstantIds = {}
  /\ NodeCount \in [Orders -> Nat]
  /\ \A o \in Orders : NodeActions[o] \in [Nodes(o) -> Seq(OrderActionIds)]
  /\ \A o \in Orders : ExactNodes[o] \subseteq Nodes(o)
  /\ BlockingType \in [OrderActionIds -> BlockingTypes]
  /\ \A a \in OrderActionIds : ActionType[a] \in OrderActionTypes
  /\ \A a \in InstantIds : ActionType[a] \in InstantTypes

\* VDA5050 action ids are unique: no id is used twice in an order, nor by two
\* orders.
ASSUME UniqueActionIds ==
  /\ \A o1, o2 \in Orders : \A n1 \in Nodes(o1), n2 \in Nodes(o2) :
       <<o1, n1>> # <<o2, n2>> => ActionsAt(o1, n1) \cap ActionsAt(o2, n2) = {}
  /\ \A o \in Orders : \A n \in Nodes(o) :
       \A i, j \in DOMAIN NodeActions[o][n] :
         NodeActions[o][n][i] = NodeActions[o][n][j] => i = j
=============================================================================
