------------------------ MODULE Vda5050Client_proofs ------------------------
(***************************************************************************)
(* Proofs about the VDA5050 client, for every set of orders and of instant *)
(* actions and every behaviour of Nav2 and of the action handlers.         *)
(***************************************************************************)
EXTENDS Vda5050Client, TLAPS

\* A goal is sent for an order, and there is an order ever after: what lets
\* the feedback and the result of a goal index the nodes of current_order_.
GoalsNeedAnOrder == order = NoOrder => Outstanding = {}

\* The inductive invariant behind TypeOK and HandleIsLive.
GoalInv == TypeOK /\ GoalsNeedAnOrder /\ HandleIsLive

\* The actions of an order are order actions (ActionsOf, ActionsAt).
LEMMA OrderActionsTyped ==
  /\ \A o \in Orders \cup {NoOrder} : ActionsOf(o) \subseteq OrderActionIds
  /\ \A o \in Orders, n \in Int : n \in Nodes(o) =>
       /\ NodeActions[o][n] \in Seq(OrderActionIds)
       /\ ActionsAt(o, n) \subseteq ActionsOf(o)
<1>1. \A o \in Orders, n \in Int : n \in Nodes(o) =>
        NodeActions[o][n] \in Seq(OrderActionIds)
  BY OrdersAssumption
<1>2. \A o \in Orders, n \in Int : n \in Nodes(o) =>
        ActionsAt(o, n) \subseteq OrderActionIds
  BY <1>1 DEF ActionsAt
<1>3. \A o \in Orders, n \in Int : n \in Nodes(o) =>
        ActionsAt(o, n) \subseteq ActionsOf(o)
  BY OrdersAssumption DEF ActionsOf
<1>4. ASSUME NEW o \in Orders, NEW a \in ActionsOf(o)
      PROVE  a \in OrderActionIds
  <2>1. a \in UNION {ActionsAt(o, n) : n \in Nodes(o)}
    BY <1>4, OrdersAssumption DEF ActionsOf
  <2>2. PICK n \in Nodes(o) : a \in ActionsAt(o, n)
    BY <2>1
  <2>3. n \in Int
    BY OrdersAssumption DEF Nodes
  <2>4. QED
    BY <1>2, <2>2, <2>3
<1>5. ActionsOf(NoOrder) = {}
  BY DEF ActionsOf
<1>6. QED
  BY <1>1, <1>3, <1>4, <1>5

\* The action the loop looks at belongs to the current order and node.
LEMMA NodeActionTyped ==
  ASSUME TypeOK, AtAction
  PROVE  NodeAction \in OrderActionIds /\ NodeAction \in ActionsAt(order, currentNode)
<1>1. order \in Orders /\ currentNode \in Nodes(order) /\ currentNode \in Int
  BY DEF TypeOK, AtAction, InLoop
<1>2. NodeActions[order][currentNode] \in Seq(OrderActionIds)
  BY <1>1, OrderActionsTyped
<1>3. idx \in DOMAIN NodeActions[order][currentNode]
  BY DEF AtAction
<1>4. QED
  BY <1>2, <1>3 DEF NodeAction, ActionsAt

\* Changing the state of an action keeps a well-formed action_states.
LEMMA UpdateTyped ==
  ASSUME NEW states \in [ActionIds -> Statuses], NEW a, NEW s \in Statuses
  PROVE  Update(states, a, s) \in [ActionIds -> Statuses]
BY DEF Update

\* The initial values have the types of their variables.
LEMMA InitTypeOK == Init => TypeOK
<1> SUFFICES ASSUME Init PROVE TypeOK
  OBVIOUS
<1>1. FreeGoal \in Goal
  BY DEF FreeGoal, Goal, GoalPhases
<1>2. goals \in [GoalSlots -> Goal]
  BY <1>1 DEF Init
<1>3. /\ actionStates \in [ActionIds -> Statuses]
      /\ jobs \in [ActionIds -> Nat] /\ failing \in [ActionIds -> Nat]
      /\ deliveries \in [Orders -> Nat]
  BY DEF Init, Statuses
<1>4. /\ pc \in {"spin", "pause", "execute", "loop"}
      /\ fault \in Faults
      /\ clientState \in {"IDLE", "RUNNING", "PAUSED"}
      /\ firstError \in {"NONE", "WARNING", "FATAL"}
  BY DEF Init, Faults
<1>5. QED
  BY <1>2, <1>3, <1>4 DEF Init, TypeOK

\* Helpers the steps share, with the groups of variables they leave alone.
USE DEF control, progress, agvState, errors, position, commands, canceling, pausing,
        teleop, nav, threads, inputs

\* The steps that no callback of an order or goal takes part in.
LEMMA JobTypeOK ==
  ASSUME TypeOK, NEW a \in ActionIds, JobStep(a)
  PROVE  TypeOK'
<1>1. ASSUME NEW s \in Terminal, JobEnds(a, s) PROVE TypeOK'
  <2>1. actionStates' \in [ActionIds -> Statuses]
    BY <1>1, UpdateTyped DEF JobEnds, TypeOK, Terminal, Statuses
  <2>2. jobs' \in [ActionIds -> Nat]
    BY <1>1 DEF JobEnds, TypeOK
  <2>3. QED
    BY <1>1, <2>1, <2>2 DEF JobEnds, TypeOK
<1>2. CASE JobReportsFatal(a)
  <2>1. jobs' \in [ActionIds -> Nat] /\ failing' \in [ActionIds -> Nat]
    BY <1>2 DEF JobReportsFatal, TypeOK
  <2>2. firstError' \in {"NONE", "WARNING", "FATAL"} /\ fatal' \in BOOLEAN
    BY <1>2 DEF JobReportsFatal, AddError, TypeOK
  <2>3. QED
    BY <1>2, <2>1, <2>2 DEF JobReportsFatal, TypeOK
<1>3. CASE JobFailsAfterFatal(a)
  <2>1. actionStates' \in [ActionIds -> Statuses]
    BY <1>3, UpdateTyped DEF JobFailsAfterFatal, TypeOK, Statuses
  <2>2. failing' \in [ActionIds -> Nat]
    BY <1>3 DEF JobFailsAfterFatal, TypeOK
  <2>3. QED
    BY <1>3, <2>1, <2>2 DEF JobFailsAfterFatal, TypeOK
<1>4. CASE JobThrows(a)
  <2>1. fault' \in Faults
    BY <1>4 DEF JobThrows, Fault, Faults
  <2>2. UNCHANGED <<control, clientState, progress, agvState, commands, nav, threads, inputs>>
    BY <1>4 DEF JobThrows
  <2>3. QED
    BY <2>1, <2>2 DEF TypeOK
<1>5. QED
  BY <1>1, <1>2, <1>3, <1>4 DEF JobStep

\* The orders: accepted, dropped, ignored, or fatal to a client without one.
LEMMA OrderTypeOK ==
  ASSUME TypeOK, OrderCallback
  PROVE  TypeOK'
<1>1. CASE OrderCallbackNoOrder
  <2>1. PICK o \in Orders : Deliver(o)
    BY <1>1 DEF OrderCallbackNoOrder
  <2>2. deliveries' \in [Orders -> Nat] /\ unsent' = unsent
    BY <2>1 DEF Deliver, TypeOK
  <2>3. fault' \in Faults
    BY <1>1 DEF OrderCallbackNoOrder, Fault, Faults
  <2>4. UNCHANGED <<control, clientState, progress, agvState, commands, nav, threads>>
    BY <1>1 DEF OrderCallbackNoOrder, Atomic
  <2>5. QED
    BY <2>2, <2>3, <2>4 DEF TypeOK
<1>2. ASSUME NEW o \in Orders, AcceptOrder(o) PROVE TypeOK'
  <2>1. deliveries' \in [Orders -> Nat]
    BY <1>2 DEF AcceptOrder, Deliver, TypeOK
  <2>2. actionStates' \in [ActionIds -> Statuses]
    BY <1>2 DEF AcceptOrder, InitActionStates, Statuses, TypeOK
  <2>3. NodeCount[o] \in Nat \ {0} /\ o # NoOrder
    BY <1>2, OrdersAssumption DEF AcceptOrder
  <2>4. /\ order' = o /\ currentNode' = 0 /\ nextStop' = 0 /\ lastNode' = 0
        /\ nodesLeft' = NodeCount[o] - 1 /\ 0 \in Nodes(o)
    BY <1>2, <2>3 DEF AcceptOrder, Nodes
  <2>5. /\ pc' = "spin" /\ clientState' = "RUNNING" /\ reached' \in BOOLEAN
        /\ firstError' = "NONE" /\ fatal' \in BOOLEAN /\ driving' \in BOOLEAN
        /\ unsent' = unsent
        /\ UNCHANGED <<control, fault, commands, nav, threads>>
    BY <1>2 DEF AcceptOrder, Deliver, Spinning, Atomic
  <2>6. QED
    BY <2>1, <2>2, <2>3, <2>4, <2>5 DEF TypeOK
<1>3. ASSUME NEW o \in Orders, DropEmptyOrder(o) PROVE TypeOK'
  <2>1. deliveries' \in [Orders -> Nat]
    BY <1>3 DEF DropEmptyOrder, Deliver, TypeOK
  <2>2. QED
    BY <1>3, <2>1 DEF DropEmptyOrder, Deliver, Atomic, TypeOK
<1>4. ASSUME NEW o \in Orders, IgnoreOrder(o) PROVE TypeOK'
  <2>1. deliveries' \in [Orders -> Nat]
    BY <1>4 DEF IgnoreOrder, Deliver, TypeOK
  <2>2. QED
    BY <1>4, <2>1 DEF IgnoreOrder, Deliver, AddError, Atomic, TypeOK
<1>5. QED
  BY <1>1, <1>2, <1>3, <1>4 DEF OrderCallback

\* A round of CancelOrder, whether it ends, goes on or faults.
LEMMA CancelTypeOK ==
  ASSUME TypeOK, CancelOrder
  PROVE  TypeOK'
<1>1. CanceledStates \in [ActionIds -> Statuses]
  BY DEF CanceledStates, Statuses, TypeOK
<1>2. /\ actionStates' \in [ActionIds -> Statuses]
      /\ cancelAction' \in InstantIds \cup {NoAction}
      /\ clientState' \in {"IDLE", "RUNNING", "PAUSED"}
      /\ fault' \in Faults
  <2>1. "FINISHED" \in Statuses /\ fault \in Faults
    BY DEF Statuses, TypeOK
  <2>2. CASE CancelOrderIdle \/ CancelOrderThrows
    BY <2>2 DEF CancelOrderIdle, CancelOrderThrows, Fault, Faults, TypeOK
  <2>3. CASE CancelOrderRound
    BY <1>1, <2>1, <2>3, UpdateTyped DEF CancelOrderRound, TypeOK
  <2>4. QED
    BY <2>2, <2>3 DEF CancelOrder
<1>3. canceledIds' \subseteq OrderActionIds
  BY OrderActionsTyped
     DEF CancelOrder, CancelOrderIdle, CancelOrderThrows, CancelOrderRound,
         OrderActionsIn, TypeOK
<1>4. CancelNavGoal \in [GoalSlots -> Goal]
  BY DEF CancelNavGoal, Goal, GoalPhases, TypeOK
<1>5. goals' \in [GoalSlots -> Goal]
  BY <1>4 DEF CancelOrder, CancelOrderIdle, CancelOrderThrows, CancelOrderRound, TypeOK
<1>6. QED
  BY <1>2, <1>3, <1>5 DEF CancelOrder, Spinning, TypeOK

\* PauseOrder, called by the timer and by startPause.
LEMMA PauseTypeOK ==
  ASSUME TypeOK, NEW p \in InstantIds,
         NEW states \in [ActionIds -> Statuses], PauseOrder(p, states)
  PROVE  /\ actionStates' \in [ActionIds -> Statuses]
         /\ pauseAction' \in InstantIds \cup {NoAction}
         /\ clientState' \in {"IDLE", "RUNNING", "PAUSED"}
         /\ fault' \in Faults
         /\ pausedIds' \subseteq OrderActionIds
         /\ goals' \in [GoalSlots -> Goal]
<1>1. PausedStates(p, states) \in [ActionIds -> Statuses]
  BY DEF PausedStates, Statuses
<1>2. CancelNavGoal \in [GoalSlots -> Goal]
  BY DEF CancelNavGoal, Goal, GoalPhases, TypeOK
<1>3. CASE PauseOrderRefused(p, states)
  <2>1. actionStates' \in [ActionIds -> Statuses]
    BY <1>3, UpdateTyped DEF PauseOrderRefused, Statuses
  <2>2. QED
    BY <1>3, <2>1 DEF PauseOrderRefused, TypeOK
<1>4. CASE PauseOrderFaults(p, states)
  BY <1>4 DEF PauseOrderFaults, Fault, Faults, TypeOK
<1>5. CASE PauseOrderRound(p, states)
  <2>1. actionStates' \in [ActionIds -> Statuses]
    BY <1>1, <1>5, UpdateTyped DEF PauseOrderRound, Statuses
  <2>2. pausedIds' \subseteq OrderActionIds
    BY <1>5, OrderActionsTyped DEF PauseOrderRound, OrderActionsIn, TypeOK
  <2>3. QED
    BY <1>2, <1>5, <2>1, <2>2 DEF PauseOrderRound, TypeOK
<1>6. QED
  BY <1>3, <1>4, <1>5 DEF PauseOrder

\* The pause round of the timer callback.
LEMMA TimerPauseTypeOK ==
  ASSUME TypeOK, TimerPauseOrder
  PROVE  TypeOK'
<1>1. pauseAction \in InstantIds /\ actionStates \in [ActionIds -> Statuses]
  BY DEF TimerPauseOrder, TypeOK
<1>2. QED
  BY <1>1, PauseTypeOK DEF TimerPauseOrder, AtPause, Spinning, TypeOK

\* The local variables of the timer callback, when it returns.
LEMMA EndTimerTyped ==
  ASSUME EndTimer
  PROVE  /\ pc' \in {"spin", "pause", "execute", "loop"} /\ pc' # "loop" /\ idx' \in Nat
         /\ stopDriving' \in BOOLEAN /\ hasRunning' \in BOOLEAN
<1>1. pc' = "spin" /\ idx' = 1
  BY DEF EndTimer
<1>2. stopDriving' \in BOOLEAN /\ hasRunning' \in BOOLEAN
  BY DEF EndTimer
<1>3. QED
  BY <1>1, <1>2

\* The rest of the timer callback before the loop.
LEMMA ExecuteTypeOK ==
  ASSUME TypeOK, ExecuteOrderCallback
  PROVE  TypeOK'
<1>1. /\ pc' \in {"spin", "pause", "execute", "loop"} /\ idx' \in Nat
      /\ stopDriving' \in BOOLEAN /\ hasRunning' \in BOOLEAN
      /\ pc' = "loop" => order # NoOrder
  <2>1. CASE EnterNode
    BY <2>1 DEF EnterNode
  <2>2. CASE TfLookupFails \/ NothingToExecute \/ StopOnFatalError \/ ExecuteWithoutOrder
    <3>1. EndTimer
      BY <2>2 DEF TfLookupFails, NothingToExecute, StopOnFatalError, ExecuteWithoutOrder
    <3>2. QED
      BY <3>1, EndTimerTyped
  <2>3. QED
    BY <2>1, <2>2 DEF ExecuteOrderCallback
<1>2. fault' \in Faults /\ clientState' \in {"IDLE", "RUNNING", "PAUSED"}
  BY DEF ExecuteOrderCallback, TfLookupFails, NothingToExecute, StopOnFatalError,
         EnterNode, ExecuteWithoutOrder, Fault, Faults, TypeOK
<1>3. UNCHANGED <<progress, agvState, commands, nav, threads, inputs>>
  BY DEF ExecuteOrderCallback, TfLookupFails, NothingToExecute, StopOnFatalError,
         EnterNode, ExecuteWithoutOrder
<1>4. QED
  BY <1>1, <1>2, <1>3 DEF TypeOK

\* One action of the loop: at most its own state, job and pause id change.
LEMMA ExecuteActionTyped ==
  ASSUME TypeOK, NEW a \in OrderActionIds, ExecuteAction(a)
  PROVE  /\ actionStates' \in [ActionIds -> Statuses]
         /\ jobs' \in [ActionIds -> Nat]
         /\ pauseOrder' \in BOOLEAN
         /\ pauseOrderActionId' \in OrderActionIds \cup {NoAction}
<1>1. actionStates' \in [ActionIds -> Statuses]
  BY DEF ExecuteAction, Statuses, TypeOK
<1>2. jobs' \in [ActionIds -> Nat]
  <2>1. a \in ActionIds /\ jobs[a] + 1 \in Nat
    BY DEF ActionIds, TypeOK
  <2>2. [jobs EXCEPT ![a] = @ + 1] \in [ActionIds -> Nat]
    BY <2>1 DEF TypeOK
  <2>3. jobs \in [ActionIds -> Nat]
    BY DEF TypeOK
  <2>4. QED
    BY <2>2, <2>3 DEF ExecuteAction
<1>3. QED
  BY <1>1, <1>2 DEF ExecuteAction, TypeOK

\* Every pass of the loop.
LEMMA LoopTypeOK ==
  ASSUME TypeOK, LoopOverActions
  PROVE  TypeOK'
<1>1. AtAction /\ NodeAction \in OrderActionIds
  BY NodeActionTyped
     DEF LoopOverActions, SkipAction, WaitForHardAction, PassRunningAction,
         StartHardAction, StartParallelAction
<1>2. order # NoOrder
  BY <1>1 DEF AtAction, InLoop, TypeOK
<1>3. /\ actionStates' \in [ActionIds -> Statuses]
      /\ jobs' \in [ActionIds -> Nat]
      /\ pauseOrder' \in BOOLEAN
      /\ pauseOrderActionId' \in OrderActionIds \cup {NoAction}
  BY <1>1, ExecuteActionTyped
     DEF LoopOverActions, SkipAction, WaitForHardAction, PassRunningAction,
         StartHardAction, StartParallelAction, TypeOK
<1>4. /\ pc' \in {"spin", "pause", "execute", "loop"} /\ idx' \in Nat
      /\ stopDriving' \in BOOLEAN /\ hasRunning' \in BOOLEAN
  <2>1. CASE WaitForHardAction \/ StartHardAction
    BY <2>1, EndTimerTyped DEF WaitForHardAction, StartHardAction
  <2>2. CASE SkipAction
    <3>1. stopDriving' \in BOOLEAN /\ hasRunning' \in BOOLEAN
      BY <2>2 DEF SkipAction, TypeOK
    <3>2. QED
      BY <2>2, <3>1 DEF SkipAction, NextAction, TypeOK
  <2>3. CASE PassRunningAction \/ StartParallelAction
    <3>1. stopDriving' \in BOOLEAN /\ hasRunning' \in BOOLEAN
      BY <2>3 DEF PassRunningAction, StartParallelAction, TypeOK
    <3>2. pc' = "loop" /\ idx' = idx + 1
      BY <2>3 DEF PassRunningAction, StartParallelAction, NextAction
    <3>3. QED
      BY <3>1, <3>2 DEF TypeOK
  <2>4. QED
    BY <2>1, <2>2, <2>3 DEF LoopOverActions
<1>5. UNCHANGED <<fault, clientState, progress, errors, position, canceling,
                  pausing, nav, failing, inputs>>
  BY DEF LoopOverActions
<1>6. QED
  BY <1>2, <1>3, <1>4, <1>5 DEF TypeOK

\* Leaving a node: the goal that is sent is well formed.
LEMMA LeaveTypeOK ==
  ASSUME TypeOK, LeaveNode
  PROVE  TypeOK'
<1>1. order \in Orders /\ currentNode \in Nodes(order) /\ NodeCount[order] \in Nat
  BY OrdersAssumption
     DEF LeaveNode, StayAtNode, CompleteOrder, StatusCheckFails, GoToNextNode,
         NavServerNotAvailable, StatusCheckHangs, NavigateThroughPoses, LoopDone, InLoop, TypeOK
<1>2. ASSUME NEW g \in GoalSlots, NEW stop \in Nat, NEW poses \in Nat,
             SendGoal(g, stop, poses)
      PROVE  /\ goals' \in [GoalSlots -> Goal] /\ nextStop' \in Nat
             /\ reached' \in BOOLEAN /\ driving' \in BOOLEAN
             /\ UNCHANGED <<clientState, order, currentNode>>
  <2>1. [phase |-> "sent", order |-> order, stop |-> stop, left |-> poses] \in Goal
    BY <1>1, <1>2 DEF Goal, GoalPhases
  <2>2. goals' \in [GoalSlots -> Goal]
    BY <1>2, <2>1 DEF SendGoal, TypeOK
  <2>3. reached' \in BOOLEAN /\ driving' \in BOOLEAN
    BY <1>2 DEF SendGoal
  <2>4. nextStop' \in Nat /\ UNCHANGED <<clientState, order, currentNode>>
    BY <1>2 DEF SendGoal
  <2>5. QED
    BY <2>2, <2>3, <2>4
<1>3. /\ goals' \in [GoalSlots -> Goal] /\ nextStop' \in Nat
      /\ reached' \in BOOLEAN /\ driving' \in BOOLEAN
      /\ clientState' \in {"IDLE", "RUNNING", "PAUSED"}
      /\ UNCHANGED <<order, currentNode>>
  <2>1. CASE \/ StayAtNode \/ CompleteOrder \/ StatusCheckFails
             \/ NavServerNotAvailable \/ StatusCheckHangs
    <3>1. reached' \in BOOLEAN
      BY <2>1
         DEF StayAtNode, CompleteOrder, StatusCheckFails, NavServerNotAvailable,
             StatusCheckHangs, TypeOK
    <3>2. goals' = goals /\ driving' = driving /\ UNCHANGED <<order, currentNode>>
      BY <2>1 DEF StayAtNode, CompleteOrder, StatusCheckFails, NavServerNotAvailable,
                  StatusCheckHangs
    <3>3. nextStop' \in {nextStop, nextStop + 1, currentNode}
      BY <2>1 DEF StayAtNode, CompleteOrder, StatusCheckFails, NavServerNotAvailable,
                  StatusCheckHangs
    <3>4. clientState' \in {clientState, "IDLE"}
      BY <2>1 DEF StayAtNode, CompleteOrder, StatusCheckFails, NavServerNotAvailable,
                  StatusCheckHangs
    <3>5. QED
      BY <3>1, <3>2, <3>3, <3>4 DEF TypeOK
  <2>2. CASE NavigateThroughPoses
    <3>1. ASSUME NEW g \in GoalSlots, NEW s \in Nodes(order),
                 IsNextStop(order, currentNode, s), SendGoal(g, s, s - currentNode)
          PROVE  <1>3
      <4>1. s \in Nat /\ s - currentNode \in Nat
        BY <1>1, <3>1 DEF IsNextStop, Nodes, LastNode, TypeOK
      <4>2. QED
        BY <1>2, <3>1, <4>1 DEF TypeOK
    <3>2. ASSUME NEW g \in GoalSlots, SendGoal(g, nextStop + 1, 0)
          PROVE  <1>3
      BY <1>2, <3>2 DEF TypeOK
    <3>3. QED
      BY <2>2, <3>1, <3>2 DEF NavigateThroughPoses
  <2>3. QED
    BY <2>1, <2>2 DEF LeaveNode
<1>4. /\ pc' \in {"spin", "pause", "execute", "loop"} /\ pc' # "loop" /\ idx' \in Nat
      /\ stopDriving' \in BOOLEAN /\ hasRunning' \in BOOLEAN
  BY EndTimerTyped DEF LeaveNode
<1>5. UNCHANGED <<actionStates, errors, lastNode, nodesLeft, commands, navHandle, threads,
                  inputs>>
  BY DEF LeaveNode
<1>6. fault' \in Faults
  BY DEF LeaveNode, StatusCheckHangs, Fault, Faults, TypeOK
<1>7. QED
  BY <1>1, <1>3, <1>4, <1>5, <1>6 DEF TypeOK

\* The callback of a parse error.
LEMMA OrderErrorTypeOK ==
  ASSUME TypeOK, OrderValidErrorCallback
  PROVE  TypeOK'
<1>1. firstError' \in {"NONE", "WARNING", "FATAL"} /\ fatal' \in BOOLEAN
  BY DEF OrderValidErrorCallback, AddError, TypeOK
<1>2. UNCHANGED <<control, fault, clientState, progress, actionStates, position, commands,
                  nav, threads, inputs>>
  BY DEF OrderValidErrorCallback, Atomic
<1>3. QED
  BY <1>1, <1>2 DEF TypeOK

\* Instant actions: what each kind of action changes.
LEMMA InstantTypeOK ==
  ASSUME TypeOK, NEW a \in InstantIds, InstantActionsCallback(a)
  PROVE  TypeOK'
<1>a. a \in ActionIds /\ ActionType[a] \in InstantTypes
  BY OrdersAssumption DEF ActionIds
<1>b. ASSUME NEW s \in Statuses PROVE Entry(a, s) \in [ActionIds -> Statuses]
  BY <1>a DEF Entry, TypeOK
<1>1. actionStates' \in [ActionIds -> Statuses]
  <2>1. CASE CancelOrderReceived(a)
    BY <2>1, <1>b DEF CancelOrderReceived, Statuses
  <2>2. CASE StartTeleop(a) \/ FactsheetRequest(a)
    BY <2>2, <1>b DEF StartTeleop, FactsheetRequest, Statuses
  <2>3. CASE StopTeleop(a)
    BY <2>3, <1>b, UpdateTyped DEF StopTeleop, Statuses
  <2>4. CASE StartPause(a)
    BY <2>4, <1>b, PauseTypeOK DEF StartPause, Statuses
  <2>5. CASE StopPause(a)
    <3>1. /\ Entry(a, "FAILED") \in [ActionIds -> Statuses]
          /\ [x \in ActionIds |->
               IF x = a THEN "FINISHED"
               ELSE IF x \in OrderActionsIn("PAUSED") THEN "RUNNING" ELSE actionStates[x]]
               \in [ActionIds -> Statuses]
      BY <1>b DEF Statuses, TypeOK
    <3>2. QED
      BY <2>5, <3>1 DEF StopPause, TypeOK
  <2>6. CASE HandlerAction(a) \/ UnknownInstantAction(a)
    BY <2>6, <1>b DEF HandlerAction, UnknownInstantAction, Statuses
  <2>7. QED
    BY <2>1, <2>2, <2>3, <2>4, <2>5, <2>6 DEF InstantActionsCallback
<1>2. /\ fault' \in Faults
      /\ clientState' \in {"IDLE", "RUNNING", "PAUSED"}
      /\ cancelAction' \in InstantIds \cup {NoAction} /\ canceledIds' = canceledIds
      /\ pauseAction' \in InstantIds \cup {NoAction} /\ pausedIds' \subseteq OrderActionIds
      /\ goals' \in [GoalSlots -> Goal]
  <2>1. CASE StartPause(a)
    <3>1. Entry(a, "WAITING") \in [ActionIds -> Statuses]
      BY <1>b DEF Statuses
    <3>2. QED
      BY <2>1, <3>1, PauseTypeOK DEF StartPause, TypeOK
  <2>2. CASE StartTeleop(a)
    <3>1. CancelNavGoal \in [GoalSlots -> Goal]
      BY DEF CancelNavGoal, Goal, GoalPhases, TypeOK
    <3>2. QED
      BY <2>2, <3>1 DEF StartTeleop, TypeOK
  <2>3. CASE StopPause(a)
    <3>1. fault' \in Faults /\ clientState' \in {"IDLE", "RUNNING", "PAUSED"}
      BY <2>3 DEF StopPause, Fault, Faults, TypeOK
    <3>2. QED
      BY <2>3, <3>1 DEF StopPause, TypeOK
  <2>4. CASE CancelOrderReceived(a) \/ StopTeleop(a) \/ FactsheetRequest(a)
             \/ HandlerAction(a) \/ UnknownInstantAction(a)
    BY <2>4 DEF CancelOrderReceived, StopTeleop, FactsheetRequest, HandlerAction,
                UnknownInstantAction, TypeOK
  <2>5. QED
    BY <2>1, <2>2, <2>3, <2>4 DEF InstantActionsCallback
<1>3. nextStop' \in Nat /\ reached' \in BOOLEAN
  <2>1. CASE StopTeleop(a)
    BY <2>1 DEF StopTeleop, TypeOK
  <2>2. CASE StopPause(a)
    <3>1. nextStop' \in {nextStop, currentNode} /\ reached' \in {reached, TRUE}
      BY <2>2 DEF StopPause
    <3>2. QED
      BY <3>1 DEF TypeOK
  <2>3. CASE StartPause(a) \/ StartTeleop(a) \/ CancelOrderReceived(a)
             \/ FactsheetRequest(a) \/ HandlerAction(a) \/ UnknownInstantAction(a)
    BY <2>3 DEF StartPause, StartTeleop, CancelOrderReceived, FactsheetRequest,
                HandlerAction, UnknownInstantAction, TypeOK
  <2>4. QED
    BY <2>1, <2>2, <2>3 DEF InstantActionsCallback
<1>4. pauseOrder' \in BOOLEAN /\ pauseOrderActionId' \in OrderActionIds \cup {NoAction}
  <2>1. CASE StartTeleop(a)
    BY <2>1 DEF StartTeleop, TypeOK
  <2>2. CASE StopTeleop(a)
    BY <2>2 DEF StopTeleop, TypeOK
  <2>3. CASE StartPause(a) \/ StopPause(a) \/ CancelOrderReceived(a)
             \/ FactsheetRequest(a) \/ HandlerAction(a) \/ UnknownInstantAction(a)
    <3>1. UNCHANGED teleop
      BY <2>3 DEF StartPause, StopPause, CancelOrderReceived, FactsheetRequest,
                  HandlerAction, UnknownInstantAction
    <3>2. QED
      BY <3>1 DEF TypeOK
  <2>4. QED
    BY <2>1, <2>2, <2>3 DEF InstantActionsCallback
<1>5. jobs' \in [ActionIds -> Nat]
  <2>1. [jobs EXCEPT ![a] = @ + 1] \in [ActionIds -> Nat]
    BY <1>a DEF TypeOK
  <2>2. jobs' \in {jobs, [jobs EXCEPT ![a] = @ + 1]}
    BY DEF InstantActionsCallback, StartPause, StopPause, CancelOrderReceived, StartTeleop,
           StopTeleop, FactsheetRequest, HandlerAction, UnknownInstantAction
  <2>3. QED
    BY <2>1, <2>2 DEF TypeOK
<1>6. /\ UNCHANGED <<control, order, currentNode, errors, position, navHandle, failing>>
      /\ unsent' \subseteq unsent /\ UNCHANGED deliveries
  BY DEF InstantActionsCallback, Receive, Atomic
<1>7. QED
  BY <1>1, <1>2, <1>3, <1>4, <1>5, <1>6 DEF TypeOK

\* The message with a second new action.
LEMMA SecondInstantTypeOK ==
  ASSUME TypeOK, SecondInstantActionThrows
  PROVE  TypeOK'
<1>1. unsent' \subseteq unsent
  BY DEF SecondInstantActionThrows
<1>2. fault' \in Faults
  BY DEF SecondInstantActionThrows, Fault, Faults
<1>3. UNCHANGED <<control, clientState, progress, agvState, commands, nav, threads,
                  deliveries>>
  BY DEF SecondInstantActionThrows, Atomic
<1>4. QED
  BY <1>1, <1>2, <1>3 DEF TypeOK

\* An answer to a goal.
LEMMA ResponseTypeOK ==
  ASSUME TypeOK, NEW g \in GoalSlots, NavGoalResponseCallback(g)
  PROVE  TypeOK'
<1>1. goals' \in [GoalSlots -> Goal]
  <2>1. FreeGoal \in Goal /\ [goals[g] EXCEPT !.phase = "active"] \in Goal
    BY DEF FreeGoal, Goal, GoalPhases, TypeOK
  <2>2. QED
    BY <2>1 DEF NavGoalResponseCallback, GoalAccepted, GoalRejected, TypeOK
<1>2. driving' \in BOOLEAN
  BY DEF NavGoalResponseCallback, GoalAccepted, GoalRejected
<1>3. firstError' \in {"NONE", "WARNING", "FATAL"} /\ fatal' \in BOOLEAN
  BY DEF NavGoalResponseCallback, GoalAccepted, GoalRejected, AddError, TypeOK
<1>4. /\ navHandle' \in GoalSlots \cup {NoGoal}
      /\ clientState' \in {"IDLE", "RUNNING", "PAUSED"}
  BY DEF NavGoalResponseCallback, GoalAccepted, GoalRejected, TypeOK
<1>5. UNCHANGED <<control, fault, progress, actionStates, lastNode, nodesLeft, commands,
                  threads, inputs>>
  BY DEF NavGoalResponseCallback, Atomic
<1>6. QED
  BY <1>1, <1>2, <1>3, <1>4, <1>5 DEF TypeOK

\* The feedback on a goal and its result.
LEMMA FeedbackTypeOK ==
  ASSUME TypeOK, GoalsNeedAnOrder,
         NEW g \in GoalSlots, NEW r \in 0 .. goals[g].left, NavFeedbackCallback(g, r)
  PROVE  TypeOK'
<1>a. order \in Orders /\ order # NoOrder /\ NodeCount[order] \in Nat
  BY OrdersAssumption
     DEF NavFeedbackCallback, GoalsNeedAnOrder, Moving, Outstanding, TypeOK
<1>1. goals' \in [GoalSlots -> Goal]
  <2>1. goals[g] \in Goal /\ r \in Nat
    BY DEF Goal, TypeOK
  <2>2. [goals EXCEPT ![g].left = r] \in [GoalSlots -> Goal]
    BY <2>1 DEF Goal, TypeOK
  <2>3. QED
    BY <2>2 DEF NavFeedbackCallback
<1>2. /\ fault' \in Faults
      /\ currentNode' \in Nodes(order) /\ currentNode' \in Nat
      /\ lastNode' \in Nat /\ nodesLeft' \in Nat
  <2>1. CASE nextStop - r \in Nodes(order)
    <3>1. /\ currentNode' = nextStop - r /\ lastNode' = nextStop - r /\ fault' = fault
          /\ TrimNodeStates(nextStop - r)
      BY <2>1 DEF NavFeedbackCallback
    <3>2. nextStop - r \in 0 .. NodeCount[order] - 1 /\ nextStop - r \in Nat
      BY <1>a, <2>1 DEF Nodes, TypeOK
    <3>3. nodesLeft' \in Nat
      BY <1>a, <3>1, <3>2 DEF TrimNodeStates, LastNode, TypeOK
    <3>4. QED
      BY <2>1, <3>1, <3>2, <3>3 DEF TypeOK
  <2>2. CASE nextStop - r \notin Nodes(order)
    BY <1>a, <2>2, OrdersAssumption DEF NavFeedbackCallback, Fault, Faults, TypeOK
  <2>3. QED
    BY <2>1, <2>2
<1>3. driving' \in BOOLEAN
  BY DEF NavFeedbackCallback, TypeOK
<1>4. UNCHANGED <<control, clientState, order, nextStop, reached, actionStates, errors,
                  commands, navHandle, threads, inputs>>
  BY DEF NavFeedbackCallback, Atomic
<1>5. QED
  BY <1>a, <1>1, <1>2, <1>3, <1>4, OrdersAssumption DEF TypeOK

LEMMA ResultTypeOK ==
  ASSUME TypeOK, GoalsNeedAnOrder, NEW g \in GoalSlots, NEW code \in ResultCodes,
         NavResultCallback(g, code)
  PROVE  TypeOK'
<1>a. order \in Orders /\ order # NoOrder /\ NodeCount[order] \in Nat
  BY OrdersAssumption
     DEF NavResultCallback, GoalsNeedAnOrder, Moving, Outstanding, TypeOK
<1>1. goals' \in [GoalSlots -> Goal] /\ navHandle' \in GoalSlots \cup {NoGoal}
  <2>1. GoalEnded(g)
    BY DEF NavResultCallback, GoalSucceeded, GoalAborted, GoalCanceled, GoalResultUnknown,
           GoalResultOutOfRange
  <2>2. FreeGoal \in Goal
    BY DEF FreeGoal, Goal, GoalPhases
  <2>3. QED
    BY <2>1, <2>2 DEF GoalEnded, TypeOK
<1>2. /\ fault' \in Faults
      /\ currentNode' \in Nodes(order) /\ lastNode' \in Nat /\ nodesLeft' \in Nat
      /\ reached' \in BOOLEAN
  <2>1. CASE GoalSucceeded(g)
    BY <1>a, <2>1 DEF GoalSucceeded, TrimNodeStates, Nodes, LastNode, TypeOK
  <2>2. CASE GoalAborted(g)
    BY <1>a, <2>2 DEF GoalAborted, TypeOK
  <2>3. CASE GoalCanceled(g) \/ GoalResultUnknown(g)
    BY <1>a, <2>3 DEF GoalCanceled, GoalResultUnknown, TypeOK
  <2>4. CASE GoalResultOutOfRange(g, code)
    BY <1>a, <2>4 DEF GoalResultOutOfRange, Fault, Faults, TypeOK
  <2>5. QED
    BY <2>1, <2>2, <2>3, <2>4 DEF NavResultCallback
<1>3. firstError' \in {"NONE", "WARNING", "FATAL"} /\ fatal' \in BOOLEAN
  BY DEF NavResultCallback, GoalSucceeded, GoalAborted, GoalCanceled, GoalResultUnknown,
         GoalResultOutOfRange, AddError, TypeOK
<1>4. driving' \in BOOLEAN
  BY DEF NavResultCallback
<1>5. UNCHANGED <<control, clientState, order, nextStop, actionStates, commands, threads,
                  inputs>>
  BY DEF NavResultCallback, Atomic
<1>6. currentNode' \in Nat
  BY <1>a, <1>2 DEF Nodes
<1>7. QED
  BY <1>a, <1>1, <1>2, <1>3, <1>4, <1>5, <1>6 DEF TypeOK

\* Every step keeps the types.
LEMMA NextTypeOK ==
  ASSUME TypeOK, GoalsNeedAnOrder, [Next]_vars
  PROVE  TypeOK'
<1>1. CASE UNCHANGED vars
  BY <1>1 DEF vars, TypeOK, Nodes
<1>2. CASE Next
  BY <1>2, OrderTypeOK, OrderErrorTypeOK, InstantTypeOK, SecondInstantTypeOK, CancelTypeOK,
     TimerPauseTypeOK, ExecuteTypeOK, LoopTypeOK, LeaveTypeOK, ResponseTypeOK,
     FeedbackTypeOK, ResultTypeOK, JobTypeOK
     DEF Next, Timer, NavResult
<1>3. QED
  BY <1>1, <1>2

\* What a step may do to the goals, their handle and the order.
QuietStep ==
  UNCHANGED nav /\ (order' = order \/ order' \in Orders)

CancelStep ==
  goals' = CancelNavGoal /\ UNCHANGED <<navHandle, order>>

SendStep ==
  /\ order # NoOrder
  /\ \E g \in GoalSlots, stop \in Int, poses \in Int : SendGoal(g, stop, poses)
  /\ UNCHANGED navHandle

AcceptStep ==
  \E g \in GoalSlots : GoalAccepted(g) /\ UNCHANGED order

FeedbackStep ==
  /\ \E g \in Moving, r \in Nat : goals' = [goals EXCEPT ![g].left = r]
  /\ UNCHANGED <<navHandle, order>>

\* A rejected goal and one that ends leave no handle.
EndStep ==
  /\ \E g \in GoalSlots : goals' = [goals EXCEPT ![g] = FreeGoal]
  /\ navHandle' = NoGoal /\ UNCHANGED order

LEMMA GoalStepCases ==
  ASSUME TypeOK, [Next]_vars
  PROVE  QuietStep \/ CancelStep \/ SendStep \/ AcceptStep \/ FeedbackStep \/ EndStep
<1>1. CASE UNCHANGED vars
  BY <1>1 DEF vars, QuietStep
<1>2. CASE OrderCallback
  BY <1>2 DEF OrderCallback, OrderCallbackNoOrder, AcceptOrder, DropEmptyOrder, IgnoreOrder,
              QuietStep
<1>3. CASE OrderValidErrorCallback \/ SecondInstantActionThrows
           \/ \E a \in ActionIds : JobStep(a)
  BY <1>3 DEF OrderValidErrorCallback, SecondInstantActionThrows, JobStep, JobEnds,
              JobReportsFatal, JobFailsAfterFatal, JobThrows, QuietStep
<1>4. ASSUME NEW a \in InstantIds, InstantActionsCallback(a)
      PROVE  QuietStep \/ CancelStep
  <2>1. navHandle' = navHandle /\ order' = order
    BY <1>4 DEF InstantActionsCallback
  <2>2. goals' = goals \/ goals' = CancelNavGoal
    BY <1>4 DEF InstantActionsCallback, CancelOrderReceived, StartTeleop, StopTeleop,
                FactsheetRequest, StartPause, PauseOrder, PauseOrderRefused,
                PauseOrderFaults, PauseOrderRound, StopPause, HandlerAction,
                UnknownInstantAction
  <2>3. QED
    BY <2>1, <2>2 DEF QuietStep, CancelStep
<1>5. CASE CancelOrder
  BY <1>5 DEF CancelOrder, CancelOrderIdle, CancelOrderThrows, CancelOrderRound, QuietStep,
              CancelStep
<1>6. CASE TimerPauseOrder
  BY <1>6 DEF TimerPauseOrder, PauseOrder, PauseOrderRefused, PauseOrderFaults,
              PauseOrderRound, QuietStep, CancelStep
<1>7. CASE ExecuteOrderCallback \/ LoopOverActions
  BY <1>7 DEF ExecuteOrderCallback, TfLookupFails, NothingToExecute, StopOnFatalError,
              EnterNode, ExecuteWithoutOrder, LoopOverActions, QuietStep
<1>8. CASE LeaveNode
  <2>1. navHandle' = navHandle /\ order # NoOrder
    BY <1>8 DEF LeaveNode, StayAtNode, CompleteOrder, StatusCheckFails, GoToNextNode,
                NavServerNotAvailable, StatusCheckHangs, NavigateThroughPoses, LoopDone,
                InLoop, TypeOK
  <2>2. CASE \/ StayAtNode \/ CompleteOrder \/ StatusCheckFails
             \/ NavServerNotAvailable \/ StatusCheckHangs
    BY <2>1, <2>2 DEF StayAtNode, CompleteOrder, StatusCheckFails, NavServerNotAvailable,
                      StatusCheckHangs, QuietStep
  <2>3. ASSUME NEW g \in GoalSlots, NEW s \in Nodes(order), SendGoal(g, s, s - currentNode)
        PROVE  SendStep
    <3>1. s \in Int /\ s - currentNode \in Int
      BY DEF Nodes, TypeOK
    <3>2. QED
      BY <2>1, <2>3, <3>1 DEF SendStep
  <2>4. ASSUME NEW g \in GoalSlots, SendGoal(g, nextStop + 1, 0)
        PROVE  SendStep
    BY <2>1, <2>4 DEF SendStep, TypeOK
  <2>5. QED
    BY <1>8, <2>2, <2>3, <2>4 DEF LeaveNode, NavigateThroughPoses
<1>9. ASSUME NEW g \in GoalSlots, NavGoalResponseCallback(g)
      PROVE  AcceptStep \/ EndStep
  BY <1>9 DEF NavGoalResponseCallback, GoalRejected, AcceptStep, EndStep
<1>10. ASSUME NEW g \in GoalSlots, NEW r \in 0 .. goals[g].left, NavFeedbackCallback(g, r)
       PROVE  FeedbackStep
  <2>1. r \in Nat
    BY DEF Goal, TypeOK
  <2>2. QED
    BY <1>10, <2>1 DEF NavFeedbackCallback, FeedbackStep
<1>11. ASSUME NEW g \in GoalSlots, NEW code \in ResultCodes, NavResultCallback(g, code)
       PROVE  EndStep
  BY <1>11 DEF NavResultCallback, GoalSucceeded, GoalAborted, GoalCanceled,
               GoalResultUnknown, GoalResultOutOfRange, GoalEnded, EndStep
<1>12. QED
  BY <1>1, <1>2, <1>3, <1>4, <1>5, <1>6, <1>7, <1>8, <1>9, <1>10, <1>11
     DEF Next, Timer, NavResult

\* The handle stays the handle of a goal that is moving.
LEMMA HandleStep ==
  ASSUME TypeOK, HandleIsLive, [Next]_vars
  PROVE  HandleIsLive'
<1>a. navHandle # NoGoal => navHandle \in GoalSlots /\ navHandle \in Moving
  BY DEF HandleIsLive, TypeOK
<1>b. goals \in [GoalSlots -> Goal]
  BY DEF TypeOK
<1>1. CASE QuietStep
  BY <1>1 DEF QuietStep, HandleIsLive, Moving
<1>2. CASE CancelStep
  <2>1. CASE navHandle = NoGoal
    BY <1>2, <2>1 DEF CancelStep, HandleIsLive
  <2>2. CASE navHandle # NoGoal
    <3>1. goals'[navHandle].phase = "canceling"
      BY <1>2, <1>a, <1>b, <2>2 DEF CancelStep, CancelNavGoal, Goal
    <3>2. QED
      BY <1>2, <1>a, <2>2, <3>1 DEF CancelStep, HandleIsLive, Moving
  <2>3. QED
    BY <2>1, <2>2
<1>3. CASE SendStep
  <2>1. PICK g \in GoalSlots, stop \in Int, poses \in Int : SendGoal(g, stop, poses)
    BY <1>3 DEF SendStep
  <2>2. navHandle # NoGoal => navHandle # g /\ goals'[navHandle] = goals[navHandle]
    BY <1>a, <1>b, <2>1 DEF SendGoal, Moving
  <2>3. QED
    BY <1>3, <1>a, <2>2 DEF SendStep, HandleIsLive, Moving
<1>4. CASE AcceptStep
  <2>1. PICK g \in GoalSlots : GoalAccepted(g)
    BY <1>4 DEF AcceptStep
  <2>2. goals'[g].phase = "active" /\ navHandle' = g
    BY <1>b, <2>1 DEF GoalAccepted, Goal
  <2>3. QED
    BY <2>2 DEF HandleIsLive, Moving
<1>5. CASE FeedbackStep
  <2>1. PICK g \in Moving, r \in Nat : goals' = [goals EXCEPT ![g].left = r]
    BY <1>5 DEF FeedbackStep
  <2>2. \A h \in GoalSlots : goals'[h].phase = goals[h].phase
    BY <1>b, <2>1 DEF Goal
  <2>3. QED
    BY <1>5, <1>a, <2>2 DEF FeedbackStep, HandleIsLive, Moving
<1>6. CASE EndStep
  BY <1>6 DEF EndStep, HandleIsLive
<1>7. QED
  BY <1>1, <1>2, <1>3, <1>4, <1>5, <1>6, GoalStepCases

\* A goal is only sent for an order, and there is an order ever after.
LEMMA OrderStep ==
  ASSUME TypeOK, GoalsNeedAnOrder, HandleIsLive, [Next]_vars
  PROVE  GoalsNeedAnOrder'
<1>a. goals \in [GoalSlots -> Goal]
  BY DEF TypeOK
<1>1. CASE QuietStep
  BY <1>1, OrdersAssumption DEF QuietStep, GoalsNeedAnOrder, Outstanding
<1>2. CASE CancelStep
  <2>1. order = NoOrder => navHandle = NoGoal
    BY DEF GoalsNeedAnOrder, HandleIsLive, Outstanding, Moving
  <2>2. QED
    BY <1>2, <2>1 DEF CancelStep, CancelNavGoal, GoalsNeedAnOrder, Outstanding
<1>3. CASE SendStep
  BY <1>3 DEF SendStep, SendGoal, GoalsNeedAnOrder
<1>4. CASE AcceptStep
  <2>1. order # NoOrder
    BY <1>4 DEF AcceptStep, GoalAccepted, GoalsNeedAnOrder, Outstanding
  <2>2. QED
    BY <1>4, <2>1 DEF AcceptStep, GoalsNeedAnOrder
<1>5. CASE FeedbackStep
  <2>1. order # NoOrder
    BY <1>5 DEF FeedbackStep, GoalsNeedAnOrder, Outstanding, Moving
  <2>2. QED
    BY <1>5, <2>1 DEF FeedbackStep, GoalsNeedAnOrder
<1>6. CASE EndStep
  <2>1. PICK g \in GoalSlots : goals' = [goals EXCEPT ![g] = FreeGoal]
    BY <1>6 DEF EndStep
  <2>2. \A h \in GoalSlots : goals[h].phase = "free" => goals'[h].phase = "free"
    BY <1>a, <2>1 DEF FreeGoal
  <2>3. order' = order
    BY <1>6 DEF EndStep
  <2>4. QED
    BY <2>2, <2>3 DEF GoalsNeedAnOrder, Outstanding
<1>7. QED
  BY <1>1, <1>2, <1>3, <1>4, <1>5, <1>6, GoalStepCases

\* The inductive invariant holds in every state.
LEMMA GoalInvCorrect == Spec => []GoalInv
<1>1. Init => GoalInv
  <2> SUFFICES ASSUME Init PROVE GoalsNeedAnOrder /\ HandleIsLive
    BY InitTypeOK DEF GoalInv
  <2>1. \A g \in GoalSlots : goals[g].phase = "free"
    BY DEF Init, FreeGoal
  <2>2. navHandle = NoGoal
    BY DEF Init
  <2>3. QED
    BY <2>1, <2>2 DEF GoalsNeedAnOrder, HandleIsLive, Outstanding
<1>2. GoalInv /\ [Next]_vars => GoalInv'
  BY NextTypeOK, HandleStep, OrderStep DEF GoalInv
<1>3. QED
  BY <1>1, <1>2, PTL DEF Spec

\* Every variable keeps the type of the member it models, in every execution:
\* the loop of the timer callback and the callbacks of the goals index the
\* nodes of current_order_ within its bounds.
THEOREM TypeCorrect == Spec => []TypeOK
<1>1. GoalInv => TypeOK
  BY DEF GoalInv
<1>2. QED
  BY <1>1, GoalInvCorrect, PTL

\* CancelOrder, PauseOrder and TeleopActionHandler never cancel a goal that
\* Nav2 has already answered: nav_goal_handle_ is the handle of a goal that is
\* moving or is being canceled, or null.
THEOREM HandleCorrect == Spec => []HandleIsLive
<1>1. GoalInv => HandleIsLive
  BY DEF GoalInv
<1>2. QED
  BY <1>1, GoalInvCorrect, PTL

-----------------------------------------------------------------------------
\* The commands in progress are cancelOrder and startPause instant actions:
\* no handler runs them, so that RUNNING asks for no job.
CommandTypes ==
  /\ cancelAction # NoAction => ActionType[cancelAction] = "cancelOrder"
  /\ pauseAction # NoAction => ActionType[pauseAction] = "startPause"

LEMMA CommandStep ==
  ASSUME CommandTypes, [Next]_vars
  PROVE  CommandTypes'
<1>1. CASE UNCHANGED vars
  BY <1>1 DEF vars, CommandTypes
<1>2. ASSUME NEW a \in InstantIds, InstantActionsCallback(a)
      PROVE  CommandTypes'
  BY <1>2 DEF InstantActionsCallback, CancelOrderReceived, StartTeleop, StopTeleop,
              FactsheetRequest, StartPause, PauseOrder, PauseOrderRefused,
              PauseOrderFaults, PauseOrderRound, StopPause, HandlerAction,
              UnknownInstantAction, CommandTypes
<1>3. CASE CancelOrder
  BY <1>3 DEF CancelOrder, CancelOrderIdle, CancelOrderThrows, CancelOrderRound,
              CommandTypes
<1>4. CASE TimerPauseOrder
  BY <1>4 DEF TimerPauseOrder, PauseOrder, PauseOrderRefused, PauseOrderFaults,
              PauseOrderRound, CommandTypes
<1>5. CASE OrderCallback \/ OrderValidErrorCallback \/ SecondInstantActionThrows
  BY <1>5 DEF OrderCallback, OrderCallbackNoOrder, AcceptOrder, DropEmptyOrder,
              IgnoreOrder, OrderValidErrorCallback, SecondInstantActionThrows, CommandTypes
<1>6. CASE ExecuteOrderCallback \/ LoopOverActions \/ LeaveNode
  BY <1>6 DEF ExecuteOrderCallback, TfLookupFails, NothingToExecute, StopOnFatalError,
              EnterNode, ExecuteWithoutOrder, LoopOverActions, LeaveNode, CommandTypes
<1>7. CASE \/ \E g \in GoalSlots : NavGoalResponseCallback(g) \/ NavResult(g)
           \/ \E g \in GoalSlots : \E r \in 0 .. goals[g].left : NavFeedbackCallback(g, r)
  BY <1>7 DEF NavGoalResponseCallback, NavFeedbackCallback, NavResult, NavResultCallback,
              CommandTypes
<1>8. CASE \E a \in ActionIds : JobStep(a)
  BY <1>8 DEF JobStep, JobEnds, JobReportsFatal, JobFailsAfterFatal, JobThrows, CommandTypes
<1>9. QED
  BY <1>1, <1>2, <1>3, <1>4, <1>5, <1>6, <1>7, <1>8 DEF Next, Timer

LEMMA CommandsCorrect == Spec => []CommandTypes
<1>1. Init => CommandTypes
  BY DEF Init, CommandTypes
<1>2. QED
  BY <1>1, CommandStep, PTL DEF Spec

\* The steps that start or keep jobs: whoever RUNS or is PAUSED afterwards was
\* so before, or has a job now.
JobsKept ==
  \A a \in ActionIds :
    /\ jobs'[a] >= jobs[a] /\ failing'[a] = failing[a]
    /\ actionStates'[a] \in {"RUNNING", "PAUSED"} /\ ActionType[a] \in HandledTypes
         => actionStates[a] \in {"RUNNING", "PAUSED"} \/ jobs'[a] > 0

LEMMA KeptSuffices ==
  ASSUME TypeOK, RunningHasAJob, JobsKept, jobs' \in [ActionIds -> Nat]
  PROVE  RunningHasAJob'
<1> SUFFICES ASSUME NEW a \in ActionIds,
                    actionStates'[a] \in {"RUNNING", "PAUSED"},
                    ActionType[a] \in HandledTypes
             PROVE  jobs'[a] + failing'[a] > 0
  BY DEF RunningHasAJob
<1>1. /\ jobs[a] \in Nat /\ failing[a] \in Nat /\ jobs'[a] \in Nat
      /\ jobs'[a] >= jobs[a] /\ failing'[a] = failing[a]
  BY DEF TypeOK, JobsKept
<1>2. CASE actionStates[a] \in {"RUNNING", "PAUSED"}
  BY <1>1, <1>2 DEF RunningHasAJob
<1>3. CASE jobs'[a] > 0
  BY <1>1, <1>3
<1>4. QED
  BY <1>2, <1>3 DEF JobsKept

\* Steps that leave the jobs alone and start no action of a handler.
NothingStarted ==
  /\ UNCHANGED threads
  /\ \A a \in ActionIds :
       actionStates'[a] \in {"RUNNING", "PAUSED"} /\ ActionType[a] \in HandledTypes
         => actionStates[a] \in {"RUNNING", "PAUSED"}

LEMMA NothingStartedKeeps ==
  ASSUME TypeOK, NothingStarted
  PROVE  JobsKept /\ jobs' \in [ActionIds -> Nat]
BY DEF NothingStarted, JobsKept, TypeOK

LEMMA CancelStartsNothing ==
  ASSUME TypeOK, CommandTypes, CancelOrder
  PROVE  NothingStarted
<1>1. UNCHANGED threads
  BY DEF CancelOrder
<1>2. ASSUME NEW a \in ActionIds,
             actionStates'[a] \in {"RUNNING", "PAUSED"}, ActionType[a] \in HandledTypes
      PROVE  actionStates[a] \in {"RUNNING", "PAUSED"}
  <2>1. ActionType[cancelAction] = "cancelOrder"
    BY DEF CancelOrder, CommandTypes
  <2>2. a # cancelAction
    BY <1>2, <2>1 DEF HandledTypes
  <2>3. CASE actionStates' = actionStates
    BY <1>2, <2>3
  <2>4. CanceledStates[a] \in {"FAILED", actionStates[a]}
    BY <2>2 DEF CanceledStates
  <2>5. Update(CanceledStates, cancelAction, "FINISHED")[a] \in {"FINISHED", CanceledStates[a]}
    BY DEF Update, CanceledStates
  <2>6. QED
    BY <1>2, <2>3, <2>4, <2>5
       DEF CancelOrder, CancelOrderIdle, CancelOrderThrows, CancelOrderRound
<1>3. QED
  BY <1>1, <1>2 DEF NothingStarted

LEMMA PauseStartsNothing ==
  ASSUME TypeOK, NEW p \in InstantIds, ActionType[p] = "startPause",
         NEW states \in [ActionIds -> Statuses], PauseOrder(p, states),
         NEW a \in ActionIds, a # p => states[a] = actionStates[a],
         actionStates'[a] \in {"RUNNING", "PAUSED"}, ActionType[a] \in HandledTypes
  PROVE  actionStates[a] \in {"RUNNING", "PAUSED"}
<1>1. a # p /\ states[a] = actionStates[a]
  BY DEF HandledTypes
<1>2. PausedStates(p, states)[a] = actionStates[a]
        \/ (PausedStates(p, states)[a] = "PAUSED" /\ actionStates[a] = "RUNNING")
  BY <1>1 DEF PausedStates, ToPause, OrderActionsIn
<1>3. /\ Update(PausedStates(p, states), p, "FINISHED")[a] = PausedStates(p, states)[a]
      /\ \A s \in Statuses : Update(states, p, s)[a] = actionStates[a]
  BY <1>1 DEF Update, PausedStates
<1>4. CASE PauseOrderRefused(p, states)
  BY <1>3, <1>4 DEF PauseOrderRefused, Statuses
<1>5. CASE PauseOrderFaults(p, states)
  BY <1>5 DEF PauseOrderFaults
<1>6. CASE PauseOrderRound(p, states)
  BY <1>2, <1>3, <1>6 DEF PauseOrderRound
<1>7. QED
  BY <1>4, <1>5, <1>6 DEF PauseOrder

\* An action the loop starts gets a job, if a handler runs it.
LEMMA LoopKeepsJobs ==
  ASSUME TypeOK, LoopOverActions
  PROVE  JobsKept
<1>1. failing' = failing
  BY DEF LoopOverActions
<1>2. AtAction /\ NodeAction \in OrderActionIds
  BY NodeActionTyped
     DEF LoopOverActions, SkipAction, WaitForHardAction, PassRunningAction,
         StartHardAction, StartParallelAction
<1>3. CASE actionStates' = actionStates /\ jobs' = jobs
  BY <1>1, <1>3 DEF JobsKept, TypeOK
<1>4. ASSUME ExecuteAction(NodeAction)
      PROVE  JobsKept
  <2> DEFINE b == NodeAction
  <2>1. b \in ActionIds
    BY <1>2 DEF ActionIds
  <2>2. \A a \in ActionIds : jobs[a] \in Nat
    BY DEF TypeOK
  <2>3. \A a \in ActionIds : a # b => actionStates'[a] = actionStates[a] /\ jobs'[a] = jobs[a]
    BY <1>4, <2>1 DEF ExecuteAction, TypeOK
  <2>4. ActionType[b] \in HandledTypes => jobs'[b] = jobs[b] + 1
    BY <1>4, <2>1 DEF ExecuteAction, TypeOK
  <2>5. ActionType[b] \notin HandledTypes => jobs' = jobs
    BY <1>4 DEF ExecuteAction
  <2>6. \A a \in ActionIds : jobs'[a] >= jobs[a]
    BY <2>2, <2>3, <2>4, <2>5
  <2>7. \A a \in ActionIds : actionStates'[a] \in {"RUNNING", "PAUSED"}
          /\ ActionType[a] \in HandledTypes
          => actionStates[a] \in {"RUNNING", "PAUSED"} \/ jobs'[a] > 0
    BY <2>2, <2>3, <2>4
  <2> HIDE DEF b
  <2>8. QED
    BY <1>1, <2>6, <2>7 DEF JobsKept
<1>5. QED
  BY <1>3, <1>4
     DEF LoopOverActions, SkipAction, WaitForHardAction, PassRunningAction,
         StartHardAction, StartParallelAction

\* So does an instant action that a handler runs; the others run no handler.
LEMMA InstantKeepsJobs ==
  ASSUME TypeOK, CommandTypes, NEW i \in InstantIds, InstantActionsCallback(i)
  PROVE  JobsKept
<1>1. failing' = failing /\ i \in ActionIds /\ \A a \in ActionIds : jobs[a] \in Nat
  BY DEF InstantActionsCallback, ActionIds, TypeOK
<1>2. CASE HandlerAction(i)
  <2>1. \A a \in ActionIds : a # i => actionStates'[a] = actionStates[a] /\ jobs'[a] = jobs[a]
    BY <1>1, <1>2 DEF HandlerAction, Entry, TypeOK
  <2>2. jobs'[i] = jobs[i] + 1
    BY <1>1, <1>2 DEF HandlerAction, TypeOK
  <2>3. QED
    BY <1>1, <2>1, <2>2 DEF JobsKept
<1>3. ASSUME jobs' = jobs,
             \A a \in ActionIds :
               actionStates'[a] \in {"RUNNING", "PAUSED"} /\ ActionType[a] \in HandledTypes
                 => actionStates[a] \in {"RUNNING", "PAUSED"}
      PROVE  JobsKept
  BY <1>1, <1>3 DEF JobsKept
<1>4. ASSUME NEW s \in Statuses, NEW a \in ActionIds, a # i
      PROVE  Entry(i, s)[a] = actionStates[a]
  BY <1>4 DEF Entry, TypeOK
<1>5. ASSUME NEW a \in ActionIds, ~HandlerAction(i),
             actionStates'[a] \in {"RUNNING", "PAUSED"}, ActionType[a] \in HandledTypes
      PROVE  actionStates[a] \in {"RUNNING", "PAUSED"}
  <2>1. CASE CancelOrderReceived(i) \/ StartTeleop(i) \/ FactsheetRequest(i)
             \/ UnknownInstantAction(i)
    BY <2>1, <1>4, <1>5
       DEF CancelOrderReceived, StartTeleop, FactsheetRequest, UnknownInstantAction,
           HandledTypes, Statuses
  <2>2. CASE StopTeleop(i)
    <3>1. a # i
      BY <2>2, <1>5 DEF StopTeleop, HandledTypes
    <3>2. Entry(i, "FINISHED")[a] = actionStates[a]
      BY <1>4, <3>1 DEF Statuses
    <3>3. Update(Entry(i, "FINISHED"), pauseOrderActionId, "FINISHED")[a]
            \in {"FINISHED", Entry(i, "FINISHED")[a]}
      BY DEF Update, Entry, TypeOK
    <3>4. QED
      BY <2>2, <1>5, <3>2, <3>3 DEF StopTeleop
  <2>3. CASE StartPause(i)
    <3>1. Entry(i, "WAITING") \in [ActionIds -> Statuses]
      BY <1>1 DEF Entry, Statuses, TypeOK
    <3>2. ActionType[i] = "startPause" /\ PauseOrder(i, Entry(i, "WAITING"))
      BY <2>3 DEF StartPause
    <3>3. a # i => Entry(i, "WAITING")[a] = actionStates[a]
      BY <1>4 DEF Statuses
    <3>4. QED
      BY <1>5, <3>1, <3>2, <3>3, PauseStartsNothing
  <2>4. CASE StopPause(i)
    <3>1. a # i
      BY <2>4, <1>5 DEF StopPause, HandledTypes
    <3>2. Entry(i, "FAILED")[a] = actionStates[a]
      BY <1>4, <3>1 DEF Statuses
    <3>3. QED
      BY <2>4, <1>5, <3>1, <3>2 DEF StopPause, OrderActionsIn
  <2>5. QED
    BY <1>5, <2>1, <2>2, <2>3, <2>4 DEF InstantActionsCallback
<1>6. CASE ~HandlerAction(i)
  <2>1. jobs' = jobs
    BY <1>6 DEF InstantActionsCallback, CancelOrderReceived, StartTeleop, StopTeleop,
                FactsheetRequest, StartPause, StopPause, UnknownInstantAction
  <2>2. QED
    BY <1>3, <1>5, <1>6, <2>1
<1>7. QED
  BY <1>2, <1>6

\* The end of a job is the end of its action.
LEMMA JobStepKeeps ==
  ASSUME TypeOK, RunningHasAJob, NEW b \in ActionIds, JobStep(b)
  PROVE  RunningHasAJob'
<1> SUFFICES ASSUME NEW a \in ActionIds,
                    actionStates'[a] \in {"RUNNING", "PAUSED"},
                    ActionType[a] \in HandledTypes
             PROVE  jobs'[a] + failing'[a] > 0
  BY DEF RunningHasAJob
<1>1. \A x \in ActionIds : jobs[x] \in Nat /\ failing[x] \in Nat
  BY DEF TypeOK
<1>2. CASE a # b
  <2>1. actionStates'[a] = actionStates[a] /\ jobs'[a] = jobs[a] /\ failing'[a] = failing[a]
    BY <1>2 DEF JobStep, JobEnds, JobReportsFatal, JobFailsAfterFatal, JobThrows, Update, TypeOK
  <2>2. QED
    BY <2>1 DEF RunningHasAJob
<1>3. CASE a = b
  <2>1. ASSUME NEW s \in Terminal PROVE Update(actionStates, a, s)[a] \in {"NONE", s}
    BY DEF Update, TypeOK
  <2>2. ~JobFailsAfterFatal(b) /\ \A s \in Terminal : ~JobEnds(b, s)
    BY <1>3, <2>1 DEF JobEnds, JobFailsAfterFatal, Terminal
  <2>3. JobReportsFatal(b) \/ JobThrows(b)
    BY <2>2 DEF JobStep
  <2>4. CASE JobReportsFatal(b)
    <3>1. failing'[a] = failing[a] + 1 /\ jobs'[a] = jobs[a] - 1 /\ jobs[a] > 0
      BY <1>3, <2>4 DEF JobReportsFatal, TypeOK
    <3>2. QED
      BY <1>1, <3>1
  <2>5. CASE JobThrows(b)
    BY <2>5 DEF JobThrows, RunningHasAJob
  <2>6. QED
    BY <2>3, <2>4, <2>5
<1>4. QED
  BY <1>2, <1>3

LEMMA RunningStep ==
  ASSUME TypeOK, CommandTypes, RunningHasAJob, [Next]_vars
  PROVE  RunningHasAJob'
<1>a. TypeOK' => jobs' \in [ActionIds -> Nat]
  BY DEF TypeOK
<1>b. NothingStarted => RunningHasAJob'
  BY NothingStartedKeeps, KeptSuffices
<1>1. CASE OrderCallback
  <2>1. UNCHANGED threads
    BY <1>1 DEF OrderCallback, OrderCallbackNoOrder, AcceptOrder, DropEmptyOrder,
                IgnoreOrder
  <2>2. ASSUME NEW a \in ActionIds, NEW o \in Orders
        PROVE  InitActionStates(o)[a] \in {"WAITING", "NONE", actionStates[a]}
    BY DEF InitActionStates
  <2>3. ASSUME NEW a \in ActionIds
        PROVE  actionStates'[a] \in {"WAITING", "NONE", actionStates[a]}
    BY <1>1, <2>2 DEF OrderCallback, OrderCallbackNoOrder, AcceptOrder, DropEmptyOrder,
                      IgnoreOrder
  <2>4. NothingStarted
    BY <2>1, <2>3 DEF NothingStarted
  <2>5. QED
    BY <1>b, <2>4
<1>2. CASE \/ UNCHANGED vars
           \/ OrderValidErrorCallback
           \/ SecondInstantActionThrows
           \/ ExecuteOrderCallback
           \/ LeaveNode
           \/ \E g \in GoalSlots : NavGoalResponseCallback(g) \/ NavResult(g)
           \/ \E g \in GoalSlots : \E r \in 0 .. goals[g].left : NavFeedbackCallback(g, r)
  <2>1. UNCHANGED <<threads, actionStates>>
    BY <1>2 DEF vars, OrderValidErrorCallback, SecondInstantActionThrows,
                ExecuteOrderCallback, TfLookupFails, NothingToExecute, StopOnFatalError,
                EnterNode, ExecuteWithoutOrder, LeaveNode, NavGoalResponseCallback,
                NavFeedbackCallback, NavResult, NavResultCallback
  <2>2. QED
    BY <2>1 DEF RunningHasAJob
<1>3. CASE CancelOrder
  BY <1>3, <1>b, CancelStartsNothing
<1>4. CASE TimerPauseOrder
  <2>1. /\ pauseAction \in InstantIds /\ ActionType[pauseAction] = "startPause"
        /\ PauseOrder(pauseAction, actionStates)
        /\ actionStates \in [ActionIds -> Statuses] /\ UNCHANGED threads
    BY <1>4 DEF TimerPauseOrder, CommandTypes, TypeOK
  <2>2. NothingStarted
    BY <2>1, PauseStartsNothing DEF NothingStarted
  <2>3. QED
    BY <1>b, <2>2
<1>5. CASE LoopOverActions
  BY <1>5, <1>a, LoopKeepsJobs, LoopTypeOK, KeptSuffices
<1>6. ASSUME NEW a \in InstantIds, InstantActionsCallback(a)
      PROVE  RunningHasAJob'
  BY <1>6, <1>a, InstantKeepsJobs, InstantTypeOK, KeptSuffices
<1>7. ASSUME NEW a \in ActionIds, JobStep(a)
      PROVE  RunningHasAJob'
  BY <1>7, JobStepKeeps
<1>8. QED
  BY <1>1, <1>2, <1>3, <1>4, <1>5, <1>6, <1>7 DEF Next, Timer

\* No action of a handler is ever left RUNNING or PAUSED without a thread or a
\* request of the handler that will end it, over retransmitted orders, pauses,
\* cancellations and late results (ExecuteAction, InitAGVState, ResumeOrder,
\* UpdateActionStateById).
THEOREM RunningCorrect == Spec => []RunningHasAJob
<1>1. Init => RunningHasAJob
  <2>1. Init => \A a \in ActionIds : actionStates[a] = "NONE"
    BY DEF Init
  <2>2. QED
    BY <2>1 DEF RunningHasAJob
<1>2. TypeOK /\ CommandTypes /\ RunningHasAJob /\ [Next]_vars => RunningHasAJob'
  BY RunningStep
<1>3. QED
  BY <1>1, <1>2, TypeCorrect, CommandsCorrect, PTL DEF Spec
-----------------------------------------------------------------------------
(***************************************************************************)
(* The actions of an order: the order they are started in, and that a HARD *)
(* action runs alone, whatever Nav2, the operator and the handlers do.     *)
(*                                                                         *)
(* First, what a step may do to their states.                              *)
(***************************************************************************)
\* An action ends, or a pausable one is paused.
Settles ==
  \A a \in ActionsOf(order) :
    \/ actionStates'[a] = actionStates[a]
    \/ actionStates'[a] \in Terminal
    \/ /\ actionStates[a] = "RUNNING" /\ actionStates'[a] = "PAUSED"
       /\ ActionType[a] = "pausable"

\* The loop starts the action it is at.
Starts ==
  /\ LoopOverActions /\ (StartHardAction \/ StartParallelAction)
  /\ AtAction
  /\ actionStates[NodeAction] = "WAITING"
  /\ actionStates'[NodeAction] \in {"RUNNING", "FAILED"}
  /\ \A a \in ActionsOf(order) : a # NodeAction => actionStates'[a] = actionStates[a]

\* stopPause resumes the paused actions.
Resumes ==
  /\ "stopPause" \in InstantTypesUsed
  /\ pc = "spin" /\ pc' = "spin" /\ clientState = "PAUSED" /\ clientState' = "RUNNING"
  /\ \A a \in ActionsOf(order) :
       actionStates'[a] = IF actionStates[a] = "PAUSED" THEN "RUNNING" ELSE actionStates[a]

\* No instant action is an action of an order.
LEMMA InstantApart ==
  ASSUME TypeOK, NEW i \in InstantIds
  PROVE  /\ i \notin ActionsOf(order)
         /\ \A s : \A a \in ActionsOf(order) : Entry(i, s)[a] = actionStates[a]
<1>1. ActionsOf(order) \subseteq OrderActionIds
  BY OrderActionsTyped DEF TypeOK
<1>2. i \notin ActionsOf(order)
  BY <1>1, OrdersAssumption
<1>3. QED
  BY <1>1, <1>2 DEF Entry, TypeOK, ActionIds

\* UpdateActionStateById gives an action the new status, or leaves it alone.
LEMMA UpdateCases ==
  ASSUME NEW states \in [ActionIds -> Statuses], NEW x, NEW s, NEW a \in ActionIds
  PROVE  /\ Update(states, x, s)[a] \in {states[a], s}
         /\ a # x => Update(states, x, s)[a] = states[a]
BY DEF Update

\* A round of PauseOrder pauses running actions, if it changes any.
LEMMA PauseSettles ==
  ASSUME TypeOK, NEW p \in InstantIds,
         NEW states \in [ActionIds -> Statuses], PauseOrder(p, states),
         \A a \in ActionsOf(order) : states[a] = actionStates[a]
  PROVE  Settles
<1> SUFFICES ASSUME NEW a \in ActionsOf(order)
             PROVE  \/ actionStates'[a] = actionStates[a]
                    \/ /\ actionStates[a] = "RUNNING" /\ actionStates'[a] = "PAUSED"
                       /\ ActionType[a] = "pausable"
  BY DEF Settles
<1>1. a \in ActionIds /\ a # p /\ states[a] = actionStates[a]
  BY InstantApart, OrderActionsTyped DEF ActionIds, TypeOK
<1>2. PausedStates(p, states) \in [ActionIds -> Statuses]
  BY DEF PausedStates, Statuses
<1>3. \/ PausedStates(p, states)[a] = actionStates[a]
      \/ /\ actionStates[a] = "RUNNING" /\ PausedStates(p, states)[a] = "PAUSED"
         /\ ActionType[a] = "pausable"
  BY <1>1 DEF PausedStates, ToPause, OrderActionsIn
<1>4. CASE PauseOrderRefused(p, states)
  BY <1>1, <1>4, UpdateCases DEF PauseOrderRefused
<1>5. CASE PauseOrderFaults(p, states)
  BY <1>5 DEF PauseOrderFaults
<1>6. CASE PauseOrderRound(p, states)
  <2>1. actionStates' \in {PausedStates(p, states),
                           Update(PausedStates(p, states), p, "FINISHED")}
    BY <1>6 DEF PauseOrderRound
  <2>2. actionStates'[a] = PausedStates(p, states)[a]
    BY <1>1, <1>2, <2>1, UpdateCases
  <2>3. QED
    BY <1>3, <2>2
<1>7. QED
  BY <1>4, <1>5, <1>6 DEF PauseOrder

\* A round of CancelOrder fails actions, if it changes any.
LEMMA CancelSettles ==
  ASSUME TypeOK, CancelOrder
  PROVE  Settles
<1> SUFFICES ASSUME NEW a \in ActionsOf(order)
             PROVE  actionStates'[a] \in {actionStates[a], "FAILED"}
  BY DEF Settles, Terminal
<1>1. a \in ActionIds /\ a # cancelAction
  BY InstantApart, OrderActionsTyped DEF CancelOrder, ActionIds, TypeOK
<1>2. CanceledStates \in [ActionIds -> Statuses]
  BY DEF CanceledStates, Statuses, TypeOK
<1>3. CanceledStates[a] \in {actionStates[a], "FAILED"}
  BY <1>1 DEF CanceledStates
<1>4. Update(CanceledStates, cancelAction, "FINISHED")[a] = CanceledStates[a]
  BY <1>1, <1>2, UpdateCases
<1>5. QED
  BY <1>3, <1>4 DEF CancelOrder, CancelOrderIdle, CancelOrderThrows, CancelOrderRound

\* A handler reports the end of an action, or none.
LEMMA JobSettles ==
  ASSUME TypeOK, NEW b \in ActionIds, JobStep(b)
  PROVE  UNCHANGED <<control, order, currentNode>> /\ Settles
<1>1. UNCHANGED <<control, order, currentNode>>
  BY DEF JobStep, JobEnds, JobReportsFatal, JobFailsAfterFatal, JobThrows
<1>2. \/ actionStates' = actionStates
      \/ \E s \in Terminal : actionStates' = Update(actionStates, b, s)
  BY DEF JobStep, JobEnds, JobReportsFatal, JobFailsAfterFatal, JobThrows, Terminal
<1>3. ASSUME NEW a \in ActionIds
      PROVE  actionStates'[a] = actionStates[a] \/ actionStates'[a] \in Terminal
  BY <1>2, UpdateCases DEF Terminal, TypeOK
<1>4. QED
  BY <1>1, <1>3, OrderActionsTyped DEF Settles, ActionIds, TypeOK

\* The actions of a new order all wait.
LEMMA AcceptedWaits ==
  ASSUME NEW o \in Orders, AcceptOrder(o)
  PROVE  /\ order' = o /\ o # NoOrder
         /\ \A a \in ActionsOf(o) : actionStates'[a] = "WAITING"
BY OrdersAssumption, OrderActionsTyped DEF AcceptOrder, InitActionStates, ActionIds

\* Every step but the acceptance of an order is of one of these kinds.
LEMMA StatusStep ==
  ASSUME TypeOK, [Next]_vars
  PROVE  \/ \E o \in Orders : AcceptOrder(o)
         \/ order' = order /\ (Settles \/ Starts \/ Resumes)
<1>a. UNCHANGED <<order, actionStates>> => order' = order /\ Settles
  BY DEF Settles
<1>b. \A a \in ActionsOf(order) : a \in ActionIds
  BY OrderActionsTyped DEF ActionIds, TypeOK
<1>1. CASE UNCHANGED vars
  BY <1>1, <1>a DEF vars
<1>2. CASE OrderCallback
  BY <1>2, <1>a DEF OrderCallback, OrderCallbackNoOrder, DropEmptyOrder, IgnoreOrder
<1>3. CASE OrderValidErrorCallback \/ SecondInstantActionThrows
  BY <1>3, <1>a DEF OrderValidErrorCallback, SecondInstantActionThrows
<1>4. ASSUME NEW i \in InstantIds, InstantActionsCallback(i)
      PROVE  order' = order /\ (Settles \/ Resumes)
  <2>1. order' = order
    BY <1>4 DEF InstantActionsCallback
  <2>2. ASSUME NEW s, actionStates' = Entry(i, s) PROVE Settles
    BY <2>2, InstantApart DEF Settles
  <2>3. CASE CancelOrderReceived(i) \/ StartTeleop(i) \/ FactsheetRequest(i)
             \/ HandlerAction(i) \/ UnknownInstantAction(i)
    BY <2>1, <2>2, <2>3 DEF CancelOrderReceived, StartTeleop, FactsheetRequest,
                            HandlerAction, UnknownInstantAction
  <2>4. CASE StopTeleop(i)
    <3>1. Entry(i, "FINISHED") \in [ActionIds -> Statuses]
      BY DEF Entry, Statuses, TypeOK
    <3>2. \A a \in ActionsOf(order) : actionStates'[a] \in {Entry(i, "FINISHED")[a], "FINISHED"}
      BY <1>b, <2>4, <3>1, UpdateCases DEF StopTeleop
    <3>3. QED
      BY <2>1, <3>2, InstantApart DEF Settles, Terminal
  <2>5. CASE StartPause(i)
    <3>1. Entry(i, "WAITING") \in [ActionIds -> Statuses]
      BY DEF Entry, Statuses, TypeOK
    <3>2. QED
      BY <2>1, <2>5, <3>1, InstantApart, PauseSettles DEF StartPause
  <2>6. CASE StopPause(i)
    <3>1. CASE clientState # "PAUSED" \/ \E p \in OrderActionsIn("PAUSED") : ~GetActionFinds(p)
      BY <1>a, <2>1, <2>2, <2>6, <3>1 DEF StopPause
    <3>2. CASE clientState = "PAUSED" /\ \A p \in OrderActionsIn("PAUSED") : GetActionFinds(p)
      <4>1. "stopPause" \in InstantTypesUsed
        BY <2>6 DEF StopPause, InstantTypesUsed
      <4>2. pc = "spin" /\ pc' = "spin"
        BY <1>4 DEF InstantActionsCallback, Receive, Spinning, Atomic
      <4>3. actionStates' = [x \in ActionIds |->
              IF x = i THEN "FINISHED"
              ELSE IF x \in OrderActionsIn("PAUSED") THEN "RUNNING" ELSE actionStates[x]]
        BY <2>6, <3>2 DEF StopPause
      <4>4. ASSUME NEW a \in ActionsOf(order)
            PROVE  actionStates'[a] =
                     IF actionStates[a] = "PAUSED" THEN "RUNNING" ELSE actionStates[a]
        <5>1. a \in ActionIds /\ a # i
          BY <1>b, InstantApart
        <5>2. QED
          BY <4>3, <5>1 DEF OrderActionsIn
      <4>5. clientState' = "RUNNING"
        BY <2>6, <3>2 DEF StopPause
      <4>6. QED
        BY <2>1, <3>2, <4>1, <4>2, <4>4, <4>5 DEF Resumes
    <3>3. QED
      BY <3>1, <3>2
  <2>7. QED
    BY <1>4, <2>1, <2>3, <2>4, <2>5, <2>6 DEF InstantActionsCallback
<1>5. CASE CancelOrder
  BY <1>5, CancelSettles DEF CancelOrder
<1>6. CASE TimerPauseOrder
  BY <1>6, PauseSettles DEF TimerPauseOrder, TypeOK
<1>7. CASE ExecuteOrderCallback \/ LeaveNode
  BY <1>7, <1>a DEF ExecuteOrderCallback, TfLookupFails, NothingToExecute, StopOnFatalError,
                    EnterNode, ExecuteWithoutOrder, LeaveNode, StayAtNode, CompleteOrder,
                    StatusCheckFails, NavServerNotAvailable, StatusCheckHangs,
                    NavigateThroughPoses, SendGoal
<1>8. CASE LoopOverActions
  <2>1. order' = order
    BY <1>8 DEF LoopOverActions
  <2>2. CASE actionStates' = actionStates
    BY <1>a, <2>1, <2>2
  <2>3. CASE actionStates' # actionStates
    <3>1. (StartHardAction \/ StartParallelAction) /\ ExecuteAction(NodeAction)
      BY <1>8, <2>3 DEF LoopOverActions, SkipAction, WaitForHardAction, PassRunningAction,
                        StartHardAction, StartParallelAction
    <3>2. AtAction /\ actionStates[NodeAction] = "WAITING"
      BY <3>1 DEF StartHardAction, StartParallelAction
    <3>3. NodeAction \in ActionIds
      BY <3>2, NodeActionTyped DEF ActionIds
    <3>4. /\ actionStates'[NodeAction] \in {"RUNNING", "FAILED"}
          /\ \A a \in ActionIds : a # NodeAction => actionStates'[a] = actionStates[a]
      BY <3>1, <3>3 DEF ExecuteAction, TypeOK
    <3>5. QED
      BY <1>8, <1>b, <2>1, <3>1, <3>2, <3>4 DEF Starts
  <2>4. QED
    BY <2>2, <2>3
<1>9. CASE \/ \E g \in GoalSlots : NavGoalResponseCallback(g) \/ NavResult(g)
           \/ \E g \in GoalSlots : \E r \in 0 .. goals[g].left : NavFeedbackCallback(g, r)
  BY <1>9, <1>a DEF NavGoalResponseCallback, NavResult, NavResultCallback,
                    NavFeedbackCallback
<1>10. ASSUME NEW b \in ActionIds, JobStep(b)
       PROVE  order' = order /\ Settles
  BY <1>10, JobSettles
<1>11. QED
  BY <1>1, <1>2, <1>3, <1>4, <1>5, <1>6, <1>7, <1>8, <1>9, <1>10 DEF Next, Timer

-----------------------------------------------------------------------------
(***************************************************************************)
(* The actions of a node are started in their order.                       *)
(***************************************************************************)
Steps(n) == DOMAIN NodeActions[order][n]

ActionAt(n, i) == NodeActions[order][n][i]

\* Every action of the order has an entry, and an action of a node has only
\* been started once those before it have.
InOrder ==
  order # NoOrder =>
    /\ \A a \in ActionsOf(order) : actionStates[a] # "NONE"
    /\ \A n \in Nodes(order) : \A i, j \in Steps(n) :
         i < j /\ actionStates[ActionAt(n, j)] \in {"RUNNING", "PAUSED"}
           => actionStates[ActionAt(n, i)] # "WAITING"

\* The loop has started the actions it has passed, and has_running_action and
\* stop_driving tell which of them still run.
LoopInv ==
  pc = "loop" =>
    /\ idx >= 1
    /\ \A i \in Steps(currentNode) : i < idx =>
         /\ actionStates[ActionAt(currentNode, i)] # "WAITING"
         /\ actionStates[ActionAt(currentNode, i)] = "RUNNING" =>
              /\ hasRunning
              /\ BlockingType[ActionAt(currentNode, i)] # "HARD"
              /\ BlockingType[ActionAt(currentNode, i)] = "SOFT" => stopDriving

\* An action id belongs to one place of an order (UniqueActionIds).
LEMMA OnePlace ==
  ASSUME TypeOK, order # NoOrder,
         NEW n \in Nodes(order), NEW m \in Nodes(order),
         NEW i \in Steps(n), NEW j \in Steps(m), ActionAt(n, i) = ActionAt(m, j)
  PROVE  n = m /\ i = j
<1>1. order \in Orders
  BY DEF TypeOK
<1>2. ActionAt(n, i) \in ActionsAt(order, n) /\ ActionAt(m, j) \in ActionsAt(order, m)
  BY DEF ActionAt, ActionsAt, Steps
<1>3. n = m
  <2>1. n # m => ActionsAt(order, n) \cap ActionsAt(order, m) = {}
    BY <1>1, UniqueActionIds
  <2>2. QED
    BY <1>2, <2>1
<1>4. i = j
  BY <1>1, <1>3, UniqueActionIds DEF ActionAt, Steps
<1>5. QED
  BY <1>3, <1>4

LEMMA PlaceTyped ==
  ASSUME TypeOK, order # NoOrder, NEW n \in Nodes(order), NEW i \in Steps(n)
  PROVE  /\ n \in Int /\ i \in Nat /\ i >= 1
         /\ ActionAt(n, i) \in ActionsAt(order, n)
         /\ ActionAt(n, i) \in ActionsOf(order)
         /\ ActionAt(n, i) \in OrderActionIds /\ ActionAt(n, i) \in ActionIds
<1>1. order \in Orders /\ n \in Int
  BY OrdersAssumption DEF TypeOK, Nodes
<1>2. NodeActions[order][n] \in Seq(OrderActionIds) /\ ActionsAt(order, n) \subseteq ActionsOf(order)
  BY <1>1, OrderActionsTyped
<1>3. QED
  BY <1>1, <1>2 DEF Steps, ActionAt, ActionsAt, ActionIds

\* How the loop is entered and goes on.
LEMMA LoopControl ==
  ASSUME TypeOK, [Next]_vars, pc' = "loop"
  PROVE  /\ UNCHANGED <<order, currentNode>>
         /\ \/ EnterNode
            \/ pc = "loop" /\ UNCHANGED control /\ Settles
            \/ pc = "loop" /\ (SkipAction \/ PassRunningAction \/ StartParallelAction)
<1>1. CASE UNCHANGED vars
  BY <1>1 DEF vars, Settles
<1>2. CASE \/ OrderCallback \/ OrderValidErrorCallback \/ SecondInstantActionThrows
           \/ \E a \in InstantIds : InstantActionsCallback(a)
           \/ \E g \in GoalSlots : NavGoalResponseCallback(g) \/ NavResult(g)
           \/ \E g \in GoalSlots : \E r \in 0 .. goals[g].left : NavFeedbackCallback(g, r)
           \/ CancelOrder \/ TimerPauseOrder
  <2>1. pc' # "loop"
    BY <1>2 DEF OrderCallback, OrderCallbackNoOrder, AcceptOrder, DropEmptyOrder,
                IgnoreOrder, Deliver, OrderValidErrorCallback, SecondInstantActionThrows,
                InstantActionsCallback, Receive, NavGoalResponseCallback, NavResult,
                NavResultCallback, NavFeedbackCallback, CancelOrder, TimerPauseOrder,
                Spinning, Atomic
  <2>2. QED
    BY <2>1
<1>3. CASE ExecuteOrderCallback \/ LeaveNode
  BY <1>3 DEF ExecuteOrderCallback, TfLookupFails, NothingToExecute, StopOnFatalError,
              EnterNode, ExecuteWithoutOrder, LeaveNode, EndTimer
<1>4. CASE LoopOverActions
  <2>1. UNCHANGED <<order, currentNode>>
    BY <1>4 DEF LoopOverActions
  <2>2. ~WaitForHardAction /\ ~StartHardAction
    BY DEF WaitForHardAction, StartHardAction, EndTimer
  <2>3. pc = "loop"
    BY <1>4 DEF LoopOverActions, SkipAction, WaitForHardAction, PassRunningAction,
                StartHardAction, StartParallelAction, AtAction, InLoop
  <2>4. QED
    BY <1>4, <2>1, <2>2, <2>3 DEF LoopOverActions
<1>5. ASSUME NEW b \in ActionIds, JobStep(b)
      PROVE  UNCHANGED <<control, order, currentNode>> /\ Settles
  BY <1>5, JobSettles
<1>6. QED
  BY <1>1, <1>2, <1>3, <1>4, <1>5 DEF Next, Timer

\* A started action is the one at the index of the loop.
LEMMA StartedPlace ==
  ASSUME TypeOK, Starts
  PROVE  /\ pc = "loop" /\ order # NoOrder
         /\ currentNode \in Nodes(order) /\ idx \in Steps(currentNode)
         /\ NodeAction = ActionAt(currentNode, idx)
         /\ \A n \in Nodes(order) : \A i \in Steps(n) :
              ActionAt(n, i) = NodeAction => n = currentNode /\ i = idx
<1>1. pc = "loop" /\ order # NoOrder /\ currentNode \in Nodes(order)
  BY DEF Starts, AtAction, InLoop, TypeOK
<1>2. idx \in Steps(currentNode) /\ NodeAction = ActionAt(currentNode, idx)
  BY DEF Starts, AtAction, NodeAction, Steps, ActionAt
<1>3. QED
  BY <1>1, <1>2, OnePlace

LEMMA InOrderStep ==
  ASSUME TypeOK, InOrder, LoopInv, [Next]_vars
  PROVE  InOrder'
<1>1. ASSUME NEW o \in Orders, AcceptOrder(o)
      PROVE  InOrder'
  <2>1. ASSUME NEW n \in Nodes(o), NEW i \in DOMAIN NodeActions[o][n]
        PROVE  NodeActions[o][n][i] \in ActionsOf(o)
    <3>1. n \in Int /\ NodeActions[o][n][i] \in ActionsAt(o, n)
      BY OrdersAssumption DEF Nodes, ActionsAt
    <3>2. QED
      BY <3>1, OrderActionsTyped
  <2>2. QED
    BY <1>1, <2>1, AcceptedWaits DEF InOrder, Steps, ActionAt
<1>2. ASSUME order' = order, Settles \/ Starts \/ Resumes
      PROVE  InOrder'
  <2> SUFFICES ASSUME order # NoOrder
               PROVE  /\ \A a \in ActionsOf(order) : actionStates'[a] # "NONE"
                      /\ \A n \in Nodes(order) : \A i, j \in Steps(n) :
                           i < j /\ actionStates'[ActionAt(n, j)] \in {"RUNNING", "PAUSED"}
                             => actionStates'[ActionAt(n, i)] # "WAITING"
    BY <1>2 DEF InOrder, Steps, ActionAt
  <2>1. ASSUME NEW a \in ActionsOf(order)
        PROVE  actionStates'[a] # "NONE" /\ (actionStates'[a] = "WAITING" => actionStates[a] = "WAITING")
    BY <1>2 DEF Settles, Starts, Resumes, InOrder, Terminal
  <2>2. ASSUME NEW n \in Nodes(order), NEW i \in Steps(n), NEW j \in Steps(n), i < j,
               actionStates'[ActionAt(n, j)] \in {"RUNNING", "PAUSED"}
        PROVE  actionStates'[ActionAt(n, i)] # "WAITING"
    <3>1. ActionAt(n, i) \in ActionsOf(order) /\ ActionAt(n, j) \in ActionsOf(order)
      BY PlaceTyped
    <3>2. CASE actionStates[ActionAt(n, j)] \in {"RUNNING", "PAUSED"}
      BY <2>1, <2>2, <3>1, <3>2 DEF InOrder
    <3>3. CASE actionStates[ActionAt(n, j)] \notin {"RUNNING", "PAUSED"}
      <4>1. Starts /\ ActionAt(n, j) = NodeAction
        BY <1>2, <2>2, <3>1, <3>3 DEF Settles, Starts, Resumes, Terminal
      <4>2. n = currentNode /\ j = idx /\ pc = "loop"
        BY <4>1, StartedPlace
      <4>3. actionStates[ActionAt(n, i)] # "WAITING"
        BY <2>2, <4>2 DEF LoopInv
      <4>4. QED
        BY <2>1, <3>1, <4>3
    <3>4. QED
      BY <3>2, <3>3
  <2>3. QED
    BY <2>1, <2>2
<1>3. QED
  BY <1>1, <1>2, StatusStep

LEMMA LoopStep ==
  ASSUME TypeOK, InOrder, LoopInv, [Next]_vars
  PROVE  LoopInv'
<1> SUFFICES ASSUME pc' = "loop"
             PROVE  /\ idx' >= 1
                    /\ \A i \in Steps(currentNode) : i < idx' =>
                         /\ actionStates'[ActionAt(currentNode, i)] # "WAITING"
                         /\ actionStates'[ActionAt(currentNode, i)] = "RUNNING" =>
                              /\ hasRunning'
                              /\ BlockingType[ActionAt(currentNode, i)] # "HARD"
                              /\ BlockingType[ActionAt(currentNode, i)] = "SOFT" => stopDriving'
  <2>1. pc' = "loop" => UNCHANGED <<order, currentNode>>
    BY LoopControl
  <2>2. QED
    BY <2>1 DEF LoopInv, Steps, ActionAt
<1>a. order # NoOrder /\ currentNode \in Nodes(order) /\ idx \in Nat /\ stopDriving \in BOOLEAN
  <2>1. EnterNode \/ pc = "loop"
    BY LoopControl
  <2>2. QED
    BY <2>1 DEF EnterNode, TypeOK
<1>b. \A i \in Steps(currentNode) : ActionAt(currentNode, i) \in ActionsOf(order) /\ i >= 1 /\ i \in Nat
  BY <1>a, PlaceTyped
<1>1. CASE EnterNode
  BY <1>1, <1>b DEF EnterNode
<1>2. CASE pc = "loop" /\ UNCHANGED control /\ Settles
  BY <1>2, <1>b DEF LoopInv, Settles, Terminal
<1>3. CASE pc = "loop" /\ (SkipAction \/ PassRunningAction)
  <2>1. idx' = idx + 1 /\ actionStates' = actionStates
    BY <1>3 DEF SkipAction, PassRunningAction, NextAction
  <2>2. idx \in Steps(currentNode) => NodeAction = ActionAt(currentNode, idx)
    BY DEF NodeAction, ActionAt
  <2>3. hasRunning => hasRunning'
    BY <1>3 DEF SkipAction, PassRunningAction
  <2>4. stopDriving => stopDriving'
    BY <1>3 DEF SkipAction, PassRunningAction
  <2>5. actionStates[NodeAction] # "WAITING"
    BY <1>3 DEF SkipAction, PassRunningAction
  <2>6. actionStates[NodeAction] = "RUNNING" =>
          /\ hasRunning'
          /\ BlockingType[NodeAction] # "HARD"
          /\ BlockingType[NodeAction] = "SOFT" => stopDriving'
    BY <1>3 DEF SkipAction, PassRunningAction
  <2>7. \A i \in Steps(currentNode) : i < idx' => i < idx \/ i = idx
    BY <1>a, <1>b, <2>1
  <2>8. QED
    BY <1>3, <1>a, <2>1, <2>2, <2>3, <2>4, <2>5, <2>6, <2>7 DEF LoopInv
<1>4. CASE pc = "loop" /\ StartParallelAction
  <2>1. idx' = idx + 1 /\ AtAction /\ actionStates[NodeAction] = "WAITING" /\ hasRunning'
    BY <1>4 DEF StartParallelAction, NextAction
  <2>2. idx \in Steps(currentNode) /\ NodeAction = ActionAt(currentNode, idx)
    BY <2>1 DEF NodeAction, ActionAt, AtAction, Steps
  <2>3. NodeAction \in ActionIds
    BY <2>1, NodeActionTyped DEF ActionIds
  <2>4. \A a \in ActionIds : a # NodeAction => actionStates'[a] = actionStates[a]
    BY <1>4, <2>3 DEF StartParallelAction, ExecuteAction, TypeOK
  <2>5. actionStates'[NodeAction] # "WAITING"
    BY <1>4, <2>3 DEF StartParallelAction, ExecuteAction, TypeOK
  <2>6. BlockingType[NodeAction] # "HARD"
    BY <1>4 DEF StartParallelAction
  <2>7. stopDriving \/ BlockingType[NodeAction] = "SOFT" => stopDriving'
    BY <1>4 DEF StartParallelAction
  <2>8. \A i \in Steps(currentNode) : i < idx =>
          ActionAt(currentNode, i) # NodeAction /\ ActionAt(currentNode, i) \in ActionIds
    BY <1>a, <1>b, <2>2, OnePlace, PlaceTyped
  <2>9. \A i \in Steps(currentNode) : i < idx' => i < idx \/ i = idx
    BY <1>a, <1>b, <2>1
  <2>10. QED
    BY <1>4, <1>a, <2>1, <2>2, <2>4, <2>5, <2>6, <2>7, <2>8, <2>9 DEF LoopInv
<1>5. QED
  BY <1>1, <1>2, <1>3, <1>4, LoopControl

\* Only an action whose handler implements Pause is ever PAUSED.
PausedPausable ==
  \A a \in ActionsOf(order) : actionStates[a] = "PAUSED" => ActionType[a] = "pausable"

LEMMA PausedStep ==
  ASSUME TypeOK, PausedPausable, [Next]_vars
  PROVE  PausedPausable'
<1>1. ASSUME NEW o \in Orders, AcceptOrder(o)
      PROVE  PausedPausable'
  BY <1>1, AcceptedWaits DEF PausedPausable
<1>2. ASSUME order' = order, Settles \/ Starts \/ Resumes
      PROVE  PausedPausable'
  BY <1>2 DEF PausedPausable, Settles, Starts, Resumes, Terminal
<1>3. QED
  BY <1>1, <1>2, StatusStep

\* What holds of the actions of an order in every state.
ActionsInv == InOrder /\ LoopInv /\ PausedPausable

LEMMA ActionsInvCorrect == Spec => []ActionsInv
<1>1. Init => ActionsInv
  BY DEF Init, ActionsInv, InOrder, LoopInv, PausedPausable, ActionsOf
<1>2. TypeOK /\ ActionsInv /\ [Next]_vars => ActionsInv'
  BY InOrderStep, LoopStep, PausedStep DEF ActionsInv
<1>3. QED
  BY <1>1, <1>2, TypeCorrect, PTL DEF Spec

-----------------------------------------------------------------------------
(***************************************************************************)
(* A HARD action runs alone.                                               *)
(***************************************************************************)
\* No paused action is resumed: master control does not resume orders, or no
\* action of an order can be paused.
NoneResumed ==
  \/ "stopPause" \notin InstantTypesUsed
  \/ \A a \in OrderActionIds : ActionType[a] # "pausable"

\* Whoever runs at the node when the loop starts an action stands before it.
LEMMA RunsBefore ==
  ASSUME TypeOK, InOrder, LoopInv, Starts,
         NEW a \in ActionsAt(order, currentNode), a # NodeAction,
         actionStates[a] = "RUNNING"
  PROVE  hasRunning /\ BlockingType[a] # "HARD"
<1>1. /\ pc = "loop" /\ order # NoOrder
      /\ currentNode \in Nodes(order) /\ idx \in Steps(currentNode)
      /\ NodeAction = ActionAt(currentNode, idx) /\ actionStates[NodeAction] = "WAITING"
  BY StartedPlace DEF Starts
<1>2. PICK i \in Steps(currentNode) : a = ActionAt(currentNode, i)
  BY DEF ActionsAt, Steps, ActionAt
<1>3. i \in Nat /\ idx \in Nat /\ i # idx
  BY <1>1, <1>2, PlaceTyped
<1>4. ~(idx < i)
  BY <1>1, <1>2 DEF InOrder
<1>5. QED
  BY <1>1, <1>2, <1>3, <1>4 DEF LoopInv

LEMMA HardStep ==
  ASSUME NoneResumed, TypeOK, ActionsInv, HardRunsAlone, [Next]_vars
  PROVE  HardRunsAlone'
<1>a. InOrder /\ LoopInv /\ PausedPausable
  BY DEF ActionsInv
<1>b. order # NoOrder => order \in Orders /\ \A n \in Nodes(order) :
        ActionsAt(order, n) \subseteq ActionsOf(order) /\ n \in Int
  <2>1. order # NoOrder => order \in Orders /\ \A n \in Nodes(order) : n \in Int
    BY DEF Nodes, TypeOK
  <2>2. QED
    BY <2>1, OrderActionsTyped
<1>1. ASSUME NEW o \in Orders, AcceptOrder(o)
      PROVE  HardRunsAlone'
  <2>1. \A n \in Nodes(o) : ActionsAt(o, n) \subseteq ActionsOf(o)
    BY OrderActionsTyped DEF Nodes
  <2>2. QED
    BY <1>1, <2>1, AcceptedWaits DEF HardRunsAlone
<1>2. ASSUME order' = order, order # NoOrder, Settles \/ Starts \/ Resumes
      PROVE  HardRunsAlone'
  <2> SUFFICES ASSUME NEW n \in Nodes(order),
                      NEW a \in ActionsAt(order, n), NEW b \in ActionsAt(order, n),
                      actionStates'[a] = "RUNNING", actionStates'[b] = "RUNNING",
                      BlockingType[a] = "HARD"
               PROVE  a = b
    BY <1>2 DEF HardRunsAlone
  <2>1. a \in ActionsOf(order) /\ b \in ActionsOf(order)
    BY <1>2, <1>b
  <2>2. CASE actionStates[a] = "RUNNING" /\ actionStates[b] = "RUNNING"
    BY <1>2, <2>2 DEF HardRunsAlone
  <2>3. CASE Settles
    BY <2>1, <2>2, <2>3 DEF Settles, Terminal
  <2>4. CASE Resumes
    <3>1. \A x \in ActionsOf(order) : x \in OrderActionIds
      BY <1>2, <1>b, OrderActionsTyped
    <3>2. \A x \in ActionsOf(order) : actionStates[x] # "PAUSED"
      BY <1>a, <2>4, <3>1 DEF Resumes, NoneResumed, PausedPausable
    <3>3. QED
      BY <2>1, <2>2, <2>4, <3>2 DEF Resumes
  <2>5. CASE Starts
    <3>1. /\ pc = "loop" /\ currentNode \in Nodes(order) /\ idx \in Steps(currentNode)
          /\ NodeAction = ActionAt(currentNode, idx)
      BY <2>5, StartedPlace
    <3>2. a = NodeAction \/ b = NodeAction \/ a = b
      BY <2>1, <2>2, <2>5 DEF Starts
    <3>3. CASE (a = NodeAction \/ b = NodeAction) /\ a # b
      <4>1. n = currentNode
        <5>1. PICK x \in {a, b} : x = NodeAction
          BY <3>3
        <5>2. PICK i \in Steps(n) : x = ActionAt(n, i)
          BY DEF ActionsAt, Steps, ActionAt
        <5>3. QED
          BY <2>5, <5>1, <5>2, StartedPlace
      <4>2. CASE a = NodeAction
        <5>1. actionStates[b] = "RUNNING"
          BY <2>1, <2>5, <3>3, <4>2 DEF Starts
        <5>2. hasRunning
          BY <1>a, <2>5, <3>3, <4>1, <4>2, <5>1, RunsBefore
        <5>3. actionStates' = actionStates
          BY <2>5, <4>2, <5>2 DEF Starts, StartHardAction, StartParallelAction
        <5>4. QED
          BY <2>5, <4>2, <5>3 DEF Starts
      <4>3. CASE b = NodeAction
        <5>1. actionStates[a] = "RUNNING"
          BY <2>1, <2>5, <3>3, <4>3 DEF Starts
        <5>2. QED
          BY <1>a, <2>5, <3>3, <4>1, <4>3, <5>1, RunsBefore
      <4>4. QED
        BY <3>3, <4>2, <4>3
    <3>4. QED
      BY <3>2, <3>3
  <2>6. QED
    BY <1>2, <2>3, <2>4, <2>5
<1>3. CASE order' = order /\ order = NoOrder
  BY <1>3 DEF HardRunsAlone
<1>4. QED
  BY <1>1, <1>2, <1>3, StatusStep

\* While a HARD action runs no other action of its node does, for orders with
\* any actions, whatever fails, is canceled or sent twice: the loop of
\* ExecuteOrderCallback starts a HARD action once those before it are over,
\* and stops at it.  An order that is resumed in the middle of a pause is the
\* one exception (NoneResumed).
THEOREM HardCorrect == ASSUME NoneResumed PROVE Spec => []HardRunsAlone
<1>1. Init => HardRunsAlone
  BY DEF Init, HardRunsAlone
<1>2. TypeOK /\ ActionsInv /\ HardRunsAlone /\ [Next]_vars => HardRunsAlone'
  BY HardStep
<1>3. QED
  BY <1>1, <1>2, TypeCorrect, ActionsInvCorrect, PTL DEF Spec
=============================================================================
