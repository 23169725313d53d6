--------------------- MODULE Vda5050Undisturbed_proofs ---------------------
(***************************************************************************)
(* Proofs about a VDA5050 client whose orders nobody interferes with       *)
(* (Undisturbed): its goals, its progress along the route, and its pauses  *)
(* and cancellations.                                                      *)
(***************************************************************************)
EXTENDS Vda5050Client_proofs, Vda5050Claims

USE DEF control, progress, agvState, errors, position, commands, canceling, pausing,
        teleop, nav, threads, inputs

-----------------------------------------------------------------------------
(***************************************************************************)
(* The inductive invariant: the client is at rest at a node, or under way  *)
(* with exactly one goal, sent for the current order.                      *)
(***************************************************************************)
AtRest ==
  /\ Outstanding = {} /\ navHandle = NoGoal /\ ~driving
  /\ reached /\ clientState # "IDLE" => currentNode = nextStop
  /\ pc = "loop" => clientState = "RUNNING" /\ reached /\ firstError # "FATAL"

\* The executor serves no timer between a goal and Nav2's answer to it, when
\* an order can be canceled or paused (PromptAck).
UnderWay(g) ==
  /\ Outstanding = {g}
  /\ navHandle = IF goals[g].phase = "sent" THEN NoGoal ELSE g
  /\ PromptAck /\ goals[g].phase = "sent" => pc = "spin"
  /\ goals[g].order = order /\ goals[g].stop = nextStop /\ nextStop \in Nodes(order)
  /\ goals[g].left >= 1 /\ currentNode = nextStop - goals[g].left
  /\ clientState = "RUNNING" /\ ~reached /\ firstError # "FATAL" /\ pc # "loop"

FlowInv == AtRest \/ \E g \in GoalSlots : UnderWay(g)

\* What the steps of an undisturbed client rely on.
LEMMA UndisturbedFacts ==
  ASSUME Undisturbed, TypeOK, CommandTypes
  PROVE  /\ FeedbackMin = 1 /\ FatalJobs = {}
         /\ \A i \in InstantIds : ActionType[i] \notin {"startTeleop", "stopTeleop"}
         /\ \A i \in InstantIds : ActionType[i] \in {"cancelOrder", "startPause"} => PromptAck
         /\ cancelAction # NoAction \/ pauseAction # NoAction => PromptAck
<1>1. \A i \in InstantIds : ActionType[i] \in InstantTypesUsed
  BY DEF InstantTypesUsed
<1>2. PromptAck \in BOOLEAN
  BY ClientAssumption
<1>3. QED
  BY <1>1, <1>2 DEF Undisturbed, CommandTypes, TypeOK

\* Steps that leave the goals, the place on the route and the client's state
\* alone, and do not enter the loop.
QuietFlow ==
  /\ UNCHANGED <<progress, nav, clientState, driving>>
  /\ firstError' = "FATAL" => firstError = "FATAL"
  /\ pc' \in {pc, "spin"}

LEMMA QuietFlowKeeps ==
  ASSUME FlowInv, QuietFlow
  PROVE  FlowInv'
<1>1. CASE AtRest
  BY <1>1 DEF AtRest, FlowInv, QuietFlow, Outstanding
<1>2. ASSUME NEW g \in GoalSlots, UnderWay(g)
      PROVE  UnderWay(g)'
  BY <1>2 DEF UnderWay, QuietFlow, Outstanding, Nodes
<1>3. QED
  BY <1>1, <1>2 DEF FlowInv

\* At rest, no goal is free to be answered; under way, only one is.
LEMMA OneGoal ==
  /\ AtRest => \A h \in GoalSlots : goals[h].phase = "free"
  /\ \A g \in GoalSlots : UnderWay(g) =>
       goals[g].phase # "free" /\ \A h \in GoalSlots : goals[h].phase # "free" => h = g
BY DEF AtRest, UnderWay, Outstanding

\* Under way, the next stop is ahead, and it is a node of the order.
LEMMA UnderWayTyped ==
  ASSUME TypeOK, GoalsNeedAnOrder, NEW g \in GoalSlots, UnderWay(g)
  PROVE  /\ order \in Orders /\ NodeCount[order] \in Nat /\ LastNode(order) \in Int
         /\ goals[g].left \in Nat /\ nextStop \in Nat /\ currentNode \in Nat
         /\ currentNode < nextStop /\ nextStop <= LastNode(order)
<1>1. order \in Orders
  BY DEF UnderWay, GoalsNeedAnOrder, TypeOK
<1>2. NodeCount[order] \in Nat
  BY <1>1, OrdersAssumption
<1>3. goals[g].left \in Nat /\ nextStop \in Nat /\ currentNode \in Nat
  BY DEF Goal, TypeOK
<1>4. QED
  BY <1>1, <1>2, <1>3 DEF UnderWay, Nodes, LastNode

\* New orders find the client at rest.
LEMMA OrderFlow ==
  ASSUME TypeOK, GoalsNeedAnOrder, FlowInv, OrderCallback
  PROVE  FlowInv'
<1>1. CASE OrderCallbackNoOrder \/ \E o \in Orders : IgnoreOrder(o)
  <2>1. QuietFlow
    BY <1>1 DEF OrderCallbackNoOrder, IgnoreOrder, AddError, Atomic, QuietFlow
  <2>2. QED
    BY <2>1, QuietFlowKeeps
<1>2. CanAcceptOrder => AtRest
  BY UnderWayTyped DEF FlowInv, UnderWay, CanAcceptOrder
<1>3. ASSUME NEW o \in Orders, AcceptOrder(o)
      PROVE  AtRest'
  BY <1>2, <1>3 DEF AtRest, AcceptOrder, Deliver, Spinning, Atomic, Outstanding
<1>4. ASSUME NEW o \in Orders, DropEmptyOrder(o)
      PROVE  AtRest'
  BY <1>2, <1>4 DEF AtRest, DropEmptyOrder, Deliver, Spinning, Atomic, Outstanding
<1>5. QED
  BY <1>1, <1>3, <1>4 DEF OrderCallback, FlowInv

\* A round of CancelOrder or PauseOrder marks the goal as canceled, and ends
\* the command at rest only.
LEMMA CancelGoalKeeps ==
  ASSUME TypeOK, FlowInv, PromptAck,
         \A g \in GoalSlots : goals[g].phase # "sent",
         goals' \in {goals, CancelNavGoal},
         UNCHANGED <<progress, firstError, driving, navHandle>>,
         clientState' = clientState \/ (navHandle = NoGoal /\ clientState # "IDLE"),
         pc' \in {"spin", "pause", "execute"}
  PROVE  FlowInv' /\ \A g \in GoalSlots : goals'[g].phase # "sent"
<1>a. goals \in [GoalSlots -> Goal]
  BY DEF TypeOK
<1>1. CASE AtRest
  <2>1. goals' = goals
    BY <1>1 DEF AtRest, CancelNavGoal
  <2>2. AtRest'
    BY <1>1, <2>1 DEF AtRest, Outstanding
  <2>3. QED
    BY <2>1, <2>2 DEF FlowInv
<1>2. ASSUME NEW g \in GoalSlots, UnderWay(g)
      PROVE  UnderWay(g)' /\ \A h \in GoalSlots : goals'[h].phase # "sent"
  <2>1. navHandle = g /\ g # NoGoal
    BY <1>2, ClientAssumption DEF UnderWay
  <2>2. /\ goals'[g].phase \in {goals[g].phase, "canceling"}
        /\ goals'[g].order = goals[g].order /\ goals'[g].stop = goals[g].stop
        /\ goals'[g].left = goals[g].left
        /\ \A h \in GoalSlots : h # g => goals'[h] = goals[h]
    BY <1>a, <2>1 DEF CancelNavGoal, Goal
  <2>3. Outstanding' = {g}
    BY <1>2, <2>2 DEF UnderWay, Outstanding
  <2>4. goals'[g].phase # "sent"
    BY <2>2
  <2>5. UNCHANGED <<clientState, nextStop, currentNode, reached, order, firstError, navHandle>>
    BY <2>1
  <2>6. UnderWay(g)'
    BY <1>2, <2>1, <2>2, <2>3, <2>4, <2>5 DEF UnderWay, Nodes
  <2>7. QED
    BY <2>2, <2>4, <2>6
<1>3. QED
  BY <1>1, <1>2 DEF FlowInv

\* A goal Nav2 has not answered is not outstanding in the timer callback.
LEMMA NoneSent ==
  ASSUME FlowInv, PromptAck, Spinning \/ pc # "spin"
  PROVE  \A g \in GoalSlots : goals[g].phase # "sent"
BY OneGoal DEF FlowInv, UnderWay, Spinning

LEMMA CancelFlow ==
  ASSUME Undisturbed, TypeOK, CommandTypes, FlowInv, CancelOrder
  PROVE  FlowInv'
<1>1. PromptAck
  BY UndisturbedFacts DEF CancelOrder
<1>2. \A g \in GoalSlots : goals[g].phase # "sent"
  BY <1>1, NoneSent DEF CancelOrder
<1>3. /\ UNCHANGED <<progress, firstError, driving, navHandle>>
      /\ pc' \in {"spin", "pause", "execute"}
  BY DEF CancelOrder
<1>4. /\ goals' \in {goals, CancelNavGoal}
      /\ clientState' = clientState \/ (navHandle = NoGoal /\ clientState # "IDLE")
  BY DEF CancelOrder, CancelOrderIdle, CancelOrderThrows, CancelOrderRound
<1>5. QED
  BY <1>1, <1>2, <1>3, <1>4, CancelGoalKeeps

LEMMA PauseFlow ==
  ASSUME TypeOK, FlowInv, PromptAck, Spinning \/ pc # "spin",
         NEW p, NEW states, PauseOrder(p, states),
         UNCHANGED <<progress, firstError, driving, navHandle>>,
         pc' \in {"spin", "pause", "execute"}
  PROVE  FlowInv'
<1>1. \A g \in GoalSlots : goals[g].phase # "sent"
  BY NoneSent
<1>2. /\ goals' \in {goals, CancelNavGoal}
      /\ clientState' = clientState \/ (navHandle = NoGoal /\ clientState # "IDLE")
  BY DEF PauseOrder, PauseOrderRefused, PauseOrderFaults, PauseOrderRound
<1>3. QED
  BY <1>1, <1>2, CancelGoalKeeps

\* The commands and the other instant actions.
LEMMA InstantFlow ==
  ASSUME Undisturbed, TypeOK, CommandTypes, FlowInv,
         NEW i \in InstantIds, InstantActionsCallback(i)
  PROVE  FlowInv'
<1>1. /\ Spinning /\ pc' = pc /\ pc = "spin"
      /\ UNCHANGED <<order, currentNode, firstError, driving, navHandle>>
  BY DEF InstantActionsCallback, Receive, Spinning, Atomic
<1>2. ~StartTeleop(i) /\ ~StopTeleop(i)
  BY UndisturbedFacts DEF StartTeleop, StopTeleop
<1>3. CASE CancelOrderReceived(i) \/ FactsheetRequest(i) \/ HandlerAction(i)
           \/ UnknownInstantAction(i)
  <2>1. QuietFlow
    BY <1>1, <1>3 DEF CancelOrderReceived, FactsheetRequest, HandlerAction,
                      UnknownInstantAction, QuietFlow
  <2>2. QED
    BY <2>1, QuietFlowKeeps
<1>4. CASE StartPause(i)
  <2>1. PromptAck /\ PauseOrder(i, Entry(i, "WAITING")) /\ UNCHANGED <<nextStop, reached>>
    BY <1>4, UndisturbedFacts DEF StartPause
  <2>2. QED
    BY <1>1, <2>1, PauseFlow
<1>5. CASE StopPause(i)
  <2>1. CASE UNCHANGED <<clientState, nextStop, reached, goals>>
    <3>1. QuietFlow
      BY <1>1, <2>1 DEF QuietFlow
    <3>2. QED
      BY <3>1, QuietFlowKeeps
  <2>2. CASE ~UNCHANGED <<clientState, nextStop, reached, goals>>
    <3>1. /\ clientState = "PAUSED" /\ goals' = goals
          /\ nextStop' = currentNode /\ reached' /\ clientState' = "RUNNING"
      BY <1>5, <2>2 DEF StopPause
    <3>2. AtRest
      BY <3>1 DEF FlowInv, UnderWay
    <3>3. AtRest'
      BY <1>1, <3>1, <3>2 DEF AtRest, Outstanding
    <3>4. QED
      BY <3>3 DEF FlowInv
  <2>3. QED
    BY <2>1, <2>2
<1>6. QED
  BY <1>2, <1>3, <1>4, <1>5 DEF InstantActionsCallback

\* The timer callback up to the loop, and the loop.
LEMMA ExecuteFlow ==
  ASSUME TypeOK, FlowInv, ExecuteOrderCallback \/ LoopOverActions
  PROVE  FlowInv'
<1>1. CASE TfLookupFails \/ NothingToExecute \/ ExecuteWithoutOrder
  <2>1. QuietFlow
    BY <1>1 DEF TfLookupFails, NothingToExecute, ExecuteWithoutOrder, EndTimer, QuietFlow
  <2>2. QED
    BY <2>1, QuietFlowKeeps
<1>2. CASE StopOnFatalError \/ EnterNode
  <2>1. AtRest
    BY <1>2 DEF FlowInv, UnderWay, StopOnFatalError, EnterNode
  <2>2. AtRest'
    BY <1>2, <2>1 DEF AtRest, StopOnFatalError, EnterNode, EndTimer, Outstanding
  <2>3. QED
    BY <2>2 DEF FlowInv
<1>3. CASE LoopOverActions
  <2>1. UNCHANGED <<progress, nav, clientState, driving>> /\ firstError' = firstError
    BY <1>3 DEF LoopOverActions
  <2>2. pc' \in {pc, "spin"}
    BY <1>3 DEF LoopOverActions, SkipAction, WaitForHardAction, PassRunningAction,
                StartHardAction, StartParallelAction, NextAction, EndTimer, AtAction, InLoop
  <2>3. QED
    BY <2>1, <2>2, QuietFlowKeeps DEF QuietFlow
<1>4. QED
  BY <1>1, <1>2, <1>3 DEF ExecuteOrderCallback

\* A node is left for the next stop ahead.
LEMMA LeaveFlow ==
  ASSUME TypeOK, FlowInv, LeaveNode
  PROVE  FlowInv'
<1>1. /\ AtRest /\ pc = "loop" /\ order # NoOrder /\ pc' = "spin"
      /\ clientState = "RUNNING" /\ reached /\ firstError # "FATAL"
      /\ currentNode = nextStop /\ currentNode \in Nat /\ currentNode \in Nodes(order)
      /\ NodeCount[order] \in Nat
  <2>1. pc = "loop" /\ pc' = "spin"
    BY DEF LeaveNode, StayAtNode, CompleteOrder, StatusCheckFails, GoToNextNode,
           NavServerNotAvailable, StatusCheckHangs, NavigateThroughPoses, LoopDone, InLoop,
           EndTimer
  <2>2. AtRest
    BY <2>1 DEF FlowInv, UnderWay
  <2>3. order \in Orders
    BY <2>1 DEF TypeOK
  <2>4. QED
    BY <2>1, <2>2, <2>3, OrdersAssumption DEF AtRest, TypeOK
<1>2. CASE \/ StayAtNode \/ CompleteOrder \/ StatusCheckFails
           \/ NavServerNotAvailable \/ StatusCheckHangs
  <2>1. UNCHANGED <<goals, navHandle, driving, currentNode>>
    BY <1>2 DEF LeaveNode, StayAtNode, CompleteOrder, StatusCheckFails,
                NavServerNotAvailable, StatusCheckHangs
  <2>2. reached' /\ clientState' # "IDLE" => currentNode = nextStop'
    BY <1>1, <1>2 DEF StayAtNode, CompleteOrder, StatusCheckFails, NavServerNotAvailable,
                      StatusCheckHangs
  <2>3. AtRest'
    BY <1>1, <2>1, <2>2 DEF AtRest, Outstanding
  <2>4. QED
    BY <2>3 DEF FlowInv
<1>3. ASSUME NEW g \in GoalSlots, NEW s \in Nodes(order),
             IsNextStop(order, currentNode, s), SendGoal(g, s, s - currentNode)
      PROVE  UnderWay(g)'
  <2>1. s \in Int /\ s - currentNode \in Int /\ s - currentNode >= 1
        /\ currentNode = s - (s - currentNode)
    BY <1>1, <1>3 DEF IsNextStop, Nodes, LastNode
  <2>2. /\ goals'[g] = [phase |-> "sent", order |-> order, stop |-> s, left |-> s - currentNode]
        /\ \A h \in GoalSlots : h # g => goals'[h] = goals[h]
    BY <1>3 DEF SendGoal, TypeOK
  <2>3. Outstanding' = {g}
    BY <1>1, <2>2, OneGoal DEF Outstanding
  <2>4. QED
    BY <1>1, <1>3, <2>1, <2>2, <2>3 DEF UnderWay, SendGoal, LeaveNode, Nodes, AtRest
<1>4. CASE NavigateThroughPoses
  <2>1. ~(currentNode = LastNode(order) /\ nextStop + 1 < NodeCount[order])
    BY <1>1 DEF LastNode
  <2>2. QED
    BY <1>3, <1>4, <2>1 DEF NavigateThroughPoses, GoToNextNode, FlowInv
<1>5. QED
  BY <1>2, <1>4 DEF LeaveNode

\* Nav2's answer to the goal.
LEMMA ResponseFlow ==
  ASSUME TypeOK, FlowInv, NEW g \in GoalSlots, NavGoalResponseCallback(g)
  PROVE  FlowInv'
<1>1. goals[g].phase = "sent" /\ pc = "spin" /\ UNCHANGED <<pc, progress>>
  BY DEF NavGoalResponseCallback, GoalAccepted, GoalRejected, Atomic
<1>2. UnderWay(g) /\ Outstanding = {g}
  BY <1>1, OneGoal DEF FlowInv, UnderWay
<1>3. CASE GoalAccepted(g)
  <2>1. /\ goals'[g] = [goals[g] EXCEPT !.phase = "active"]
        /\ \A h \in GoalSlots : h # g => goals'[h] = goals[h]
    BY <1>3 DEF GoalAccepted, TypeOK
  <2>2. /\ goals'[g].phase = "active" /\ goals'[g].order = goals[g].order
        /\ goals'[g].stop = goals[g].stop /\ goals'[g].left = goals[g].left
    BY <2>1 DEF Goal, TypeOK
  <2>3. Outstanding' = {g}
    BY <1>2, <2>1, <2>2 DEF Outstanding
  <2>4. UnderWay(g)'
    BY <1>1, <1>2, <1>3, <2>2, <2>3 DEF UnderWay, GoalAccepted, Nodes
  <2>5. QED
    BY <2>4 DEF FlowInv
<1>4. CASE GoalRejected(g)
  <2>1. Outstanding' = {}
    BY <1>2, <1>4 DEF GoalRejected, Outstanding, FreeGoal, TypeOK
  <2>2. AtRest'
    BY <1>1, <1>4, <2>1 DEF AtRest, GoalRejected
  <2>3. QED
    BY <2>2 DEF FlowInv
<1>5. QED
  BY <1>3, <1>4 DEF NavGoalResponseCallback

\* Its feedback: the current node is between the last one and the next stop.
LEMMA FeedbackMoves ==
  ASSUME Undisturbed, TypeOK, GoalsNeedAnOrder, FlowInv,
         NEW g \in GoalSlots, NEW r \in 0 .. goals[g].left, NavFeedbackCallback(g, r)
  PROVE  /\ UnderWay(g) /\ r >= 1 /\ r \in Nat
         /\ nextStop - r \in Nodes(order) /\ currentNode <= nextStop - r
         /\ currentNode' = nextStop - r /\ lastNode' = nextStop - r
         /\ goals' = [goals EXCEPT ![g].left = r]
         /\ TrimNodeStates(nextStop - r)
<1>1. UnderWay(g)
  BY OneGoal DEF NavFeedbackCallback, Moving, FlowInv, UnderWay
<1>2. /\ order \in Orders /\ goals[g].left \in Nat /\ nextStop \in Nat
      /\ NodeCount[order] \in Nat /\ nextStop \in Nodes(order)
      /\ currentNode = nextStop - goals[g].left /\ currentNode \in Nat
  BY <1>1, UnderWayTyped DEF UnderWay
<1>3. r \in FeedbackMin .. goals[g].left /\ FeedbackMin = 1
  BY DEF NavFeedbackCallback, Undisturbed
<1>4. r \in Nat /\ r >= 1 /\ nextStop - r \in Nodes(order) /\ currentNode <= nextStop - r
  BY <1>2, <1>3 DEF Nodes
<1>5. QED
  BY <1>1, <1>4 DEF NavFeedbackCallback

LEMMA FeedbackFlow ==
  ASSUME Undisturbed, TypeOK, GoalsNeedAnOrder, FlowInv,
         NEW g \in GoalSlots, NEW r \in 0 .. goals[g].left, NavFeedbackCallback(g, r)
  PROVE  UnderWay(g)'
<1>1. /\ UnderWay(g) /\ r >= 1 /\ currentNode' = nextStop - r
      /\ goals' = [goals EXCEPT ![g].left = r]
  BY FeedbackMoves
<1>2. /\ goals'[g].phase = goals[g].phase /\ goals'[g].order = goals[g].order
      /\ goals'[g].stop = goals[g].stop /\ goals'[g].left = r
      /\ \A h \in GoalSlots : h # g => goals'[h] = goals[h]
  BY <1>1 DEF Goal, TypeOK
<1>3. Outstanding' = {g}
  BY <1>1, <1>2 DEF Outstanding, UnderWay
<1>4. UNCHANGED <<pc, clientState, order, nextStop, reached, firstError, navHandle>>
  BY DEF NavFeedbackCallback, Atomic
<1>5. QED
  BY <1>1, <1>2, <1>3, <1>4 DEF UnderWay, Nodes

\* Its result: the client is at rest again, wherever that is.
LEMMA ResultFlow ==
  ASSUME TypeOK, FlowInv, NEW g \in GoalSlots, NEW code \in ResultCodes,
         NavResultCallback(g, code)
  PROVE  UnderWay(g) /\ AtRest'
<1>1. UnderWay(g)
  BY OneGoal DEF NavResultCallback, Moving, FlowInv, UnderWay
<1>2. GoalEnded(g)
  BY DEF NavResultCallback, GoalSucceeded, GoalAborted, GoalCanceled, GoalResultUnknown,
         GoalResultOutOfRange
<1>3. Outstanding' = {} /\ navHandle' = NoGoal
  BY <1>1, <1>2 DEF UnderWay, GoalEnded, Outstanding, FreeGoal, TypeOK
<1>4. UNCHANGED <<pc, nextStop>> /\ ~driving' /\ pc # "loop"
  BY <1>1 DEF NavResultCallback, UnderWay, Atomic
<1>5. reached' => currentNode' = nextStop
  BY <1>1 DEF UnderWay, NavResultCallback, GoalSucceeded, GoalAborted, GoalCanceled,
              GoalResultUnknown, GoalResultOutOfRange
<1>6. QED
  BY <1>1, <1>3, <1>4, <1>5 DEF AtRest

LEMMA FlowStep ==
  ASSUME Undisturbed, TypeOK, GoalsNeedAnOrder, CommandTypes, FlowInv, [Next]_vars
  PROVE  FlowInv'
<1>1. CASE UNCHANGED vars
  BY <1>1, QuietFlowKeeps DEF vars, QuietFlow
<1>2. CASE OrderValidErrorCallback \/ SecondInstantActionThrows
           \/ \E a \in ActionIds : JobStep(a)
  <2>1. QuietFlow
    BY <1>2, UndisturbedFacts
       DEF OrderValidErrorCallback, SecondInstantActionThrows, JobStep, JobEnds,
           JobReportsFatal, JobFailsAfterFatal, JobThrows, AddError, Atomic, QuietFlow
  <2>2. QED
    BY <2>1, QuietFlowKeeps
<1>3. CASE TimerPauseOrder
  <2>1. /\ Spinning \/ pc # "spin"
        /\ PauseOrder(pauseAction, actionStates) /\ pc' = "execute"
        /\ UNCHANGED <<progress, firstError, driving, navHandle>>
    BY <1>3 DEF TimerPauseOrder, AtPause
  <2>2. PromptAck
    BY <1>3, UndisturbedFacts DEF TimerPauseOrder
  <2>3. QED
    BY <2>1, <2>2, PauseFlow
<1>4. QED
  BY <1>1, <1>2, <1>3, OrderFlow, InstantFlow, CancelFlow, ExecuteFlow, LeaveFlow,
     ResponseFlow, FeedbackFlow, ResultFlow
     DEF Next, Timer, NavResult, FlowInv

LEMMA FlowCorrect == ASSUME Undisturbed PROVE Spec => []FlowInv
<1>1. Init => FlowInv
  BY DEF Init, FlowInv, AtRest, Outstanding, FreeGoal
<1>2. GoalInv /\ CommandTypes /\ FlowInv /\ [Next]_vars => FlowInv'
  BY FlowStep DEF GoalInv
<1>3. QED
  BY <1>1, <1>2, GoalInvCorrect, CommandsCorrect, PTL DEF Spec

\* There is at most one goal at a time, it is the one of the handle, and
\* next_stop_ and current_node_ are those of its order (NavigateThroughPoses,
\* the callbacks of the goals, CancelOrder, PauseOrder, ResumeOrder), in every
\* execution of an undisturbed client.
THEOREM GoalsCorrect == ASSUME Undisturbed PROVE Spec => []GoalMatchesOrder
<1>1. FlowInv => GoalMatchesOrder
  BY DEF FlowInv, AtRest, UnderWay, GoalMatchesOrder
<1>2. QED
  BY <1>1, FlowCorrect, PTL

-----------------------------------------------------------------------------
(***************************************************************************)
(* What a step may do to the place on the route.                           *)
(***************************************************************************)
\* The client stays at rest or under way, or ends a goal where it is.
Keeps ==
  /\ UNCHANGED <<order, currentNode, lastNode, nodesLeft>>
  /\ Outstanding' = {} \/ (Outstanding # {} /\ nextStop' = nextStop)
  /\ reached' => reached \/ "stopPause" \in InstantTypesUsed

\* A goal is sent from the current node.
Departs ==
  /\ AtRest /\ reached /\ LeaveNode /\ NavigateThroughPoses
  /\ UNCHANGED <<order, currentNode, lastNode, nodesLeft, actionStates>>

\* The robot reports a node between the current one and the next stop.
Advances(node) ==
  /\ Outstanding # {} /\ node \in Nodes(order) /\ currentNode <= node
  /\ order' = order /\ currentNode' = node /\ lastNode' = node /\ TrimNodeStates(node)
  /\ \/ Outstanding' = {} /\ node = nextStop
     \/ nextStop' = nextStop /\ node < nextStop

\* Nav2 gives up: node 1 becomes the current one.
Aborts ==
  /\ "ABORTED" \in Outcomes
  /\ Outstanding # {} /\ Outstanding' = {} /\ 1 <= nextStop
  /\ UNCHANGED <<order, lastNode, nodesLeft>>
  /\ currentNode' = 1 /\ ~reached' /\ fatal'

\* The loop has come to its end: at rest at a node of the order.
LEMMA LeavesAtRest ==
  ASSUME FlowInv, TypeOK, LeaveNode
  PROVE  /\ AtRest /\ pc = "loop" /\ reached /\ clientState = "RUNNING" /\ LoopDone
         /\ order \in Orders /\ currentNode \in Nodes(order) /\ currentNode = nextStop
<1>1. pc = "loop" /\ LoopDone
  BY DEF LeaveNode, StayAtNode, CompleteOrder, StatusCheckFails, GoToNextNode,
         NavServerNotAvailable, StatusCheckHangs, NavigateThroughPoses, LoopDone, InLoop
<1>2. AtRest
  BY <1>1 DEF FlowInv, UnderWay
<1>3. QED
  BY <1>1, <1>2 DEF AtRest, TypeOK

LEMMA LeaveRoute ==
  ASSUME TypeOK, FlowInv, LeaveNode
  PROVE  Keeps \/ Departs
<1>1. AtRest /\ reached
  BY LeavesAtRest
<1>2. UNCHANGED <<order, currentNode, lastNode, nodesLeft, actionStates>>
  BY DEF LeaveNode, StayAtNode, CompleteOrder, StatusCheckFails, NavServerNotAvailable,
         StatusCheckHangs, NavigateThroughPoses, SendGoal
<1>3. CASE NavigateThroughPoses
  BY <1>1, <1>2, <1>3 DEF Departs
<1>4. CASE \/ StayAtNode \/ CompleteOrder \/ StatusCheckFails
           \/ NavServerNotAvailable \/ StatusCheckHangs
  <2>1. goals' = goals
    BY <1>4 DEF StayAtNode, CompleteOrder, StatusCheckFails, NavServerNotAvailable,
                StatusCheckHangs
  <2>2. QED
    BY <1>1, <1>2, <2>1 DEF AtRest, Keeps, Outstanding
<1>5. QED
  BY <1>3, <1>4 DEF LeaveNode

LEMMA ResultRoute ==
  ASSUME TypeOK, GoalsNeedAnOrder, FlowInv,
         NEW g \in GoalSlots, NEW code \in ResultCodes, NavResultCallback(g, code)
  PROVE  Keeps \/ Aborts \/ \E node \in Nat : Advances(node)
<1>1. UnderWay(g) /\ AtRest'
  BY ResultFlow
<1>2. /\ Outstanding # {} /\ Outstanding' = {} /\ ~reached /\ order' = order
      /\ nextStop' = nextStop
  BY <1>1 DEF UnderWay, AtRest, NavResultCallback
<1>3. nextStop \in Nat /\ currentNode \in Nat /\ currentNode < nextStop
      /\ nextStop \in Nodes(order)
  BY <1>1, UnderWayTyped DEF UnderWay
<1>4. CASE code = "SUCCEEDED" /\ GoalSucceeded(g)
  <2>1. Advances(nextStop)
    BY <1>2, <1>3, <1>4 DEF GoalSucceeded, Advances
  <2>2. QED
    BY <1>3, <2>1
<1>5. CASE code = "ABORTED" /\ GoalAborted(g)
  <2>1. "ABORTED" \in Outcomes
    BY <1>5 DEF NavResultCallback
  <2>2. fatal'
    BY <1>5 DEF GoalAborted, AddError
  <2>3. currentNode' = 1 /\ reached' = reached /\ UNCHANGED <<lastNode, nodesLeft>>
    BY <1>5 DEF GoalAborted
  <2>4. Aborts
    BY <1>2, <1>3, <2>1, <2>2, <2>3 DEF Aborts
  <2>5. QED
    BY <2>4
<1>6. CASE GoalCanceled(g) \/ GoalResultUnknown(g) \/ GoalResultOutOfRange(g, code)
  BY <1>2, <1>6 DEF GoalCanceled, GoalResultUnknown, GoalResultOutOfRange, Keeps
<1>7. QED
  BY <1>4, <1>5, <1>6 DEF NavResultCallback

LEMMA RouteStep ==
  ASSUME Undisturbed, TypeOK, GoalsNeedAnOrder, CommandTypes, FlowInv, [Next]_vars
  PROVE  \/ \E o \in Orders : AcceptOrder(o)
         \/ Keeps \/ Departs \/ Aborts \/ \E node \in Nat : Advances(node)
<1>a. ASSUME UNCHANGED <<order, currentNode, nextStop, lastNode, nodesLeft, reached, goals>>
      PROVE  Keeps
  BY <1>a DEF Keeps, Outstanding
<1>b. ASSUME UNCHANGED <<order, currentNode, nextStop, lastNode, nodesLeft, reached>>,
             goals' \in {goals, CancelNavGoal}
      PROVE  Keeps
  <2>1. navHandle # NoGoal => Outstanding # {}
    BY DEF FlowInv, AtRest, UnderWay
  <2>2. QED
    BY <1>a, <1>b, <2>1 DEF Keeps, CancelNavGoal
<1>1. CASE UNCHANGED vars
  BY <1>1, <1>a DEF vars
<1>2. CASE OrderCallback
  BY <1>2, <1>a DEF OrderCallback, OrderCallbackNoOrder, DropEmptyOrder, IgnoreOrder
<1>3. CASE OrderValidErrorCallback \/ SecondInstantActionThrows
           \/ \E a \in ActionIds : JobStep(a)
  BY <1>3, <1>a DEF OrderValidErrorCallback, SecondInstantActionThrows, JobStep, JobEnds,
                    JobReportsFatal, JobFailsAfterFatal, JobThrows
<1>4. ASSUME NEW i \in InstantIds, InstantActionsCallback(i)
      PROVE  Keeps
  <2>1. UNCHANGED <<order, currentNode, lastNode, nodesLeft>>
    BY <1>4 DEF InstantActionsCallback
  <2>2. CASE StopPause(i)
    <3>1. "stopPause" \in InstantTypesUsed /\ goals' = goals
      BY <2>2 DEF StopPause, InstantTypesUsed
    <3>2. nextStop' = nextStop \/ clientState = "PAUSED"
      BY <2>2 DEF StopPause
    <3>3. clientState = "PAUSED" => Outstanding = {}
      BY DEF FlowInv, AtRest, UnderWay
    <3>4. QED
      BY <2>1, <3>1, <3>2, <3>3 DEF Keeps, Outstanding
  <2>3. CASE StartPause(i)
    <3>1. goals' \in {goals, CancelNavGoal} /\ UNCHANGED <<nextStop, reached>>
      BY <2>3 DEF StartPause, PauseOrder, PauseOrderRefused, PauseOrderFaults,
                  PauseOrderRound
    <3>2. QED
      BY <1>b, <2>1, <3>1
  <2>4. ~StartTeleop(i) /\ ~StopTeleop(i)
    BY UndisturbedFacts DEF StartTeleop, StopTeleop
  <2>5. CASE CancelOrderReceived(i) \/ FactsheetRequest(i) \/ HandlerAction(i)
             \/ UnknownInstantAction(i)
    BY <1>a, <2>1, <2>5 DEF CancelOrderReceived, FactsheetRequest, HandlerAction,
                            UnknownInstantAction
  <2>6. QED
    BY <1>4, <2>2, <2>3, <2>4, <2>5 DEF InstantActionsCallback
<1>5. CASE CancelOrder
  BY <1>5, <1>b DEF CancelOrder, CancelOrderIdle, CancelOrderThrows, CancelOrderRound
<1>6. CASE TimerPauseOrder
  BY <1>6, <1>b DEF TimerPauseOrder, PauseOrder, PauseOrderRefused, PauseOrderFaults,
                    PauseOrderRound
<1>7. CASE ExecuteOrderCallback \/ LoopOverActions
  BY <1>7, <1>a DEF ExecuteOrderCallback, TfLookupFails, NothingToExecute,
                    StopOnFatalError, EnterNode, ExecuteWithoutOrder, LoopOverActions
<1>8. CASE LeaveNode
  BY <1>8, LeaveRoute
<1>9. ASSUME NEW g \in GoalSlots, NavGoalResponseCallback(g)
      PROVE  Keeps
  <2>1. Outstanding # {}
    BY <1>9 DEF NavGoalResponseCallback, GoalAccepted, GoalRejected, Outstanding
  <2>2. UNCHANGED <<order, currentNode, nextStop, lastNode, nodesLeft, reached>>
    BY <1>9 DEF NavGoalResponseCallback
  <2>3. QED
    BY <2>1, <2>2 DEF Keeps
<1>10. ASSUME NEW g \in GoalSlots, NEW r \in 0 .. goals[g].left, NavFeedbackCallback(g, r)
       PROVE  \E node \in Nat : Advances(node)
  <2>1. /\ UnderWay(g) /\ r >= 1 /\ r \in Nat
        /\ nextStop - r \in Nodes(order) /\ currentNode <= nextStop - r
        /\ currentNode' = nextStop - r /\ lastNode' = nextStop - r
        /\ TrimNodeStates(nextStop - r)
    BY <1>10, FeedbackMoves
  <2>2. nextStop - r \in Nat /\ nextStop - r < nextStop
    BY <2>1, UnderWayTyped DEF Nodes
  <2>3. UNCHANGED <<order, nextStop>>
    BY <1>10 DEF NavFeedbackCallback
  <2>4. Advances(nextStop - r)
    BY <2>1, <2>2, <2>3 DEF Advances, UnderWay
  <2>5. QED
    BY <2>2, <2>4
<1>11. ASSUME NEW g \in GoalSlots, NEW code \in ResultCodes, NavResultCallback(g, code)
       PROVE  Keeps \/ Aborts \/ \E node \in Nat : Advances(node)
  BY <1>11, ResultRoute
<1>12. QED
  BY <1>1, <1>2, <1>3, <1>4, <1>5, <1>6, <1>7, <1>8, <1>9, <1>10, <1>11
     DEF Next, Timer, NavResult

-----------------------------------------------------------------------------
(***************************************************************************)
(* A paused order is at rest.                                              *)
(***************************************************************************)
\* The end of PauseOrder is the only way to PAUSED without teleoperation.
LEMMA ToPaused ==
  ASSUME Undisturbed, TypeOK, CommandTypes, [Next]_vars,
         clientState # "PAUSED", clientState' = "PAUSED"
  PROVE  NoneRunning
<1>1. ASSUME NEW i \in InstantIds, InstantActionsCallback(i)
      PROVE  \E p, states : PauseOrder(p, states)
  <2>1. ~StartTeleop(i)
    BY UndisturbedFacts DEF StartTeleop
  <2>2. StartPause(i)
    BY <1>1, <2>1 DEF InstantActionsCallback, CancelOrderReceived, StopTeleop,
                      FactsheetRequest, StopPause, HandlerAction, UnknownInstantAction
  <2>3. QED
    BY <2>2 DEF StartPause
<1>2. CASE TimerPauseOrder
  BY <1>2 DEF TimerPauseOrder, PauseOrder, PauseOrderRefused, PauseOrderFaults,
              PauseOrderRound
<1>3. ASSUME NEW p, NEW states, PauseOrder(p, states)
      PROVE  NoneRunning
  BY <1>3 DEF PauseOrder, PauseOrderRefused, PauseOrderFaults, PauseOrderRound
<1>4. CASE \/ UNCHANGED vars
           \/ OrderCallback \/ OrderValidErrorCallback \/ SecondInstantActionThrows
           \/ \E a \in ActionIds : JobStep(a)
  BY <1>4 DEF vars, OrderCallback, OrderCallbackNoOrder, AcceptOrder, DropEmptyOrder,
              IgnoreOrder, OrderValidErrorCallback, SecondInstantActionThrows, JobStep,
              JobEnds, JobReportsFatal, JobFailsAfterFatal, JobThrows
<1>5. CASE CancelOrder \/ ExecuteOrderCallback \/ LoopOverActions \/ LeaveNode
  BY <1>5 DEF CancelOrder, CancelOrderIdle, CancelOrderThrows, CancelOrderRound,
              ExecuteOrderCallback, TfLookupFails, NothingToExecute, StopOnFatalError,
              EnterNode, ExecuteWithoutOrder, LoopOverActions, LeaveNode, StayAtNode,
              CompleteOrder, StatusCheckFails, NavServerNotAvailable, StatusCheckHangs,
              NavigateThroughPoses, SendGoal
<1>6. CASE \/ \E g \in GoalSlots : NavGoalResponseCallback(g) \/ NavResult(g)
           \/ \E g \in GoalSlots : \E r \in 0 .. goals[g].left : NavFeedbackCallback(g, r)
  BY <1>6 DEF NavGoalResponseCallback, GoalAccepted, GoalRejected, NavResult,
              NavResultCallback, NavFeedbackCallback
<1>7. QED
  BY <1>1, <1>2, <1>3, <1>4, <1>5, <1>6 DEF Next, Timer

PausedNoneRuns == clientState = "PAUSED" => NoneRunning

LEMMA PausedNoneRunsStep ==
  ASSUME Undisturbed, TypeOK, CommandTypes, FlowInv, PausedNoneRuns, [Next]_vars
  PROVE  PausedNoneRuns'
<1> SUFFICES ASSUME clientState' = "PAUSED" PROVE NoneRunning'
  BY DEF PausedNoneRuns
<1>1. NoneRunning
  BY ToPaused DEF PausedNoneRuns
<1>2. ~\E o \in Orders : AcceptOrder(o)
  BY DEF AcceptOrder
<1>3. ~Starts
  <2>1. Starts => pc = "loop" /\ clientState' = clientState
    BY DEF Starts, AtAction, InLoop, LoopOverActions
  <2>2. pc = "loop" => clientState = "RUNNING"
    BY DEF FlowInv, AtRest, UnderWay
  <2>3. QED
    BY <2>1, <2>2
<1>4. order' = order /\ Settles
  BY <1>2, <1>3, StatusStep DEF Resumes
<1>5. \A a \in ActionsOf(order) : actionStates'[a] # "RUNNING"
  BY <1>1, <1>4 DEF NoneRunning, OrderActionsIn, Settles, Terminal
<1>6. QED
  BY <1>4, <1>5 DEF NoneRunning, OrderActionsIn

\* A paused order is at rest until stopPause: PauseOrder does not report the
\* pause before the goal has ended and the running actions are over or paused,
\* and nothing but stopPause starts them again.
THEOREM PauseCorrect == ASSUME Undisturbed PROVE Spec => []PausedMeansQuiet
<1>1. Init => PausedNoneRuns
  BY DEF Init, PausedNoneRuns
<1>2. TypeOK /\ CommandTypes /\ FlowInv /\ PausedNoneRuns /\ [Next]_vars => PausedNoneRuns'
  BY PausedNoneRunsStep
<1>3. FlowInv /\ PausedNoneRuns => PausedMeansQuiet
  BY DEF FlowInv, AtRest, UnderWay, PausedNoneRuns, PausedMeansQuiet
<1>4. QED
  BY <1>1, <1>2, <1>3, TypeCorrect, CommandsCorrect, FlowCorrect, PTL DEF Spec

-----------------------------------------------------------------------------
(***************************************************************************)
(* The robot stands still while a SOFT or HARD action runs.                *)
(***************************************************************************)
\* A running SOFT or HARD action is one of the node the robot rests at.
BlockingHere ==
  \A a \in ActionsOf(order) :
    actionStates[a] = "RUNNING" /\ BlockingType[a] # "NONE"
      => a \in ActionsAt(order, currentNode) /\ Outstanding = {}

\* When the loop lets the robot go, every action of the node has been started
\* and no SOFT or HARD one runs.
LEMMA NodeDone ==
  ASSUME TypeOK, ActionsInv, LoopDone, ~stopDriving,
         NEW a \in ActionsAt(order, currentNode)
  PROVE  /\ actionStates[a] # "WAITING"
         /\ actionStates[a] = "RUNNING" => BlockingType[a] = "NONE"
<1>1. pc = "loop" /\ order \in Orders /\ currentNode \in Nodes(order) /\ idx \in Nat /\ idx >= 1
  BY DEF LoopDone, InLoop, TypeOK, ActionsInv, LoopInv
<1>2. PICK i \in Steps(currentNode) : a = ActionAt(currentNode, i)
  BY DEF ActionsAt, Steps, ActionAt
<1>3. NodeActions[order][currentNode] \in Seq(OrderActionIds)
  BY <1>1, OrderActionsTyped DEF Nodes
<1>4. i < idx
  <2>1. idx \notin Steps(currentNode) /\ i \in Nat
    BY <1>1, <1>2, PlaceTyped, OrdersAssumption DEF LoopDone, Steps
  <2>2. Steps(currentNode) = 1 .. Len(NodeActions[order][currentNode])
        /\ Len(NodeActions[order][currentNode]) \in Nat
    BY <1>3 DEF Steps
  <2>3. QED
    BY <1>1, <1>2, <2>1, <2>2
<1>5. BlockingType[a] \in {"HARD", "SOFT", "NONE"}
  BY <1>1, <1>2, PlaceTyped, OrdersAssumption DEF BlockingTypes
<1>6. QED
  BY <1>1, <1>2, <1>4, <1>5 DEF ActionsInv, LoopInv

\* An action runs after a step that ran before, or the loop has started it.
LEMMA RunsAfter ==
  ASSUME Undisturbed, TypeOK, ActionsInv, [Next]_vars, order' = order,
         NEW a \in ActionsOf(order), actionStates'[a] = "RUNNING", BlockingType[a] # "NONE",
         ~\E o \in Orders : AcceptOrder(o)
  PROVE  actionStates[a] = "RUNNING" \/ (Starts /\ a = NodeAction)
<1>1. a \in OrderActionIds
  BY OrderActionsTyped DEF TypeOK
<1>2. actionStates[a] # "PAUSED"
  BY <1>1 DEF ActionsInv, PausedPausable, Undisturbed
<1>3. QED
  BY <1>2, StatusStep DEF Settles, Starts, Resumes, Terminal

LEMMA BlockingHereStep ==
  ASSUME Undisturbed, GoalInv, CommandTypes, ActionsInv, FlowInv, BlockingHere, [Next]_vars
  PROVE  BlockingHere'
<1>a. TypeOK /\ GoalsNeedAnOrder
  BY DEF GoalInv
<1>1. CASE \E o \in Orders : AcceptOrder(o)
  BY <1>1, AcceptedWaits DEF BlockingHere
<1>2. CASE ~\E o \in Orders : AcceptOrder(o)
  <2>1. order' = order
    BY <1>a, <1>2, StatusStep
  <2> SUFFICES ASSUME NEW a \in ActionsOf(order),
                      actionStates'[a] = "RUNNING", BlockingType[a] # "NONE"
               PROVE  a \in ActionsAt(order, currentNode') /\ Outstanding' = {}
    BY <2>1 DEF BlockingHere
  <2>2. CASE Starts /\ a = NodeAction
    <3>1. pc = "loop" /\ NodeAction \in ActionsAt(order, currentNode)
          /\ UNCHANGED <<currentNode, goals>>
      BY <1>a, <2>2, NodeActionTyped DEF Starts, AtAction, InLoop, LoopOverActions
    <3>2. Outstanding = {}
      BY <3>1 DEF FlowInv, AtRest, UnderWay
    <3>3. QED
      BY <2>2, <3>1, <3>2 DEF Outstanding
  <2>3. CASE actionStates[a] = "RUNNING"
    <3>1. a \in ActionsAt(order, currentNode) /\ Outstanding = {}
      BY <2>3 DEF BlockingHere
    <3>2. ~Departs
      <4>1. Departs => LoopDone /\ ~stopDriving
        BY DEF Departs, NavigateThroughPoses, GoToNextNode
      <4>2. QED
        BY <1>a, <2>3, <3>1, <4>1, NodeDone
    <3>3. Keeps
      BY <1>a, <1>2, <3>1, <3>2, RouteStep DEF Aborts, Advances
    <3>4. QED
      BY <3>1, <3>3 DEF Keeps
  <2>4. QED
    BY <1>a, <1>2, <2>1, <2>2, <2>3, RunsAfter
<1>3. QED
  BY <1>1, <1>2

LEMMA BlockingHereCorrect == ASSUME Undisturbed PROVE Spec => []BlockingHere
<1>1. Init => BlockingHere
  BY DEF Init, BlockingHere, ActionsOf
<1>2. GoalInv /\ CommandTypes /\ ActionsInv /\ FlowInv /\ BlockingHere /\ [Next]_vars
        => BlockingHere'
  BY BlockingHereStep
<1>3. QED
  BY <1>1, <1>2, GoalInvCorrect, CommandsCorrect, ActionsInvCorrect, FlowCorrect, PTL
     DEF Spec

\* The robot does not drive, and has no goal it may start to drive for, while
\* a SOFT or HARD action runs: the loop of ExecuteOrderCallback sends no goal
\* then, and ResumeOrder, CancelOrder and the callbacks start none.
THEOREM BlockingCorrect == ASSUME Undisturbed PROVE Spec => []NoDrivingWhileBlocked
<1>1. FlowInv /\ BlockingHere => NoDrivingWhileBlocked
  BY DEF FlowInv, AtRest, UnderWay, BlockingHere, NoDrivingWhileBlocked, OrderActionsIn
<1>2. QED
  BY <1>1, FlowCorrect, BlockingHereCorrect, PTL

-----------------------------------------------------------------------------
(***************************************************************************)
(* No action is left behind.                                               *)
(***************************************************************************)
\* The robot has left node n, or is about to.
Behind(n) ==
  \/ n < currentNode
  \/ n < lastNode
  \/ n = lastNode /\ n # currentNode
  \/ Outstanding # {} /\ (n <= lastNode \/ n < nextStop)

BehindPassed ==
  order # NoOrder =>
    \A n \in Nodes(order) : Behind(n) => \A a \in ActionsAt(order, n) : Passed(a)

\* What is over stays over, until there is another order.
LEMMA PassedStays ==
  ASSUME Undisturbed, TypeOK, ActionsInv, [Next]_vars, ~\E o \in Orders : AcceptOrder(o)
  PROVE  /\ order' = order
         /\ \A a \in ActionsOf(order) : Passed(a) => Passed(a)'
<1>1. order' = order /\ (Settles \/ Starts \/ Resumes)
  BY StatusStep
<1>2. ASSUME NEW a \in ActionsOf(order), Passed(a)
      PROVE  Passed(a)'
  <2>1. a \in OrderActionIds
    BY OrderActionsTyped DEF TypeOK
  <2>2. actionStates[a] \in Terminal => actionStates'[a] \in Terminal
    BY <1>1, <1>2 DEF Settles, Starts, Resumes, Terminal
  <2>3. actionStates[a] # "WAITING" => actionStates'[a] # "WAITING"
    BY <1>1, <1>2 DEF Settles, Starts, Resumes, Terminal
  <2>4. QED
    BY <1>2, <2>2, <2>3 DEF Passed
<1>3. QED
  BY <1>1, <1>2

\* When the loop lets the robot go, everything at the node is over.
LEMMA NodePassed ==
  ASSUME Undisturbed, TypeOK, ActionsInv, LoopDone, ~stopDriving,
         NEW a \in ActionsAt(order, currentNode)
  PROVE  Passed(a)
<1>1. order \in Orders /\ currentNode \in Nodes(order)
  BY DEF LoopDone, InLoop, TypeOK
<1>2. a \in ActionsOf(order) /\ a \in OrderActionIds
  BY <1>1, OrderActionsTyped DEF Nodes
<1>3. /\ actionStates[a] # "WAITING" /\ actionStates[a] # "NONE"
      /\ actionStates[a] = "RUNNING" => BlockingType[a] = "NONE"
  BY <1>1, <1>2, NodeDone, OrdersAssumption DEF ActionsInv, InOrder
<1>4. actionStates[a] = "PAUSED" => BlockingType[a] = "NONE"
  BY <1>2 DEF ActionsInv, PausedPausable, Undisturbed
<1>5. actionStates[a] \in Statuses
  BY <1>2 DEF TypeOK, ActionIds
<1>6. QED
  BY <1>3, <1>4, <1>5 DEF Passed, Terminal, Statuses

LEMMA BehindPassedStep ==
  ASSUME Undisturbed, GoalInv, CommandTypes, ActionsInv, FlowInv, BehindPassed, [Next]_vars
  PROVE  BehindPassed'
<1>a. TypeOK /\ GoalsNeedAnOrder
  BY DEF GoalInv
<1>1. ASSUME NEW o \in Orders, AcceptOrder(o)
      PROVE  BehindPassed'
  <2>1. AtRest
    BY <1>1, <1>a, UnderWayTyped DEF FlowInv, UnderWay, AcceptOrder, CanAcceptOrder
  <2>2. Outstanding' = {} /\ currentNode' = 0 /\ lastNode' = 0 /\ order' = o
    BY <1>1, <2>1 DEF AcceptOrder, AtRest, Outstanding
  <2>3. \A n \in Nodes(o) : n >= 0 /\ n \in Int
    BY DEF Nodes
  <2>4. QED
    BY <2>2, <2>3 DEF BehindPassed, Behind
<1>2. ASSUME ~\E o \in Orders : AcceptOrder(o), order # NoOrder,
             NEW n \in Nodes(order), Behind(n)', NEW a \in ActionsAt(order, n)
      PROVE  Passed(a)'
  <2>1. /\ order \in Orders /\ n \in Nat /\ currentNode \in Nat /\ lastNode \in Nat
        /\ nextStop \in Nat /\ a \in ActionsOf(order)
    <3>1. order \in Orders /\ n \in Nat
      BY <1>a, <1>2, OrdersAssumption DEF TypeOK, Nodes
    <3>2. QED
      BY <1>a, <3>1, OrderActionsTyped DEF TypeOK
  <2>2. SUFFICES Passed(a)
    BY <1>a, <1>2, <2>1, PassedStays
  <2>3. CASE Behind(n)
    BY <1>2, <2>3 DEF BehindPassed
  <2>4. CASE Keeps
    BY <1>2, <2>3, <2>4 DEF Keeps, Behind
  <2>5. ASSUME NEW node \in Nat, Advances(node)
        PROVE  Behind(n)
    BY <1>2, <2>1, <2>5 DEF Advances, Behind
  <2>6. CASE Aborts
    BY <1>2, <2>1, <2>3, <2>6 DEF Aborts, Behind
  <2>7. CASE Departs
    <3>1. LoopDone /\ ~stopDriving /\ UNCHANGED <<currentNode, lastNode>>
          /\ currentNode = nextStop
      BY <1>a, <2>7, LeavesAtRest DEF Departs, NavigateThroughPoses, GoToNextNode
    <3>2. CASE n = currentNode
      BY <1>a, <1>2, <3>1, <3>2, NodePassed
    <3>3. CASE n # currentNode /\ ~Behind(n)
      <4>1. n > currentNode /\ n < nextStop'
        BY <1>2, <2>1, <3>1, <3>3 DEF Behind
      <4>2. PICK s \in Nodes(order) : IsNextStop(order, currentNode, s) /\ nextStop' = s
        <5>1. ~(currentNode = LastNode(order) /\ nextStop + 1 < NodeCount[order])
          BY <2>1, <3>1, OrdersAssumption DEF LastNode
        <5>2. QED
          BY <2>7, <5>1 DEF Departs, NavigateThroughPoses, GoToNextNode, SendGoal
      <4>3. n \in currentNode + 1 .. s - 1
        BY <2>1, <4>1, <4>2 DEF Nodes
      <4>4. NodeActions[order][n] = << >>
        BY <4>2, <4>3 DEF IsNextStop, IsStop
      <4>5. QED
        BY <1>2, <4>4 DEF ActionsAt
    <3>4. QED
      BY <2>3, <3>2, <3>3
  <2>8. QED
    BY <1>a, <1>2, <2>3, <2>4, <2>5, <2>6, <2>7, RouteStep
<1>3. QED
  <2>1. CASE \E o \in Orders : AcceptOrder(o)
    BY <1>1, <2>1
  <2>2. CASE ~\E o \in Orders : AcceptOrder(o)
    <3>1. order' = order
      BY <1>a, <2>2, PassedStays
    <3>2. QED
      BY <1>2, <2>2, <3>1 DEF BehindPassed
  <2>3. QED
    BY <2>1, <2>2

LEMMA BehindPassedCorrect == ASSUME Undisturbed PROVE Spec => []BehindPassed
<1>1. Init => BehindPassed
  BY DEF Init, BehindPassed
<1>2. GoalInv /\ CommandTypes /\ ActionsInv /\ FlowInv /\ BehindPassed /\ [Next]_vars
        => BehindPassed'
  BY BehindPassedStep
<1>3. QED
  BY <1>1, <1>2, GoalInvCorrect, CommandsCorrect, ActionsInvCorrect, FlowCorrect, PTL
     DEF Spec

\* No action is left behind: at every node the robot has left, all actions
\* have been started and the SOFT and HARD ones are over, over pauses,
\* resumed goals and goals that Nav2 has aborted (the loop of
\* ExecuteOrderCallback, NavigateThroughPoses, the callbacks of the goals).
THEOREM BehindCorrect == ASSUME Undisturbed PROVE Spec => []NoActionLeftBehind
<1>1. TypeOK /\ BehindPassed => NoActionLeftBehind
  <2> SUFFICES ASSUME TypeOK, BehindPassed, order # NoOrder, NEW n \in Nodes(order),
                      n < lastNode \/ (n = lastNode /\ Outstanding # {})
               PROVE  \A a \in ActionsAt(order, n) : Passed(a)
    BY DEF NoActionLeftBehind
  <2>1. n \in Int /\ lastNode \in Int
    BY DEF Nodes, TypeOK
  <2>2. Behind(n)
    BY <2>1 DEF Behind
  <2>3. QED
    BY <2>2 DEF BehindPassed
<1>2. QED
  BY <1>1, TypeCorrect, BehindPassedCorrect, PTL

-----------------------------------------------------------------------------
(***************************************************************************)
(* A cancelOrder is answered when all is over.                             *)
(***************************************************************************)
\* Only the actions that a handler runs have jobs.
JobsHandled ==
  \A a \in ActionIds : jobs[a] > 0 \/ failing[a] > 0 => ActionType[a] \in HandledTypes

LEMMA JobsHandledStep ==
  ASSUME TypeOK, JobsHandled, [Next]_vars
  PROVE  JobsHandled'
<1>1. \A a \in ActionIds : jobs[a] \in Nat /\ failing[a] \in Nat
  BY DEF TypeOK
<1>2. ASSUME NEW b \in ActionIds, ActionType[b] \in HandledTypes,
             jobs' = [jobs EXCEPT ![b] = @ + 1], failing' = failing
      PROVE  JobsHandled'
  BY <1>2 DEF JobsHandled, TypeOK
<1>3. CASE jobs' = jobs /\ failing' = failing
  BY <1>3 DEF JobsHandled
<1>4. CASE LoopOverActions
  <2>1. AtAction /\ NodeAction \in ActionIds /\ failing' = failing
    BY <1>4, NodeActionTyped
       DEF LoopOverActions, SkipAction, WaitForHardAction, PassRunningAction,
           StartHardAction, StartParallelAction, ActionIds
  <2>2. CASE ExecuteAction(NodeAction)
    BY <1>2, <1>3, <2>1, <2>2 DEF ExecuteAction
  <2>3. QED
    BY <1>3, <1>4, <2>1, <2>2
       DEF LoopOverActions, SkipAction, WaitForHardAction, PassRunningAction,
           StartHardAction, StartParallelAction
<1>5. ASSUME NEW a \in InstantIds, InstantActionsCallback(a)
      PROVE  JobsHandled'
  <2>1. a \in ActionIds /\ failing' = failing
    BY <1>5 DEF InstantActionsCallback, ActionIds
  <2>2. CASE HandlerAction(a)
    BY <1>2, <2>1, <2>2 DEF HandlerAction
  <2>3. QED
    BY <1>3, <1>5, <2>1, <2>2
       DEF InstantActionsCallback, CancelOrderReceived, StartTeleop, StopTeleop,
           FactsheetRequest, StartPause, StopPause, UnknownInstantAction
<1>6. ASSUME NEW a \in ActionIds, JobStep(a)
      PROVE  JobsHandled'
  <2>1. /\ jobs[a] > 0 \/ failing[a] > 0
        /\ \A b \in ActionIds : b # a => jobs'[b] = jobs[b] /\ failing'[b] = failing[b]
    BY <1>6 DEF JobStep, JobEnds, JobReportsFatal, JobFailsAfterFatal, JobThrows, TypeOK
  <2>2. QED
    BY <2>1 DEF JobsHandled
<1>7. CASE UNCHANGED vars
  BY <1>3, <1>7 DEF vars
<1>8. CASE OrderCallback \/ OrderValidErrorCallback \/ SecondInstantActionThrows
           \/ CancelOrder \/ TimerPauseOrder \/ ExecuteOrderCallback \/ LeaveNode
           \/ (\E g \in GoalSlots : NavGoalResponseCallback(g) \/ NavResult(g))
           \/ \E g \in GoalSlots : \E r \in 0 .. goals[g].left : NavFeedbackCallback(g, r)
  BY <1>3, <1>8
     DEF OrderCallback, OrderCallbackNoOrder, AcceptOrder, DropEmptyOrder, IgnoreOrder,
         OrderValidErrorCallback, SecondInstantActionThrows, CancelOrder, TimerPauseOrder,
         ExecuteOrderCallback, TfLookupFails, NothingToExecute, StopOnFatalError, EnterNode,
         ExecuteWithoutOrder, LeaveNode, NavGoalResponseCallback, NavResult,
         NavResultCallback, NavFeedbackCallback
<1>9. QED
  BY <1>4, <1>5, <1>6, <1>7, <1>8 DEF Next, Timer

\* A cancelOrder becomes FINISHED in a round of CancelOrder and nowhere else.
LEMMA CancelFinishes ==
  ASSUME Undisturbed, TypeOK, CommandTypes, JobsHandled, [Next]_vars,
         NEW a \in InstantIds, ActionType[a] = "cancelOrder",
         actionStates[a] # "FINISHED", actionStates'[a] = "FINISHED"
  PROVE  Spinning /\ CancelOrderRound /\ NoneRunning /\ navHandle = NoGoal
<1>1. /\ a \in ActionIds /\ a # NoAction /\ a \notin OrderActionIds
      /\ actionStates \in [ActionIds -> Statuses]
  BY OrdersAssumption DEF ActionIds, TypeOK
<1>2. actionStates' # actionStates
  OBVIOUS
<1>3. \A b \in ActionsOf(order) : b # a
  BY <1>1, OrderActionsTyped DEF TypeOK
<1>4. CASE CancelOrder
  <2>1. CanceledStates[a] # "FINISHED"
    BY <1>1, <1>3 DEF CanceledStates, OrderActionsIn
  <2>2. QED
    BY <1>2, <1>4, <2>1 DEF CancelOrder, CancelOrderIdle, CancelOrderThrows, CancelOrderRound
<1>5. ASSUME NEW p \in ActionIds, ActionType[p] = "startPause",
             NEW states \in [ActionIds -> Statuses],
             states[a] # "FINISHED", PauseOrder(p, states)
      PROVE  FALSE
  <2>1. PausedStates(p, states) \in [ActionIds -> Statuses]
        /\ PausedStates(p, states)[a] # "FINISHED" /\ p # a
    BY <1>1, <1>5, <1>3 DEF PausedStates, ToPause, OrderActionsIn, Statuses
  <2>2. \A s \in Statuses : Update(states, p, s)[a] # "FINISHED"
                         /\ Update(PausedStates(p, states), p, s)[a] # "FINISHED"
    BY <1>1, <1>5, <2>1 DEF Update
  <2>3. QED
    BY <1>2, <1>5, <2>1, <2>2
       DEF PauseOrder, PauseOrderRefused, PauseOrderFaults, PauseOrderRound, Statuses
<1>6. ~TimerPauseOrder
  <2>1. pauseAction # NoAction => pauseAction \in ActionIds /\ ActionType[pauseAction] = "startPause"
    BY DEF TypeOK, CommandTypes, ActionIds
  <2>2. QED
    BY <1>1, <1>5, <2>1 DEF TimerPauseOrder
<1>7. ASSUME NEW i \in InstantIds, InstantActionsCallback(i)
      PROVE  FALSE
  <2>1. i \in ActionIds /\ ActionType[i] \notin {"startTeleop", "stopTeleop"}
    BY UndisturbedFacts DEF ActionIds
  <2>2. \A s \in Statuses : Entry(i, s) \in [ActionIds -> Statuses]
                         /\ Entry(i, s)[a] = IF i = a THEN s ELSE actionStates[a]
    BY <1>1, <2>1 DEF Entry
  <2>3. ~StartPause(i)
    <3>1. CASE i = a
      BY <3>1 DEF StartPause
    <3>2. CASE i # a
      BY <1>5, <2>1, <2>2, <3>2 DEF StartPause, Statuses
    <3>3. QED
      BY <3>1, <3>2
  <2>4. ~StopPause(i)
    BY <1>1, <1>2, <1>3, <2>2 DEF StopPause, OrderActionsIn, Statuses
  <2>5. QED
    BY <1>7, <2>1, <2>2, <2>3, <2>4
       DEF InstantActionsCallback, CancelOrderReceived, StartTeleop, StopTeleop,
           FactsheetRequest, HandlerAction, UnknownInstantAction, Statuses, HandledTypes
<1>8. ASSUME NEW b \in ActionIds, JobStep(b)
      PROVE  FALSE
  <2>1. \A s \in Statuses : b # a => Update(actionStates, b, s)[a] # "FINISHED"
    BY <1>1 DEF Update
  <2>2. b = a
    BY <1>2, <1>8, <2>1 DEF JobStep, JobEnds, JobReportsFatal, JobFailsAfterFatal,
                            JobThrows, Terminal, Statuses
  <2>3. ActionType[a] \in HandledTypes
    BY <1>8, <2>2, UndisturbedFacts
       DEF JobStep, JobEnds, JobReportsFatal, JobFailsAfterFatal, JobThrows, JobsHandled
  <2>4. QED
    BY <2>3 DEF HandledTypes
<1>9. ~LoopOverActions
  <2>1. LoopOverActions => AtAction /\ NodeAction # a
    BY <1>1, NodeActionTyped
       DEF LoopOverActions, SkipAction, WaitForHardAction, PassRunningAction,
           StartHardAction, StartParallelAction
  <2>2. QED
    BY <1>1, <1>2, <2>1
       DEF LoopOverActions, SkipAction, WaitForHardAction, PassRunningAction,
           StartHardAction, StartParallelAction, ExecuteAction
<1>10. ~OrderCallback
  BY <1>1, <1>2
     DEF OrderCallback, OrderCallbackNoOrder, AcceptOrder, DropEmptyOrder, IgnoreOrder,
         InitActionStates
<1>11. ~(OrderValidErrorCallback \/ SecondInstantActionThrows \/ ExecuteOrderCallback
         \/ LeaveNode \/ UNCHANGED vars
         \/ (\E g \in GoalSlots : NavGoalResponseCallback(g) \/ NavResult(g))
         \/ \E g \in GoalSlots : \E r \in 0 .. goals[g].left : NavFeedbackCallback(g, r))
  BY <1>2
     DEF OrderValidErrorCallback, SecondInstantActionThrows, ExecuteOrderCallback,
         TfLookupFails, NothingToExecute, StopOnFatalError, EnterNode, ExecuteWithoutOrder,
         LeaveNode, NavGoalResponseCallback, NavResult, NavResultCallback,
         NavFeedbackCallback, vars
<1>12. QED
  BY <1>4, <1>6, <1>7, <1>8, <1>9, <1>10, <1>11 DEF Next, Timer

\* What the comment of CancelOrder says is right for an undisturbed client: a
\* cancelOrder is FINISHED once no action runs and no goal is left, also
\* where the goal was canceled by a pause or has just been answered.
THEOREM CancelCorrect == ASSUME Undisturbed PROVE Spec => CancelFinishesLast
<1>1. TypeOK /\ CommandTypes /\ JobsHandled /\ FlowInv /\ [Next]_vars
        => [\A a \in InstantIds :
              /\ ActionType[a] = "cancelOrder"
              /\ actionStates[a] # "FINISHED" /\ actionStates'[a] = "FINISHED"
              => Outstanding = {} /\ NoneRunning]_vars
  <2> SUFFICES ASSUME TypeOK, CommandTypes, JobsHandled, FlowInv, [Next]_vars,
                      NEW a \in InstantIds, ActionType[a] = "cancelOrder",
                      actionStates[a] # "FINISHED", actionStates'[a] = "FINISHED"
               PROVE  Outstanding = {} /\ NoneRunning
    OBVIOUS
  <2>1. Spinning /\ CancelOrderRound /\ NoneRunning /\ navHandle = NoGoal
    BY CancelFinishes
  <2>2. PromptAck
    BY UndisturbedFacts
  <2>3. ASSUME NEW g \in GoalSlots, UnderWay(g) PROVE FALSE
    <3>1. goals[g].phase = "sent"
      BY <2>1, <2>3, ClientAssumption DEF UnderWay
    <3>2. QED
      BY <2>1, <2>2, <3>1 DEF Spinning
  <2>4. QED
    BY <2>1, <2>3 DEF FlowInv, AtRest
<1>2. Init => JobsHandled
  BY DEF Init, JobsHandled
<1>3. TypeOK /\ JobsHandled /\ [Next]_vars => JobsHandled'
  BY JobsHandledStep
<1>4. QED
  BY <1>1, <1>2, <1>3, TypeCorrect, CommandsCorrect, FlowCorrect, PTL
     DEF Spec, CancelFinishesLast
=============================================================================
