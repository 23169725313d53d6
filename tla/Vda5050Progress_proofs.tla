----------------------- MODULE Vda5050Progress_proofs -----------------------
(***************************************************************************)
(* Proofs about the progress of an undisturbed VDA5050 client: what it     *)
(* reports of it, the end of an order, and that it implements              *)
(* OrderExecution.                                                         *)
(***************************************************************************)
EXTENDS Vda5050Undisturbed_proofs, Vda5050Execution

USE DEF control, progress, agvState, errors, position, commands, canceling, pausing,
        teleop, nav, threads, inputs

-----------------------------------------------------------------------------
(***************************************************************************)
(* The errors, and the progress of a client without a fatal one.           *)
(***************************************************************************)
\* Only a new order clears the errors; a FATAL error that becomes the first
\* one is reported.
ErrorsGrow ==
  /\ fatal => fatal'
  /\ firstError' = "FATAL" => firstError = "FATAL" \/ fatal'

LEMMA AddErrorGrows ==
  ASSUME NEW level, AddError(level)
  PROVE  ErrorsGrow
<1>1. fatal => fatal'
  BY DEF AddError
<1>2. level = "FATAL" => fatal'
  BY DEF AddError
<1>3. firstError' \in {level, firstError}
  BY DEF AddError
<1>4. QED
  BY <1>1, <1>2, <1>3 DEF ErrorsGrow

LEMMA ErrorStep ==
  ASSUME [Next]_vars
  PROVE  (\E o \in Orders : AcceptOrder(o)) \/ ErrorsGrow
<1>a. UNCHANGED errors => ErrorsGrow
  BY DEF ErrorsGrow
<1>1. CASE UNCHANGED vars
  BY <1>1, <1>a DEF vars
<1>2. CASE OrderCallback \/ OrderValidErrorCallback \/ SecondInstantActionThrows
  BY <1>2, <1>a, AddErrorGrows
     DEF OrderCallback, OrderCallbackNoOrder, DropEmptyOrder, IgnoreOrder,
         OrderValidErrorCallback, SecondInstantActionThrows
<1>3. CASE Timer \/ \E i \in InstantIds : InstantActionsCallback(i)
  BY <1>3, <1>a DEF Timer, CancelOrder, TimerPauseOrder, ExecuteOrderCallback, TfLookupFails,
              NothingToExecute, StopOnFatalError, EnterNode, ExecuteWithoutOrder,
              LoopOverActions, LeaveNode, InstantActionsCallback
<1>4. CASE \E a \in ActionIds : JobStep(a)
  BY <1>4, <1>a, AddErrorGrows DEF JobStep, JobEnds, JobReportsFatal, JobFailsAfterFatal,
                                   JobThrows
<1>5. CASE \E g \in GoalSlots : NavGoalResponseCallback(g)
  BY <1>5, <1>a, AddErrorGrows DEF NavGoalResponseCallback, GoalAccepted, GoalRejected
<1>6. CASE \E g \in GoalSlots : \E r \in 0 .. goals[g].left : NavFeedbackCallback(g, r)
  BY <1>6, <1>a DEF NavFeedbackCallback
<1>7. ASSUME NEW g \in GoalSlots, NEW code, NavResultCallback(g, code)
      PROVE  ErrorsGrow
  <2>1. CASE GoalAborted(g) \/ GoalCanceled(g)
    BY <2>1, <1>a, AddErrorGrows DEF GoalAborted, GoalCanceled
  <2>2. CASE GoalSucceeded(g) \/ GoalResultUnknown(g) \/ GoalResultOutOfRange(g, code)
    BY <2>2, <1>a DEF GoalSucceeded, GoalResultUnknown, GoalResultOutOfRange
  <2>3. QED
    BY <1>7, <2>1, <2>2 DEF NavResultCallback
<1>8. QED
  BY <1>1, <1>2, <1>3, <1>4, <1>5, <1>6, <1>7 DEF Next, NavResult

\* Without a FATAL error, the current node is the one the robot reports.
Reported ==
  /\ firstError = "FATAL" => fatal
  /\ ~fatal => currentNode = lastNode

LEMMA ReportedStep ==
  ASSUME Undisturbed, GoalInv, CommandTypes, FlowInv, Reported, [Next]_vars
  PROVE  Reported'
<1>1. CASE \E o \in Orders : AcceptOrder(o)
  <2>1. firstError' = "NONE" /\ currentNode' = lastNode'
    BY <1>1 DEF AcceptOrder
  <2>2. QED
    BY <2>1 DEF Reported
<1>2. CASE ~\E o \in Orders : AcceptOrder(o)
  <2>1. ErrorsGrow
    BY <1>2, ErrorStep
  <2>2. firstError' = "FATAL" => fatal'
    BY <2>1 DEF ErrorsGrow, Reported
  <2>3. ~fatal' => currentNode' = lastNode'
    <3>1. fatal => fatal'
      BY <2>1 DEF ErrorsGrow
    <3>2. (Keeps \/ Departs) => UNCHANGED <<currentNode, lastNode>>
      BY DEF Keeps, Departs
    <3>3. Aborts => fatal'
      BY DEF Aborts
    <3>4. (\E node \in Nat : Advances(node)) => currentNode' = lastNode'
      BY DEF Advances
    <3>5. QED
      BY <1>2, <3>1, <3>2, <3>3, <3>4, RouteStep DEF GoalInv, Reported
  <2>4. QED
    BY <2>2, <2>3 DEF Reported
<1>3. QED
  BY <1>1, <1>2

LEMMA ReportedCorrect == ASSUME Undisturbed PROVE Spec => []Reported
<1>1. Init => Reported
  BY DEF Init, Reported
<1>2. GoalInv /\ CommandTypes /\ FlowInv /\ Reported /\ [Next]_vars => Reported'
  BY ReportedStep
<1>3. QED
  BY <1>1, <1>2, GoalInvCorrect, CommandsCorrect, FlowCorrect, PTL DEF Spec

\* The node the robot reports never goes back while the client works on one
\* delivery of an order and has reported no FATAL error: the nodes that the
\* callbacks of the goals compute from the next stop are never before the
\* current one, over pauses and resumed goals too.
THEOREM ProgressCorrect == ASSUME Undisturbed PROVE Spec => ProgressNeverGoesBack
<1>1. GoalInv /\ CommandTypes /\ FlowInv /\ Reported /\ [Next]_vars
        => [deliveries' = deliveries /\ ~fatal => lastNode' >= lastNode]_vars
  <2> SUFFICES ASSUME GoalInv, CommandTypes, FlowInv, Reported, [Next]_vars,
                      deliveries' = deliveries, ~fatal
               PROVE  lastNode' >= lastNode
    OBVIOUS
  <2>1. TypeOK /\ lastNode \in Nat
    BY DEF GoalInv, TypeOK
  <2>2. ~\E o \in Orders : AcceptOrder(o)
    BY <2>1 DEF AcceptOrder, Deliver, TypeOK
  <2>3. ASSUME NEW node \in Nat, Advances(node)
        PROVE  lastNode' >= lastNode
    BY <2>3 DEF Advances, Reported
  <2>4. (Keeps \/ Departs \/ Aborts) => lastNode' = lastNode
    BY DEF Keeps, Departs, Aborts
  <2>5. QED
    BY <2>1, <2>2, <2>3, <2>4, RouteStep DEF GoalInv
<1>2. QED
  BY <1>1, GoalInvCorrect, CommandsCorrect, FlowCorrect, ReportedCorrect, PTL
     DEF Spec, ProgressNeverGoesBack

-----------------------------------------------------------------------------
(***************************************************************************)
(* The end of an order.                                                    *)
(***************************************************************************)
\* The order is completed at its last node, or canceled once nothing runs; or
\* there is a FATAL error.
LEMMA ToIdle ==
  ASSUME [Next]_vars, clientState # "IDLE", clientState' = "IDLE"
  PROVE  \/ firstError = "FATAL"
         \/ fatal'
         \/ LeaveNode /\ CompleteOrder
         \/ CancelOrder /\ CancelOrderRound /\ NoneRunning /\ navHandle = NoGoal
<1>1. CASE UNCHANGED vars \/ OrderCallback \/ OrderValidErrorCallback
           \/ SecondInstantActionThrows
  BY <1>1 DEF vars, OrderCallback, OrderCallbackNoOrder, AcceptOrder, DropEmptyOrder,
              IgnoreOrder, OrderValidErrorCallback, SecondInstantActionThrows
<1>2. ASSUME NEW i \in InstantIds, InstantActionsCallback(i)
      PROVE  FALSE
  BY <1>2 DEF InstantActionsCallback, CancelOrderReceived, StartTeleop, StopTeleop,
              FactsheetRequest, StartPause, PauseOrder, PauseOrderRefused,
              PauseOrderFaults, PauseOrderRound, StopPause, HandlerAction,
              UnknownInstantAction
<1>3. CASE CancelOrder
  BY <1>3 DEF CancelOrder, CancelOrderIdle, CancelOrderThrows, CancelOrderRound
<1>4. CASE TimerPauseOrder \/ ExecuteOrderCallback \/ LoopOverActions
  BY <1>4 DEF TimerPauseOrder, PauseOrder, PauseOrderRefused, PauseOrderFaults,
              PauseOrderRound, ExecuteOrderCallback, TfLookupFails, NothingToExecute,
              StopOnFatalError, EnterNode, ExecuteWithoutOrder, LoopOverActions
<1>5. CASE LeaveNode
  BY <1>5 DEF LeaveNode, StayAtNode, StatusCheckFails, NavServerNotAvailable, StatusCheckHangs,
              NavigateThroughPoses, SendGoal
<1>6. CASE \E g \in GoalSlots : NavGoalResponseCallback(g)
  BY <1>6 DEF NavGoalResponseCallback, GoalAccepted, GoalRejected, AddError
<1>7. CASE \/ \E g \in GoalSlots : NavResult(g)
           \/ \E g \in GoalSlots : \E r \in 0 .. goals[g].left : NavFeedbackCallback(g, r)
           \/ \E a \in ActionIds : JobStep(a)
  BY <1>7 DEF NavResult, NavResultCallback, NavFeedbackCallback, JobStep, JobEnds,
              JobReportsFatal, JobFailsAfterFatal, JobThrows
<1>8. QED
  BY <1>1, <1>2, <1>3, <1>4, <1>5, <1>6, <1>7 DEF Next, Timer

\* An order that is over: everything is done, at the last node, unless it has
\* been canceled.
Over ==
  /\ \A a \in ActionsOf(order) : Passed(a)
  /\ "cancelOrder" \notin InstantTypesUsed => currentNode = LastNode(order)

OverInv == clientState = "IDLE" /\ order # NoOrder /\ ~fatal => Over

LEMMA OrderCompleted ==
  ASSUME Undisturbed, TypeOK, ActionsInv, FlowInv, BehindPassed, LeaveNode, CompleteOrder
  PROVE  Over'
<1>1. /\ order \in Orders /\ currentNode \in Nodes(order) /\ currentNode = nextStop
      /\ LoopDone /\ ~stopDriving /\ nextStop + 1 >= NodeCount[order]
  BY LeavesAtRest DEF CompleteOrder
<1>2. NodeCount[order] \in Nat /\ currentNode = LastNode(order)
  BY <1>1, OrdersAssumption DEF Nodes, LastNode
<1>3. ASSUME NEW a \in ActionsOf(order)
      PROVE  Passed(a)
  <2>1. PICK n \in Nodes(order) : a \in ActionsAt(order, n)
    BY <1>1, OrdersAssumption DEF ActionsOf
  <2>2. CASE n = currentNode
    BY <1>1, <2>1, <2>2, NodePassed
  <2>3. CASE n # currentNode
    <3>1. n < currentNode
      BY <1>2, <2>3 DEF Nodes, LastNode
    <3>2. QED
      BY <1>1, <2>1, <3>1, OrdersAssumption DEF BehindPassed, Behind
  <2>4. QED
    BY <2>2, <2>3
<1>4. UNCHANGED <<order, currentNode, actionStates>>
  BY DEF LeaveNode, CompleteOrder
<1>5. QED
  BY <1>2, <1>3, <1>4 DEF Over, Passed

LEMMA OrderCanceled ==
  ASSUME Undisturbed, TypeOK, CommandTypes, ActionsInv,
         CancelOrder, CancelOrderRound, NoneRunning, navHandle = NoGoal
  PROVE  Over'
<1>1. "cancelOrder" \in InstantTypesUsed
  BY DEF CancelOrder, CommandTypes, InstantTypesUsed, TypeOK
<1>2. UNCHANGED <<order, currentNode>>
  BY DEF CancelOrder
<1>3. ASSUME NEW a \in ActionsOf(order)
      PROVE  Passed(a)'
  <2>1. a \in OrderActionIds /\ a \in ActionIds /\ a # cancelAction /\ order # NoOrder
    BY OrderActionsTyped, OrdersAssumption DEF TypeOK, ActionIds, ActionsOf, CancelOrder
  <2>2. /\ actionStates[a] \in Statuses /\ actionStates[a] \notin {"NONE", "RUNNING"}
        /\ actionStates[a] = "PAUSED" => BlockingType[a] = "NONE"
    BY <2>1 DEF ActionsInv, InOrder, PausedPausable, Undisturbed, NoneRunning,
                OrderActionsIn, TypeOK
  <2>3. CanceledStates \in [ActionIds -> Statuses]
    BY DEF CanceledStates, Statuses, TypeOK
  <2>4. actionStates'[a] = CanceledStates[a]
    BY <2>1, <2>3, UpdateCases DEF CancelOrderRound
  <2>5. CanceledStates[a] = IF actionStates[a] = "WAITING" THEN "FAILED" ELSE actionStates[a]
    BY <2>1, <2>2 DEF CanceledStates, ToCancel, OrderActionsIn
  <2>6. actionStates'[a] \in {"PAUSED", "FINISHED", "FAILED"}
        /\ (actionStates'[a] = "PAUSED" => BlockingType[a] = "NONE")
    BY <2>2, <2>4, <2>5 DEF Statuses
  <2>7. QED
    BY <2>6 DEF Passed, Terminal
<1>4. QED
  BY <1>1, <1>2, <1>3 DEF Over

LEMMA OverStep ==
  ASSUME Undisturbed, GoalInv, CommandTypes, ActionsInv, FlowInv, BehindPassed, Reported,
         OverInv, [Next]_vars
  PROVE  OverInv'
<1>a. TypeOK /\ GoalsNeedAnOrder
  BY DEF GoalInv
<1> SUFFICES ASSUME clientState' = "IDLE", order' # NoOrder, ~fatal'
             PROVE  Over'
  BY DEF OverInv
<1>1. ~\E o \in Orders : AcceptOrder(o)
  BY DEF AcceptOrder
<1>2. ErrorsGrow /\ order' = order
  BY <1>a, <1>1, ErrorStep, StatusStep
<1>3. ~fatal /\ firstError # "FATAL"
  BY <1>2 DEF ErrorsGrow, Reported
<1>4. CASE clientState = "IDLE"
  <2>1. Over
    BY <1>2, <1>3, <1>4 DEF OverInv
  <2>2. Outstanding = {} /\ ~Departs
    BY <1>4, <1>a, LeavesAtRest DEF FlowInv, AtRest, UnderWay, Departs
  <2>3. Keeps
    BY <1>a, <1>1, <2>2, RouteStep DEF Advances, Aborts
  <2>4. \A a \in ActionsOf(order) : Passed(a)'
    BY <1>a, <1>1, <2>1, PassedStays DEF Over
  <2>5. currentNode' = currentNode
    BY <2>3 DEF Keeps
  <2>6. QED
    BY <1>2, <2>1, <2>4, <2>5 DEF Over
<1>5. CASE clientState # "IDLE"
  BY <1>a, <1>3, <1>5, ToIdle, OrderCompleted, OrderCanceled
<1>6. QED
  BY <1>4, <1>5

\* When the client is IDLE again and has reported no FATAL error, nothing of
\* the order is left to do: NavigateThroughPoses completes it where there is
\* no next stop and all actions are over, CancelOrder when no action runs and
\* no goal is left, and no late step of a goal or a handler undoes that.
THEOREM IdleCorrect == ASSUME Undisturbed PROVE Spec => []IdleMeansOver
<1>1. Init => OverInv
  BY DEF Init, OverInv
<1>2. GoalInv /\ CommandTypes /\ ActionsInv /\ FlowInv /\ BehindPassed /\ Reported
      /\ OverInv /\ [Next]_vars => OverInv'
  BY OverStep
<1>3. FlowInv /\ Reported /\ OverInv => IdleMeansOver
  BY DEF FlowInv, AtRest, UnderWay, Reported, OverInv, Over, IdleMeansOver
<1>4. QED
  BY <1>1, <1>2, <1>3, GoalInvCorrect, CommandsCorrect, ActionsInvCorrect, FlowCorrect,
     BehindPassedCorrect, ReportedCorrect, PTL DEF Spec

-----------------------------------------------------------------------------
(***************************************************************************)
(* The report of the progress, when no order is resumed after an aborted   *)
(* goal: such an order drives on from node 1, wherever the robot is.       *)
(***************************************************************************)
Followed == "stopPause" \notin InstantTypesUsed \/ "ABORTED" \notin Outcomes

\* The current node is the one the robot reports, but after an aborted goal.
InStep ==
  "ABORTED" \notin Outcomes \/ ("stopPause" \notin InstantTypesUsed
                                /\ (reached \/ Outstanding # {}))
    => currentNode = lastNode

LEMMA InStepStep ==
  ASSUME Undisturbed, GoalInv, CommandTypes, FlowInv, InStep, [Next]_vars
  PROVE  InStep'
<1>1. CASE \E o \in Orders : AcceptOrder(o)
  BY <1>1 DEF AcceptOrder, InStep
<1>2. CASE Keeps
  BY <1>2 DEF Keeps, InStep
<1>3. CASE Departs
  BY <1>3 DEF Departs, InStep
<1>4. CASE Aborts
  BY <1>4 DEF Aborts, InStep
<1>5. CASE \E node \in Nat : Advances(node)
  BY <1>5 DEF Advances, InStep
<1>6. QED
  BY <1>1, <1>2, <1>3, <1>4, <1>5, RouteStep DEF GoalInv

LEMMA InStepCorrect == ASSUME Undisturbed PROVE Spec => []InStep
<1>1. Init => InStep
  BY DEF Init, InStep
<1>2. GoalInv /\ CommandTypes /\ FlowInv /\ InStep /\ [Next]_vars => InStep'
  BY InStepStep
<1>3. QED
  BY <1>1, <1>2, GoalInvCorrect, CommandsCorrect, FlowCorrect, PTL DEF Spec

\* The report moves forward only, but for a new order.
LEMMA ReportStep ==
  ASSUME Undisturbed, Followed, GoalInv, CommandTypes, FlowInv, InStep, [Next]_vars,
         ~\E o \in Orders : AcceptOrder(o)
  PROVE  \/ UNCHANGED <<lastNode, nodesLeft>>
         \/ /\ order # NoOrder /\ lastNode' \in Nodes(order) /\ lastNode' \in Nat
            /\ lastNode <= lastNode' /\ TrimNodeStates(lastNode')
<1>1. CASE Keeps \/ Departs \/ Aborts
  BY <1>1 DEF Keeps, Departs, Aborts
<1>2. ASSUME NEW node \in Nat, Advances(node)
      PROVE  /\ order # NoOrder /\ lastNode' \in Nodes(order) /\ lastNode' \in Nat
             /\ lastNode <= lastNode' /\ TrimNodeStates(lastNode')
  <2>1. Outstanding # {} /\ currentNode <= node /\ lastNode' = node
        /\ node \in Nodes(order) /\ TrimNodeStates(node)
    BY <1>2 DEF Advances
  <2>2. currentNode = lastNode /\ order # NoOrder
    BY <2>1 DEF Followed, InStep, GoalInv, GoalsNeedAnOrder
  <2>3. QED
    BY <2>1, <2>2
<1>3. QED
  BY <1>1, <1>2, RouteStep DEF GoalInv

LEMMA ProgressReportedStep ==
  ASSUME Undisturbed, Followed, GoalInv, CommandTypes, FlowInv, InStep, ProgressReported,
         [Next]_vars
  PROVE  ProgressReported'
<1>a. TypeOK
  BY DEF GoalInv
<1>1. ASSUME NEW o \in Orders, AcceptOrder(o)
      PROVE  ProgressReported'
  <2>1. NodeCount[o] \in Nat
    BY OrdersAssumption
  <2>2. QED
    BY <1>1, <2>1 DEF AcceptOrder, ProgressReported, LastNode
<1>2. CASE ~\E o \in Orders : AcceptOrder(o)
  <2>1. order' = order
    BY <1>2, <1>a, StatusStep
  <2>2. CASE UNCHANGED <<lastNode, nodesLeft>>
    BY <2>1, <2>2 DEF ProgressReported
  <2>3. CASE /\ order # NoOrder /\ lastNode' \in Nodes(order) /\ lastNode' \in Nat
             /\ lastNode <= lastNode' /\ TrimNodeStates(lastNode')
    <3>1. /\ order \in Orders /\ NodeCount[order] \in Nat /\ lastNode \in Nat
          /\ nodesLeft \in Nat /\ lastNode + nodesLeft = LastNode(order)
      BY <1>a, <2>3, OrdersAssumption DEF TypeOK, ProgressReported
    <3>2. nodesLeft' = LastNode(order) - lastNode'
      BY <2>3, <3>1 DEF TrimNodeStates, LastNode
    <3>3. QED
      BY <2>1, <2>3, <3>1, <3>2 DEF ProgressReported, LastNode
  <2>4. QED
    BY <1>2, <2>2, <2>3, ReportStep
<1>3. QED
  BY <1>1, <1>2

\* last_node_id and node_states always report the same split of the route:
\* the callbacks of the goals trim node_states to what the reported node
\* leaves, and never report a node before the last one.
THEOREM ReportedSplitCorrect ==
  ASSUME Undisturbed, Followed PROVE Spec => []ProgressReported
<1>1. Init => ProgressReported
  BY DEF Init, ProgressReported
<1>2. GoalInv /\ CommandTypes /\ FlowInv /\ InStep /\ ProgressReported /\ [Next]_vars
        => ProgressReported'
  BY ProgressReportedStep
<1>3. QED
  BY <1>1, <1>2, GoalInvCorrect, CommandsCorrect, FlowCorrect, InStepCorrect, PTL DEF Spec

-----------------------------------------------------------------------------
(***************************************************************************)
(* No action starts ahead of the robot.                                    *)
(***************************************************************************)
\* The loop gives its action a job; nothing else gives one to an action of an
\* order.
LEMMA JobsStep ==
  ASSUME TypeOK, [Next]_vars, NEW a \in OrderActionIds
  PROVE  jobs'[a] <= jobs[a] \/ (LoopOverActions /\ AtAction /\ a = NodeAction)
<1>a. a \in ActionIds /\ a \notin InstantIds /\ jobs[a] \in Nat
  BY OrdersAssumption DEF ActionIds, TypeOK
<1>b. jobs' = jobs => jobs'[a] <= jobs[a]
  BY <1>a
<1>1. CASE UNCHANGED vars \/ OrderCallback \/ OrderValidErrorCallback
           \/ SecondInstantActionThrows
  BY <1>b, <1>1 DEF vars, OrderCallback, OrderCallbackNoOrder, AcceptOrder,
                    DropEmptyOrder, IgnoreOrder, OrderValidErrorCallback,
                    SecondInstantActionThrows
<1>2. ASSUME NEW i \in InstantIds, InstantActionsCallback(i)
      PROVE  jobs'[a] <= jobs[a]
  <2>1. CASE HandlerAction(i)
    BY <1>a, <2>1 DEF HandlerAction, TypeOK
  <2>2. CASE ~HandlerAction(i)
    BY <1>b, <1>2, <2>2 DEF InstantActionsCallback, CancelOrderReceived, StartTeleop,
                            StopTeleop, FactsheetRequest, StartPause, StopPause,
                            UnknownInstantAction
  <2>3. QED
    BY <2>1, <2>2
<1>3. CASE CancelOrder \/ TimerPauseOrder \/ ExecuteOrderCallback \/ LeaveNode
  BY <1>b, <1>3 DEF CancelOrder, TimerPauseOrder, ExecuteOrderCallback, TfLookupFails,
                    NothingToExecute, StopOnFatalError, EnterNode, ExecuteWithoutOrder,
                    LeaveNode
<1>4. CASE LoopOverActions
  <2>1. CASE jobs' = jobs
    BY <1>b, <2>1
  <2>2. CASE jobs' # jobs
    <3>1. AtAction /\ ExecuteAction(NodeAction)
      BY <1>4, <2>2 DEF LoopOverActions, SkipAction, WaitForHardAction,
                        PassRunningAction, StartHardAction, StartParallelAction
    <3>2. a # NodeAction => jobs'[a] = jobs[a]
      BY <1>a, <2>2, <3>1 DEF ExecuteAction, TypeOK
    <3>3. QED
      BY <1>4, <1>a, <3>1, <3>2
  <2>3. QED
    BY <2>1, <2>2
<1>5. CASE \/ \E g \in GoalSlots : NavGoalResponseCallback(g) \/ NavResult(g)
           \/ \E g \in GoalSlots : \E r \in 0 .. goals[g].left : NavFeedbackCallback(g, r)
  BY <1>b, <1>5 DEF NavGoalResponseCallback, NavResult, NavResultCallback,
                    NavFeedbackCallback
<1>6. CASE \E b \in ActionIds : JobStep(b)
  <2>1. PICK b \in ActionIds : JobStep(b)
    BY <1>6
  <2>2. CASE jobs' = jobs
    BY <1>b, <2>2
  <2>3. CASE jobs' = [jobs EXCEPT ![b] = @ - 1] /\ jobs[b] > 0
    BY <1>a, <2>3 DEF TypeOK
  <2>4. QED
    BY <2>1, <2>2, <2>3 DEF JobStep, JobEnds, JobReportsFatal, JobFailsAfterFatal, JobThrows
<1>7. QED
  BY <1>1, <1>2, <1>3, <1>4, <1>5, <1>6 DEF Next, Timer

\* Without teleoperation, an action of an order is FINISHED by its job only.
LEMMA FinishStep ==
  ASSUME Undisturbed, TypeOK, CommandTypes, [Next]_vars, NEW a \in OrderActionIds,
         actionStates[a] # "FINISHED", actionStates'[a] = "FINISHED"
  PROVE  JobEnds(a, "FINISHED")
<1>a. a \in ActionIds /\ a \notin InstantIds
  BY OrdersAssumption DEF ActionIds
<1>b. actionStates' # actionStates /\ actionStates \in [ActionIds -> Statuses]
  BY DEF TypeOK
<1>1. CASE UNCHANGED vars \/ OrderValidErrorCallback \/ SecondInstantActionThrows
  BY <1>b, <1>1 DEF vars, OrderValidErrorCallback, SecondInstantActionThrows
<1>2. CASE OrderCallback
  BY <1>a, <1>b, <1>2 DEF OrderCallback, OrderCallbackNoOrder, AcceptOrder,
                          InitActionStates, DropEmptyOrder, IgnoreOrder
<1>c. ASSUME NEW p \in InstantIds, NEW states \in [ActionIds -> Statuses],
             states[a] = actionStates[a], PauseOrder(p, states)
      PROVE  FALSE
  <2>1. PausedStates(p, states) \in [ActionIds -> Statuses]
    BY <1>c DEF PausedStates, Statuses
  <2>2. PausedStates(p, states)[a] # "FINISHED" /\ a # p
    BY <1>a, <1>c DEF PausedStates
  <2>3. /\ \A s : Update(states, p, s)[a] = actionStates[a]
        /\ \A s : Update(PausedStates(p, states), p, s)[a] # "FINISHED"
    BY <1>a, <1>c, <2>1, <2>2, UpdateCases
  <2>4. QED
    BY <1>b, <1>c, <2>2, <2>3
       DEF PauseOrder, PauseOrderRefused, PauseOrderFaults, PauseOrderRound
<1>3. ASSUME NEW i \in InstantIds, InstantActionsCallback(i)
      PROVE  FALSE
  <2>1. \A s : Entry(i, s)[a] = actionStates[a]
    BY <1>a, <1>b DEF Entry
  <2>2. ~StartTeleop(i) /\ ~StopTeleop(i)
    BY UndisturbedFacts DEF StartTeleop, StopTeleop
  <2>3. CASE StartPause(i)
    <3>1. Entry(i, "WAITING") \in [ActionIds -> Statuses]
      BY <1>b DEF Entry, Statuses
    <3>2. QED
      BY <1>c, <2>1, <2>3, <3>1 DEF StartPause
  <2>4. CASE StopPause(i)
    BY <1>a, <1>b, <2>1, <2>4 DEF StopPause
  <2>5. CASE CancelOrderReceived(i) \/ FactsheetRequest(i) \/ HandlerAction(i)
             \/ UnknownInstantAction(i)
    BY <2>1, <2>5 DEF CancelOrderReceived, FactsheetRequest, HandlerAction,
                      UnknownInstantAction
  <2>6. QED
    BY <1>3, <2>2, <2>3, <2>4, <2>5 DEF InstantActionsCallback
<1>4. CASE CancelOrder
  <2>1. cancelAction # a
    BY <1>a, <1>4 DEF CancelOrder, TypeOK
  <2>2. CanceledStates \in [ActionIds -> Statuses] /\ CanceledStates[a] # "FINISHED"
    BY <1>a, <1>b, <2>1 DEF CanceledStates, Statuses
  <2>3. Update(CanceledStates, cancelAction, "FINISHED")[a] # "FINISHED"
    BY <1>a, <2>1, <2>2, UpdateCases
  <2>4. QED
    BY <1>b, <1>4, <2>2, <2>3
       DEF CancelOrder, CancelOrderIdle, CancelOrderThrows, CancelOrderRound
<1>5. CASE TimerPauseOrder
  BY <1>b, <1>c, <1>5 DEF TimerPauseOrder, TypeOK
<1>6. CASE ExecuteOrderCallback \/ LeaveNode
  BY <1>b, <1>6 DEF ExecuteOrderCallback, TfLookupFails, NothingToExecute,
                    StopOnFatalError, EnterNode, ExecuteWithoutOrder, LeaveNode
<1>7. CASE LoopOverActions
  <2>1. ExecuteAction(NodeAction)
    BY <1>b, <1>7 DEF LoopOverActions, SkipAction, WaitForHardAction, PassRunningAction,
                      StartHardAction, StartParallelAction
  <2>2. QED
    BY <1>a, <1>b, <2>1 DEF ExecuteAction
<1>8. CASE \/ \E g \in GoalSlots : NavGoalResponseCallback(g) \/ NavResult(g)
           \/ \E g \in GoalSlots : \E r \in 0 .. goals[g].left : NavFeedbackCallback(g, r)
  BY <1>b, <1>8 DEF NavGoalResponseCallback, NavResult, NavResultCallback,
                    NavFeedbackCallback
<1>9. ASSUME NEW b \in ActionIds, JobStep(b)
      PROVE  JobEnds(a, "FINISHED")
  <2>1. PICK s \in Terminal : JobEnds(b, s) \/ (s = "FAILED" /\ JobFailsAfterFatal(b))
    BY <1>b, <1>9 DEF JobStep, JobReportsFatal, JobThrows, Terminal
  <2>2. actionStates' = Update(actionStates, b, s)
    BY <2>1 DEF JobEnds, JobFailsAfterFatal
  <2>3. b = a /\ s = "FINISHED"
    BY <1>a, <1>b, <2>2, UpdateCases
  <2>4. QED
    BY <2>1, <2>3
<1>10. QED
  BY <1>1, <1>2, <1>3, <1>4, <1>5, <1>6, <1>7, <1>8, <1>9 DEF Next, Timer

\* No two nodes share an action (UniqueActionIds).
LEMMA ActionsApart ==
  ASSUME NEW o1 \in Orders, NEW o2 \in Orders,
         NEW n1 \in Nodes(o1), NEW n2 \in Nodes(o2),
         NEW a, a \in ActionsAt(o1, n1), a \in ActionsAt(o2, n2)
  PROVE  o1 = o2 /\ n1 = n2
<1>1. a \in ActionsAt(o1, n1) \cap ActionsAt(o2, n2)
  OBVIOUS
<1>2. <<o1, n1>> = <<o2, n2>>
  BY <1>1, UniqueActionIds
<1>3. QED
  BY <1>2

\* An order that has not been delivered has no jobs.
Fresh ==
  /\ order # NoOrder => deliveries[order] > 0
  /\ \A o \in Orders : deliveries[o] = 0 => \A a \in ActionsOf(o) : jobs[a] = 0

LEMMA DeliveryStep ==
  ASSUME TypeOK, [Next]_vars
  PROVE  \A o \in Orders : deliveries'[o] >= deliveries[o]
<1>1. CASE deliveries' = deliveries
  BY <1>1 DEF TypeOK
<1>2. ASSUME NEW o \in Orders, Deliver(o)
      PROVE  \A p \in Orders : deliveries'[p] >= deliveries[p]
  BY <1>2 DEF Deliver, TypeOK
<1>3. CASE OrderCallback
  BY <1>2, <1>3 DEF OrderCallback, OrderCallbackNoOrder, AcceptOrder, DropEmptyOrder,
                    IgnoreOrder
<1>4. CASE UNCHANGED vars \/ OrderValidErrorCallback \/ SecondInstantActionThrows
           \/ \E i \in InstantIds : InstantActionsCallback(i)
  BY <1>1, <1>4 DEF vars, OrderValidErrorCallback, SecondInstantActionThrows,
                    InstantActionsCallback, Receive
<1>5. CASE Timer
  BY <1>1, <1>5 DEF Timer, CancelOrder, TimerPauseOrder, ExecuteOrderCallback,
                    TfLookupFails, NothingToExecute, StopOnFatalError, EnterNode,
                    ExecuteWithoutOrder, LoopOverActions, LeaveNode
<1>6. CASE \/ \E g \in GoalSlots : NavGoalResponseCallback(g) \/ NavResult(g)
           \/ \E g \in GoalSlots : \E r \in 0 .. goals[g].left : NavFeedbackCallback(g, r)
           \/ \E a \in ActionIds : JobStep(a)
  BY <1>1, <1>6 DEF NavGoalResponseCallback, NavResult, NavResultCallback,
                    NavFeedbackCallback, JobStep, JobEnds, JobReportsFatal,
                    JobFailsAfterFatal, JobThrows
<1>7. QED
  BY <1>3, <1>4, <1>5, <1>6 DEF Next

LEMMA FreshStep ==
  ASSUME TypeOK, TypeOK', Fresh, [Next]_vars
  PROVE  Fresh'
<1>1. order' # NoOrder => deliveries'[order'] > 0
  <2>1. ASSUME NEW o \in Orders, AcceptOrder(o)
        PROVE  deliveries'[order'] > 0
    BY <2>1 DEF AcceptOrder, Deliver, TypeOK
  <2>2. CASE order' = order /\ order # NoOrder
    BY <2>2, DeliveryStep DEF Fresh, TypeOK
  <2>3. QED
    BY <2>1, <2>2, StatusStep
<1>2. ASSUME NEW o \in Orders, deliveries'[o] = 0, NEW a \in ActionsOf(o)
      PROVE  jobs'[a] = 0
  <2>1. deliveries[o] = 0 /\ o # order
    BY <1>2, DeliveryStep, OrdersAssumption DEF TypeOK, Fresh
  <2>2. a \in OrderActionIds /\ a \in ActionIds /\ jobs[a] = 0 /\ jobs'[a] \in Nat
    BY <2>1, OrderActionsTyped DEF Fresh, ActionIds, TypeOK
  <2>3. ~(AtAction /\ a = NodeAction)
    <3>1. PICK n \in Nodes(o) : a \in ActionsAt(o, n)
      BY OrdersAssumption DEF ActionsOf
    <3>2. AtAction => order \in Orders /\ currentNode \in Nodes(order)
      BY DEF AtAction, InLoop, TypeOK
    <3>3. QED
      BY <2>1, <3>1, <3>2, NodeActionTyped, ActionsApart
  <2>4. QED
    BY <2>2, <2>3, JobsStep
<1>3. QED
  BY <1>1, <1>2 DEF Fresh

LEMMA FreshCorrect == Spec => []Fresh
<1>1. Init => Fresh
  BY OrderActionsTyped DEF Init, Fresh, ActionIds
<1>2. TypeOK /\ TypeOK' /\ Fresh /\ [Next]_vars => Fresh'
  BY FreshStep
<1>3. QED
  BY <1>1, <1>2, TypeCorrect, PTL DEF Spec

\* The actions ahead of the robot have neither a job nor an end but failure.
Ahead ==
  order # NoOrder =>
    \A n \in Nodes(order) : n > lastNode =>
      \A a \in ActionsAt(order, n) : actionStates[a] \in {"WAITING", "FAILED"} /\ jobs[a] = 0

LEMMA AheadStep ==
  ASSUME Undisturbed, Followed, ~Rerun, GoalInv, GoalInv', CommandTypes, FlowInv, InStep,
         Fresh, Ahead, [Next]_vars
  PROVE  Ahead'
<1>a. TypeOK /\ TypeOK'
  BY DEF GoalInv
<1>1. ASSUME NEW o \in Orders, AcceptOrder(o)
      PROVE  Ahead'
  <2>1. order' = o /\ \A a \in ActionsOf(o) : actionStates'[a] = "WAITING"
    BY <1>1, AcceptedWaits
  <2>2. \A a \in ActionsOf(o) : jobs'[a] = 0
    BY <1>1 DEF AcceptOrder, Fresh
  <2>3. \A n \in Nodes(o) : ActionsAt(o, n) \subseteq ActionsOf(o)
    BY OrderActionsTyped DEF Nodes
  <2>4. QED
    BY <2>1, <2>2, <2>3 DEF Ahead
<1>2. ASSUME ~\E o \in Orders : AcceptOrder(o), order' = order, order # NoOrder,
             NEW n \in Nodes(order), n > lastNode', NEW a \in ActionsAt(order, n)
      PROVE  actionStates'[a] \in {"WAITING", "FAILED"} /\ jobs'[a] = 0
  <2>1. /\ order \in Orders /\ n \in Int /\ lastNode \in Nat /\ lastNode' \in Nat
        /\ a \in ActionsOf(order) /\ a \in OrderActionIds /\ a \in ActionIds
    BY <1>2, <1>a, OrderActionsTyped DEF TypeOK, Nodes, ActionIds
  <2>2. n > lastNode
    BY <1>a, <1>2, <2>1, ReportStep
  <2>3. actionStates[a] \in {"WAITING", "FAILED"} /\ jobs[a] = 0
    BY <1>2, <2>2 DEF Ahead
  <2>4. ~(AtAction /\ a = NodeAction)
    <3>1. SUFFICES ASSUME AtAction, a = NodeAction PROVE FALSE
      OBVIOUS
    <3>2. pc = "loop"
      BY <3>1 DEF AtAction, InLoop
    <3>3. reached
      BY <3>2 DEF FlowInv, AtRest, UnderWay
    <3>4. currentNode = lastNode
      BY <3>3 DEF InStep, Followed
    <3>5. a \in ActionsAt(order, currentNode) /\ currentNode \in Nodes(order)
      BY <1>a, <1>2, <3>1, NodeActionTyped DEF TypeOK
    <3>6. n = currentNode
      BY <1>2, <2>1, <3>5, ActionsApart
    <3>7. QED
      BY <2>1, <2>2, <3>4, <3>6
  <2>5. jobs'[a] = 0
    <3>1. jobs'[a] \in Nat
      BY <1>a, <2>1 DEF TypeOK
    <3>2. QED
      BY <1>a, <2>1, <2>3, <2>4, <3>1, JobsStep
  <2>6. actionStates'[a] # "FINISHED"
    BY <1>a, <2>1, <2>3, FinishStep DEF JobEnds
  <2>7. actionStates'[a] \in {actionStates[a], "FINISHED", "FAILED"}
    BY <1>a, <1>2, <2>1, <2>3, <2>4, StatusStep DEF Settles, Starts, Resumes, Terminal
  <2>8. QED
    BY <2>3, <2>5, <2>6, <2>7
<1>3. CASE ~\E o \in Orders : AcceptOrder(o)
  <2>1. order' = order
    BY <1>a, <1>3, StatusStep
  <2>2. QED
    BY <1>2, <1>3, <2>1 DEF Ahead
<1>4. QED
  BY <1>1, <1>3

\* No action starts before the robot reports its node, when every order is
\* delivered to be executed once: the loop of ExecuteOrderCallback works on
\* the reported node, and no job of an earlier order is left that could end
\* an action ahead.
THEOREM AheadCorrect ==
  ASSUME Undisturbed, Followed, ~Rerun PROVE Spec => []NoActionAhead
<1>1. Init => Ahead
  BY DEF Init, Ahead
<1>2. GoalInv /\ GoalInv' /\ CommandTypes /\ FlowInv /\ InStep /\ Fresh /\ Ahead
      /\ [Next]_vars => Ahead'
  BY AheadStep
<1>3. Ahead => NoActionAhead
  BY DEF Ahead, NoActionAhead
<1>4. QED
  BY <1>1, <1>2, <1>3, GoalInvCorrect, CommandsCorrect, FlowCorrect, InStepCorrect,
     FreshCorrect, PTL DEF Spec

-----------------------------------------------------------------------------
(***************************************************************************)
(* The jobs of the order.                                                  *)
(***************************************************************************)
\* An action of the order has one job at most, and none before it starts or
\* once it has finished.
OneJob ==
  \A a \in ActionsOf(order) :
    /\ jobs[a] <= 1
    /\ actionStates[a] \in {"WAITING", "FINISHED"} => jobs[a] = 0

LEMMA OneJobStep ==
  ASSUME Undisturbed, ~Rerun, TypeOK, TypeOK', CommandTypes, Fresh, OneJob, [Next]_vars
  PROVE  OneJob'
<1>1. ASSUME NEW o \in Orders, AcceptOrder(o)
      PROVE  OneJob'
  <2>1. order' = o /\ \A a \in ActionsOf(o) : jobs'[a] = 0
    BY <1>1 DEF AcceptOrder, Fresh
  <2>2. QED
    BY <2>1 DEF OneJob
<1>2. ASSUME ~\E o \in Orders : AcceptOrder(o), NEW a \in ActionsOf(order)
      PROVE  /\ jobs'[a] <= 1
             /\ actionStates'[a] \in {"WAITING", "FINISHED"} => jobs'[a] = 0
  <2>1. a \in OrderActionIds /\ a \in ActionIds
    BY OrderActionsTyped DEF TypeOK, ActionIds
  <2>2. /\ jobs \in [ActionIds -> Nat] /\ jobs[a] \in Nat /\ jobs'[a] \in Nat
        /\ actionStates \in [ActionIds -> Statuses]
    BY <2>1 DEF TypeOK
  <2>3. CASE jobs'[a] <= jobs[a]
    <3>1. jobs'[a] <= 1
      BY <2>2, <2>3 DEF OneJob
    <3>2. ASSUME actionStates'[a] \in {"WAITING", "FINISHED"},
                 actionStates'[a] # actionStates[a]
          PROVE  jobs'[a] = 0
      <4>1. actionStates'[a] = "FINISHED"
        BY <1>2, <3>2, StatusStep DEF Settles, Starts, Resumes, Terminal
      <4>2. JobEnds(a, "FINISHED")
        BY <2>1, <3>2, <4>1, FinishStep
      <4>3. jobs[a] > 0 /\ jobs'[a] = jobs[a] - 1
        BY <2>1, <2>2, <4>2 DEF JobEnds
      <4>4. QED
        BY <2>2, <4>3 DEF OneJob
    <3>3. QED
      BY <2>2, <2>3, <3>1, <3>2 DEF OneJob
  <2>4. CASE LoopOverActions /\ AtAction /\ a = NodeAction
    <3>1. CASE UNCHANGED <<jobs, actionStates>>
      BY <3>1 DEF OneJob
    <3>2. CASE ~UNCHANGED <<jobs, actionStates>>
      <4>1. ExecuteAction(a) /\ actionStates[a] = "WAITING"
        BY <2>4, <3>2 DEF LoopOverActions, SkipAction, WaitForHardAction,
                          PassRunningAction, StartHardAction, StartParallelAction
      <4>2. jobs[a] = 0
        BY <4>1 DEF OneJob
      <4>3. jobs'[a] <= 1 /\ actionStates'[a] \in {"RUNNING", "FAILED"}
        BY <2>1, <2>2, <4>1, <4>2 DEF ExecuteAction
      <4>4. QED
        BY <4>3
    <3>3. QED
      BY <3>1, <3>2
  <2>5. QED
    BY <2>1, <2>3, <2>4, JobsStep
<1>3. CASE ~\E o \in Orders : AcceptOrder(o)
  BY <1>2, <1>3, StatusStep DEF OneJob
<1>4. QED
  BY <1>1, <1>3

\* Without FATAL errors, no handler is about to fail an action for one.
NoneFailing == \A a \in ActionIds : failing[a] = 0

LEMMA NoneFailingStep ==
  ASSUME Undisturbed, NoneFailing, [Next]_vars
  PROVE  NoneFailing'
<1>1. failing' = failing
  <2>1. ~\E a \in ActionIds : JobReportsFatal(a) \/ JobFailsAfterFatal(a)
    BY DEF Undisturbed, JobReportsFatal, JobFailsAfterFatal, NoneFailing
  <2>2. CASE UNCHANGED vars \/ OrderCallback \/ OrderValidErrorCallback
             \/ SecondInstantActionThrows \/ \E a \in ActionIds : JobStep(a)
    BY <2>1, <2>2 DEF vars, OrderCallback, OrderCallbackNoOrder, AcceptOrder,
       DropEmptyOrder, IgnoreOrder, OrderValidErrorCallback, SecondInstantActionThrows,
       JobStep, JobEnds, JobThrows
  <2>3. CASE Timer \/ \E i \in InstantIds : InstantActionsCallback(i)
    BY <2>3 DEF Timer, CancelOrder, TimerPauseOrder, ExecuteOrderCallback, TfLookupFails,
       NothingToExecute, StopOnFatalError, EnterNode, ExecuteWithoutOrder,
       LoopOverActions, LeaveNode, InstantActionsCallback
  <2>4. CASE \/ \E g \in GoalSlots : NavGoalResponseCallback(g) \/ NavResult(g)
             \/ \E g \in GoalSlots : \E r \in 0 .. goals[g].left : NavFeedbackCallback(g, r)
    BY <2>4 DEF NavGoalResponseCallback, NavResult, NavResultCallback, NavFeedbackCallback
  <2>5. QED
    BY <2>2, <2>3, <2>4 DEF Next
<1>2. QED
  BY <1>1 DEF NoneFailing

JobsInv == OneJob /\ NoneFailing

LEMMA JobsInvCorrect == ASSUME Undisturbed, ~Rerun PROVE Spec => []JobsInv
<1>1. Init => JobsInv
  BY OrderActionsTyped DEF Init, JobsInv, OneJob, NoneFailing, ActionsOf, ActionIds
<1>2. TypeOK /\ TypeOK' /\ CommandTypes /\ Fresh /\ JobsInv /\ [Next]_vars => JobsInv'
  BY OneJobStep, NoneFailingStep DEF JobsInv
<1>3. QED
  BY <1>1, <1>2, TypeCorrect, CommandsCorrect, FreshCorrect, PTL DEF Spec

-----------------------------------------------------------------------------
(***************************************************************************)
(* The client implements OrderExecution.                                   *)
(***************************************************************************)
\* OrderExecution has the orders of the client.
LEMMA SameOrders ==
  /\ \A o : Execution!ActionsOf(o) = ActionsOf(o)
  /\ \A o : Execution!Nodes(o) = Nodes(o) /\ Execution!LastNode(o) = LastNode(o)
  /\ \A o, n : Execution!ActionsAt(o, n) = ActionsAt(o, n)
  /\ \A o, n, s : Execution!IsNextStop(o, n, s) = IsNextStop(o, n, s)
<1>1. \A o, n : Execution!ActionsAt(o, n) = ActionsAt(o, n)
  BY DEF ActionsAt, Execution!ActionsAt
<1>2. \A o : Execution!Nodes(o) = Nodes(o) /\ Execution!LastNode(o) = LastNode(o)
  BY DEF Nodes, Execution!Nodes, LastNode, Execution!LastNode
<1>3. \A o : Execution!ActionsOf(o) = ActionsOf(o)
  BY <1>1, <1>2 DEF ActionsOf, Execution!ActionsOf
<1>4. \A o, n : Execution!IsStop(o, n) = IsStop(o, n)
  BY <1>2 DEF IsStop, Execution!IsStop
<1>5. \A o, n, s : Execution!IsNextStop(o, n, s) = IsNextStop(o, n, s)
  BY <1>2, <1>4 DEF IsNextStop, Execution!IsNextStop
<1>6. QED
  BY <1>1, <1>2, <1>3, <1>5

\* Its sets of actions are those of the client.
LEMMA SameThose == \A s : Execution!Those(s) = OrderActionsIn(s)
BY SameOrders DEF Execution!Those, OrderActionsIn, OrderStatus

LEMMA SameDone ==
  \A a \in ActionsOf(order) : Execution!Done(a) <=> Passed(a)
BY SameOrders DEF Execution!Done, Execution!Ended, Passed, Terminal, OrderStatus

\* What the steps of the refinement rely on.
ExecutionInv ==
  GoalInv /\ CommandTypes /\ ActionsInv /\ FlowInv /\ BehindPassed /\ Reported /\ JobsInv

\* At rest there is no target; under way it is the next stop.
LEMMA TargetCases ==
  /\ AtRest => Target = 0
  /\ \A g \in GoalSlots : UnderWay(g) => Target = nextStop
BY DEF Target, AtRest, UnderWay

LEMMA SameTarget ==
  ASSUME GoalInv, FlowInv, UNCHANGED nextStop, goals' \in {goals, CancelNavGoal}
  PROVE  Target' = Target
<1>1. CASE goals' = goals
  BY <1>1 DEF Target, Outstanding
<1>2. CASE goals' # goals
  <2>1. navHandle # NoGoal /\ goals' = [goals EXCEPT ![navHandle].phase = "canceling"]
    BY <1>2 DEF CancelNavGoal
  <2>2. PICK g \in GoalSlots : UnderWay(g)
    BY <2>1 DEF FlowInv, AtRest
  <2>3. navHandle = g /\ goals \in [GoalSlots -> Goal]
    BY <2>1, <2>2 DEF UnderWay, GoalInv, TypeOK
  <2>4. goals'[g].phase = "canceling"
    BY <2>1, <2>3 DEF Goal
  <2>5. g \in Outstanding /\ g \in Outstanding'
    BY <2>2, <2>4 DEF UnderWay, Outstanding
  <2>6. QED
    BY <2>5 DEF Target
<1>3. QED
  BY <1>1, <1>2

LEMMA SameStatus ==
  ASSUME UNCHANGED order, \A a \in ActionsOf(order) : actionStates'[a] = actionStates[a]
  PROVE  OrderStatus' = OrderStatus
BY DEF OrderStatus

\* Steps that OrderExecution does not see.
Unseen ==
  /\ UNCHANGED <<clientState, order, currentNode, fatal, cancelAction, pauseAction, unsent>>
  /\ Target' = Target /\ OrderStatus' = OrderStatus

LEMMA UnseenStutters == Unseen => UNCHANGED Execution!vars
BY DEF Unseen, Execution!vars, Execution!route, Execution!commands

\* Nothing of the goals or the actions has changed.
LEMMA UnseenBy ==
  ASSUME UNCHANGED <<clientState, order, currentNode, nextStop, fatal, cancelAction,
                     pauseAction, unsent, goals, actionStates>>
  PROVE  Unseen
BY DEF Unseen, Target, Outstanding, OrderStatus

LEMMA OrderRefines ==
  ASSUME ExecutionInv, OrderCallback
  PROVE  Execution!Next \/ Unseen
<1>a. TypeOK /\ fatal \in BOOLEAN
  BY DEF ExecutionInv, GoalInv, TypeOK
<1>b. CanAcceptOrder => AtRest
  BY UnderWayTyped DEF ExecutionInv, GoalInv, FlowInv, UnderWay, CanAcceptOrder
<1>1. CASE OrderCallbackNoOrder
  BY <1>1, UnseenBy DEF OrderCallbackNoOrder, Deliver
<1>2. ASSUME NEW o \in Orders, IgnoreOrder(o)
      PROVE  Unseen
  <2>1. fatal' = fatal
    BY <1>a, <1>2 DEF IgnoreOrder, AddError
  <2>2. QED
    BY <1>2, <2>1, UnseenBy DEF IgnoreOrder, Deliver
<1>3. ASSUME NEW o \in Orders, DropEmptyOrder(o)
      PROVE  Execution!GiveUp \/ Unseen
  <2>1. /\ UNCHANGED <<order, currentNode, nextStop, fatal, cancelAction, pauseAction,
                       unsent, goals, actionStates>>
        /\ clientState' = IF firstError = "FATAL" THEN "IDLE" ELSE clientState
        /\ AtRest
    BY <1>3, <1>b DEF DropEmptyOrder, Deliver
  <2>2. CASE clientState' = clientState
    BY <2>1, <2>2, UnseenBy
  <2>3. CASE clientState' # clientState
    <3>1. clientState = "RUNNING" /\ NoneRunning /\ fatal /\ clientState' = "IDLE"
      BY <1>3, <2>1, <2>3 DEF DropEmptyOrder, CanAcceptOrder, ExecutionInv, Reported
    <3>2. Target = 0 /\ Target' = 0 /\ OrderStatus' = OrderStatus
      BY <2>1, TargetCases DEF Target, Outstanding, OrderStatus
    <3>3. Execution!Those("RUNNING") = {}
      BY <3>1, SameThose DEF NoneRunning
    <3>4. QED
      BY <2>1, <3>1, <3>2, <3>3 DEF Execution!GiveUp, Execution!route, Execution!commands
  <2>4. QED
    BY <2>2, <2>3
<1>4. ASSUME NEW o \in Orders, AcceptOrder(o), clientState = "IDLE" \/ order # NoOrder
      PROVE  Execution!Accept(o)
  <2>1. /\ NodeCount[o] > 0 /\ CanAcceptOrder /\ AtRest
        /\ clientState' = "RUNNING" /\ order' = o /\ currentNode' = 0 /\ fatal' = FALSE
        /\ UNCHANGED <<goals, cancelAction, pauseAction, unsent>>
    BY <1>4, <1>b DEF AcceptOrder, Deliver
  <2>2. Target = 0 /\ Target' = 0
    BY <2>1, TargetCases DEF Target, AtRest, Outstanding
  <2>3. OrderStatus' = [a \in Execution!ActionsOf(o) |-> "WAITING"]
    BY <1>4, AcceptedWaits, SameOrders DEF OrderStatus
  <2>4. \/ clientState = "IDLE"
        \/ /\ clientState = "RUNNING" /\ Execution!Those("RUNNING") = {}
           /\ \/ fatal
              \/ currentNode = Execution!LastNode(order) /\ Execution!Those("WAITING") = {}
    BY <2>1, SameThose, SameOrders DEF CanAcceptOrder, NoneRunning, ExecutionInv, Reported
  <2>5. QED
    BY <2>1, <2>2, <2>3, <2>4 DEF Execution!Accept, Execution!commands
<1>5. QED
  BY <1>1, <1>2, <1>3, <1>4 DEF OrderCallback, Execution!Next

\* A pause or a cancellation ends at rest.
LEMMA SettledAtRest ==
  ASSUME ExecutionInv, PromptAck, Spinning \/ pc # "spin", navHandle = NoGoal
  PROVE  AtRest
BY NoneSent, ClientAssumption DEF ExecutionInv, FlowInv, UnderWay

LEMMA PauseRefines ==
  ASSUME ExecutionInv, PromptAck, Spinning \/ pc # "spin", NEW p \in InstantIds,
         NEW states \in [ActionIds -> Statuses],
         \A a \in ActionsOf(order) : states[a] = actionStates[a],
         PauseOrderRound(p, states),
         UNCHANGED <<order, currentNode, nextStop, fatal, cancelAction>>,
         \/ pauseAction # NoAction /\ UNCHANGED unsent
         \/ Execution!Receive("startPause")
  PROVE  Execution!Pause
<1>a. TypeOK /\ p # NoAction
  BY OrdersAssumption DEF ExecutionInv, GoalInv, ActionIds
<1>1. Target' = Target
  BY SameTarget DEF ExecutionInv, PauseOrderRound
<1>2. /\ clientState = "RUNNING" /\ clientState' \in {clientState, "PAUSED"}
      /\ (pauseAction' # NoAction) = (clientState' # "PAUSED")
  BY <1>a DEF PauseOrderRound
<1>3. clientState' = "PAUSED" => Target = 0 /\ Execution!Those("RUNNING") = {}
  <2>1. clientState' = "PAUSED" => NoneRunning /\ navHandle = NoGoal
    BY DEF PauseOrderRound
  <2>2. QED
    BY <2>1, SettledAtRest, TargetCases, SameThose DEF NoneRunning
<1>4. ASSUME NEW a \in ActionsOf(order)
      PROVE  actionStates'[a] = IF a \in ToPause /\ ActionType[a] = "pausable"
                                THEN "PAUSED" ELSE actionStates[a]
  <2>1. a \in ActionIds /\ a # p
    BY <1>a, OrderActionsTyped, InstantApart DEF TypeOK, ActionIds
  <2>2. PausedStates(p, states) \in [ActionIds -> Statuses]
    BY DEF PausedStates, Statuses
  <2>3. actionStates'[a] = PausedStates(p, states)[a]
    BY <2>1, <2>2, UpdateCases DEF PauseOrderRound
  <2>4. QED
    BY <2>1, <2>3 DEF PausedStates
<1>5. \E S \in SUBSET {a \in Execution!Those("RUNNING") : ActionType[a] = "pausable"} :
        OrderStatus' = [a \in Execution!ActionsOf(order) |->
                          IF a \in S THEN "PAUSED" ELSE OrderStatus[a]]
  <2> DEFINE S == {a \in ToPause : ActionType[a] = "pausable"}
  <2>1. S \in SUBSET {a \in Execution!Those("RUNNING") : ActionType[a] = "pausable"}
    BY SameThose DEF ToPause
  <2>2. OrderStatus' = [a \in ActionsOf(order) |-> actionStates'[a]]
    BY DEF OrderStatus
  <2>3. \A a \in ActionsOf(order) :
          actionStates'[a] = IF a \in S THEN "PAUSED" ELSE OrderStatus[a]
    BY <1>4 DEF OrderStatus
  <2>4. OrderStatus' = [a \in ActionsOf(order) |-> IF a \in S THEN "PAUSED" ELSE OrderStatus[a]]
    BY <2>2, <2>3
  <2>5. QED
    BY <2>1, <2>4, SameOrders
<1>6. QED
  BY <1>1, <1>2, <1>3, <1>5 DEF Execution!Pause, Execution!Settle, Execution!route

LEMMA TimerPauseRefines ==
  ASSUME Undisturbed, ExecutionInv, TimerPauseOrder
  PROVE  Execution!Next \/ Unseen
<1>a. TypeOK /\ PromptAck
  BY UndisturbedFacts DEF ExecutionInv, GoalInv, TimerPauseOrder
<1>1. /\ pauseAction \in InstantIds /\ pauseAction # NoAction
      /\ Spinning \/ pc # "spin"
      /\ PauseOrder(pauseAction, actionStates)
      /\ UNCHANGED <<order, currentNode, nextStop, fatal, cancelAction, unsent>>
  BY <1>a DEF TimerPauseOrder, AtPause, TypeOK
<1>2. CASE PauseOrderRefused(pauseAction, actionStates)
  <2>1. \A a \in ActionsOf(order) : actionStates'[a] = actionStates[a]
    <3>1. \A a \in ActionsOf(order) : a \in ActionIds /\ a # pauseAction
      BY <1>a, <1>1, InstantApart, OrderActionsTyped DEF TypeOK, ActionIds
    <3>2. actionStates \in [ActionIds -> Statuses]
      BY <1>a DEF TypeOK
    <3>3. QED
      BY <1>2, <3>1, <3>2, UpdateCases DEF PauseOrderRefused
  <2>2. OrderStatus' = OrderStatus /\ Target' = Target
    BY <1>1, <1>2, <2>1, SameStatus DEF PauseOrderRefused, Target, Outstanding
  <2>3. Execution!RefusePause
    BY <1>1, <1>2, <2>2 DEF PauseOrderRefused, Execution!RefusePause, Execution!route
  <2>4. QED
    BY <2>3 DEF Execution!Next
<1>3. CASE PauseOrderFaults(pauseAction, actionStates)
  BY <1>1, <1>3, UnseenBy DEF PauseOrderFaults
<1>4. CASE PauseOrderRound(pauseAction, actionStates)
  <2>1. Execution!Pause
    BY <1>a, <1>1, <1>4, PauseRefines DEF TypeOK
  <2>2. QED
    BY <2>1 DEF Execution!Next
<1>5. QED
  BY <1>1, <1>2, <1>3, <1>4 DEF PauseOrder

LEMMA CancelRefines ==
  ASSUME Undisturbed, ExecutionInv, CancelOrder
  PROVE  Execution!Next \/ Unseen
<1>a. TypeOK /\ PromptAck
  BY UndisturbedFacts DEF ExecutionInv, GoalInv, CancelOrder
<1>1. /\ cancelAction \in InstantIds /\ cancelAction # NoAction /\ Spinning
      /\ UNCHANGED <<order, currentNode, nextStop, fatal, pauseAction, unsent>>
  BY <1>a DEF CancelOrder, TypeOK
<1>2. CASE CancelOrderIdle \/ CancelOrderThrows
  BY <1>1, <1>2, UnseenBy DEF CancelOrderIdle, CancelOrderThrows
<1>3. CASE CancelOrderRound
  <2>1. Target' = Target
    BY <1>1, <1>3, SameTarget DEF ExecutionInv, CancelOrderRound
  <2>2. /\ clientState # "IDLE" /\ clientState' \in {clientState, "IDLE"}
        /\ (cancelAction' # NoAction) = (clientState' # "IDLE")
    BY <1>1, <1>3 DEF CancelOrderRound
  <2>3. clientState' = "IDLE" => Target = 0 /\ Execution!Those("RUNNING") = {}
    <3>1. clientState' = "IDLE" => NoneRunning /\ navHandle = NoGoal
      BY <1>3 DEF CancelOrderRound
    <3>2. QED
      BY <1>a, <1>1, <3>1, SettledAtRest, TargetCases, SameThose DEF NoneRunning
  <2> DEFINE S == {a \in ToCancel : ActionType[a] = "example"}
  <2>4. ASSUME NEW a \in ActionsOf(order)
        PROVE  actionStates'[a] = IF OrderStatus[a] = "WAITING" \/ a \in S
                                  THEN "FAILED" ELSE OrderStatus[a]
    <3>1. a \in ActionIds /\ a # cancelAction
      BY <1>a, <1>1, OrderActionsTyped, InstantApart DEF TypeOK, ActionIds
    <3>2. CanceledStates \in [ActionIds -> Statuses]
      BY <1>a DEF CanceledStates, Statuses, TypeOK
    <3>3. actionStates'[a] = CanceledStates[a]
      BY <1>3, <3>1, <3>2, UpdateCases DEF CancelOrderRound
    <3>4. CanceledStates[a] = IF actionStates[a] = "WAITING" \/ a \in S
                              THEN "FAILED" ELSE actionStates[a]
      BY <3>1 DEF CanceledStates, OrderActionsIn
    <3>5. QED
      BY <3>3, <3>4 DEF OrderStatus
  <2>5. S \in SUBSET {a \in Execution!Those("RUNNING") : ActionType[a] = "example"}
    BY SameThose DEF ToCancel
  <2>6. OrderStatus' = [a \in ActionsOf(order) |-> actionStates'[a]]
    BY <1>1 DEF OrderStatus
  <2>7. OrderStatus' = [a \in Execution!ActionsOf(order) |->
                          IF OrderStatus[a] = "WAITING" \/ a \in S
                          THEN "FAILED" ELSE OrderStatus[a]]
    <3> HIDE DEF S
    <3> QED
      BY <2>4, <2>6, SameOrders
  <2>8. UNCHANGED pauseAction /\ cancelAction # NoAction
    BY <1>1
  <2>9. Execution!Cancel
    BY <1>1, <2>1, <2>2, <2>3, <2>5, <2>7, <2>8
       DEF Execution!Cancel, Execution!Settle, Execution!route
  <2>10. QED
    BY <2>9 DEF Execution!Next
<1>4. QED
  BY <1>2, <1>3 DEF CancelOrder

LEMMA InstantRefines ==
  ASSUME Undisturbed, ExecutionInv, NEW i \in InstantIds, InstantActionsCallback(i)
  PROVE  Execution!Next
<1>a. TypeOK /\ i # NoAction /\ i \in ActionIds
  BY OrdersAssumption DEF ExecutionInv, GoalInv, ActionIds
<1>1. /\ Spinning /\ i \in unsent /\ unsent' = unsent \ {i}
      /\ UNCHANGED <<order, currentNode, fatal, navHandle>>
  BY DEF InstantActionsCallback, Receive
<1>2. /\ unsent' \in SUBSET unsent
      /\ ActionType[i] = "cancelOrder" => Execution!Receive("cancelOrder")
      /\ ActionType[i] = "startPause" => Execution!Receive("startPause")
      /\ ActionType[i] = "stopPause" => Execution!Receive("stopPause")
  BY <1>1 DEF Execution!Receive
<1>3. \A s : \A a \in ActionsOf(order) : Entry(i, s)[a] = actionStates[a]
  BY <1>a, InstantApart
<1>4. ASSUME UNCHANGED <<clientState, nextStop, goals>>,
             (cancelAction' # NoAction) = (cancelAction # NoAction),
             (pauseAction' # NoAction) = (pauseAction # NoAction),
             \A a \in ActionsOf(order) : actionStates'[a] = actionStates[a]
      PROVE  Execution!Next
  <2>1. Target' = Target /\ OrderStatus' = OrderStatus
    BY <1>1, <1>4, SameStatus DEF Target, Outstanding
  <2>2. Execution!Disregard
    BY <1>1, <1>2, <1>4, <2>1 DEF Execution!Disregard, Execution!route
  <2>3. QED
    BY <2>2 DEF Execution!Next
<1>5. ~StartTeleop(i) /\ ~StopTeleop(i)
  BY <1>a, UndisturbedFacts DEF StartTeleop, StopTeleop, ExecutionInv
<1>6. CASE CancelOrderReceived(i)
  <2>1. Target' = Target /\ OrderStatus' = OrderStatus
    BY <1>1, <1>3, <1>6, SameStatus DEF CancelOrderReceived, Target, Outstanding
  <2>2. Execution!CancelCommand
    BY <1>a, <1>1, <1>2, <1>6, <2>1
       DEF CancelOrderReceived, Execution!CancelCommand, Execution!route
  <2>3. QED
    BY <2>2 DEF Execution!Next
<1>7. CASE FactsheetRequest(i) \/ HandlerAction(i) \/ UnknownInstantAction(i)
  BY <1>3, <1>4, <1>7 DEF FactsheetRequest, HandlerAction, UnknownInstantAction
<1>8. CASE StartPause(i)
  <2>1. PromptAck /\ ActionType[i] = "startPause" /\ PauseOrder(i, Entry(i, "WAITING"))
        /\ UNCHANGED <<nextStop, cancelAction>>
    BY <1>a, <1>8, UndisturbedFacts DEF StartPause, ExecutionInv
  <2>2. Entry(i, "WAITING") \in [ActionIds -> Statuses]
    BY <1>a DEF Entry, Statuses, TypeOK
  <2>3. CASE PauseOrderRefused(i, Entry(i, "WAITING"))
    <3>1. \A a \in ActionsOf(order) : a \in ActionIds /\ a # i
      BY <1>a, InstantApart, OrderActionsTyped DEF TypeOK, ActionIds
    <3>2. \A a \in ActionsOf(order) : actionStates'[a] = actionStates[a]
      BY <1>3, <2>2, <2>3, <3>1, UpdateCases DEF PauseOrderRefused
    <3>3. Target' = Target /\ OrderStatus' = OrderStatus
      BY <1>1, <2>1, <2>3, <3>2, SameStatus DEF PauseOrderRefused, Target, Outstanding
    <3>4. Execution!RefusePause
      BY <1>1, <1>2, <2>1, <2>3, <3>3
         DEF PauseOrderRefused, Execution!RefusePause, Execution!route
    <3>5. QED
      BY <3>4 DEF Execution!Next
  <2>4. CASE PauseOrderFaults(i, Entry(i, "WAITING"))
    BY <1>4, <2>1, <2>4 DEF PauseOrderFaults
  <2>5. CASE PauseOrderRound(i, Entry(i, "WAITING"))
    <3>1. Execution!Pause
      BY <1>1, <1>2, <1>3, <2>1, <2>2, <2>5, PauseRefines
    <3>2. QED
      BY <3>1 DEF Execution!Next
  <2>6. QED
    BY <2>1, <2>3, <2>4, <2>5 DEF PauseOrder
<1>9. CASE StopPause(i)
  <2>1. CASE clientState' = clientState
    BY <1>3, <1>4, <1>9, <2>1 DEF StopPause
  <2>2. CASE clientState' # clientState
    <3>1. /\ ActionType[i] = "stopPause" /\ clientState = "PAUSED"
          /\ clientState' = "RUNNING" /\ UNCHANGED <<goals, cancelAction, pauseAction>>
          /\ actionStates' = [x \in ActionIds |->
               IF x = i THEN "FINISHED"
               ELSE IF x \in OrderActionsIn("PAUSED") THEN "RUNNING" ELSE actionStates[x]]
      BY <1>9, <2>2 DEF StopPause
    <3>2. AtRest
      BY <3>1 DEF ExecutionInv, FlowInv, UnderWay
    <3>3. Target = 0 /\ Target' = 0
      BY <3>1, <3>2, TargetCases DEF Target, AtRest, Outstanding
    <3>4. \A a \in ActionsOf(order) :
            actionStates'[a] = IF OrderStatus[a] = "PAUSED" THEN "RUNNING" ELSE OrderStatus[a]
      <4>1. \A a \in ActionsOf(order) : a \in ActionIds /\ a # i
        BY <1>a, InstantApart, OrderActionsTyped DEF TypeOK, ActionIds
      <4>2. QED
        BY <3>1, <4>1 DEF OrderStatus, OrderActionsIn
    <3>5. OrderStatus' = [a \in Execution!ActionsOf(order) |->
            IF OrderStatus[a] = "PAUSED" THEN "RUNNING" ELSE OrderStatus[a]]
      <4>1. OrderStatus' = [a \in ActionsOf(order) |-> actionStates'[a]]
        BY <1>1 DEF OrderStatus
      <4>2. QED
        BY <3>4, <4>1, SameOrders
    <3>6. Execution!Resume
      BY <1>1, <1>2, <3>1, <3>3, <3>5 DEF Execution!Resume, Execution!route
    <3>7. QED
      BY <3>6 DEF Execution!Next
  <2>3. QED
    BY <2>1, <2>2
<1>10. QED
  BY <1>5, <1>6, <1>7, <1>8, <1>9 DEF InstantActionsCallback

LEMMA ExecuteRefines ==
  ASSUME ExecutionInv, ExecuteOrderCallback
  PROVE  Execution!Next \/ Unseen
<1>1. CASE clientState' = clientState
  <2>1. UNCHANGED <<order, currentNode, nextStop, fatal, cancelAction, pauseAction,
                    unsent, goals, actionStates>>
    BY DEF ExecuteOrderCallback, TfLookupFails, NothingToExecute, StopOnFatalError,
           EnterNode, ExecuteWithoutOrder
  <2>2. QED
    BY <1>1, <2>1, UnseenBy
<1>2. CASE clientState' # clientState
  <2>1. /\ clientState = "RUNNING" /\ clientState' = "IDLE" /\ firstError = "FATAL"
        /\ NoneRunning
        /\ UNCHANGED <<order, currentNode, nextStop, fatal, cancelAction, pauseAction,
                       unsent, goals, actionStates>>
    BY <1>2 DEF ExecuteOrderCallback, TfLookupFails, NothingToExecute, StopOnFatalError,
                EnterNode, ExecuteWithoutOrder
  <2>2. AtRest /\ fatal
    BY <2>1 DEF ExecutionInv, FlowInv, UnderWay, Reported
  <2>3. Target = 0 /\ Target' = 0 /\ OrderStatus' = OrderStatus
    BY <2>1, <2>2, TargetCases DEF Target, Outstanding, OrderStatus
  <2>4. Execution!Those("RUNNING") = {}
    BY <2>1, SameThose DEF NoneRunning
  <2>5. Execution!GiveUp
    BY <2>1, <2>2, <2>3, <2>4 DEF Execution!GiveUp, Execution!route, Execution!commands
  <2>6. QED
    BY <2>5 DEF Execution!Next
<1>3. QED
  BY <1>1, <1>2

\* The loop starts the action it is at: those before it are started, and the
\* HARD ones over.
LEMMA LoopRefines ==
  ASSUME Undisturbed, ExecutionInv, LoopOverActions
  PROVE  Execution!Next \/ Unseen
<1>a. TypeOK /\ ActionsInv
  BY DEF ExecutionInv, GoalInv
<1>1. UNCHANGED <<clientState, order, currentNode, nextStop, fatal, cancelAction,
                  pauseAction, unsent, goals>>
  BY DEF LoopOverActions
<1>2. CASE actionStates' = actionStates
  BY <1>1, <1>2, UnseenBy
<1>3. CASE actionStates' # actionStates
  <2>1. /\ AtAction /\ actionStates[NodeAction] = "WAITING" /\ ExecuteAction(NodeAction)
        /\ BlockingType[NodeAction] = "HARD" => ~hasRunning
    BY <1>3 DEF LoopOverActions, SkipAction, WaitForHardAction, PassRunningAction,
                StartHardAction, StartParallelAction
  <2>2. /\ pc = "loop" /\ order \in Orders /\ order # NoOrder
        /\ currentNode \in Nodes(order) /\ idx \in Steps(currentNode) /\ idx \in Nat
        /\ NodeAction = ActionAt(currentNode, idx)
        /\ NodeAction = NodeActions[order][currentNode][idx]
    BY <1>a, <2>1 DEF AtAction, InLoop, TypeOK, Steps, ActionAt, NodeAction
  <2>3. AtRest /\ clientState = "RUNNING"
    BY <2>2 DEF ExecutionInv, FlowInv, AtRest, UnderWay
  <2>4. Target = 0 /\ Target' = 0
    BY <1>1, <2>3, TargetCases DEF Target, AtRest, Outstanding
  <2>5. NodeAction \in ActionsOf(order) /\ NodeAction \in ActionIds
    BY <1>a, <2>2, PlaceTyped
  <2>6. OrderStatus' = [OrderStatus EXCEPT ![NodeAction] =
                          IF ActionType[NodeAction] = "unknown" THEN "FAILED" ELSE "RUNNING"]
    BY <1>a, <1>1, <2>1, <2>5, OrderActionsTyped DEF ExecuteAction, OrderStatus, TypeOK,
                                                     ActionIds
  <2>7. ASSUME NEW j \in 1 .. idx - 1
        PROVE  LET b == NodeActions[order][currentNode][j] IN
               /\ OrderStatus[b] # "WAITING"
               /\ BlockingType[b] = "HARD" => Execution!Done(b)
               /\ BlockingType[NodeAction] = "HARD" => OrderStatus[b] # "RUNNING"
    <3> DEFINE b == ActionAt(currentNode, j)
    <3>1. j \in Steps(currentNode) /\ j < idx
      <4>1. NodeActions[order][currentNode] \in Seq(OrderActionIds)
        BY <2>2, OrderActionsTyped DEF Nodes
      <4>2. QED
        BY <2>2, <4>1 DEF Steps
    <3>2. b \in ActionsOf(order) /\ b \in ActionIds /\ b \in OrderActionIds
      BY <1>a, <2>2, <3>1, PlaceTyped
    <3>3. /\ actionStates[b] # "WAITING" /\ actionStates[b] # "NONE"
          /\ actionStates[b] = "RUNNING" => hasRunning /\ BlockingType[b] # "HARD"
          /\ actionStates[b] = "PAUSED" => BlockingType[b] = "NONE"
      BY <1>a, <2>2, <3>1, <3>2 DEF ActionsInv, LoopInv, InOrder, PausedPausable, Undisturbed
    <3>4. OrderStatus[b] = actionStates[b] /\ actionStates[b] \in Statuses
      BY <1>a, <3>2 DEF OrderStatus, TypeOK
    <3>5. BlockingType[b] = "HARD" => Passed(b)
      BY <3>3, <3>4 DEF Passed, Statuses, Terminal
    <3>6. BlockingType[b] = "HARD" => Execution!Done(b)
      BY <3>2, <3>5, SameDone
    <3>7. BlockingType[NodeAction] = "HARD" => actionStates[b] # "RUNNING"
      BY <2>1, <3>3
    <3>8. QED
      BY <3>3, <3>4, <3>6, <3>7 DEF ActionAt
  <2>8. OrderStatus[NodeAction] = "WAITING"
    BY <2>1, <2>5 DEF OrderStatus
  <2>9. Execution!Start(idx)
    BY <1>1, <2>2, <2>3, <2>4, <2>6, <2>7, <2>8
       DEF Execution!Start, Execution!route, Execution!commands
  <2>10. idx \in DOMAIN NodeActions[order][currentNode]
    BY <2>2 DEF Steps
  <2>11. QED
    BY <2>2, <2>9, <2>10 DEF Execution!Next
<1>4. QED
  BY <1>2, <1>3

\* The order is complete, or the robot departs with nothing left behind.
LEMMA LeaveRefines ==
  ASSUME Undisturbed, ExecutionInv, LeaveNode
  PROVE  Execution!Next \/ Unseen
<1>a. TypeOK /\ FlowInv /\ ActionsInv /\ BehindPassed
  BY DEF ExecutionInv, GoalInv
<1>1. /\ AtRest /\ pc = "loop" /\ reached /\ clientState = "RUNNING" /\ LoopDone
      /\ order \in Orders /\ order # NoOrder
      /\ currentNode \in Nodes(order) /\ currentNode = nextStop
  BY <1>a, LeavesAtRest, OrdersAssumption
<1>2. Target = 0
  BY <1>1, TargetCases
<1>3. /\ UNCHANGED <<order, currentNode, fatal, cancelAction, pauseAction, unsent,
                     actionStates>>
      /\ OrderStatus' = OrderStatus
  BY DEF LeaveNode, StayAtNode, CompleteOrder, StatusCheckFails, NavServerNotAvailable,
         StatusCheckHangs, NavigateThroughPoses, SendGoal, OrderStatus
<1>4. CASE StayAtNode \/ StatusCheckFails \/ NavServerNotAvailable \/ StatusCheckHangs
  <2>1. UNCHANGED <<clientState, goals>>
    BY <1>4 DEF StayAtNode, StatusCheckFails, NavServerNotAvailable, StatusCheckHangs
  <2>2. Target' = 0
    BY <1>1, <2>1 DEF Target, AtRest, Outstanding
  <2>3. QED
    BY <1>2, <1>3, <2>1, <2>2 DEF Unseen
<1>5. CASE CompleteOrder
  <2>1. ~stopDriving /\ nextStop + 1 >= NodeCount[order] /\ clientState' = "IDLE"
        /\ UNCHANGED goals
    BY <1>5 DEF CompleteOrder
  <2>2. Target' = 0
    BY <1>1, <2>1 DEF Target, AtRest, Outstanding
  <2>3. NodeCount[order] \in Nat /\ currentNode = LastNode(order)
    BY <1>1, <2>1, OrdersAssumption DEF Nodes, LastNode
  <2>4. \A a \in ActionsOf(order) : Passed(a)
    <3>1. Over'
      BY <1>a, <1>5, OrderCompleted
    <3>2. QED
      BY <1>3, <3>1 DEF Over, Passed
  <2>5. Execution!Complete
    BY <1>1, <1>2, <1>3, <2>1, <2>2, <2>3, <2>4, SameDone, SameOrders
       DEF Execution!Complete, Execution!route, Execution!commands
  <2>6. QED
    BY <2>5 DEF Execution!Next
<1>6. CASE NavigateThroughPoses
  <2>1. /\ ~stopDriving /\ nextStop + 1 < NodeCount[order]
        /\ UNCHANGED clientState
    BY <1>6 DEF NavigateThroughPoses, GoToNextNode, SendGoal
  <2>2. ~(currentNode = LastNode(order))
    BY <1>1, <2>1, OrdersAssumption DEF LastNode
  <2>3. PICK g \in GoalSlots, s \in Nodes(order) :
          IsNextStop(order, currentNode, s) /\ SendGoal(g, s, s - currentNode)
    BY <1>6, <2>2 DEF NavigateThroughPoses
  <2>4. goals'[g].phase = "sent" /\ nextStop' = s
    BY <1>a, <2>3 DEF SendGoal, TypeOK
  <2>5. Target' = s
    <3>1. g \in Outstanding'
      BY <2>4 DEF Outstanding
    <3>2. QED
      BY <2>4, <3>1 DEF Target
  <2>6. ASSUME NEW n \in Nodes(order), n <= currentNode, NEW a \in ActionsAt(order, n)
        PROVE  Execution!Done(a)
    <3>1. a \in ActionsOf(order) /\ n \in Int /\ currentNode \in Int
      BY <1>1, OrderActionsTyped DEF Nodes
    <3>2. CASE n = currentNode
      BY <1>a, <1>1, <2>1, <3>1, <3>2, NodePassed, SameDone
    <3>3. CASE n < currentNode
      BY <1>a, <1>1, <3>1, <3>3, SameDone DEF BehindPassed, Behind
    <3>4. QED
      BY <2>6, <3>1, <3>2, <3>3
  <2>7. Execution!Depart
    <3>1. \A n \in Execution!Nodes(order) : n <= currentNode =>
            \A a \in Execution!ActionsAt(order, n) : Execution!Done(a)
      BY <2>6, SameOrders
    <3>2. Execution!IsNextStop(order, currentNode, Target')
      BY <2>3, <2>5, SameOrders
    <3>3. QED
      BY <1>1, <1>2, <1>3, <2>1, <3>1, <3>2 DEF Execution!Depart, Execution!commands
  <2>8. QED
    BY <2>7 DEF Execution!Next
<1>7. QED
  BY <1>4, <1>5, <1>6 DEF LeaveNode

LEMMA UnderWayTarget ==
  ASSUME ExecutionInv, NEW g \in GoalSlots, UnderWay(g)
  PROVE  /\ Target = nextStop /\ Target # 0
         /\ nextStop \in Nat /\ currentNode \in Nat /\ currentNode < nextStop
BY TargetCases, UnderWayTyped DEF ExecutionInv, GoalInv

LEMMA ResponseRefines ==
  ASSUME ExecutionInv, NEW g \in GoalSlots, NavGoalResponseCallback(g)
  PROVE  Execution!Next \/ Unseen
<1>a. goals \in [GoalSlots -> Goal]
  BY DEF ExecutionInv, GoalInv, TypeOK
<1>1. goals[g].phase = "sent"
      /\ UNCHANGED <<order, currentNode, nextStop, cancelAction, pauseAction, unsent,
                     actionStates>>
  BY DEF NavGoalResponseCallback, GoalAccepted, GoalRejected
<1>2. UnderWay(g)
  BY <1>1, OneGoal DEF ExecutionInv, FlowInv, UnderWay
<1>3. OrderStatus' = OrderStatus
  BY <1>1 DEF OrderStatus
<1>4. CASE GoalAccepted(g)
  <2>1. goals'[g].phase = "active"
    BY <1>a, <1>4 DEF GoalAccepted, Goal
  <2>2. g \in Outstanding /\ g \in Outstanding'
    BY <1>1, <2>1 DEF Outstanding
  <2>3. Target' = Target
    BY <1>1, <2>2 DEF Target
  <2>4. QED
    BY <1>1, <1>3, <1>4, <2>3 DEF Unseen, GoalAccepted
<1>5. CASE GoalRejected(g)
  <2>1. Outstanding' = {}
    BY <1>a, <1>2, <1>5 DEF UnderWay, GoalRejected, Outstanding, FreeGoal
  <2>2. Target' = 0 /\ Target # 0
    BY <1>2, <2>1, UnderWayTarget DEF Target
  <2>3. fatal' = TRUE /\ clientState' = "IDLE"
    BY <1>5 DEF GoalRejected, AddError
  <2>4. Execution!Refuse
    BY <1>1, <1>3, <2>2, <2>3 DEF Execution!Refuse, Execution!commands
  <2>5. QED
    BY <2>4 DEF Execution!Next
<1>6. QED
  BY <1>4, <1>5 DEF NavGoalResponseCallback

LEMMA FeedbackRefines ==
  ASSUME Undisturbed, ExecutionInv, NEW g \in GoalSlots, NEW r \in 0 .. goals[g].left,
         NavFeedbackCallback(g, r)
  PROVE  Execution!Next
<1>a. TypeOK /\ GoalsNeedAnOrder /\ FlowInv
  BY DEF ExecutionInv, GoalInv
<1>1. /\ UnderWay(g) /\ r >= 1 /\ r \in Nat
      /\ currentNode <= nextStop - r /\ currentNode' = nextStop - r
  BY <1>a, FeedbackMoves
<1>2. Target = nextStop /\ Target # 0 /\ nextStop \in Nat /\ currentNode \in Nat
  BY <1>1, UnderWayTarget
<1>3. UNCHANGED <<clientState, order, nextStop, fatal, cancelAction, pauseAction, unsent,
                  actionStates>>
  BY DEF NavFeedbackCallback
<1>4. UnderWay(g)'
  BY <1>a, FeedbackFlow
<1>5. Target' = Target
  BY <1>2, <1>3, <1>4 DEF Target, UnderWay
<1>6. currentNode' \in currentNode .. Target - 1
  BY <1>1, <1>2
<1>7. Execution!Pass
  BY <1>2, <1>3, <1>5, <1>6 DEF Execution!Pass, Execution!commands, OrderStatus
<1>8. QED
  BY <1>7 DEF Execution!Next

LEMMA ResultRefines ==
  ASSUME ExecutionInv, NEW g \in GoalSlots, NEW code \in ResultCodes,
         NavResultCallback(g, code)
  PROVE  Execution!Next
<1>a. TypeOK /\ FlowInv /\ fatal \in BOOLEAN
  BY DEF ExecutionInv, GoalInv, TypeOK
<1>1. UnderWay(g) /\ AtRest'
  BY <1>a, ResultFlow
<1>2. Target = nextStop /\ Target # 0 /\ Target' = 0
  BY <1>1, UnderWayTarget DEF Target, AtRest
<1>3. /\ UNCHANGED <<clientState, order, cancelAction, pauseAction, unsent>>
      /\ OrderStatus' = OrderStatus
  BY DEF NavResultCallback, OrderStatus
<1>4. CASE GoalSucceeded(g)
  <2>1. currentNode' = nextStop /\ fatal' = fatal
    BY <1>4 DEF GoalSucceeded
  <2>2. Execution!Arrive
    BY <1>2, <1>3, <2>1 DEF Execution!Arrive, Execution!commands
  <2>3. QED
    BY <2>2 DEF Execution!Next
<1>5. CASE GoalAborted(g)
  <2>1. currentNode' = 1 /\ fatal' = TRUE
    BY <1>5 DEF GoalAborted, AddError
  <2>2. Execution!Abort
    BY <1>2, <1>3, <2>1 DEF Execution!Abort, Execution!commands
  <2>3. QED
    BY <2>2 DEF Execution!Next
<1>6. CASE GoalCanceled(g) \/ GoalResultUnknown(g) \/ GoalResultOutOfRange(g, code)
  <2>1. currentNode' = currentNode
    BY <1>6 DEF GoalCanceled, GoalResultUnknown, GoalResultOutOfRange
  <2>2. fatal' \in {fatal, fatal \/ ~(cancelAction # NoAction \/ pauseAction # NoAction)}
    <3>1. CASE fatal' = fatal
      BY <3>1
    <3>2. CASE fatal' # fatal
      <4>1. cancelAction = NoAction /\ pauseAction = NoAction /\ fatal' = TRUE
        BY <1>6, <3>2 DEF GoalCanceled, GoalResultUnknown, GoalResultOutOfRange, AddError
      <4>2. (fatal \/ ~(cancelAction # NoAction \/ pauseAction # NoAction)) = TRUE
        BY <4>1
      <4>3. QED
        BY <4>1, <4>2
    <3>3. QED
      BY <3>1, <3>2
  <2>3. Execution!Halt
    BY <1>2, <1>3, <2>1, <2>2 DEF Execution!Halt, Execution!commands
  <2>4. QED
    BY <2>3 DEF Execution!Next
<1>7. QED
  BY <1>4, <1>5, <1>6 DEF NavResultCallback

\* Only an action that runs, or has failed while its job goes on, is ended.
LEMMA JobEndRefines ==
  ASSUME Undisturbed, ExecutionInv, NEW a \in ActionIds, NEW s \in Terminal, JobEnds(a, s)
  PROVE  Execution!Next \/ Unseen
<1>a. /\ TypeOK /\ ActionsInv /\ OneJob /\ NoneFailing
      /\ jobs \in [ActionIds -> Nat] /\ actionStates \in [ActionIds -> Statuses]
  BY DEF ExecutionInv, GoalInv, JobsInv, TypeOK
<1>1. /\ UNCHANGED <<clientState, order, currentNode, nextStop, fatal, cancelAction,
                     pauseAction, unsent, goals>>
      /\ actionStates' = Update(actionStates, a, s)
      /\ jobs[a] > 0 /\ actionStates[a] # "PAUSED"
  BY DEF JobEnds
<1>2. Target' = Target
  BY <1>1 DEF Target, Outstanding
<1>3. \A b \in ActionsOf(order) : b \in ActionIds
  BY <1>a, OrderActionsTyped DEF TypeOK, ActionIds
<1>4. CASE a \notin ActionsOf(order)
  <2>1. \A b \in ActionsOf(order) : actionStates'[b] = actionStates[b]
    BY <1>a, <1>1, <1>3, <1>4, UpdateCases
  <2>2. QED
    BY <1>1, <1>2, <2>1, SameStatus DEF Unseen
<1>5. CASE a \in ActionsOf(order)
  <2>1. order # NoOrder
    BY <1>5 DEF ActionsOf
  <2>2. actionStates[a] \notin {"NONE", "WAITING", "FINISHED", "PAUSED"}
    BY <1>a, <1>1, <1>5, <2>1 DEF ActionsInv, InOrder, OneJob
  <2>3. actionStates[a] \in {"RUNNING", "FAILED"}
    BY <1>a, <2>2 DEF Statuses
  <2>4. actionStates' = [actionStates EXCEPT ![a] = s]
    BY <1>1, <2>3 DEF Update
  <2>5. OrderStatus' = [OrderStatus EXCEPT ![a] = s]
    BY <1>a, <1>1, <1>3, <1>5, <2>4 DEF OrderStatus
  <2>6. OrderStatus[a] \in {"RUNNING", "FAILED"} /\ s \in Execution!Ended
    BY <1>5, <2>3 DEF OrderStatus, Execution!Ended, Terminal
  <2>7. Execution!End(a)
    BY <1>1, <1>2, <2>5, <2>6 DEF Execution!End, Execution!route, Execution!commands
  <2>8. QED
    BY <1>5, <2>7, SameOrders DEF Execution!Next
<1>6. QED
  BY <1>4, <1>5

\* A thread that throws ends the process, and nothing else.
LEMMA JobRefines ==
  ASSUME Undisturbed, ExecutionInv, NEW a \in ActionIds, JobStep(a)
  PROVE  Execution!Next \/ Unseen
<1>1. CASE JobThrows(a)
  BY <1>1, UnseenBy DEF JobThrows
<1>2. CASE ~JobThrows(a)
  <2>1. PICK s \in Terminal : JobEnds(a, s)
    BY <1>2 DEF JobStep, JobReportsFatal, JobFailsAfterFatal, NoneFailing, Undisturbed,
                ExecutionInv, JobsInv, GoalInv
  <2>2. QED
    BY <2>1, JobEndRefines
<1>3. QED
  BY <1>1, <1>2

LEMMA ExecutionStep ==
  ASSUME Undisturbed, ExecutionInv, [Next]_vars
  PROVE  [Execution!Next]_Execution!vars
<1>1. Unseen => UNCHANGED Execution!vars
  BY UnseenStutters
<1>2. CASE UNCHANGED vars
  BY <1>1, <1>2, UnseenBy DEF vars
<1>3. CASE OrderValidErrorCallback
  <2>1. fatal' = fatal
    BY <1>3 DEF OrderValidErrorCallback, AddError, ExecutionInv, GoalInv, TypeOK
  <2>2. QED
    BY <1>1, <1>3, <2>1, UnseenBy DEF OrderValidErrorCallback
<1>4. CASE SecondInstantActionThrows
  <2>1. unsent' \in SUBSET unsent
    BY <1>4 DEF SecondInstantActionThrows
  <2>2. Execution!Disregard
    BY <1>4, <2>1 DEF SecondInstantActionThrows, Execution!Disregard, Execution!route,
                      Target, Outstanding, OrderStatus
  <2>3. QED
    BY <2>2 DEF Execution!Next
<1>5. QED
  BY <1>1, <1>2, <1>3, <1>4, OrderRefines, InstantRefines, CancelRefines,
     TimerPauseRefines, ExecuteRefines, LoopRefines, LeaveRefines, ResponseRefines,
     FeedbackRefines, ResultRefines, JobRefines DEF Next, Timer, NavResult

\* The client executes its orders as OrderExecution promises, when nobody
\* interferes and every order is delivered to be executed once: what the
\* callbacks, the timer's rounds and the handlers' threads do step by step is
\* a step of the execution of the order, or leaves it alone.
THEOREM ExecutionCorrect ==
  ASSUME Undisturbed, ~Rerun PROVE Spec => ExecutesOrders
<1>1. Init => Execution!Init
  <2>1. ASSUME Init PROVE Target = 0 /\ Outstanding = {}
    BY <2>1 DEF Init, Target, Outstanding, FreeGoal
  <2>2. ActionsOf(NoOrder) = {} /\ Execution!ActionsOf(NoOrder) = {}
    BY SameOrders DEF ActionsOf
  <2>3. ASSUME Init
        PROVE  OrderStatus = [a \in Execution!ActionsOf(NoOrder) |-> "NONE"]
    BY <2>2, <2>3 DEF Init, OrderStatus
  <2>4. QED
    BY <2>1, <2>3 DEF Init, Execution!Init
<1>2. ExecutionInv /\ [Next]_vars => [Execution!Next]_Execution!vars
  BY ExecutionStep
<1>3. Spec => []ExecutionInv
  BY GoalInvCorrect, CommandsCorrect, ActionsInvCorrect, FlowCorrect, BehindPassedCorrect,
     ReportedCorrect, JobsInvCorrect, PTL DEF ExecutionInv
<1>4. QED
  BY <1>1, <1>2, <1>3, PTL DEF Spec, ExecutesOrders, Execution!Spec
=============================================================================
