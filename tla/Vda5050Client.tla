--------------------------- MODULE Vda5050Client ---------------------------
(***************************************************************************)
(* Vda5050ClientNode: the node that executes the VDA5050 orders of master  *)
(* control on a robot.  It drives the robot with goals for Nav2's          *)
(* NavigateThroughPoses action and runs the actions of each node with      *)
(* action handlers.                                                        *)
(*                                                                         *)
(* All the callbacks run on one SingleThreadedExecutor: a callback starts  *)
(* when pc = "spin".  ExecuteOrderCallback, the 0.2 s timer, is split at   *)
(* the points where it releases state_mutex_, because the threads of the   *)
(* action handlers update action_states in between.  Nav2 and the handlers *)
(* are the environment.                                                    *)
(***************************************************************************)
EXTENDS Vda5050Orders, FiniteSets

CONSTANTS
  GoalSlots,     \* goals that can be outstanding at once; bounds the model
  NoGoal,        \* nav_goal_handle_ == nullptr
  MaxDeliveries, \* how often an order is delivered; bounds the model
  Rerun,         \* TRUE: an order may be delivered again after it was executed
  PromptAck,     \* TRUE: Nav2 answers a goal before any other callback runs
  FeedbackMin,   \* the least number_of_poses_remaining Nav2 reports
  Outcomes,      \* how a goal nobody cancels may end
  MayReject,     \* TRUE: Nav2 may reject a goal
  MayFail,       \* the outside conditions that may fail, see Conditions
  FatalJobs,     \* the example actions that report a FATAL error
  Batches        \* TRUE: a message may carry two new instant actions

\* "status_check": the status check fails; "status_answer": its service dies
\* with the request; "parameters": the parameters of an action are malformed.
Conditions == {"tf", "status_check", "status_answer", "nav_server", "order_json", "parameters"}

ResultCodes == {"SUCCEEDED", "ABORTED", "CANCELED", "UNKNOWN"}

ASSUME ClientAssumption ==
  /\ NoGoal \notin GoalSlots
  /\ MaxDeliveries \in Nat
  /\ Rerun \in BOOLEAN
  /\ PromptAck \in BOOLEAN
  /\ FeedbackMin \in {0, 1}
  /\ Outcomes \subseteq ResultCodes
  /\ MayReject \in BOOLEAN
  /\ MayFail \subseteq Conditions
  /\ FatalJobs \subseteq ActionIds
  /\ \A a \in FatalJobs : ActionType[a] = "example"
  /\ Batches \in BOOLEAN

VARIABLES
  pc,           \* where the executor is: in no callback, or in the timer's
  idx,          \* action_idx in the loop over the actions of the node
  stopDriving,  \* stop_driving in that loop
  hasRunning,   \* has_running_action in that loop
  fault,        \* "none", or why the process has ended, or hangs for ever
  clientState,  \* client_state_
  order,        \* current_order_
  currentNode,  \* current_node_
  nextStop,     \* next_stop_
  reached,      \* reached_waypoint_
  actionStates, \* agv_state_->action_states; "NONE" when the id has no entry
  firstError,   \* the level of agv_state_->errors[0], or "NONE"
  fatal,        \* whether agv_state_->errors has a FATAL error
  driving,      \* agv_state_->driving
  lastNode,     \* agv_state_->last_node_id
  nodesLeft,    \* agv_state_->node_states.size()
  cancelAction, \* cancel_action_
  canceledIds,  \* canceled_action_ids_
  pauseAction,  \* pause_action_
  pausedIds,    \* paused_action_ids
  pauseOrder,   \* pause_order_
  pauseOrderActionId, \* pause_order_action_id_
  navHandle,    \* nav_goal_handle_
  goals,        \* the goals sent to Nav2 and not answered with a result
  jobs,         \* jobs[a]: threads or requests of handlers at work on a
  failing,      \* failing[a]: those that have just reported a FATAL error
  deliveries,   \* deliveries[o]: how often order o has been delivered
  unsent        \* the instant actions that have not been delivered

control  == <<pc, idx, stopDriving, hasRunning>>
progress == <<order, currentNode, nextStop, reached>>
errors   == <<firstError, fatal>>
position == <<driving, lastNode, nodesLeft>>
canceling == <<cancelAction, canceledIds>>
pausing  == <<pauseAction, pausedIds>>
teleop   == <<pauseOrder, pauseOrderActionId>>
nav      == <<navHandle, goals>>
threads  == <<jobs, failing>>
inputs   == <<deliveries, unsent>>
agvState == <<actionStates, errors, position>>
commands == <<canceling, pausing, teleop>>

vars == <<control, fault, clientState, progress, agvState, commands, nav, threads, inputs>>

-----------------------------------------------------------------------------
(***************************************************************************)
(* Helpers.                                                                *)
(***************************************************************************)
Statuses == {"NONE", "WAITING", "RUNNING", "PAUSED", "FINISHED", "FAILED"}

Terminal == {"FINISHED", "FAILED"}

GoalPhases == {"free", "sent", "active", "canceling"}

FreeGoal == [phase |-> "free", order |-> NoOrder, stop |-> 0, left |-> 0]

Outstanding == {g \in GoalSlots : goals[g].phase # "free"}

Moving == {g \in GoalSlots : goals[g].phase \in {"active", "canceling"}}

\* UpdateActionStateById: an id without an entry is only logged.
Update(states, a, s) ==
  IF states[a] = "NONE" THEN states ELSE [states EXCEPT ![a] = s]

OrderActionsIn(status) == {a \in ActionsOf(order) : actionStates[a] = status}

\* INITIALIZING is never assigned by this code base.
NoneRunning == OrderActionsIn("RUNNING") = {}

\* AddError, and the push_back on errors of the other callbacks.
AddError(level) ==
  /\ firstError' = IF firstError = "NONE" THEN level ELSE firstError
  /\ fatal' = (fatal \/ level = "FATAL")

\* async_cancel_goal(nav_goal_handle_), when there is a handle.
CancelNavGoal ==
  IF navHandle = NoGoal THEN goals
  ELSE [goals EXCEPT ![navHandle].phase = "canceling"]

Atomic == UNCHANGED control

Fault(why) == fault' = why

\* The executor is free to start a callback.
Spinning ==
  /\ fault = "none"
  /\ pc = "spin"
  /\ PromptAck => \A g \in GoalSlots : goals[g].phase # "sent"

Init ==
  /\ pc = "spin" /\ idx = 1 /\ stopDriving = FALSE /\ hasRunning = FALSE
  /\ fault = "none"
  /\ clientState = "IDLE"
  /\ order = NoOrder /\ currentNode = 0 /\ nextStop = 0 /\ reached = FALSE
  /\ actionStates = [a \in ActionIds |-> "NONE"]
  /\ firstError = "NONE" /\ fatal = FALSE
  /\ driving = FALSE /\ lastNode = 0 /\ nodesLeft = 0
  /\ cancelAction = NoAction /\ canceledIds = {}
  /\ pauseAction = NoAction /\ pausedIds = {}
  /\ pauseOrder = FALSE /\ pauseOrderActionId = NoAction
  /\ navHandle = NoGoal /\ goals = [g \in GoalSlots |-> FreeGoal]
  /\ jobs = [a \in ActionIds |-> 0] /\ failing = [a \in ActionIds |-> 0]
  /\ deliveries = [o \in Orders |-> 0] /\ unsent = InstantIds

-----------------------------------------------------------------------------
(***************************************************************************)
(* OrderCallback.                                                          *)
(***************************************************************************)
\* Mutant of CanAcceptOrder: a client that runs no action takes a new order,
\* though it is on its way.
CanAcceptOrderOnTheWay == clientState = "IDLE" \/ (clientState = "RUNNING" /\ NoneRunning)

\* CanAcceptOrder, for a client that has had an order.
CanAcceptOrder ==
  \/ clientState = "IDLE"
  \/ /\ clientState = "RUNNING"
     /\ NoneRunning
     /\ \/ firstError = "FATAL"
        \/ currentNode = LastNode(order) /\ OrderActionsIn("WAITING") = {}

\* InitAGVState: the entries of the last order and the completed instant
\* actions are erased, those of the new order are inserted in front.
InitActionStates(o) ==
  [a \in ActionIds |->
     IF a \in ActionsOf(o) THEN "WAITING"
     ELSE IF a \in ActionsOf(order) \/ actionStates[a] \in Terminal THEN "NONE"
     ELSE actionStates[a]]

Deliver(o) ==
  /\ Spinning
  /\ deliveries[o] < MaxDeliveries
  /\ deliveries' = [deliveries EXCEPT ![o] = @ + 1]
  /\ UNCHANGED unsent

AcceptOrder(o) ==
  /\ Deliver(o)
  /\ Rerun \/ deliveries[o] = 0
  /\ CanAcceptOrder
  /\ NodeCount[o] > 0
  /\ order' = o
  /\ currentNode' = 0 /\ nextStop' = 0 /\ reached' = TRUE
  /\ actionStates' = InitActionStates(o)
  /\ firstError' = "NONE" /\ fatal' = FALSE
  /\ driving' = FALSE /\ lastNode' = 0 /\ nodesLeft' = NodeCount[o] - 1
  /\ clientState' = "RUNNING"
  /\ UNCHANGED <<fault, commands, nav, threads>> /\ Atomic

\* An order without nodes is dropped, but CanAcceptOrder may already have
\* given up an order with a fatal error.
DropEmptyOrder(o) ==
  /\ Deliver(o)
  /\ CanAcceptOrder
  /\ NodeCount[o] = 0
  /\ clientState' = IF firstError = "FATAL" THEN "IDLE" ELSE clientState
  /\ UNCHANGED <<fault, progress, agvState, commands, nav, threads>> /\ Atomic

\* A retransmission of the current order is ignored silently.
IgnoreOrder(o) ==
  /\ Deliver(o)
  /\ ~CanAcceptOrder
  /\ IF o = order THEN UNCHANGED errors ELSE AddError("WARNING")
  /\ UNCHANGED <<fault, clientState, progress, actionStates, position, commands, nav,
                 threads>> /\ Atomic

\* Teleoperation can leave the client RUNNING or PAUSED without an order:
\* current_order_ is dereferenced all the same.
OrderCallbackNoOrder ==
  /\ \E o \in Orders : Deliver(o)
  /\ clientState # "IDLE" /\ order = NoOrder
  /\ Fault("null order")
  /\ UNCHANGED <<clientState, progress, agvState, commands, nav, threads>> /\ Atomic

OrderCallback ==
  \/ OrderCallbackNoOrder
  \/ /\ clientState = "IDLE" \/ order # NoOrder
     /\ \E o \in Orders : AcceptOrder(o) \/ DropEmptyOrder(o) \/ IgnoreOrder(o)

\* OrderValidErrorCallback: the bridge reports an order it cannot parse.
OrderValidErrorCallback ==
  /\ Spinning
  /\ "order_json" \in MayFail
  /\ AddError("WARNING")
  /\ UNCHANGED <<fault, clientState, progress, actionStates, position, commands, nav,
                 threads, inputs>> /\ Atomic

-----------------------------------------------------------------------------
(***************************************************************************)
(* CancelOrder, the first part of the timer callback.                      *)
(***************************************************************************)
\* GetAction(action_id) searches the actions of the current node only.
GetActionFinds(a) == a \in ActionsAt(order, currentNode)

\* The running actions whose handler has not been asked to cancel yet.
ToCancel == OrderActionsIn("RUNNING") \ canceledIds

\* There is nothing to cancel: cancel_action_ is reset, then dereferenced.
CancelOrderIdle ==
  /\ clientState = "IDLE"
  /\ Fault("null cancel action")
  /\ UNCHANGED <<clientState, actionStates, canceling, goals>>

\* GetAction throws, out of the timer callback and of spin().
CancelOrderThrows ==
  /\ clientState # "IDLE"
  /\ \E a \in ToCancel : ~GetActionFinds(a)
  /\ Fault("action not found")
  /\ UNCHANGED <<clientState, actionStates, canceling, goals>>

\* The states of all the actions after one round of CancelOrder.
CanceledStates ==
  [a \in ActionIds |->
     IF a = cancelAction /\ actionStates[a] = "WAITING" THEN "RUNNING"
     ELSE IF a \in OrderActionsIn("WAITING") THEN "FAILED"
     ELSE IF a \in ToCancel /\ ActionType[a] = "example" THEN "FAILED"
     ELSE actionStates[a]]

\* Mutant of CancelOrderRound: the end of the goal is not waited for.
CancelOrderAtOnce ==
  /\ clientState # "IDLE"
  /\ \A a \in ToCancel : GetActionFinds(a)
  /\ goals' = IF actionStates[cancelAction] = "WAITING" THEN CancelNavGoal ELSE goals
  /\ actionStates' = Update(CanceledStates, cancelAction, "FINISHED")
  /\ cancelAction' = NoAction
  /\ canceledIds' = {}
  /\ clientState' = "IDLE"
  /\ UNCHANGED fault

CancelOrderRound ==
  /\ clientState # "IDLE"
  /\ \A a \in ToCancel : GetActionFinds(a)
  /\ goals' = IF actionStates[cancelAction] = "WAITING" THEN CancelNavGoal ELSE goals
  /\ IF NoneRunning /\ navHandle = NoGoal
     THEN /\ actionStates' = Update(CanceledStates, cancelAction, "FINISHED")
          /\ cancelAction' = NoAction
          /\ canceledIds' = {}
          /\ clientState' = "IDLE"
     ELSE /\ actionStates' = CanceledStates
          /\ canceledIds' = canceledIds \cup OrderActionsIn("RUNNING")
          /\ UNCHANGED <<cancelAction, clientState>>
  /\ UNCHANGED fault

CancelOrder ==
  /\ Spinning
  /\ cancelAction # NoAction
  /\ CancelOrderIdle \/ CancelOrderThrows \/ CancelOrderRound
  /\ pc' = "pause"
  /\ UNCHANGED <<idx, stopDriving, hasRunning, progress, errors, position, pausing,
                 teleop, navHandle, threads, inputs>>

-----------------------------------------------------------------------------
(***************************************************************************)
(* PauseOrder, for pause action p and the action states it starts from: it *)
(* is called by the timer callback and by the startPause instant action.   *)
(***************************************************************************)
\* The running actions whose handler has not been asked to pause yet.
ToPause == OrderActionsIn("RUNNING") \ pausedIds

PauseOrderRefused(p, states) ==
  /\ clientState # "RUNNING"
  /\ actionStates' =
       Update(states, p, IF clientState = "IDLE" THEN "FAILED" ELSE "FINISHED")
  /\ pauseAction' = NoAction
  /\ UNCHANGED <<fault, clientState, pausedIds, goals>>

\* GetAction throws, or action_handler_map_[type] inserts a null handler.
PauseOrderFaults(p, states) ==
  /\ clientState = "RUNNING"
  /\ \E a \in ToPause : ~GetActionFinds(a) \/ ActionType[a] \notin HandledTypes
  /\ \/ /\ \E a \in ToPause : ~GetActionFinds(a)
        /\ Fault("action not found")
     \/ /\ \E a \in ToPause : GetActionFinds(a) /\ ActionType[a] \notin HandledTypes
        /\ Fault("null handler")
  /\ UNCHANGED <<clientState, actionStates, pausing, goals>>

PausedStates(p, states) ==
  [a \in ActionIds |->
     IF a = p /\ states[a] = "WAITING" THEN "RUNNING"
     ELSE IF a \in ToPause /\ ActionType[a] = "pausable" THEN "PAUSED"
     ELSE states[a]]

\* Mutants of PauseOrderRound: the end of the goal is not waited for, or the
\* timer callback does not go on with a pause that takes several rounds.
PauseOrderAtOnce(p, states) ==
  /\ clientState = "RUNNING"
  /\ \A a \in ToPause : GetActionFinds(a) /\ ActionType[a] \in HandledTypes
  /\ goals' = IF states[p] = "WAITING" THEN CancelNavGoal ELSE goals
  /\ actionStates' = Update(PausedStates(p, states), p, "FINISHED")
  /\ pauseAction' = NoAction
  /\ pausedIds' = {}
  /\ clientState' = "PAUSED"
  /\ UNCHANGED fault

PauseOrderOnce(p, states) ==
  /\ clientState = "RUNNING"
  /\ \A a \in ToPause : GetActionFinds(a) /\ ActionType[a] \in HandledTypes
  /\ goals' = IF states[p] = "WAITING" THEN CancelNavGoal ELSE goals
  /\ IF NoneRunning /\ navHandle = NoGoal
     THEN /\ actionStates' = Update(PausedStates(p, states), p, "FINISHED")
          /\ clientState' = "PAUSED"
     ELSE /\ actionStates' = PausedStates(p, states)
          /\ UNCHANGED clientState
  /\ pauseAction' = NoAction
  /\ pausedIds' = {}
  /\ UNCHANGED fault

PauseOrderRound(p, states) ==
  /\ clientState = "RUNNING"
  /\ \A a \in ToPause : GetActionFinds(a) /\ ActionType[a] \in HandledTypes
  /\ goals' = IF states[p] = "WAITING" THEN CancelNavGoal ELSE goals
  /\ IF NoneRunning /\ navHandle = NoGoal
     THEN /\ actionStates' = Update(PausedStates(p, states), p, "FINISHED")
          /\ pauseAction' = NoAction
          /\ pausedIds' = {}
          /\ clientState' = "PAUSED"
     ELSE /\ actionStates' = PausedStates(p, states)
          /\ pauseAction' = p
          /\ pausedIds' = pausedIds \cup OrderActionsIn("RUNNING")
          /\ UNCHANGED clientState
  /\ UNCHANGED fault

PauseOrder(p, states) ==
  \/ PauseOrderRefused(p, states)
  \/ PauseOrderFaults(p, states)
  \/ PauseOrderRound(p, states)

\* The timer callback is past CancelOrder.
AtPause == pc = "pause" \/ (Spinning /\ cancelAction = NoAction)

TimerPauseOrder ==
  /\ fault = "none"
  /\ AtPause
  /\ pauseAction # NoAction
  /\ PauseOrder(pauseAction, actionStates)
  /\ pc' = "execute"
  /\ UNCHANGED <<idx, stopDriving, hasRunning, progress, errors, position, canceling,
                 teleop, navHandle, threads, inputs>>

-----------------------------------------------------------------------------
(***************************************************************************)
(* The rest of ExecuteOrderCallback.                                       *)
(***************************************************************************)
\* The timer callback is past CancelOrder and PauseOrder.
AtExecute ==
  /\ fault = "none"
  /\ pc = "execute" \/ (AtPause /\ pauseAction = NoAction)

\* The callback returns: its local variables are gone.
EndTimer == pc' = "spin" /\ idx' = 1 /\ stopDriving' = FALSE /\ hasRunning' = FALSE

\* The transform of the robot's pose is not known (yet).
TfLookupFails ==
  /\ AtExecute
  /\ "tf" \in MayFail
  /\ EndTimer
  /\ UNCHANGED <<fault, clientState, progress, agvState, commands, nav, threads, inputs>>

NothingToExecute ==
  /\ AtExecute
  /\ clientState # "RUNNING" \/ (firstError # "FATAL" /\ ~reached)
  /\ EndTimer
  /\ UNCHANGED <<fault, clientState, progress, agvState, commands, nav, threads, inputs>>

\* The first error is fatal: the order is over once no action is running.
StopOnFatalError ==
  /\ AtExecute
  /\ clientState = "RUNNING" /\ firstError = "FATAL" /\ order # NoOrder
  /\ clientState' = IF NoneRunning THEN "IDLE" ELSE clientState
  /\ EndTimer
  /\ UNCHANGED <<fault, progress, agvState, commands, nav, threads, inputs>>

EnterNode ==
  /\ AtExecute
  /\ clientState = "RUNNING" /\ firstError # "FATAL" /\ reached /\ order # NoOrder
  /\ pc' = "loop" /\ idx' = 1 /\ stopDriving' = FALSE /\ hasRunning' = FALSE
  /\ UNCHANGED <<fault, clientState, progress, agvState, commands, nav, threads, inputs>>

ExecuteWithoutOrder ==
  /\ AtExecute
  /\ clientState = "RUNNING" /\ order = NoOrder
  /\ firstError = "FATAL" \/ reached
  /\ Fault("null order")
  /\ EndTimer
  /\ UNCHANGED <<clientState, progress, agvState, commands, nav, threads, inputs>>

ExecuteOrderCallback ==
  \/ TfLookupFails
  \/ NothingToExecute
  \/ StopOnFatalError
  \/ EnterNode
  \/ ExecuteWithoutOrder

-----------------------------------------------------------------------------
(***************************************************************************)
(* The loop over the actions of the current node.  Each pass reads the     *)
(* state of one action under state_mutex_ and acts on it afterwards.       *)
(***************************************************************************)
NodeAction == NodeActions[order][currentNode][idx]

InLoop ==
  /\ fault = "none"
  /\ pc = "loop"

AtAction == InLoop /\ idx \in DOMAIN NodeActions[order][currentNode]

\* Mutant of NextAction: the index is incremented twice.
SkipNextAction == pc' = "loop" /\ idx' = idx + 2

NextAction == pc' = "loop" /\ idx' = idx + 1

\* ExecuteAction(a): the handler starts a job, or the order is paused until
\* stopTeleop, or there is no handler.
ExecuteAction(a) ==
  /\ actionStates' =
       [actionStates EXCEPT
          ![a] = IF ActionType[a] = "unknown" THEN "FAILED" ELSE "RUNNING"]
  /\ jobs' = IF ActionType[a] \in HandledTypes
             THEN [jobs EXCEPT ![a] = @ + 1] ELSE jobs
  /\ IF ActionType[a] = "pause_order"
     THEN pauseOrder' = TRUE /\ pauseOrderActionId' = a
     ELSE UNCHANGED teleop

\* A finished, failed or paused action.
SkipAction ==
  /\ AtAction
  /\ actionStates[NodeAction] \notin {"WAITING", "RUNNING"}
  /\ NextAction
  /\ UNCHANGED <<stopDriving, hasRunning, actionStates, jobs, teleop>>

WaitForHardAction ==
  /\ AtAction
  /\ actionStates[NodeAction] = "RUNNING"
  /\ BlockingType[NodeAction] = "HARD"
  /\ EndTimer
  /\ UNCHANGED <<actionStates, jobs, teleop>>

\* Mutant of PassRunningAction: a running SOFT action does not stop the robot.
PassRunningActionDriving ==
  /\ AtAction
  /\ actionStates[NodeAction] = "RUNNING"
  /\ BlockingType[NodeAction] # "HARD"
  /\ NextAction
  /\ hasRunning' = TRUE
  /\ UNCHANGED <<stopDriving, actionStates, jobs, teleop>>

PassRunningAction ==
  /\ AtAction
  /\ actionStates[NodeAction] = "RUNNING"
  /\ BlockingType[NodeAction] # "HARD"
  /\ NextAction
  /\ hasRunning' = TRUE
  /\ stopDriving' = (stopDriving \/ BlockingType[NodeAction] = "SOFT")
  /\ UNCHANGED <<actionStates, jobs, teleop>>

\* Mutant of StartHardAction: it does not wait for the running actions.
StartHardActionAtOnce ==
  /\ AtAction
  /\ actionStates[NodeAction] = "WAITING"
  /\ BlockingType[NodeAction] = "HARD"
  /\ ExecuteAction(NodeAction)
  /\ EndTimer

\* A HARD action starts only when no action before it is running.
StartHardAction ==
  /\ AtAction
  /\ actionStates[NodeAction] = "WAITING"
  /\ BlockingType[NodeAction] = "HARD"
  /\ IF hasRunning THEN UNCHANGED <<actionStates, jobs, teleop>>
                   ELSE ExecuteAction(NodeAction)
  /\ EndTimer

StartParallelAction ==
  /\ AtAction
  /\ actionStates[NodeAction] = "WAITING"
  /\ BlockingType[NodeAction] # "HARD"
  /\ NextAction
  /\ ExecuteAction(NodeAction)
  /\ hasRunning' = TRUE
  /\ stopDriving' = (stopDriving \/ BlockingType[NodeAction] = "SOFT")

LoopOverActions ==
  /\ \/ SkipAction
     \/ WaitForHardAction
     \/ PassRunningAction
     \/ StartHardAction
     \/ StartParallelAction
  /\ UNCHANGED <<fault, clientState, progress, errors, position, canceling, pausing, nav,
                 failing, inputs>>

-----------------------------------------------------------------------------
(***************************************************************************)
(* The end of the loop: the next node, with NavigateThroughPoses.          *)
(***************************************************************************)
LoopDone == InLoop /\ idx \notin DOMAIN NodeActions[order][currentNode]

StayAtNode ==
  /\ LoopDone
  /\ stopDriving
  /\ UNCHANGED <<clientState, progress, driving, goals>>

\* Mutant of CompleteOrder: the order ends one node too early.
CompleteOrderEarly ==
  /\ LoopDone
  /\ ~stopDriving
  /\ nextStop + 2 >= NodeCount[order]
  /\ clientState' = "IDLE"
  /\ nextStop' = nextStop + 1
  /\ UNCHANGED <<order, currentNode, reached, driving, goals>>

CompleteOrder ==
  /\ LoopDone
  /\ ~stopDriving
  /\ nextStop + 1 >= NodeCount[order]
  /\ clientState' = "IDLE"
  /\ nextStop' = nextStop + 1
  /\ UNCHANGED <<order, currentNode, reached, driving, goals>>

GoToNextNode == LoopDone /\ ~stopDriving /\ nextStop + 1 < NodeCount[order]

\* The status check service is asked before the first goal of an order.
StatusCheckFails ==
  /\ GoToNextNode
  /\ "status_check" \in MayFail
  /\ currentNode = 0
  /\ nextStop' = currentNode
  /\ reached' = TRUE
  /\ UNCHANGED <<clientState, order, currentNode, driving, goals>>

\* The service dies with the request: spin_until_future_complete has no
\* timeout, and the callback, and with it the executor, waits for ever.
StatusCheckHangs ==
  /\ GoToNextNode
  /\ "status_answer" \in MayFail
  /\ currentNode = 0
  /\ nextStop' = nextStop + 1
  /\ reached' = FALSE
  /\ Fault("no status answer")
  /\ UNCHANGED <<clientState, order, currentNode, driving, goals>>

\* Nav2's action server does not show up within 3 s.  Nothing sends the goal
\* later: next_stop_ is not set back.
NavServerNotAvailable ==
  /\ GoToNextNode
  /\ "nav_server" \in MayFail
  /\ nextStop' = nextStop + 1
  /\ reached' = FALSE
  /\ UNCHANGED <<clientState, order, currentNode, driving, goals>>

\* The goal has the poses of the nodes after the current one, up to stop.
SendGoal(g, stop, poses) ==
  /\ goals[g].phase = "free"
  /\ goals' = [goals EXCEPT ![g] = [phase |-> "sent", order |-> order,
                                    stop |-> stop, left |-> poses]]
  /\ nextStop' = stop
  /\ reached' = FALSE
  /\ driving' = TRUE
  /\ UNCHANGED <<clientState, order, currentNode>>

\* A current node moved by a stale goal may have no node after it: the goal
\* is then empty and next_stop_ keeps its increment.
NavigateThroughPoses ==
  /\ GoToNextNode
  /\ \E g \in GoalSlots :
       \/ \E s \in Nodes(order) : /\ IsNextStop(order, currentNode, s)
                                  /\ SendGoal(g, s, s - currentNode)
       \/ /\ currentNode = LastNode(order)
          /\ SendGoal(g, nextStop + 1, 0)

LeaveNode ==
  /\ \/ /\ \/ StayAtNode
           \/ CompleteOrder
           \/ StatusCheckFails
           \/ NavServerNotAvailable
           \/ NavigateThroughPoses
        /\ UNCHANGED fault
     \/ StatusCheckHangs
  /\ EndTimer
  /\ UNCHANGED <<actionStates, errors, lastNode, nodesLeft, commands, navHandle,
                 threads, inputs>>

-----------------------------------------------------------------------------
(***************************************************************************)
(* InstantActionsCallback, for a message with the new action a.            *)
(***************************************************************************)
Receive(a) ==
  /\ Spinning
  /\ a \in unsent
  /\ unsent' = unsent \ {a}
  /\ UNCHANGED deliveries

\* The entry of the new action, and the state its handling leaves it in.
Entry(a, status) == [actionStates EXCEPT ![a] = status]

\* A second cancelOrder fails, and yet replaces the first one.
CancelOrderReceived(a) ==
  /\ ActionType[a] = "cancelOrder"
  /\ actionStates' = Entry(a, IF cancelAction = NoAction THEN "WAITING" ELSE "FAILED")
  /\ cancelAction' = a
  /\ UNCHANGED <<fault, clientState, nextStop, reached, canceledIds, pausing, teleop,
                 goals, jobs>>

StartTeleop(a) ==
  /\ ActionType[a] = "startTeleop"
  /\ actionStates' = Entry(a, "FINISHED")
  /\ pauseOrder' = TRUE
  /\ clientState' = "PAUSED"
  /\ goals' = CancelNavGoal
  /\ UNCHANGED <<fault, nextStop, reached, canceling, pausing, pauseOrderActionId, jobs>>

StopTeleop(a) ==
  /\ ActionType[a] = "stopTeleop"
  /\ actionStates' =
       IF pauseOrderActionId = NoAction THEN Entry(a, "FINISHED")
       ELSE Update(Entry(a, "FINISHED"), pauseOrderActionId, "FINISHED")
  /\ pauseOrder' = FALSE
  /\ pauseOrderActionId' = NoAction
  /\ clientState' = "RUNNING"
  /\ nextStop' = currentNode
  /\ reached' = TRUE
  /\ UNCHANGED <<fault, canceling, pausing, goals, jobs>>

FactsheetRequest(a) ==
  /\ ActionType[a] = "factsheetRequest"
  /\ actionStates' = Entry(a, "FINISHED")
  /\ UNCHANGED <<fault, clientState, nextStop, reached, commands, goals, jobs>>

StartPause(a) ==
  /\ ActionType[a] = "startPause"
  /\ PauseOrder(a, Entry(a, "WAITING"))
  /\ UNCHANGED <<nextStop, reached, canceling, teleop, jobs>>

\* Mutant of StopPause: next_stop_ is not set back to the current node.
StopPauseAtNextStop(a) ==
  LET paused == OrderActionsIn("PAUSED") IN
  /\ ActionType[a] = "stopPause"
  /\ clientState = "PAUSED"
  /\ actionStates' = [x \in ActionIds |->
       IF x = a THEN "FINISHED"
       ELSE IF x \in paused THEN "RUNNING" ELSE actionStates[x]]
  /\ reached' = TRUE
  /\ clientState' = "RUNNING"
  /\ UNCHANGED <<fault, nextStop, commands, goals, jobs>>

\* ResumeOrder.  GetAction throws for a paused action of another node.
StopPause(a) ==
  LET paused == OrderActionsIn("PAUSED") IN
  /\ ActionType[a] = "stopPause"
  /\ \/ /\ clientState # "PAUSED"
        /\ actionStates' = Entry(a, "FAILED")
        /\ UNCHANGED <<fault, clientState, nextStop, reached>>
     \/ /\ clientState = "PAUSED"
        /\ \E p \in paused : ~GetActionFinds(p)
        /\ Fault("action not found")
        /\ UNCHANGED <<actionStates, clientState, nextStop, reached>>
     \/ /\ clientState = "PAUSED"
        /\ \A p \in paused : GetActionFinds(p)
        /\ actionStates' = [x \in ActionIds |->
             IF x = a THEN "FINISHED"
             ELSE IF x \in paused THEN "RUNNING" ELSE actionStates[x]]
        /\ nextStop' = currentNode
        /\ reached' = TRUE
        /\ clientState' = "RUNNING"
        /\ UNCHANGED fault
  /\ UNCHANGED <<commands, goals, jobs>>

HandlerAction(a) ==
  /\ ActionType[a] \in HandledTypes
  /\ actionStates' = Entry(a, "RUNNING")
  /\ jobs' = [jobs EXCEPT ![a] = @ + 1]
  /\ UNCHANGED <<fault, clientState, nextStop, reached, commands, goals>>

\* The entry of a type without a handler is left WAITING for ever.
UnknownInstantAction(a) ==
  /\ ActionType[a] = "unknown"
  /\ actionStates' = Entry(a, "WAITING")
  /\ UNCHANGED <<fault, clientState, nextStop, reached, commands, goals, jobs>>

InstantActionsCallback(a) ==
  /\ Receive(a)
  /\ \/ CancelOrderReceived(a)
     \/ StartTeleop(a)
     \/ StopTeleop(a)
     \/ FactsheetRequest(a)
     \/ StartPause(a)
     \/ StopPause(a)
     \/ HandlerAction(a)
     \/ UnknownInstantAction(a)
  /\ UNCHANGED <<order, currentNode, errors, position, navHandle, failing>> /\ Atomic

\* The loop unlocks state_mutex_ for the first new action and never locks it
\* again: for a second one unlock() throws, out of the callback and of spin().
\* The memory of the process ends with it.
SecondInstantActionThrows ==
  /\ Spinning
  /\ Batches
  /\ \E a, b \in unsent : a # b /\ unsent' = unsent \ {a, b}
  /\ Fault("unlock")
  /\ UNCHANGED <<clientState, progress, agvState, commands, nav, threads, deliveries>> /\ Atomic

-----------------------------------------------------------------------------
(***************************************************************************)
(* The callbacks of the navigation goals.  rclcpp drops the feedback of a  *)
(* goal that is not accepted yet or whose result has arrived.              *)
(***************************************************************************)
GoalAccepted(g) ==
  /\ goals[g].phase = "sent"
  /\ goals' = [goals EXCEPT ![g].phase = "active"]
  /\ navHandle' = g
  /\ driving' = TRUE
  /\ UNCHANGED <<clientState, errors>>

GoalRejected(g) ==
  /\ goals[g].phase = "sent"
  /\ MayReject
  /\ goals' = [goals EXCEPT ![g] = FreeGoal]
  /\ navHandle' = NoGoal
  /\ driving' = FALSE
  /\ AddError("FATAL")
  /\ clientState' = "IDLE"

NavGoalResponseCallback(g) ==
  /\ fault = "none" /\ pc = "spin"
  /\ GoalAccepted(g) \/ GoalRejected(g)
  /\ UNCHANGED <<fault, progress, actionStates, lastNode, nodesLeft, commands, threads,
                 inputs>> /\ Atomic

\* Mutants of TrimNodeStates: one node too many stays, or one is always lost.
TrimNodeStatesLate(node) ==
  nodesLeft' = IF nodesLeft > LastNode(order) - node + 1
               THEN LastNode(order) - node + 1 ELSE nodesLeft

TrimNodeStatesOnce(node) == nodesLeft' = nodesLeft - 1

\* node_states loses the nodes up to the current one, and never gains any.
TrimNodeStates(node) ==
  nodesLeft' = IF nodesLeft > LastNode(order) - node
               THEN LastNode(order) - node ELSE nodesLeft

\* Nav2 reports r remaining poses.  next_stop_ and the nodes are those of the
\* current order, whichever order the goal was sent for.
NavFeedbackCallback(g, r) ==
  /\ Spinning
  /\ g \in Moving
  /\ r \in FeedbackMin .. goals[g].left
  /\ goals' = [goals EXCEPT ![g].left = r]
  /\ IF nextStop - r \in Nodes(order)
     THEN /\ currentNode' = nextStop - r
          /\ lastNode' = nextStop - r
          /\ driving' = TRUE
          /\ TrimNodeStates(nextStop - r)
          /\ UNCHANGED fault
     ELSE /\ Fault("node out of range")
          /\ UNCHANGED <<currentNode, position>>
  /\ UNCHANGED <<clientState, order, nextStop, reached, actionStates, errors, commands,
                 navHandle, threads, inputs>> /\ Atomic

\* Mutant of GoalEnded: the handle is kept.
GoalEndedKeepingHandle(g) ==
  /\ goals' = [goals EXCEPT ![g] = FreeGoal]
  /\ UNCHANGED navHandle

\* Whichever goal has ended, the handle is reset.
GoalEnded(g) ==
  /\ goals' = [goals EXCEPT ![g] = FreeGoal]
  /\ navHandle' = NoGoal

\* Mutants of GoalSucceeded: last_node_id, or reached_waypoint_, is forgotten.
GoalSucceededUnreported(g) ==
  /\ GoalEnded(g)
  /\ nextStop \in Nodes(order)
  /\ currentNode' = nextStop
  /\ reached' = TRUE
  /\ UNCHANGED <<lastNode, nodesLeft, errors, fault>>

GoalSucceededUnnoticed(g) ==
  /\ GoalEnded(g)
  /\ nextStop \in Nodes(order)
  /\ currentNode' = nextStop
  /\ lastNode' = nextStop
  /\ TrimNodeStates(nextStop)
  /\ UNCHANGED <<reached, errors, fault>>

GoalSucceeded(g) ==
  /\ GoalEnded(g)
  /\ nextStop \in Nodes(order)
  /\ currentNode' = nextStop
  /\ lastNode' = nextStop
  /\ TrimNodeStates(nextStop)
  /\ reached' = TRUE
  /\ UNCHANGED <<errors, fault>>

\* The current node becomes node 1, wherever the robot is.
GoalAborted(g) ==
  /\ GoalEnded(g)
  /\ 1 \in Nodes(order)
  /\ currentNode' = 1
  /\ AddError("FATAL")
  /\ UNCHANGED <<reached, lastNode, nodesLeft, fault>>

\* Nobody has paused or canceled the order: an error.
GoalCanceled(g) ==
  /\ GoalEnded(g)
  /\ IF ~pauseOrder /\ cancelAction = NoAction /\ pauseAction = NoAction
     THEN AddError("FATAL") ELSE UNCHANGED errors
  /\ UNCHANGED <<currentNode, reached, lastNode, nodesLeft, fault>>

GoalResultUnknown(g) ==
  /\ GoalEnded(g)
  /\ UNCHANGED <<currentNode, reached, lastNode, nodesLeft, errors, fault>>

\* The nodes of the current order are indexed past their end.
GoalResultOutOfRange(g, code) ==
  /\ \/ code = "SUCCEEDED" /\ nextStop \notin Nodes(order)
     \/ code = "ABORTED" /\ 1 \notin Nodes(order)
  /\ GoalEnded(g)
  /\ Fault("node out of range")
  /\ UNCHANGED <<currentNode, reached, lastNode, nodesLeft, errors>>

NavResultCallback(g, code) ==
  /\ Spinning
  /\ g \in Moving
  /\ code \in Outcomes \/ (code = "CANCELED" /\ goals[g].phase = "canceling")
  /\ \/ code = "SUCCEEDED" /\ GoalSucceeded(g)
     \/ code = "ABORTED" /\ GoalAborted(g)
     \/ code = "CANCELED" /\ GoalCanceled(g)
     \/ code = "UNKNOWN" /\ GoalResultUnknown(g)
     \/ GoalResultOutOfRange(g, code)
  /\ driving' = FALSE
  /\ UNCHANGED <<clientState, order, nextStop, actionStates, commands, threads, inputs>> /\ Atomic

-----------------------------------------------------------------------------
(***************************************************************************)
(* The action handlers' own threads, concurrent with the executor.         *)
(***************************************************************************)
\* The handler reports the end of a.  A paused action does not end.
JobEnds(a, status) ==
  /\ fault = "none"
  /\ jobs[a] > 0
  /\ actionStates[a] # "PAUSED"
  /\ jobs' = [jobs EXCEPT ![a] = @ - 1]
  /\ actionStates' = Update(actionStates, a, status)
  /\ UNCHANGED <<control, fault, clientState, progress, errors, position, commands, nav,
                 failing, inputs>>

\* Mutant of JobReportsFatal: the handler returns without failing the action.
JobReportsFatalOnly(a) ==
  /\ fault = "none"
  /\ jobs[a] > 0
  /\ a \in FatalJobs
  /\ jobs' = [jobs EXCEPT ![a] = @ - 1]
  /\ AddError("FATAL")
  /\ UNCHANGED <<control, fault, clientState, progress, actionStates, position, commands,
                 nav, failing, inputs>>

\* An example action fails: the error first, in a step of its own.
JobReportsFatal(a) ==
  /\ fault = "none"
  /\ jobs[a] > 0
  /\ a \in FatalJobs
  /\ jobs' = [jobs EXCEPT ![a] = @ - 1]
  /\ failing' = [failing EXCEPT ![a] = @ + 1]
  /\ AddError("FATAL")
  /\ UNCHANGED <<control, fault, clientState, progress, actionStates, position, commands,
                 nav, inputs>>

JobFailsAfterFatal(a) ==
  /\ fault = "none"
  /\ failing[a] > 0
  /\ failing' = [failing EXCEPT ![a] = @ - 1]
  /\ actionStates' = Update(actionStates, a, "FAILED")
  /\ UNCHANGED <<control, fault, clientState, progress, errors, position, commands, nav,
                 jobs, inputs>>

\* A period that is no number: std::stoi throws, out of the thread of the
\* handler, and std::terminate ends the process.
JobThrows(a) ==
  /\ fault = "none"
  /\ jobs[a] > 0
  /\ ActionType[a] = "example"
  /\ "parameters" \in MayFail
  /\ Fault("bad parameter")
  /\ UNCHANGED <<control, clientState, progress, agvState, commands, nav, threads, inputs>>

JobStep(a) ==
  \/ \E s \in Terminal : JobEnds(a, s)
  \/ JobReportsFatal(a)
  \/ JobFailsAfterFatal(a)
  \/ JobThrows(a)

-----------------------------------------------------------------------------
Timer == CancelOrder \/ TimerPauseOrder \/ ExecuteOrderCallback \/ LoopOverActions \/ LeaveNode

NavResult(g) == \E code \in ResultCodes : NavResultCallback(g, code)

Next ==
  \/ OrderCallback
  \/ OrderValidErrorCallback
  \/ \E a \in InstantIds : InstantActionsCallback(a)
  \/ SecondInstantActionThrows
  \/ Timer
  \/ \E g \in GoalSlots : NavGoalResponseCallback(g)
  \/ \E g \in GoalSlots : \E r \in 0 .. goals[g].left : NavFeedbackCallback(g, r)
  \/ \E g \in GoalSlots : NavResult(g)
  \/ \E a \in ActionIds : JobStep(a)

Spec == Init /\ [][Next]_vars

\* The executor serves every callback that stays pending, the timer fires for
\* ever, Nav2 answers every goal and every job of a handler ends.
Fairness ==
  /\ WF_vars(Timer)
  /\ \A g \in GoalSlots : SF_vars(NavGoalResponseCallback(g)) /\ SF_vars(NavResult(g))
  /\ \A a \in ActionIds : WF_vars(JobStep(a))

FairSpec == Spec /\ Fairness

-----------------------------------------------------------------------------
(***************************************************************************)
(* Type invariant.                                                         *)
(***************************************************************************)
Goal == [phase : GoalPhases, order : Orders \cup {NoOrder}, stop : Nat, left : Nat]

Faults == {"none", "null order", "null cancel action", "null handler",
           "action not found", "unlock", "node out of range", "no status answer",
           "bad parameter"}

\* Every variable has the type of the member it models; the index of the loop
\* and the current node stay within the order they index.
TypeOK ==
  /\ pc \in {"spin", "pause", "execute", "loop"}
  /\ idx \in Nat /\ stopDriving \in BOOLEAN /\ hasRunning \in BOOLEAN
  /\ fault \in Faults
  /\ clientState \in {"IDLE", "RUNNING", "PAUSED"}
  /\ order \in Orders \cup {NoOrder}
  /\ currentNode \in Nat /\ nextStop \in Nat /\ reached \in BOOLEAN
  /\ actionStates \in [ActionIds -> Statuses]
  /\ firstError \in {"NONE", "WARNING", "FATAL"} /\ fatal \in BOOLEAN
  /\ driving \in BOOLEAN /\ lastNode \in Nat /\ nodesLeft \in Nat
  /\ cancelAction \in InstantIds \cup {NoAction} /\ canceledIds \subseteq OrderActionIds
  /\ pauseAction \in InstantIds \cup {NoAction} /\ pausedIds \subseteq OrderActionIds
  /\ pauseOrder \in BOOLEAN /\ pauseOrderActionId \in OrderActionIds \cup {NoAction}
  /\ navHandle \in GoalSlots \cup {NoGoal} /\ goals \in [GoalSlots -> Goal]
  /\ jobs \in [ActionIds -> Nat] /\ failing \in [ActionIds -> Nat]
  /\ deliveries \in [Orders -> Nat] /\ unsent \subseteq InstantIds
  /\ order = NoOrder => currentNode = 0
  /\ order # NoOrder => currentNode \in Nodes(order)
  /\ pc = "loop" => order # NoOrder

-----------------------------------------------------------------------------
(***************************************************************************)
(* Properties of every execution, whatever the environment does.           *)
(***************************************************************************)
\* Every RUNNING action of a handler has a thread or request of the handler
\* that will report its end: no state update leaves an action running that
\* nobody finishes, also when orders replace each other while jobs go on
\* (ExecuteAction, InitAGVState, ResumeOrder, UpdateActionStateById).
RunningHasAJob ==
  \A a \in ActionIds :
    actionStates[a] \in {"RUNNING", "PAUSED"} /\ ActionType[a] \in HandledTypes
      => jobs[a] + failing[a] > 0

\* nav_goal_handle_ is never a goal whose result has arrived, so that
\* async_cancel_goal never gets a handle the action client has forgotten
\* (NavGoalResponseCallback, NavResultCallback, CancelOrder, PauseOrder).
HandleIsLive == navHandle # NoGoal => navHandle \in Moving

-----------------------------------------------------------------------------
(***************************************************************************)
(* Properties of a client whose orders nobody interferes with: Nav2 never  *)
(* reports 0 remaining poses for a goal it still works on, the operator    *)
(* does not teleoperate, actions fail without FATAL errors, Nav2 accepts a *)
(* goal at once if the order can be canceled or paused, and no SOFT or     *)
(* HARD action can be PAUSED.                                              *)
(***************************************************************************)
InstantTypesUsed == {ActionType[a] : a \in InstantIds}

Undisturbed ==
  /\ FeedbackMin = 1
  /\ FatalJobs = {}
  /\ InstantTypesUsed \cap {"startTeleop", "stopTeleop"} = {}
  /\ PromptAck \/ InstantTypesUsed \cap {"cancelOrder", "startPause"} = {}
  /\ \A a \in OrderActionIds :
       ActionType[a] = "pausable" => BlockingType[a] = "NONE"

\* There is at most one goal at a time, it is the one of the handle, it was
\* sent for the current order, and next_stop_ and current_node_ are what its
\* feedback and its result are interpreted with.
GoalMatchesOrder ==
  \A g \in Outstanding :
    /\ Outstanding = {g}
    /\ navHandle = IF goals[g].phase = "sent" THEN NoGoal ELSE g
    /\ clientState = "RUNNING" /\ ~reached
    /\ goals[g].order = order
    /\ goals[g].stop = nextStop /\ currentNode = nextStop - goals[g].left

\* While a HARD action runs, no other action of its node does (the loop of
\* ExecuteOrderCallback starts it last, and nothing after it).
HardRunsAlone ==
  order # NoOrder =>
    \A n \in Nodes(order) : \A a, b \in ActionsAt(order, n) :
      /\ actionStates[a] = "RUNNING" /\ actionStates[b] = "RUNNING"
      /\ BlockingType[a] = "HARD"
      => a = b

\* The robot does not drive, and has no goal it may start to drive for, while
\* a SOFT or HARD action runs.
NoDrivingWhileBlocked ==
  (\E a \in OrderActionsIn("RUNNING") : BlockingType[a] # "NONE")
    => Outstanding = {} /\ ~driving

\* The action is over, as far as leaving its node is concerned.
Passed(a) ==
  IF BlockingType[a] = "NONE" THEN actionStates[a] # "WAITING"
                              ELSE actionStates[a] \in Terminal

\* No action is left behind: at every node the robot has left, the actions
\* have been started, and the SOFT and HARD ones are over.
NoActionLeftBehind ==
  order # NoOrder =>
    \A n \in Nodes(order) :
      n < lastNode \/ (n = lastNode /\ Outstanding # {})
        => \A a \in ActionsAt(order, n) : Passed(a)

\* No action starts before the robot reports its node.
NoActionAhead ==
  order # NoOrder =>
    \A n \in Nodes(order) : n > lastNode =>
      \A a \in ActionsAt(order, n) : actionStates[a] \in {"WAITING", "FAILED"}

\* When the client is IDLE again and has reported no FATAL error, nothing of
\* the order is left to do: no action waits, no SOFT or HARD action runs, no
\* goal is outstanding, and the robot has got to the last node, unless the
\* order may have been canceled.
IdleMeansOver ==
  clientState = "IDLE" /\ order # NoOrder /\ ~fatal =>
    /\ \A a \in ActionsOf(order) : Passed(a)
    /\ Outstanding = {} /\ ~driving
    /\ "cancelOrder" \notin InstantTypesUsed => lastNode = LastNode(order)

\* A paused order is at rest: no goal is outstanding, the robot does not drive
\* and no action runs or is about to, until stopPause (PauseOrder polls the
\* handle and the actions while goals end and handlers go on).
PausedMeansQuiet ==
  clientState = "PAUSED" => Outstanding = {} /\ ~driving /\ NoneRunning /\ pc # "loop"

\* last_node_id and node_states always report the same split of the route.
ProgressReported == order # NoOrder => lastNode + nodesLeft = LastNode(order)

\* The node the robot reports never goes back while the client works on one
\* delivery of an order and has reported no FATAL error, over pauses and
\* resumed goals too.  (After a goal that Nav2 aborts, node 1 is the current
\* one, and a resumed order drives on from there.)
ProgressNeverGoesBack ==
  [][deliveries' = deliveries /\ ~fatal => lastNode' >= lastNode]_vars

-----------------------------------------------------------------------------
(***************************************************************************)
(* Liveness.                                                               *)
(***************************************************************************)
\* The client runs an order, and nothing of its own will go on with it: no
\* goal is outstanding for a stop it has not reached.  Nav2 was not there for
\* the goal, or gave a result that nobody handles (next_stop_ is ahead of the
\* current node), or the FATAL error that ended the goal is not errors[0].
LeftStanding ==
  /\ clientState = "RUNNING" /\ firstError # "FATAL"
  /\ ~reached /\ Outstanding = {}
  /\ cancelAction = NoAction /\ pauseAction = NoAction
  /\ nextStop > currentNode \/ fatal

\* An order that runs comes to its end, by completion or by a fatal error,
\* unless it is paused, the process has ended or hangs, or the order is left
\* standing.  There it stays until master control or the operator steps in:
\* nothing retries the goal, also when Nav2 comes up (ExecuteOrderCallback,
\* NavigateThroughPoses, NavResultCallback).
OrderEnds ==
  /\ clientState = "RUNNING"
       ~> clientState # "RUNNING" \/ fault # "none" \/ LeftStanding
  /\ [][LeftStanding /\ UNCHANGED inputs => LeftStanding' \/ firstError' = "FATAL"]_vars

\* A command not answered whose place a second one of its kind has taken.
Replaced(a) ==
  /\ ActionType[a] \in {"cancelOrder", "startPause"}
  /\ actionStates[a] \in {"WAITING", "RUNNING"}
  /\ a \notin {cancelAction, pauseAction}
  /\ \E b \in InstantIds \ (unsent \cup {a}) : ActionType[b] = ActionType[a]

\* A cancelOrder or startPause the client accepts is answered, or the process
\* has ended in the attempt, or a second one takes its place; it then never
\* gets an answer, whatever becomes of the second (InstantActionsCallback,
\* CancelOrder, PauseOrder).
CommandsAnswered ==
  /\ \A a \in InstantIds :
       actionStates[a] \in {"WAITING", "RUNNING"}
         ~> actionStates[a] \in Terminal \/ Replaced(a) \/ fault # "none"
  /\ [][\A a \in InstantIds : Replaced(a) => actionStates'[a] = actionStates[a]]_vars
=============================================================================
