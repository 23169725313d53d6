--------------------------- MODULE OrderExecution ---------------------------
(***************************************************************************)
(* What the VDA5050 client promises of the execution of an order: in which *)
(* order the robot goes to the nodes and the actions of each are started,  *)
(* and what a cancellation, a pause and an error leave behind.  Of the     *)
(* client's state only the order, its actions and the place on the route   *)
(* are left; there are no goals, handles, threads or callbacks.            *)
(***************************************************************************)
EXTENDS Vda5050Orders

VARIABLES
  phase,  \* "IDLE": no order is being executed, "RUNNING" or "PAUSED"
  order,  \* the order being executed, or the last one
  node,   \* the node the robot is at, or has passed last
  target, \* the node it drives to; 0 when it stands still
  status, \* status[a]: the state of action a of the order
  failed, \* whether a FATAL error has been reported since the order came
  canceling, \* a cancelOrder is being carried out
  pausing,   \* a startPause is being carried out
  unsent     \* the instant actions master control has not sent yet

route    == <<order, node, target>>
commands == <<canceling, pausing, unsent>>

vars == <<phase, route, status, failed, commands>>

Ended == {"FINISHED", "FAILED"}

\* The actions of the order in state s.
Those(s) == {a \in ActionsOf(order) : status[a] = s}

\* Action a does not keep the robot at its node.
Done(a) == IF BlockingType[a] = "NONE" THEN status[a] # "WAITING" ELSE status[a] \in Ended

Init ==
  /\ phase = "IDLE" /\ order = NoOrder /\ node = 0 /\ target = 0
  /\ status = [a \in ActionsOf(NoOrder) |-> "NONE"]
  /\ failed = FALSE
  /\ canceling = FALSE /\ pausing = FALSE /\ unsent = InstantIds

-----------------------------------------------------------------------------
(***************************************************************************)
(* The order.                                                              *)
(***************************************************************************)
\* A new order comes when nothing of the last one is left to do, or after a
\* FATAL error.
Accept(o) ==
  /\ NodeCount[o] > 0
  /\ target = 0
  /\ \/ phase = "IDLE"
     \/ /\ phase = "RUNNING" /\ Those("RUNNING") = {}
        /\ failed \/ (node = LastNode(order) /\ Those("WAITING") = {})
  /\ phase' = "RUNNING" /\ order' = o /\ node' = 0 /\ target' = 0
  /\ status' = [a \in ActionsOf(o) |-> "WAITING"]
  /\ failed' = FALSE
  /\ UNCHANGED commands

\* At the last node, with all the actions done.
Complete ==
  /\ phase = "RUNNING" /\ target = 0 /\ node = LastNode(order)
  /\ \A a \in ActionsOf(order) : Done(a)
  /\ phase' = "IDLE"
  /\ UNCHANGED <<route, status, failed, commands>>

\* A FATAL error ends the order, at rest and with no action running.
GiveUp ==
  /\ failed
  /\ phase = "RUNNING" /\ target = 0 /\ Those("RUNNING") = {}
  /\ phase' = "IDLE"
  /\ UNCHANGED <<route, status, failed, commands>>

-----------------------------------------------------------------------------
(***************************************************************************)
(* The actions.                                                            *)
(***************************************************************************)
\* An action of the node starts after those before it: no HARD action among
\* them is left, and none runs if it is HARD itself.
Start(i) ==
  LET here == NodeActions[order][node] IN
  /\ phase = "RUNNING" /\ target = 0
  /\ status[here[i]] = "WAITING"
  /\ \A j \in 1 .. i - 1 :
       /\ status[here[j]] # "WAITING"
       /\ BlockingType[here[j]] = "HARD" => Done(here[j])
       /\ BlockingType[here[i]] = "HARD" => status[here[j]] # "RUNNING"
  /\ status' = [status EXCEPT ![here[i]] = IF ActionType[here[i]] = "unknown"
                                           THEN "FAILED" ELSE "RUNNING"]
  /\ UNCHANGED <<phase, route, failed, commands>>

\* A handler reports the end of an action.  One that has been canceled may
\* end once more, in its own way.
End(a) ==
  /\ status[a] \in {"RUNNING", "FAILED"}
  /\ \E s \in Ended : status' = [status EXCEPT ![a] = s]
  /\ UNCHANGED <<phase, route, failed, commands>>

-----------------------------------------------------------------------------
(***************************************************************************)
(* The commands of master control.                                         *)
(***************************************************************************)
Receive(type) ==
  \E c \in unsent : ActionType[c] = type /\ unsent' = unsent \ {c}

\* Commands that do not change the execution, and those that are refused.
Disregard ==
  /\ unsent' \in SUBSET unsent
  /\ UNCHANGED <<phase, route, status, failed, canceling, pausing>>

\* The command brings the order to phase p only when the robot stands still
\* and no action runs.
Settle(p) ==
  /\ phase' \in {phase, p}
  /\ phase' = p => target = 0 /\ Those("RUNNING") = {}

CancelCommand ==
  /\ Receive("cancelOrder")
  /\ canceling' = TRUE
  /\ UNCHANGED <<phase, route, status, failed, pausing>>

\* The actions that wait are never started; the running ones of the example
\* handler fail at once.
Cancel ==
  /\ canceling /\ canceling' = (phase' # "IDLE")
  /\ phase # "IDLE"
  /\ Settle("IDLE")
  /\ \E S \in SUBSET {a \in Those("RUNNING") : ActionType[a] = "example"} :
       status' = [a \in ActionsOf(order) |->
                    IF status[a] = "WAITING" \/ a \in S THEN "FAILED" ELSE status[a]]
  /\ UNCHANGED <<route, failed, pausing, unsent>>

Pause ==
  /\ (pausing /\ UNCHANGED unsent) \/ Receive("startPause")
  /\ pausing' = (phase' # "PAUSED")
  /\ phase = "RUNNING"
  /\ Settle("PAUSED")
  /\ \E S \in SUBSET {a \in Those("RUNNING") : ActionType[a] = "pausable"} :
       status' = [a \in ActionsOf(order) |-> IF a \in S THEN "PAUSED" ELSE status[a]]
  /\ UNCHANGED <<route, failed, canceling>>

\* There is nothing to pause (any more).
RefusePause ==
  /\ UNCHANGED unsent \/ Receive("startPause")
  /\ phase # "RUNNING"
  /\ pausing' = FALSE
  /\ UNCHANGED <<phase, route, status, failed, canceling>>

Resume ==
  /\ Receive("stopPause")
  /\ phase = "PAUSED" /\ phase' = "RUNNING"
  /\ status' = [a \in ActionsOf(order) |->
                  IF status[a] = "PAUSED" THEN "RUNNING" ELSE status[a]]
  /\ UNCHANGED <<route, failed, canceling, pausing>>

-----------------------------------------------------------------------------
(***************************************************************************)
(* The route.                                                              *)
(***************************************************************************)
\* The robot leaves for the next stop, with nothing left behind.
Depart ==
  /\ phase = "RUNNING" /\ target = 0
  /\ \A n \in Nodes(order) : n <= node => \A a \in ActionsAt(order, n) : Done(a)
  /\ IsNextStop(order, node, target')
  /\ UNCHANGED <<phase, order, node, status, failed, commands>>

\* It passes nodes on the way, and stops at the target.
Pass ==
  /\ target # 0
  /\ node' \in node .. target - 1
  /\ UNCHANGED <<phase, order, target, status, failed, commands>>

Arrive ==
  /\ target # 0
  /\ node' = target /\ target' = 0
  /\ UNCHANGED <<phase, order, status, failed, commands>>

\* It stops on the way.  That is an error unless somebody has asked for it.
Halt ==
  /\ target # 0
  /\ target' = 0 /\ failed' \in {failed, failed \/ ~(canceling \/ pausing)}
  /\ UNCHANGED <<phase, order, node, status, commands>>

\* Nav2 gives up: node 1 becomes the current one.
Abort ==
  /\ target # 0
  /\ target' = 0 /\ failed' = TRUE /\ node' = 1
  /\ UNCHANGED <<phase, order, status, commands>>

\* Nav2 refuses to drive: the order is over.
Refuse ==
  /\ target # 0
  /\ target' = 0 /\ failed' = TRUE /\ phase' = "IDLE"
  /\ UNCHANGED <<order, node, status, commands>>

-----------------------------------------------------------------------------
Next ==
  \/ \E o \in Orders : Accept(o)
  \/ Complete \/ GiveUp
  \/ order # NoOrder /\ \E i \in DOMAIN NodeActions[order][node] : Start(i)
  \/ \E a \in ActionsOf(order) : End(a)
  \/ Disregard \/ CancelCommand \/ Cancel \/ Pause \/ RefusePause \/ Resume
  \/ Depart \/ Pass \/ Arrive \/ Halt \/ Abort \/ Refuse

Spec == Init /\ [][Next]_vars
=============================================================================
