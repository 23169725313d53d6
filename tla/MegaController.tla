--------------------------- MODULE MegaController ---------------------------
(***************************************************************************)
(* The Mega controller (isaac_ros_mega_controller): it waits until Nav2 is *)
(* active, drives its waypoints one after another while a bag is recorded, *)
(* and uploads the bag.  Nav2 and the file system are not its own: a       *)
(* server may not be there, goals are refused or fail.                     *)
(***************************************************************************)
EXTENDS Naturals

CONSTANT MaxWaypoints \* bound: waypoints of a file

ASSUME ControllerAssumption == MaxWaypoints \in Nat

VARIABLES
  readable,            \* whether the file is JSON
  waypoints,           \* how many it holds
  malformed,           \* whether one lacks a coordinate
  enable_upload_to_s3,
  controller,          \* where main is
  bag_process,         \* "none", "records", "ended"
  at,                  \* the waypoint being driven
  reached,             \* waypoints reached
  uploaded             \* whether the bag has been uploaded

controllerVars ==
  <<readable, waypoints, malformed, enable_upload_to_s3, controller, bag_process, at, reached, uploaded>>

ControllerInit ==
  /\ readable \in BOOLEAN
  /\ waypoints \in 0..MaxWaypoints
  /\ malformed \in BOOLEAN
  /\ enable_upload_to_s3 \in BOOLEAN
  /\ controller = "created"
  /\ bag_process = "none"
  /\ at = 1
  /\ reached = 0
  /\ uploaded = FALSE

parameters_ == <<readable, waypoints, malformed, enable_upload_to_s3>>

\* __init__: exit(1) without waypoints.
ReadWaypoints ==
  /\ controller = "created"
  /\ controller' = IF readable THEN "waits" ELSE "ended"
  /\ UNCHANGED <<parameters_, bag_process, at, reached, uploaded>>

\* The state of the velocity smoother is "active"; any other answer, and none
\* in time, is asked for again.
Nav2Up ==
  /\ controller = "waits"
  /\ controller' = "starts"
  /\ UNCHANGED <<parameters_, bag_process, at, reached, uploaded>>

\* ROSBagRecorder.__enter__ and the poses.
RecordBag ==
  /\ controller = "starts"
  /\ bag_process' = IF enable_upload_to_s3 THEN "records" ELSE "none"
  /\ controller' = IF malformed /\ waypoints # 0 THEN "raises" ELSE "drives"
  /\ UNCHANGED <<parameters_, at, reached, uploaded>>

\* send_goal; it has no future to give when the server does not appear, and
\* main fails on it.
SendNextGoal ==
  /\ controller = "drives"
  /\ at <= waypoints
  /\ controller' \in {"sent", "raises"}
  /\ UNCHANGED <<parameters_, bag_process, at, reached, uploaded>>

\* The goal is refused or does not succeed: the others are left out.
GoalFails ==
  /\ controller = "sent"
  /\ controller' = "closes"
  /\ UNCHANGED <<parameters_, bag_process, at, reached, uploaded>>

GoalReached ==
  /\ controller = "sent"
  /\ reached' = reached + 1
  /\ at' = at + 1
  /\ controller' = "drives"
  /\ UNCHANGED <<parameters_, bag_process, uploaded>>

WaypointsDone ==
  /\ controller = "drives"
  /\ at > waypoints
  /\ controller' = "closes"
  /\ UNCHANGED <<parameters_, bag_process, at, reached, uploaded>>

\* A mutant: the process is ended only when nothing was raised.
ClosedIfFine ==
  IF bag_process = "records" /\ controller = "closes" THEN "ended" ELSE bag_process

Closed == IF bag_process = "records" THEN "ended" ELSE bag_process

\* ROSBagRecorder.__exit__, after the last goal and when something was raised.
CloseBag ==
  /\ controller \in {"closes", "raises"}
  /\ bag_process' = Closed
  /\ controller' = IF controller = "closes" /\ enable_upload_to_s3 THEN "uploads" ELSE "ended"
  /\ UNCHANGED <<parameters_, at, reached, uploaded>>

\* upload_to_s3: a file that cannot be uploaded is left out.
UploadBag ==
  /\ controller = "uploads"
  /\ uploaded' = TRUE
  /\ controller' = "ended"
  /\ UNCHANGED <<parameters_, bag_process, at, reached>>

ControllerNext ==
  \/ ReadWaypoints \/ Nav2Up \/ RecordBag \/ SendNextGoal \/ GoalFails \/ GoalReached
  \/ WaypointsDone \/ CloseBag \/ UploadBag
-----------------------------------------------------------------------------
(* Properties.                                                             *)

\* Whatever goes wrong on the way, no process is left recording when the
\* controller ends, what is uploaded is not written any more, and waypoints
\* are driven in order, each once the one before is reached.
BagClosed ==
  /\ controller \in {"uploads", "ended"} => bag_process # "records"
  /\ uploaded => bag_process = "ended"
  /\ controller = "drives" => reached = at - 1 /\ (enable_upload_to_s3 => bag_process = "records")
=============================================================================
