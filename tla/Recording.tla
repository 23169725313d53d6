----------------------------- MODULE Recording -----------------------------
(***************************************************************************)
(* The nodes that record and report what a robot does: the scene recorder, *)
(* the Mega controller and the JSON info generator.  They share no state,  *)
(* so a behaviour follows one of them.                                     *)
(***************************************************************************)
EXTENDS SceneRecorder, MegaController, InfoGenerator

VARIABLE followed

vars == <<followed, recorderVars, controllerVars, infoVars>>

Init ==
  /\ followed \in {"recorder", "controller", "info"}
  /\ RecorderInit
  /\ ControllerInit
  /\ InfoInit
  /\ followed # "controller" => waypoints = 0 /\ ~readable /\ ~malformed /\ ~enable_upload_to_s3

Next ==
  \/ /\ followed = "recorder"
     /\ RecorderNext
     /\ UNCHANGED <<followed, controllerVars, infoVars>>
  \/ /\ followed = "controller"
     /\ ControllerNext
     /\ UNCHANGED <<followed, recorderVars, infoVars>>
  \/ /\ followed = "info"
     /\ InfoNext
     /\ UNCHANGED <<followed, recorderVars, controllerVars>>

Spec == Init /\ [][Next]_vars
FairSpec == Spec /\ (followed = "recorder" => RecorderFairness)
=============================================================================
