---------------------------- MODULE MCRecording ----------------------------
(***************************************************************************)
(* Small instances of the recording nodes.                                 *)
(***************************************************************************)
EXTENDS Recording
=============================================================================
