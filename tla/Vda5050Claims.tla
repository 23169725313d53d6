--------------------------- MODULE Vda5050Claims ---------------------------
(***************************************************************************)
(* What comments and tests of the client say of it, and the code does not  *)
(* do.  A run finds the claim violated.                                    *)
(***************************************************************************)
EXTENDS Vda5050Client

\* "Once all the VDA actions and navigation goal requests have finished, the
\* cancel order will be mark as finished": CancelOrder looks at the handle
\* only, which a goal Nav2 has not accepted yet does not have.
CancelFinishesLast ==
  [][\A a \in InstantIds :
       /\ ActionType[a] = "cancelOrder"
       /\ actionStates[a] # "FINISHED" /\ actionStates'[a] = "FINISHED"
       => Outstanding = {} /\ NoneRunning]_vars
=============================================================================
