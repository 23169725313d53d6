-------------------------- MODULE Vda5050Execution --------------------------
(***************************************************************************)
(* The VDA5050 client implements OrderExecution, for a client nobody       *)
(* interferes with (Undisturbed) and orders that are delivered to be       *)
(* executed once.                                                          *)
(***************************************************************************)
EXTENDS Vda5050Client

\* The refinement mapping: a robot with a goal drives to the next stop, and
\* the actions of earlier orders do not count.
Target == IF Outstanding = {} THEN 0 ELSE nextStop

OrderStatus == [a \in ActionsOf(order) |-> actionStates[a]]

Execution ==
  INSTANCE OrderExecution WITH
    phase <- clientState, order <- order, node <- currentNode, target <- Target,
    status <- OrderStatus, failed <- fatal, canceling <- cancelAction # NoAction,
    pausing <- pauseAction # NoAction, unsent <- unsent

\* The client executes its orders as OrderExecution promises, whatever the
\* interleaving of its callbacks, the handlers' threads, and Nav2's answers:
\* orders come one after the other, the actions of a node start in their
\* order and are done before the robot leaves, it passes no stop, and
\* cancellations and pauses are reported at rest.
ExecutesOrders == Execution!Spec
=============================================================================
