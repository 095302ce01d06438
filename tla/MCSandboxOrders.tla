--------------------------- MODULE MCSandboxOrders ---------------------------
(***************************************************************************)
(* SandboxOrders, SandboxDelivery and StopMonitor for TLC.  A behaviour is *)
(* one of four scenes: orders of one lot in an intraday symbol under ticks *)
(* and the fallback, orders of several lots under ticks alone, orders in   *)
(* shares for delivery, or the stop of a leg that is traded live.          *)
(***************************************************************************)
EXTENDS SandboxOrders, SandboxDelivery, StopMonitor

CONSTANTS Scenes

VARIABLES scene

MCProfits == {-1, 0}

MCInit == Init /\ DeliveryInit /\ StopInit /\ scene \in Scenes

LiveOnly == \A l \in Legs : net'[l]["analyze"] = 0

\* One lot an order, and nothing realized.
Single == funds'.realized = 0 /\ \A o \in Orders : orders'[o].qty <= 1

\* The order ids are interchangeable: one is used first.
FirstOrder == CHOOSE o \in Orders : TRUE
InTurn == (\E o \in Orders : orders'[o] # Blank) => orders'[FirstOrder] # Blank

MCNext ==
  /\ UNCHANGED scene
  /\ \/ scene = "orders" /\ Next /\ InTurn /\ Single /\ UNCHANGED <<deliveryVars, stopVars>>
     \/ scene = "lots" /\ Next /\ InTurn /\ ~polling' /\ UNCHANGED <<deliveryVars, stopVars>>
     \/ scene = "delivery" /\ DeliveryNext /\ UNCHANGED <<vars, stopVars>>
     \/ scene = "stops" /\ StopNext /\ LiveOnly /\ UNCHANGED <<vars, deliveryVars>>

MCSpec ==
  /\ MCInit /\ [][MCNext]_<<scene, vars, deliveryVars, stopVars>>
  /\ Fairness /\ StopFairness
=============================================================================
