-------------------------- MODULE StopReconcileMC --------------------------
(* Small instances of StopReconcile.                                       *)
EXTENDS StopReconcile

(* Every stop order looks like every other.                                *)
Alike == [o \in StopOrders |-> "fields"]
=============================================================================
