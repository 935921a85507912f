-------------------------- MODULE OrderPlacementMC --------------------------
(* Instances of OrderPlacement for TLC. *)
EXTENDS OrderPlacement

CONSTANTS p1, p2, k1, k2

(* Two commands, an order id each. *)
OwnKeys == [p \in {p1, p2} |-> IF p = p1 THEN k1 ELSE k2]

OneKey == [p \in {p1} |-> k1]

OneSync    == [p \in {p1} |-> "sync"]
OneReplace == [p \in {p1} |-> "replace"]

SyncAndAsync == [p \in {p1, p2} |-> IF p = p1 THEN "sync" ELSE "async"]
=============================================================================
