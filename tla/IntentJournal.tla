--------------------------- MODULE IntentJournal ---------------------------
(***************************************************************************)
(* The journal as its readers see it: for every intent id, the aggregate   *)
(* that Unresolved folds out of the records of that id (opens, closes, the *)
(* last stage, the last record with an unresolved stage), and the set of   *)
(* stages that were ever recorded.  One Note is one durable record.        *)
(***************************************************************************)
EXTENDS Integers

OpenStages   == {"intent-created", "send-started"}
ClosedStages == {"broker-confirmed", "broker-rejected",
                 "reconciled-placed", "reconciled-not-placed"}
Stages       == OpenStages \cup ClosedStages

EmptyIntent == [opens |-> 0, closes |-> 0, last |-> "none",
                open |-> [stage |-> "none", by |-> "nobody"], facts |-> {}]

(* The aggregate after one more record of the intent, written by "by".     *)
Note(a, stage, by) ==
    [opens  |-> IF stage = "intent-created" THEN a.opens + 1 ELSE a.opens,
     closes |-> IF stage \in ClosedStages THEN a.closes + 1 ELSE a.closes,
     last   |-> stage,
     open   |-> IF stage \in OpenStages THEN [stage |-> stage, by |-> by] ELSE a.open,
     facts  |-> a.facts \cup {stage}]

(* The intent is reported by Unresolved.                                   *)
Unresolved(a) == a.last \in OpenStages \/ a.opens > a.closes

(* All aggregates, for the type invariants.                                *)
Intents(Writers) ==
    [opens : Nat, closes : Nat, last : Stages \cup {"none"},
     open : [stage : OpenStages \cup {"none"}, by : Writers \cup {"nobody"}],
     facts : SUBSET Stages]
============================================================================
