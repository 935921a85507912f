----------------------------- MODULE OrderFate -----------------------------
(***************************************************************************)
(* What the journal promises about an order id, without saying how: an     *)
(* intent is owed an answer from the moment it is journaled, the broker    *)
(* can come to hold its order only while it is owed one, and the answer    *)
(* that settles it is the truth for good.                                  *)
(***************************************************************************)
CONSTANT Keys

VARIABLES fate,  \* Keys -> what the journal says of the order
          held   \* the keys the broker holds an order under

fateVars == <<fate, held>>

Fates == {"unknown", "owed", "placed", "notPlaced"}

FateInit ==
    /\ fate = [k \in Keys |-> "unknown"]
    /\ held = {}

Promise(k) ==
    /\ fate[k] = "unknown"
    /\ fate' = [fate EXCEPT ![k] = "owed"]
    /\ UNCHANGED held

Hold(k) ==
    /\ fate[k] = "owed"
    /\ held' = held \cup {k}
    /\ UNCHANGED fate

Settle(k) ==
    /\ fate[k] = "owed"
    /\ fate' = [fate EXCEPT ![k] = IF k \in held THEN "placed" ELSE "notPlaced"]
    /\ UNCHANGED held

FateNext == \E k \in Keys : Promise(k) \/ Hold(k) \/ Settle(k)

FateSpec == FateInit /\ [][FateNext]_fateVars
=============================================================================
