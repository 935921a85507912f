-------------------------- MODULE OrderAdmissionMC --------------------------
(* Small instances of OrderAdmission.                                      *)
EXTENDS OrderAdmission, TLC

CONSTANTS a, b, c

(* Three rivals for the last place, one of them async.                     *)
MixedKinds == a :> "place" @@ b :> "place" @@ c :> "async"

PairKinds  == a :> "place" @@ b :> "async"
=============================================================================
