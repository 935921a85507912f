------------------------------ MODULE PacingMC ------------------------------
(* What one process paces: its unary calls, or, if it is a stream command, *)
(* its connections and subscription messages.  Neither reads the other's   *)
(* state, so a run looks at one of the two.                                *)
EXTENDS RateLimiter, StreamPacing

VARIABLE command

MCStatic == [burst |-> 2, cost |-> 2]

(* A group with both rates, and one that names no usable rate.             *)
MCGroups == {[perMinute |-> 100, perSecond |-> 1], [perMinute |-> 0, perSecond |-> 0]}

PacingInit == command \in {"unary", "stream"} /\ Init /\ StreamInit

UnaryStep  == command = "unary" /\ Next /\ UNCHANGED <<command, streamVars>>
StreamStep == command = "stream" /\ StreamNext /\ UNCHANGED <<command, vars>>

(* Both halves stay well typed: no bucket above its capacity, no stamp above *)
(* the replay limiter's cap.                                                 *)
PacingTypeOK == TypeOK /\ StreamTypeOK

PacingSpec == PacingInit /\ [][UnaryStep \/ StreamStep]_<<command, vars, streamVars>>
=============================================================================
