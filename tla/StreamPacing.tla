---------------------------- MODULE StreamPacing ----------------------------
(***************************************************************************)
(* The times of a stream command: the backoff between two connections, the *)
(* rolling cap on subscription messages, which outlives a connection, and  *)
(* the watchdog.  StreamRunner says what a command does; here only when.   *)
(*                                                                         *)
(* The clock counts ticks of BackoffBase.  The last arrivals are kept      *)
(* beside the code's state: as many as the property compares.              *)
(***************************************************************************)
EXTENDS Integers, Sequences

CONSTANTS Requests,     \* subscription messages replayed on a connection
          ReplayLimit,  \* Runner.ReplayLimit
          ReplayWindow, \* Runner.ReplayWindow
          Watchdog,     \* Runner.Watchdog
          BackoffCap,   \* defaultBackoffCap
          MaxSend,      \* the longest a Send blocks
          MaxFailures,  \* bound: failures in a row
          MaxClock      \* bound: ticks

ASSUME PacingAssumption ==
    /\ Requests \in Nat
    /\ ReplayLimit \in Nat \ {0}
    /\ ReplayWindow \in Nat \ {0}
    /\ Watchdog \in Nat \ {0}
    /\ BackoffCap \in Nat \ {0}
    /\ MaxSend \in Nat
    /\ MaxFailures \in Nat
    /\ MaxClock \in Nat

VARIABLES
    clock,
    step,         \* where Run is
    failures,     \* Run: failures
    until,        \* when the timer it waits on fires
    connectedAt,  \* receive: connectedAt
    replayed,     \* messages sent on this connection
    stamps,       \* replayLimiter.timestamps
    arrived,      \* when the last messages were taken off Run's hands
    opened,       \* when Open was last called
    gap,          \* the time between the last two calls of Open
    quick         \* calls of Open in a row that followed within Watchdog

history    == <<opened, gap, quick>>
limiter    == <<stamps, arrived>>
streamVars == <<clock, step, failures, until, connectedAt, replayed, limiter,
                history>>

Times == 0..MaxClock

(* Mutant: the oldest stamps are dropped a tick early.                     *)
InWindowEarly(t, u) == t > u - ReplayWindow + 1

(* Is t in the window that ends at u?                                      *)
InWindow(t, u) == t > u - ReplayWindow

StreamTypeOK ==
    /\ clock \in Times
    /\ step \in {"open", "replay", "asleep", "sending", "up", "backoff", "returned"}
    /\ failures \in 0..MaxFailures
    /\ until \in Nat
    /\ connectedAt \in Times
    /\ replayed \in 0..Requests
    /\ stamps \in Seq(Times) /\ Len(stamps) <= ReplayLimit
    /\ arrived \in Seq(Times) /\ Len(arrived) <= ReplayLimit + 2
    /\ opened \in Times
    /\ gap \in Times
    /\ quick \in Nat

StreamInit ==
    /\ clock = 0
    /\ step = "open"
    /\ failures = 0
    /\ until = 0
    /\ connectedAt = 0
    /\ replayed = 0
    /\ stamps = <<>>
    /\ arrived = <<>>
    /\ opened = 0
    /\ gap = 0
    /\ quick = 0

-----------------------------------------------------------------------------
(* The backoff: BackoffBase doubled with every failure up to the cap, a    *)
(* fifth more or less.                                                     *)
Nominal(attempt) ==
    LET doubled == 2 ^ (IF attempt < 17 THEN attempt - 1 ELSE 16)
    IN  IF doubled > BackoffCap THEN BackoffCap ELSE doubled

Delays(attempt) ==
    {d \in 0..2 * BackoffCap : 5 * d >= 4 * Nominal(attempt)
                               /\ 5 * d <= 6 * Nominal(attempt)}

(* A failure is counted and the next attempt put off.                      *)
BackOff(count) ==
    /\ count <= MaxFailures
    /\ failures' = count
    /\ step' = "backoff"
    /\ \E d \in Delays(count) : until' = clock + d

(* An error no reconnection helps against ends the command.                *)
GiveUp ==
    /\ step' = "returned"
    /\ UNCHANGED <<failures, until>>

Fails(count) == BackOff(count) \/ GiveUp

-----------------------------------------------------------------------------
(* Run.                                                                    *)

OpenCalled ==
    /\ opened' = clock
    /\ gap' = clock - opened
    /\ quick' = IF step = "open" \/ clock - opened >= Watchdog THEN 0 ELSE quick + 1

MayOpen == step = "open" \/ (step = "backoff" /\ until <= clock)

(* Mutant: every connection has a limiter of its own.                      *)
OpensAnew ==
    /\ MayOpen
    /\ OpenCalled
    /\ step' = "replay"
    /\ replayed' = 0
    /\ stamps' = <<>>
    /\ UNCHANGED <<clock, failures, until, connectedAt, arrived>>

Opens ==
    /\ MayOpen
    /\ OpenCalled
    /\ step' = "replay"
    /\ replayed' = 0
    /\ UNCHANGED <<clock, failures, until, connectedAt, limiter>>

OpenRefused ==
    /\ MayOpen
    /\ OpenCalled
    /\ Fails(failures + 1)
    /\ UNCHANGED <<clock, connectedAt, replayed, limiter>>

(* waitN: the stamps before the first that is still in the window are      *)
(* dropped; there is room for the messages asked for, or Run sleeps until  *)
(* there is.                                                               *)
Expired ==
    CHOOSE n \in 0..Len(stamps) :
        /\ \A i \in 1..n : ~InWindow(stamps[i], clock)
        /\ n < Len(stamps) => InWindow(stamps[n + 1], clock)

Active == SubSeq(stamps, Expired + 1, Len(stamps))

Last(s, n) == SubSeq(s, IF Len(s) > n THEN Len(s) - n + 1 ELSE 1, Len(s))

(* Mutant: one message too many.                                           *)
RoomOneMore == Len(Active) <= ReplayLimit

Room == Len(Active) < ReplayLimit

Granted ==
    /\ step = "replay"
    /\ replayed < Requests
    /\ Room
    /\ stamps' = Append(Active, clock)
    /\ step' = "sending"
    /\ until' = clock + MaxSend
    /\ UNCHANGED <<clock, failures, connectedAt, replayed, arrived, history>>

Sleeps ==
    /\ step = "replay"
    /\ replayed < Requests
    /\ ~Room
    /\ stamps' = Active
    /\ step' = "asleep"
    /\ until' = Active[1] + ReplayWindow
    /\ UNCHANGED <<clock, failures, connectedAt, replayed, arrived, history>>

Awakes ==
    /\ step = "asleep"
    /\ until <= clock
    /\ step' = "replay"
    /\ UNCHANGED <<clock, failures, until, connectedAt, replayed, limiter, history>>

Arrives == arrived' = Last(Append(arrived, clock), ReplayLimit + 2)

SendReturns ==
    /\ step = "sending"
    /\ Arrives
    /\ step' = "replay"
    /\ replayed' = replayed + 1
    /\ UNCHANGED <<clock, failures, until, connectedAt, stamps, history>>

(* The message may have got through all the same.                          *)
SendRefused ==
    /\ step = "sending"
    /\ Arrives \/ UNCHANGED arrived
    /\ Fails(failures + 1)
    /\ UNCHANGED <<clock, connectedAt, replayed, stamps, history>>

(* receive starts.                                                         *)
Connects ==
    /\ step = "replay"
    /\ replayed = Requests
    /\ step' = "up"
    /\ connectedAt' = clock
    /\ until' = clock + Watchdog
    /\ UNCHANGED <<clock, failures, replayed, limiter, history>>

(* A frame that counts as activity.                                        *)
Activity ==
    /\ step = "up"
    /\ until' = clock + Watchdog
    /\ UNCHANGED <<clock, step, failures, connectedAt, replayed, limiter, history>>

(* Mutant: every connection that came up clears the count.                 *)
LastedAnyTime == TRUE

(* The connection ends.  One that held for as long as the watchdog clears  *)
(* the count, if it is Recv that fails.                                    *)
Lasted == clock - connectedAt >= Watchdog

RecvFails ==
    /\ step = "up"
    /\ Fails(IF Lasted THEN 1 ELSE failures + 1)
    /\ UNCHANGED <<clock, connectedAt, replayed, limiter, history>>

ReconcileFails ==
    /\ step = "up"
    /\ Fails(failures + 1)
    /\ UNCHANGED <<clock, connectedAt, replayed, limiter, history>>

BufferOverflows ==
    /\ step = "up"
    /\ BackOff(failures + 1)
    /\ UNCHANGED <<clock, connectedAt, replayed, limiter, history>>

WatchdogFires ==
    /\ step = "up"
    /\ until <= clock
    /\ BackOff(failures + 1)
    /\ UNCHANGED <<clock, connectedAt, replayed, limiter, history>>

(* SIGINT or SIGTERM; a Send in progress is ended by it too.               *)
Interrupted ==
    /\ step # "returned"
    /\ step' = "returned"
    /\ UNCHANGED <<clock, failures, until, connectedAt, replayed, limiter, history>>

(* Timers fire in time, and a Send returns within MaxSend.                 *)
Due ==
    \/ step \in {"open", "replay"}
    \/ step \in {"asleep", "sending", "up", "backoff"} /\ until <= clock

StreamTick ==
    /\ clock < MaxClock
    /\ ~Due
    /\ clock' = clock + 1
    /\ UNCHANGED <<step, failures, until, connectedAt, replayed, limiter, history>>

StreamNext ==
    \/ Opens \/ OpenRefused
    \/ Granted \/ Sleeps \/ Awakes \/ SendReturns \/ SendRefused
    \/ Connects \/ Activity
    \/ RecvFails \/ ReconcileFails \/ BufferOverflows \/ WatchdogFires
    \/ Interrupted
    \/ StreamTick

StreamSpec == StreamInit /\ [][StreamNext]_streamVars

-----------------------------------------------------------------------------
(* Properties.                                                             *)

(* The stamps are taken before Send, which may block and bring messages    *)
(* closer together; since the next one is stamped only after it, that      *)
(* costs one message over the cap in a window and no more.                 *)
ArrivalsWithinCap ==
    Len(arrived) = ReplayLimit + 2 =>
        arrived[ReplayLimit + 2] - arrived[1] >= ReplayWindow

(* Connections that do not last are retried with growing pauses, whatever  *)
(* ends them: after n calls of Open that each came within Watchdog of the  *)
(* one before, the last pause was that of n failures.                      *)
NoReconnectStorm ==
    quick > 0 => 5 * gap >= 4 * Nominal(quick)

=============================================================================
