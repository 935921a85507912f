---------------------------- MODULE RateLimiter ----------------------------
(***************************************************************************)
(* The client-side rate limiter: one token bucket for the group of methods *)
(* the modelled calls belong to, shared by every goroutine of a process.   *)
(* A call takes its token at once and, if the bucket is overdrawn, waits   *)
(* until the debt it made is paid; a call that is cancelled meanwhile      *)
(* gives its token back.  A GetUserTariff answer installs new buckets      *)
(* under calls that still wait on the old ones.                            *)
(*                                                                         *)
(* The clock counts seconds.  A bucket's content is kept in seconds too: a *)
(* token costs limit.cost of them, and the bucket fills by one a second,   *)
(* so that all numbers are integers.                                       *)
(***************************************************************************)
EXTENDS Integers, FiniteSets

CONSTANTS Calls,         \* goroutines that make one call after the other
          StaticLimit,   \* DefaultLimits' entry for their group
          TariffGroups,  \* groups a GetUserTariff answer may hold for it
          BurstCap,      \* the largest burst of a tariff group: 10 in the code
          MaxWait,       \* Limiter.maxWait
          Deadlines,     \* how far off a call's deadline may be
          MaxRefresh,    \* bound: GetUserTariff answers
          MaxTime        \* bound: seconds

Minute == 60

Limits == [burst : Nat \ {0}, cost : Nat \ {0}]

(* LimitsFromTariff and effectiveRate: the smaller of the two rates that a *)
(* group names, a burst that neither exceeds.                              *)
Usable(g) == g.perMinute > 0 \/ g.perSecond > 0

PerMinute(g) ==
    IF g.perSecond > 0 /\ (g.perMinute <= 0 \/ Minute * g.perSecond < g.perMinute)
    THEN Minute * g.perSecond ELSE g.perMinute

BurstOf(g) ==
    LET n == IF g.perSecond > 0 THEN g.perSecond ELSE g.perMinute
    IN  IF n < BurstCap THEN n ELSE BurstCap

LimitOf(g) == [burst |-> BurstOf(g), cost |-> Minute \div PerMinute(g)]

(* A whole number of seconds per token, as in all the limits of a run.     *)
ASSUME LimiterAssumption ==
    /\ IsFiniteSet(Calls)
    /\ StaticLimit \in Limits
    /\ BurstCap \in Nat \ {0}
    /\ \A g \in TariffGroups : Usable(g) => LimitOf(g) \in Limits
    /\ MaxWait \in Nat \ {0}
    /\ Deadlines \subseteq Nat
    /\ MaxRefresh \in Nat
    /\ MaxTime \in Nat

VARIABLES
    now,       \* the clock
    newest,    \* buckets 0..newest have been made; 0 is the static group's
    current,   \* the bucket groupLocked finds for the calls
    limit,     \* bucket -> its rate and capacity
    tokens,    \* bucket -> its content at the last refill; may be a debt
    last,      \* bucket -> the time of that refill
    watched,   \* the bucket whose calls an observer counts
    since,     \* when the count began
    passed,    \* calls the bucket let through since then
    before,    \* calls that were waiting on it then
    pc,        \* Calls -> "idle", "waiting"
    from,      \* Calls -> the bucket a waiting call took its token from
    wake       \* Calls -> when its timer fires

buckets == <<newest, current, limit>>
stored  == <<tokens, last>>
calls   == <<pc, from, wake>>
span    == <<watched, since, before>>
vars    == <<now, buckets, stored, span, passed, calls>>

Buckets     == 0..MaxRefresh
Capacity(b) == limit[b].burst * limit[b].cost
Cost(b)     == limit[b].cost

Least(m, n) == IF m < n THEN m ELSE n

TypeOK ==
    /\ now \in 0..MaxTime
    /\ newest \in Buckets
    /\ current \in 0..newest
    /\ limit \in [Buckets -> Limits]
    /\ tokens \in [Buckets -> Int] /\ \A b \in Buckets : tokens[b] <= Capacity(b)
    /\ last \in [Buckets -> 0..MaxTime]
    /\ watched \in 0..newest
    /\ since \in 0..MaxTime
    /\ passed \in Nat
    /\ before \in Nat
    /\ pc \in [Calls -> {"idle", "waiting"}]
    /\ from \in [Calls -> Buckets]
    /\ wake \in [Calls -> Nat]

Init ==
    /\ now = 0
    /\ newest = 0
    /\ current = 0
    /\ limit = [b \in Buckets |-> StaticLimit]
    /\ tokens = [b \in Buckets |-> StaticLimit.burst * StaticLimit.cost]
    /\ last = [b \in Buckets |-> 0]
    /\ watched = 0
    /\ since = 0
    /\ passed = 0
    /\ before = 0
    /\ pc = [c \in Calls |-> "idle"]
    /\ from = [c \in Calls |-> 0]
    /\ wake = [c \in Calls |-> 0]

-----------------------------------------------------------------------------
(* Mutant: a bucket fills beyond its capacity.                             *)
RefilledOver(b) == tokens[b] + (now - last[b])

(* bucket.refill.                                                          *)
Refilled(b) == Least(Capacity(b), tokens[b] + (now - last[b]))

(* Mutant: the token is kept.                                              *)
PutBackNothing(b, content) == Least(Capacity(b), content)

(* A token put back, by a refusal or by a cancelled call.                  *)
PutBack(b, content) == Least(Capacity(b), content + Cost(b))

Store(b, content) ==
    /\ tokens' = [tokens EXCEPT ![b] = content]
    /\ last' = [last EXCEPT ![b] = now]

(* What a call finds that takes a token now, and how long it has to wait.  *)
Taken(b) == Refilled(b) - Cost(b)
Wait(b)  == IF Taken(b) < 0 THEN -Taken(b) ELSE 0

(* maxWait and deadlineTooSoon; left is the time to the call's deadline.   *)
TooLong(b, left) == Wait(b) > MaxWait \/ Wait(b) > left

Refuse(c, left) ==
    /\ pc[c] = "idle"
    /\ TooLong(current, left)
    /\ Store(current, PutBack(current, Taken(current)))
    /\ UNCHANGED <<now, buckets, span, passed, calls>>

Count(b) == passed' = IF b = watched THEN passed + 1 ELSE passed

PassAtOnce(c, left) ==
    /\ pc[c] = "idle"
    /\ ~TooLong(current, left)
    /\ Wait(current) = 0
    /\ Store(current, Taken(current))
    /\ Count(current)
    /\ UNCHANGED <<now, buckets, span, calls>>

(* Mutant: a call that waits takes its token only in its own eyes.         *)
ReserveNothing(c, left) ==
    /\ pc[c] = "idle"
    /\ ~TooLong(current, left)
    /\ Wait(current) > 0
    /\ Store(current, Refilled(current))
    /\ pc' = [pc EXCEPT ![c] = "waiting"]
    /\ from' = [from EXCEPT ![c] = current]
    /\ wake' = [wake EXCEPT ![c] = now + Wait(current)]
    /\ UNCHANGED <<now, buckets, span, passed>>

Reserve(c, left) ==
    /\ pc[c] = "idle"
    /\ ~TooLong(current, left)
    /\ Wait(current) > 0
    /\ Store(current, Taken(current))
    /\ pc' = [pc EXCEPT ![c] = "waiting"]
    /\ from' = [from EXCEPT ![c] = current]
    /\ wake' = [wake EXCEPT ![c] = now + Wait(current)]
    /\ UNCHANGED <<now, buckets, span, passed>>

Return(c) ==
    /\ pc' = [pc EXCEPT ![c] = "idle"]
    /\ from' = [from EXCEPT ![c] = 0]
    /\ wake' = [wake EXCEPT ![c] = 0]

(* The call's timer fires, in time or late; the call goes out.             *)
Wake(c) ==
    /\ pc[c] = "waiting"
    /\ wake[c] <= now
    /\ Return(c)
    /\ Count(from[c])
    /\ UNCHANGED <<now, buckets, stored, span>>

(* The context ends first, or with the timer, of which select takes any.   *)
Cancel(c) ==
    /\ pc[c] = "waiting"
    /\ Return(c)
    /\ Store(from[c], PutBack(from[c], Refilled(from[c])))
    /\ UNCHANGED <<now, buckets, span, passed>>

(* RefreshTariff: a full bucket for the group that covers the method, or   *)
(* the static one again if none does.  Calls that wait keep their bucket.  *)
Install(g) ==
    /\ newest < MaxRefresh
    /\ Usable(g)
    /\ newest' = newest + 1
    /\ current' = newest + 1
    /\ limit' = [limit EXCEPT ![newest + 1] = LimitOf(g)]
    /\ tokens' = [tokens EXCEPT ![newest + 1] = LimitOf(g).burst * LimitOf(g).cost]
    /\ last' = [last EXCEPT ![newest + 1] = now]
    /\ UNCHANGED <<now, span, passed, calls>>

FallBack(g) ==
    /\ ~Usable(g)
    /\ current' = 0
    /\ UNCHANGED <<now, newest, limit, stored, span, passed, calls>>

Waiting(b) == {c \in Calls : pc[c] = "waiting" /\ from[c] = b}

(* Not a step of the limiter: the observer starts anew, or turns to        *)
(* another bucket.                                                         *)
CountFromNow(b) ==
    /\ b <= newest
    /\ watched' = b
    /\ since' = now
    /\ passed' = 0
    /\ before' = Cardinality(Waiting(b))
    /\ UNCHANGED <<now, buckets, stored, calls>>

Tick ==
    /\ now < MaxTime
    /\ now' = now + 1
    /\ UNCHANGED <<buckets, stored, span, passed, calls>>

Next ==
    \/ \E c \in Calls, left \in Deadlines :
         Refuse(c, left) \/ PassAtOnce(c, left) \/ Reserve(c, left)
    \/ \E c \in Calls : Wake(c) \/ Cancel(c)
    \/ \E g \in TariffGroups : Install(g) \/ FallBack(g)
    \/ \E b \in Buckets : CountFromNow(b)
    \/ Tick

Spec == Init /\ [][Next]_vars

-----------------------------------------------------------------------------
(* Properties.                                                             *)

(* In any span of time, whatever calls do, wait, give up or are refused, a *)
(* bucket lets through no more of them than its burst, its rate over the   *)
(* span and the calls that already waited when the span began.             *)
WithinTariff ==
    Cost(watched) * passed <=
        Capacity(watched) + (now - since) + Cost(watched) * before

(* Calls that were refused or cancelled leave no debt behind: when nobody  *)
(* waits, the next call waits for one token at most.                       *)
NoOrphanDebt ==
    \A b \in 0..newest : Waiting(b) = {} => Refilled(b) >= 0
=============================================================================
