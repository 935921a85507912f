--------------------------- MODULE OrderAdmission ---------------------------
(***************************************************************************)
(* The guardrails around a mutation: commands on one account that place,   *)
(* replace and cancel orders and stop orders at the same time, the         *)
(* account's advisory lock, the max_open_orders count read under it, the   *)
(* kill switch and its second look just before the send, and the orders    *)
(* the broker ends up with.                                                *)
(*                                                                         *)
(* What the command journals and how it names its outcome is               *)
(* OrderPlacement's subject and left out here.                             *)
(***************************************************************************)
EXTENDS Integers, FiniteSets

CONSTANTS Commands,
          KindOf,       \* Commands -> Kinds
          Others,       \* orders that are open before the commands start
          MaxOpen,      \* Policy.MaxOpenOrders; 0: no cap
          MaxAttempts,  \* RetryPolicy.MaxAttempts
          LateRequests, \* whether a request may arrive after its attempt ended
          Nobody

Kinds == {"place", "async", "stop", "replace", "cancel"}
Books == {"regular", "stop"}

ASSUME AdmissionAssumption ==
    /\ KindOf \in [Commands -> Kinds]
    /\ Others \cap Commands = {}
    /\ IsFiniteSet(Commands)
    /\ IsFiniteSet(Others)
    /\ MaxOpen \in Nat
    /\ MaxAttempts \in Nat \ {0}
    /\ LateRequests \in BOOLEAN
    /\ Nobody \notin Commands

VARIABLES
    switch,   \* what Lstat says of the kill switch file
    holder,   \* who holds the account lock
    pc,       \* Commands -> where the command is
    attempts, \* Commands -> attempts begun
    wire,     \* Commands -> the current attempt's request or its answer
    strays,   \* commands with a request on its way that nobody waits for
    taken,    \* commands whose request the broker has carried out
    open,     \* Books -> the orders GetOrders or GetStopOrders lists
    pending,  \* async orders the exchange has not accepted yet
    late,     \* history: carried out after the command had ended
    early     \* history: had not passed its last check when the switch engaged

callVars   == <<attempts, wire, strays>>
brokerVars == <<taken, open, pending, late>>
vars       == <<switch, holder, pc, callVars, brokerVars, early>>

Ended     == {"done", "killed"}
Unchecked == {"idle", "lookup", "lock", "count", "check"}

BookOf(c) == IF KindOf[c] = "stop" THEN "stop" ELSE "regular"

(* Kinds whose command counts the open orders first, if there is a cap.    *)
Capped(c) == MaxOpen > 0 /\ KindOf[c] \in {"place", "async", "stop"}

TypeOK ==
    /\ switch \in {"off", "on", "unreadable"}
    /\ holder \in Commands \cup {Nobody}
    /\ pc \in [Commands -> Unchecked \cup {"call", "attempt"} \cup Ended]
    /\ attempts \in [Commands -> 0..MaxAttempts]
    /\ wire \in [Commands -> {"none", "request", "ok", "error", "again"}]
    /\ strays \in SUBSET Commands
    /\ taken \in SUBSET Commands
    /\ open \in [Books -> SUBSET (Commands \cup Others)]
    /\ pending \in SUBSET Commands
    /\ late \in SUBSET Commands
    /\ early \in SUBSET Commands

Init ==
    /\ switch = "off"
    /\ holder = Nobody
    /\ pc = [c \in Commands |-> "idle"]
    /\ attempts = [c \in Commands |-> 0]
    /\ wire = [c \in Commands |-> "none"]
    /\ strays = {}
    /\ taken = {}
    /\ open \in [Books -> SUBSET Others]
    /\ MaxOpen > 0 => \A b \in Books : Cardinality(open[b]) <= MaxOpen
    /\ pending = {}
    /\ late = {}
    /\ early = {}

-----------------------------------------------------------------------------
(* A command up to the send.                                               *)

Goto(c, where) == pc' = [pc EXCEPT ![c] = where]

(* The deferred Close of the lock, or the end of the process that held it. *)
Release(c) == holder' = IF holder = c THEN Nobody ELSE holder

(* The command ends: every early return of it.                             *)
End(c, how) == Goto(c, how) /\ Release(c)

(* CheckKillSwitch: only a clean "does not exist" lets a mutation pass.    *)
Clear == switch = "off"

(* Flags and local policy, the kill switch among it.                       *)
Enter(c) ==
    /\ pc[c] = "idle"
    /\ \/ Clear /\ Goto(c, "lookup") /\ UNCHANGED holder
       \/ End(c, "done")
    /\ UNCHANGED <<switch, callVars, brokerVars, early>>

(* Connect, resolve the instrument, resolved policy; a replacement reads   *)
(* the order and goes through the local policy again.                      *)
Lookup(c) ==
    /\ pc[c] = "lookup"
    /\ \/ /\ KindOf[c] = "replace" => Clear
          /\ Goto(c, IF Capped(c) THEN "lock" ELSE "check")
          /\ UNCHANGED holder
       \/ End(c, "done")
    /\ UNCHANGED <<switch, callVars, brokerVars, early>>

(* AcquireAccountLock blocks until the lock is free.                       *)
Lock(c) ==
    /\ pc[c] = "lock"
    /\ holder = Nobody
    /\ holder' = c
    /\ Goto(c, "count")
    /\ UNCHANGED <<switch, callVars, brokerVars, early>>

(* The lock's directory or file cannot be opened.                          *)
LockFails(c) ==
    /\ pc[c] = "lock"
    /\ End(c, "done")
    /\ UNCHANGED <<switch, callVars, brokerVars, early>>

(* Mutant: the lock is given back after the count.                         *)
CountAndRelease(c) ==
    /\ pc[c] = "count"
    /\ IF Cardinality(open[BookOf(c)]) < MaxOpen THEN Goto(c, "check") ELSE Goto(c, "done")
    /\ Release(c)
    /\ UNCHANGED <<switch, callVars, brokerVars, early>>

(* The list of open orders and CheckOpenOrders.                            *)
Count(c) ==
    /\ pc[c] = "count"
    /\ \/ /\ Cardinality(open[BookOf(c)]) < MaxOpen
          /\ Goto(c, "check")
          /\ UNCHANGED holder
       \/ End(c, "done")
    /\ UNCHANGED <<switch, callVars, brokerVars, early>>

(* Mutant: the second look takes an unreadable switch for a clear one.     *)
CheckOpenly(c) ==
    /\ pc[c] = "check"
    /\ \/ switch # "on" /\ Goto(c, "call") /\ UNCHANGED holder
       \/ End(c, "done")
    /\ UNCHANGED <<switch, callVars, brokerVars, early>>

(* The ledger is open; the second look at the switch; the write-ahead      *)
(* records, if the command keeps any.                                      *)
Check(c) ==
    /\ pc[c] = "check"
    /\ \/ Clear /\ Goto(c, "call") /\ UNCHANGED holder
       \/ End(c, "done")
    /\ UNCHANGED <<switch, callVars, brokerVars, early>>

-----------------------------------------------------------------------------
(* The call.                                                               *)

(* Placements and cancellations are marked idempotent, the others not.     *)
AttemptsOf(c) == IF KindOf[c] \in {"stop", "replace"} THEN 1 ELSE MaxAttempts

BeginAttempt(c) ==
    /\ pc[c] = "call"
    /\ attempts' = [attempts EXCEPT ![c] = @ + 1]
    /\ wire' = [wire EXCEPT ![c] = "request"]
    /\ Goto(c, "attempt")
    /\ UNCHANGED <<switch, holder, strays, brokerVars, early>>

(* The broker carries a request out, once per request id: an order more, a *)
(* new one in the place of the one replaced, one less or, if the order to  *)
(* cancel is gone, nothing.                                                *)
CarryOut(c) ==
    IF c \in taken
    THEN UNCHANGED brokerVars
    ELSE /\ taken' = taken \cup {c}
         /\ late' = IF pc[c] \in Ended THEN late \cup {c} ELSE late
         /\ pending' = IF KindOf[c] = "async" THEN pending \cup {c} ELSE pending
         /\ \/ KindOf[c] \in {"place", "stop"}
               /\ open' = [open EXCEPT ![BookOf(c)] = @ \cup {c}]
            \/ KindOf[c] \in {"async", "replace"} /\ UNCHANGED open
            \/ KindOf[c] = "cancel"
               /\ \E o \in open["regular"] \cup {c} :
                     open' = [open EXCEPT !["regular"] = @ \ {o}]

BrokerCarriesOut(c) ==
    /\ wire[c] = "request"
    /\ CarryOut(c)
    /\ wire' = [wire EXCEPT ![c] = "ok"]
    /\ UNCHANGED <<switch, holder, pc, attempts, strays, early>>

BrokerRefuses(c) ==
    /\ wire[c] = "request"
    /\ \E a \in {"error", "again"} : wire' = [wire EXCEPT ![c] = a]
    /\ UNCHANGED <<switch, holder, pc, attempts, strays, brokerVars, early>>

(* Mutant: one attempt too many.                                           *)
TryAgainOnceMore(c) ==
    IF attempts[c] <= AttemptsOf(c)
    THEN Goto(c, "call") /\ UNCHANGED holder
    ELSE End(c, "done")

(* The interceptor tries again or the command ends.                        *)
TryAgain(c) ==
    IF attempts[c] < AttemptsOf(c)
    THEN Goto(c, "call") /\ UNCHANGED holder
    ELSE End(c, "done")

Receive(c) ==
    /\ pc[c] = "attempt"
    /\ wire[c] \in {"ok", "error", "again"}
    /\ IF wire[c] = "again" THEN TryAgain(c) ELSE End(c, "done")
    /\ wire' = [wire EXCEPT ![c] = "none"]
    /\ UNCHANGED <<switch, attempts, strays, brokerVars, early>>

(* Nobody waits for the request any more.                                  *)
Abandon(c) ==
    /\ wire' = [wire EXCEPT ![c] = "none"]
    /\ strays' \in IF wire[c] = "request" /\ LateRequests
                   THEN {strays, strays \cup {c}} ELSE {strays}
    /\ UNCHANGED <<switch, attempts, brokerVars, early>>

LoseConnection(c) ==
    /\ pc[c] = "attempt"
    /\ TryAgain(c)
    /\ Abandon(c)

(* Mutant: the deadline counts between the attempts only.                  *)
DeadlineBetween(c) ==
    /\ pc[c] = "call"
    /\ End(c, "done")
    /\ Abandon(c)

(* The default deadline over all attempts, backoffs and limiter queues; or *)
(* a write of the journal failed before the first attempt.                 *)
Deadline(c) ==
    /\ pc[c] \in {"call", "attempt"}
    /\ End(c, "done")
    /\ Abandon(c)

Kill(c) ==
    /\ pc[c] \notin Ended \cup {"idle"}
    /\ End(c, "killed")
    /\ Abandon(c)

Step(c) ==
    \/ Enter(c) \/ Lookup(c) \/ Lock(c) \/ Count(c) \/ Check(c)
    \/ BeginAttempt(c) \/ Receive(c) \/ Deadline(c)

-----------------------------------------------------------------------------
(* The broker and the operator.                                            *)

StrayArrives(c) ==
    /\ c \in strays
    /\ strays' = strays \ {c}
    /\ CarryOut(c) \/ UNCHANGED brokerVars
    /\ UNCHANGED <<switch, holder, pc, attempts, wire, early>>

(* The exchange accepts an async order, or refuses it.                     *)
Accept(c) ==
    /\ c \in pending
    /\ pending' = pending \ {c}
    /\ open' \in {open, [open EXCEPT !["regular"] = @ \cup {c}]}
    /\ UNCHANGED <<switch, holder, pc, callVars, taken, late, early>>

(* Filled, executed, expired, or cancelled by other means.                 *)
Settle(b, o) ==
    /\ o \in open[b]
    /\ open' = [open EXCEPT ![b] = @ \ {o}]
    /\ UNCHANGED <<switch, holder, pc, callVars, taken, pending, late, early>>

Engage ==
    /\ switch = "off"
    /\ switch' \in {"on", "unreadable"}
    /\ early' = {c \in Commands : pc[c] \in Unchecked}
    /\ UNCHANGED <<holder, pc, callVars, brokerVars>>

Disengage ==
    /\ switch # "off"
    /\ switch' = "off"
    /\ early' = {}
    /\ UNCHANGED <<holder, pc, callVars, brokerVars>>

-----------------------------------------------------------------------------
Broker ==
    \/ \E c \in Commands :
          BrokerCarriesOut(c) \/ BrokerRefuses(c) \/ StrayArrives(c) \/ Accept(c)
    \/ \E b \in Books : \E o \in open[b] : Settle(b, o)

Next ==
    \/ \E c \in Commands : Step(c) \/ LockFails(c) \/ LoseConnection(c) \/ Kill(c)
    \/ Broker \/ Engage \/ Disengage

Spec == Init /\ [][Next]_vars

(* A running command goes on.                                              *)
FairSpec == Spec /\ \A c \in Commands : WF_vars(Step(c))

-----------------------------------------------------------------------------
(* Properties.                                                             *)

Async == {c \in Commands : KindOf[c] = "async"}

(* max_open_orders as far as a count under the account lock can reach:     *)
(* whatever the commands do at the same time, the orders that were carried *)
(* out while their command was there to wait, and the ones open before,    *)
(* never exceed the cap; what arrives late or is accepted later is extra.  *)
KnownWithinCap ==
    MaxOpen > 0 =>
        \A b \in Books : Cardinality(open[b] \ (late \cup Async)) <= MaxOpen

(* A command that had not passed its second look when the switch engaged   *)
(* sends nothing while it stays so, however long it waited for the lock.   *)
SwitchStopsCommands == \A c \in early : attempts[c] = 0

(* A command that waits for the account lock gets it or ends.              *)
LockPasses == \A c \in Commands : pc[c] = "lock" ~> pc[c] # "lock"
=============================================================================
