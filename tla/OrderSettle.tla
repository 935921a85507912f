---------------------------- MODULE OrderSettle ----------------------------
(***************************************************************************)
(* What is done about orders that are already placed: orders cancel and    *)
(* stop-orders cancel, which are tried again when an answer is lost and    *)
(* ask for the order's state when the broker no longer knows it, and       *)
(* orders wait, which polls until the order is final or time is up.        *)
(*                                                                         *)
(* The guardrails of a cancellation, which come first, are those of        *)
(* OrderAdmission.  Only wait looks at the clock; its ticks are the unit   *)
(* of the three durations below.                                           *)
(***************************************************************************)
EXTENDS Integers, Rpc

CONSTANTS Commands,
          KindOf,       \* Commands -> "cancel", "stop-cancel", "wait"
          Orders,
          OrderOf,      \* Commands -> the order whose id is given
          MaxAttempts,  \* RetryPolicy.MaxAttempts
          Interval,     \* waitFlow: interval
          Timeout,      \* waitFlow: timeout
          CallTime,     \* the longest a read takes
          MaxDay,       \* bound: the last UTC day
          MaxTime       \* bound: ticks

ASSUME SettleAssumption ==
    /\ KindOf \in [Commands -> {"cancel", "stop-cancel", "wait"}]
    /\ OrderOf \in [Commands -> Orders]
    /\ MaxAttempts \in Nat \ {0}
    /\ Interval \in Nat \ {0} /\ Timeout \in Nat /\ CallTime \in Nat
    /\ MaxDay \in Nat \ {0} /\ MaxTime \in Nat

VARIABLES
    status,    \* Orders -> its state at the broker; "none": no such id
    born,      \* Orders -> the day it was created
    endedAt,   \* Orders -> when it became final
    today,     \* the UTC day
    now,       \* the clock of wait
    pc,        \* Commands -> where the command is
    attempts,  \* Commands -> attempts of the cancellation
    sent,      \* Commands -> CallInfo.sent
    strays,    \* cancellations given up on that the broker may still process
    notFound,  \* Commands -> the cancellation was answered NOT_FOUND
    listedOn,  \* Commands -> the day its list was read; Never, Failed
    seen,      \* Commands -> the state the broker answers a poll with
    asked,     \* Commands -> when the poll, or the pause after it, began
    started,   \* Commands -> when wait began
    exit,      \* Commands -> how it ended
    exitAt     \* Commands -> when wait ended

broker   == <<status, born, endedAt>>
callVars == <<attempts, sent, strays, notFound>>
waitVars == <<seen, asked, started>>
ended    == <<exit, exitAt>>
vars     == <<broker, today, now, pc, callVars, listedOn, waitVars, ended>>

Live     == {"new", "partial"}
Terminal == {"filled", "cancelled", "rejected"}
Statuses == {"none", "pending"} \cup Live \cup Terminal

Never  == -1
Failed == -2

TypeOK ==
    /\ status \in [Orders -> Statuses]
    /\ born \in [Orders -> 0..MaxDay]
    /\ endedAt \in [Orders -> 0..MaxTime]
    /\ today \in 0..MaxDay
    /\ now \in 0..MaxTime
    /\ pc \in [Commands -> {"idle", "call", "get", "list", "ask", "answer", "pause",
                            "done"}]
    /\ attempts \in [Commands -> 0..MaxAttempts]
    /\ sent \in [Commands -> BOOLEAN]
    /\ strays \subseteq Commands
    /\ notFound \in [Commands -> BOOLEAN]
    /\ listedOn \in [Commands -> 0..MaxDay \cup {Never, Failed}]
    /\ seen \in [Commands -> Statuses \cup {"unknown"}]
    /\ asked \in [Commands -> 0..MaxTime]
    /\ started \in [Commands -> 0..MaxTime]
    /\ exit \in [Commands -> {"running", "TIMEOUT"} \cup ExitCodes]
    /\ exitAt \in [Commands -> 0..MaxTime]

(* Ids of live orders and of final ones, of today and of yesterday, of one *)
(* not accepted yet (asked for by request id), and ids that never were.    *)
Init ==
    /\ status \in [Orders -> Statuses \ {"partial", "rejected"}]
    /\ born \in [Orders -> {0, 1}]
    /\ endedAt = [o \in Orders |-> 0]
    /\ today = 1
    /\ now = 0
    /\ pc = [c \in Commands |-> "idle"]
    /\ attempts = [c \in Commands |-> 0]
    /\ sent = [c \in Commands |-> FALSE]
    /\ strays = {}
    /\ notFound = [c \in Commands |-> FALSE]
    /\ listedOn = [c \in Commands |-> Never]
    /\ seen = [c \in Commands |-> "unknown"]
    /\ asked = [c \in Commands |-> 0]
    /\ started = [c \in Commands |-> 0]
    /\ exit = [c \in Commands |-> "running"]
    /\ exitAt = [c \in Commands |-> 0]

-----------------------------------------------------------------------------
(* The broker.                                                             *)

Move(o, s) ==
    /\ status' = [status EXCEPT ![o] = s]
    /\ endedAt' = IF s \in Terminal THEN [endedAt EXCEPT ![o] = now] ELSE endedAt

OrderMoves(o) ==
    /\ \/ status[o] = "pending" /\ Move(o, "new")
       \/ status[o] \in {"pending", "new"} /\ Move(o, "rejected")
       \/ status[o] = "new" /\ Move(o, "partial")
       \/ status[o] \in Live /\ (Move(o, "filled") \/ Move(o, "cancelled"))
    /\ UNCHANGED <<born, today, now, pc, callVars, listedOn, waitVars, ended>>

(* CancelOrder, CancelStopOrder: a live order is cancelled, of any other   *)
(* the broker says that it does not know it.                               *)
Cancelled(o) ==
    IF status[o] \in Live THEN Move(o, "cancelled") ELSE UNCHANGED <<status, endedAt>>

(* A cancellation nobody waits for any more gets through after all.        *)
StrayArrives(c) ==
    /\ c \in strays
    /\ strays' = strays \ {c}
    /\ Cancelled(OrderOf[c])
    /\ UNCHANGED <<born, today, now, pc, attempts, sent, notFound, listedOn, waitVars,
                   ended>>

Midnight ==
    /\ today < MaxDay
    /\ today' = today + 1
    /\ UNCHANGED <<broker, now, pc, callVars, listedOn, waitVars, ended>>

-----------------------------------------------------------------------------
(* orders cancel, stop-orders cancel.                                      *)

Goto(c, place) == pc' = [pc EXCEPT ![c] = place] /\ UNCHANGED ended

Exit(c, code) ==
    /\ pc' = [pc EXCEPT ![c] = "done"]
    /\ exit' = [exit EXCEPT ![c] = code]
    /\ exitAt' = [exitAt EXCEPT ![c] = IF KindOf[c] = "wait" THEN now ELSE 0]

(* emitMutationResult: the order is cancelled, or was final already; an    *)
(* envelope that cannot be written makes it INTERNAL all the same.         *)
Emit(c) == \E code \in {"OK", "INTERNAL"} : Exit(c, code)

StartCancel(c) ==
    /\ KindOf[c] # "wait"
    /\ pc[c] = "idle"
    /\ Goto(c, "call")
    /\ UNCHANGED <<broker, today, now, callVars, listedOn, waitVars>>

Attempt(c) ==
    /\ pc[c] = "call"
    /\ attempts' = [attempts EXCEPT ![c] = @ + 1]

(* Mutant: one attempt too many.                                           *)
FailsOnceMore(c, e, phase) ==
    IF Retryable(e) /\ attempts[c] + 1 <= MaxAttempts
    THEN Goto(c, "call")
    ELSE Exit(c, Classify(e, phase))

(* An error the retry interceptor takes up again while attempts remain.    *)
Fails(c, e, phase) ==
    IF Retryable(e) /\ attempts[c] + 1 < MaxAttempts
    THEN Goto(c, "call")
    ELSE Exit(c, Classify(e, phase))

(* Mutant: an order the broker does not know is taken for a final one.     *)
LookUpNowhere(c) == Exit(c, "OK")

(* The broker answers.  NOT_FOUND sends the command to look for the order: *)
(* regular orders by id and then in the day's list, stop orders in the     *)
(* list of all.                                                            *)
LookUp(c) == Goto(c, IF KindOf[c] = "cancel" THEN "get" ELSE "list")

CancelAnswered(c) ==
    /\ Attempt(c)
    /\ sent' = [sent EXCEPT ![c] = TRUE]
    /\ Cancelled(OrderOf[c])
    /\ IF status[OrderOf[c]] \in Live
       THEN Emit(c) /\ UNCHANGED notFound
       ELSE LookUp(c) /\ notFound' = [notFound EXCEPT ![c] = TRUE]
    /\ UNCHANGED <<born, today, now, strays, listedOn, waitVars>>

(* The broker refuses without doing anything, and the command ends with    *)
(* that error: NOT_FOUND alone sends it to look for the order, so a final  *)
(* one is rejected out of hand when the broker says INVALID_ARGUMENT or    *)
(* FAILED_PRECONDITION of it.                                              *)
CancelRefused(c) ==
    /\ Attempt(c)
    /\ sent' = [sent EXCEPT ![c] = TRUE]
    /\ \E e \in ServerErrors \ {"duplicate"} : Fails(c, e, Phase(TRUE, TRUE))
    /\ UNCHANGED <<broker, today, now, strays, notFound, listedOn, waitVars>>

(* The answer is lost, or the request is and still finds its way; so it    *)
(* may be when the deadline over all attempts ends the call.               *)
CancelLost(c) ==
    /\ Attempt(c)
    /\ sent' = [sent EXCEPT ![c] = TRUE]
    /\ \/ Cancelled(OrderOf[c]) /\ UNCHANGED strays
       \/ strays' = strays \cup {c} /\ UNCHANGED <<status, endedAt>>
    /\ \E e \in {"connectionLost", "deadline"} : Fails(c, e, Phase(TRUE, FALSE))
    /\ UNCHANGED <<born, today, now, notFound, listedOn, waitVars>>

(* No connection, the local rate limiter, or a context that ended in the   *)
(* backoff: nothing goes out.                                              *)
CancelNotSent(c) ==
    /\ Attempt(c)
    /\ \E e \in {"connectionLost", "localLimit", "contextDone"} : Fails(c, e, Phase(sent[c], FALSE))
    /\ UNCHANGED <<broker, today, now, sent, strays, notFound, listedOn, waitVars>>

(* What a state found by the look-up makes of the NOT_FOUND.               *)
Settle(c, s) == IF s \in Terminal THEN Emit(c) ELSE Exit(c, "BROKER_REJECTED")

(* GetOrderState: the broker may have forgotten a final order.             *)
Remembers(o) == status[o] \in Live \cup Terminal
Forgets(o)   == status[o] \notin Live

(* Mutant: the day's list is not consulted.                                *)
GetForCancelOnly(c) ==
    /\ pc[c] = "get"
    /\ \/ Remembers(OrderOf[c]) /\ Settle(c, status[OrderOf[c]])
       \/ Forgets(OrderOf[c]) /\ Exit(c, "BROKER_REJECTED")
    /\ UNCHANGED <<broker, today, now, callVars, listedOn, waitVars>>

(* cancelSettledNote: whatever the read's error, the list is asked next.   *)
GetForCancel(c) ==
    /\ pc[c] = "get"
    /\ \/ Remembers(OrderOf[c]) /\ Settle(c, status[OrderOf[c]])
       \/ Goto(c, "list")
    /\ UNCHANGED <<broker, today, now, callVars, listedOn, waitVars>>

(* ListToday holds every order created today and no other; the list of all *)
(* stop orders is complete.                                                *)
Listed(c) ==
    /\ status[OrderOf[c]] \in Live \cup Terminal
    /\ KindOf[c] = "cancel" => born[OrderOf[c]] = today

ListForCancel(c) ==
    /\ pc[c] = "list"
    /\ listedOn' = [listedOn EXCEPT ![c] = today]
    /\ IF Listed(c) THEN Settle(c, status[OrderOf[c]]) ELSE Exit(c, "BROKER_REJECTED")
    /\ UNCHANGED <<broker, today, now, callVars, waitVars>>

ListFails(c) ==
    /\ pc[c] = "list"
    /\ listedOn' = [listedOn EXCEPT ![c] = Failed]
    /\ Exit(c, "BROKER_REJECTED")
    /\ UNCHANGED <<broker, today, now, callVars, waitVars>>

-----------------------------------------------------------------------------
(* orders wait.                                                            *)

Ask(c) ==
    /\ asked' = [asked EXCEPT ![c] = now]
    /\ seen' = [seen EXCEPT ![c] = "unknown"]

StartWait(c) ==
    /\ KindOf[c] = "wait"
    /\ pc[c] = "idle"
    /\ Goto(c, "ask")
    /\ Ask(c)
    /\ started' = [started EXCEPT ![c] = now]
    /\ UNCHANGED <<broker, today, now, callVars, listedOn>>

(* The broker looks at the order; its answer takes its time.               *)
PollReads(c) ==
    /\ pc[c] = "ask"
    /\ \/ Remembers(OrderOf[c]) /\ seen' = [seen EXCEPT ![c] = status[OrderOf[c]]]
       \/ Forgets(OrderOf[c]) /\ seen' = [seen EXCEPT ![c] = "none"]
    /\ Goto(c, "answer")
    /\ UNCHANGED <<broker, today, now, callVars, listedOn, asked, started>>

(* The read fails for good (retries are used up, or there is nothing to    *)
(* retry), or SIGINT cuts the read or the pause short.  One failed poll    *)
(* ends the command; NETWORK stands for its code, whichever it is.         *)
PollFails(c) ==
    /\ pc[c] \in {"ask", "answer", "pause"}
    /\ Exit(c, "NETWORK")
    /\ UNCHANGED <<broker, today, now, callVars, listedOn, waitVars>>

Over(c) == now >= started[c] + Timeout

(* Mutant: time is up before the answer is looked at.                      *)
PollAnsweredLate(c) ==
    /\ pc[c] = "answer"
    /\ \/ /\ Over(c)
          /\ Exit(c, "TIMEOUT")
          /\ UNCHANGED asked
       \/ /\ ~Over(c)
          /\ seen[c] \in Terminal \cup {"none"}
          /\ Exit(c, IF seen[c] = "none" THEN "BROKER_REJECTED" ELSE "OK")
          /\ UNCHANGED asked
       \/ /\ ~Over(c)
          /\ seen[c] \in Live
          /\ Goto(c, "pause")
          /\ asked' = [asked EXCEPT ![c] = now]
    /\ UNCHANGED <<broker, today, now, callVars, listedOn, seen, started>>

PollAnswered(c) ==
    /\ pc[c] = "answer"
    /\ \/ /\ seen[c] \in Terminal \cup {"none"}
          /\ Exit(c, IF seen[c] = "none" THEN "BROKER_REJECTED" ELSE "OK")
          /\ UNCHANGED asked
       \/ /\ seen[c] \in Live
          /\ Over(c)
          /\ Exit(c, "TIMEOUT")
          /\ UNCHANGED asked
       \/ /\ seen[c] \in Live
          /\ ~Over(c)
          /\ Goto(c, "pause")
          /\ asked' = [asked EXCEPT ![c] = now]
    /\ UNCHANGED <<broker, today, now, callVars, listedOn, seen, started>>

PollAgain(c) ==
    /\ pc[c] = "pause"
    /\ asked[c] + Interval <= now
    /\ Goto(c, "ask")
    /\ Ask(c)
    /\ UNCHANGED <<broker, today, now, callVars, listedOn, started>>

(* A read takes CallTime at most and the pause ends in time.               *)
Tick ==
    /\ now < MaxTime
    /\ \A c \in Commands :
         /\ pc[c] \in {"ask", "answer"} => now < asked[c] + CallTime
         /\ pc[c] = "pause" => now < asked[c] + Interval
    /\ now' = now + 1
    /\ UNCHANGED <<broker, today, pc, callVars, listedOn, waitVars, ended>>

-----------------------------------------------------------------------------
Cancel(c) ==
    \/ StartCancel(c)
    \/ CancelAnswered(c) \/ CancelRefused(c) \/ CancelLost(c) \/ CancelNotSent(c)
    \/ GetForCancel(c) \/ ListForCancel(c) \/ ListFails(c)

WaitFor(c) ==
    \/ StartWait(c)
    \/ PollReads(c) \/ PollFails(c) \/ PollAnswered(c) \/ PollAgain(c)

Next ==
    \/ \E c \in Commands : Cancel(c) \/ WaitFor(c) \/ StrayArrives(c)
    \/ \E o \in Orders : OrderMoves(o)
    \/ Midnight
    \/ Tick

Spec == Init /\ [][Next]_vars

-----------------------------------------------------------------------------
(* Properties.                                                             *)

(* A cancel that exits 0, at once, after retries or as a satisfied no-op,  *)
(* leaves an order that is final: not a live one, not an unknown id.       *)
CancelOkIsFinal ==
    \A c \in Commands :
        KindOf[c] # "wait" /\ exit[c] = "OK" => status[OrderOf[c]] \in Terminal

(* "Only a never-valid id stays exit 5", as far as it goes: cancel answers *)
(* a NOT_FOUND of a final order with exit 5 only if the list could not be  *)
(* read or does not reach back to the order's day; never because an        *)
(* earlier attempt of its own, another command or the exchange was faster. *)
(* A final order whose cancellation is refused for another reason is       *)
(* outside it: no state is asked for then (CancelRefused).                 *)
NotFoundIsUnknown ==
    [][\A c \in Commands : LET o == OrderOf[c] IN
         KindOf[c] # "wait" /\ notFound'[c]
             /\ exit[c] # "BROKER_REJECTED" /\ exit'[c] = "BROKER_REJECTED" =>
            \/ status[o] \notin Terminal
            \/ listedOn'[c] = Failed
            \/ KindOf[c] = "cancel" /\ listedOn'[c] \notin {Never, born[o]}]_vars

(* wait reports success of a final order only, and gives up on one that    *)
(* was not final when its last poll began.                                 *)
WaitIsTruthful ==
    \A c \in Commands : LET o == OrderOf[c] IN
        KindOf[c] = "wait" =>
            /\ exit[c] = "OK" => status[o] \in Terminal
            /\ exit[c] = "TIMEOUT" =>
                 status[o] \notin Terminal \/ endedAt[o] + CallTime >= exitAt[c]
=============================================================================
