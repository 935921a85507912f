------------------------- MODULE SeveralCallsProofs -------------------------
(***************************************************************************)
(* For any commands, orders, retry limit and durations: OrderSettle is     *)
(* well typed, a cancel's OK and a wait's answer are true, and so is the   *)
(* rejection a cancel makes of NOT_FOUND, but for the two cases that the   *)
(* property names.  For any cursors, ranges, calendar and downloads: what  *)
(* BulkReads reports as whole is whole.                                    *)
(*                                                                         *)
(* A final order stays as it is (OrdersKeep).  So an exit code only has to *)
(* be true when it is given (ExitsKeep), and what a poll has read only as  *)
(* late as its answer is looked at (PollKnows).  The three bulk reads have *)
(* an invariant each (ListInv, ChartInv, DownloadInv): pages read are      *)
(* cursors seen, windows follow each other, and a download that is under   *)
(* way or whole is what is at the path.                                    *)
(***************************************************************************)
EXTENDS SeveralCallsMC, SequenceTheorems, WellFoundedInduction, TLAPS

Places  == {"idle", "call", "get", "list", "ask", "answer", "pause", "done"}
Polling == {"ask", "answer", "pause"}

(* Where a command is says what it has used up and what it can be.         *)
PlaceOf(c) ==
    /\ pc[c] = "idle" => attempts[c] = 0
    /\ pc[c] = "call" => attempts[c] < MaxAttempts
    /\ pc[c] \in {"idle", "call"} => ~notFound[c]
    /\ pc[c] \in Polling => KindOf[c] = "wait"
    /\ pc[c] # "done" => exit[c] = "running"
PlaceInv == \A c \in Commands : PlaceOf(c)

InTime(c) ==
    /\ asked[c] <= now
    /\ exitAt[c] <= now
    /\ pc[c] \in {"ask", "answer"} => now <= asked[c] + CallTime
TimeInv == \A c \in Commands : InTime(c)

(* What the state a poll has read still says of the order.                 *)
PollKnows(c) ==
    pc[c] = "answer" =>
        /\ seen[c] \in Terminal => status[OrderOf[c]] \in Terminal
        /\ seen[c] \in Live =>
             \/ status[OrderOf[c]] \notin Terminal
             \/ endedAt[OrderOf[c]] >= asked[c]
PollInv == \A c \in Commands : PollKnows(c)

IInv == TypeOK /\ PlaceInv /\ TimeInv /\ PollInv /\ CancelOkIsFinal /\ WaitIsTruthful

-----------------------------------------------------------------------------
(* No error a cancellation ends with is reported as an OK or a timeout.    *)
LEMMA ErrorCodes ==
    ASSUME NEW e \in CallErrors, NEW phase
    PROVE  Classify(e, phase) \in ExitCodes \ {"OK"}
BY DEF Classify, CallErrors, ServerErrors, LocalErrors, ExitCodes

(* What Exit writes, for any code.                                         *)
LEMMA ExitWrites ==
    ASSUME TypeOK, NEW c \in Commands, NEW code \in {"TIMEOUT"} \cup ExitCodes, Exit(c, code)
    PROVE  /\ pc' \in [Commands -> Places]
           /\ exit' \in [Commands -> {"running", "TIMEOUT"} \cup ExitCodes]
           /\ exitAt' \in [Commands -> 0..MaxTime]
           /\ pc'[c] = "done" /\ exit'[c] = code /\ exitAt'[c] \in {0, now}
           /\ KindOf[c] = "wait" => exitAt'[c] = now
           /\ \A d \in Commands \ {c} :
                pc'[d] = pc[d] /\ exit'[d] = exit[d] /\ exitAt'[d] = exitAt[d]
BY SettleAssumption DEF SettleAssumption, TypeOK, Exit, Places

LEMMA GotoWrites ==
    ASSUME TypeOK, NEW c \in Commands, Goto(c, "call") \/ Goto(c, "get") \/ Goto(c, "list")
                                       \/ Goto(c, "ask") \/ Goto(c, "answer") \/ Goto(c, "pause")
    PROVE  /\ pc' \in [Commands -> Places]
           /\ UNCHANGED <<exit, exitAt>>
           /\ \A d \in Commands \ {c} : pc'[d] = pc[d]
BY DEF TypeOK, Goto, ended, Places

(* The two ways a failed attempt can go.                                   *)
LEMMA FailsWrites ==
    ASSUME NEW c \in Commands, NEW e \in CallErrors, NEW phase, Fails(c, e, phase)
    PROVE  \/ Goto(c, "call") /\ attempts[c] + 1 < MaxAttempts
           \/ \E code \in ExitCodes \ {"OK"} : Exit(c, code)
BY ErrorCodes DEF Fails

(* The errors that the steps of a cancellation end with.                   *)
LEMMA CallErrorsAre ==
    (ServerErrors \ {"duplicate"}) \cup {"connectionLost", "deadline", "localLimit",
                                         "contextDone"} \subseteq CallErrors
BY DEF CallErrors, ServerErrors, LocalErrors

LEMMA MoveWrites ==
    ASSUME TypeOK, NEW o \in Orders, NEW s \in Statuses, Move(o, s)
    PROVE  /\ status' \in [Orders -> Statuses] /\ endedAt' \in [Orders -> 0..MaxTime]
           /\ status'[o] = s /\ (s \in Terminal => endedAt'[o] = now)
           /\ \A x \in Orders \ {o} : status'[x] = status[x] /\ endedAt'[x] = endedAt[x]
BY DEF TypeOK, Move

-----------------------------------------------------------------------------
(* What a step does to the orders: nothing to a final one, and one that    *)
(* becomes final does so now.                                              *)
OrdersKeep ==
    /\ status' \in [Orders -> Statuses] /\ endedAt' \in [Orders -> 0..MaxTime]
    /\ \A o \in Orders :
         \/ status'[o] = status[o] /\ endedAt'[o] = endedAt[o]
         \/ status[o] \notin Terminal /\ (status'[o] \in Terminal => endedAt'[o] = now)

LEMMA UntouchedKeeps ==
    ASSUME TypeOK, UNCHANGED <<status, endedAt>> PROVE OrdersKeep
BY DEF TypeOK, OrdersKeep

LEMMA CancelledKeeps ==
    ASSUME TypeOK, NEW o \in Orders, Cancelled(o) PROVE OrdersKeep
<1>1. CASE status[o] \in Live
  <2>1. Move(o, "cancelled") /\ "cancelled" \in Statuses /\ status[o] \notin Terminal
    BY <1>1 DEF Cancelled, Statuses, Terminal, Live
  <2> QED BY <2>1, MoveWrites DEF OrdersKeep
<1>2. CASE status[o] \notin Live
  BY <1>2, UntouchedKeeps DEF Cancelled
<1> QED BY <1>1, <1>2

LEMMA OrdersStep ==
    ASSUME TypeOK, [Next]_vars PROVE OrdersKeep
<1>1. ASSUME NEW c \in Commands, Cancel(c) \/ WaitFor(c) \/ StrayArrives(c) PROVE OrdersKeep
  <2>1. OrderOf[c] \in Orders
    BY SettleAssumption DEF SettleAssumption
  <2>2. CASE CancelAnswered(c) \/ CancelLost(c) \/ StrayArrives(c)
    <3>1. Cancelled(OrderOf[c]) \/ UNCHANGED <<status, endedAt>>
      BY <2>2 DEF CancelAnswered, CancelLost, StrayArrives
    <3> QED BY <2>1, <3>1, CancelledKeeps, UntouchedKeeps
  <2>3. CASE \/ StartCancel(c) \/ CancelRefused(c) \/ CancelNotSent(c) \/ GetForCancel(c)
             \/ ListForCancel(c) \/ ListFails(c) \/ WaitFor(c)
    <3>1. UNCHANGED <<status, endedAt>>
      BY <2>3 DEF StartCancel, CancelRefused, CancelNotSent, GetForCancel, ListForCancel,
                  ListFails, WaitFor, StartWait, PollReads, PollFails, PollAnswered, PollAgain,
                  broker
    <3> QED BY <3>1, UntouchedKeeps
  <2> QED BY <1>1, <2>2, <2>3 DEF Cancel
<1>2. ASSUME NEW o \in Orders, OrderMoves(o) PROVE OrdersKeep
  <2>1. PICK s \in Statuses : Move(o, s) /\ status[o] \notin Terminal
    BY <1>2 DEF OrderMoves, Statuses, Terminal, Live
  <2> QED BY <2>1, MoveWrites DEF OrdersKeep
<1>3. CASE Midnight \/ Tick \/ UNCHANGED vars
  <2>1. UNCHANGED <<status, endedAt>>
    BY <1>3 DEF Midnight, Tick, vars, broker
  <2> QED BY <2>1, UntouchedKeeps
<1> QED BY <1>1, <1>2, <1>3 DEF Next

-----------------------------------------------------------------------------
(* What a step of one command leaves of the others.                        *)
OthersStay(c) ==
    \A d \in Commands \ {c} :
        /\ pc'[d] = pc[d] /\ attempts'[d] = attempts[d] /\ notFound'[d] = notFound[d]
        /\ exit'[d] = exit[d] /\ exitAt'[d] = exitAt[d]
        /\ seen'[d] = seen[d] /\ asked'[d] = asked[d] /\ started'[d] = started[d]

(* An exit code that is true when it is given.                             *)
Justified(c, code) ==
    /\ code = "OK" => status'[OrderOf[c]] \in Terminal
    /\ code = "BROKER_REJECTED" /\ KindOf[c] # "wait" /\ notFound'[c] =>
         \/ status[OrderOf[c]] \notin Terminal
         \/ listedOn'[c] = Failed
         \/ KindOf[c] = "cancel" /\ listedOn'[c] \notin {Never, born[OrderOf[c]]}

ExitsKeep(c) ==
    \/ exit'[c] = exit[c] /\ exitAt'[c] = exitAt[c]
    \/ /\ exit[c] = "running" /\ exit'[c] # "running"
       /\ exitAt'[c] \in {0, now}
       /\ Justified(c, exit'[c])
       /\ exit'[c] = "TIMEOUT" =>
            /\ pc[c] = "answer" /\ seen[c] \in Live
            /\ exitAt'[c] = now
            /\ UNCHANGED <<status, endedAt>>

(* A step of a command, as far as the invariants are concerned.            *)
Step(c) ==
    /\ UNCHANGED <<today, now, born>>
    /\ pc' \in [Commands -> Places]
    /\ attempts' \in [Commands -> 0..MaxAttempts]
    /\ sent' \in [Commands -> BOOLEAN]
    /\ strays' \subseteq Commands
    /\ notFound' \in [Commands -> BOOLEAN]
    /\ listedOn' \in [Commands -> 0..MaxDay \cup {Never, Failed}]
    /\ seen' \in [Commands -> Statuses \cup {"unknown"}]
    /\ asked' \in [Commands -> 0..MaxTime]
    /\ started' \in [Commands -> 0..MaxTime]
    /\ exit' \in [Commands -> {"running", "TIMEOUT"} \cup ExitCodes]
    /\ exitAt' \in [Commands -> 0..MaxTime]
    /\ OthersStay(c)
    /\ PlaceOf(c)'
    /\ ExitsKeep(c)
    /\ \/ asked'[c] = asked[c] /\ (pc'[c] \in {"ask", "answer"} => pc[c] \in {"ask", "answer"})
       \/ asked'[c] = now
    /\ pc'[c] = "answer" =>
         /\ asked'[c] = asked[c]
         /\ seen'[c] \in Live \cup Terminal => seen'[c] = status[OrderOf[c]]
         /\ UNCHANGED <<status, endedAt>>

(* A cancellation's attempt that ends with an error.                       *)
LEMMA FailedAttempt ==
    ASSUME TypeOK, PlaceInv, NEW c \in Commands, Attempt(c),
           NEW e \in CallErrors, NEW phase, Fails(c, e, phase),
           sent' \in [Commands -> BOOLEAN], strays' \subseteq Commands,
           UNCHANGED <<born, today, now, notFound, listedOn, waitVars>>
    PROVE  Step(c)
<1>1. /\ attempts[c] < MaxAttempts /\ attempts[c] \in Nat /\ MaxAttempts \in Nat
      /\ exit[c] = "running" /\ pc[c] = "call"
      /\ notFound \in [Commands -> BOOLEAN] /\ ~notFound[c]
  BY SettleAssumption DEF SettleAssumption, PlaceInv, PlaceOf, Attempt, TypeOK
<1>2. /\ attempts' \in [Commands -> 0..MaxAttempts]
      /\ attempts'[c] = attempts[c] + 1
      /\ \A d \in Commands \ {c} : attempts'[d] = attempts[d]
  BY <1>1 DEF Attempt, TypeOK
<1>3. UNCHANGED <<born, today, now, notFound, listedOn, seen, asked, started>>
  BY DEF waitVars
<1>4. /\ listedOn \in [Commands -> 0..MaxDay \cup {Never, Failed}]
      /\ seen \in [Commands -> Statuses \cup {"unknown"}]
      /\ asked \in [Commands -> 0..MaxTime] /\ started \in [Commands -> 0..MaxTime]
      /\ exit \in [Commands -> {"running", "TIMEOUT"} \cup ExitCodes]
      /\ exitAt \in [Commands -> 0..MaxTime] /\ pc \in [Commands -> Places]
  BY DEF TypeOK, Places
<1>5. CASE Goto(c, "call") /\ attempts[c] + 1 < MaxAttempts
  <2>1. pc'[c] = "call" /\ exit' = exit /\ exitAt' = exitAt
    BY <1>4, <1>5 DEF Goto, ended
  <2>2. PlaceOf(c)'
    BY <1>1, <1>2, <1>3, <1>5, <2>1 DEF PlaceOf, Polling
  <2>3. /\ pc' \in [Commands -> Places]
        /\ \A d \in Commands \ {c} : pc'[d] = pc[d]
    BY <1>5, GotoWrites
  <2>4. OthersStay(c)
    BY <1>2, <1>3, <2>1, <2>3 DEF OthersStay
  <2>5. ExitsKeep(c)
    BY <2>1 DEF ExitsKeep
  <2> QED BY <1>1, <1>2, <1>3, <1>4, <2>1, <2>2, <2>3, <2>4, <2>5 DEF Step
<1>6. ASSUME NEW code \in ExitCodes \ {"OK"}, Exit(c, code) PROVE Step(c)
  <2>1. /\ pc' \in [Commands -> Places]
        /\ exit' \in [Commands -> {"running", "TIMEOUT"} \cup ExitCodes]
        /\ exitAt' \in [Commands -> 0..MaxTime]
        /\ pc'[c] = "done" /\ exit'[c] = code /\ exitAt'[c] \in {0, now}
        /\ \A d \in Commands \ {c} : pc'[d] = pc[d] /\ exit'[d] = exit[d] /\ exitAt'[d] = exitAt[d]
    BY <1>6, ExitWrites
  <2>2. code \notin {"running", "OK", "TIMEOUT"}
    BY <1>6 DEF ExitCodes
  <2>3. PlaceOf(c)'
    BY <2>1 DEF PlaceOf, Polling
  <2>4. OthersStay(c)
    BY <1>2, <1>3, <2>1 DEF OthersStay
  <2>5. ExitsKeep(c)
    BY <1>1, <1>3, <2>1, <2>2 DEF ExitsKeep, Justified
  <2> QED BY <1>1, <1>2, <1>3, <1>4, <2>1, <2>3, <2>4, <2>5 DEF Step
<1> QED BY <1>5, <1>6, FailsWrites

(* Any other step of a cancellation: it goes on, looks up or ends.         *)
LEMMA SettledStep ==
    ASSUME TypeOK, PlaceInv, NEW c \in Commands, pc[c] \in {"idle", "call", "get", "list"},
           \/ pc[c] = "idle" /\ Goto(c, "call") /\ UNCHANGED <<attempts, notFound>>
           \/ Goto(c, "get") \/ Goto(c, "list")
           \/ \E code \in {"OK", "INTERNAL", "BROKER_REJECTED"} : Exit(c, code) /\ Justified(c, code),
           listedOn' \in [Commands -> 0..MaxDay \cup {Never, Failed}],
           attempts' \in [Commands -> 0..MaxAttempts],
           notFound' \in [Commands -> BOOLEAN],
           \A d \in Commands \ {c} : attempts'[d] = attempts[d] /\ notFound'[d] = notFound[d],
           sent' \in [Commands -> BOOLEAN], strays' \subseteq Commands,
           UNCHANGED <<born, today, now, waitVars>>
    PROVE  Step(c)
<1>1. /\ MaxAttempts \in Nat \ {0} /\ exit[c] = "running"
      /\ pc[c] = "idle" => attempts[c] = 0 /\ ~notFound[c]
  BY SettleAssumption DEF SettleAssumption, PlaceInv, PlaceOf
<1>2. UNCHANGED <<born, today, now, seen, asked, started>>
  BY DEF waitVars
<1>3. /\ seen \in [Commands -> Statuses \cup {"unknown"}]
      /\ asked \in [Commands -> 0..MaxTime] /\ started \in [Commands -> 0..MaxTime]
      /\ exit \in [Commands -> {"running", "TIMEOUT"} \cup ExitCodes]
      /\ exitAt \in [Commands -> 0..MaxTime] /\ pc \in [Commands -> Places]
  BY DEF TypeOK, Places
<1>4. CASE \/ pc[c] = "idle" /\ Goto(c, "call") /\ UNCHANGED <<attempts, notFound>>
           \/ Goto(c, "get") \/ Goto(c, "list")
  <2>1. pc'[c] \in {"call", "get", "list"} /\ exit' = exit /\ exitAt' = exitAt
    BY <1>3, <1>4 DEF Goto, ended
  <2>2. pc'[c] = "call" => pc[c] = "idle" /\ attempts' = attempts /\ notFound' = notFound
    BY <1>3, <1>4 DEF Goto
  <2>3. PlaceOf(c)'
    BY <1>1, <2>1, <2>2 DEF PlaceOf, Polling
  <2>4. pc' \in [Commands -> Places] /\ \A d \in Commands \ {c} : pc'[d] = pc[d]
    BY <1>4, GotoWrites
  <2>5. OthersStay(c) /\ ExitsKeep(c)
    BY <1>2, <2>1, <2>4 DEF OthersStay, ExitsKeep
  <2> QED BY <1>2, <1>3, <2>1, <2>3, <2>4, <2>5 DEF Step
<1>5. ASSUME NEW code \in {"OK", "INTERNAL", "BROKER_REJECTED"}, Exit(c, code), Justified(c, code)
      PROVE  Step(c)
  <2>1. code \in {"TIMEOUT"} \cup ExitCodes
    BY <1>5 DEF ExitCodes
  <2>2. /\ pc' \in [Commands -> Places]
        /\ exit' \in [Commands -> {"running", "TIMEOUT"} \cup ExitCodes]
        /\ exitAt' \in [Commands -> 0..MaxTime]
        /\ pc'[c] = "done" /\ exit'[c] = code /\ exitAt'[c] \in {0, now}
        /\ \A d \in Commands \ {c} : pc'[d] = pc[d] /\ exit'[d] = exit[d] /\ exitAt'[d] = exitAt[d]
    BY <1>5, <2>1, ExitWrites
  <2>3. PlaceOf(c)'
    BY <2>2 DEF PlaceOf, Polling
  <2>4. OthersStay(c)
    BY <1>2, <2>2 DEF OthersStay
  <2>5. ExitsKeep(c)
    BY <1>1, <1>5, <2>2 DEF ExitsKeep, Justified
  <2> QED BY <1>2, <1>3, <2>2, <2>3, <2>4, <2>5 DEF Step
<1> QED BY <1>4, <1>5

LEMMA CancelStep ==
    ASSUME TypeOK, PlaceInv, NEW c \in Commands, Cancel(c) PROVE Step(c)
<1> DEFINE o == OrderOf[c]
<1>1. /\ KindOf[c] \in {"cancel", "stop-cancel", "wait"} /\ o \in Orders
      /\ today \in 0..MaxDay /\ MaxDay \in Nat
  BY SettleAssumption DEF SettleAssumption, TypeOK
<1>2. /\ sent \in [Commands -> BOOLEAN] /\ strays \subseteq Commands
      /\ notFound \in [Commands -> BOOLEAN]
      /\ listedOn \in [Commands -> 0..MaxDay \cup {Never, Failed}]
      /\ attempts \in [Commands -> 0..MaxAttempts]
  BY DEF TypeOK
<1>3. CASE StartCancel(c)
  <2>1. /\ pc[c] = "idle" /\ Goto(c, "call")
        /\ UNCHANGED <<born, today, now, attempts, sent, strays, notFound, listedOn, waitVars>>
    BY <1>3 DEF StartCancel, callVars, broker
  <2> QED BY <1>2, <2>1, SettledStep
<1>4. CASE CancelAnswered(c)
  <2>1. /\ attempts[c] < MaxAttempts /\ attempts[c] \in Nat /\ MaxAttempts \in Nat
        /\ pc[c] = "call"
    BY <1>2, <1>4, SettleAssumption
       DEF CancelAnswered, Attempt, SettleAssumption, PlaceInv, PlaceOf
  <2>2. /\ attempts' \in [Commands -> 0..MaxAttempts]
        /\ \A d \in Commands \ {c} : attempts'[d] = attempts[d]
    BY <1>2, <1>4, <2>1 DEF CancelAnswered, Attempt
  <2>3. /\ sent' \in [Commands -> BOOLEAN] /\ strays' \subseteq Commands
        /\ notFound' \in [Commands -> BOOLEAN]
        /\ \A d \in Commands \ {c} : notFound'[d] = notFound[d]
        /\ listedOn' \in [Commands -> 0..MaxDay \cup {Never, Failed}]
        /\ UNCHANGED <<born, today, now, waitVars>>
    BY <1>2, <1>4 DEF CancelAnswered
  <2>4. CASE status[o] \in Live
    <3>1. Emit(c) /\ Move(o, "cancelled")
      BY <1>4, <2>4 DEF CancelAnswered, Cancelled
    <3>2. status'[o] \in Terminal
      BY <1>1, <3>1, MoveWrites DEF Statuses, Terminal
    <3>3. \E code \in {"OK", "INTERNAL", "BROKER_REJECTED"} : Exit(c, code) /\ Justified(c, code)
      BY <3>1, <3>2 DEF Emit, Justified
    <3> QED BY <2>1, <2>2, <2>3, <3>1, <3>3, SettledStep
  <2>5. CASE status[o] \notin Live
    <3>1. Goto(c, "get") \/ Goto(c, "list")
      BY <1>4, <2>5 DEF CancelAnswered, LookUp
    <3> QED BY <2>1, <2>2, <2>3, <3>1, SettledStep
  <2> QED BY <2>4, <2>5
<1>5. CASE CancelRefused(c) \/ CancelLost(c) \/ CancelNotSent(c)
  <2>1. PICK e \in CallErrors : \E phase : Fails(c, e, phase)
    BY <1>5, CallErrorsAre DEF CancelRefused, CancelLost, CancelNotSent
  <2>2. /\ Attempt(c) /\ sent' \in [Commands -> BOOLEAN] /\ strays' \subseteq Commands
        /\ UNCHANGED <<born, today, now, notFound, listedOn, waitVars>>
    BY <1>2, <1>5 DEF CancelRefused, CancelLost, CancelNotSent, broker
  <2> QED BY <2>1, <2>2, FailedAttempt
<1>6. CASE GetForCancel(c)
  <2>1. /\ pc[c] = "get" /\ UNCHANGED <<status, born, today, now, callVars, listedOn, waitVars>>
    BY <1>6 DEF GetForCancel, broker
  <2>2. \/ Goto(c, "list")
        \/ \E code \in {"OK", "INTERNAL", "BROKER_REJECTED"} :
              Exit(c, code) /\ Justified(c, code)
    BY <1>6, <2>1 DEF GetForCancel, Settle, Emit, Justified
  <2> QED BY <1>2, <2>1, <2>2, SettledStep DEF callVars
<1>7. CASE ListForCancel(c)
  <2>1. /\ pc[c] = "list" /\ UNCHANGED <<status, born, today, now, callVars, waitVars>>
        /\ listedOn' = [listedOn EXCEPT ![c] = today]
    BY <1>7 DEF ListForCancel, broker
  <2>2. /\ listedOn'[c] = today /\ today # Never
        /\ listedOn' \in [Commands -> 0..MaxDay \cup {Never, Failed}]
    BY <1>1, <1>2, <2>1 DEF Never
  <2>3. \E code \in {"OK", "INTERNAL", "BROKER_REJECTED"} : Exit(c, code) /\ Justified(c, code)
    <3>1. CASE Listed(c)
      BY <1>7, <2>1, <3>1 DEF ListForCancel, Settle, Emit, Justified
    <3>2. CASE ~Listed(c)
      <4>1. Justified(c, "BROKER_REJECTED")
        BY <1>1, <2>2, <3>2 DEF Listed, Justified
      <4> QED BY <1>7, <3>2, <4>1 DEF ListForCancel
    <3> QED BY <3>1, <3>2
  <2> QED BY <1>2, <2>1, <2>2, <2>3, SettledStep DEF callVars
<1>8. CASE ListFails(c)
  <2>1. /\ pc[c] = "list" /\ UNCHANGED <<born, today, now, callVars, waitVars>>
        /\ listedOn' = [listedOn EXCEPT ![c] = Failed]
        /\ Exit(c, "BROKER_REJECTED")
    BY <1>8 DEF ListFails, broker
  <2>2. /\ listedOn'[c] = Failed
        /\ listedOn' \in [Commands -> 0..MaxDay \cup {Never, Failed}]
    BY <1>2, <2>1
  <2>3. Justified(c, "BROKER_REJECTED")
    BY <2>2 DEF Justified
  <2> QED BY <1>2, <2>1, <2>2, <2>3, SettledStep DEF callVars
<1> QED BY <1>3, <1>4, <1>5, <1>6, <1>7, <1>8 DEF Cancel

(* A step of a wait: it goes on to a place or ends.                        *)
LEMMA WaitingStep ==
    ASSUME TypeOK, PlaceInv, NEW c \in Commands, KindOf[c] = "wait", pc[c] # "done",
           \/ /\ Goto(c, "ask") \/ Goto(c, "answer") \/ Goto(c, "pause")
              /\ \/ asked'[c] = asked[c]
                    /\ (pc'[c] \in {"ask", "answer"} => pc[c] \in {"ask", "answer"})
                 \/ asked'[c] = now
              /\ pc'[c] = "answer" =>
                   /\ asked'[c] = asked[c]
                   /\ seen'[c] \in Live \cup Terminal => seen'[c] = status[OrderOf[c]]
           \/ /\ \E code \in {"TIMEOUT"} \cup ExitCodes :
                   /\ Exit(c, code)
                   /\ code = "OK" => status[OrderOf[c]] \in Terminal
                   /\ code = "TIMEOUT" => pc[c] = "answer" /\ seen[c] \in Live
              /\ asked'[c] = asked[c],
           seen' \in [Commands -> Statuses \cup {"unknown"}],
           asked' \in [Commands -> 0..MaxTime], started' \in [Commands -> 0..MaxTime],
           \A d \in Commands \ {c} :
               seen'[d] = seen[d] /\ asked'[d] = asked[d] /\ started'[d] = started[d],
           UNCHANGED <<broker, today, now, callVars, listedOn>>
    PROVE  Step(c)
<1>1. UNCHANGED <<status, endedAt, born, today, now, attempts, sent, strays, notFound, listedOn>>
  BY DEF broker, callVars
<1>2. /\ attempts \in [Commands -> 0..MaxAttempts] /\ sent \in [Commands -> BOOLEAN]
      /\ strays \subseteq Commands /\ notFound \in [Commands -> BOOLEAN]
      /\ listedOn \in [Commands -> 0..MaxDay \cup {Never, Failed}]
      /\ exit \in [Commands -> {"running", "TIMEOUT"} \cup ExitCodes]
      /\ exitAt \in [Commands -> 0..MaxTime] /\ pc \in [Commands -> Places]
      /\ exit[c] = "running"
  BY DEF TypeOK, Places, PlaceInv, PlaceOf
<1>3. ASSUME Goto(c, "ask") \/ Goto(c, "answer") \/ Goto(c, "pause"),
             \/ asked'[c] = asked[c]
                /\ (pc'[c] \in {"ask", "answer"} => pc[c] \in {"ask", "answer"})
             \/ asked'[c] = now,
             pc'[c] = "answer" =>
                 /\ asked'[c] = asked[c]
                 /\ seen'[c] \in Live \cup Terminal => seen'[c] = status[OrderOf[c]]
      PROVE  Step(c)
  <2>1. pc'[c] \in Polling /\ exit' = exit /\ exitAt' = exitAt
    BY <1>2, <1>3 DEF Goto, ended, Polling
  <2>2. PlaceOf(c)'
    BY <1>2, <2>1 DEF PlaceOf, Polling
  <2>3. pc' \in [Commands -> Places] /\ \A d \in Commands \ {c} : pc'[d] = pc[d]
    BY <1>3, GotoWrites
  <2>4. OthersStay(c) /\ ExitsKeep(c)
    BY <1>1, <2>1, <2>3 DEF OthersStay, ExitsKeep
  <2> QED BY <1>1, <1>2, <1>3, <2>1, <2>2, <2>3, <2>4 DEF Step
<1>4. ASSUME NEW code \in {"TIMEOUT"} \cup ExitCodes, Exit(c, code), asked'[c] = asked[c],
             code = "OK" => status[OrderOf[c]] \in Terminal,
             code = "TIMEOUT" => pc[c] = "answer" /\ seen[c] \in Live
      PROVE  Step(c)
  <2>1. /\ pc' \in [Commands -> Places]
        /\ exit' \in [Commands -> {"running", "TIMEOUT"} \cup ExitCodes]
        /\ exitAt' \in [Commands -> 0..MaxTime]
        /\ pc'[c] = "done" /\ exit'[c] = code /\ exitAt'[c] = now
        /\ \A d \in Commands \ {c} : pc'[d] = pc[d] /\ exit'[d] = exit[d] /\ exitAt'[d] = exitAt[d]
    BY <1>4, ExitWrites
  <2>2. PlaceOf(c)'
    BY <2>1 DEF PlaceOf, Polling
  <2>3. OthersStay(c)
    BY <1>1, <2>1 DEF OthersStay
  <2>4. Justified(c, code) /\ code # "running"
    BY <1>1, <1>4 DEF Justified, ExitCodes
  <2>5. ExitsKeep(c)
    BY <1>1, <1>2, <1>4, <2>1, <2>4 DEF ExitsKeep
  <2> QED BY <1>1, <1>2, <1>4, <2>1, <2>2, <2>3, <2>5 DEF Step
<1> QED BY <1>3, <1>4

LEMMA WaitStep ==
    ASSUME TypeOK, PlaceInv, PollInv, NEW c \in Commands, WaitFor(c) PROVE Step(c)
<1>1. /\ seen \in [Commands -> Statuses \cup {"unknown"}] /\ now \in 0..MaxTime
      /\ asked \in [Commands -> 0..MaxTime] /\ started \in [Commands -> 0..MaxTime]
      /\ status \in [Orders -> Statuses] /\ OrderOf[c] \in Orders
      /\ pc \in [Commands -> Places]
  BY SettleAssumption DEF TypeOK, SettleAssumption, Places
<1>2. pc[c] \in Polling => KindOf[c] = "wait"
  BY DEF PlaceInv, PlaceOf
<1>3. ASSUME Ask(c)
      PROVE  /\ seen' \in [Commands -> Statuses \cup {"unknown"}]
             /\ asked' \in [Commands -> 0..MaxTime] /\ asked'[c] = now
             /\ \A d \in Commands \ {c} : seen'[d] = seen[d] /\ asked'[d] = asked[d]
  BY <1>1, <1>3 DEF Ask
<1>4. CASE StartWait(c)
  <2>1. /\ KindOf[c] = "wait" /\ pc[c] # "done" /\ Goto(c, "ask") /\ Ask(c)
        /\ UNCHANGED <<broker, today, now, callVars, listedOn>>
        /\ started' = [started EXCEPT ![c] = now]
    BY <1>4 DEF StartWait
  <2>2. pc'[c] = "ask"
    BY <1>1, <2>1 DEF Goto
  <2>3. /\ started' \in [Commands -> 0..MaxTime]
        /\ \A d \in Commands \ {c} : started'[d] = started[d]
    BY <1>1, <2>1
  <2> QED BY <1>3, <2>1, <2>2, <2>3, WaitingStep
<1>5. CASE PollReads(c)
  <2>1. /\ KindOf[c] = "wait" /\ pc[c] = "ask" /\ Goto(c, "answer")
        /\ UNCHANGED <<broker, today, now, callVars, listedOn, asked, started>>
    BY <1>2, <1>5 DEF PollReads, Polling
  <2>2. /\ seen' \in [Commands -> Statuses \cup {"unknown"}]
        /\ \A d \in Commands \ {c} : seen'[d] = seen[d]
        /\ seen'[c] \in {status[OrderOf[c]], "none"}
    BY <1>1, <1>5 DEF PollReads, Statuses
  <2>3. "none" \notin Live \cup Terminal
    BY DEF Live, Terminal
  <2> QED BY <1>1, <2>1, <2>2, <2>3, WaitingStep
<1>6. CASE PollFails(c)
  <2>1. /\ KindOf[c] = "wait" /\ pc[c] # "done" /\ Exit(c, "NETWORK")
        /\ UNCHANGED <<broker, today, now, callVars, listedOn, seen, asked, started>>
    BY <1>2, <1>6 DEF PollFails, Polling, waitVars
  <2> QED BY <1>1, <2>1, WaitingStep DEF ExitCodes
<1>7. CASE PollAnswered(c)
  <2>1. /\ KindOf[c] = "wait" /\ pc[c] = "answer"
        /\ UNCHANGED <<broker, today, now, callVars, listedOn, seen, started>>
    BY <1>2, <1>7 DEF PollAnswered, Polling
  <2>2. seen[c] \in Terminal => status[OrderOf[c]] \in Terminal
    BY <2>1 DEF PollInv, PollKnows
  <2>3. CASE seen[c] \in Terminal \cup {"none"} /\ UNCHANGED asked
             /\ Exit(c, IF seen[c] = "none" THEN "BROKER_REJECTED" ELSE "OK")
    <3>1. \E code \in {"TIMEOUT"} \cup ExitCodes :
            /\ Exit(c, code)
            /\ code = "OK" => status[OrderOf[c]] \in Terminal
            /\ code # "TIMEOUT"
      BY <2>2, <2>3 DEF ExitCodes
    <3> QED BY <1>1, <2>1, <2>3, <3>1, WaitingStep
  <2>4. CASE seen[c] \in Live /\ Exit(c, "TIMEOUT") /\ UNCHANGED asked
    BY <1>1, <2>1, <2>4, WaitingStep
  <2>5. CASE Goto(c, "pause") /\ asked' = [asked EXCEPT ![c] = now]
    <3>1. /\ pc'[c] = "pause" /\ asked'[c] = now
          /\ asked' \in [Commands -> 0..MaxTime]
          /\ \A d \in Commands \ {c} : asked'[d] = asked[d]
      BY <1>1, <2>5 DEF Goto
    <3> QED BY <1>1, <2>1, <2>5, <3>1, WaitingStep
  <2> QED BY <1>7, <2>3, <2>4, <2>5 DEF PollAnswered
<1>8. CASE PollAgain(c)
  <2>1. /\ KindOf[c] = "wait" /\ pc[c] = "pause" /\ Goto(c, "ask") /\ Ask(c)
        /\ UNCHANGED <<broker, today, now, callVars, listedOn, started>>
    BY <1>2, <1>8 DEF PollAgain, Polling
  <2>2. pc'[c] = "ask"
    BY <1>1, <2>1 DEF Goto
  <2> QED BY <1>1, <1>3, <2>1, <2>2, WaitingStep
<1> QED BY <1>4, <1>5, <1>6, <1>7, <1>8 DEF WaitFor

-----------------------------------------------------------------------------
(* The invariant.                                                          *)

(* What the environment does to the commands: nothing.                     *)
LEMMA EnvironmentStep ==
    ASSUME TypeOK,
           \/ \E c \in Commands : StrayArrives(c)
           \/ \E o \in Orders : OrderMoves(o)
           \/ Midnight \/ Tick \/ UNCHANGED vars
    PROVE  /\ UNCHANGED <<pc, attempts, sent, notFound, listedOn, seen, asked, started, exit, exitAt,
                        born>>
           /\ strays' \subseteq Commands /\ today' \in 0..MaxDay /\ now' \in 0..MaxTime
           /\ UNCHANGED now \/ Tick
<1>1. strays \subseteq Commands /\ today \in 0..MaxDay /\ now \in 0..MaxTime /\ MaxDay \in Nat
      /\ MaxTime \in Nat
  BY SettleAssumption DEF TypeOK, SettleAssumption
<1>2. CASE \E c \in Commands : StrayArrives(c)
  BY <1>1, <1>2 DEF StrayArrives, waitVars, ended
<1>3. CASE \E o \in Orders : OrderMoves(o)
  BY <1>1, <1>3 DEF OrderMoves, callVars, waitVars, ended
<1>4. CASE Midnight
  BY <1>1, <1>4 DEF Midnight, broker, callVars, waitVars, ended
<1>5. CASE Tick
  BY <1>1, <1>5 DEF Tick, broker, callVars, waitVars, ended
<1>6. CASE UNCHANGED vars
  BY <1>1, <1>6 DEF vars, broker, callVars, waitVars, ended
<1> QED BY <1>2, <1>3, <1>4, <1>5, <1>6

LEMMA TypeStep ==
    ASSUME IInv, [Next]_vars PROVE TypeOK'
<1>1. TypeOK /\ PlaceInv /\ PollInv
  BY DEF IInv
<1>2. OrdersKeep
  BY <1>1, OrdersStep
<1>3. ASSUME NEW c \in Commands, Cancel(c) \/ WaitFor(c) PROVE TypeOK'
  <2>1. Step(c)
    BY <1>1, <1>3, CancelStep, WaitStep
  <2> QED BY <1>1, <1>2, <2>1 DEF Step, OrdersKeep, TypeOK, Places
<1>4. CASE \/ \E c \in Commands : StrayArrives(c)
           \/ \E o \in Orders : OrderMoves(o)
           \/ Midnight \/ Tick \/ UNCHANGED vars
  <2>1. /\ UNCHANGED <<pc, attempts, sent, notFound, listedOn, seen, asked, started, exit, exitAt,
                        born>>
        /\ strays' \subseteq Commands /\ today' \in 0..MaxDay /\ now' \in 0..MaxTime
    BY <1>1, <1>4, EnvironmentStep
  <2> QED BY <1>1, <1>2, <2>1 DEF OrdersKeep, TypeOK
<1> QED BY <1>3, <1>4 DEF Next

(* A step is one of a command, or leaves all commands alone.               *)
LEMMA StepOrStill ==
    ASSUME IInv, [Next]_vars
    PROVE  \/ \E c \in Commands : Step(c)
           \/ /\ UNCHANGED <<pc, attempts, sent, notFound, listedOn, seen, asked, started, exit, exitAt,
                            born>>
              /\ UNCHANGED now \/ Tick
BY CancelStep, WaitStep, EnvironmentStep DEF IInv, Next

LEMMA PlaceStep ==
    ASSUME IInv, [Next]_vars PROVE PlaceInv'
<1>1. PlaceInv
  BY DEF IInv
<1>2. ASSUME NEW c \in Commands, Step(c) PROVE PlaceInv'
  BY <1>1, <1>2 DEF Step, OthersStay, PlaceInv, PlaceOf
<1>3. CASE UNCHANGED <<pc, attempts, notFound, exit>>
  BY <1>1, <1>3 DEF PlaceInv, PlaceOf
<1> QED BY <1>2, <1>3, StepOrStill

LEMMA TimeStep ==
    ASSUME IInv, [Next]_vars PROVE TimeInv'
<1>1. /\ TimeInv /\ now \in Nat /\ CallTime \in Nat
      /\ \A c \in Commands : asked[c] \in Nat /\ exitAt[c] \in Nat
  BY SettleAssumption DEF SettleAssumption, IInv, TypeOK
<1>2. ASSUME NEW c \in Commands, Step(c) PROVE TimeInv'
  <2>1. \A d \in Commands \ {c} : InTime(d)'
    BY <1>1, <1>2 DEF Step, OthersStay, TimeInv, InTime
  <2>2. exitAt'[c] <= now
    BY <1>1, <1>2 DEF Step, ExitsKeep, TimeInv, InTime
  <2>3. asked'[c] <= now /\ (pc'[c] \in {"ask", "answer"} => now <= asked'[c] + CallTime)
    BY <1>1, <1>2 DEF Step, TimeInv, InTime
  <2> QED BY <1>2, <2>1, <2>2, <2>3 DEF Step, TimeInv, InTime
<1>3. CASE UNCHANGED <<pc, asked, exitAt, now>>
  BY <1>1, <1>3 DEF TimeInv, InTime
<1>4. CASE Tick /\ UNCHANGED <<pc, asked, exitAt>>
  <2>1. /\ now' = now + 1
        /\ \A c \in Commands : pc[c] \in {"ask", "answer"} => now < asked[c] + CallTime
    BY <1>4 DEF Tick
  <2> QED BY <1>1, <1>4, <2>1 DEF TimeInv, InTime
<1> QED BY <1>2, <1>3, <1>4, StepOrStill

(* What a poll has read keeps its meaning while orders move.               *)
LEMMA KnowledgeKeeps ==
    ASSUME IInv, OrdersKeep, NEW c \in Commands, PollKnows(c),
           pc'[c] = pc[c], seen'[c] = seen[c], asked'[c] = asked[c]
    PROVE  PollKnows(c)'
<1>1. OrderOf[c] \in Orders /\ now \in Nat /\ asked[c] \in Nat /\ asked[c] <= now
  BY SettleAssumption DEF SettleAssumption, IInv, TypeOK, TimeInv, InTime
<1>2. \/ status'[OrderOf[c]] = status[OrderOf[c]] /\ endedAt'[OrderOf[c]] = endedAt[OrderOf[c]]
      \/ status[OrderOf[c]] \notin Terminal
         /\ (status'[OrderOf[c]] \in Terminal => endedAt'[OrderOf[c]] = now)
  BY <1>1 DEF OrdersKeep
<1> QED BY <1>1, <1>2 DEF PollKnows

LEMMA PollStep ==
    ASSUME IInv, [Next]_vars PROVE PollInv'
<1>1. OrdersKeep /\ PollInv
  BY OrdersStep DEF IInv
<1>2. ASSUME NEW c \in Commands, Step(c) PROVE PollInv'
  <2>1. \A d \in Commands \ {c} : PollKnows(d)'
    BY <1>1, <1>2, KnowledgeKeeps DEF Step, OthersStay, PollInv
  <2>2. PollKnows(c)'
    <3>1. "answer" = pc'[c] =>
            /\ seen'[c] \in Live \cup Terminal => seen'[c] = status'[OrderOf[c]]
      BY <1>2 DEF Step
    <3>2. Live \cap Terminal = {}
      BY DEF Live, Terminal
    <3> QED BY <3>1, <3>2 DEF PollKnows
  <2> QED BY <2>1, <2>2 DEF PollInv
<1>3. CASE UNCHANGED <<pc, seen, asked>>
  BY <1>1, <1>3, KnowledgeKeeps DEF PollInv
<1> QED BY <1>2, <1>3, StepOrStill

(* The truth of an exit code outlives its command.                         *)
Truthful(c) ==
    /\ exit[c] = "OK" => status[OrderOf[c]] \in Terminal
    /\ KindOf[c] = "wait" /\ exit[c] = "TIMEOUT" =>
         \/ status[OrderOf[c]] \notin Terminal
         \/ endedAt[OrderOf[c]] + CallTime >= exitAt[c]

LEMMA TruthIs ==
    ASSUME KindOf \in [Commands -> {"cancel", "stop-cancel", "wait"}]
    PROVE  CancelOkIsFinal /\ WaitIsTruthful <=> \A c \in Commands : Truthful(c)
BY DEF CancelOkIsFinal, WaitIsTruthful, Truthful

LEMMA TruthKeeps ==
    ASSUME IInv, OrdersKeep, NEW c \in Commands, Truthful(c),
           exit'[c] = exit[c], exitAt'[c] = exitAt[c]
    PROVE  Truthful(c)'
<1>1. /\ OrderOf[c] \in Orders /\ now \in Nat /\ CallTime \in Nat
      /\ exitAt[c] \in Nat /\ exitAt[c] <= now
  BY SettleAssumption DEF SettleAssumption, IInv, TypeOK, TimeInv, InTime
<1>2. \/ status'[OrderOf[c]] = status[OrderOf[c]] /\ endedAt'[OrderOf[c]] = endedAt[OrderOf[c]]
      \/ status[OrderOf[c]] \notin Terminal
         /\ (status'[OrderOf[c]] \in Terminal => endedAt'[OrderOf[c]] = now)
  BY <1>1 DEF OrdersKeep
<1> QED BY <1>1, <1>2 DEF Truthful

(* When wait gives up, its last answer is at most a call old.              *)
LEMMA TruthBegins ==
    ASSUME IInv, NEW c \in Commands, ExitsKeep(c), exit'[c] # exit[c] PROVE Truthful(c)'
<1>1. /\ OrderOf[c] \in Orders /\ now \in Nat /\ CallTime \in Nat /\ asked[c] \in Nat
      /\ endedAt[OrderOf[c]] \in Nat
  BY SettleAssumption DEF SettleAssumption, IInv, TypeOK
<1>2. exit'[c] = "OK" => status'[OrderOf[c]] \in Terminal
  BY DEF ExitsKeep, Justified
<1>3. ASSUME exit'[c] = "TIMEOUT"
      PROVE  \/ status'[OrderOf[c]] \notin Terminal
             \/ endedAt'[OrderOf[c]] + CallTime >= exitAt'[c]
  <2>1. /\ pc[c] = "answer" /\ seen[c] \in Live /\ exitAt'[c] = now
        /\ status' = status /\ endedAt' = endedAt
    BY <1>3 DEF ExitsKeep
  <2>2. now <= asked[c] + CallTime
    BY <2>1 DEF IInv, TimeInv, InTime
  <2>3. status[OrderOf[c]] \notin Terminal \/ endedAt[OrderOf[c]] >= asked[c]
    BY <2>1 DEF IInv, PollInv, PollKnows
  <2> QED BY <1>1, <2>1, <2>2, <2>3
<1> QED BY <1>2, <1>3 DEF Truthful

LEMMA TruthStep ==
    ASSUME IInv, [Next]_vars PROVE CancelOkIsFinal' /\ WaitIsTruthful'
<1>1. OrdersKeep /\ \A c \in Commands : Truthful(c)
  BY SettleAssumption, OrdersStep, TruthIs DEF SettleAssumption, IInv
<1>2. SUFFICES \A c \in Commands : Truthful(c)'
  BY SettleAssumption DEF SettleAssumption, CancelOkIsFinal, WaitIsTruthful, Truthful
<1>3. ASSUME NEW c \in Commands, Step(c), NEW d \in Commands PROVE Truthful(d)'
  <2>1. CASE exit'[d] = exit[d] /\ exitAt'[d] = exitAt[d]
    BY <1>1, <2>1, TruthKeeps
  <2>2. CASE d = c /\ exit'[c] # exit[c]
    BY <1>3, <2>2, TruthBegins DEF Step
  <2>3. (d = c /\ exit'[c] # exit[c]) \/ (exit'[d] = exit[d] /\ exitAt'[d] = exitAt[d])
    BY <1>3 DEF Step, OthersStay, ExitsKeep
  <2> QED BY <2>1, <2>2, <2>3
<1>4. CASE UNCHANGED <<exit, exitAt>>
  BY <1>1, <1>4, TruthKeeps
<1> QED BY <1>3, <1>4, StepOrStill

LEMMA InvInit ==
    ASSUME Init PROVE IInv
<1>1. TypeOK /\ now = 0
  BY SettleAssumption DEF SettleAssumption, Init, TypeOK, Statuses, Live, Terminal
<1>2. PlaceInv
  BY DEF Init, PlaceInv, PlaceOf, Polling
<1>3. TimeInv
  BY DEF Init, TimeInv, InTime
<1>4. PollInv /\ CancelOkIsFinal /\ WaitIsTruthful
  BY DEF Init, PollInv, PollKnows, CancelOkIsFinal, WaitIsTruthful
<1> QED BY <1>1, <1>2, <1>3, <1>4 DEF IInv

LEMMA InvNext ==
    ASSUME IInv, [Next]_vars PROVE IInv'
BY TypeStep, PlaceStep, TimeStep, PollStep, TruthStep DEF IInv

(* The invariant that the theorems rest on holds in every reachable state. *)
THEOREM InvHolds == Spec => []IInv
BY InvInit, InvNext, PTL DEF Spec

(* Every reachable state is well typed: no attempt too many, for any limit *)
(* of the retry policy.                                                    *)
THEOREM SettleTypeCorrect == Spec => []TypeOK
<1>1. IInv => TypeOK
  BY DEF IInv
<1> QED BY <1>1, InvHolds, PTL

(* orders cancel and stop-orders cancel: OK is only said of a final order, *)
(* through retries, late requests and whatever else cancels it.            *)
THEOREM CancelOkIsFinalHolds == Spec => []CancelOkIsFinal
<1>1. IInv => CancelOkIsFinal
  BY DEF IInv
<1> QED BY <1>1, InvHolds, PTL

(* orders wait: success means final, and a timeout that the order was not  *)
(* when the last poll began, for any interval and timeout.                 *)
THEOREM WaitIsTruthfulHolds == Spec => []WaitIsTruthful
<1>1. IInv => WaitIsTruthful
  BY DEF IInv
<1> QED BY <1>1, InvHolds, PTL

(* A cancel that makes a rejection of the NOT_FOUND it was answered of a   *)
(* final order could not read the day's list, or the order is not in it.   *)
THEOREM NotFoundIsUnknownHolds == Spec => NotFoundIsUnknown
<1> DEFINE Allowed ==
        \A c \in Commands : LET o == OrderOf[c] IN
          KindOf[c] # "wait" /\ notFound'[c]
              /\ exit[c] # "BROKER_REJECTED" /\ exit'[c] = "BROKER_REJECTED" =>
             \/ status[o] \notin Terminal
             \/ listedOn'[c] = Failed
             \/ KindOf[c] = "cancel" /\ listedOn'[c] \notin {Never, born[o]}
<1>1. ASSUME IInv, [Next]_vars PROVE [Allowed]_vars
  <2>1. ASSUME NEW d \in Commands, Step(d) PROVE Allowed
    BY <2>1 DEF Step, OthersStay, ExitsKeep, Justified
  <2>2. CASE UNCHANGED exit
    BY <2>2
  <2> QED BY <1>1, <2>1, <2>2, StepOrStill
<1> QED BY <1>1, InvHolds, PTL DEF Spec, NotFoundIsUnknown
-----------------------------------------------------------------------------
(* The reads: operations list --all.                                       *)

(* A page is read at most once for each cursor that was ever current.      *)
ListInv ==
    /\ cursor \in AnyCursor
    /\ seenCursors \subseteq AnyCursor
    /\ pages \in [AnyCursor -> 0..2]
    /\ more \in BOOLEAN
    /\ listing \in {"none", "reading", "whole", "failed"}
    /\ cursor \in seenCursors
    /\ listing = "reading" => pages[cursor] = 0
    /\ \A c \in AnyCursor : c \notin seenCursors => pages[c] = 0
    /\ ListIsWhole

LEMMA ListInit == ReadInit => ListInv
BY DEF ReadInit, ListInv, ListIsWhole

LEMMA ListStep ==
    ASSUME ListInv, Page \/ PageFails
    PROVE  ListInv'
  <1> USE DEF ListInv, ListIsWhole
  <1>1. CASE PageFails
    BY <1>1 DEF PageFails
  <1>2. CASE Page
    <2>1. pages' = [pages EXCEPT ![cursor] = 1]
      BY <1>2 DEF Page, Count
    <2>2. PICK hasNext \in BOOLEAN, next \in AnyCursor :
            /\ more' = hasNext
            /\ IF ~hasNext
               THEN listing' = "whole" /\ UNCHANGED <<cursor, seenCursors>>
               ELSE IF next = Empty \/ Repeated(next)
               THEN listing' = "failed" /\ UNCHANGED <<cursor, seenCursors>>
               ELSE /\ seenCursors' = seenCursors \cup {next}
                    /\ cursor' = next
                    /\ UNCHANGED listing
      BY <1>2 DEF Page
    <2>3. CASE ~hasNext \/ next = Empty \/ Repeated(next)
      BY <2>1, <2>2, <2>3
    <2>4. CASE hasNext /\ next # Empty /\ ~Repeated(next)
      <3>1. /\ next \notin seenCursors /\ next # cursor /\ pages[next] = 0
            /\ seenCursors' = seenCursors \cup {next} /\ cursor' = next /\ listing' = listing
        BY <2>2, <2>4 DEF Repeated
      <3>2. /\ pages' \in [AnyCursor -> 0..2] /\ pages'[next] = 0
            /\ \A c \in AnyCursor : pages'[c] <= 1 /\ (c # cursor => pages'[c] = pages[c])
        BY <2>1, <3>1
      <3>3. cursor' \in AnyCursor /\ seenCursors' \subseteq AnyCursor /\ cursor \in seenCursors'
        BY <3>1
      <3>4. more' \in BOOLEAN /\ listing' = "reading"
        BY <1>2, <2>2, <3>1 DEF Page
      <3> QED BY <3>1, <3>2, <3>3, <3>4
    <2> QED BY <2>3, <2>4
  <1> QED BY <1>1, <1>2

-----------------------------------------------------------------------------
(* Charts.                                                                 *)

(* The windows lie end to end between the range's start and the next one's *)
(* start, and none is longer than the broker allows.                       *)
Within(v, t) == v.from <= t /\ t < v.to

FitsCap(length) ==
    /\ length > 0
    /\ range.unit = "days" => length <= range.cap
    /\ range.unit # "days" =>
         \E m \in 1..(Len(MonthStart) - range.cap) :
             length <= MonthStart[m + range.cap] - MonthStart[m]

ChartInv ==
    /\ range \in Ranges
    /\ start \in {range.from} \cup 0..range.to
    /\ windows \in Seq([from : Nat, to : 0..range.to])
    /\ charting \in {"none", "reading", "whole", "failed"}
    /\ start >= range.from
    /\ \A i \in DOMAIN windows : /\ windows[i].to <= start
                                /\ FitsCap(windows[i].to - windows[i].from)
    /\ \A t \in range.from..start - 1 : \E i \in DOMAIN windows : \A j \in DOMAIN windows :
          Within(windows[j], t) <=> j = i
    /\ charting = "whole" => start >= range.to

LEMMA ChartInit == ReadInit => ChartInv
BY ReadsAssumption DEF ReadsAssumption, ReadInit, ChartInv

Smaller == {ss \in Nat \X Nat : ss[1] < ss[2]}

LEMMA HasLeast ==
    ASSUME NEW T \in SUBSET Nat, T # {}
    PROVE  \E x \in T : \A y \in T : x <= y
  <1>1. IsWellFoundedOn(Smaller, Nat)
    BY NatLessThanWellFounded DEF OpToRel, Smaller
  <1>2. PICK x \in T : \A y \in T : ~ (<<y, x>> \in Smaller)
    BY <1>1, WFMin
  <1>3. ASSUME NEW y \in T PROVE x <= y
    <2>1. <<y, x>> \in Nat \X Nat /\ <<y, x>>[1] = y /\ <<y, x>>[2] = x
      OBVIOUS
    <2>2. ~(y < x)
      BY <1>2, <2>1 DEF Smaller
    <2> QED BY <2>2
  <1> QED BY <1>3

(* Every day before the calendar's end is in a month.                      *)
LEMMA MonthOfIs ==
    ASSUME NEW t \in Nat, NEW k \in 1..Len(MonthStart), MonthStart[1] = 0, t < MonthStart[k]
    PROVE  /\ MonthOf(t) \in 1..k - 1
           /\ MonthStart[MonthOf(t)] <= t
  <1> USE ReadsAssumption DEF ReadsAssumption
  <1> DEFINE T == {n \in 1..Len(MonthStart) : t < MonthStart[n]}
             S == 1..(Len(MonthStart) - 1)
  <1>1. /\ Len(MonthStart) \in Nat /\ DOMAIN MonthStart = 1..Len(MonthStart)
        /\ \A n \in 1..Len(MonthStart) : MonthStart[n] \in Nat
    BY LenProperties, ElementOfSeq
  <1>2. PICK n \in T : \A x \in T : n <= x
    <2>1. T \in SUBSET Nat /\ k \in T
      BY <1>1
    <2> QED BY <2>1, HasLeast
  <1>3. n # 1
    BY <1>1
  <1>4. n - 1 \in S /\ (n - 1) + 1 = n /\ MonthStart[n - 1] <= t
    <2>1. n - 1 \in 1..Len(MonthStart) /\ n - 1 \in S /\ ~(n <= n - 1)
      BY <1>1, <1>3
    <2>2. n - 1 \notin T
      BY <1>2, <2>1
    <2> QED BY <1>1, <2>1, <2>2
  <1>5. \E m \in S : MonthStart[m] <= t /\ t < MonthStart[m + 1]
    BY <1>4
  <1> DEFINE m == MonthOf(t)
  <1>6. m \in S /\ MonthStart[m] <= t
    BY <1>5 DEF MonthOf
  <1> HIDE DEF m
  <1>7. ~(k <= m)
    <2> SUFFICES ASSUME k <= m PROVE FALSE
      OBVIOUS
    <2>1. m \in DOMAIN MonthStart /\ k \in DOMAIN MonthStart /\ (k = m \/ k < m)
      BY <1>1, <1>6
    <2>2. MonthStart[k] <= MonthStart[m]
      BY <1>1, <2>1
    <2> QED BY <1>1, <1>6, <2>1, <2>2
  <1>8. m \in 1..k - 1
    BY <1>1, <1>6, <1>7
  <1> QED BY <1>6, <1>8 DEF m

LEMMA MonthsOn ==
    ASSUME NEW len \in Nat, NEW cap \in Nat \ {0}, NEW m \in 1..(len - cap)
    PROVE  m \in 1..len /\ m + cap \in 1..len /\ m < m + cap
OBVIOUS

(* The next window is not empty, not too long, and ends in the range.      *)
LEMMA NextWindow ==
    ASSUME ChartInv, start < range.to
    PROVE  /\ start \in Nat /\ range.to \in Nat /\ range.from \in Nat
           /\ WindowEnd \in 0..range.to
           /\ start < WindowEnd
           /\ FitsCap(WindowEnd - start)
  <1> USE ReadsAssumption DEF ReadsAssumption
  <1>1. /\ range \in Ranges /\ range.from \in Nat /\ range.to \in Nat /\ range.cap \in Nat \ {0}
        /\ start \in Nat
    BY DEF ChartInv
  <1> SUFFICES /\ Advance(start) \in Nat /\ start < Advance(start)
               /\ FitsCap(Advance(start) - start)
    <2>1. WindowEnd \in 0..range.to /\ start < WindowEnd /\ WindowEnd <= Advance(start)
      BY <1>1 DEF WindowEnd
    <2>2. WindowEnd - start > 0 /\ WindowEnd - start <= Advance(start) - start
      BY <1>1, <2>1
    <2> DEFINE short == WindowEnd - start
               long  == Advance(start) - start
    <2>3. short \in Nat /\ long \in Nat /\ short > 0 /\ short <= long
      BY <1>1, <2>1, <2>2
    <2> HIDE DEF short, long
    <2>4. FitsCap(long)
      BY DEF long
    <2>5. range.unit = "days" => short <= range.cap
      BY <1>1, <2>3, <2>4 DEF FitsCap
    <2>6. ASSUME NEW m \in 1..(Len(MonthStart) - range.cap),
                 long <= MonthStart[m + range.cap] - MonthStart[m]
          PROVE  short <= MonthStart[m + range.cap] - MonthStart[m]
      <3>1. m \in 1..Len(MonthStart) /\ m + range.cap \in 1..Len(MonthStart)
        BY <1>1, LenProperties, MonthsOn
      <3>2. MonthStart[m] \in Nat /\ MonthStart[m + range.cap] \in Nat
        BY <3>1, ElementOfSeq
      <3> QED BY <2>3, <2>6, <3>2
    <2>7. FitsCap(short)
      BY <2>3, <2>4, <2>5, <2>6 DEF FitsCap
    <2> QED BY <1>1, <2>1, <2>7 DEF short
  <1>2. CASE range.unit = "days"
    BY <1>1, <1>2 DEF Advance, FitsCap
  <1>3. CASE range.unit # "days"
    <2> DEFINE cap == range.cap
               k == Len(MonthStart) - cap
               m == MonthOf(start)
    <2>1. /\ cap \in Nat \ {0} /\ Len(MonthStart) \in Nat /\ k \in 1..Len(MonthStart)
          /\ DOMAIN MonthStart = 1..Len(MonthStart)
          /\ \A n \in 1..Len(MonthStart) : MonthStart[n] \in Nat
          /\ MonthStart[1] = 0 /\ start < MonthStart[k]
      <3>1. /\ range.unit = "months" /\ Len(MonthStart) > range.cap /\ MonthStart[1] = 0
            /\ range.to <= MonthStart[Len(MonthStart) - range.cap]
        BY <1>1, <1>3
      <3>2. Len(MonthStart) \in Nat /\ DOMAIN MonthStart = 1..Len(MonthStart)
        BY LenProperties
      <3>3. k \in 1..Len(MonthStart)
        BY <1>1, <3>1, <3>2
      <3>4. \A n \in 1..Len(MonthStart) : MonthStart[n] \in Nat
        BY ElementOfSeq
      <3> QED BY <1>1, <3>1, <3>2, <3>3, <3>4
    <2>2. m \in 1..k /\ MonthStart[m] <= start
      <3>1. m \in 1..k - 1 /\ MonthStart[m] <= start
        BY <1>1, <2>1, MonthOfIs
      <3> HIDE DEF m, k
      <3>2. k \in Nat
        BY <2>1
      <3> QED BY <3>1, <3>2
    <2>3. Advance(start) = MonthStart[m + cap] + (start - MonthStart[m])
      BY <1>3 DEF Advance, AddMonths
    <2> HIDE DEF m
    <2>4. m \in 1..k /\ m \in 1..Len(MonthStart) /\ m + cap \in 1..Len(MonthStart) /\ m < m + cap
      BY <2>1, <2>2, MonthsOn
    <2>5. MonthStart[m] \in Nat /\ MonthStart[m + cap] \in Nat /\ MonthStart[m] < MonthStart[m + cap]
      <3>1. m \in DOMAIN MonthStart /\ m + cap \in DOMAIN MonthStart
        BY <2>1, <2>4
      <3>2. MonthStart[m] < MonthStart[m + cap]
        BY <2>4, <3>1
      <3> QED BY <2>1, <2>4, <3>2
    <2>6. Advance(start) \in Nat /\ start < Advance(start)
          /\ Advance(start) - start = MonthStart[m + cap] - MonthStart[m]
      <3> DEFINE x == MonthStart[m]
                 y == MonthStart[m + cap]
                 z == Advance(start)
      <3>1. x \in Nat /\ y \in Nat /\ x < y /\ z = y + (start - x) /\ x <= start /\ start \in Nat
        BY <1>1, <2>2, <2>3, <2>5
      <3> HIDE DEF x, y, z
      <3>2. z \in Nat /\ start < z /\ z - start = y - x
        BY <3>1
      <3> QED BY <3>2 DEF x, y, z
    <2> DEFINE long == Advance(start) - start
    <2>7. long = MonthStart[m + cap] - MonthStart[m] /\ long > 0 /\ long \in Nat
      BY <1>1, <2>6
    <2> HIDE DEF long
    <2>8. FitsCap(long)
      BY <1>3, <2>4, <2>7 DEF FitsCap
    <2> QED BY <2>6, <2>8 DEF long
  <1> QED BY <1>2, <1>3

LEMMA ChartStep ==
    ASSUME ChartInv, Window \/ WindowsDone \/ WindowFails
    PROVE  ChartInv'
  <1>0. range \in Ranges /\ range.from \in Nat /\ range.to \in Nat /\ start \in Nat
    BY ReadsAssumption DEF ReadsAssumption, ChartInv
  <1>1. CASE WindowFails
    BY <1>1 DEF WindowFails, ChartInv, FitsCap
  <1>2. CASE WindowsDone
    <2>1. /\ UNCHANGED <<range, start, windows>> /\ start >= range.to
          /\ charting' \in {"whole", "failed"}
      BY <1>2 DEF WindowsDone
    <2> QED BY <1>0, <2>1 DEF ChartInv, FitsCap
  <1>3. CASE Window
    <2> DEFINE x == [from |-> start, to |-> WindowEnd]
               V == [from : Nat, to : 0..range.to]
    <2>1. /\ start < range.to /\ charting = "reading" /\ windows' = Append(windows, x)
          /\ start' = WindowEnd /\ range' = range /\ charting' = charting
      BY <1>3 DEF Window
    <2>2. WindowEnd \in 0..range.to /\ start < WindowEnd /\ FitsCap(WindowEnd - start)
      BY <2>1, NextWindow
    <2>3. x \in V /\ x.from = start /\ x.to = WindowEnd
      BY <1>0, <2>2
    <2> HIDE DEF x, V
    <2>4. windows \in Seq(V)
      BY DEF ChartInv, V
    <2>5. /\ windows' \in Seq(V) /\ Len(windows) \in Nat
          /\ DOMAIN windows = 1..Len(windows) /\ DOMAIN windows' = 1..Len(windows) + 1
          /\ \A i \in DOMAIN windows : i \in DOMAIN windows' /\ windows'[i] = windows[i]
          /\ Len(windows) + 1 \in DOMAIN windows' /\ windows'[Len(windows) + 1] = x
          /\ \A i \in DOMAIN windows' : i \in DOMAIN windows \/ i = Len(windows) + 1
          /\ Len(windows) + 1 \notin DOMAIN windows
      BY <2>1, <2>3, <2>4, AppendProperties, LenProperties
    <2>6. \A i \in DOMAIN windows : /\ windows[i] \in V /\ windows[i].to \in Nat
                                   /\ windows[i].to <= start
                                   /\ FitsCap(windows[i].to - windows[i].from)
      <3>1. \A i \in DOMAIN windows : windows[i] \in V
        BY <2>4, <2>5, ElementOfSeq
      <3> QED BY <1>0, <3>1 DEF V, ChartInv
    <2>7. ASSUME NEW i \in DOMAIN windows'
          PROVE  windows'[i].to <= start' /\ FitsCap(windows'[i].to - windows'[i].from)
      <3>1. CASE i \in DOMAIN windows
        BY <1>0, <2>1, <2>2, <2>5, <2>6, <3>1
      <3>2. CASE i = Len(windows) + 1
        BY <2>1, <2>2, <2>3, <2>5, <3>2
      <3> QED BY <2>5, <3>1, <3>2
    <2>8. ASSUME NEW t \in range.from..start' - 1
          PROVE  \E i \in DOMAIN windows' : \A j \in DOMAIN windows' :
                    Within(windows'[j], t) <=> j = i
      <3>1. CASE t < start
        <4>1. t \in range.from..start - 1
          BY <1>0, <3>1
        <4>2. PICK i \in DOMAIN windows : \A j \in DOMAIN windows : Within(windows[j], t) <=> j = i
          BY <4>1 DEF ChartInv
        <4>3. ~Within(x, t)
          BY <1>0, <2>3, <3>1, <4>1 DEF Within
        <4> QED BY <2>5, <4>2, <4>3
      <3>2. CASE t >= start
        <4>1. t \in Nat /\ t < WindowEnd
          BY <1>0, <2>1, <2>2
        <4>2. Within(x, t)
          BY <1>0, <2>3, <3>2, <4>1 DEF Within
        <4>3. \A j \in DOMAIN windows : ~Within(windows[j], t)
          BY <1>0, <2>6, <3>2, <4>1 DEF Within
        <4> QED BY <2>5, <4>2, <4>3
      <3>3. t < start \/ t >= start
        BY <1>0, <2>1, <2>2
      <3> QED BY <3>1, <3>2, <3>3
    <2>9. start' \in 0..range.to /\ start' >= range.from /\ start \in Nat /\ start >= range.from
      BY <1>0, <2>1, <2>2 DEF ChartInv
    <2>10. \A n : FitsCap(n)' <=> FitsCap(n)
      BY <2>1 DEF FitsCap
    <2> QED BY <1>0, <2>1, <2>5, <2>7, <2>8, <2>9, <2>10 DEF ChartInv, V
  <1> QED BY <1>1, <1>2, <1>3

-----------------------------------------------------------------------------
(* Downloads.                                                              *)

(* The path is the file of whoever still writes it, of who finished it, or *)
(* of who was killed over it.                                              *)
DownloadInv ==
    /\ path \in Downloads \cup {None}
    /\ body \in [Downloads -> {Empty, "part", "whole"}]
    /\ load \in [Downloads -> {"asking", "creating", "copying", "closing", "whole",
                               "failed", "dead"}]
    /\ \A d \in Downloads :
         /\ load[d] \in {"copying", "closing", "whole"} => path = d
         /\ load[d] \in {"closing", "whole"} => body[d] = "whole"
         /\ path = d => load[d] \in {"copying", "closing", "whole", "dead"}

LEMMA DownloadInit == ReadInit => DownloadInv
BY ReadsAssumption DEF ReadsAssumption, ReadInit, DownloadInv

LEMMA DownloadStep ==
    ASSUME DownloadInv,
           (\E d \in Downloads : Respond(d) \/ Create(d) \/ Copy(d) \/ Close(d) \/ Kill(d)) \/ CleanUp
    PROVE  DownloadInv'
  <1> USE ReadsAssumption DEF ReadsAssumption, DownloadInv, To, Holds
  <1>1. ASSUME NEW d \in Downloads, Respond(d) PROVE DownloadInv'
    BY <1>1 DEF Respond
  <1>2. ASSUME NEW d \in Downloads, Create(d) PROVE DownloadInv'
    BY <1>2 DEF Create
  <1>3. ASSUME NEW d \in Downloads, Copy(d) PROVE DownloadInv'
    <2>1. load[d] = "copying" /\ path = d
      BY <1>3 DEF Copy
    <2>2. CASE Holds(d, "part") /\ UNCHANGED <<path, load>>
      BY <2>1, <2>2
    <2>3. CASE Holds(d, "whole") /\ To(d, "closing") /\ UNCHANGED path
      BY <2>1, <2>3
    <2>4. CASE RemovePartial(d) /\ To(d, "failed") /\ UNCHANGED body
      BY <2>1, <2>4 DEF RemovePartial
    <2> QED BY <1>3, <2>2, <2>3, <2>4 DEF Copy
  <1>4. ASSUME NEW d \in Downloads, Close(d) PROVE DownloadInv'
    <2>1. load[d] = "closing" /\ path = d /\ body[d] = "whole"
      BY <1>4 DEF Close
    <2>2. CASE To(d, "whole") /\ UNCHANGED <<path, body>>
      BY <2>1, <2>2
    <2>3. CASE RemovePartial(d) /\ To(d, "failed") /\ Holds(d, "part")
      BY <2>1, <2>3 DEF RemovePartial
    <2> QED BY <1>4, <2>2, <2>3 DEF Close
  <1>5. ASSUME NEW d \in Downloads, Kill(d) PROVE DownloadInv'
    BY <1>5 DEF Kill
  <1>6. CASE CleanUp
    BY <1>6 DEF CleanUp
  <1> QED BY <1>1, <1>2, <1>3, <1>4, <1>5, <1>6

-----------------------------------------------------------------------------

ReadInv == ListInv /\ ChartInv /\ DownloadInv

LEMMA ReadInvNext ==
    ASSUME ReadInv, [ReadNext]_readVars
    PROVE  ReadInv'
  <1> USE DEF ReadInv
  <1>1. ASSUME UNCHANGED listVars PROVE ListInv'
    BY <1>1 DEF listVars, ListInv, ListIsWhole
  <1>2. ASSUME UNCHANGED candleVars PROVE ChartInv'
    BY <1>2 DEF candleVars, ChartInv, FitsCap
  <1>3. ASSUME UNCHANGED downloadVars PROVE DownloadInv'
    BY <1>3 DEF downloadVars, DownloadInv
  <1>4. CASE List
    BY <1>2, <1>3, <1>4, ListStep DEF List
  <1>5. CASE Candles
    BY <1>1, <1>3, <1>5, ChartStep DEF Candles
  <1>6. CASE DownloadNext
    BY <1>1, <1>2, <1>6, DownloadStep DEF DownloadNext
  <1>7. CASE UNCHANGED readVars
    BY <1>1, <1>2, <1>3, <1>7 DEF readVars
  <1> QED BY <1>4, <1>5, <1>6, <1>7 DEF ReadNext

(* The invariant that the theorems about bulk reads rest on holds in every *)
(* reachable state.                                                        *)
THEOREM ReadInvHolds == ReadSpec => []ReadInv
  <1>1. ReadInit => ReadInv
    BY ListInit, ChartInit, DownloadInit DEF ReadInv
  <1> QED BY <1>1, ReadInvNext, PTL DEF ReadSpec

(* operations list --all ends whatever cursors come, and what it reports   *)
(* goes to the broker's last page, for any set of cursors.                 *)
THEOREM ListIsWholeHolds == ReadSpec => []ListIsWhole
  <1>1. ReadInv => ListIsWhole
    BY DEF ReadInv, ListInv
  <1> QED BY <1>1, ReadInvHolds, PTL

(* candles: each day is in one window, and none is empty or too long, for  *)
(* any calendar and any range in it.                                       *)
THEOREM CandlesAreWholeHolds == ReadSpec => []CandlesAreWhole
  <1>1. ASSUME ReadInv PROVE CandlesAreWhole
    <2>1. /\ range.to \in Nat /\ range.from \in Nat /\ start \in Nat
          /\ charting = "whole" => start >= range.to
      BY <1>1, ReadsAssumption DEF ReadsAssumption, ReadInv, ChartInv
    <2>2. ASSUME charting = "whole", NEW t \in range.from..(range.to - 1)
          PROVE  \E i \in DOMAIN windows : \A j \in DOMAIN windows :
                    (windows[j].from <= t /\ t < windows[j].to) <=> j = i
      <3>1. t \in range.from..start - 1
        BY <2>1, <2>2
      <3> QED BY <1>1, <3>1 DEF ReadInv, ChartInv, Within
    <2>3. \A i \in DOMAIN windows : FitsCap(windows[i].to - windows[i].from)
      BY <1>1 DEF ReadInv, ChartInv
    <2> QED BY <2>2, <2>3 DEF CandlesAreWhole, FitsCap
  <1> QED BY <1>1, ReadInvHolds, PTL

(* history download: a success stays whole at the path and a failure       *)
(* leaves nothing there, for any number of downloads.                      *)
THEOREM DownloadStaysHolds == ReadSpec => []DownloadStays
  <1>1. ReadInv => DownloadStays
    BY DEF ReadInv, DownloadInv, DownloadStays
  <1> QED BY <1>1, ReadInvHolds, PTL

-----------------------------------------------------------------------------
(* What TLC runs is these two specifications, one subject at a time.       *)
THEOREM RunsAreBehaviours == MCSpec => Spec /\ ReadSpec
  <1>1. MCInit => Init /\ ReadInit
    BY DEF MCInit
  <1>2. [MCNext]_<<vars, readVars, subject>> => [Next]_vars
    BY DEF MCNext, Settle1, Next
  <1>3. [MCNext]_<<vars, readVars, subject>> => [ReadNext]_readVars
    BY DEF MCNext, ReadNext, DownloadNext
  <1> QED BY <1>1, <1>2, <1>3, PTL DEF MCSpec, Spec, ReadSpec

(* All the commands of several calls are well typed.                       *)
THEOREM CallsTypeCorrect == MCSpec => []CallsTypeOK
  <1>1. IInv /\ ReadInv => CallsTypeOK
    BY DEF IInv, ReadInv, ListInv, ChartInv, DownloadInv, CallsTypeOK, ReadTypeOK
  <1> QED BY <1>1, RunsAreBehaviours, InvHolds, ReadInvHolds, PTL
=============================================================================
