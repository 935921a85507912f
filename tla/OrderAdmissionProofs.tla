------------------------ MODULE OrderAdmissionProofs ------------------------
(***************************************************************************)
(* For any commands, orders, cap and retry limit: OrderAdmission is well   *)
(* typed, keeps the cap as far as a count under a lock can, and obeys the  *)
(* kill switch.                                                            *)
(*                                                                         *)
(* The argument for the cap: a command of a counted kind holds the account *)
(* lock from the count to its end (Holds), so from the count until its own *)
(* order is carried out there is room for it (Room): what else the broker  *)
(* lists meanwhile arrived late, was accepted later or replaces another.   *)
(***************************************************************************)
EXTENDS OrderAdmission, FiniteSetTheorems, TLAPS

-----------------------------------------------------------------------------
(* Types.                                                                  *)

(* A command in a backoff has an attempt left; one that has not passed its *)
(* second look has begun none.                                             *)
Budget ==
    \A c \in Commands :
        /\ pc[c] = "call" => attempts[c] < AttemptsOf(c)
        /\ pc[c] \in Unchecked => attempts[c] = 0

LEMMA AttemptsOfType ==
    ASSUME NEW c \in Commands
    PROVE  AttemptsOf(c) \in 1..MaxAttempts
BY AdmissionAssumption DEF AdmissionAssumption, AttemptsOf

LEMMA CarryOutTyped ==
    ASSUME TypeOK, NEW c \in Commands, CarryOut(c)
    PROVE  /\ taken' \in SUBSET Commands
           /\ open' \in [Books -> SUBSET (Commands \cup Others)]
           /\ pending' \in SUBSET Commands
           /\ late' \in SUBSET Commands
<1>1. CASE c \in taken
  BY <1>1 DEF CarryOut, brokerVars, TypeOK
<1>2. CASE c \notin taken
  <2>1. /\ taken' \in SUBSET Commands
        /\ pending' \in SUBSET Commands
        /\ late' \in SUBSET Commands
    BY <1>2 DEF CarryOut, TypeOK
  <2>2. open' \in [Books -> SUBSET (Commands \cup Others)]
    BY <1>2 DEF CarryOut, TypeOK, BookOf, Books
  <2>3. QED BY <2>1, <2>2
<1>3. QED BY <1>1, <1>2

LEMMA TypingInit == Init => TypeOK /\ Budget
<1> SUFFICES ASSUME Init PROVE TypeOK /\ Budget
  OBVIOUS
<1> USE AdmissionAssumption DEF AdmissionAssumption
<1>1. TypeOK
  BY DEF Init, TypeOK, Unchecked, Ended, Books
<1>2. Budget
  BY DEF Init, Budget
<1>3. QED BY <1>1, <1>2

LEMMA TypingStep == TypeOK /\ Budget /\ [Next]_vars => (TypeOK /\ Budget)'
<1> SUFFICES ASSUME TypeOK, Budget, [Next]_vars
             PROVE  (TypeOK /\ Budget)'
  OBVIOUS
<1> USE AdmissionAssumption DEF AdmissionAssumption, Ended, Unchecked
<1>1. ASSUME NEW c \in Commands, Enter(c) \/ Lookup(c)
      PROVE  (TypeOK /\ Budget)'
  BY <1>1 DEF Enter, Lookup, Goto, End, Release, TypeOK, Budget, AttemptsOf, callVars,
              brokerVars
<1>2. ASSUME NEW c \in Commands, Lock(c) \/ LockFails(c) \/ Count(c)
      PROVE  (TypeOK /\ Budget)'
  BY <1>2 DEF Lock, LockFails, Count, Goto, End, Release, TypeOK, Budget, AttemptsOf,
              callVars, brokerVars
<1>3. ASSUME NEW c \in Commands, Check(c)
      PROVE  (TypeOK /\ Budget)'
  BY <1>3, AttemptsOfType DEF Check, Goto, End, Release, TypeOK, Budget, AttemptsOf,
              callVars, brokerVars
<1>4. ASSUME NEW c \in Commands, BeginAttempt(c)
      PROVE  (TypeOK /\ Budget)'
  <2>1. attempts[c] + 1 \in 0..MaxAttempts
    BY <1>4, AttemptsOfType DEF BeginAttempt, TypeOK, Budget
  <2>2. QED
    BY <1>4, <2>1 DEF BeginAttempt, Goto, TypeOK, Budget, AttemptsOf, brokerVars
<1>5. ASSUME NEW c \in Commands, Receive(c)
      PROVE  (TypeOK /\ Budget)'
  BY <1>5 DEF Receive, TryAgain, Goto, End, Release, TypeOK, Budget, AttemptsOf, brokerVars
<1>6. ASSUME NEW c \in Commands, LoseConnection(c)
      PROVE  (TypeOK /\ Budget)'
  BY <1>6 DEF LoseConnection, TryAgain, Abandon, Goto, End, Release, TypeOK, Budget,
              AttemptsOf, brokerVars
<1>7. ASSUME NEW c \in Commands, Deadline(c) \/ Kill(c)
      PROVE  (TypeOK /\ Budget)'
  BY <1>7 DEF Deadline, Kill, Abandon, Goto, End, Release, TypeOK, Budget, AttemptsOf,
              brokerVars
<1>8. ASSUME NEW c \in Commands, BrokerCarriesOut(c)
      PROVE  (TypeOK /\ Budget)'
  <2>1. TypeOK'
    BY <1>8, CarryOutTyped DEF BrokerCarriesOut, TypeOK
  <2>2. Budget'
    BY <1>8 DEF BrokerCarriesOut, Budget, AttemptsOf
  <2>3. QED BY <2>1, <2>2
<1>9. ASSUME NEW c \in Commands, BrokerRefuses(c)
      PROVE  (TypeOK /\ Budget)'
  BY <1>9 DEF BrokerRefuses, TypeOK, Budget, AttemptsOf, brokerVars
<1>10. ASSUME NEW c \in Commands, StrayArrives(c)
       PROVE  (TypeOK /\ Budget)'
  <2>1. Budget'
    BY <1>10 DEF StrayArrives, Budget, AttemptsOf
  <2>2. CASE CarryOut(c)
    <3>1. TypeOK'
      BY <1>10, <2>2, CarryOutTyped DEF StrayArrives, TypeOK
    <3>2. QED BY <2>1, <3>1
  <2>3. CASE UNCHANGED brokerVars
    <3>1. TypeOK'
      BY <1>10, <2>3 DEF StrayArrives, TypeOK, brokerVars
    <3>2. QED BY <2>1, <3>1
  <2>4. QED BY <1>10, <2>2, <2>3 DEF StrayArrives
<1>11. ASSUME NEW c \in Commands, Accept(c)
       PROVE  (TypeOK /\ Budget)'
  BY <1>11 DEF Accept, TypeOK, Budget, AttemptsOf, callVars, Books
<1>12. ASSUME NEW b \in Books, NEW o \in open[b], Settle(b, o)
       PROVE  (TypeOK /\ Budget)'
  BY <1>12 DEF Settle, TypeOK, Budget, AttemptsOf, callVars
<1>13. ASSUME Engage \/ Disengage
       PROVE  (TypeOK /\ Budget)'
  BY <1>13 DEF Engage, Disengage, TypeOK, Budget, AttemptsOf, callVars, brokerVars
<1>14. ASSUME UNCHANGED vars
       PROVE  (TypeOK /\ Budget)'
  BY <1>14 DEF vars, TypeOK, Budget, AttemptsOf, callVars, brokerVars
<1>15. QED
  BY <1>1, <1>2, <1>3, <1>4, <1>5, <1>6, <1>7, <1>8, <1>9, <1>10, <1>11, <1>12, <1>13, <1>14
  DEF Next, Step, Broker

LEMMA Typing == Spec => [](TypeOK /\ Budget)
BY TypingInit, TypingStep, PTL DEF Spec

(* TypeOK: every reachable state is well typed; at most MaxAttempts        *)
(* requests leave for one command.                                         *)
THEOREM AdmissionTypeCorrect == Spec => []TypeOK
BY Typing, PTL

-----------------------------------------------------------------------------
(* The kill switch.                                                        *)

(* While a command that had not passed its second look when the switch     *)
(* engaged is remembered, the switch is engaged and the command is still   *)
(* before that look or has ended without an attempt.                       *)
Stopped ==
    \A c \in early :
        /\ switch # "off"
        /\ pc[c] \in Unchecked \cup Ended
        /\ attempts[c] = 0

LEMMA StoppedInit == Init => Stopped
BY DEF Init, Stopped

LEMMA StoppedStep == TypeOK /\ Budget /\ Stopped /\ [Next]_vars => Stopped'
<1> SUFFICES ASSUME TypeOK, Budget, Stopped, [Next]_vars
             PROVE  Stopped'
  OBVIOUS
<1> USE DEF Ended, Unchecked, TypeOK, Stopped
<1>1. ASSUME NEW c \in Commands,
             Enter(c) \/ Lookup(c) \/ Lock(c) \/ LockFails(c) \/ Count(c) \/ Check(c)
      PROVE  Stopped'
  BY <1>1 DEF Enter, Lookup, Lock, LockFails, Count, Check, Clear, Goto, End, callVars
<1>2. ASSUME NEW c \in Commands, BeginAttempt(c)
      PROVE  Stopped'
  BY <1>2 DEF BeginAttempt, Goto
<1>3. ASSUME NEW c \in Commands, Receive(c) \/ LoseConnection(c)
      PROVE  Stopped'
  BY <1>3 DEF Receive, LoseConnection, TryAgain, Abandon, Goto, End
<1>4. ASSUME NEW c \in Commands, Deadline(c) \/ Kill(c)
      PROVE  Stopped'
  BY <1>4 DEF Deadline, Kill, Abandon, Goto, End
<1>5. ASSUME NEW c \in Commands,
             BrokerCarriesOut(c) \/ BrokerRefuses(c) \/ StrayArrives(c) \/ Accept(c)
      PROVE  Stopped'
  BY <1>5 DEF BrokerCarriesOut, BrokerRefuses, StrayArrives, Accept, callVars
<1>6. ASSUME NEW b \in Books, NEW o \in open[b], Settle(b, o)
      PROVE  Stopped'
  BY <1>6 DEF Settle, callVars
<1>7. CASE Engage
  BY <1>7 DEF Engage, Budget, callVars
<1>8. CASE Disengage
  BY <1>8 DEF Disengage
<1>9. CASE UNCHANGED vars
  BY <1>9 DEF vars, callVars
<1>10. QED
  BY <1>1, <1>2, <1>3, <1>4, <1>5, <1>6, <1>7, <1>8, <1>9 DEF Next, Step, Broker

(* SwitchStopsCommands: whatever a command was waiting for when the switch *)
(* engaged, it sends nothing while the switch stays so.                    *)
THEOREM SwitchStopsCommandsHolds == Spec => []SwitchStopsCommands
<1>1. TypeOK /\ Budget /\ Stopped => SwitchStopsCommands
  BY DEF Stopped, SwitchStopsCommands
<1>2. QED
  BY Typing, StoppedInit, StoppedStep, <1>1, PTL DEF Spec

-----------------------------------------------------------------------------
(* The cap.                                                                *)

Sending == {"check", "call", "attempt"}

(* A counted command holds the account lock from the count to its end.     *)
Holds ==
    \A c \in Commands :
        Capped(c) /\ pc[c] \in Sending \cup {"count"} => holder = c

(* A request is on the wire only during an attempt, only async orders wait *)
(* for the exchange, and stray requests come from attempts.                *)
Wires ==
    /\ \A c \in Commands : wire[c] # "none" => pc[c] = "attempt"
    /\ strays \subseteq {c \in Commands : pc[c] \in {"call", "attempt"} \cup Ended}
    /\ pending \subseteq Async

LEMMA HoldsInit == Init => Holds /\ Wires
BY DEF Init, Holds, Wires, Sending

LEMMA HoldsStep == TypeOK /\ Holds /\ Wires /\ [Next]_vars => (Holds /\ Wires)'
<1> SUFFICES ASSUME TypeOK, Holds, Wires, [Next]_vars
             PROVE  (Holds /\ Wires)'
  OBVIOUS
<1> USE AdmissionAssumption DEF AdmissionAssumption
<1> USE DEF Ended, Unchecked, TypeOK, Holds, Wires, Sending, Capped, Async
<1>1. ASSUME NEW c \in Commands,
             Enter(c) \/ Lookup(c) \/ Lock(c) \/ LockFails(c) \/ Count(c) \/ Check(c)
      PROVE  (Holds /\ Wires)'
  BY <1>1 DEF Enter, Lookup, Lock, LockFails, Count, Check, Goto, End, Release, callVars,
              brokerVars
<1>2. ASSUME NEW c \in Commands, BeginAttempt(c)
      PROVE  (Holds /\ Wires)'
  BY <1>2 DEF BeginAttempt, Goto, brokerVars
<1>3. ASSUME NEW c \in Commands, Receive(c) \/ LoseConnection(c)
      PROVE  (Holds /\ Wires)'
  <2>1. Holds'
    BY <1>3 DEF Receive, LoseConnection, TryAgain, Abandon, Goto, End, Release, brokerVars
  <2>2. (\A d \in Commands : wire[d] # "none" => pc[d] = "attempt")'
    BY <1>3 DEF Receive, LoseConnection, TryAgain, Abandon, Goto, End, brokerVars
  <2>3. (strays \subseteq {d \in Commands : pc[d] \in {"call", "attempt"} \cup Ended})'
    BY <1>3 DEF Receive, LoseConnection, TryAgain, Abandon, Goto, End, brokerVars
  <2>4. (pending \subseteq Async)'
    BY <1>3 DEF Receive, LoseConnection, Abandon, brokerVars
  <2>5. QED BY <2>1, <2>2, <2>3, <2>4
<1>4. ASSUME NEW c \in Commands, Deadline(c) \/ Kill(c)
      PROVE  (Holds /\ Wires)'
  BY <1>4 DEF Deadline, Kill, Abandon, Goto, End, Release, brokerVars
<1>5. ASSUME NEW c \in Commands, BrokerCarriesOut(c) \/ StrayArrives(c)
      PROVE  (Holds /\ Wires)'
  BY <1>5 DEF BrokerCarriesOut, StrayArrives, CarryOut, brokerVars
<1>6. ASSUME NEW c \in Commands, BrokerRefuses(c) \/ Accept(c)
      PROVE  (Holds /\ Wires)'
  BY <1>6 DEF BrokerRefuses, Accept, callVars, brokerVars
<1>7. ASSUME NEW b \in Books, NEW o \in open[b], Settle(b, o)
      PROVE  (Holds /\ Wires)'
  BY <1>7 DEF Settle, callVars
<1>8. ASSUME Engage \/ Disengage \/ UNCHANGED vars
      PROVE  (Holds /\ Wires)'
  BY <1>8 DEF Engage, Disengage, vars, callVars, brokerVars
<1>9. QED
  BY <1>1, <1>2, <1>3, <1>4, <1>5, <1>6, <1>7, <1>8 DEF Next, Step, Broker

(* What the commands could know of: neither late nor async.                *)
Known(b) == open[b] \ (late \cup Async)

(* There is room for the order of a command that has counted and whose     *)
(* request has not been carried out.                                       *)
Room ==
    \A c \in Commands :
        Capped(c) /\ c \notin Async /\ c \notin taken /\ pc[c] \in Sending
            => Cardinality(Known(BookOf(c))) < MaxOpen

Capacity == KnownWithinCap /\ Room

LEMMA KnownFinite ==
    ASSUME TypeOK, NEW b \in Books
    PROVE  IsFiniteSet(Known(b)) /\ Cardinality(Known(b)) \in Nat
<1>1. IsFiniteSet(Commands \cup Others)
  BY AdmissionAssumption, FS_Union DEF AdmissionAssumption
<1>2. Known(b) \subseteq Commands \cup Others
  BY DEF TypeOK, Known
<1>3. IsFiniteSet(Known(b))
  BY <1>1, <1>2, FS_Subset
<1>4. QED BY <1>3, FS_CardinalityType

LEMMA BookOfType ==
    ASSUME NEW c \in Commands
    PROVE  BookOf(c) \in Books
BY DEF BookOf, Books

LEMMA CapacityInit == Init => Capacity
<1> SUFFICES ASSUME Init PROVE Capacity
  OBVIOUS
<1>1. TypeOK
  BY TypingInit
<1>2. ASSUME MaxOpen > 0, NEW b \in Books
      PROVE  Cardinality(Known(b)) <= MaxOpen
  <2>1. IsFiniteSet(open[b])
    BY AdmissionAssumption, FS_Subset DEF Init, AdmissionAssumption
  <2>2. Known(b) \subseteq open[b]
    BY DEF Known
  <2>3. Cardinality(Known(b)) <= Cardinality(open[b])
    BY <2>1, <2>2, FS_Subset
  <2>4. Cardinality(open[b]) <= MaxOpen
    BY <1>2 DEF Init
  <2>5. Cardinality(open[b]) \in Nat
    BY <2>1, FS_CardinalityType
  <2>6. QED BY <1>1, <2>3, <2>4, <2>5, KnownFinite, AdmissionAssumption DEF AdmissionAssumption
<1>3. Room
  BY DEF Init, Room, Sending
<1>4. QED BY <1>2, <1>3 DEF Capacity, KnownWithinCap, Known

(* A step after which the commands know of no more orders and none has     *)
(* come newly past its count keeps the capacity.                           *)
LEMMA NoMoreKnown ==
    ASSUME TypeOK, TypeOK', Capacity,
           \A b \in Books : Known(b)' \subseteq Known(b),
           taken \subseteq taken',
           \A c \in Commands : Capped(c) /\ pc'[c] \in Sending => pc[c] \in Sending
    PROVE  Capacity'
<1>1. ASSUME NEW b \in Books
      PROVE  /\ Cardinality(Known(b)') <= Cardinality(Known(b))
             /\ Cardinality(Known(b)) \in Nat
             /\ Cardinality(Known(b)') \in Nat
  <2>1. IsFiniteSet(Known(b)) /\ Cardinality(Known(b)) \in Nat
    BY KnownFinite
  <2>2. Known(b)' \subseteq Known(b)
    OBVIOUS
  <2>3. QED BY <2>1, <2>2, FS_Subset, FS_CardinalityType
<1>2. KnownWithinCap'
  <2> SUFFICES ASSUME MaxOpen > 0, NEW b \in Books
               PROVE  Cardinality(Known(b)') <= MaxOpen
    BY DEF KnownWithinCap, Known, Async
  <2>1. Cardinality(Known(b)) <= MaxOpen
    BY DEF Capacity, KnownWithinCap, Known
  <2>2. QED BY <1>1, <2>1, AdmissionAssumption DEF AdmissionAssumption
<1>3. Room'
  <2> SUFFICES ASSUME NEW c \in Commands,
                      Capped(c), c \notin Async, c \notin taken', pc'[c] \in Sending
               PROVE  Cardinality(Known(BookOf(c))') < MaxOpen
    BY DEF Room, Capped, Async, BookOf, Sending
  <2>1. Cardinality(Known(BookOf(c))) < MaxOpen
    BY DEF Capacity, Room
  <2>2. QED BY <1>1, <2>1, BookOfType, AdmissionAssumption DEF AdmissionAssumption
<1>4. QED BY <1>2, <1>3 DEF Capacity

LEMMA CarryOutKeepsCapacity ==
    ASSUME TypeOK, TypeOK', Holds, Capacity, NEW c \in Commands, CarryOut(c),
           pc' = pc, pc[c] \in Sending \cup Ended
    PROVE  Capacity'
<1>1. CASE c \in taken
  BY <1>1, NoMoreKnown DEF CarryOut, brokerVars, Known
<1>2. CASE c \notin taken /\ ~(KindOf[c] \in {"place", "stop"} /\ pc[c] \in Sending)
  <2>1. taken \subseteq taken' /\ late \subseteq late'
    BY <1>2 DEF CarryOut
  <2>2. ASSUME NEW b \in Books
        PROVE  Known(b)' \subseteq Known(b)
    <3>1. CASE KindOf[c] \in {"place", "stop"}
      <4>1. late' = late \cup {c}
        BY <1>2, <3>1 DEF CarryOut
      <4>2. open'[b] \subseteq open[b] \cup {c}
        BY <1>2, <3>1 DEF CarryOut, TypeOK
      <4>3. QED BY <4>1, <4>2 DEF Known
    <3>2. CASE KindOf[c] \notin {"place", "stop"}
      <4>1. open'[b] \subseteq open[b]
        BY <1>2, <3>2 DEF CarryOut, TypeOK, Books
      <4>2. QED BY <2>1, <4>1 DEF Known
    <3>3. QED BY <3>1, <3>2
  <2>3. QED BY <2>1, <2>2, NoMoreKnown
<1>3. CASE c \notin taken /\ KindOf[c] \in {"place", "stop"} /\ pc[c] \in Sending
  <2> DEFINE B == BookOf(c)
  <2>1. /\ taken' = taken \cup {c}
        /\ late' = late
        /\ open' = [open EXCEPT ![B] = @ \cup {c}]
    BY <1>3 DEF CarryOut, Sending, Ended
  <2>2. c \notin Async
    BY <1>3 DEF Async
  <2>3. KnownWithinCap'
    <3> SUFFICES ASSUME MaxOpen > 0, NEW b \in Books
                 PROVE  Cardinality(Known(b)') <= MaxOpen
      BY DEF KnownWithinCap, Known, Async
    <3>1. CASE b = B
      <4>1. Cardinality(Known(b)) < MaxOpen
        BY <1>3, <2>2, <3>1 DEF Capacity, Room, Capped
      <4>2. Known(b)' \subseteq Known(b) \cup {c}
        BY <2>1, <3>1, BookOfType DEF Known, TypeOK
      <4>3. /\ IsFiniteSet(Known(b) \cup {c})
            /\ Cardinality(Known(b) \cup {c}) <= Cardinality(Known(b)) + 1
            /\ Cardinality(Known(b)) \in Nat
        <5>1. IsFiniteSet(Known(b)) /\ Cardinality(Known(b)) \in Nat
          BY KnownFinite
        <5>2. /\ IsFiniteSet(Known(b) \cup {c})
              /\ \/ Cardinality(Known(b) \cup {c}) = Cardinality(Known(b))
                 \/ Cardinality(Known(b) \cup {c}) = Cardinality(Known(b)) + 1
          BY <5>1, FS_AddElement
        <5>3. QED BY <5>1, <5>2
      <4>4. Cardinality(Known(b)') <= Cardinality(Known(b) \cup {c})
        BY <4>2, <4>3, FS_Subset
      <4>5. /\ Cardinality(Known(b)') \in Nat
            /\ Cardinality(Known(b) \cup {c}) \in Nat
        BY <4>2, <4>3, FS_Subset, FS_CardinalityType
      <4>6. QED BY <4>1, <4>3, <4>4, <4>5, AdmissionAssumption DEF AdmissionAssumption
    <3>2. CASE b # B
      <4>1. Known(b)' = Known(b)
        BY <2>1, <3>2, BookOfType DEF Known, TypeOK
      <4>2. QED BY <4>1 DEF Capacity, KnownWithinCap, Known
    <3>3. QED BY <3>1, <3>2
  <2>4. Room'
    <3> SUFFICES ASSUME NEW d \in Commands, Capped(d), d \notin taken', pc'[d] \in Sending
                 PROVE  FALSE
      BY DEF Room, Capped, Async, BookOf, Sending
    <3>1. holder = d
      BY DEF Holds
    <3>2. holder = c
      BY <1>3 DEF Holds, Capped
    <3>3. QED BY <2>1, <3>1, <3>2
  <2>5. QED BY <2>3, <2>4 DEF Capacity
<1>4. QED BY <1>1, <1>2, <1>3

LEMMA CapacityStep ==
    ASSUME TypeOK, TypeOK', Holds, Wires, Capacity, [Next]_vars
    PROVE  Capacity'
<1>1. ASSUME NEW c \in Commands, Count(c)
      PROVE  Capacity'
  <2>1. UNCHANGED <<taken, open, late>>
    BY <1>1 DEF Count, brokerVars
  <2>2. KnownWithinCap'
    BY <2>1 DEF Capacity, KnownWithinCap, Async
  <2>3. Room'
    <3> SUFFICES ASSUME NEW d \in Commands,
                        Capped(d), d \notin Async, d \notin taken, pc'[d] \in Sending
                 PROVE  Cardinality(Known(BookOf(d))) < MaxOpen
      BY <2>1 DEF Room, Capped, Async, BookOf, Sending, Known
    <3>1. CASE d # c
      BY <1>1, <3>1 DEF Count, Goto, End, TypeOK, Capacity, Room
    <3>2. CASE d = c
      <4>1. Cardinality(open[BookOf(c)]) < MaxOpen
        BY <1>1, <3>2 DEF Count, Goto, End, TypeOK, Sending
      <4>2. Known(BookOf(c)) \subseteq open[BookOf(c)]
        BY DEF Known
      <4>3. IsFiniteSet(open[BookOf(c)])
        <5>1. IsFiniteSet(Commands \cup Others)
          BY AdmissionAssumption, FS_Union DEF AdmissionAssumption
        <5>2. open[BookOf(c)] \subseteq Commands \cup Others
          BY BookOfType DEF TypeOK
        <5>3. QED BY <5>1, <5>2, FS_Subset
      <4>4. /\ Cardinality(Known(BookOf(c))) <= Cardinality(open[BookOf(c)])
            /\ Cardinality(open[BookOf(c)]) \in Nat
            /\ Cardinality(Known(BookOf(c))) \in Nat
        BY <4>2, <4>3, FS_Subset, FS_CardinalityType
      <4>5. QED BY <3>2, <4>1, <4>4, AdmissionAssumption DEF AdmissionAssumption
    <3>3. QED BY <3>1, <3>2
  <2>4. QED BY <2>2, <2>3 DEF Capacity
<1>2. ASSUME NEW c \in Commands, BrokerCarriesOut(c)
      PROVE  Capacity'
  <2>1. pc[c] \in Sending \cup Ended
    BY <1>2 DEF BrokerCarriesOut, Wires, Sending
  <2>2. QED BY <1>2, <2>1, CarryOutKeepsCapacity DEF BrokerCarriesOut
<1>3. ASSUME NEW c \in Commands, StrayArrives(c)
      PROVE  Capacity'
  <2>1. pc[c] \in Sending \cup Ended
    BY <1>3 DEF StrayArrives, Wires, Sending
  <2>2. CASE CarryOut(c)
    BY <1>3, <2>1, <2>2, CarryOutKeepsCapacity DEF StrayArrives
  <2>3. CASE UNCHANGED brokerVars
    BY <1>3, <2>3, NoMoreKnown DEF StrayArrives, brokerVars, Known
  <2>4. QED BY <1>3, <2>2, <2>3 DEF StrayArrives
<1>4. ASSUME NEW c \in Commands, Accept(c)
      PROVE  Capacity'
  <2>1. c \in Async
    BY <1>4 DEF Accept, Wires
  <2>2. \A b \in Books : Known(b)' \subseteq Known(b)
    BY <1>4, <2>1 DEF Accept, Known, TypeOK, Books
  <2>3. QED BY <1>4, <2>2, NoMoreKnown DEF Accept
<1>5. ASSUME NEW b \in Books, NEW o \in open[b], Settle(b, o)
      PROVE  Capacity'
  <2>1. \A k \in Books : Known(k)' \subseteq Known(k)
    BY <1>5 DEF Settle, Known, TypeOK
  <2>2. QED BY <1>5, <2>1, NoMoreKnown DEF Settle
<1>6. ASSUME NEW c \in Commands,
             Enter(c) \/ Lookup(c) \/ Lock(c) \/ LockFails(c) \/ Check(c)
      PROVE  Capacity'
  <2>1. \A d \in Commands : Capped(d) /\ pc'[d] \in Sending => pc[d] \in Sending
    BY <1>6 DEF Enter, Lookup, Lock, LockFails, Check, Goto, End, TypeOK, Sending
  <2>2. UNCHANGED brokerVars
    BY <1>6 DEF Enter, Lookup, Lock, LockFails, Check
  <2>3. QED BY <2>1, <2>2, NoMoreKnown DEF brokerVars, Known
<1>7. ASSUME NEW c \in Commands,
             \/ BeginAttempt(c) \/ Receive(c) \/ LoseConnection(c)
             \/ Deadline(c) \/ Kill(c) \/ BrokerRefuses(c)
      PROVE  Capacity'
  <2>1. \A d \in Commands : Capped(d) /\ pc'[d] \in Sending => pc[d] \in Sending
    BY <1>7 DEF BeginAttempt, Receive, LoseConnection, TryAgain, Deadline, Kill, BrokerRefuses,
                Goto, End, TypeOK, Sending, Ended
  <2>2. UNCHANGED brokerVars
    BY <1>7 DEF BeginAttempt, Receive, LoseConnection, Abandon, Deadline, Kill, BrokerRefuses
  <2>3. QED BY <2>1, <2>2, NoMoreKnown DEF brokerVars, Known
<1>8. ASSUME Engage \/ Disengage \/ UNCHANGED vars
      PROVE  Capacity'
  <2>1. UNCHANGED <<pc, brokerVars>>
    BY <1>8 DEF Engage, Disengage, vars
  <2>2. QED BY <2>1, NoMoreKnown DEF brokerVars, Known
<1>9. QED
  BY <1>1, <1>2, <1>3, <1>4, <1>5, <1>6, <1>7, <1>8 DEF Next, Step, Broker

(* KnownWithinCap: for any number of commands at once, any cap and any     *)
(* orders open before, the orders the counting commands could know of      *)
(* never exceed max_open_orders.                                           *)
THEOREM KnownWithinCapHolds == Spec => []KnownWithinCap
<1>1. TypeOK /\ Budget /\ Holds /\ Wires /\ Capacity /\ [Next]_vars => Capacity'
  BY TypingStep, CapacityStep
<1>2. Capacity => KnownWithinCap
  BY DEF Capacity
<1>3. QED
  BY Typing, HoldsInit, HoldsStep, CapacityInit, <1>1, <1>2, PTL DEF Spec
=============================================================================
