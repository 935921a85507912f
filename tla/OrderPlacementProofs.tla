------------------------ MODULE OrderPlacementProofs ------------------------
(***************************************************************************)
(* Theorems about OrderPlacement, for any number of commands, reconcile    *)
(* processes and order ids, any retry limit and any number of days: its    *)
(* types, the write-ahead rule, and, under the Discipline below, the truth *)
(* of what the journal, the exit codes and reconcile say and the           *)
(* refinement of OrderFate.                                                *)
(***************************************************************************)
EXTENDS OrderPlacement, TLAPS

-----------------------------------------------------------------------------
(* The journal aggregate.                                                  *)

(* What an aggregate keeps besides its type: the last stage is among the   *)
(* facts, there are none without one, and an aggregate Unresolved reports  *)
(* has an open record, written under its own key.                          *)
ShapeOK(a, k) ==
    /\ a.facts # {} <=> a.last # "none"
    /\ a.last # "none" => a.last \in a.facts
    /\ a.opens > 0 \/ a.last \in OpenStages => a.open.stage # "none"
    /\ a.open.stage # "none" => /\ a.open.by \in Placements
                                /\ KeyOf[a.open.by] = k

JournalShape == \A k \in Keys : ShapeOK(journal[k], k)

(* What a reconcile process holds: entries written under their own key, a  *)
(* current one while it asks the broker, a verdict when it closes it.      *)
SweepShape ==
    \A s \in Sweeps :
        /\ \A e \in todo[s] : KeyOf[e.by] = e.key
        /\ at[s] \notin {"idle", "next"} => /\ cur[s] \in Entries
                                           /\ KeyOf[cur[s].by] = cur[s].key
        /\ at[s] = "close" => verdict[s] # "none"

TypeInv == TypeOK /\ JournalShape /\ SweepShape

(* One more record keeps the type and the shape of an aggregate.           *)
LEMMA NoteKeeps ==
    ASSUME NEW a \in Intents(Placements), NEW k \in Keys, ShapeOK(a, k),
           NEW stage \in Stages, NEW p \in Placements, KeyOf[p] = k
    PROVE  /\ Note(a, stage, p) \in Intents(Placements)
           /\ ShapeOK(Note(a, stage, p), k)
  <1>1. Note(a, stage, p) \in Intents(Placements)
    BY DEF Note, Intents, Stages, OpenStages, ClosedStages
  <1>2. ShapeOK(Note(a, stage, p), k)
    BY DEF Note, Intents, Stages, OpenStages, ClosedStages, ShapeOK
  <1>3. QED BY <1>1, <1>2

(* What Unresolved reports can be handed to reconcile.                     *)
LEMMA EntryOfOwed ==
    ASSUME TypeInv, NEW k \in Keys, Unresolved(journal[k])
    PROVE  /\ EntryOf(k) \in Entries
           /\ KeyOf[EntryOf(k).by] = k
  <1>1. journal[k] \in Intents(Placements) /\ ShapeOK(journal[k], k)
    BY DEF TypeInv, TypeOK, JournalShape
  <1>2. journal[k].open.stage \in OpenStages
    BY <1>1 DEF Intents, ShapeOK, Unresolved, OpenStages
  <1>3. QED BY <1>1, <1>2 DEF EntryOf, Entries, ShapeOK, OpenStages

(* A record of one of the journal's stages keeps both.                     *)
LEMMA RecordKeeps ==
    ASSUME TypeInv, NEW k \in Keys, NEW stage \in Stages, NEW p \in Placements,
           KeyOf[p] = k, RecordMaybe(k, stage, p)
    PROVE  journal' \in [Keys -> Intents(Placements)] /\ JournalShape'
  <1>1. CASE UNCHANGED journal
    BY <1>1 DEF TypeInv, TypeOK, JournalShape
  <1>2. CASE Record(k, stage, p)
    <2>1. journal[k] \in Intents(Placements) /\ ShapeOK(journal[k], k)
      BY DEF TypeInv, TypeOK, JournalShape
    <2>2. Note(journal[k], stage, p) \in Intents(Placements)
          /\ ShapeOK(Note(journal[k], stage, p), k)
      BY <2>1, NoteKeeps
    <2>3. journal' = [journal EXCEPT ![k] = Note(journal[k], stage, p)]
      BY <1>2 DEF Record
    <2>4. \A j \in Keys : journal'[j] = IF j = k THEN Note(journal[k], stage, p)
                                        ELSE journal[j]
      BY <2>3 DEF TypeInv, TypeOK
    <2>5. QED BY <2>2, <2>3, <2>4 DEF TypeInv, TypeOK, JournalShape
  <1>3. QED BY <1>1, <1>2 DEF RecordMaybe

-----------------------------------------------------------------------------
(* Type correctness.  The journal's part is RecordKeeps; the rest is one   *)
(* step per action.                                                        *)

LEMMA InitTypeInv == Init => TypeInv
  <1> SUFFICES ASSUME Init PROVE TypeInv
    OBVIOUS
  <1>1. EmptyIntent \in Intents(Placements)
    BY DEF EmptyIntent, Intents, Stages, OpenStages
  <1>2. TypeOK
    BY <1>1, PlacementAssumption
    DEF Init, TypeOK, Orders, NoOrder, NoEntry, Entries, Responses, CallErrors,
        ExitCodes
  <1>3. JournalShape
    BY DEF Init, JournalShape, ShapeOK, EmptyIntent, OpenStages
  <1>4. SweepShape
    BY DEF Init, SweepShape
  <1>5. QED BY <1>2, <1>3, <1>4 DEF TypeInv

LEMMA PlaceTypeInv ==
    ASSUME TypeInv, NEW p \in Placements, Place(p)
    PROVE  TypeInv'
  <1> USE PlacementAssumption DEF TypeInv
  <1>k. KeyOf[p] \in Keys
    OBVIOUS
  <1>1. CASE Start(p)
    BY <1>1 DEF Start, TypeOK, JournalShape, SweepShape, callVars, sweepVars
  <1>2. ASSUME NEW from, NEW stage \in OpenStages, NEW to \in {"send", "call"},
               Journal(p, from, stage, to)
        PROVE  TypeInv'
    <2>1. RecordMaybe(KeyOf[p], stage, p)
      BY <1>2 DEF Journal, RecordMaybe
    <2>2. journal' \in [Keys -> Intents(Placements)] /\ JournalShape'
      BY <1>k, <2>1, RecordKeeps DEF Stages
    <2>3. QED
      BY <1>2, <2>2 DEF Journal, Exit, TypeOK, SweepShape, callVars, sweepVars, ExitCodes
  <1>3. CASE BeginAttempt(p)
    BY <1>3 DEF BeginAttempt, AttemptsOf, TypeOK, JournalShape, SweepShape, sweepVars
  <1>4. CASE LocalLimit(p)
    BY <1>4 DEF LocalLimit, TypeOK, JournalShape, SweepShape, sweepVars,
                CallErrors, LocalErrors
  <1>5. CASE Transmit(p)
    BY <1>5 DEF Transmit, TypeOK, JournalShape, SweepShape, sweepVars
  <1>6. CASE Receive(p)
    BY <1>6 DEF Receive, AfterFailure, TypeOK, JournalShape, SweepShape, sweepVars,
                CallErrors
  <1>7. CASE LoseConnection(p)
    BY <1>7 DEF LoseConnection, AfterFailure, Abandon, TypeOK, JournalShape,
                SweepShape, sweepVars, CallErrors, LocalErrors
  <1>8. CASE Deadline(p)
    BY <1>8 DEF Deadline, Abandon, TypeOK, JournalShape, SweepShape, sweepVars,
                CallErrors, LocalErrors
  <1>9. CASE Outcome(p)
    <2>1. RecordMaybe(KeyOf[p], OutcomeStage(p), p)
      BY <1>9 DEF Outcome, RecordMaybe
    <2>2. OutcomeStage(p) \in Stages
      BY DEF OutcomeStage, Stages, ClosedStages
    <2>3. journal' \in [Keys -> Intents(Placements)] /\ JournalShape'
      BY <1>k, <2>1, <2>2, RecordKeeps
    <2>4. Emitted(p) \subseteq ExitCodes
      BY DEF Emitted, OutcomeCode, Classify, ExitCodes
    <2>5. QED
      BY <1>9, <2>3, <2>4 DEF Outcome, Exit, Forget, TypeOK, SweepShape, sweepVars
  <1>10. CASE Kill(p)
    BY <1>10 DEF Kill, Abandon, Forget, TypeOK, JournalShape, SweepShape, sweepVars
  <1>11. QED
    BY <1>1, <1>2, <1>3, <1>4, <1>5, <1>6, <1>7, <1>8, <1>9, <1>10
    DEF Place, Begin, SendStarted, OpenStages

(* Taking an order keeps the type of the broker's orders.                  *)
LEMMA TakeKeeps ==
    ASSUME TypeOK, NEW p \in Placements, Take(p)
    PROVE  order' \in [Keys -> Orders]
  <1>1. KeyOf[p] \in Keys
    BY PlacementAssumption
  <1>2. [status |-> IF KindOf[p] = "async" THEN "pending" ELSE "live", born |-> today]
            \in Orders
    BY DEF TypeOK, Orders
  <1>3. order \in [Keys -> Orders]
    BY DEF TypeOK
  <1>4. QED BY <1>1, <1>2, <1>3 DEF Take

(* The broker and the clock touch nothing a process holds.                 *)
LEMMA WorldTypeInv ==
    ASSUME TypeInv,
           \/ \E p \in Placements : BrokerAnswers(p) \/ StrayArrives(p)
           \/ \E k \in Keys : OrderMoves(k)
           \/ Midnight
    PROVE  TypeInv'
  <1> USE PlacementAssumption DEF TypeInv
  <1>1. ASSUME NEW p \in Placements, BrokerAnswers(p) PROVE TypeInv'
    <2>1. order' \in [Keys -> Orders]
      BY <1>1, TakeKeeps DEF BrokerAnswers, TypeOK
    <2>2. wire' \in [Placements -> {"none", "request"} \cup Responses \cup ServerErrors]
      BY <1>1 DEF BrokerAnswers, TypeOK, Responses, ServerErrors
    <2>3. QED
      BY <1>1, <2>1, <2>2 DEF BrokerAnswers, TypeOK, JournalShape, SweepShape, sweepVars
  <1>2. ASSUME NEW p \in Placements, StrayArrives(p) PROVE TypeInv'
    <2>1. order' \in [Keys -> Orders]
      BY <1>2, TakeKeeps DEF StrayArrives, TypeOK
    <2>2. QED
      BY <1>2, <2>1 DEF StrayArrives, TypeOK, JournalShape, SweepShape,
                        placeVars, callVars, sweepVars
  <1>3. ASSUME NEW k \in Keys, OrderMoves(k) PROVE TypeInv'
    <2>1. order' \in [Keys -> Orders]
      <3>1. order \in [Keys -> Orders]
        BY DEF TypeOK
      <3>2. \A st \in {"live", "terminal"} : [order[k] EXCEPT !.status = st] \in Orders
        BY <3>1 DEF Orders
      <3>3. QED BY <1>3, <3>1, <3>2 DEF OrderMoves
    <2>2. QED
      BY <1>3, <2>1 DEF OrderMoves, TypeOK, JournalShape, SweepShape,
                        placeVars, callVars, sweepVars
  <1>4. CASE Midnight
    BY <1>4 DEF Midnight, TypeOK, JournalShape, SweepShape,
                placeVars, callVars, sweepVars
  <1>5. QED BY <1>1, <1>2, <1>3, <1>4

LEMMA ReconcileTypeInv ==
    ASSUME TypeInv, NEW s \in Sweeps, Reconcile(s)
    PROVE  TypeInv'
  <1> USE DEF TypeInv, placeVars, callVars
  <1>1. CASE SweepStart(s)
    <2>1. \A e \in {EntryOf(k) : k \in Owed} : e \in Entries /\ KeyOf[e.by] = e.key
      BY EntryOfOwed DEF Owed, EntryOf
    <2>2. QED BY <1>1, <2>1 DEF SweepStart, TypeOK, JournalShape, SweepShape
  <1>2. ASSUME NEW e \in todo[s], Examine(s, e) PROVE TypeInv'
    BY <1>2 DEF Examine, Goto, TypeOK, JournalShape, SweepShape
  <1>3. ASSUME NEW e \in todo[s], Skip(s, e) PROVE TypeInv'
    BY <1>3 DEF Skip, TypeOK, JournalShape, SweepShape
  <1>4. CASE GetOrderState(s)
    BY <1>4 DEF GetOrderState, Goto, TypeOK, JournalShape, SweepShape
  <1>5. CASE ListToday(s)
    BY <1>5 DEF ListToday, Goto, TypeOK, JournalShape, SweepShape
  <1>6. CASE Decide(s)
    BY <1>6 DEF Decide, Goto, TypeOK, JournalShape, SweepShape
  <1>7. CASE ReadFails(s)
    BY <1>7 DEF ReadFails, Goto, TypeOK, JournalShape, SweepShape
  <1>8. CASE CloseEntry(s)
    <2>1. /\ cur[s].key \in Keys /\ cur[s].by \in Placements
          /\ KeyOf[cur[s].by] = cur[s].key
          /\ verdict[s] \in Stages
      BY <1>8 DEF CloseEntry, TypeOK, SweepShape, Entries, Stages, ClosedStages
    <2>2. journal' \in [Keys -> Intents(Placements)] /\ JournalShape'
      BY <1>8, <2>1, RecordKeeps DEF CloseEntry, RecordMaybe
    <2>3. QED BY <1>8, <2>2 DEF CloseEntry, Goto, TypeOK, SweepShape
  <1>9. CASE CloseFails(s)
    BY <1>9 DEF CloseFails, Goto, TypeOK, JournalShape, SweepShape
  <1>10. CASE SweepEnds(s)
    BY <1>10 DEF SweepEnds, TypeOK, JournalShape, SweepShape
  <1>11. QED
    BY <1>1, <1>2, <1>3, <1>4, <1>5, <1>6, <1>7, <1>8, <1>9, <1>10 DEF Reconcile

LEMMA StutterTypeInv == TypeInv /\ UNCHANGED vars => TypeInv'
  BY DEF TypeInv, vars, placeVars, callVars, sweepVars, TypeOK, JournalShape,
         SweepShape

(* Every reachable state is well typed, the journal's aggregates are       *)
(* coherent, and reconcile only ever closes an intent under the key it was *)
(* written under.                                                          *)
THEOREM TypeInvHolds == Spec => []TypeInv
  <1>1. TypeInv /\ [Next]_vars => TypeInv'
    BY PlaceTypeInv, WorldTypeInv, ReconcileTypeInv, StutterTypeInv DEF Next
  <1>2. QED BY InitTypeInv, <1>1, PTL DEF Spec

(* The part of it the runs check.                                          *)
THEOREM TypeCorrect == Spec => []TypeOK
  <1>1. TypeInv => TypeOK
    BY DEF TypeInv
  <1>2. QED BY TypeInvHolds, <1>1, PTL

-----------------------------------------------------------------------------
(* The write-ahead rule holds whatever the order ids, the reconcile runs   *)
(* and the broker do: it needs that a command past SendStarted has its     *)
(* record, which no later record takes away.                               *)
AheadInv ==
    \A p \in Placements :
        (\/ pc[p] \in {"call", "attempt", "backoff", "outcome"}
         \/ wire[p] # "none" \/ p \in strays \/ Held(KeyOf[p]))
            => "send-started" \in journal[KeyOf[p]].facts

(* No record is ever taken out of the journal.                             *)
LEMMA RecordAdds ==
    ASSUME TypeOK, NEW k \in Keys, NEW stage, NEW by, RecordMaybe(k, stage, by)
    PROVE  \A j \in Keys : journal[j].facts \subseteq journal'[j].facts
  BY DEF RecordMaybe, Record, TypeOK, Note

LEMMA PlaceAdds ==
    ASSUME TypeInv, NEW p \in Placements, Place(p)
    PROVE  \A j \in Keys : journal[j].facts \subseteq journal'[j].facts
  <1>k. KeyOf[p] \in Keys
    BY PlacementAssumption
  <1>2. CASE UNCHANGED journal
    BY <1>2
  <1>3. UNCHANGED journal \/ \E stage : RecordMaybe(KeyOf[p], stage, p)
    BY DEF Place, Start, Begin, SendStarted, Journal, RecordMaybe, BeginAttempt,
           LocalLimit, Transmit, Receive, LoseConnection, Deadline, Outcome, Kill
  <1>4. QED BY <1>2, <1>3, <1>k, RecordAdds DEF TypeInv

LEMMA ReconcileAdds ==
    ASSUME TypeInv, NEW s \in Sweeps, Reconcile(s)
    PROVE  \A j \in Keys : journal[j].facts \subseteq journal'[j].facts
  <1>1. CASE CloseEntry(s)
    <2>1. cur[s].key \in Keys
      BY <1>1 DEF CloseEntry, TypeInv, TypeOK, SweepShape, Entries
    <2>2. QED BY <1>1, <2>1, RecordAdds DEF CloseEntry, RecordMaybe, TypeInv
  <1>2. CASE UNCHANGED journal
    BY <1>2
  <1>3. QED
    BY <1>1, <1>2 DEF Reconcile, SweepStart, Examine, Skip, GetOrderState, ListToday,
                      Decide, ReadFails, CloseFails, SweepEnds

LEMMA AheadStep == TypeInv /\ AheadInv /\ [Next]_vars => AheadInv'
  <1> SUFFICES ASSUME TypeInv, AheadInv, [Next]_vars
               PROVE  AheadInv'
    OBVIOUS
  <1> USE PlacementAssumption
  <1>t. /\ journal \in [Keys -> Intents(Placements)] /\ order \in [Keys -> Orders]
        /\ DOMAIN pc = Placements /\ DOMAIN wire = Placements
        /\ strays \subseteq Placements
    BY DEF TypeInv, TypeOK
  <1>1. ASSUME NEW p \in Placements, Place(p) PROVE AheadInv'
    <2>1. \A j \in Keys : journal[j].facts \subseteq journal'[j].facts
      BY <1>1, PlaceAdds
    <2>2. UNCHANGED order
      BY <1>1 DEF Place, Start, Begin, SendStarted, Journal, BeginAttempt, LocalLimit,
                  Transmit, Receive, LoseConnection, Deadline, Outcome, Kill
    <2>3. \A q \in Placements : q # p =>
             pc'[q] = pc[q] /\ wire'[q] = wire[q] /\ (q \in strays' => q \in strays)
      BY <1>1, <1>t DEF Place, Start, Begin, SendStarted, Journal, Exit, BeginAttempt,
                  LocalLimit, Transmit, Receive, AfterFailure, Abandon, LoseConnection,
                  Deadline, Outcome, Kill, callVars
    <2>4. CASE pc'[p] = "call"
      BY <1>1, <1>t, <2>1, <2>2, <2>3, <2>4
      DEF AheadInv, Place, Start, Begin, SendStarted, Journal, Exit, Record, Note,
          BeginAttempt, LocalLimit, Transmit, Receive, AfterFailure, LoseConnection,
          Deadline, Outcome, Kill, Held
    <2>5. CASE pc'[p] # "call"
      <3>1. \/ pc'[p] \in {"call", "attempt", "backoff", "outcome"}
            \/ wire'[p] # "none" \/ p \in strays'
            => \/ pc[p] \in {"call", "attempt", "backoff", "outcome"}
               \/ wire[p] # "none" \/ p \in strays
        BY <1>1, <1>t, <2>5
        DEF Place, Start, Begin, SendStarted, Journal, Exit, BeginAttempt, LocalLimit,
            Transmit, Receive, AfterFailure, Abandon, LoseConnection, Deadline,
            Outcome, Kill, callVars
      <3>2. ASSUME NEW q \in Placements,
                   \/ pc'[q] \in {"call", "attempt", "backoff", "outcome"}
                   \/ wire'[q] # "none" \/ q \in strays' \/ Held(KeyOf[q])'
            PROVE  "send-started" \in journal[KeyOf[q]].facts
        BY <2>2, <2>3, <3>1, <3>2 DEF AheadInv, Held
      <3>3. QED BY <2>1, <3>2 DEF AheadInv
    <2>6. QED BY <2>4, <2>5
  <1>2. ASSUME NEW p \in Placements, BrokerAnswers(p) \/ StrayArrives(p) PROVE AheadInv'
    <2>1. UNCHANGED <<journal, pc>> /\ strays' \subseteq strays
      BY <1>2 DEF BrokerAnswers, StrayArrives, placeVars
    <2>2. wire[p] # "none" \/ p \in strays
      BY <1>2 DEF BrokerAnswers, StrayArrives
    <2>3. \A q \in Placements : q # p => wire'[q] = wire[q]
      BY <1>2, <1>t DEF BrokerAnswers, StrayArrives, placeVars, callVars
    <2>4. \A k \in Keys : k # KeyOf[p] => order'[k] = order[k]
      BY <1>2, <1>t DEF BrokerAnswers, StrayArrives, Take
    <2>5. "send-started" \in journal[KeyOf[p]].facts
      BY <2>2 DEF AheadInv
    <2>6. ASSUME NEW q \in Placements PROVE Held(KeyOf[q])' =>
             Held(KeyOf[q]) \/ KeyOf[q] = KeyOf[p]
      BY <2>4 DEF Held
    <2>7. QED BY <2>1, <2>3, <2>5, <2>6 DEF AheadInv
  <1>3. ASSUME NEW k \in Keys, OrderMoves(k) PROVE AheadInv'
    <2>1. \A j \in Keys : Held(j)' => Held(j)
      BY <1>3, <1>t DEF OrderMoves, Held
    <2>2. QED BY <1>3, <2>1 DEF OrderMoves, AheadInv, placeVars, callVars
  <1>4. CASE Midnight
    BY <1>4 DEF Midnight, AheadInv, placeVars, callVars, Held
  <1>5. ASSUME NEW s \in Sweeps, Reconcile(s) PROVE AheadInv'
    <2>1. \A j \in Keys : journal[j].facts \subseteq journal'[j].facts
      BY <1>5, ReconcileAdds
    <2>2. UNCHANGED <<order, placeVars, strays>>
      BY <1>5 DEF Reconcile, SweepStart, Examine, Skip, GetOrderState, ListToday, Decide,
                  ReadFails, CloseEntry, CloseFails, SweepEnds
    <2>3. QED BY <2>1, <2>2 DEF AheadInv, placeVars, callVars, Held
  <1>6. CASE UNCHANGED vars
    BY <1>6 DEF vars, AheadInv, placeVars, callVars, Held
  <1>7. QED BY <1>1, <1>2, <1>3, <1>4, <1>5, <1>6 DEF Next

THEOREM AheadInvHolds == Spec => []AheadInv
  <1>1. Init => AheadInv
    <2>1. ASSUME Init, NEW p \in Placements PROVE ~Held(KeyOf[p])
      BY <2>1, PlacementAssumption DEF Init, Held, NoOrder
    <2>2. QED BY <2>1 DEF Init, AheadInv
  <1>2. QED BY TypeInvHolds, AheadStep, <1>1, PTL DEF Spec

(* Whatever is on the wire, still travelling or held by the broker was     *)
(* journaled as send-started before it left, under the broker's key.       *)
THEOREM WriteAheadHolds == Spec => []WriteAhead
  <1>1. AheadInv => WriteAhead
    BY DEF AheadInv, WriteAhead
  <1>2. QED BY AheadInvHolds, <1>1, PTL

-----------------------------------------------------------------------------
(* What the journal, the exit codes and reconcile say is true, for every   *)
(* instance of OrderPlacement that keeps the Discipline: an order id per   *)
(* command, reconcile only after the requests of its intents came to an    *)
(* end, and a broker whose errors are definitive.  Without any one of the  *)
(* three there is a counterexample.                                        *)
Discipline ==
    /\ SettledSweeps
    /\ DefinitiveErrors
    /\ \A p, q \in Placements : KeyOf[p] = KeyOf[q] => p = q

(* The command has ended and none of its requests travels.                 *)
Over(p) == pc[p] \in {"done", "killed"} /\ p \notin strays

(* No order, and no request of this command that could still make one.     *)
Void(p) == ~Held(KeyOf[p]) /\ p \notin strays

-----------------------------------------------------------------------------
(* The inductive invariant, command by command and sweep by sweep.         *)

(* What is on the wire tells the truth about the order.                    *)
WireOK(p) ==
    /\ wire[p] # "none" => pc[p] = "attempt" /\ sent[p]
    /\ wire[p] \in {"ok", "duplicate"} => Held(KeyOf[p])
    /\ wire[p] \notin {"none", "request", "ok", "duplicate"} => Void(p)

(* So does what the command knows: nothing sent, or an error confirmed,    *)
(* means no order.                                                         *)
CallOK(p) ==
    /\ pc[p] \in {"idle", "begin", "send", "call"} => ~sent[p] /\ ~confirmed[p]
    /\ pc[p] = "attempt" => ~confirmed[p]
    /\ pc[p] \notin {"done", "killed"} /\ ~sent[p] => Void(p)
    /\ pc[p] = "backoff" /\ confirmed[p] => Void(p)
    /\ pc[p] = "outcome" =>
         /\ result[p] = "ok" => Held(KeyOf[p])
         /\ result[p] = "refused" => Void(p)
         /\ confirmed[p] /\ result[p] \notin {"ok", "duplicate"} => Void(p)

ExitOK(p) ==
    /\ exit[p] = "OK" => Held(KeyOf[p])
    /\ exit[p] \notin {"none", "OK", "UNCONFIRMED", "INTERNAL"} => pc[p] = "done" /\ Void(p)
    /\ exit[p] = "INTERNAL" => pc[p] = "done" /\ (Void(p) \/ Held(KeyOf[p]))

(* One lifecycle per intent: opened once, closed for good, and closed with *)
(* the truth.                                                              *)
LifeOK(p) == LET a == journal[KeyOf[p]] IN
    /\ pc[p] \in {"idle", "begin"} => a = EmptyIntent
    /\ pc[p] = "send" => a.facts = {"intent-created"}
    /\ pc[p] \notin {"idle", "begin", "done", "killed"} => a.opens = 1 /\ a.closes = 0
    /\ a.opens = IF a.facts = {} THEN 0 ELSE 1
    /\ a.open.stage = "intent-created" => "send-started" \notin a.facts
    /\ a.closes = 0 => a.facts \cap ClosedStages = {}
    /\ a.closes > 0 => a.last \in ClosedStages /\ pc[p] \in {"done", "killed"}
    /\ a.facts \cap {"broker-rejected", "reconciled-not-placed"} # {}
         => Over(p) /\ Void(p)
    /\ a.facts \cap {"broker-confirmed", "reconciled-placed"} # {}
         => Held(KeyOf[p])

(* The order is no older than the command that placed it.                  *)
AgeOK(p) ==
    /\ created[p] <= today
    /\ Held(KeyOf[p]) => /\ created[p] <= order[KeyOf[p]].born
                         /\ order[KeyOf[p]].born <= today
    /\ order[KeyOf[p]].status = "pending" => KindOf[p] = "async"

CommandOK(p) == WireOK(p) /\ CallOK(p) /\ ExitOK(p) /\ LifeOK(p) /\ AgeOK(p)

(* An entry in the hands of reconcile: its command is over.                *)
EntryOK(e) == Over(e.by) /\ journal[e.key].facts # {}

SweepOK(s) ==
    /\ \A e \in todo[s] :
          EntryOK(e) /\ (e.stage = "intent-created" => ~Held(e.key))
    /\ at[s] \notin {"idle", "next"} => EntryOK(cur[s])
    /\ at[s] = "decide" =>
         /\ KindOf[cur[s].by] # "async"
         /\ Held(cur[s].key) => created[cur[s].by] < today
    /\ at[s] = "close" => (verdict[s] = "reconciled-placed" <=> Held(cur[s].key))

TruthInv ==
    /\ \A k \in Keys : Held(k) => \E p \in Placements : KeyOf[p] = k
    /\ \A p \in Placements : CommandOK(p)
    /\ \A s \in Sweeps : SweepOK(s)

-----------------------------------------------------------------------------
(* With a command per id, the id has no other request than the command's.  *)
LEMMA BarrenIsVoid ==
    ASSUME Discipline, TypeOK, NEW p \in Placements
    PROVE  Barren(KeyOf[p]) <=> Void(p)
  BY DEF Discipline, TypeOK, Barren, Void

LEMMA InitTruth == Init => TruthInv
  <1> SUFFICES ASSUME Init PROVE TruthInv
    OBVIOUS
  <1>1. \A k \in Keys : ~Held(k) /\ order[k].status = "none"
                        /\ journal[k] = EmptyIntent
    BY DEF Init, Held, NoOrder
  <1>2. ASSUME NEW p \in Placements PROVE CommandOK(p)
    <2>1. ~Held(KeyOf[p]) /\ order[KeyOf[p]].status = "none"
          /\ journal[KeyOf[p]] = EmptyIntent
      BY <1>1, PlacementAssumption
    <2>2. WireOK(p) /\ CallOK(p) /\ ExitOK(p)
      BY <2>1 DEF Init, WireOK, CallOK, ExitOK, Void
    <2>3. LifeOK(p)
      <3>1. pc[p] = "idle"
        BY DEF Init
      <3>2. /\ EmptyIntent.opens = 0 /\ EmptyIntent.closes = 0
            /\ EmptyIntent.facts = {} /\ EmptyIntent.open.stage = "none"
        BY DEF EmptyIntent
      <3>3. QED BY <2>1, <3>1, <3>2 DEF LifeOK
    <2>4. AgeOK(p)
      BY <2>1 DEF Init, AgeOK
    <2>5. QED BY <2>2, <2>3, <2>4 DEF CommandOK
  <1>3. \A s \in Sweeps : SweepOK(s)
    BY DEF Init, SweepOK
  <1>4. QED BY <1>1, <1>2, <1>3 DEF TruthInv

-----------------------------------------------------------------------------
(* A step of a command.                                                    *)

(* It touches nothing of the others.                                       *)
LEMMA PlaceFrame ==
    ASSUME Discipline, TypeInv, NEW p \in Placements, Place(p),
           NEW q \in Placements, q # p
    PROVE  /\ pc'[q] = pc[q] /\ wire'[q] = wire[q] /\ sent'[q] = sent[q]
           /\ confirmed'[q] = confirmed[q] /\ result'[q] = result[q]
           /\ exit'[q] = exit[q] /\ created'[q] = created[q]
           /\ q \in strays' <=> q \in strays
           /\ journal'[KeyOf[q]] = journal[KeyOf[q]]
  <1>1. KeyOf[p] # KeyOf[q] /\ KeyOf[p] \in Keys /\ KeyOf[q] \in Keys
    BY PlacementAssumption DEF Discipline
  <1>2. QED
    BY <1>1 DEF TypeInv, TypeOK, Place, Start, Begin, SendStarted, Journal, Exit,
        RecordMaybe, Record, BeginAttempt, LocalLimit, Transmit, Receive, AfterFailure,
        Abandon, LoseConnection, Deadline, Outcome, Forget, Kill, callVars

LEMMA PlaceKeepsWorld ==
    ASSUME NEW p \in Placements, Place(p)
    PROVE  UNCHANGED <<order, today, sweepVars>>
  BY DEF Place, Start, Begin, SendStarted, Journal, BeginAttempt, LocalLimit, Transmit,
         Receive, LoseConnection, Deadline, Outcome, Kill

(* A command that is over takes no step.                                   *)
LEMMA PlaceRuns ==
    ASSUME NEW p \in Placements, Place(p)
    PROVE  pc[p] \notin {"done", "killed"}
  BY DEF Place, Start, Begin, SendStarted, Journal, BeginAttempt, LocalLimit, Transmit,
         Receive, LoseConnection, Deadline, Outcome, Kill

(* What the types say of one command and its journal entry.                *)
LEMMA Typed ==
    ASSUME TypeInv, NEW p \in Placements
    PROVE  /\ KeyOf[p] \in Keys
           /\ journal \in [Keys -> Intents(Placements)]
           /\ journal[KeyOf[p]] \in Intents(Placements)
           /\ order \in [Keys -> Orders]
           /\ created[p] \in Nat /\ today \in Nat /\ order[KeyOf[p]].born \in Nat
           /\ DOMAIN pc = Placements /\ DOMAIN wire = Placements
           /\ sent \in [Placements -> BOOLEAN] /\ confirmed \in [Placements -> BOOLEAN]
           /\ DOMAIN result = Placements /\ DOMAIN created = Placements
           /\ exit \in [Placements -> {"none"} \cup ExitCodes]
           /\ strays \subseteq Placements
  <1>1. KeyOf[p] \in Keys
    BY PlacementAssumption
  <1>2. order[KeyOf[p]] \in Orders
    BY <1>1 DEF TypeInv, TypeOK
  <1>3. order[KeyOf[p]].born \in Nat
    BY <1>2, PlacementAssumption DEF Orders
  <1>4. created[p] \in Nat /\ today \in Nat
    BY PlacementAssumption DEF TypeInv, TypeOK
  <1>5. QED BY <1>1, <1>3, <1>4 DEF TypeInv, TypeOK

(* The journal entry of a command after its own step.                      *)
LEMMA LifeStep ==
    ASSUME Discipline, TypeInv, AheadInv, NEW p \in Placements, CommandOK(p), Place(p)
    PROVE  LifeOK(p)'
  <1> DEFINE k == KeyOf[p]
  <1>o. UNCHANGED order /\ (Held(k)' <=> Held(k))
    BY PlaceKeepsWorld DEF Held
  <1>t. KeyOf[p] \in Keys /\ journal \in [Keys -> Intents(Placements)]
        /\ journal[k] \in Intents(Placements) /\ DOMAIN pc = Placements
    BY Typed
  <1>n. pc[p] \notin {"done", "killed"}
    BY PlaceRuns
  <1>l. LifeOK(p)
    BY DEF CommandOK
  <1>c. pc[p] \notin {"idle", "begin"} => journal[k].closes = 0 /\ journal[k].opens = 1
    BY <1>n, <1>l DEF LifeOK
  <1>e. journal[k].facts \cap {"broker-rejected", "reconciled-not-placed"} = {}
    BY <1>l, <1>n DEF LifeOK, Over
  <1>1. CASE Begin(p)
    <2>1. journal[k] = EmptyIntent
      BY <1>1, <1>l DEF Begin, Journal, LifeOK
    <2>2. CASE Record(k, "intent-created", p)
      BY <1>t, <1>o, <2>1, <2>2, <1>1
      DEF Begin, Journal, Exit, Record, Note, LifeOK, EmptyIntent, OpenStages, ClosedStages
    <2>3. CASE UNCHANGED journal
      BY <1>t, <1>o, <2>1, <2>3, <1>1
      DEF Begin, Journal, Exit, Record, Note, LifeOK, EmptyIntent, OpenStages, ClosedStages
    <2>4. QED BY <1>1, <2>2, <2>3 DEF Begin, Journal, RecordMaybe
  <1>2. CASE SendStarted(p)
    <2>1. journal[k].facts = {"intent-created"} /\ journal[k].opens = 1
          /\ journal[k].closes = 0
      BY <1>2, <1>l DEF SendStarted, Journal, LifeOK
    <2>2. CASE Record(k, "send-started", p)
      BY <1>t, <1>o, <1>l, <2>1, <2>2, <1>2
      DEF SendStarted, Journal, Exit, Record, Note, LifeOK, OpenStages, ClosedStages
    <2>3. CASE UNCHANGED journal
      BY <1>t, <1>o, <1>l, <2>1, <2>3, <1>2
      DEF SendStarted, Journal, Exit, Record, Note, LifeOK, OpenStages, ClosedStages
    <2>4. QED BY <1>2, <2>2, <2>3 DEF SendStarted, Journal, RecordMaybe
  <1>3. CASE Outcome(p)
    <2>1. CASE UNCHANGED journal
      BY <1>t, <1>o, <1>l, <1>c, <1>e, <2>1, <1>3 DEF Outcome, Exit, LifeOK, ClosedStages
    <2>2. CASE Record(k, OutcomeStage(p), p) /\ OutcomeCode(p) # "UNCONFIRMED"
      <3>1. journal[k].facts \cap ClosedStages = {} /\ journal[k].facts # {}
        BY <1>3, <1>c, <1>l DEF Outcome, LifeOK, AheadInv
      <3>2. journal'[k] = Note(journal[k], OutcomeStage(p), p)
        BY <2>2, <1>t DEF Record
      <3>3. CASE OutcomeCode(p) = "OK"
        <4>1. result[p] = "ok" /\ OutcomeStage(p) = "broker-confirmed"
          BY <3>3 DEF OutcomeCode, OutcomeStage, Classify
        <4>2. Held(k)
          BY <4>1, <1>3 DEF Outcome, CommandOK, CallOK
        <4>3. QED
          BY <1>3, <1>t, <1>o, <1>l, <1>c, <3>1, <3>2, <4>1, <4>2
          DEF Outcome, Exit, LifeOK, Note, OpenStages, ClosedStages, Intents
      <3>4. CASE OutcomeCode(p) # "OK"
        <4>1. OutcomeStage(p) = "broker-rejected"
          BY <3>4 DEF OutcomeStage
        <4>2. Void(p)
          BY <1>3, <2>2, <3>4, Typed
          DEF Outcome, CommandOK, CallOK, OutcomeCode, Classify, Phase
        <4>3. Over(p)' /\ Void(p)'
          BY <1>3, <1>t, <1>o, <4>2 DEF Outcome, Exit, Over, Void
        <4>4. QED
          BY <1>3, <1>t, <1>o, <1>l, <1>c, <3>1, <3>2, <4>1, <4>3
          DEF Outcome, Exit, LifeOK, Note, OpenStages, ClosedStages, Intents
      <3>5. QED BY <3>3, <3>4
    <2>3. QED BY <1>3, <2>1, <2>2 DEF Outcome, RecordMaybe
  <1>4. CASE Start(p) \/ BeginAttempt(p) \/ LocalLimit(p) \/ Transmit(p) \/ Receive(p)
             \/ LoseConnection(p) \/ Deadline(p) \/ Kill(p)
    <2>1. UNCHANGED journal
      BY <1>4 DEF Start, BeginAttempt, LocalLimit, Transmit, Receive, LoseConnection,
                  Deadline, Kill
    <2>2. CASE Start(p)
      BY <2>1, <2>2, <1>t, <1>o, <1>l DEF Start, LifeOK, EmptyIntent
    <2>3. CASE ~Start(p)
      <3>1. pc'[p] \notin {"idle", "begin", "send"}
            /\ (pc[p] \in {"idle", "begin"} => pc'[p] = "killed")
        BY <1>4, <2>3, <1>t DEF BeginAttempt, LocalLimit, Transmit, Receive,
                  LoseConnection, AfterFailure, Deadline, Kill
      <3>2. QED BY <2>1, <3>1, <1>t, <1>o, <1>l, <1>c, <1>e
                DEF LifeOK, EmptyIntent, ClosedStages
    <2>4. QED BY <2>2, <2>3
  <1>5. QED BY <1>1, <1>2, <1>3, <1>4 DEF Place

(* What a command knows, and what it has on the wire, after its own step.  *)
LEMMA CallStep ==
    ASSUME Discipline, TypeInv, NEW p \in Placements, CommandOK(p), Place(p)
    PROVE  WireOK(p)' /\ CallOK(p)' /\ ExitOK(p)' /\ AgeOK(p)'
  <1>t. /\ KeyOf[p] \in Keys /\ DOMAIN pc = Placements /\ DOMAIN wire = Placements
        /\ sent \in [Placements -> BOOLEAN] /\ confirmed \in [Placements -> BOOLEAN]
        /\ DOMAIN result = Placements /\ DOMAIN created = Placements
        /\ exit \in [Placements -> {"none"} \cup ExitCodes]
        /\ created[p] \in Nat /\ today \in Nat /\ order[KeyOf[p]].born \in Nat
    BY Typed
  <1>o. UNCHANGED <<order, today>> /\ (Held(KeyOf[p])' <=> Held(KeyOf[p]))
    BY PlaceKeepsWorld DEF Held
  <1>a. WireOK(p) /\ CallOK(p) /\ ExitOK(p) /\ AgeOK(p)
    BY DEF CommandOK
  <1>n. pc[p] \notin {"done", "killed"}
    BY PlaceRuns
  <1>x. exit[p] \in {"none", "OK", "UNCONFIRMED"}
    BY <1>n, <1>a DEF ExitOK
  <1>w. pc[p] # "attempt" => wire[p] = "none"
    BY <1>a DEF WireOK
  <1> USE <1>t, <1>o, <1>a, <1>n, <1>x, <1>w
  <1>1. CASE Start(p)
    BY <1>1 DEF Start, callVars, WireOK, CallOK, ExitOK, AgeOK, Void
  <1>2. CASE Begin(p) \/ SendStarted(p)
    BY <1>2 DEF Begin, SendStarted, Journal, Exit, callVars, WireOK, CallOK, ExitOK,
                AgeOK, Void
  <1>3. CASE BeginAttempt(p)
    BY <1>3 DEF BeginAttempt, WireOK, CallOK, ExitOK, AgeOK, Void
  <1>4. CASE LocalLimit(p)
    BY <1>4 DEF LocalLimit, WireOK, CallOK, ExitOK, AgeOK, Void
  <1>5. CASE Transmit(p)
    BY <1>5 DEF Transmit, WireOK, CallOK, ExitOK, AgeOK, Void
  <1>6. CASE Receive(p)
    BY <1>6 DEF Receive, AfterFailure, Retryable, Responses, ServerErrors,
                WireOK, CallOK, ExitOK, AgeOK, Void
  <1>7. CASE LoseConnection(p)
    BY <1>7 DEF LoseConnection, AfterFailure, Abandon, WireOK, CallOK, ExitOK, AgeOK, Void
  <1>8. CASE Deadline(p)
    BY <1>8 DEF Deadline, Abandon, WireOK, CallOK, ExitOK, AgeOK, Void
  <1>9. CASE Outcome(p)
    <2>1. OutcomeCode(p) \notin {"OK", "UNCONFIRMED"} => Void(p)
      BY <1>9 DEF Outcome, CallOK, OutcomeCode, Classify, Phase
    <2>2. OutcomeCode(p) = "OK" => Held(KeyOf[p])
      BY <1>9 DEF Outcome, CallOK, OutcomeCode, Classify
    <2>3. QED
      BY <1>9, <2>1, <2>2
      DEF Outcome, Emitted, Exit, Forget, WireOK, CallOK, ExitOK, AgeOK, Void
  <1>10. CASE Kill(p)
    BY <1>10 DEF Kill, Abandon, Forget, WireOK, CallOK, ExitOK, AgeOK, Void
  <1>11. QED
    BY <1>1, <1>2, <1>3, <1>4, <1>5, <1>6, <1>7, <1>8, <1>9, <1>10 DEF Place

LEMMA PlaceTruth ==
    ASSUME Discipline, TypeInv, AheadInv, TruthInv, NEW p \in Placements, Place(p)
    PROVE  TruthInv'
  <1>o. UNCHANGED <<order, today, sweepVars>>
    BY PlaceKeepsWorld
  <1>1. CommandOK(p)'
    BY CallStep, LifeStep DEF TruthInv, CommandOK
  <1>2. ASSUME NEW q \in Placements, q # p PROVE CommandOK(q)'
    <2>1. CommandOK(q)
      BY DEF TruthInv
    <2>2. Held(KeyOf[q])' <=> Held(KeyOf[q])
      BY <1>o DEF Held
    <2>3. QED
      BY <1>2, <1>o, <2>1, <2>2, PlaceFrame
      DEF CommandOK, WireOK, CallOK, ExitOK, LifeOK, AgeOK, Void, Over
  <1>3. ASSUME NEW s \in Sweeps PROVE SweepOK(s)'
    <2>1. ASSUME NEW e \in Entries, KeyOf[e.by] = e.key, EntryOK(e)
          PROVE  EntryOK(e)' /\ (Held(e.key)' <=> Held(e.key))
                 /\ created'[e.by] = created[e.by]
      <3>1. e.by \in Placements /\ e.by # p
        BY <2>1, PlaceRuns DEF Entries, EntryOK, Over
      <3>2. QED BY <2>1, <3>1, <1>o, PlaceFrame DEF EntryOK, Over, Held
    <2>2. SweepOK(s) /\ SweepShape /\ todo[s] \subseteq Entries
      BY DEF TruthInv, TypeInv, TypeOK
    <2>3. QED BY <1>o, <2>1, <2>2 DEF SweepOK, SweepShape, sweepVars
  <1>4. QED BY <1>o, <1>1, <1>2, <1>3 DEF TruthInv, Held

-----------------------------------------------------------------------------
(* A step of the broker or the clock.                                      *)

(* The broker takes an order only for a request of a command that is not   *)
(* over, and then only under the command's own id.                         *)
LEMMA TakeTruth ==
    ASSUME Discipline, TypeInv, TruthInv, NEW p \in Placements,
           BrokerAnswers(p) \/ StrayArrives(p)
    PROVE  TruthInv'
  <1>t. /\ KeyOf[p] \in Keys /\ DOMAIN wire = Placements /\ strays \subseteq Placements
        /\ order \in [Keys -> Orders] /\ created[p] \in Nat /\ today \in Nat
    BY Typed
  <1>a. WireOK(p) /\ CallOK(p) /\ ExitOK(p) /\ LifeOK(p) /\ AgeOK(p)
    BY DEF TruthInv, CommandOK
  <1>u. UNCHANGED <<journal, pc, attempts, sent, confirmed, result, created, exit, today,
                    sweepVars>>
    BY DEF BrokerAnswers, StrayArrives, placeVars, callVars
  <1>v. \/ wire[p] = "request" /\ pc[p] = "attempt" /\ sent[p]
      \/ p \in strays
    BY <1>a DEF BrokerAnswers, StrayArrives, WireOK
  <1>k. \A k \in Keys : k # KeyOf[p] => order'[k] = order[k]
    BY <1>t DEF BrokerAnswers, StrayArrives, Take
  <1>m. Held(KeyOf[p]) => Held(KeyOf[p])' /\ order'[KeyOf[p]] = order[KeyOf[p]]
    BY <1>t DEF BrokerAnswers, StrayArrives, Take, Held
  <1>b. ~Held(KeyOf[p]) /\ Held(KeyOf[p])' =>
            /\ order'[KeyOf[p]].born = today
            /\ order'[KeyOf[p]].status = "pending" => KindOf[p] = "async"
    BY <1>t DEF BrokerAnswers, StrayArrives, Take, Held
  <1>s. strays' \subseteq strays /\ \A q \in Placements : q # p =>
            (q \in strays' <=> q \in strays) /\ wire'[q] = wire[q]
    BY <1>t DEF BrokerAnswers, StrayArrives, placeVars, callVars
  <1>1. CommandOK(p)'
    <2>1. AgeOK(p)'
      <3>1. CASE Held(KeyOf[p])
        BY <3>1, <1>a, <1>u, <1>m DEF AgeOK
      <3>2. CASE ~Held(KeyOf[p])
        BY <3>2, <1>a, <1>t, <1>u, <1>b DEF AgeOK, Held
      <3>3. QED BY <3>1, <3>2
    <2>2. WireOK(p)'
      <3>1. CASE StrayArrives(p)
        BY <3>1, <1>a, <1>u, <1>m DEF StrayArrives, placeVars, callVars, WireOK, Void
      <3>2. CASE BrokerAnswers(p)
        <4>1. wire'[p] = "ok" => Held(KeyOf[p])'
          BY <3>2, <1>t DEF BrokerAnswers, Take, Held, ServerErrors
        <4>2. wire'[p] = "duplicate" => Held(KeyOf[p])'
          BY <3>2, <1>t, <1>m DEF BrokerAnswers, Take
        <4>3. wire'[p] \notin {"none", "request", "ok", "duplicate"} => Void(p)'
          <5>1. TypeOK
            BY DEF TypeInv
          <5>2. CASE Barren(KeyOf[p]) /\ UNCHANGED order
            BY <3>2, <5>1, <5>2, <1>u, BarrenIsVoid DEF BrokerAnswers, Void, Held
          <5>3. CASE wire'[p] \in {"ok", "duplicate"}
            BY <5>3
          <5>4. QED BY <3>2, <5>2, <5>3, <1>t DEF BrokerAnswers, Discipline
        <4>4. QED BY <4>1, <4>2, <4>3, <1>u, <1>v, <3>2, <1>a DEF BrokerAnswers, WireOK
      <3>3. QED BY <3>1, <3>2
    <2>3. Void(p) => BrokerAnswers(p) /\ wire[p] = "request"
      BY DEF Void, StrayArrives, BrokerAnswers
    <2>4. CallOK(p)'
      BY <1>a, <1>u, <1>m, <1>v, <2>3 DEF CallOK, Void
    <2>5. ExitOK(p)'
      BY <1>a, <1>u, <1>m, <1>v, <2>3 DEF ExitOK, Void
    <2>6. LifeOK(p)'
      BY <1>a, <1>u, <1>m, <1>v, <2>3 DEF LifeOK, Over, Void
    <2>7. QED BY <2>1, <2>2, <2>4, <2>5, <2>6 DEF CommandOK
  <1>2. ASSUME NEW q \in Placements, q # p PROVE CommandOK(q)'
    <2>1. CommandOK(q) /\ KeyOf[q] \in Keys /\ KeyOf[q] # KeyOf[p]
      BY <1>2, Typed DEF TruthInv, Discipline
    <2>2. order'[KeyOf[q]] = order[KeyOf[q]]
      BY <1>k, <2>1
    <2>3. QED
      BY <1>2, <1>u, <1>s, <2>1, <2>2
      DEF CommandOK, WireOK, CallOK, ExitOK, LifeOK, AgeOK, Void, Over, Held
  <1>3. ASSUME NEW s \in Sweeps PROVE SweepOK(s)'
    <2>1. ASSUME NEW e \in Entries, KeyOf[e.by] = e.key, EntryOK(e)
          PROVE  EntryOK(e)' /\ (Held(e.key)' <=> Held(e.key))
      <3>1. e.by \in Placements /\ e.key \in Keys
        BY DEF Entries
      <3>2. e.by # p
        BY <2>1, <1>v DEF EntryOK, Over
      <3>3. e.key # KeyOf[p]
        BY <2>1, <3>1, <3>2 DEF Discipline
      <3>4. QED BY <2>1, <3>1, <3>2, <3>3, <1>k, <1>s, <1>u DEF EntryOK, Over, Held
    <2>2. SweepOK(s) /\ SweepShape /\ todo[s] \subseteq Entries
      BY DEF TruthInv, TypeInv, TypeOK
    <2>3. QED BY <1>u, <2>1, <2>2 DEF SweepOK, SweepShape, sweepVars
  <1>4. QED BY <1>t, <1>k, <1>m, <1>1, <1>2, <1>3 DEF TruthInv, Held

LEMMA MovesTruth ==
    ASSUME TypeInv, TruthInv, NEW k \in Keys, OrderMoves(k)
    PROVE  TruthInv'
  <1>1. \A j \in Keys : /\ Held(j)' <=> Held(j)
                        /\ order'[j].born = order[j].born
                        /\ order'[j].status = "pending" => order[j].status = "pending"
    <2>1. order \in [Keys -> Orders]
      BY DEF TypeInv, TypeOK
    <2>2. QED BY <2>1 DEF OrderMoves, Held, Orders
  <1>2. UNCHANGED <<journal, placeVars, strays, today, sweepVars>>
    BY DEF OrderMoves
  <1>3. ASSUME NEW p \in Placements PROVE CommandOK(p)'
    <2>1. CommandOK(p) /\ KeyOf[p] \in Keys
      BY Typed DEF TruthInv
    <2>2. QED
      BY <1>1, <1>2, <2>1 DEF CommandOK, WireOK, CallOK, ExitOK, LifeOK, AgeOK, Void, Over,
                              placeVars, callVars
  <1>4. ASSUME NEW s \in Sweeps PROVE SweepOK(s)'
    <2>1. SweepOK(s) /\ SweepShape /\ todo[s] \subseteq Entries
      BY DEF TruthInv, TypeInv, TypeOK
    <2>2. QED
      BY <1>1, <1>2, <2>1 DEF SweepOK, SweepShape, EntryOK, Over, Entries, sweepVars,
                              placeVars, callVars
  <1>5. QED BY <1>1, <1>3, <1>4 DEF TruthInv

LEMMA MidnightTruth ==
    ASSUME TypeInv, TruthInv, Midnight
    PROVE  TruthInv'
  <1>1. ASSUME NEW p \in Placements PROVE CommandOK(p)'
    <2>1. CommandOK(p) /\ created[p] \in Nat /\ today \in Nat
          /\ order[KeyOf[p]].born \in Nat
      BY Typed DEF TruthInv
    <2>2. QED
      BY <2>1 DEF Midnight, CommandOK, WireOK, CallOK, ExitOK, LifeOK, AgeOK, Void, Over,
                  Held, placeVars, callVars
  <1>2. ASSUME NEW s \in Sweeps PROVE SweepOK(s)'
    <2>1. SweepOK(s) /\ SweepShape
      BY DEF TruthInv, TypeInv
    <2>2. at[s] = "decide" => created[cur[s].by] \in Nat /\ today \in Nat
      BY <2>1, Typed DEF SweepShape, Entries
    <2>3. QED
      BY <2>1, <2>2 DEF Midnight, SweepOK, EntryOK, Over, Held, sweepVars, placeVars,
                        callVars
  <1>3. QED BY <1>1, <1>2 DEF TruthInv, Midnight, Held

-----------------------------------------------------------------------------
(* A step of reconcile.                                                    *)

LEMMA ReconcileFrame ==
    ASSUME NEW s \in Sweeps, Reconcile(s)
    PROVE  UNCHANGED <<order, placeVars, strays, today>>
  BY DEF Reconcile, SweepStart, Examine, Skip, GetOrderState, ListToday, Decide,
         ReadFails, CloseEntry, CloseFails, SweepEnds

(* Closing the current entry: the aggregate of its intent afterwards.      *)
LEMMA CloseLife ==
    ASSUME Discipline, TypeInv, TruthInv, NEW s \in Sweeps, CloseEntry(s),
           NEW p \in Placements
    PROVE  LifeOK(p)'
  <1>u. UNCHANGED <<order, pc, strays>>
    BY DEF CloseEntry, placeVars
  <1>t. /\ KeyOf[p] \in Keys /\ journal \in [Keys -> Intents(Placements)]
        /\ journal[KeyOf[p]] \in Intents(Placements)
    BY Typed
  <1>l. LifeOK(p)
    BY DEF TruthInv, CommandOK
  <1>c. /\ at[s] = "close" /\ cur[s].by \in Placements /\ KeyOf[cur[s].by] = cur[s].key
        /\ verdict[s] \in {"reconciled-placed", "reconciled-not-placed"}
        /\ EntryOK(cur[s])
        /\ verdict[s] = "reconciled-placed" <=> Held(cur[s].key)
    BY DEF CloseEntry, TypeInv, TypeOK, SweepShape, Entries, TruthInv, SweepOK
  <1>1. CASE p = cur[s].by
    <2>1. journal'[KeyOf[p]] = Note(journal[KeyOf[p]], verdict[s], p)
      BY <1>1, <1>c, <1>t DEF CloseEntry, Record
    <2>2. Over(p) /\ journal[KeyOf[p]].facts # {}
      BY <1>1, <1>c DEF EntryOK
    <2>3. verdict[s] = "reconciled-not-placed" => Void(p)
      BY <1>1, <1>c, <2>2 DEF Void, Over
    <2>4. QED
      BY <1>1, <1>c, <1>l, <1>t, <1>u, <2>1, <2>2, <2>3
      DEF LifeOK, Note, OpenStages, ClosedStages, Intents, Over, Void, Held
  <1>2. CASE p # cur[s].by
    <2>1. KeyOf[p] # cur[s].key
      BY <1>2, <1>c DEF Discipline
    <2>2. journal'[KeyOf[p]] = journal[KeyOf[p]]
      BY <1>t, <2>1 DEF CloseEntry, Record
    <2>3. QED BY <1>l, <1>u, <2>2 DEF LifeOK, Over, Void, Held
  <1>3. QED BY <1>1, <1>2

(* What reconcile reads from the journal is over, and an intent that never *)
(* reached send-started has no order.                                      *)
LEMMA OwedIsOver ==
    ASSUME Discipline, TypeInv, AheadInv, TruthInv, NEW s \in Sweeps, SweepStart(s),
           NEW k \in Keys, k \in Owed
    PROVE  LET e == EntryOf(k) IN
           EntryOK(e) /\ (e.stage = "intent-created" => ~Held(e.key))
  <1> DEFINE e == EntryOf(k)
  <1>1. e \in Entries /\ KeyOf[e.by] = k /\ e.key = k /\ e.by \in Placements
        /\ e.stage = journal[k].open.stage
    BY EntryOfOwed DEF Owed, EntryOf, Entries
  <1>2. LifeOK(e.by)
    BY <1>1 DEF TruthInv, CommandOK
  <1>3. pc[e.by] \in {"idle", "done", "killed"} /\ e.by \notin strays
    BY <1>1 DEF SweepStart, Discipline, Settled
  <1>4. e.stage # "none"
    BY <1>1 DEF Entries, OpenStages
  <1>5. journal[k] # EmptyIntent
    BY <1>1, <1>4 DEF EmptyIntent
  <1>6. Over(e.by)
    BY <1>1, <1>2, <1>3, <1>5 DEF LifeOK, Over
  <1>7. journal[k].facts # {}
    <2>1. journal[k] \in Intents(Placements) /\ ShapeOK(journal[k], k)
      BY DEF TypeInv, TypeOK, JournalShape
    <2>2. Unresolved(journal[k])
      BY DEF Owed
    <2>3. CASE journal[k].last \in OpenStages
      BY <2>1, <2>3 DEF ShapeOK, OpenStages
    <2>4. CASE journal[k].opens > journal[k].closes
      BY <1>1, <1>2, <2>1, <2>4 DEF LifeOK, Intents, ShapeOK
    <2>5. QED BY <2>2, <2>3, <2>4 DEF Unresolved
  <1>8. ASSUME e.stage = "intent-created" PROVE ~Held(k)
    BY <1>1, <1>2, <1>8 DEF LifeOK, AheadInv
  <1>9. QED BY <1>1, <1>6, <1>7, <1>8 DEF EntryOK

LEMMA ReconcileTruth ==
    ASSUME Discipline, TypeInv, AheadInv, TruthInv, NEW s \in Sweeps, Reconcile(s)
    PROVE  TruthInv'
  <1>u. UNCHANGED <<order, placeVars, strays, today>>
    BY ReconcileFrame
  <1>j. UNCHANGED journal \/ CloseEntry(s)
    BY DEF Reconcile, SweepStart, Examine, Skip, GetOrderState, ListToday, Decide,
           ReadFails, CloseFails, SweepEnds
  <1>f. \A j \in Keys : journal[j].facts \subseteq journal'[j].facts
    BY ReconcileAdds
  <1>1. ASSUME NEW p \in Placements PROVE CommandOK(p)'
    <2>1. CommandOK(p)
      BY DEF TruthInv
    <2>2. LifeOK(p)'
      BY <1>j, <1>u, <2>1, CloseLife
      DEF CommandOK, LifeOK, Over, Void, Held, placeVars
    <2>3. QED
      BY <1>u, <2>1, <2>2 DEF CommandOK, WireOK, CallOK, ExitOK, AgeOK, Void, Held,
                              placeVars, callVars
  <1>e. ASSUME NEW e \in Entries, EntryOK(e)
        PROVE  EntryOK(e)' /\ (Held(e.key)' <=> Held(e.key))
    BY <1>e, <1>u, <1>f DEF EntryOK, Over, Held, Entries, placeVars
  <1>t. /\ SweepShape /\ todo \in [Sweeps -> SUBSET Entries]
        /\ DOMAIN at = Sweeps /\ DOMAIN cur = Sweeps /\ DOMAIN verdict = Sweeps
    BY DEF TypeInv, TypeOK
  <1>2. ASSUME NEW r \in Sweeps, r # s PROVE SweepOK(r)'
    <2>1. at'[r] = at[r] /\ todo'[r] = todo[r] /\ cur'[r] = cur[r] /\ verdict'[r] = verdict[r]
      BY <1>2, <1>t DEF Reconcile, SweepStart, Examine, Skip, GetOrderState, ListToday,
          Decide, ReadFails, CloseEntry, CloseFails, SweepEnds, Goto
    <2>2. SweepOK(r) /\ todo[r] \subseteq Entries
      BY <1>t DEF TruthInv
    <2>3. QED BY <1>u, <1>e, <1>t, <2>1, <2>2 DEF SweepOK, SweepShape, placeVars
  <1>3. SweepOK(s)'
    <2>s. SweepOK(s) /\ todo[s] \subseteq Entries
      BY <1>t DEF TruthInv
    <2>d. \A e \in todo'[s] : e \in todo[s] => (EntryOK(e) /\
             (e.stage = "intent-created" => ~Held(e.key)))'
      BY <2>s, <1>e DEF SweepOK
    <2>h. at[s] \notin {"idle", "next"} =>
            /\ cur[s] \in Entries /\ KeyOf[cur[s].by] = cur[s].key
            /\ EntryOK(cur[s])
            /\ cur'[s] = cur[s] => EntryOK(cur[s])' /\ (Held(cur[s].key)' <=> Held(cur[s].key))
      <3>1. ASSUME at[s] \notin {"idle", "next"}
            PROVE  cur[s] \in Entries /\ KeyOf[cur[s].by] = cur[s].key /\ EntryOK(cur[s])
        BY <3>1, <2>s, <1>t DEF SweepOK, SweepShape
      <3>2. ASSUME NEW e \in Entries, e = cur[s], EntryOK(e), cur'[s] = cur[s]
            PROVE  EntryOK(cur[s])' /\ (Held(cur[s].key)' <=> Held(cur[s].key))
        BY <3>2, <1>e DEF EntryOK, Over, Held
      <3>3. QED BY <3>1, <3>2
    <2>1. CASE SweepStart(s)
      <3>1. \A e \in {EntryOf(k) : k \in Owed} : e \in Entries /\ EntryOK(e)
                /\ (e.stage = "intent-created" => ~Held(e.key))
        BY <2>1, OwedIsOver, EntryOfOwed DEF Owed
      <3>2. QED BY <2>1, <3>1, <1>t, <1>e DEF SweepStart, SweepOK
    <2>2. ASSUME NEW e \in todo[s], Examine(s, e) PROVE SweepOK(s)'
      BY <2>2, <2>s, <2>d, <1>t, <1>e DEF Examine, Goto, SweepOK
    <2>3. ASSUME NEW e \in todo[s], Skip(s, e) PROVE SweepOK(s)'
      <3>1. at[s] = "next" /\ at' = at /\ todo'[s] \subseteq todo[s]
        BY <2>3, <1>t DEF Skip
      <3>2. QED BY <3>1, <2>d DEF SweepOK
    <2>4. CASE GetOrderState(s)
      BY <2>4, <2>s, <2>d, <2>h, <1>t DEF GetOrderState, Goto, SweepOK, Held
    <2>5. CASE ListToday(s)
      <3>1. CASE at'[s] = "decide"
        <4>1. CommandOK(cur[s].by) /\ created[cur[s].by] \in Nat /\ today \in Nat
              /\ order[cur[s].key].born \in Nat
          BY <2>5, <2>h, Typed DEF ListToday, TruthInv, Entries
        <4>2. Held(cur[s].key) => created[cur[s].by] < today
          BY <2>5, <2>h, <3>1, <4>1, <1>t DEF ListToday, Goto, CommandOK, AgeOK, Held
        <4>3. QED
          BY <2>5, <2>d, <2>h, <3>1, <4>2, <1>t, <1>u
          DEF ListToday, Goto, SweepOK, placeVars
      <3>2. CASE at'[s] # "decide"
        BY <2>5, <2>d, <2>h, <3>2, <1>t DEF ListToday, Goto, SweepOK, Held
      <3>3. QED BY <3>1, <3>2
    <2>6. CASE Decide(s)
      <3>1. created[cur[s].by] = today => ~Held(cur[s].key)
        BY <2>6, <2>s, <2>h, Typed DEF Decide, SweepOK, Entries
      <3>2. QED BY <2>6, <2>d, <2>h, <3>1, <1>t DEF Decide, Goto, SweepOK
    <2>7. CASE ReadFails(s) \/ CloseEntry(s) \/ CloseFails(s)
      BY <2>7, <2>d, <1>t DEF ReadFails, CloseEntry, CloseFails, Goto, SweepOK
    <2>8. CASE SweepEnds(s)
      BY <2>8, <1>t DEF SweepEnds, SweepOK
    <2>9. QED
      BY <2>1, <2>2, <2>3, <2>4, <2>5, <2>6, <2>7, <2>8 DEF Reconcile
  <1>4. \A r \in Sweeps : SweepOK(r)'
    BY <1>2, <1>3
  <1>5. \A k \in Keys : Held(k)' => \E p \in Placements : KeyOf[p] = k
    BY <1>u DEF TruthInv, Held
  <1>6. QED BY <1>1, <1>4, <1>5 DEF TruthInv

LEMMA StutterTruth == TruthInv /\ UNCHANGED vars => TruthInv'
  <1> SUFFICES ASSUME TruthInv, UNCHANGED vars PROVE TruthInv'
    OBVIOUS
  <1>1. ASSUME NEW p \in Placements PROVE CommandOK(p)'
    <2>1. CommandOK(p)
      BY DEF TruthInv
    <2>2. QED
      BY <2>1 DEF vars, placeVars, callVars, CommandOK, WireOK, CallOK, ExitOK, LifeOK,
                  AgeOK, Over, Void, Held
  <1>2. ASSUME NEW s \in Sweeps PROVE SweepOK(s)'
    <2>1. SweepOK(s)
      BY DEF TruthInv
    <2>2. QED
      BY <2>1 DEF vars, placeVars, callVars, sweepVars, SweepOK, EntryOK, Over, Held
  <1>3. QED BY <1>1, <1>2 DEF TruthInv, vars, Held

-----------------------------------------------------------------------------
(* The theorems.                                                           *)

LEMMA TruthStep ==
    Discipline /\ TypeInv /\ AheadInv /\ TruthInv /\ [Next]_vars => TruthInv'
  BY PlaceTruth, TakeTruth, MovesTruth, MidnightTruth, ReconcileTruth, StutterTruth
  DEF Next

THEOREM TruthInvHolds == Discipline => (Spec => [](TypeInv /\ AheadInv /\ TruthInv))
  <1> SUFFICES ASSUME Discipline PROVE Spec => [](TypeInv /\ AheadInv /\ TruthInv)
    OBVIOUS
  <1>1. TypeInv /\ AheadInv /\ TruthInv /\ [Next]_vars => TruthInv'
    BY TruthStep
  <1>2. QED
    BY TypeInvHolds, AheadInvHolds, InitTruth, <1>1, PTL DEF Spec

(* An order the broker holds is one the journal tells of.                  *)
LEMMA TruthRecords == TypeInv /\ AheadInv /\ TruthInv => NeverLost
  <1> SUFFICES ASSUME TypeInv, AheadInv, TruthInv,
                      NEW k \in Keys, Held(k), ~Unresolved(journal[k])
               PROVE  journal[k].facts \cap {"broker-confirmed", "reconciled-placed"} # {}
    BY DEF NeverLost, OnRecord
  <1>1. PICK p \in Placements : KeyOf[p] = k
    BY DEF TruthInv
  <1>2. "send-started" \in journal[k].facts
    BY <1>1 DEF AheadInv
  <1>3. /\ journal[k].last \in Stages /\ journal[k].last \in journal[k].facts
        /\ journal[k].last \notin OpenStages
    BY <1>2 DEF TypeInv, TypeOK, Intents, JournalShape, ShapeOK, Unresolved
  <1>4. journal[k].facts \cap {"broker-rejected", "reconciled-not-placed"} = {}
    BY <1>1 DEF TruthInv, CommandOK, LifeOK, Void
  <1>5. QED BY <1>3, <1>4 DEF Stages, ClosedStages

(* A mutation that reached the broker never falls off the recovery         *)
(* horizon: as long as it is not known as placed, Unresolved reports it.   *)
THEOREM NeverLostHolds == Discipline => (Spec => []NeverLost)
  <1> SUFFICES ASSUME Discipline PROVE Spec => []NeverLost
    OBVIOUS
  <1>1. TypeInv /\ AheadInv /\ TruthInv => NeverLost
    BY TruthRecords
  <1>2. QED BY TruthInvHolds, <1>1, PTL

(* When reconcile reports an intent as not placed, the broker holds no     *)
(* order under its id and none of its requests could still make one.       *)
THEOREM NotPlacedIsTrueHolds == Discipline => (Spec => []NotPlacedIsTrue)
  <1> SUFFICES ASSUME Discipline PROVE Spec => []NotPlacedIsTrue
    OBVIOUS
  <1>1. ASSUME TypeInv, TruthInv PROVE NotPlacedIsTrue
    <2> SUFFICES ASSUME NEW s \in Sweeps, at[s] = "close",
                        verdict[s] = "reconciled-not-placed"
                 PROVE  Barren(cur[s].key)
      BY DEF NotPlacedIsTrue
    <2>1. cur[s].by \in Placements /\ KeyOf[cur[s].by] = cur[s].key
      BY <1>1 DEF TypeInv, SweepShape, Entries
    <2>2. Void(cur[s].by)
      BY <1>1, <2>1 DEF TruthInv, SweepOK, EntryOK, Over, Void
    <2>3. QED BY <1>1, <2>1, <2>2, BarrenIsVoid DEF TypeInv
  <1>2. QED BY TruthInvHolds, <1>1, PTL

(* The journal calls an intent rejected only when there is no order.       *)
THEOREM RejectedIsTrueHolds == Discipline => (Spec => []RejectedIsTrue)
  <1> SUFFICES ASSUME Discipline PROVE Spec => []RejectedIsTrue
    OBVIOUS
  <1>1. ASSUME TruthInv PROVE RejectedIsTrue
    BY <1>1 DEF TruthInv, CommandOK, LifeOK, Void, RejectedIsTrue
  <1>2. QED BY TruthInvHolds, <1>1, PTL

(* OK means the order is there; a code that names a failure of the call    *)
(* that it is not and will not be; INTERNAL either, and when it is there   *)
(* the journal tells of it.                                                *)
THEOREM ExitTruthfulHolds == Discipline => (Spec => []ExitTruthful)
  <1> SUFFICES ASSUME Discipline PROVE Spec => []ExitTruthful
    OBVIOUS
  <1>1. ASSUME TypeInv, AheadInv, TruthInv PROVE ExitTruthful
    <2> SUFFICES ASSUME NEW p \in Placements
                 PROVE  LET k == KeyOf[p] IN
                   /\ exit[p] = "OK" => Held(k)
                   /\ exit[p] \notin {"none", "OK", "UNCONFIRMED", "INTERNAL"} => Barren(k)
                   /\ exit[p] = "INTERNAL" => Barren(k) \/ (Held(k) /\ OnRecord(k))
      BY DEF ExitTruthful
    <2>1. ExitOK(p)
      BY <1>1 DEF TruthInv, CommandOK
    <2>2. Barren(KeyOf[p]) <=> Void(p)
      BY <1>1, BarrenIsVoid DEF TypeInv
    <2>3. Held(KeyOf[p]) => OnRecord(KeyOf[p])
      BY <1>1, TruthRecords, PlacementAssumption DEF NeverLost
    <2>4. QED BY <2>1, <2>2, <2>3 DEF ExitOK
  <1>2. QED BY TruthInvHolds, <1>1, PTL

-----------------------------------------------------------------------------
(* OrderPlacement implements OrderFate under the Discipline: each step is  *)
(* a Promise, a Hold, a Settle or a stutter.                               *)

(* The fate of an id, read off the facts of its intent and the broker.     *)
LEMMA FateByFacts ==
    ASSUME NEW p \in Placements, NEW h \in BOOLEAN,
           NEW a \in Intents(Placements), ShapeOK(a, KeyOf[p]),
           a.opens = IF a.facts = {} THEN 0 ELSE 1,
           a.closes = 0 => a.facts \cap ClosedStages = {},
           a.closes > 0 => a.last \in ClosedStages,
           a.facts \cap {"broker-rejected", "reconciled-not-placed"} # {} => ~h,
           a.facts \cap {"broker-confirmed", "reconciled-placed"} # {} => h
    PROVE  a.facts # {} =>
             /\ Unresolved(a) <=> a.facts \cap ClosedStages = {}
             /\ ~Unresolved(a) =>
                  (a.facts \cap {"broker-confirmed", "reconciled-placed"} # {} <=> h)
  BY DEF Unresolved, Intents, ShapeOK, Stages, OpenStages, ClosedStages

FateTold(p) == LET k == KeyOf[p]  f == journal[k].facts IN
    FateOf(k) = IF f = {} THEN "unknown"
                ELSE IF f \cap ClosedStages = {} THEN "owed"
                ELSE IF Held(k) THEN "placed" ELSE "notPlaced"

AllTold == \A p \in Placements : FateTold(p)

LEMMA FateNow == TypeInv /\ TruthInv => AllTold
  <1> SUFFICES ASSUME TypeInv, TruthInv, NEW p \in Placements PROVE FateTold(p)
    BY DEF AllTold
  <1> DEFINE k == KeyOf[p]
  <1>1. k \in Keys /\ journal[k] \in Intents(Placements) /\ ShapeOK(journal[k], k)
    BY Typed DEF TypeInv, JournalShape
  <1>2. LifeOK(p)
    BY DEF TruthInv, CommandOK
  <1>3. journal[k].facts # {} =>
             /\ Unresolved(journal[k]) <=> journal[k].facts \cap ClosedStages = {}
             /\ ~Unresolved(journal[k]) =>
                  (journal[k].facts \cap {"broker-confirmed", "reconciled-placed"} # {}
                     <=> Held(k))
    <2> HIDE DEF k
    <2>1. Held(k) \in BOOLEAN /\ k = KeyOf[p]
      BY DEF Held, k
    <2>2. QED BY <1>1, <1>2, <2>1, FateByFacts DEF LifeOK, Void
  <1>4. QED BY <1>3 DEF FateOf, FateTold

LEMMA FateThen == TypeInv' /\ TruthInv' => AllTold'
  BY FateNow, PTL

LEMMA InitFate == Init => Fate!FateInit
  BY DEF Init, Fate!FateInit, FateOf, EmptyIntent, Held, NoOrder

(* A step that adds records to one intent.                                 *)
LEMMA RecordFate ==
    ASSUME TypeInv, TypeInv', TruthInv, TruthInv', UNCHANGED order,
           NEW p \in Placements,
           \A j \in Keys : j # KeyOf[p] => journal'[j] = journal[j],
           journal[KeyOf[p]].facts \subseteq journal'[KeyOf[p]].facts,
           journal[KeyOf[p]].facts = {}
             => journal'[KeyOf[p]].facts \cap ClosedStages = {}
    PROVE  Fate!FateNext \/ UNCHANGED Fate!fateVars
  <1> DEFINE k == KeyOf[p]
  <1>1. k \in Keys
    BY PlacementAssumption
  <1>2. \A j \in Keys : j # k => FateOf(j)' = FateOf(j)
    BY DEF FateOf
  <1>3. \A j \in Keys : Held(j)' <=> Held(j)
    BY DEF Held
  <1>4. FateTold(p) /\ FateTold(p)'
    BY FateNow, FateThen DEF AllTold
  <1>5. QED
    BY <1>1, <1>2, <1>3, <1>4
    DEF FateTold, Fate!FateNext, Fate!Promise, Fate!Settle, Fate!fateVars

(* A step that leaves the journal and the set of orders alone.             *)
LEMMA SameFate ==
    ASSUME UNCHANGED journal, \A k \in Keys : Held(k)' <=> Held(k)
    PROVE  UNCHANGED Fate!fateVars
  <1>1. \A k \in Keys : FateOf(k)' = FateOf(k)
    BY DEF FateOf
  <1>2. QED BY <1>1 DEF Fate!fateVars

LEMMA PlaceFate ==
    ASSUME Discipline, TypeInv, TypeInv', AheadInv, TruthInv, TruthInv',
           NEW p \in Placements, Place(p)
    PROVE  Fate!FateNext \/ UNCHANGED Fate!fateVars
  <1>1. UNCHANGED order /\ journal[KeyOf[p]].facts \subseteq journal'[KeyOf[p]].facts
    BY PlaceKeepsWorld, PlaceAdds, Typed
  <1>2. CASE UNCHANGED journal
    BY <1>1, <1>2, SameFate DEF Held
  <1>3. CASE Begin(p) \/ SendStarted(p) \/ Outcome(p)
    <2>1. KeyOf[p] \in Keys /\ journal \in [Keys -> Intents(Placements)]
      BY Typed
    <2>2. \A j \in Keys : j # KeyOf[p] => journal'[j] = journal[j]
      BY <1>3, <2>1 DEF Begin, SendStarted, Outcome, Journal, RecordMaybe, Record
    <2>3. ASSUME journal[KeyOf[p]].facts = {}
          PROVE  journal'[KeyOf[p]].facts \cap ClosedStages = {}
      <3>1. ~Outcome(p)
        BY <2>3 DEF Outcome, AheadInv
      <3>2. QED
        BY <1>3, <2>1, <2>3, <3>1
        DEF Begin, SendStarted, Journal, RecordMaybe, Record, Note, ClosedStages
    <2>4. QED BY <1>1, <2>2, <2>3, RecordFate
  <1>4. QED
    BY <1>2, <1>3 DEF Place, Start, BeginAttempt, LocalLimit, Transmit, Receive,
                      LoseConnection, Deadline, Kill

(* The broker comes to hold an order only for a command whose send-started *)
(* is journaled and whose intent nobody has settled.                       *)
LEMMA TakeFate ==
    ASSUME Discipline, TypeInv, AheadInv, TruthInv, NEW p \in Placements,
           BrokerAnswers(p) \/ StrayArrives(p)
    PROVE  Fate!FateNext \/ UNCHANGED Fate!fateVars
  <1>t. KeyOf[p] \in Keys /\ order \in [Keys -> Orders]
    BY Typed
  <1>u. UNCHANGED journal
    BY DEF BrokerAnswers, StrayArrives
  <1>k. \A j \in Keys : j # KeyOf[p] => (Held(j)' <=> Held(j))
    BY <1>t DEF BrokerAnswers, StrayArrives, Take, Held
  <1>m. Held(KeyOf[p]) => Held(KeyOf[p])'
    BY <1>t DEF BrokerAnswers, StrayArrives, Take, Held
  <1>1. CASE Held(KeyOf[p])' <=> Held(KeyOf[p])
    BY <1>1, <1>u, <1>k, SameFate
  <1>2. CASE ~Held(KeyOf[p]) /\ Held(KeyOf[p])'
    <2>1. WireOK(p) /\ LifeOK(p)
      BY DEF TruthInv, CommandOK
    <2>2. ~Over(p)
      BY <2>1 DEF BrokerAnswers, StrayArrives, WireOK, Over
    <2>3. "send-started" \in journal[KeyOf[p]].facts
      BY DEF BrokerAnswers, StrayArrives, AheadInv
    <2>4. journal[KeyOf[p]].facts \cap ClosedStages = {}
      BY <1>2, <2>1, <2>2 DEF LifeOK, ClosedStages
    <2>5. FateOf(KeyOf[p]) = "owed"
      BY <2>3, <2>4, FateNow DEF AllTold, FateTold
    <2>6. \A j \in Keys : FateOf(j)' = FateOf(j)
      BY <1>u DEF FateOf
    <2>7. {j \in Keys : Held(j)'} = {j \in Keys : Held(j)} \cup {KeyOf[p]}
      BY <1>2, <1>t, <1>k
    <2>8. QED
      BY <1>t, <2>5, <2>6, <2>7 DEF Fate!FateNext, Fate!Hold
  <1>3. QED BY <1>1, <1>2, <1>m

LEMMA ReconcileFate ==
    ASSUME Discipline, TypeInv, TypeInv', TruthInv, TruthInv', NEW s \in Sweeps,
           Reconcile(s)
    PROVE  Fate!FateNext \/ UNCHANGED Fate!fateVars
  <1>u. UNCHANGED order
    BY ReconcileFrame
  <1>1. CASE UNCHANGED journal
    BY <1>1, <1>u, SameFate DEF Held
  <1>2. CASE CloseEntry(s)
    <2>1. /\ cur[s].by \in Placements /\ KeyOf[cur[s].by] = cur[s].key
          /\ cur[s].key \in Keys /\ journal[cur[s].key].facts # {}
          /\ journal \in [Keys -> Intents(Placements)]
      BY <1>2 DEF CloseEntry, TypeInv, TypeOK, SweepShape, Entries, TruthInv, SweepOK,
                  EntryOK
    <2>2. \A j \in Keys : j # cur[s].key => journal'[j] = journal[j]
      BY <1>2, <2>1 DEF CloseEntry, Record
    <2>3. QED BY <1>u, <2>1, <2>2, ReconcileAdds, RecordFate
  <1>3. QED
    BY <1>1, <1>2 DEF Reconcile, SweepStart, Examine, Skip, GetOrderState, ListToday,
                      Decide, ReadFails, CloseFails, SweepEnds

LEMMA FateStep ==
    /\ Discipline
    /\ TypeInv /\ AheadInv /\ TruthInv /\ TypeInv' /\ TruthInv'
    /\ [Next]_vars
    => [Fate!FateNext]_(Fate!fateVars)
  <1> SUFFICES ASSUME Discipline, TypeInv, AheadInv, TruthInv, TypeInv', TruthInv',
                      [Next]_vars
               PROVE  Fate!FateNext \/ UNCHANGED Fate!fateVars
    OBVIOUS
  <1>1. ASSUME NEW k \in Keys, OrderMoves(k) PROVE UNCHANGED Fate!fateVars
    <2>1. \A j \in Keys : Held(j)' <=> Held(j)
      <3>1. order \in [Keys -> Orders]
        BY DEF TypeInv, TypeOK
      <3>2. QED BY <1>1, <3>1 DEF OrderMoves, Held, Orders
    <2>2. QED BY <1>1, <2>1, SameFate DEF OrderMoves
  <1>2. CASE Midnight \/ UNCHANGED vars
    BY <1>2, SameFate DEF Midnight, vars, Held
  <1>3. QED BY <1>1, <1>2, PlaceFate, TakeFate, ReconcileFate DEF Next

(* The commands, the broker and reconcile implement the promise of         *)
(* OrderFate: an intent is owed an answer before the broker can come to    *)
(* hold its order, and is settled once, with the truth.                    *)
THEOREM KeepsFateHolds == Discipline => (Spec => KeepsFate)
  <1> SUFFICES ASSUME Discipline PROVE Spec => KeepsFate
    OBVIOUS
  <1>1. TypeInv /\ AheadInv /\ TruthInv /\ TypeInv' /\ TruthInv' /\ [Next]_vars
            => [Fate!FateNext]_(Fate!fateVars)
    BY FateStep
  <1>2. QED
    BY TruthInvHolds, InitFate, <1>1, PTL DEF Spec, KeepsFate, Fate!FateSpec
=============================================================================
