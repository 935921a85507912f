------------------------ MODULE StopReconcileProofs ------------------------
(***************************************************************************)
(* Theorems about StopReconcile, for any number of commands, other stop    *)
(* orders and reconcile processes, any fields, window and times.           *)
(***************************************************************************)
EXTENDS StopReconcile, TLAPS

-----------------------------------------------------------------------------
(* Type correctness.                                                       *)

(* A sweep that asks the broker or closes has an entry; one that matches   *)
(* has the list.                                                           *)
SweepShape ==
    \A s \in Sweeps :
        /\ at[s] \in {"list", "match", "close"} => cur[s] \in Entries
        /\ at[s] = "match" => list[s] # NotRead
        /\ at[s] = "idle" => list[s] = NotRead

(* What Unresolved can report has an entry.                                *)
JournalShape ==
    \A c \in Commands :
        journal[c].opens > 0 \/ journal[c].last \in OpenStages =>
            journal[c].open.stage \in OpenStages

TypeInv == TypeOK /\ SweepShape /\ JournalShape

LEMMA MaxTimeNat == MaxTime \in Nat
  BY StopAssumption, Zenon DEF StopAssumption

LEMMA NoOrderIsNone == NoOrder \notin StopOrders
  BY StopAssumption, Zenon DEF StopAssumption

(* One more record keeps an aggregate an aggregate.                        *)
LEMMA NoteTyped ==
    ASSUME NEW a \in Intents(Commands), NEW stage \in Stages, NEW c \in Commands,
           a.opens > 0 \/ a.last \in OpenStages => a.open.stage \in OpenStages
    PROVE  /\ Note(a, stage, c) \in Intents(Commands)
           /\ \/ Note(a, stage, c).opens > 0
              \/ Note(a, stage, c).last \in OpenStages
              => Note(a, stage, c).open.stage \in OpenStages
  BY DEF Note, Intents, Stages, OpenStages, ClosedStages

LEMMA RecordTyped ==
    ASSUME TypeInv, NEW stage \in Stages, NEW c \in Commands, Record(c, stage)
    PROVE  /\ journal' \in [Commands -> Intents(Commands)]
           /\ JournalShape'
           /\ journal'[c] = Note(journal[c], stage, c)
           /\ \A d \in Commands \ {c} : journal'[d] = journal[d]
  <1>1. journal \in [Commands -> Intents(Commands)] /\ journal[c] \in Intents(Commands)
    BY DEF TypeInv, TypeOK
  <1> DEFINE a == Note(journal[c], stage, c)
  <1>2. /\ a \in Intents(Commands)
        /\ a.opens > 0 \/ a.last \in OpenStages => a.open.stage \in OpenStages
    BY <1>1, NoteTyped DEF TypeInv, JournalShape
  <1>3. journal' = [journal EXCEPT ![c] = a]
    BY DEF Record
  <1> HIDE DEF a
  <1>4. \A d \in Commands : journal'[d] = IF d = c THEN a ELSE journal[d]
    BY <1>1, <1>3
  <1>5. JournalShape'
    BY <1>2, <1>4 DEF TypeInv, JournalShape
  <1>6. journal' \in [Commands -> Intents(Commands)]
    BY <1>1, <1>2, <1>3
  <1>7. QED BY <1>4, <1>5, <1>6 DEF a

LEMMA InitTyped == Init => TypeInv
  <1> SUFFICES ASSUME Init PROVE TypeInv
    OBVIOUS
  <1>1. EmptyIntent \in Intents(Commands)
    BY DEF EmptyIntent, Intents, Stages, OpenStages
  <1>2. 0 \in 0..MaxTime
    BY MaxTimeNat
  <1>3. /\ journal \in [Commands -> Intents(Commands)]
        /\ assigned \in [Commands -> SUBSET StopOrders]
        /\ older \in [Commands -> SUBSET Commands]
        /\ created \in [Commands -> 0..MaxTime]
        /\ born \in [StopOrders -> 0..MaxTime]
        /\ now \in 0..MaxTime
    BY <1>1, <1>2 DEF Init
  <1>4. /\ todo \in [Sweeps -> SUBSET Entries]
        /\ cur \in [Sweeps -> Entries \cup {NoEntry}]
        /\ consumed \in [Sweeps -> SUBSET StopOrders]
        /\ list \in [Sweeps -> (SUBSET StopOrders) \cup {NotRead}]
        /\ verdict \in [Sweeps -> StopOrders \cup {NoOrder}]
    BY DEF Init
  <1>5. TypeOK
    BY <1>3, <1>4 DEF Init, TypeOK
  <1>6. SweepShape
    BY DEF Init, SweepShape
  <1>7. JournalShape
    BY DEF Init, JournalShape, EmptyIntent, OpenStages
  <1>8. QED BY <1>5, <1>6, <1>7 DEF TypeInv

LEMMA JournalTyped ==
    ASSUME TypeInv, NEW c \in Commands, NEW from, NEW stage \in OpenStages,
           NEW to \in {"send", "call"}, Journal(c, from, stage, to)
    PROVE  TypeInv'
  <1>1. journal' \in [Commands -> Intents(Commands)] /\ JournalShape'
    <2>1. CASE UNCHANGED journal
      BY <2>1 DEF TypeInv, TypeOK, JournalShape
    <2>2. CASE Record(c, stage)
      BY <2>2, RecordTyped DEF Stages
    <2>3. QED BY <2>1, <2>2 DEF Journal
  <1>2. pc' \in [Commands -> {"idle", "begin", "send", "call", "outcome"} \cup Over]
    BY DEF Journal, Goto, TypeInv, TypeOK, Over
  <1>3. QED
    BY <1>1, <1>2 DEF Journal, TypeInv, TypeOK, SweepShape, brokerVars, sweepVars

LEMMA PlaceTyped ==
    ASSUME TypeInv, NEW c \in Commands, Place(c)
    PROVE  TypeInv'
  <1>1. CASE Start(c)
    <2>1. older' \in [Commands -> SUBSET Commands]
      <3>1. PICK below \in {Numbered, {}} : older' = [older EXCEPT ![c] = below]
        BY <1>1 DEF Start
      <3>2. below \subseteq Commands
        BY <3>1 DEF Numbered
      <3>3. QED BY <3>1, <3>2 DEF TypeInv, TypeOK
    <2>2. QED
      BY <1>1, <2>1 DEF Start, Goto, TypeInv, TypeOK, SweepShape, JournalShape, brokerVars,
                        sweepVars, Over
  <1>2. CASE Begin(c)
    BY <1>2, JournalTyped DEF Begin, OpenStages
  <1>3. CASE SendStarted(c)
    BY <1>3, JournalTyped DEF SendStarted, OpenStages
  <1>4. CASE Send(c)
    BY <1>4 DEF Send, Goto, TypeInv, TypeOK, SweepShape, JournalShape, brokerVars,
                sweepVars, Over
  <1>5. CASE Outcome(c)
    <2>1. journal' \in [Commands -> Intents(Commands)] /\ JournalShape'
      <3>1. CASE UNCHANGED journal
        BY <3>1 DEF TypeInv, TypeOK, JournalShape
      <3>2. CASE Record(c, "broker-confirmed") \/ Record(c, "broker-rejected")
        BY <3>2, RecordTyped DEF Stages, ClosedStages
      <3>3. QED BY <1>5, <3>1, <3>2 DEF Outcome, Assign
    <2>2. assigned' \in [Commands -> SUBSET StopOrders]
      BY <1>5 DEF Outcome, Assign, TypeInv, TypeOK, StopOrders
    <2>3. QED
      BY <1>5, <2>1, <2>2
      DEF Outcome, Goto, TypeInv, TypeOK, SweepShape, JournalShape, brokerVars,
                sweepVars, Over
  <1>6. CASE Unconfirmed(c)
    BY <1>6 DEF Unconfirmed, Abandon, Goto, TypeInv, TypeOK, SweepShape, JournalShape,
                brokerVars, sweepVars, Over
  <1>7. CASE Kill(c)
    BY <1>7 DEF Kill, Abandon, Goto, TypeInv, TypeOK, SweepShape, JournalShape,
                brokerVars, sweepVars, Over
  <1>8. QED BY <1>1, <1>2, <1>3, <1>4, <1>5, <1>6, <1>7 DEF Place

LEMMA AppearTyped ==
    ASSUME TypeOK, NEW o \in StopOrders, Appear(o)
    PROVE  /\ status' \in [StopOrders -> {"none", "active", "terminal", "forgotten"}]
           /\ born' \in [StopOrders -> 0..MaxTime]
  BY DEF TypeOK, Appear

LEMMA BrokerTyped ==
    ASSUME TypeInv,
           \/ \E c \in Commands : BrokerAnswers(c) \/ StrayArrives(c)
           \/ \E o \in Strangers : StrangerPlaces(o)
           \/ \E o \in StopOrders : OrderMoves(o)
           \/ Tick
    PROVE  TypeInv'
  <1> USE DEF TypeInv, TypeOK, SweepShape, JournalShape, commandVars, brokerVars, sweepVars
  <1>a. Commands \subseteq StopOrders /\ Strangers \subseteq StopOrders
    BY DEF StopOrders
  <1>1. ASSUME NEW c \in Commands, BrokerAnswers(c) PROVE TypeInv'
    <2>1. /\ status' \in [StopOrders -> {"none", "active", "terminal", "forgotten"}]
          /\ born' \in [StopOrders -> 0..MaxTime]
      BY <1>1, <1>a, AppearTyped DEF BrokerAnswers
    <2>2. wire' \in [Commands -> {"none", "request", "ok", "error"}]
      BY <1>1 DEF BrokerAnswers
    <2>3. QED BY <1>1, <2>1, <2>2 DEF BrokerAnswers
  <1>2. ASSUME NEW c \in Commands, StrayArrives(c) PROVE TypeInv'
    <2>1. /\ status' \in [StopOrders -> {"none", "active", "terminal", "forgotten"}]
          /\ born' \in [StopOrders -> 0..MaxTime]
      BY <1>2, <1>a, AppearTyped DEF StrayArrives
    <2>2. QED BY <1>2, <2>1 DEF StrayArrives
  <1>3. ASSUME NEW o \in Strangers, StrangerPlaces(o) PROVE TypeInv'
    <2>1. /\ status' \in [StopOrders -> {"none", "active", "terminal", "forgotten"}]
          /\ born' \in [StopOrders -> 0..MaxTime]
      BY <1>3, <1>a, AppearTyped DEF StrangerPlaces
    <2>2. QED BY <1>3, <2>1 DEF StrangerPlaces
  <1>4. ASSUME NEW o \in StopOrders, OrderMoves(o) PROVE TypeInv'
    BY <1>4 DEF OrderMoves
  <1>5. CASE Tick
    <2>1. now' \in 0..MaxTime
      BY <1>5, MaxTimeNat DEF Tick
    <2>2. QED BY <1>5, <2>1 DEF Tick
  <1>6. QED BY <1>1, <1>2, <1>3, <1>4, <1>5

LEMMA SweepTyped ==
    ASSUME TypeInv, NEW s \in Sweeps, Reconcile(s)
    PROVE  TypeInv'
  <1> USE DEF TypeInv, TypeOK, SweepShape, JournalShape, commandVars, brokerVars
  <1>1. CASE SweepStart(s)
    <2>1. ASSUME NEW c \in Owed
          PROVE  [key |-> c, stage |-> journal[c].open.stage] \in Entries
      BY <2>1 DEF Owed, Unresolved, Entries, Intents
    <2>2. todo' \in [Sweeps -> SUBSET Entries]
      BY <1>1, <2>1 DEF SweepStart
    <2>3. QED BY <1>1, <2>2 DEF SweepStart
  <1>2. CASE ReadAssigned(s)
    <2>1. Assigned \subseteq StopOrders
      BY DEF Assigned
    <2>2. QED BY <1>2, <2>1 DEF ReadAssigned
  <1>3. ASSUME NEW e \in todo[s], Examine(s, e) PROVE TypeInv'
    BY <1>3 DEF Examine
  <1>4. ASSUME NEW e \in todo[s], Skip(s, e) PROVE TypeInv'
    BY <1>4 DEF Skip
  <1>5. CASE ReadList(s)
    <2>1. Listed \subseteq StopOrders /\ Listed # NotRead
      BY StopAssumption DEF Listed, NotRead, StopAssumption
    <2>2. QED BY <1>5, <2>1 DEF ReadList
  <1>6. CASE ListFails(s)
    BY <1>6 DEF ListFails
  <1>7. CASE Match(s)
    <2>1. CASE NoMatch(s)
      BY <1>7, <2>1 DEF Match, NoMatch, Decide
    <2>2. CASE OneMatch(s)
      <3>1. Matches(s) \subseteq StopOrders
        BY <1>7 DEF Match, Matches
      <3>2. QED BY <1>7, <2>2, <3>1 DEF Match, OneMatch, Decide
    <2>3. QED BY <1>7, <2>1, <2>2 DEF Match
  <1>8. CASE CloseEntry(s)
    <2>1. cur[s] \in Entries /\ cur[s].key \in Commands /\ verdict[s] \in StopOrders \cup {NoOrder}
      BY <1>8 DEF CloseEntry, Entries
    <2>2. journal' \in [Commands -> Intents(Commands)] /\ JournalShape'
      BY <1>8, <2>1, RecordTyped DEF CloseEntry, Assign, Stages, ClosedStages
    <2>3. assigned' \in [Commands -> SUBSET StopOrders]
      BY <1>8, <2>1 DEF CloseEntry, Assign
    <2>4. QED BY <1>8, <2>2, <2>3 DEF CloseEntry
  <1>9. CASE CloseFails(s)
    BY <1>9 DEF CloseFails
  <1>10. CASE SweepEnds(s)
    BY <1>10 DEF SweepEnds
  <1>11. QED BY <1>1, <1>2, <1>3, <1>4, <1>5, <1>6, <1>7, <1>8, <1>9, <1>10 DEF Reconcile

LEMMA StutterTyped ==
    ASSUME TypeInv, UNCHANGED vars
    PROVE  TypeInv'
  BY DEF TypeInv, TypeOK, SweepShape, JournalShape, vars, commandVars, brokerVars, sweepVars

LEMMA TypeInvHolds == Spec => []TypeInv
  <1>1. TypeInv /\ [Next]_vars => TypeInv'
    BY PlaceTyped, BrokerTyped, SweepTyped, StutterTyped DEF Next
  <1>2. QED BY InitTyped, <1>1, PTL DEF Spec

(* Every state is well typed: no intent is closed with a stop order that   *)
(* does not exist, and no sweep closes an entry it did not examine.        *)
THEOREM StopTypeCorrect == Spec => []TypeOK
  BY TypeInvHolds, PTL DEF TypeInv
-----------------------------------------------------------------------------
(* The invariant behind the safety properties, for reconcile runs that are *)
(* alone (QuietSweeps).                                                    *)

(* While reconcile runs nothing else of this program does, and no request  *)
(* is under way.                                                           *)
AloneInv ==
    \A s \in Sweeps : at[s] # "idle" =>
        /\ \A c \in Commands : pc[c] \in {"idle"} \cup Over
        /\ strays = {}
        /\ \A r \in Sweeps \ {s} : at[r] = "idle"

(* Where the command is, what of its request is under way, what the broker *)
(* has of it and what the journal says of it.                              *)
Unsent(c) == \/ pc[c] \in {"idle", "begin", "send", "call"}
             \/ wire[c] \in {"request", "error"}
             \/ c \in strays

Doubtful(c) == pc[c] \in {"call", "outcome"} \/ c \in strays

CommandOK(c) ==
    /\ wire[c] # "none" => pc[c] = "outcome"
    /\ c \in strays => pc[c] \in Over
    /\ Unsent(c) => status[c] = "none"
    /\ wire[c] = "ok" => status[c] # "none"
    /\ pc[c] = "idle" => journal[c] = EmptyIntent
    /\ Doubtful(c) => journal[c].last = "send-started"
    /\ Doubtful(c) \/ status[c] # "none" => journal[c].open.stage = "send-started"
    /\ assigned[c] # {} => pc[c] \in Over /\ c \notin strays

CommandInv == \A c \in Commands : CommandOK(c)

(* Stop orders given to an intent exist, and are not those a command waits *)
(* for.                                                                    *)
GivenInv ==
    \A c \in Commands : \A o \in assigned[c] :
        /\ status[o] # "none"
        /\ o \in Commands => pc[o] # "outcome"

(* An entry is still what the journal says.                                *)
FreshEntry(e) == /\ pc[e.key] \in Over
                 /\ e.stage = journal[e.key].open.stage

Gone(c) == status[c] \in {"none", "forgotten"}

(* What a reconcile run has read still holds: it has the entries, it knows *)
(* every stop order that is given away, what its list does not show is not *)
(* there, and what it is about to record is true.                          *)
ReadInv(s) ==
    /\ \A e \in todo[s] : FreshEntry(e)
    /\ at[s] \in {"list", "match", "close"} => FreshEntry(cur[s])
    /\ at[s] \in {"next", "list", "match", "close"} => Assigned \subseteq consumed[s]
    /\ list[s] # NotRead => /\ \A o \in list[s] : status[o] # "none"
                            /\ \A c \in Commands \ list[s] : Gone(c)

VerdictInv(s) ==
    at[s] = "close" =>
        /\ verdict[s] = NoOrder => cur[s].stage = "intent-created"
        /\ verdict[s] # NoOrder => /\ status[verdict[s]] # "none"
                                   /\ verdict[s] \notin Assigned
                                   /\ verdict[s] \in consumed[s]
                                   /\ verdict[s] # cur[s].key => Gone(cur[s].key)

SweepInv == \A s \in Sweeps : at[s] # "idle" => ReadInv(s) /\ VerdictInv(s)

SafeInv == AssignedOnce /\ OwnOrderFirst /\ StopNeverLost

IInv == TypeInv /\ AloneInv /\ CommandInv /\ GivenInv /\ SweepInv /\ SafeInv

LEMMA InitSafe == Init => AloneInv /\ CommandInv /\ GivenInv /\ SweepInv /\ SafeInv
  <1> SUFFICES ASSUME Init PROVE AloneInv /\ CommandInv /\ GivenInv /\ SweepInv /\ SafeInv
    OBVIOUS
  <1>1. \A c \in Commands : status[c] = "none"
    BY DEF Init, StopOrders
  <1>2. AloneInv /\ SweepInv
    BY DEF Init, AloneInv, SweepInv
  <1>3. CommandInv
    BY <1>1 DEF Init, CommandInv, CommandOK, Unsent, Doubtful
  <1>4. GivenInv /\ SafeInv
    BY <1>1 DEF Init, GivenInv, SafeInv, AssignedOnce, OwnOrderFirst, StopNeverLost
  <1>5. QED BY <1>2, <1>3, <1>4

-----------------------------------------------------------------------------
(* A step of a command.                                                    *)

(* Commands move only while no reconcile runs.                             *)
LEMMA NoSweepBeside ==
    ASSUME QuietSweeps, AloneInv, NEW c \in Commands, Place(c)
    PROVE  /\ \A s \in Sweeps : at[s] = "idle"
           /\ at' = at /\ status' = status
  <1>1. CASE Start(c)
    BY <1>1 DEF Start, sweepVars, brokerVars
  <1>2. CASE ~Start(c)
    <2>1. pc[c] \notin {"idle"} \cup Over
      BY <1>2 DEF Place, Begin, SendStarted, Journal, Send, Outcome, Unconfirmed, Kill, Over
    <2>2. \A s \in Sweeps : at[s] = "idle"
      BY <2>1 DEF AloneInv
    <2>3. at' = at /\ status' = status
      BY <1>2 DEF Place, Begin, SendStarted, Journal, Send, Outcome, Unconfirmed, Kill,
                  sweepVars, brokerVars
    <2>4. QED BY <2>2, <2>3
  <1>3. QED BY <1>1, <1>2

(* It leaves the other commands alone.                                     *)
LEMMA OthersUntouched ==
    ASSUME TypeInv, NEW c \in Commands, Place(c), NEW d \in Commands \ {c}
    PROVE  /\ pc'[d] = pc[d] /\ wire'[d] = wire[d] /\ journal'[d] = journal[d]
           /\ assigned'[d] = assigned[d]
           /\ d \in strays' <=> d \in strays
  <1> USE DEF TypeInv, TypeOK
  <1>1. CASE Start(c)
    BY <1>1 DEF Start, Goto
  <1>2. CASE Begin(c)
    BY <1>2 DEF Begin, Journal, Goto, Record
  <1>3. CASE SendStarted(c)
    BY <1>3 DEF SendStarted, Journal, Goto, Record
  <1>4. CASE Send(c)
    BY <1>4 DEF Send, Goto
  <1>5. CASE Outcome(c)
    BY <1>5 DEF Outcome, Assign, Goto, Record
  <1>6. CASE Unconfirmed(c)
    BY <1>6 DEF Unconfirmed, Abandon, Goto
  <1>7. CASE Kill(c)
    BY <1>7 DEF Kill, Abandon, Goto
  <1>8. QED BY <1>1, <1>2, <1>3, <1>4, <1>5, <1>6, <1>7 DEF Place

(* What it does to the command itself.                                     *)
LEMMA CommandStep ==
    ASSUME QuietSweeps, TypeInv, AloneInv, NEW c \in Commands, CommandOK(c), Place(c)
    PROVE  CommandOK(c)'
  <1>t. /\ pc \in [Commands -> {"idle", "begin", "send", "call", "outcome"} \cup Over]
        /\ wire \in [Commands -> {"none", "request", "ok", "error"}]
        /\ assigned \in [Commands -> SUBSET StopOrders]
        /\ strays \in SUBSET Commands
    BY DEF TypeInv, TypeOK
  <1>s. status' = status
    BY NoSweepBeside
  <1> USE DEF CommandOK, Unsent, Doubtful, Over, Goto
  <1>r. ASSUME NEW stage \in Stages, Record(c, stage)
        PROVE  journal'[c] = Note(journal[c], stage, c)
    BY <1>r, RecordTyped
  <1>1. CASE Start(c)
    BY <1>1, <1>t, <1>s DEF Start
  <1>2. CASE Begin(c)
    <2>1. pc'[c] \in {"send", "done"} /\ pc[c] = "begin"
      BY <1>2, <1>t DEF Begin, Journal
    <2>2. UNCHANGED <<assigned, wire, strays>>
      BY <1>2 DEF Begin, Journal
    <2>3. QED BY <2>1, <2>2, <1>t, <1>s
  <1>3. CASE SendStarted(c)
    <2>1. /\ pc[c] = "send"
          /\ \/ pc'[c] = "done"
             \/ pc'[c] = "call" /\ Record(c, "send-started")
      BY <1>3, <1>t DEF SendStarted, Journal
    <2>2. UNCHANGED <<assigned, wire, strays>>
      BY <1>3 DEF SendStarted, Journal
    <2>3. CASE pc'[c] = "done"
      BY <2>1, <2>2, <2>3, <1>t, <1>s
    <2>4. CASE pc'[c] = "call" /\ Record(c, "send-started")
      <3>1. journal'[c].last = "send-started" /\ journal'[c].open.stage = "send-started"
        <4>1. journal'[c] = Note(journal[c], "send-started", c)
          BY <2>4, <1>r DEF Stages, OpenStages
        <4>2. QED BY <4>1 DEF Note, OpenStages
      <3>2. QED BY <2>1, <2>2, <2>4, <3>1, <1>t, <1>s
    <2>5. QED BY <2>1, <2>3, <2>4
  <1>4. CASE Send(c)
    BY <1>4, <1>t, <1>s DEF Send
  <1>5. CASE Outcome(c)
    <2>1. /\ pc[c] = "outcome" /\ pc'[c] = "done" /\ wire'[c] = "none"
          /\ strays' = strays /\ c \notin strays
      BY <1>5, <1>t DEF Outcome
    <2>2. journal'[c].open.stage = journal[c].open.stage
      <3>1. CASE UNCHANGED journal
        BY <3>1
      <3>2. CASE Record(c, "broker-confirmed") \/ Record(c, "broker-rejected")
        BY <3>2, <1>r DEF Stages, ClosedStages, OpenStages, Note
      <3>3. QED BY <1>5, <3>1, <3>2 DEF Outcome, Assign
    <2>3. QED BY <2>1, <2>2, <1>t, <1>s
  <1>6. CASE Unconfirmed(c)
    BY <1>6, <1>t, <1>s DEF Unconfirmed, Abandon
  <1>7. CASE Kill(c)
    BY <1>7, <1>t, <1>s DEF Kill, Abandon
  <1>8. QED BY <1>1, <1>2, <1>3, <1>4, <1>5, <1>6, <1>7 DEF Place

(* A stop order is only given by Outcome, to the command that made it.     *)
LEMMA GivenByOutcome ==
    ASSUME TypeInv, CommandInv, NEW c \in Commands, Place(c)
    PROVE  \/ assigned' = assigned
           \/ /\ wire[c] = "ok" /\ pc[c] = "outcome" /\ pc'[c] = "done"
              /\ assigned' = [assigned EXCEPT ![c] = @ \cup {c}]
              /\ journal'[c] = Note(journal[c], "broker-confirmed", c)
  <1>1. CASE Outcome(c)
    <2>1. CASE assigned' = assigned
      BY <2>1
    <2>2. CASE assigned' # assigned
      <3>1. wire[c] = "ok" /\ Assign(c, "broker-confirmed", c)
        BY <1>1, <2>2 DEF Outcome
      <3>2. journal'[c] = Note(journal[c], "broker-confirmed", c)
        BY <3>1, RecordTyped DEF Assign, Stages, ClosedStages
      <3>3. QED BY <1>1, <3>1, <3>2 DEF Outcome, Assign, Goto, TypeInv, TypeOK
    <2>3. QED BY <2>1, <2>2
  <1>2. CASE ~Outcome(c)
    BY <1>2 DEF Place, Start, Begin, SendStarted, Journal, Send, Unconfirmed, Kill
  <1>3. QED BY <1>1, <1>2

LEMMA GivenByPlace ==
    ASSUME QuietSweeps, TypeInv, AloneInv, CommandInv, GivenInv, AssignedOnce, OwnOrderFirst,
           NEW c \in Commands, Place(c)
    PROVE  GivenInv' /\ AssignedOnce' /\ OwnOrderFirst'
  <1>s. status' = status
    BY NoSweepBeside
  <1>t. /\ assigned \in [Commands -> SUBSET StopOrders]
        /\ Commands \subseteq StopOrders
    BY DEF TypeInv, TypeOK, StopOrders
  <1>p. ASSUME NEW d \in Commands, pc'[d] = "outcome"
        PROVE  pc[d] = "outcome" \/ status[d] = "none"
    <2>1. CASE d = c
      <3>1. CASE Send(c)
        BY <2>1, <3>1 DEF Send, CommandInv, CommandOK, Unsent
      <3>2. CASE ~Send(c)
        BY <1>p, <2>1, <3>2
        DEF Place, Start, Begin, SendStarted, Journal, Outcome, Unconfirmed, Kill, Goto,
            TypeInv, TypeOK
      <3>3. QED BY <3>1, <3>2
    <2>2. CASE d # c
      BY <1>p, <2>2, OthersUntouched
    <2>3. QED BY <2>1, <2>2
  <1>1. CASE assigned' = assigned
    BY <1>1, <1>s, <1>p, <1>t DEF GivenInv, AssignedOnce, OwnOrderFirst
  <1>2. CASE /\ wire[c] = "ok" /\ pc[c] = "outcome" /\ pc'[c] = "done"
             /\ assigned' = [assigned EXCEPT ![c] = @ \cup {c}]
    <2>1. \A d \in Commands : assigned'[d] = IF d = c THEN assigned[c] \cup {c} ELSE assigned[d]
      BY <1>2, <1>t
    <2>2. \A d \in Commands : c \notin assigned[d]
      BY <1>2 DEF GivenInv
    <2>3. status[c] # "none" /\ pc'[c] # "outcome"
      BY <1>2 DEF CommandInv, CommandOK
    <2>4. GivenInv'
      BY <2>1, <2>3, <1>s, <1>p, <1>t DEF GivenInv
    <2>5. AssignedOnce'
      BY <2>1, <2>2 DEF AssignedOnce
    <2>6. OwnOrderFirst'
      BY <2>1, <1>s DEF OwnOrderFirst
    <2>7. QED BY <2>4, <2>5, <2>6
  <1>3. QED BY <1>1, <1>2, GivenByOutcome

LEMMA LostByPlace ==
    ASSUME QuietSweeps, TypeInv, AloneInv, CommandInv, StopNeverLost, NEW c \in Commands, Place(c)
    PROVE  StopNeverLost'
  <1>s. status' = status
    BY NoSweepBeside
  <1>1. SUFFICES ASSUME status[c] # "none"
                 PROVE  \/ Unresolved(journal'[c])
                        \/ journal'[c].facts \cap {"broker-confirmed", "reconciled-placed"} # {}
    BY <1>s, OthersUntouched DEF StopNeverLost
  <1>2. CASE journal'[c] = journal[c]
    BY <1>1, <1>2 DEF StopNeverLost
  <1>3. CASE journal'[c] # journal[c]
    <2>1. wire[c] # "error" /\ pc[c] \notin {"begin", "send"}
      BY <1>1 DEF CommandInv, CommandOK, Unsent
    <2>2. Outcome(c) /\ Record(c, "broker-confirmed")
      BY <1>3, <2>1 DEF Place, Start, Begin, SendStarted, Journal, Send, Outcome, Assign,
                        Unconfirmed, Kill
    <2>3. journal'[c] = Note(journal[c], "broker-confirmed", c)
      BY <2>2, RecordTyped DEF Stages, ClosedStages
    <2>4. "broker-confirmed" \in journal'[c].facts
      BY <2>3 DEF Note
    <2>5. QED BY <2>4
  <1>4. QED BY <1>2, <1>3

LEMMA PlaceKeeps ==
    ASSUME QuietSweeps, TypeInv, AloneInv, CommandInv, GivenInv, SweepInv, SafeInv,
           NEW c \in Commands, Place(c)
    PROVE  AloneInv' /\ CommandInv' /\ GivenInv' /\ SweepInv' /\ SafeInv'
  <1>1. AloneInv' /\ SweepInv'
    BY NoSweepBeside DEF AloneInv, SweepInv
  <1>2. CommandInv'
    <2>1. CommandOK(c)'
      BY CommandStep DEF CommandInv
    <2>2. ASSUME NEW d \in Commands \ {c} PROVE CommandOK(d)'
      BY <2>2, NoSweepBeside, OthersUntouched DEF CommandInv, CommandOK, Unsent, Doubtful
    <2>3. QED BY <2>1, <2>2 DEF CommandInv
  <1>3. GivenInv' /\ SafeInv'
    BY GivenByPlace, LostByPlace DEF SafeInv
  <1>4. QED BY <1>1, <1>2, <1>3

-----------------------------------------------------------------------------
(* A step of the broker, of other clients or of the clock.                 *)

(* The order of a command appears only while no reconcile runs.            *)
LEMMA AnswerKeeps ==
    ASSUME TypeInv, AloneInv, CommandInv, GivenInv, SweepInv, SafeInv, NEW c \in Commands,
           BrokerAnswers(c) \/ StrayArrives(c)
    PROVE  AloneInv' /\ CommandInv' /\ GivenInv' /\ SweepInv' /\ SafeInv'
  <1>1. /\ UNCHANGED <<journal, assigned, pc, sweepVars>>
        /\ \A d \in Commands \ {c} : wire'[d] = wire[d] /\ (d \in strays' <=> d \in strays)
        /\ \A o \in StopOrders \ {c} : status'[o] = status[o]
        /\ strays' \subseteq strays
    BY DEF BrokerAnswers, StrayArrives, Appear, brokerVars, TypeInv, TypeOK
  <1>2. \A s \in Sweeps : at[s] = "idle"
    BY DEF BrokerAnswers, StrayArrives, AloneInv, CommandInv, CommandOK, Over
  <1>3. AloneInv' /\ SweepInv'
    BY <1>1, <1>2 DEF sweepVars, AloneInv, SweepInv
  <1>4. /\ status[c] = "none" /\ status'[c] \in {"none", "active"}
        /\ assigned[c] = {}
        /\ journal[c].last = "send-started" /\ journal[c].open.stage = "send-started"
    <2>1. Unsent(c) /\ Doubtful(c) /\ (c \in strays \/ pc[c] \notin Over)
      BY DEF BrokerAnswers, StrayArrives, CommandInv, CommandOK, Unsent, Doubtful, Over
    <2>2. status'[c] = status[c] \/ status'[c] = "active"
      BY DEF BrokerAnswers, StrayArrives, Appear, brokerVars, TypeInv, TypeOK, StopOrders
    <2>3. QED BY <2>1, <2>2 DEF CommandInv, CommandOK
  <1>5. CommandInv'
    <2>1. ASSUME NEW d \in Commands \ {c} PROVE CommandOK(d)'
      BY <1>1, <2>1 DEF CommandInv, CommandOK, Unsent, Doubtful, StopOrders
    <2>2. CASE BrokerAnswers(c)
      <3>1. /\ pc[c] = "outcome" /\ c \notin strays /\ strays' = strays
            /\ \/ wire'[c] = "ok" /\ status'[c] = "active"
               \/ wire'[c] = "error" /\ status'[c] = "none"
        BY <2>2, <1>4
        DEF BrokerAnswers, Appear, brokerVars, TypeInv, TypeOK, StopOrders, CommandInv,
            CommandOK, Over
      <3>2. CommandOK(c)'
        BY <1>1, <1>4, <3>1 DEF CommandOK, Unsent, Doubtful
      <3>3. QED BY <2>1, <3>2 DEF CommandInv
    <2>3. CASE StrayArrives(c)
      <3>1. c \in strays /\ c \notin strays' /\ pc[c] \in Over /\ wire'[c] = wire[c]
            /\ wire[c] = "none"
        BY <2>3 DEF StrayArrives, CommandInv, CommandOK, Over, TypeInv, TypeOK
      <3>2. CommandOK(c)'
        BY <1>1, <1>4, <3>1 DEF CommandOK, Unsent, Doubtful, Over
      <3>3. QED BY <2>1, <3>2 DEF CommandInv
    <2>4. QED BY <2>2, <2>3
  <1>6. GivenInv'
    BY <1>1, <1>4 DEF GivenInv, TypeInv, TypeOK
  <1>7. SafeInv'
    <2>1. AssignedOnce'
      BY <1>1 DEF SafeInv, AssignedOnce
    <2>2. OwnOrderFirst'
      BY <1>1, <1>4 DEF SafeInv, OwnOrderFirst, StopOrders
    <2>3. StopNeverLost'
      BY <1>1, <1>4 DEF SafeInv, StopNeverLost, StopOrders, Unresolved, OpenStages
    <2>4. QED BY <2>1, <2>2, <2>3 DEF SafeInv
  <1>8. QED BY <1>3, <1>5, <1>6, <1>7

(* The rest neither makes nor unmakes the order of a command.              *)
Harmless ==
    /\ \A o \in StopOrders : status[o] # "none" => status'[o] # "none"
    /\ \A c \in Commands : /\ status[c] = "none" => status'[c] = "none"
                           /\ Gone(c) => Gone(c)'

LEMMA WorldKeeps ==
    ASSUME TypeInv, AloneInv, CommandInv, GivenInv, SweepInv, SafeInv,
           \/ \E o \in Strangers : StrangerPlaces(o)
           \/ \E o \in StopOrders : OrderMoves(o)
           \/ Tick
    PROVE  AloneInv' /\ CommandInv' /\ GivenInv' /\ SweepInv' /\ SafeInv'
  <1>1. UNCHANGED <<journal, assigned, commandVars, sweepVars>>
    BY DEF StrangerPlaces, OrderMoves, Tick
  <1>2. Harmless
    <2>1. ASSUME NEW o \in Strangers, StrangerPlaces(o)
          PROVE  status' = [status EXCEPT ![o] = "active"] /\ o \notin Commands
      BY <2>1, StopAssumption, Zenon DEF StrangerPlaces, Appear, StopAssumption
    <2>2. ASSUME NEW o \in Strangers, status' = [status EXCEPT ![o] = "active"], o \notin Commands
          PROVE  Harmless
      BY <2>2 DEF Harmless, TypeInv, TypeOK, Gone, StopOrders
    <2>3. ASSUME NEW o \in StopOrders, OrderMoves(o)
          PROVE  Harmless
      BY <2>3 DEF OrderMoves, Harmless, TypeInv, TypeOK, Gone, StopOrders
    <2>4. CASE Tick
      BY <2>4 DEF Tick, brokerVars, Harmless, Gone
    <2>5. QED BY <2>1, <2>2, <2>3, <2>4
  <1>3. Commands \subseteq StopOrders
    BY DEF StopOrders
  <1> USE DEF Harmless, commandVars, sweepVars
  <1>4. AloneInv'
    BY <1>1 DEF AloneInv
  <1>5. CommandInv'
    BY <1>1, <1>2, <1>3 DEF CommandInv, CommandOK, Unsent, Doubtful
  <1>6. GivenInv'
    BY <1>1, <1>2 DEF GivenInv, TypeInv, TypeOK
  <1>7. SweepInv'
    <2> SUFFICES ASSUME NEW s \in Sweeps, at'[s] # "idle" PROVE ReadInv(s)' /\ VerdictInv(s)'
      BY DEF SweepInv
    <2>1. ReadInv(s) /\ VerdictInv(s)
      BY <1>1 DEF SweepInv
    <2>2. ReadInv(s)'
      <3>1. list[s] # NotRead => list[s] \subseteq StopOrders
        BY DEF TypeInv, TypeOK
      <3>2. QED BY <1>1, <1>2, <2>1, <3>1 DEF ReadInv, FreshEntry, Assigned
    <2>3. VerdictInv(s)'
      <3>1. verdict[s] # NoOrder => verdict[s] \in StopOrders
        BY DEF TypeInv, TypeOK
      <3>2. at[s] = "close" => cur[s].key \in Commands
        BY DEF TypeInv, SweepShape, Entries
      <3>3. QED BY <1>1, <1>2, <2>1, <3>1, <3>2 DEF VerdictInv, Assigned
    <2>4. QED BY <2>2, <2>3
  <1>8. SafeInv'
    BY <1>1, <1>2 DEF SafeInv, AssignedOnce, OwnOrderFirst, StopNeverLost, Gone
  <1>9. QED BY <1>4, <1>5, <1>6, <1>7, <1>8

-----------------------------------------------------------------------------
(* A step of reconcile.                                                    *)

(* The other sweeps rest, and stay so.                                     *)
LEMMA SweepsAlone ==
    ASSUME QuietSweeps, TypeInv, AloneInv, NEW s \in Sweeps, Reconcile(s)
    PROVE  /\ AloneInv'
           /\ UNCHANGED <<commandVars, brokerVars>>
           /\ \A c \in Commands : pc[c] \in {"idle"} \cup Over
           /\ strays = {}
           /\ \A r \in Sweeps \ {s} : at'[r] = "idle"
  <1>1. UNCHANGED <<commandVars, brokerVars>>
    BY DEF Reconcile, SweepStart, ReadAssigned, Examine, Skip, ReadList, ListFails, Match,
           CloseEntry, CloseFails, SweepEnds
  <1>2. /\ \A c \in Commands : pc[c] \in {"idle"} \cup Over
        /\ strays = {}
        /\ \A r \in Sweeps \ {s} : at[r] = "idle"
    <2>1. CASE SweepStart(s)
      BY <2>1 DEF SweepStart, Quiet
    <2>2. CASE at[s] # "idle"
      BY <2>2 DEF AloneInv
    <2>3. SweepStart(s) \/ at[s] # "idle"
      BY DEF Reconcile, ReadAssigned, Examine, Skip, ReadList, ListFails, Match, CloseEntry,
             CloseFails, SweepEnds
    <2>4. QED BY <2>1, <2>2, <2>3
  <1>3. \A r \in Sweeps \ {s} : at'[r] = at[r]
    BY DEF Reconcile, SweepStart, ReadAssigned, Examine, Skip, ReadList, ListFails, Match,
           NoMatch, OneMatch, Decide, CloseEntry, CloseFails, SweepEnds, TypeInv, TypeOK
  <1>4. AloneInv'
    BY <1>1, <1>2, <1>3 DEF AloneInv, commandVars
  <1>5. QED BY <1>1, <1>2, <1>3, <1>4

(* What it reads holds when it reads it, and stays so.                     *)
LEMMA ReadKeeps ==
    ASSUME QuietSweeps, TypeInv, AloneInv, CommandInv, SweepInv, NEW s \in Sweeps,
           Reconcile(s), ~CloseEntry(s), at'[s] # "idle"
    PROVE  /\ UNCHANGED <<journal, assigned>>
           /\ ReadInv(s)' /\ VerdictInv(s)'
  <1>1. UNCHANGED <<journal, assigned>>
    BY DEF Reconcile, SweepStart, ReadAssigned, Examine, Skip, ReadList, ListFails, Match,
           CloseFails, SweepEnds
  <1>2. UNCHANGED <<pc, status, Assigned>>
    BY <1>1, SweepsAlone DEF commandVars, brokerVars, Assigned
  <1>3. ~SweepStart(s) => ReadInv(s) /\ VerdictInv(s)
    BY DEF SweepInv, Reconcile, ReadAssigned, Examine, Skip, ReadList, ListFails, Match,
           CloseEntry, CloseFails, SweepEnds
  <1>t. /\ at \in [Sweeps -> {"idle", "assigned", "next", "list", "match", "close"}]
        /\ todo \in [Sweeps -> SUBSET Entries]
        /\ consumed \in [Sweeps -> SUBSET StopOrders]
        /\ list \in [Sweeps -> (SUBSET StopOrders) \cup {NotRead}]
        /\ DOMAIN cur = Sweeps /\ DOMAIN verdict = Sweeps
        /\ cur = [r \in Sweeps |-> cur[r]] /\ verdict = [r \in Sweeps |-> verdict[r]]
    BY DEF TypeInv, TypeOK
  <1> USE DEF ReadInv, VerdictInv, FreshEntry, Gone
  <1>4. CASE SweepStart(s)
    <2>1. list[s] = NotRead
      BY <1>4 DEF SweepStart, TypeInv, SweepShape
    <2>2. ASSUME NEW c \in Owed
          PROVE  pc[c] \in Over
      <3>1. journal[c] # EmptyIntent
        BY <2>2 DEF Owed, Unresolved, EmptyIntent, OpenStages
      <3>2. QED BY <2>2, <3>1, SweepsAlone DEF Owed, CommandInv, CommandOK
    <2>3. QED BY <1>4, <1>1, <1>2, <1>t, <2>1, <2>2 DEF SweepStart
  <1>5. CASE ReadAssigned(s)
    BY <1>1, <1>2, <1>3, <1>5, <1>t DEF ReadAssigned, SweepStart
  <1>6. ASSUME NEW e \in todo[s], Examine(s, e) PROVE ReadInv(s)' /\ VerdictInv(s)'
    BY <1>1, <1>2, <1>3, <1>6, <1>t DEF Examine, SweepStart
  <1>7. ASSUME NEW e \in todo[s], Skip(s, e) PROVE ReadInv(s)' /\ VerdictInv(s)'
    BY <1>1, <1>2, <1>3, <1>7, <1>t DEF Skip, SweepStart
  <1>8. CASE ReadList(s)
    <2>1. \A c \in Commands \ Listed : Gone(c)
      BY DEF Listed, TypeInv, TypeOK, StopOrders
    <2>2. QED BY <1>1, <1>2, <1>3, <1>8, <1>t, <2>1 DEF ReadList, SweepStart, Listed
  <1>9. CASE ListFails(s)
    BY <1>1, <1>2, <1>3, <1>9, <1>t DEF ListFails, SweepStart
  <1>10. CASE Match(s)
    <2>1. ReadInv(s) /\ list[s] # NotRead /\ cur[s].key \in Commands
      BY <1>3, <1>10 DEF Match, SweepStart, TypeInv, SweepShape, Entries
    <2>2. CASE NoMatch(s)
      BY <1>1, <1>2, <1>10, <1>t, <2>1, <2>2 DEF Match, NoMatch, Decide
    <2>3. CASE OneMatch(s)
      <3>1. CASE at'[s] = "next"
        BY <1>1, <1>2, <1>10, <1>t, <2>1, <2>3, <3>1 DEF Match, OneMatch, Decide
      <3>2. CASE at'[s] # "next"
        <4>1. PICK o \in Matches(s) : Matches(s) = {o} /\ o \notin consumed[s]
          BY <1>t, <2>3, <3>2 DEF OneMatch
        <4>2. Decide(s, o) /\ consumed' = [consumed EXCEPT ![s] = @ \cup {o}]
          BY <1>t, <2>3, <3>2, <4>1 DEF OneMatch
        <4>3. o \in list[s]
          BY <4>1 DEF Matches
        <4>4. o # cur[s].key => Gone(cur[s].key)
          BY <2>1, <4>1 DEF Matches
        <4>5. /\ verdict'[s] = o /\ at'[s] = "close" /\ consumed'[s] = consumed[s] \cup {o}
              /\ UNCHANGED <<todo, cur, list>>
          BY <1>10, <1>t, <4>2 DEF Match, Decide
        <4>6. Assigned \subseteq consumed[s]
          BY <1>10, <2>1 DEF Match
        <4>7. ReadInv(s)'
          BY <1>1, <1>2, <1>10, <2>1, <4>5, <4>6 DEF Match
        <4>8. VerdictInv(s)'
          <5>1. o # NoOrder
            BY <1>t, <2>1, <4>3, NoOrderIsNone
          <5>2. status'[o] # "none"
            BY <1>2, <2>1, <4>3
          <5>3. o \notin Assigned' /\ o \in consumed'[s]
            BY <1>2, <4>1, <4>5, <4>6
          <5>4. cur' = cur /\ (o # cur[s].key => status'[cur[s].key] \in {"none", "forgotten"})
            BY <1>2, <4>4, <4>5
          <5>5. QED BY <4>5, <5>1, <5>2, <5>3, <5>4
        <4>9. QED BY <1>1, <4>7, <4>8
      <3>3. QED BY <3>1, <3>2
    <2>4. QED BY <1>10, <2>2, <2>3 DEF Match
  <1>11. CASE CloseFails(s)
    BY <1>1, <1>2, <1>3, <1>11, <1>t DEF CloseFails, SweepStart
  <1>12. CASE SweepEnds(s)
    BY <1>12, <1>t DEF SweepEnds
  <1>13. QED
    BY <1>1, <1>4, <1>5, <1>6, <1>7, <1>8, <1>9, <1>10, <1>11, <1>12 DEF Reconcile

(* The record that closes an entry is true of the broker: an order nobody  *)
(* has, or no order and none to come.                                      *)
LEMMA CloseKeeps ==
    ASSUME QuietSweeps, TypeInv, AloneInv, CommandInv, GivenInv, SweepInv, SafeInv,
           NEW s \in Sweeps, CloseEntry(s)
    PROVE  CommandInv' /\ GivenInv' /\ SafeInv' /\ ReadInv(s)' /\ VerdictInv(s)'
  <1> DEFINE c == cur[s].key
             o == verdict[s]
  <1>1. /\ UNCHANGED <<commandVars, brokerVars>>
        /\ \A d \in Commands : pc[d] # "outcome"
        /\ strays = {}
    BY SweepsAlone DEF Reconcile, Over
  <1>2. /\ ReadInv(s) /\ VerdictInv(s) /\ at[s] = "close"
        /\ c \in Commands /\ pc[c] \in Over /\ cur[s].stage = journal[c].open.stage
        /\ Assigned \subseteq consumed[s]
    BY DEF CloseEntry, SweepInv, ReadInv, FreshEntry, TypeInv, SweepShape, Entries
  <1>3. /\ at'[s] = "next" /\ UNCHANGED <<todo, cur, consumed, list, verdict>>
    BY DEF CloseEntry, TypeInv, TypeOK
  <1>4. PICK stage \in {"reconciled-not-placed", "reconciled-placed"} :
           /\ Record(c, stage)
           /\ IF o = NoOrder THEN stage = "reconciled-not-placed" /\ assigned' = assigned
              ELSE /\ stage = "reconciled-placed"
                   /\ assigned' = [assigned EXCEPT ![c] = @ \cup {o}]
    BY DEF CloseEntry, Assign
  <1> HIDE DEF c, o
  <1>5. /\ journal'[c] = Note(journal[c], stage, c)
        /\ \A d \in Commands \ {c} : journal'[d] = journal[d]
    BY <1>2, <1>4, RecordTyped DEF Stages, ClosedStages
  <1>6. \A d \in Commands : /\ journal'[d].open = journal[d].open
                            /\ journal[d].facts \subseteq journal'[d].facts
    BY <1>4, <1>5 DEF Note, OpenStages
  <1>7. o # NoOrder => /\ status[o] # "none" /\ o \in consumed[s]
                       /\ \A d \in Commands : o \notin assigned[d]
                       /\ o # c => Gone(c)
    BY <1>2 DEF VerdictInv, Assigned, c, o
  <1>8. \A d \in Commands :
           assigned'[d] = IF d = c /\ o # NoOrder THEN assigned[c] \cup {o} ELSE assigned[d]
    BY <1>2, <1>4 DEF TypeInv, TypeOK
  <1>9. CommandInv'
    <2> SUFFICES ASSUME NEW d \in Commands PROVE CommandOK(d)'
      BY DEF CommandInv
    <2>1. CommandOK(d) /\ (d = c => pc[d] \in Over)
      BY <1>2 DEF CommandInv
    <2>2. UNCHANGED <<pc, wire, strays, status>>
      BY <1>1 DEF commandVars, brokerVars
    <2>3. Doubtful(d) => d # c
      BY <1>1, <1>2 DEF Doubtful, Over
    <2>4. pc[d] = "idle" => d # c
      BY <1>2 DEF Over
    <2>5. QED
      BY <1>1, <1>5, <1>6, <1>8, <2>1, <2>2, <2>3, <2>4 DEF CommandOK, Unsent, Doubtful
  <1>10. GivenInv'
    BY <1>1, <1>7, <1>8 DEF GivenInv, commandVars, brokerVars
  <1>11. AssignedOnce'
    BY <1>7, <1>8 DEF SafeInv, AssignedOnce
  <1>12. OwnOrderFirst'
    BY <1>1, <1>7, <1>8 DEF SafeInv, OwnOrderFirst, Gone, brokerVars
  <1>13. StopNeverLost'
    <2> SUFFICES ASSUME NEW d \in Commands, status[d] # "none", ~Unresolved(journal'[d])
                 PROVE  journal'[d].facts \cap {"broker-confirmed", "reconciled-placed"} # {}
      BY <1>1 DEF StopNeverLost, brokerVars
    <2>1. CASE d # c
      BY <1>5, <2>1 DEF SafeInv, StopNeverLost
    <2>2. CASE d = c
      <3>1. cur[s].stage # "intent-created"
        BY <1>2, <2>2 DEF CommandInv, CommandOK
      <3>2. stage = "reconciled-placed"
        BY <1>2, <1>4, <3>1 DEF VerdictInv, o
      <3>3. QED BY <1>5, <2>2, <3>2 DEF Note
    <2>3. QED BY <2>1, <2>2
  <1>14. ReadInv(s)'
    <2>1. Assigned' \subseteq consumed'[s]
      BY <1>2, <1>3, <1>7, <1>8 DEF Assigned
    <2>2. \A e \in todo[s] : FreshEntry(e)'
      <3>1. \A e \in todo[s] : e.key \in Commands /\ FreshEntry(e)
        BY <1>2 DEF ReadInv, TypeInv, TypeOK, Entries
      <3>2. QED BY <1>1, <1>6, <3>1 DEF FreshEntry, commandVars
    <2>3. QED BY <1>1, <1>2, <1>3, <2>1, <2>2 DEF ReadInv, Gone, brokerVars
  <1>15. VerdictInv(s)'
    BY <1>3 DEF VerdictInv
  <1>16. QED BY <1>9, <1>10, <1>11, <1>12, <1>13, <1>14, <1>15 DEF SafeInv

LEMMA ReconcileKeeps ==
    ASSUME QuietSweeps, TypeInv, AloneInv, CommandInv, GivenInv, SweepInv, SafeInv,
           NEW s \in Sweeps, Reconcile(s)
    PROVE  AloneInv' /\ CommandInv' /\ GivenInv' /\ SweepInv' /\ SafeInv'
  <1>1. AloneInv' /\ UNCHANGED <<commandVars, brokerVars>>
        /\ \A r \in Sweeps \ {s} : at'[r] = "idle"
    BY SweepsAlone
  <1>2. CASE CloseEntry(s)
    BY <1>1, <1>2, CloseKeeps DEF SweepInv
  <1>3. CASE ~CloseEntry(s)
    <2>1. UNCHANGED <<journal, assigned>>
      BY <1>3 DEF Reconcile, SweepStart, ReadAssigned, Examine, Skip, ReadList, ListFails,
                  Match, CloseFails, SweepEnds
    <2>2. SweepInv'
      BY <1>1, <1>3, ReadKeeps DEF SweepInv
    <2>3. CommandInv'
      BY <1>1, <2>1 DEF CommandInv, CommandOK, Unsent, Doubtful, commandVars, brokerVars
    <2>4. GivenInv' /\ SafeInv'
      BY <1>1, <2>1
      DEF GivenInv, SafeInv, AssignedOnce, OwnOrderFirst, StopNeverLost, commandVars, brokerVars
    <2>5. QED BY <1>1, <2>2, <2>3, <2>4
  <1>4. QED BY <1>2, <1>3

LEMMA StutterKeeps ==
    ASSUME AloneInv, CommandInv, GivenInv, SweepInv, SafeInv, UNCHANGED vars
    PROVE  AloneInv' /\ CommandInv' /\ GivenInv' /\ SweepInv' /\ SafeInv'
  <1> USE DEF vars, commandVars, brokerVars, sweepVars
  <1>1. AloneInv' /\ CommandInv'
    BY DEF AloneInv, CommandInv, CommandOK, Unsent, Doubtful
  <1>2. GivenInv' /\ SafeInv'
    BY DEF GivenInv, SafeInv, AssignedOnce, OwnOrderFirst, StopNeverLost
  <1>3. Assigned' = Assigned
    BY DEF Assigned
  <1>4. SweepInv'
    BY <1>3 DEF SweepInv, ReadInv, VerdictInv, FreshEntry, Gone
  <1>5. QED BY <1>1, <1>2, <1>4

LEMMA SafeStep ==
    QuietSweeps => (TypeInv /\ AloneInv /\ CommandInv /\ GivenInv /\ SweepInv /\ SafeInv
                      /\ [Next]_vars
                    => AloneInv' /\ CommandInv' /\ GivenInv' /\ SweepInv' /\ SafeInv')
  BY PlaceKeeps, AnswerKeeps, WorldKeeps, ReconcileKeeps, StutterKeeps DEF Next

LEMMA IInvHolds == QuietSweeps => (Spec => []IInv)
  <1> SUFFICES ASSUME QuietSweeps PROVE Spec => []IInv
    OBVIOUS
  <1>1. Init => IInv
    BY InitTyped, InitSafe DEF IInv
  <1>2. TypeInv /\ [Next]_vars => TypeInv'
    BY PlaceTyped, BrokerTyped, SweepTyped, StutterTyped DEF Next
  <1>3. IInv /\ [Next]_vars => IInv'
    BY <1>2, SafeStep DEF IInv
  <1>4. QED BY <1>1, <1>3, PTL DEF Spec

(* No stop order is ever recorded for two intents, over all reconcile runs *)
(* and crashes, when reconcile runs alone.                                 *)
THEOREM AssignedOnceHolds == QuietSweeps => (Spec => []AssignedOnce)
  <1> SUFFICES ASSUME QuietSweeps PROVE Spec => []AssignedOnce
    OBVIOUS
  <1>1. IInv => AssignedOnce
    BY DEF IInv, SafeInv
  <1>2. QED BY IInvHolds, <1>1, PTL

(* An intent is given another's stop order only when the broker no longer  *)
(* lists its own or never made it.                                         *)
THEOREM OwnOrderFirstHolds == QuietSweeps => (Spec => []OwnOrderFirst)
  <1> SUFFICES ASSUME QuietSweeps PROVE Spec => []OwnOrderFirst
    OBVIOUS
  <1>1. IInv => OwnOrderFirst
    BY DEF IInv, SafeInv
  <1>2. QED BY IInvHolds, <1>1, PTL

(* A stop order the broker made never falls off the journal: its intent is *)
(* in doubt or recorded as placed.                                         *)
THEOREM StopNeverLostHolds == QuietSweeps => (Spec => []StopNeverLost)
  <1> SUFFICES ASSUME QuietSweeps PROVE Spec => []StopNeverLost
    OBVIOUS
  <1>1. IInv => StopNeverLost
    BY DEF IInv, SafeInv
  <1>2. QED BY IInvHolds, <1>1, PTL
=============================================================================
