--------------------------- MODULE StopReconcile ---------------------------
(***************************************************************************)
(* stop-orders place and stop-orders reconcile.  The broker keeps no       *)
(* client id of a stop order, so reconcile recognises the order of an      *)
(* intent in doubt by its fields and its time: it takes the only order in  *)
(* the broker's list with these fields, if it was created within a window  *)
(* and the journal has not given it to another intent.                     *)
(*                                                                         *)
(* An intent is one run of the command with its own order id.  The order   *)
(* its request makes is named by the intent; Strangers are stop orders     *)
(* placed by other means.                                                  *)
(***************************************************************************)
EXTENDS IntentJournal, FiniteSets

CONSTANTS Commands,   \* runs of stop-orders place, one intent each
          Strangers,  \* stop orders from elsewhere, a mobile app say
          Sweeps,     \* processes that run stop-orders reconcile
          FieldsOf,   \* Commands and Strangers -> what GetStopOrders echoes
          Window,     \* stopReconcileCreationWindow
          Skew,       \* stopReconcileClockSkew
          MaxTime,    \* bound: ticks of the clock
          QuietSweeps \* TRUE: reconcile runs alone, on settled intents

StopOrders == Commands \cup Strangers

NoOrder == "not-placed"
NotRead == {"not read"}

ASSUME StopAssumption ==
    /\ Commands \cap Strangers = {}
    /\ NoOrder \notin StopOrders
    /\ "not read" \notin StopOrders
    /\ Window \in Nat
    /\ Skew \in Nat
    /\ MaxTime \in Nat
    /\ QuietSweeps \in BOOLEAN

VARIABLES
    journal,  \* Commands -> the aggregate of the intent's durable records
    assigned, \* Commands -> stop order ids in its confirming records
    pc,       \* Commands -> where the command is
    older,    \* Commands -> intents whose seq is below all of its own
    created,  \* Commands -> created_at
    wire,     \* Commands -> the request or its answer
    strays,   \* commands whose abandoned request still travels
    status,   \* StopOrders -> what the broker has of it
    born,     \* StopOrders -> the broker's create date
    now,
    at,       \* Sweeps -> where the reconcile run is
    todo,     \* Sweeps -> entries read from the journal, not yet examined
    cur,      \* Sweeps -> the entry under examination
    consumed, \* Sweeps -> stop orders given away, as far as it knows
    list,     \* Sweeps -> the broker's list, or that it was not read yet
    verdict   \* Sweeps -> the stop order about to be recorded

commandVars == <<pc, older, created, wire, strays>>
brokerVars  == <<status, born>>
sweepVars   == <<at, todo, cur, consumed, list, verdict>>
vars        == <<journal, assigned, commandVars, brokerVars, now, sweepVars>>

Entries  == [key : Commands, stage : OpenStages]
NoEntry  == [key |-> "none", stage |-> "none"]

Over == {"done", "killed"}

TypeOK ==
    /\ journal \in [Commands -> Intents(Commands)]
    /\ assigned \in [Commands -> SUBSET StopOrders]
    /\ pc \in [Commands -> {"idle", "begin", "send", "call", "outcome"} \cup Over]
    /\ older \in [Commands -> SUBSET Commands]
    /\ created \in [Commands -> 0..MaxTime]
    /\ wire \in [Commands -> {"none", "request", "ok", "error"}]
    /\ strays \in SUBSET Commands
    /\ status \in [StopOrders -> {"none", "active", "terminal", "forgotten"}]
    /\ born \in [StopOrders -> 0..MaxTime]
    /\ now \in 0..MaxTime
    /\ at \in [Sweeps -> {"idle", "assigned", "next", "list", "match", "close"}]
    /\ todo \in [Sweeps -> SUBSET Entries]
    /\ cur \in [Sweeps -> Entries \cup {NoEntry}]
    /\ consumed \in [Sweeps -> SUBSET StopOrders]
    /\ list \in [Sweeps -> (SUBSET StopOrders) \cup {NotRead}]
    /\ verdict \in [Sweeps -> StopOrders \cup {NoOrder}]

Init ==
    /\ journal = [c \in Commands |-> EmptyIntent]
    /\ assigned = [c \in Commands |-> {}]
    /\ pc = [c \in Commands |-> "idle"]
    /\ older = [c \in Commands |-> {}]
    /\ created = [c \in Commands |-> 0]
    /\ wire = [c \in Commands |-> "none"]
    /\ strays = {}
    /\ status = [o \in StopOrders |-> "none"]
    /\ born = [o \in StopOrders |-> 0]
    /\ now = 0
    /\ at = [s \in Sweeps |-> "idle"]
    /\ todo = [s \in Sweeps |-> {}]
    /\ cur = [s \in Sweeps |-> NoEntry]
    /\ consumed = [s \in Sweeps |-> {}]
    /\ list = [s \in Sweeps |-> NotRead]
    /\ verdict = [s \in Sweeps |-> NoOrder]

-----------------------------------------------------------------------------
(* The command.                                                            *)

Record(c, stage) == journal' = [journal EXCEPT ![c] = Note(@, stage, c)]

(* A record that ties a stop order to the intent.                          *)
Assign(c, stage, o) ==
    /\ Record(c, stage)
    /\ assigned' = [assigned EXCEPT ![c] = @ \cup {o}]

Goto(c, where) == pc' = [pc EXCEPT ![c] = where]

(* Intents whose entries are in the file.                                  *)
Numbered == {d \in Commands : pc[d] \in Over \/ "send-started" \in journal[d].facts}

(* Policy, lookups and the kill switch are past.  Opening the ledger sets  *)
(* seq above every record in the month's file; records of commands that    *)
(* run at the same time may bear the same numbers, and a new month starts  *)
(* again from zero.                                                        *)
Start(c) ==
    /\ pc[c] = "idle"
    /\ QuietSweeps => \A s \in Sweeps : at[s] = "idle"
    /\ Goto(c, "begin")
    /\ created' = [created EXCEPT ![c] = now]
    /\ \E below \in {Numbered, {}} : older' = [older EXCEPT ![c] = below]
    /\ UNCHANGED <<journal, assigned, wire, strays, brokerVars, now, sweepVars>>

(* Begin and SendStarted; if either fails the command ends.                *)
Journal(c, from, stage, to) ==
    /\ pc[c] = from
    /\ \/ Record(c, stage) /\ Goto(c, to)
       \/ (UNCHANGED journal \/ Record(c, stage)) /\ Goto(c, "done")
    /\ UNCHANGED <<assigned, older, created, wire, strays, brokerVars, now, sweepVars>>

Begin(c) == Journal(c, "begin", "intent-created", "send")

SendStarted(c) == Journal(c, "send", "send-started", "call")

(* The only attempt; or the local rate limiter refuses it.                 *)
Send(c) ==
    /\ pc[c] = "call"
    /\ Goto(c, "outcome")
    /\ \E w \in {"request", "error"} : wire' = [wire EXCEPT ![c] = w]
    /\ UNCHANGED <<journal, assigned, older, created, strays, brokerVars, now, sweepVars>>

(* The response is journaled with the stop order's id, an error as the     *)
(* broker's rejection; a failed write only warns.                          *)
Outcome(c) ==
    /\ pc[c] = "outcome"
    /\ Goto(c, "done")
    /\ \/ wire[c] = "ok"    /\ Assign(c, "broker-confirmed", c)
       \/ wire[c] = "error" /\ Record(c, "broker-rejected") /\ UNCHANGED assigned
       \/ wire[c] \in {"ok", "error"} /\ UNCHANGED <<journal, assigned>>
    /\ wire' = [wire EXCEPT ![c] = "none"]
    /\ UNCHANGED <<older, created, strays, brokerVars, now, sweepVars>>

(* A request nobody waits for is lost or travels on.                       *)
Abandon(c) ==
    /\ wire' = [wire EXCEPT ![c] = "none"]
    /\ strays' \in IF wire[c] = "request" THEN {strays, strays \cup {c}} ELSE {strays}

(* Connection lost or deadline: UNCONFIRMED, left to reconcile.            *)
Unconfirmed(c) ==
    /\ pc[c] = "outcome"
    /\ Goto(c, "done")
    /\ Abandon(c)
    /\ UNCHANGED <<journal, assigned, older, created, brokerVars, now, sweepVars>>

Kill(c) ==
    /\ pc[c] \notin Over \cup {"idle"}
    /\ Goto(c, "killed")
    /\ Abandon(c)
    /\ UNCHANGED <<journal, assigned, older, created, brokerVars, now, sweepVars>>

Place(c) ==
    \/ Start(c) \/ Begin(c) \/ SendStarted(c) \/ Send(c)
    \/ Outcome(c) \/ Unconfirmed(c) \/ Kill(c)

-----------------------------------------------------------------------------
(* The broker, other clients and the clock.                                *)

Appear(o) ==
    /\ status' = [status EXCEPT ![o] = "active"]
    /\ born' = [born EXCEPT ![o] = now]

BrokerAnswers(c) ==
    /\ wire[c] = "request"
    /\ \/ Appear(c) /\ wire' = [wire EXCEPT ![c] = "ok"]
       \/ UNCHANGED brokerVars /\ wire' = [wire EXCEPT ![c] = "error"]
    /\ UNCHANGED <<journal, assigned, pc, older, created, strays, now, sweepVars>>

StrayArrives(c) ==
    /\ c \in strays
    /\ strays' = strays \ {c}
    /\ Appear(c) \/ UNCHANGED brokerVars
    /\ UNCHANGED <<journal, assigned, pc, older, created, wire, now, sweepVars>>

StrangerPlaces(o) ==
    /\ status[o] = "none"
    /\ Appear(o)
    /\ UNCHANGED <<journal, assigned, commandVars, now, sweepVars>>

(* Executed, cancelled or expired; after a while no longer listed.         *)
OrderMoves(o) ==
    /\ \/ status[o] = "active"   /\ status' = [status EXCEPT ![o] = "terminal"]
       \/ status[o] = "terminal" /\ status' = [status EXCEPT ![o] = "forgotten"]
    /\ UNCHANGED <<journal, assigned, commandVars, born, now, sweepVars>>

Tick ==
    /\ now < MaxTime
    /\ now' = now + 1
    /\ UNCHANGED <<journal, assigned, commandVars, brokerVars, sweepVars>>

-----------------------------------------------------------------------------
(* stop-orders reconcile.                                                  *)

Owed == {c \in Commands : Unresolved(journal[c])}

Assigned == UNION {assigned[c] : c \in Commands}

(* The operator runs one reconcile at a time, beside no command, and when  *)
(* the requests of earlier commands have come to an end.                   *)
Quiet ==
    /\ \A c \in Commands : pc[c] \in {"idle"} \cup Over
    /\ strays = {}
    /\ \A s \in Sweeps : at[s] = "idle"

(* Unresolved.                                                             *)
SweepStart(s) ==
    /\ at[s] = "idle"
    /\ Owed # {}
    /\ QuietSweeps => Quiet
    /\ todo' = [todo EXCEPT ![s] =
                  {[key |-> c, stage |-> journal[c].open.stage] : c \in Owed}]
    /\ at' = [at EXCEPT ![s] = "assigned"]
    /\ UNCHANGED <<journal, assigned, commandVars, brokerVars, now, cur, consumed, list,
                   verdict>>

(* Mutant: only what this run gave away counts.                            *)
ReadNothing(s) ==
    /\ at[s] = "assigned"
    /\ at' = [at EXCEPT ![s] = "next"]
    /\ UNCHANGED <<journal, assigned, commandVars, brokerVars, now, todo, cur, consumed, list,
                   verdict>>

(* AssignedStopOrderIDs, a scan of its own.                                *)
ReadAssigned(s) ==
    /\ at[s] = "assigned"
    /\ at' = [at EXCEPT ![s] = "next"]
    /\ consumed' = [consumed EXCEPT ![s] = Assigned]
    /\ UNCHANGED <<journal, assigned, commandVars, brokerVars, now, todo, cur, list, verdict>>

(* Entries come in the order of seq; equal numbers in any order.           *)
Foremost(s, e) ==
    /\ e \in todo[s]
    /\ \A d \in todo[s] : d.key \notin older[e.key]

Examine(s, e) ==
    /\ at[s] = "next"
    /\ Foremost(s, e)
    /\ todo' = [todo EXCEPT ![s] = @ \ {e}]
    /\ cur' = [cur EXCEPT ![s] = e]
    /\ at' = [at EXCEPT ![s] = IF list[s] = NotRead THEN "list" ELSE "match"]
    /\ UNCHANGED <<journal, assigned, commandVars, brokerVars, now, consumed, list, verdict>>

(* Of another command, profile or endpoint, without ids, or with a payload *)
(* that cannot be matched.                                                 *)
Skip(s, e) ==
    /\ at[s] = "next"
    /\ Foremost(s, e)
    /\ todo' = [todo EXCEPT ![s] = @ \ {e}]
    /\ UNCHANGED <<journal, assigned, commandVars, brokerVars, now, at, cur, consumed, list,
                   verdict>>

Listed == {o \in StopOrders : status[o] \in {"active", "terminal"}}

(* Mutant: the list of the active stop orders.                             *)
ReadActive(s) ==
    /\ at[s] = "list"
    /\ at' = [at EXCEPT ![s] = "match"]
    /\ list' = [list EXCEPT ![s] = {o \in StopOrders : status[o] = "active"}]
    /\ UNCHANGED <<journal, assigned, commandVars, brokerVars, now, todo, cur, consumed,
                   verdict>>

(* GetStopOrders with status=ALL, once per account and run.                *)
ReadList(s) ==
    /\ at[s] = "list"
    /\ at' = [at EXCEPT ![s] = "match"]
    /\ list' = [list EXCEPT ![s] = Listed]
    /\ UNCHANGED <<journal, assigned, commandVars, brokerVars, now, todo, cur, consumed,
                   verdict>>

ListFails(s) ==
    /\ at[s] = "list"
    /\ at' = [at EXCEPT ![s] = "next"]
    /\ UNCHANGED <<journal, assigned, commandVars, brokerVars, now, todo, cur, consumed, list,
                   verdict>>

(* matchStopOrders: every field but the time.                              *)
Matches(s) == {o \in list[s] : FieldsOf[o] = FieldsOf[cur[s].key]}

(* stopCreationMatches.                                                    *)
InWindow(o, c) == created[c] - Skew <= born[o] /\ born[o] <= created[c] + Window

Decide(s, o) ==
    /\ verdict' = [verdict EXCEPT ![s] = o]
    /\ at' = [at EXCEPT ![s] = "close"]

(* Mutant: an intent without a match was not placed.                       *)
NoMatchNotPlaced(s) ==
    /\ Matches(s) = {}
    /\ UNCHANGED consumed
    /\ Decide(s, NoOrder)

(* Nothing with these fields: only an intent that never got to the send is *)
(* closed.                                                                 *)
NoMatch(s) ==
    /\ Matches(s) = {}
    /\ UNCHANGED consumed
    /\ IF cur[s].stage = "intent-created"
       THEN Decide(s, NoOrder)
       ELSE at' = [at EXCEPT ![s] = "next"] /\ UNCHANGED verdict

(* Mutant: unique among the orders of the window.                          *)
OneMatchInWindow(s) ==
    /\ Matches(s) # {}
    /\ LET near == {o \in Matches(s) : InWindow(o, cur[s].key)} IN
       IF Cardinality(near) = 1 /\ near \cap consumed[s] = {}
       THEN \E o \in near : Decide(s, o) /\ consumed' = [consumed EXCEPT ![s] = @ \cup {o}]
       ELSE at' = [at EXCEPT ![s] = "next"] /\ UNCHANGED <<consumed, verdict>>

(* Something with these fields: taken if it is the only one, of the right  *)
(* time and nobody's; otherwise the intent stays in doubt.                 *)
OneMatch(s) ==
    /\ Matches(s) # {}
    /\ IF \E o \in Matches(s) : Matches(s) = {o} /\ InWindow(o, cur[s].key) /\ o \notin consumed[s]
       THEN \E o \in Matches(s) :
               Decide(s, o) /\ consumed' = [consumed EXCEPT ![s] = @ \cup {o}]
       ELSE at' = [at EXCEPT ![s] = "next"] /\ UNCHANGED <<consumed, verdict>>

Match(s) ==
    /\ at[s] = "match"
    /\ NoMatch(s) \/ OneMatch(s)
    /\ UNCHANGED <<journal, assigned, commandVars, brokerVars, now, todo, cur, list>>

(* Mutant: the record of an intent closed as not placed names a stop order *)
(* too.                                                                    *)
CloseAsPlaced(s) ==
    /\ at[s] = "close"
    /\ Assign(cur[s].key, "reconciled-placed", verdict[s])
    /\ at' = [at EXCEPT ![s] = "next"]
    /\ UNCHANGED <<commandVars, brokerVars, now, todo, cur, consumed, list, verdict>>

CloseEntry(s) ==
    /\ at[s] = "close"
    /\ IF verdict[s] = NoOrder
       THEN Record(cur[s].key, "reconciled-not-placed") /\ UNCHANGED assigned
       ELSE Assign(cur[s].key, "reconciled-placed", verdict[s])
    /\ at' = [at EXCEPT ![s] = "next"]
    /\ UNCHANGED <<commandVars, brokerVars, now, todo, cur, consumed, list, verdict>>

(* The record could not be written; within this run the order stays given  *)
(* away.                                                                   *)
CloseFails(s) ==
    /\ at[s] = "close"
    /\ at' = [at EXCEPT ![s] = "next"]
    /\ UNCHANGED <<journal, assigned, commandVars, brokerVars, now, todo, cur, consumed, list,
                   verdict>>

(* The list is done, a scan failed, or the process is killed.              *)
SweepEnds(s) ==
    /\ at[s] # "idle"
    /\ at' = [at EXCEPT ![s] = "idle"]
    /\ todo' = [todo EXCEPT ![s] = {}]
    /\ cur' = [cur EXCEPT ![s] = NoEntry]
    /\ consumed' = [consumed EXCEPT ![s] = {}]
    /\ list' = [list EXCEPT ![s] = NotRead]
    /\ verdict' = [verdict EXCEPT ![s] = NoOrder]
    /\ UNCHANGED <<journal, assigned, commandVars, brokerVars, now>>

Reconcile(s) ==
    \/ SweepStart(s) \/ ReadAssigned(s)
    \/ \E e \in todo[s] : Examine(s, e) \/ Skip(s, e)
    \/ ReadList(s) \/ ListFails(s) \/ Match(s)
    \/ CloseEntry(s) \/ CloseFails(s) \/ SweepEnds(s)

Next ==
    \/ \E c \in Commands : Place(c) \/ BrokerAnswers(c) \/ StrayArrives(c)
    \/ \E o \in Strangers : StrangerPlaces(o)
    \/ \E o \in StopOrders : OrderMoves(o)
    \/ Tick
    \/ \E s \in Sweeps : Reconcile(s)

Spec == Init /\ [][Next]_vars

-----------------------------------------------------------------------------
(* Properties.                                                             *)

(* "a broker stop order cannot be assigned again" (AssignedStopOrderIDs):  *)
(* over all runs and crashes no stop order is recorded for two intents.    *)
AssignedOnce ==
    \A c, d \in Commands : c # d => assigned[c] \cap assigned[d] = {}

(* An intent gets somebody else's order only if the broker does not list   *)
(* its own: a unique match over all statuses and times, not a unique match *)
(* within the window (finding F10).                                        *)
OwnOrderFirst ==
    \A c \in Commands : \A o \in assigned[c] :
        o # c => status[c] \in {"none", "forgotten"}

(* An intent closed as not placed or rejected has no stop order; one with  *)
(* a stop order is in doubt or recorded as placed.                         *)
StopNeverLost ==
    \A c \in Commands : status[c] # "none" =>
        \/ Unresolved(journal[c])
        \/ journal[c].facts \cap {"broker-confirmed", "reconciled-placed"} # {}
=============================================================================
