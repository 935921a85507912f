--------------------------- MODULE OrderPlacement ---------------------------
(***************************************************************************)
(* Regular-order mutations (orders place, orders place --async, orders     *)
(* replace), the write-ahead journal they share, the broker they send to,  *)
(* and orders reconcile.                                                   *)
(*                                                                         *)
(* A placement p is one run of the command: it journals intent-created and *)
(* send-started under its order id KeyOf[p], sends (retrying under the     *)
(* same id unless it is a replacement), and journals the outcome.  It can  *)
(* be killed between any two steps.  A sweep s is one process that runs    *)
(* orders reconcile again and again.                                       *)
(***************************************************************************)
EXTENDS Rpc, IntentJournal

CONSTANTS Placements,      \* runs of a mutating order command
          Sweeps,          \* processes running orders reconcile
          Keys,            \* client order ids; the journal's intent ids
          KeyOf,           \* Placements -> Keys (--order-id may repeat one)
          KindOf,          \* Placements -> Kinds
          MaxAttempts,     \* RetryPolicy.MaxAttempts
          MaxDay,          \* bound: UTC midnights that pass
          SettledSweeps,   \* TRUE: reconcile starts only once the requests of
                           \* the intents it will read have come to an end
          DefinitiveErrors \* TRUE: a broker that answers a request with an
                           \* error holds no order for it, nor will it

Kinds == {"sync", "async", "replace"}

ASSUME PlacementAssumption ==
    /\ KeyOf \in [Placements -> Keys]
    /\ KindOf \in [Placements -> Kinds]
    /\ MaxAttempts \in Nat \ {0}
    /\ MaxDay \in Nat
    /\ SettledSweeps \in BOOLEAN
    /\ DefinitiveErrors \in BOOLEAN

VARIABLES
    journal,  \* Keys -> the aggregate of the intent's durable records
    order,    \* Keys -> the broker's order under that key
    pc,       \* Placements -> where the command is
    attempts, \* Placements -> attempts begun
    sent,     \* Placements -> CallInfo.sent
    confirmed,\* Placements -> CallInfo.confirmed
    result,   \* Placements -> how the call ended
    wire,     \* Placements -> what the current attempt has on the wire
    strays,   \* placements one of whose abandoned requests still travels
    created,  \* Placements -> UTC day stamped as created_at
    exit,     \* Placements -> exit code, "none" while running or killed
    today,    \* the UTC day
    at,       \* Sweeps -> where the reconcile run is
    todo,     \* Sweeps -> entries read from the journal, not yet examined
    cur,      \* Sweeps -> the entry under examination
    verdict   \* Sweeps -> what it is about to be closed as

callVars  == <<attempts, sent, confirmed, result, wire>>
placeVars == <<pc, callVars, created, exit>>
sweepVars == <<at, todo, cur, verdict>>
vars      == <<journal, order, placeVars, strays, today, sweepVars>>

Entries == [key : Keys, stage : OpenStages, by : Placements]
NoEntry == [key |-> "none", stage |-> "none", by |-> "nobody"]
NoOrder == [status |-> "none", born |-> 0]
Orders  == [status : {"none", "pending", "live", "terminal"}, born : 0..MaxDay]

TypeOK ==
    /\ journal \in [Keys -> Intents(Placements)]
    /\ order \in [Keys -> Orders]
    /\ pc \in [Placements -> {"idle", "begin", "send", "call", "attempt",
                              "backoff", "outcome", "done", "killed"}]
    /\ attempts \in [Placements -> 0..MaxAttempts]
    /\ sent \in [Placements -> BOOLEAN]
    /\ confirmed \in [Placements -> BOOLEAN]
    /\ result \in [Placements -> {"none"} \cup Responses \cup CallErrors]
    /\ wire \in [Placements -> {"none", "request"} \cup Responses \cup ServerErrors]
    /\ strays \in SUBSET Placements
    /\ created \in [Placements -> 0..MaxDay]
    /\ exit \in [Placements -> {"none"} \cup ExitCodes]
    /\ today \in 0..MaxDay
    /\ at \in [Sweeps -> {"idle", "next", "get", "recheck", "list", "decide", "close"}]
    /\ todo \in [Sweeps -> SUBSET Entries]
    /\ cur \in [Sweeps -> Entries \cup {NoEntry}]
    /\ verdict \in [Sweeps -> {"none", "reconciled-placed", "reconciled-not-placed"}]

Init ==
    /\ journal = [k \in Keys |-> EmptyIntent]
    /\ order = [k \in Keys |-> NoOrder]
    /\ pc = [p \in Placements |-> "idle"]
    /\ attempts = [p \in Placements |-> 0]
    /\ sent = [p \in Placements |-> FALSE]
    /\ confirmed = [p \in Placements |-> FALSE]
    /\ result = [p \in Placements |-> "none"]
    /\ wire = [p \in Placements |-> "none"]
    /\ strays = {}
    /\ created = [p \in Placements |-> 0]
    /\ exit = [p \in Placements |-> "none"]
    /\ today = 0
    /\ at = [s \in Sweeps |-> "idle"]
    /\ todo = [s \in Sweeps |-> {}]
    /\ cur = [s \in Sweeps |-> NoEntry]
    /\ verdict = [s \in Sweeps |-> "none"]

-----------------------------------------------------------------------------
(* The command up to the send.                                             *)

Held(k) == order[k].status # "none"

(* One durable record.                                                     *)
Record(k, stage, by) == journal' = [journal EXCEPT ![k] = Note(@, stage, by)]

(* An append that may fail: the line is lost, or it is in the file although *)
(* write or fsync reported an error.                                        *)
RecordMaybe(k, stage, by) == UNCHANGED journal \/ Record(k, stage, by)

Exit(p, code) ==
    /\ pc' = [pc EXCEPT ![p] = "done"]
    /\ exit' = [exit EXCEPT ![p] = code]

(* Flags, policy, instrument and kill switch are past; created_at is the   *)
(* start of the command.                                                   *)
Start(p) ==
    /\ pc[p] = "idle"
    /\ pc' = [pc EXCEPT ![p] = "begin"]
    /\ created' = [created EXCEPT ![p] = today]
    /\ UNCHANGED <<journal, order, callVars, exit, strays, today, sweepVars>>

(* Ledger.Begin and Entry.SendStarted: each must be durable before the     *)
(* next step; a failure of either ends the command with nothing sent.      *)
Journal(p, from, stage, to) ==
    /\ pc[p] = from
    /\ \/ /\ Record(KeyOf[p], stage, p)
          /\ pc' = [pc EXCEPT ![p] = to]
          /\ UNCHANGED exit
       \/ /\ RecordMaybe(KeyOf[p], stage, p)
          /\ Exit(p, "INTERNAL")
    /\ UNCHANGED <<order, callVars, created, strays, today, sweepVars>>

Begin(p) == Journal(p, "begin", "intent-created", "send")

(* Mutant: send first, journal later.                                      *)
SendUnjournaled(p) ==
    /\ pc[p] = "send"
    /\ pc' = [pc EXCEPT ![p] = "call"]
    /\ UNCHANGED <<journal, order, callVars, created, exit, strays, today, sweepVars>>

SendStarted(p) == Journal(p, "send", "send-started", "call")

-----------------------------------------------------------------------------
(* The call: attempts, the wire, the broker.                               *)

(* Mutant: the policy counts the retries, not the attempts.                *)
AttemptsAndOne(p) == IF KindOf[p] = "replace" THEN 1 ELSE MaxAttempts + 1

(* ReplaceOrder is not marked idempotent, so it is never tried again.      *)
AttemptsOf(p) == IF KindOf[p] = "replace" THEN 1 ELSE MaxAttempts

(* Mutant: the last attempt's confirmation is taken for this one's.         *)
BeginAttemptStillConfirmed(p) ==
    /\ pc[p] \in {"call", "backoff"}
    /\ attempts[p] < AttemptsOf(p)
    /\ pc' = [pc EXCEPT ![p] = "attempt"]
    /\ attempts' = [attempts EXCEPT ![p] = @ + 1]
    /\ UNCHANGED <<journal, order, sent, confirmed, result, wire, created, exit,
                   strays, today, sweepVars>>

(* stats.Begin of an attempt: the confirmation of the last one is          *)
(* forgotten, the fact that one was sent is not.                           *)
BeginAttempt(p) ==
    /\ pc[p] \in {"call", "backoff"}
    /\ attempts[p] < AttemptsOf(p)
    /\ pc' = [pc EXCEPT ![p] = "attempt"]
    /\ attempts' = [attempts EXCEPT ![p] = @ + 1]
    /\ confirmed' = [confirmed EXCEPT ![p] = FALSE]
    /\ UNCHANGED <<journal, order, sent, result, wire, created, exit, strays,
                   today, sweepVars>>

(* The local rate limiter refuses before the attempt begins: no retry.     *)
LocalLimit(p) ==
    /\ pc[p] \in {"call", "backoff"}
    /\ pc' = [pc EXCEPT ![p] = "outcome"]
    /\ result' = [result EXCEPT ![p] = "localLimit"]
    /\ UNCHANGED <<journal, order, attempts, sent, confirmed, wire, created,
                   exit, strays, today, sweepVars>>

(* OutPayload: the request is on the wire.                                 *)
Transmit(p) ==
    /\ pc[p] = "attempt"
    /\ wire[p] = "none"
    /\ wire' = [wire EXCEPT ![p] = "request"]
    /\ sent' = [sent EXCEPT ![p] = TRUE]
    /\ UNCHANGED <<journal, order, pc, attempts, confirmed, result, created,
                   exit, strays, today, sweepVars>>

(* The broker takes an order once per key.  PostOrderAsync orders are not  *)
(* queryable until the exchange accepts them.                              *)
Take(p) ==
    order' = IF Held(KeyOf[p]) THEN order
             ELSE [order EXCEPT ![KeyOf[p]] =
                     [status |-> IF KindOf[p] = "async" THEN "pending" ELSE "live",
                      born |-> today]]

(* No order under the key, and no request of it that could still make one. *)
Barren(k) == ~Held(k) /\ \A p \in strays : KeyOf[p] # k

BrokerAnswers(p) ==
    /\ wire[p] = "request"
    /\ \/ /\ Take(p)
          /\ wire' = [wire EXCEPT ![p] = "ok"]
       \/ /\ Held(KeyOf[p])
          /\ wire' = [wire EXCEPT ![p] = "duplicate"]
          /\ UNCHANGED order
       \/ /\ DefinitiveErrors => Barren(KeyOf[p])
          /\ \E e \in (ServerErrors \ {"duplicate"}) \cup {"refused"} :
                wire' = [wire EXCEPT ![p] = e]
          /\ UNCHANGED order
    /\ UNCHANGED <<journal, pc, attempts, sent, confirmed, result, created,
                   exit, strays, today, sweepVars>>

(* After an attempt failed with e: another one, or the call is over.       *)
AfterFailure(p, e) ==
    /\ result' = [result EXCEPT ![p] = e]
    /\ pc' = [pc EXCEPT ![p] =
                IF Retryable(e) /\ attempts[p] < AttemptsOf(p)
                THEN "backoff" ELSE "outcome"]

(* The answer's trailer confirms the attempt.                              *)
Receive(p) ==
    /\ pc[p] = "attempt"
    /\ wire[p] \in Responses \cup ServerErrors
    /\ confirmed' = [confirmed EXCEPT ![p] = TRUE]
    /\ IF wire[p] \in Responses
       THEN /\ result' = [result EXCEPT ![p] = wire[p]]
            /\ pc' = [pc EXCEPT ![p] = "outcome"]
       ELSE AfterFailure(p, wire[p])
    /\ wire' = [wire EXCEPT ![p] = "none"]
    /\ UNCHANGED <<journal, order, attempts, sent, created, exit, strays,
                   today, sweepVars>>

(* Nobody waits for the attempt any more: a request the broker has not     *)
(* seen yet is lost or travels on.                                         *)
Abandon(p) ==
    /\ wire' = [wire EXCEPT ![p] = "none"]
    /\ strays' \in IF wire[p] = "request" THEN {strays, strays \cup {p}} ELSE {strays}

LoseConnection(p) ==
    /\ pc[p] = "attempt"
    /\ AfterFailure(p, "connectionLost")
    /\ Abandon(p)
    /\ UNCHANGED <<journal, order, attempts, sent, confirmed, created, exit,
                   today, sweepVars>>

(* The deadline over all attempts: a gRPC status during one, the raw       *)
(* context error in the backoff or in the local limiter's queue.           *)
Deadline(p) ==
    /\ pc[p] \in {"call", "attempt", "backoff"}
    /\ pc' = [pc EXCEPT ![p] = "outcome"]
    /\ result' = [result EXCEPT ![p] =
                    IF pc[p] = "attempt" THEN "deadline" ELSE "contextDone"]
    /\ Abandon(p)
    /\ UNCHANGED <<journal, order, attempts, sent, confirmed, created, exit,
                   today, sweepVars>>

(* What the process knew of its call ends with it.                         *)
Forget(p) ==
    /\ attempts' = [attempts EXCEPT ![p] = 0]
    /\ sent' = [sent EXCEPT ![p] = FALSE]
    /\ confirmed' = [confirmed EXCEPT ![p] = FALSE]
    /\ result' = [result EXCEPT ![p] = "none"]

OutcomeCode(p) ==
    IF result[p] = "ok" THEN "OK"
    ELSE IF result[p] = "refused" THEN "BROKER_REJECTED"
    ELSE Classify(result[p], Phase(sent[p], confirmed[p]))

OutcomeStage(p) ==
    IF OutcomeCode(p) = "OK" THEN "broker-confirmed" ELSE "broker-rejected"

(* Mutant: an envelope that cannot be written is taken for a failed call.  *)
EmittedAsNetwork(p) ==
    IF OutcomeCode(p) = "OK" THEN {"OK", "NETWORK"} ELSE {OutcomeCode(p)}

(* emitMutationResult: a success whose envelope cannot be written exits    *)
(* INTERNAL, the order placed.  A failure's code stands whatever becomes   *)
(* of its envelope.                                                        *)
Emitted(p) ==
    IF OutcomeCode(p) = "OK" THEN {"OK", "INTERNAL"} ELSE {OutcomeCode(p)}

(* Journal the outcome, write the envelope and exit.  UNCONFIRMED is left  *)
(* to reconcile; a failed journal write of another outcome only warns.     *)
Outcome(p) ==
    /\ pc[p] = "outcome"
    /\ \E code \in Emitted(p) : Exit(p, code)
    /\ IF OutcomeCode(p) = "UNCONFIRMED"
       THEN UNCHANGED journal
       ELSE RecordMaybe(KeyOf[p], OutcomeStage(p), p)
    /\ Forget(p)
    /\ UNCHANGED <<order, wire, created, strays, today, sweepVars>>

(* The process is killed.                                                  *)
Kill(p) ==
    /\ pc[p] \notin {"idle", "done", "killed"}
    /\ pc' = [pc EXCEPT ![p] = "killed"]
    /\ Abandon(p)
    /\ Forget(p)
    /\ UNCHANGED <<journal, order, created, exit, today, sweepVars>>

Place(p) ==
    \/ Start(p) \/ Begin(p) \/ SendStarted(p)
    \/ BeginAttempt(p) \/ LocalLimit(p) \/ Transmit(p) \/ Receive(p)
    \/ LoseConnection(p) \/ Deadline(p) \/ Outcome(p) \/ Kill(p)

-----------------------------------------------------------------------------
(* The broker and the clock on their own.                                  *)

StrayArrives(p) ==
    /\ p \in strays
    /\ strays' = strays \ {p}
    /\ Take(p) \/ UNCHANGED order
    /\ UNCHANGED <<journal, placeVars, today, sweepVars>>

(* The exchange accepts an async order; an order is filled or cancelled.   *)
OrderMoves(k) ==
    /\ \/ /\ order[k].status = "pending"
          /\ order' = [order EXCEPT ![k].status = "live"]
       \/ /\ order[k].status \in {"pending", "live"}
          /\ order' = [order EXCEPT ![k].status = "terminal"]
    /\ UNCHANGED <<journal, placeVars, strays, today, sweepVars>>

Midnight ==
    /\ today < MaxDay
    /\ today' = today + 1
    /\ UNCHANGED <<journal, order, placeVars, strays, sweepVars>>

-----------------------------------------------------------------------------
(* orders reconcile.                                                       *)

Owed == {k \in Keys : Unresolved(journal[k])}

(* No command is between its start and its end with this id, none of its   *)
(* requests travels.                                                       *)
Settled(k) ==
    \A p \in Placements : KeyOf[p] = k =>
        pc[p] \in {"idle", "done", "killed"} /\ p \notin strays

EntryOf(k) == [key |-> k, stage |-> journal[k].open.stage, by |-> journal[k].open.by]

SweepStart(s) ==
    /\ at[s] = "idle"
    /\ Owed # {}
    /\ SettledSweeps => \A k \in Owed : Settled(k)
    /\ todo' = [todo EXCEPT ![s] = {EntryOf(k) : k \in Owed}]
    /\ at' = [at EXCEPT ![s] = "next"]
    /\ UNCHANGED <<journal, order, placeVars, strays, today, cur, verdict>>

Goto(s, place, v) ==
    /\ at' = [at EXCEPT ![s] = place]
    /\ verdict' = [verdict EXCEPT ![s] = v]

(* Take the next entry.  One of another command, profile or endpoint, or   *)
(* without ids, is skipped; an intent that never reached send-started is   *)
(* closed without asking the broker.                                       *)
Examine(s, e) ==
    /\ at[s] = "next"
    /\ e \in todo[s]
    /\ todo' = [todo EXCEPT ![s] = @ \ {e}]
    /\ cur' = [cur EXCEPT ![s] = e]
    /\ IF e.stage = "intent-created"
       THEN Goto(s, "close", "reconciled-not-placed")
       ELSE Goto(s, "get", "none")
    /\ UNCHANGED <<journal, order, placeVars, strays, today>>

Skip(s, e) ==
    /\ at[s] = "next"
    /\ e \in todo[s]
    /\ todo' = [todo EXCEPT ![s] = @ \ {e}]
    /\ UNCHANGED <<journal, order, placeVars, strays, today, at, cur, verdict>>

(* Mutant: NOT_FOUND taken for the broker's last word.                     *)
GetOrderStateOnly(s) ==
    /\ at[s] \in {"get", "recheck"}
    /\ IF order[cur[s].key].status = "live"
       THEN Goto(s, "close", "reconciled-placed")
       ELSE Goto(s, "close", "reconciled-not-placed")
    /\ UNCHANGED <<journal, order, placeVars, strays, today, todo, cur>>

(* GetOrderState by request id: finds a live order, may hide a terminal    *)
(* one, does not know a pending one.  A synchronous NOT_FOUND is asked     *)
(* again once, then the day's list decides.                                *)
GetOrderState(s) ==
    /\ at[s] \in {"get", "recheck"}
    /\ LET k == cur[s].key IN
       \/ /\ order[k].status \in {"live", "terminal"}
          /\ Goto(s, "close", "reconciled-placed")
       \/ /\ order[k].status # "live"
          /\ Goto(s, IF at[s] = "get" /\ KindOf[cur[s].by] # "async"
                     THEN "recheck" ELSE "list", "none")
    /\ UNCHANGED <<journal, order, placeVars, strays, today, todo, cur>>

(* Mutant: the day's list is not looked at.                                *)
ListTodayBlind(s) ==
    /\ at[s] = "list"
    /\ Goto(s, "next", "none")
    /\ UNCHANGED <<journal, order, placeVars, strays, today, todo, cur>>

(* ListToday: every order born today, terminal ones included; an async     *)
(* order still pending may be missing.                                     *)
ListToday(s) ==
    /\ at[s] = "list"
    /\ LET o == order[cur[s].key] IN
       \/ /\ o.status # "none" /\ o.born = today
          /\ Goto(s, "close", "reconciled-placed")
       \/ /\ o.status \in {"none", "pending"} \/ o.born # today
          /\ IF KindOf[cur[s].by] = "async"
             THEN Goto(s, "next", "none") ELSE Goto(s, "decide", "none")
    /\ UNCHANGED <<journal, order, placeVars, strays, today, todo, cur>>

(* Mutant: an empty list of today proves nothing was placed yesterday.     *)
DecideAnyDay(s) ==
    /\ at[s] = "decide"
    /\ Goto(s, "close", "reconciled-not-placed")
    /\ UNCHANGED <<journal, order, placeVars, strays, today, todo, cur>>

(* resolveSyncNotFound after an empty list: only an intent stamped today   *)
(* may be closed as not placed.                                            *)
Decide(s) ==
    /\ at[s] = "decide"
    /\ IF created[cur[s].by] = today
       THEN Goto(s, "close", "reconciled-not-placed")
       ELSE Goto(s, "next", "none")
    /\ UNCHANGED <<journal, order, placeVars, strays, today, todo, cur>>

(* A read failed: the entry stays as it is.                                *)
ReadFails(s) ==
    /\ at[s] \in {"get", "recheck", "list"}
    /\ Goto(s, "next", "none")
    /\ UNCHANGED <<journal, order, placeVars, strays, today, todo, cur>>

CloseEntry(s) ==
    /\ at[s] = "close"
    /\ Record(cur[s].key, verdict[s], cur[s].by)
    /\ Goto(s, "next", "none")
    /\ UNCHANGED <<order, placeVars, strays, today, todo, cur>>

(* The ledger write failed and the intent will reappear; a failed write     *)
(* that left its line in the file has the effect of CloseEntry.             *)
CloseFails(s) ==
    /\ at[s] = "close"
    /\ UNCHANGED journal
    /\ Goto(s, "next", "none")
    /\ UNCHANGED <<order, placeVars, strays, today, todo, cur>>

(* The list is done, or the process is killed.                             *)
SweepEnds(s) ==
    /\ at[s] # "idle"
    /\ at' = [at EXCEPT ![s] = "idle"]
    /\ todo' = [todo EXCEPT ![s] = {}]
    /\ cur' = [cur EXCEPT ![s] = NoEntry]
    /\ verdict' = [verdict EXCEPT ![s] = "none"]
    /\ UNCHANGED <<journal, order, placeVars, strays, today>>

Reconcile(s) ==
    \/ SweepStart(s)
    \/ \E e \in todo[s] : Examine(s, e) \/ Skip(s, e)
    \/ GetOrderState(s) \/ ListToday(s) \/ Decide(s) \/ ReadFails(s)
    \/ CloseEntry(s) \/ CloseFails(s) \/ SweepEnds(s)

Next ==
    \/ \E p \in Placements : Place(p) \/ BrokerAnswers(p) \/ StrayArrives(p)
    \/ \E k \in Keys : OrderMoves(k)
    \/ Midnight
    \/ \E s \in Sweeps : Reconcile(s)

Spec == Init /\ [][Next]_vars

-----------------------------------------------------------------------------
(* Properties.                                                             *)

(* The write-ahead rule of Begin and SendStarted: whatever is on the wire, *)
(* still travelling or held by the broker was journaled as send-started,   *)
(* under the key the broker knows, before it left.                         *)
WriteAhead ==
    \A p \in Placements :
        wire[p] # "none" \/ p \in strays \/ Held(KeyOf[p])
            => "send-started" \in journal[KeyOf[p]].facts

(* The intent is unresolved, or the journal says it was placed.            *)
OnRecord(k) ==
    \/ Unresolved(journal[k])
    \/ journal[k].facts \cap {"broker-confirmed", "reconciled-placed"} # {}

(* A mutation that reached the broker never falls off the recovery         *)
(* horizon: its intent is unresolved, or the journal says it was placed.   *)
NeverLost == \A k \in Keys : Held(k) => OnRecord(k)

(* When reconcile is about to report and journal an intent as not placed,  *)
(* the broker holds no order under its id and no request could create one. *)
NotPlacedIsTrue ==
    \A s \in Sweeps :
        at[s] = "close" /\ verdict[s] = "reconciled-not-placed"
            => Barren(cur[s].key)

(* The journal calls an intent rejected only when there is no order.       *)
RejectedIsTrue ==
    \A k \in Keys : "broker-rejected" \in journal[k].facts => ~Held(k)

(* What a script may conclude from the exit code.  OK: the order is there. *)
(* A code that names a failure of the broker call (auth, rate limit,       *)
(* rejected, network): it is not and will not be, so that it may be issued *)
(* again under a new id.  UNCONFIRMED leaves it open, so does INTERNAL,    *)
(* which is also how a placed order ends whose envelope could not be       *)
(* written (finding F7): its fate is decided all the same, and an order    *)
(* that is there is one the journal tells of, under the id on stderr.      *)
ExitTruthful ==
    \A p \in Placements : LET k == KeyOf[p] IN
        /\ exit[p] = "OK" => Held(k)
        /\ exit[p] \notin {"none", "OK", "UNCONFIRMED", "INTERNAL"} => Barren(k)
        /\ exit[p] = "INTERNAL" => Barren(k) \/ (Held(k) /\ OnRecord(k))

(* NeverLost for the commands that have ended, by themselves or killed.    *)
EndedNeverLost ==
    \A k \in Keys : Held(k) /\ Settled(k) => OnRecord(k)

-----------------------------------------------------------------------------
(* The abstract specification it implements, when every command has its    *)
(* own id, reconcile runs are settled and errors definitive.               *)
FateOf(k) ==
    IF journal[k].facts = {} THEN "unknown"
    ELSE IF Unresolved(journal[k]) THEN "owed"
    ELSE IF journal[k].facts \cap {"broker-confirmed", "reconciled-placed"} # {}
         THEN "placed" ELSE "notPlaced"

Fate == INSTANCE OrderFate WITH
            fate <- [k \in Keys |-> FateOf(k)],
            held <- {k \in Keys : Held(k)}

(* Every step of the commands, the broker and reconcile is a step of the   *)
(* promise of OrderFate, or none.                                          *)
KeepsFate == Fate!FateSpec

-----------------------------------------------------------------------------
(* Fairness.  A command runs on until its deadline; an abandoned request   *)
(* arrives or vanishes; the operator keeps running reconcile, whose reads  *)
(* and writes do not fail for ever.                                        *)
Progress(p) ==
    \/ Start(p) \/ Begin(p) \/ SendStarted(p) \/ BeginAttempt(p)
    \/ LocalLimit(p) \/ Transmit(p) \/ Receive(p) \/ Deadline(p) \/ Outcome(p)

About(s, k) == cur[s].key = k

Fairness ==
    /\ \A p \in Placements : WF_vars(Progress(p)) /\ WF_vars(StrayArrives(p))
    /\ \A s \in Sweeps :
         /\ WF_vars(Reconcile(s))
         /\ \A k \in Keys :
              /\ SF_vars(\E e \in todo[s] : e.key = k /\ Examine(s, e))
              /\ SF_vars(About(s, k) /\ at[s] = "get" /\ GetOrderState(s))
              /\ SF_vars(About(s, k) /\ at[s] = "recheck" /\ GetOrderState(s))
              /\ SF_vars(About(s, k) /\ ListToday(s))
              /\ SF_vars(About(s, k) /\ Decide(s))
              /\ SF_vars(About(s, k) /\ CloseEntry(s))

FairSpec == Spec /\ Fairness

(* The broker's reads can still tell: the order is live, or it was born    *)
(* today, or the intent is synchronous and was stamped today.              *)
Findable(k) ==
    \/ order[k].status = "live"
    \/ order[k].status = "terminal" /\ order[k].born = today
    \/ /\ order[k].status = "none"
       /\ \A p \in Placements : KeyOf[p] = k =>
             KindOf[p] # "async" /\ created[p] = today

(* An intent in doubt does not stay in doubt as long as the broker's reads *)
(* can still tell its fate.                                                *)
DoubtEnds ==
    \A k \in Keys :
        Unresolved(journal[k]) /\ Findable(k)
            ~> ~Unresolved(journal[k]) \/ ~Findable(k)
=============================================================================
