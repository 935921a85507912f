# Verification of tinvest

`tinvest` is a command line client for the T-Invest broker API. A command is a
short-lived process; several run at the same time on one machine, against one
account. What can go wrong is therefore not in one process but between them,
the broker, the network and the disk. This directory holds TLA+ models of those
parts, the TLC configurations that check them and TLAPS proofs about them. All
paths below are relative to the repository root.

Run a check with `tlc -config <run>.cfg <module>` and a proof with
`tlapm <module>.tla`.

## 1. Inventory

| component | state | operations | talks to |
|---|---|---|---|
| Order commands, `cmd/tinvest/orders.go` | the intent in the journal, the call's outcome | place, place --async, replace, cancel, reconcile, wait | ledger, policy, transport, broker |
| Stop order commands, `cmd/tinvest/stoporders.go` | as above; reconcile matches by fields, not by id | place, cancel, reconcile | ledger, policy, transport, broker |
| Transport, `internal/transport`, `internal/render/errors.go` | `CallInfo.sent`, `CallInfo.confirmed`, attempt number | begin attempt, mark sent, mark confirmed, retry, deadline, classify | broker |
| Ledger, `internal/ledger` | monthly JSONL files, `.corrupt` sidecars, flock, an open handle per process | Open, append (rotation), Unresolved and AssignedStopOrderIDs scans, torn tail repair | file system, other processes |
| Policy and account lock, `internal/policy`, `ledger.AcquireAccountLock` | policy file, kill switch file, lock file | CheckLocal, CheckResolved, CheckOpenOrders, CheckKillSwitch, lock | file system, broker's order lists |
| Rate limiter, `internal/ratelimit` | token buckets per method group, shared by a process' goroutines | Wait, RefreshTariff, Update | broker's tariff |
| Stream runner, `internal/stream`, `cmd/tinvest/stream.go` | connection, replay registry, reconcile goroutine, buffer, cutoffs, watchdog | Run, receive, Reconcile, shutdown | broker's streams and unary snapshots, stdout |
| Candles, operations, history (`internal/broker/*`) | windows, cursors, partial files | CandleWindows, List, Download | broker, file system |
| Instrument resolution, `internal/broker/instruments` | one cache file and one temporary file for all processes | Resolve, Get, Put | broker, file system, policy checks |
| Reads, rendering, config, root, client library | none that outlives a call | one request, one rendering | broker |

What makes them correct, and what is hard about it:

* **Orders.** An order may be placed at most once per order id; whatever the
  broker may hold must be known to the journal before it leaves; an exit code or
  a reconcile outcome that says "not placed" must be true, because a script will
  then place again. Hard: the process dies anywhere, answers get lost, a retried
  attempt ends in another error than the first one, requests arrive after
  everybody gave up, reconcile runs beside commands and beside itself, a day ends
  while the broker's list of "today" is the only evidence.
* **Ledger.** An append that returned nil is there for ever, for every reader.
  Hard: two processes with open handles, a write that stops half way, a month
  that changes, a power loss between file, directory and sidecar fsyncs.
* **Guardrails.** Commands on one account together respect `max_open_orders`; a
  kill switch stops everything that has not been sent. Hard: count and send are
  two calls, requests outlive commands, a command may wait long between its
  checks.
* **Streams.** The reader is never shown an old book after a new one, never
  misses a frame without a `disconnected` event, and a cancelled command ends.
  Hard: a snapshot goroutine beside the receive loop, a bounded buffer, a
  watchdog, cancellation at any point.
* **Cancel and wait.** "OK" means that the order is final, "rejected" that the
  broker never knew it. Hard: a cancel is retried after it took effect, the
  exchange is faster, the broker forgets, a poll's answer comes after the timeout.
* **Rate limiter and stream pacing.** Not more calls, subscription messages or
  reconnections than the broker's limits, and no caller kept waiting for a debt
  nobody owes. Hard: waiters that give up behind one another, buckets replaced under
  waiters, a window that outlives connections, Sends that block.
* **Policy checks and instrument cache.** What goes out obeys the policy file for
  the instrument it is really about. Hard: the facts come from a file that other
  processes write, that is old, torn or has an entry under a wrong id.
* **Paging, windows, download.** What is reported is whole. Hard: cursors that go
  round in circles, months of different length, two downloads of one file, a close
  that fails.

## 2. Modules

Arrows: `A <- B`, B extends or instantiates A.

    Rpc, IntentJournal <- OrderPlacement <- OrderPlacementMC
    OrderFate          <- OrderPlacement        (refinement, KeepsFate)
    OrderPlacement <- OrderPlacementProofs
    IntentJournal  <- StopReconcile <- StopReconcileMC, StopReconcileProofs
    OrderAdmission <- OrderAdmissionMC, OrderAdmissionProofs
    Ledger <- LedgerProofs
    StreamFeed     <- StreamRunner              (refinement, KeepsFeed)
    StreamRunner <- StreamRunnerProofs
    InstrumentCache <- GuardedOrder <- GuardedOrderMC, GuardedOrderProofs
    Rpc <- OrderSettle;  OrderSettle, BulkReads <- SeveralCallsMC <- SeveralCallsProofs
    RateLimiter, StreamPacing <- PacingMC <- PacingProofs

### OrderPlacement (with Rpc and IntentJournal)

A placement `p` is one run of `orders place`, `place --async` or `replace`; a
sweep `s` is a process that runs `orders reconcile` again and again.

| model | code |
|---|---|
| `Start`, `Begin`, `SendStarted` | `runPlace` / `ordersReplaceCmd` up to the call; `placeExec`'s first half |
| `BeginAttempt`, `Transmit`, `Receive`, `LoseConnection`, `Deadline`, `LocalLimit` | retry interceptor, `phase.go`'s stats handler, deadline interceptor, rate limiter's refusal |
| `Outcome`, `Emitted` | `placeExec` and `ordersReplaceCmd` after the call: classification, journal record or warning, exit code; `emitMutationResult`: a success whose envelope cannot be written exits INTERNAL |
| `Kill` | the process dies; its request may travel on (`strays`) |
| `Examine` .. `CloseFails` | `reconcileFlowForTarget` entry by entry: `GetOrderState`, `recheckNotFound`, `ListToday`, `resolveSyncNotFound`, `reconcileAsyncNotFound`, `recordReconciled` |
| `Note`, `Unresolved` | the aggregate that `Ledger.Unresolved` folds per intent id |
| `Classify`, `Phase`, `Retryable` | `render.Classify`, `CallInfo.Phase`, `DefaultRetryPolicy` |

The journal here is the set of durable records, folded; how they become durable
is `Ledger`. One record `reconciled` in the code carries either a broker order
id or an error; the model has a stage for each. An append may fail with or
without its line in the file. The broker is modelled as the code assumes it:
idempotent by request id, `GetOrderState` blind to pending async orders and
possibly to terminal ones, the day's list complete for orders born on that UTC
day. `orders cancel` and `orders wait` are `OrderSettle`'s.

`OrderFate` says what a journal is for: an id is promised, the broker can come
to hold its order only while it is owed an answer, and the answer is the truth
for good.

### Ledger

A file is the sequence of pieces written to it; a piece is whole, lacks only its
newline, or is a fragment. Actions follow `openMonth` (stat, create, fsync of
the directory, repair), `repairTornTail` (look at the tail under the flock,
quarantine, truncate, fsync), `append` (rotation, flock, write, fsync) and the
two loops of `Unresolved` and `AssignedStopOrderIDs`. `disk` is what fsync made
durable, `entry` which names a directory fsync made durable; `PowerLoss` keeps
these and any prefix of the rest. Left out: sequence numbers (they only order the
entries a reconcile run examines, which `StopReconcile` has), hash format, the
64 KiB window of the repair. The quarantine write with its fsync is one step; a
reader gets a file in one read.

### StopReconcile

`stop-orders place` and `stop-orders reconcile`. The broker keeps no client id of
a stop order, so reconcile recognises an order by its fields and its time.

| model | code |
|---|---|
| `Start` .. `Outcome`, `Unconfirmed`, `Kill` | `runPlaceStop`, `placeStopExec`: one attempt, no retry |
| `SweepStart`, `ReadAssigned`, `ReadList` | `reconcileStopFlowForTarget`'s three reads, in its order: `Unresolved`, `AssignedStopOrderIDs`, `GetStopOrders` with status ALL (once per run) |
| `Foremost`, `Numbered` | entries sorted by `seq`; `seq` is counted per process from the month's file, so equal and restarted numbers leave the order open |
| `Matches`, `InWindow` | `matchStopOrders`, `stopCreationMatches` |
| `NoMatch`, `OneMatch` | the switch over the number of matches, with `consumed` |
| `CloseEntry`, `CloseFails` | `recordReconciled` |

The order a command's request makes is named after the command: that is the truth
the code cannot see, and `OwnOrderFirst` compares its guesses with it. An order is
active, then terminal, then no longer listed. `Strangers` are stop orders from
elsewhere, with any fields. `QuietSweeps` is what an operator should do: one
reconcile at a time, beside no command and after the requests of earlier ones have
come to an end. Fields are one value per order (`FieldsOf`), one account.

### OrderAdmission

Commands of five kinds on one account: policy and first kill switch look
(`Enter`), network reads (`Lookup`), account lock and count for the three kinds
that add orders (`Lock`, `Count`), second look (`Check`), attempts, end. The lock
goes with the command, however it ends. `open` is what `GetOrders` or
`GetStopOrders` lists; an async order is `pending` before it is listed. What the
commands journal is `OrderPlacement`'s subject. The switch may be unreadable,
which the code treats as engaged. A replacement stands for the order it
replaces.

### StreamRunner

One stream command: `Run`'s loop, `receive`'s select with the reader goroutine
and the transport's queue (`pipe`) in front of it, the reconcile goroutine that
reads and writes one snapshot per book, the filter
`keepOrderBookFrameAfterSnapshot` with its cutoffs, the writer on stdout, the
broker that pushes. Versions stand for the times of the data. `Stop` cancels the
session and `Stopped` waits for the goroutine, which is where the code's order of
events matters. Left out: event texts, attempt numbers, and durations, which are
`StreamPacing`'s (the limiter is the step `Replay` here). The registry does not
change while a command runs.

`StreamFeed` is the reader's side of it: connected, data that only moves
forward, disconnected, the end.

### StreamPacing

The same command with a clock and without its data: when it opens, sends, gives
up and tries again. `BackOff` with `Nominal` and `Delays` is `defaultBackoff` and
its jitter; `Granted`, `Sleeps` and `Awakes` are the three ways through `waitN`;
`Lasted` is the only place where the failures are forgotten. `until` is whatever
timer is running. A Send lasts up to `MaxSend` ticks, and its message reaches the
broker at the end of it, so that a message may arrive later than its stamp says.
`arrived`, `opened`, `gap` and `quick` belong to an observer.

### RateLimiter

One bucket per generation of one method group: 0 is the static one, each
`GetUserTariff` answer with a usable group for the method makes the next.
`Refuse`, `PassAtOnce` and `Reserve` are the three ways out of `Wait`'s critical
section, `Wake` and `Cancel` the two ends of its select. Content is counted in
seconds of refill, so that a token costs `cost` of them and everything is an
integer. `watched`, `since`, `passed` and `before` are an observer that may start
to count at any moment. Left out: float rounding, the maps that find a method's
group (`current` is what they find), and other processes, which have buckets of
their own: the limiter does not keep the account within the tariff, only the
process.

### OrderSettle

`orders cancel`, `stop-orders cancel` and `orders wait` on orders that exist, or
not. A cancellation is retried (`Fails` asks `Retryable`), may act though its answer
is lost (`CancelLost`) or after everybody has gone (`StrayArrives`), and when the
broker says NOT_FOUND `LookUp` goes to `GetForCancel` and `ListForCancel`
(`cancelSettledNote`) or to the list alone (`stopCancelSettledNote`); `notFound` is the
test the code makes for it. Any other refusal ends the command with that error's code
(`CancelRefused`), and a success whose envelope cannot be written exits INTERNAL
(`Emit`). `wait` has the
loop's three places: `ask`, `answer`, `pause`. An order's state at the broker moves
by itself, and `GetOrderState` may have forgotten a final order, as in
OrderPlacement.

### BulkReads

Three reads that take several steps: `Page` follows any cursors a broker may hand
out; `Window` cuts a range as `CandleWindows` does, with `AddMonths` that runs over
short months as `time.AddDate`; `Create`, `Copy`, `Close`, `RemovePartial` are
`Download` with `O_EXCL` and its deferred removal, beside other downloads of the
same archive. A candle window's own answer is taken to be whole.

### InstrumentCache and GuardedOrder

`Resolve` with the cache file all commands share. The file system has inodes:
`OpenTmp` truncates the one temporary file, `Write` goes to the inode that was
opened, `Rename` moves whatever is at the temporary path now. So two writers can
leave a torn file, which `ReadFile` takes for an empty one. `answer` is what the
broker would say; `lastTrue` remembers until when something else was the answer.
The file that is there at the start may have entries under a wrong id (`CacheInit`).
What `Get` cannot tell from the broker's answer is left out: an entry whose lot or
currency was edited under its right id, and one stamped in the future, which never
goes stale (cache.go:92).

`GuardedOrder` puts the checks of `orders place`, `orders replace` and
`stop-orders place` around it: `RefusedAtOnce` before the network (`ValidateBasics`,
`policy.Load`, `CheckLocal`), `ResolvedViolation` and `OffIncrement` after it
(`replacementPolicyViolation`, `CheckResolved`, `ValidatePriceIncrement`).
`PolicyPrice` is the price the notional cap is applied to: a replacement without one
keeps the order's, a stop order is capped by its stop price, so the limit price of
a stop-limit order is not; and stop orders are passed off as limit orders, so the
opt-in for market orders does not bind them. `KeepsPolicy` states the file's rules
once more, as the README's table does, and for the broker's answer, not for the cache's;
`allow_shorts` is not among them, since the code does not enforce it and says so.
The kill switch, the lock and the count come next, in OrderAdmission.

## 3. Runs

| run | what it asks | answer |
|---|---|---|
| placement_own_ids | a sync and an async command with their own ids, reconcile, kills, late requests, one midnight | journal, exit codes and reconcile are true; OrderFate is implemented |
| placement_two_reconciles | a replacement and two reconcile processes with stale copies | verdicts agree with the broker, and doubt ends while the broker can still tell |
| lost_after_definitive_error | without the assumption on errors | journal says rejected, order exists |
| lost_by_early_reconcile | reconcile beside a running command | an order falls off the journal |
| stop_reconcile | two commands and a stranger with the same fields, reconcile again and again, kills, lost answers | no stop order is given twice, none to the wrong intent while the right one is listed, none is lost |
| ledger_short_writes | writes that stop half way, process death, a month that changes | scans miss no acknowledged line silently, repairs lose nothing |
| ledger_power_loss | power loss at any moment, a month that changes, durable files | acknowledged records stay readable |
| admission_cap | commands race for the last place, the kill switch moves | the cap holds for what a count can know, the switch stops whoever has not had the second look, the lock passes on |
| stream_feed | faults, overflows, reconnections, shutdown | no unannounced gap, the feed is that of StreamFeed, books become current, the command returns |
| pacing | one process: calls over one bucket with a refresh, or a stream command with its timers | the tariff is kept in every span, no debt without a waiter, the cap on messages holds across connections, pauses grow while connections do not last |
| several_calls | cancel, wait, paging, candles, downloads | results are true and whole, no cursor is read twice and no window is empty |
| guarded_order | one command with every request and policy file, or two over one cache | what goes out keeps the policy; what an id resolves to was the broker's answer within the TTL |

`lost_after_definitive_error` and `lost_by_early_reconcile` end with a
counterexample: the code does not do what a comment says. PROJECT.json quotes the
lines.

**Limits met while modelling that no run is spent on.** Each is a behaviour of the
models; the properties above are stated so that they hold beside it, or the
constants of the runs leave it out.

* `orders place` run a second time under the `--order-id` of a killed command: its
  `intent-created` entry replaces the first one's `send-started` in the aggregate
  (ledger.go:713), so reconcile closes the id as not placed without asking
  (`EndedNeverLost` with two placements that share a key). The order ids of the runs
  are the commands' own, which is the default.
* `max_open_orders` counts what the broker lists. A request that arrives after its
  command has ended, or an async order not yet listed, is in nobody's count, so the
  account can get over the cap. `KnownWithinCap` therefore counts only what a count
  can know of.
* `reconcile` of stop orders beside a running command: the set of assigned ids is
  read before the broker's list (stoporders.go:951), so the command's own order may be
  in the list and not in the set, and be recorded for an older intent with the same
  fields as well (`AssignedOnce` with `QuietSweeps = FALSE`), against ledger.go:749-751.
* `append` repairs nothing before it writes (ledger.go:519): after a write that
  stopped half way in one process, a record that another open handle appends and
  acknowledges shares the fragment's line and no reader gets it (`AckedReadable` with
  `ShortWrites = TRUE`), against ledger.go:15-17 and 299.
* The kill switch is not looked at between two attempts of a call (retry.go:106). An
  attempt the broker refused for its rate limit is sent again under a switch engaged
  since, although orders.go:297-299 says it takes effect before the order goes out.
* `cancel` exits 5 for an order that is final in three cases; the comment at
  orders.go:757 reserves 5 for ids that never were. After a NOT_FOUND: the day's list
  cannot be read, or the order is of another day and forgotten by `GetOrderState`;
  `NotFoundIsUnknown` names these two. And without a NOT_FOUND: the broker refuses with
  INVALID_ARGUMENT or FAILED_PRECONDITION, and the state is not asked for at all
  (orders.go:761, stoporders.go:840); `CancelRefused` has it and the property leaves it
  out. Which status the broker gives is not in the repository.
* Exit 1 INTERNAL alone does not say whether there is an order: a failure before the
  send ends in it, and so does an order that was placed and whose envelope could not
  be written (orders.go:413). `ExitTruthful` asks that one of the two holds for good,
  and that the journal tells of the order when it is there.
* The rate limiter keeps no order among waiters; cancelled waiters give tokens back
  that others have already waited for, so that a burst may exceed `Burst` by as many
  as were waiting; after a refresh the old bucket's waiters go out beside a full new
  burst. `WithinTariff` has a term for each.
* Two processes that write the instrument cache at the same time can leave a file
  that is not JSON, or lose an entry. The comment at cache.go:122 speaks of a crash
  and is right about it (`CrashLeavesFileWhole`); the next command resolves anew.
* A download that is killed leaves a partial file under the final name, and later
  downloads fail with "file exists" until it is removed. A body without a length
  that ends early counts as whole.
* `waitN` stamps a message before it is sent. One that blocks in `Send` can bring the
  broker one message more than the cap within a window, not more
  (`ArrivalsWithinCap`).
* A month's file that another process has just created: `openMonth` fsyncs the
  directory only when its own stat found no file (ledger.go:291). Append,
  acknowledge, lose power: the file is gone (`AckedReadable` with `Existing = {}` and
  `PowerFails = TRUE`). The same holds for a `.corrupt` sidecar, whose directory entry is not fsynced.

**Bounds.** Two placements are enough for what two commands can do to one id, one
each for the independent case; two attempts are the least that gives a retry (the
code has three, and a third adds no new kind of step; `admission_cap` has one, its
proofs cover every number); one midnight separates
"today" from "not today". Two processes and two records are what the ledger needs
for one process to write on another's fragment and for a scan to miss a record;
two months for a rotation. Three commands are one more than the places under the
cap; the kinds not among them are covered by the proofs. Two commands and a
stranger with the same fields are every mistake a match by fields can make: the
other intent's order, nobody's order, two candidates; with a window of 0 and two
points in time an order is in or out of it. In the stream run a buffer of one frame overflows with two, two faults allow
a fault during the recovery from a fault, two requests a fault between them.
In `pacing` two calls share a bucket of two: one waits behind the other and each
can give up in between; fourteen ticks are three windows and two watchdogs, and three
failures reach the backoff's cap. In `several_calls` two attempts are a retry, a
second midnight moves an order out of the day's list; three cursors allow a circle
that does not begin with the first; months of one to three days have every overrun
that months of 28 to 31 have; three downloads are one that fails between two that
do not. In `guarded_order` a TTL of one tick and four points in time make an entry
fresh, just fresh and stale; two papers that share a ticker differ in lot size; the
requests and files pass and fail each check; two processes are what it takes to
tear a file.
Every bound is a constant. The constants also say what the environment may do:
`ShortWrites` and `PowerFails` for the file system, `LateRequests`,
`SettledSweeps` and `DefinitiveErrors` for the broker and the operator,
`QuietSweeps` for the operator, `Stamps` and `PushOnSubscribe` for the broker's
streams.

Deadlock is not checked where a system of commands ends when all commands have
ended: every cfg that says so models processes that terminate. No run uses
symmetry; the instances are small and some properties are temporal.

**Fairness.** `OrderPlacement`: a command that runs goes on to its deadline (the
interceptor sets one on every call); an abandoned request arrives or vanishes;
the operator keeps running reconcile, and its reads and writes do not fail for
ever (strong fairness per entry, since a failed read makes it start over).
`OrderAdmission`: a command goes on, by its deadline if by nothing else; nobody
is assumed to lose the connection, die or fail to lock. `LockPasses` with a
fixed set of commands needs no fairness of `flock` itself. `StreamRunner`: the
runner and its goroutine go on, a silent connection meets the watchdog, an open
stream's subscriptions are taken up. The other runs check safety only: that
their loops get on is a part of `ListIsWhole` and `CandlesAreWhole`.

**What the passing stream runs assume.** Book data carries its time (`Stamps =
{TRUE}`): for data without one the code drops a frame and lets the following
ones pass, so that an older book may follow a newer one. `BooksFresh` assumes that
the broker pushes a book when it takes up the subscription: the snapshot is read
right after the subscription is sent, and a change between the snapshot and the
moment the broker acts on the subscription is in neither.

## 4. Proofs

TLAPS checks these for every value of the constants that the module's assumptions
allow. Every safety invariant, every refinement and every action property that a run
checks is among them; what stays with TLC alone is at the end of this section.

| theorem | says | under |
|---|---|---|
| TypeCorrect | OrderPlacement is well typed | the module's assumptions |
| WriteAheadHolds | nothing is sent that was not journaled first | the module's assumptions |
| NeverLostHolds, NotPlacedIsTrueHolds, RejectedIsTrueHolds | journal and reconcile tell the truth | Discipline |
| ExitTruthfulHolds | OK: the order is there; AUTH, RATE_LIMITED, BROKER_REJECTED, NETWORK: it is not and will not be; INTERNAL: one of the two, and the journal tells of an order that is there | Discipline |
| KeepsFateHolds | OrderPlacement implements OrderFate | Discipline |
| StopTypeCorrect | StopReconcile is well typed | the module's assumptions |
| AssignedOnceHolds, OwnOrderFirstHolds, StopNeverLostHolds | reconcile gives a stop order to one intent, to its own if that is listed, and loses none | QuietSweeps |
| AdmissionTypeCorrect | OrderAdmission is well typed, no attempt too many | the module's assumptions |
| SwitchStopsCommandsHolds | a switch engaged before the second look stops a command | the module's assumptions |
| LimiterTypeCorrect | RateLimiter is well typed | the module's assumptions |
| WithinTariffHolds | a bucket lets through no more than its burst, its rate and those who waited already, in any span | the module's assumptions |
| NoOrphanDebtHolds | a bucket nobody waits on owes nothing | the module's assumptions |
| KnownWithinCapHolds | what a count can know of never exceeds the cap | the module's assumptions |
| GuardTypeCorrect | InstrumentCache and GuardedOrder are well typed | the module's assumptions |
| ResolvedIsRecentHolds | what an id resolves to was the broker's answer within the TTL and a call | the module's assumptions; a cache file as in `CacheInit` |
| SentIsWithinPolicyHolds | what goes out keeps the policy file for such an answer | the same |
| SettleTypeCorrect | OrderSettle is well typed, no attempt too many | the module's assumptions |
| CancelOkIsFinalHolds, WaitIsTruthfulHolds | cancel's OK and wait's success and timeout are true | the module's assumptions |
| NotFoundIsUnknownHolds | the rejection cancel makes of a NOT_FOUND is true but for two named cases | the module's assumptions |
| ListIsWholeHolds, CandlesAreWholeHolds, DownloadStaysHolds | what the bulk reads report as whole is whole, and their loops end | the module's assumptions |
| RunsAreBehaviours, CallsTypeCorrect | the composed runs are runs of OrderSettle and of BulkReads, both well typed | the modules' assumptions |
| ArrivalsWithinCapHolds | no `ReplayLimit` + 2 messages reach the broker within a window, over any reconnections | the module's assumptions |
| NoReconnectStormHolds | after n quick calls of Open the last pause was that of n failures | the module's assumptions |
| PacesBoth, PacingTypeCorrect | the composed runs are runs of RateLimiter and of StreamPacing, both well typed | the modules' assumptions |
| CrashLeavesFileWholeHolds | the cache file put in place is whole while no two processes write at a time | the module's assumptions |
| TypeCorrect (LedgerProofs) | Ledger is well typed | the module's assumptions |
| RepairHarmlessHolds | a repair cuts off nothing acknowledged and nothing that is not in the sidecar | Powered |
| AckedReadableHolds | every acknowledged record stays readable | Sound |
| ScanCompleteHolds | a scan that reports no corruption has read what was acknowledged before it | Powered or Sound |
| TypeCorrect (StreamRunnerProofs) | StreamRunner is well typed, its buffer within the limit | the module's assumptions |
| NoSilentGapHolds | no frame is lost without a disconnected event | Timed |
| KeepsFeedHolds | StreamRunner implements StreamFeed | Timed |

`Discipline` (OrderPlacementProofs) is: an order id per command, reconcile starts
when the requests of the intents it reads have come to an end, and a broker that
answers with an error has placed nothing and will not. None can be left out: the
two runs whose names begin with `lost_` drop the second and the third and find a
counterexample, and section 3 says what a repeated id does.

`Powered` (LedgerProofs) is that the machine does not stop; writes may still fail
half way and processes may still die anywhere. `Sound` is that no write fails half
way, and, if the machine may stop, that the months' files were there and durable from
the start. Section 3 says why neither can be dropped from `AckedReadable`: a fragment
of one process swallows the record of another, and a new file's name may not be
durable. `RepairHarmless` needs `Powered` because a sidecar's name is not made
durable before the tail is cut off. `Timed` (StreamRunnerProofs) is that all broker
data carries its time, as the streams' passing run assumes; section 3 says what the
code does with data that does not.

The assumptions of `BulkReads` on its calendar (months follow each other, the first
begins on day 0, the last is after the end of every range and one step of it) say that
the model's finite calendar is long enough; `time.AddDate` never runs out of months.

*WriteAhead.* Inductive with `AheadInv`: a command past `SendStarted` has its
record, records are never removed (`RecordAdds`), and only such commands have
anything on the wire, under way or carried out.

*The truth.* `TruthInv` ties, command by command, what is on the wire, what the
call has seen and the exit code to whether an order exists or can still come (the
INTERNAL of a lost envelope to its being there), and,
sweep by sweep, each pending verdict to the broker's state: an order found stays
found, an absent one whose requests are over stays absent. NeverLost and the
others follow from it; it is needed because a verdict is written several steps
after the reads it rests on. The refinement to OrderFate follows step by step,
since under the Discipline each step changes the fate of one id at most.

*Stop orders.* `IInv` says that while reconcile runs nothing else moves
(`AloneInv`), so what it has read still holds when it writes: `ReadInv` (it knows
every order that is given away, and what its list does not show is not there) and
`VerdictInv` (the order it is about to record is nobody's, and the intent's own
order is not listed). `CommandInv` ties a command's position to its request, its
order and its journal entry; it is needed because a stop order may appear long
after its command, and must then find the intent still in doubt. That the condition
is needed TLC shows with `QuietSweeps = FALSE`.

*The cap.* A counted command holds the lock from its count to its end (`Holds`),
hence between the count and the moment its order is carried out nobody else's
counted order is carried out in time, and there is `Room` for it.

*The rate limiter.* `WithinTariff` compares what has passed with time; it is
inductive only with `Budget`, which says where the tokens are: what a bucket holds,
what passed and what its waiters have reserved come together to no more than its
capacity, the time since the count began and those who waited then. `Debt` is the
same account from below: a bucket's content is never lower than minus what its
waiters have reserved, so without waiters it is not negative. Both rest on lemmas
about `Refilled` and `PutBack` and on one about the waiting calls' number when a
call joins or leaves them. `Installed` says that buckets not made yet are full and
that nobody waits on them.

*The cache and the policy.* `HonestEntries` says of every entry, in any inode or about
to be written, that it was the broker's answer up to a call before its stamp, or is
one no look-up accepts; torn contents have no entries, and only `PutRead` makes new
ones. That is what writers that share a temporary file cannot break, whatever they
tear or lose. `PlaceInv` ties a process' place in `Resolve` to what it holds, `GotInv`
carries honesty over to what it resolved, and `CheckedInv` says that a request past
`CheckLocal` is not one of `RefusedAtOnce` and that a sent one has passed the
resolved checks. From these the rules follow (`PolicyKept`): the code compares the
product of the absolute price, the rules bound the product itself.

*Cancel and wait.* A final order stays final (`OrdersKeep`), so an exit code stays true
if it was when it was given. For wait that takes `PollKnows`: the state a poll has
read may be old when it is looked at, but if it was a live one, the order was live
when the poll began, and `InTime` says that this is at most a call ago.

*Bulk reads.* `ListInv`: a page that was read is one whose cursor was seen, and the
cursor to be read next has not been, so a page is read once at most and a circle is an
error. `ChartInv`: the windows asked for lie end to end from the range's start to
`start`, where the next one begins, so every day before `start` is in one window; that
no window is empty or over the cap takes a lemma about `AddMonths`, which lands in the
month it aims at or, from a day that month does not have, in the next. `DownloadInv`:
`O_EXCL` gives the path to one download, which has it until it removes it.

*Stream pacing.* `StampInv`: for every message that reached the broker within the
window, each later one, the one being sent included, has a stamp of its own at the end
of `stamps`, no older than that arrival; so none of them is among those `waitN` drops,
and `ReplayLimit` bounds their number. It is needed because the limiter knows when
messages were stamped and the property is about when they arrived. `StormInv`: the
failures counted are no fewer than the quick calls of Open in a row, and in the pause
the delay is that of the failures, unless the connection lasted as long as the
watchdog, and then the next call is not a quick one. That the pause grows is
`NominalGrows`, over a table of the powers of two up to the sixteenth.

*The cache file.* `FileInv`: the inode at the temporary path and the one at the cache's
path are different ones, of processes that opened the temporary file; while no two
processes have been between their opening and their renaming at a time, the one there
has an empty file before its write and a whole one after it.

*The ledger.* `PlaceInv` says which flock a process holds at which place, `TailInv` that
a process finds its own record at the end of its file as long as it holds the flock,
so that a failed write cannot be taken for another's. While the machine runs, a line
once whole is never cut off (`KeptInv`): a repair looks at the tail under the flock and
cuts off the last, unfinished piece only. `ScanInv` follows a scan: each record
acknowledged before it began was read, or met a corrupt line, or is in a month the scan
still has before it; files are only appended to, so it is still there when the scan
comes. For power loss `DurableInv` says the same of `disk`, what fsync has made
durable, and that every file's name is durable. Both are needed because acknowledging,
repairing and scanning are steps of different processes.

*The stream runner.* Frames of a channel travel in the order of their versions. The
difficult part is the reconcile: while snapshots are written a book's own frames are
kept back, and afterwards compared with a cutoff. `SnapshotInv` says that until then
the reader has seen of a book what its snapshot showed, which becomes its cutoff; `ShowInv`
that a frame the filter drops is no news to the reader, and one it keeps no step back.
`GapInv` is `NoSilentGap` at every place of the loop. The refinement follows step by
step: every step is silent, or is one of StreamFeed's.

Left to TLC: liveness (`DoubtEnds`, `LockPasses`, `BooksFresh`, `ShutdownEnds`), and
what the `violation` runs show. Two limits of the prover shaped the text: the cursor
`""` of the code is the constant `Empty` in BulkReads, since the prover has no empty
string literal, and powers of two are proved one by one, since it knows nothing of `^`.
Arguments by a least number (the first stamp still in a window, the month of a day,
the last newline of a file) go through the well-foundedness
of the naturals.

## 5. Not modelled, and what is left

Rendering, flag parsing, the merge of configuration, single reads (portfolio,
research, signals, users, listings, quotes), the sandbox's unjournaled calls, TLS and
dialing: they keep no state beyond a call, or none that a model could say more
about than a table test. Generated code (`pb/investapi`) has no behaviour of its own;
it is about 41 thousand of the repository's 57 thousand lines of Go outside
tests, so that the mapped share of all lines stays small although most of the code
that decides something is mapped.

Within modelled parts: the expiration, trailing and take-profit flags of stop orders,
the backoff between two attempts of a call, sequence numbers in the ledger, the 64 KiB
window of its repair, the order in which waiters of a bucket wake up.

Left to prove: liveness is out of the prover's reach, and all invariants, action
properties and refinements of the runs are proved. What would be worth stating next is
what remains true without a hypothesis: of `AckedReadable` when writes fail half way
but the processes that saw it end, and of `NoSilentGap` for data without a time.
