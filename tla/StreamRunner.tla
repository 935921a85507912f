---------------------------- MODULE StreamRunner ----------------------------
(***************************************************************************)
(* One stream command: the runner that connects, replays subscriptions,    *)
(* receives, reconciles order books from unary snapshots and reconnects;   *)
(* the reader goroutine with the transport behind it; the reconcile        *)
(* goroutine; the writer on stdout; and the broker that pushes frames.     *)
(*                                                                         *)
(* A channel is what frames are about: an order book, or trades, prices,   *)
(* positions and the like.  Its versions stand for the times of its data.  *)
(* Event texts, attempt numbers and the length of the backoff are left     *)
(* out; "resubscribed" is part of every "connected" but the first.         *)
(***************************************************************************)
EXTENDS Integers, Sequences

CONSTANTS Channels,
          Books,            \* channels reconciled from snapshots; {} if none
          Requests,         \* replayed on every connection; 0: server stream
          MaxBuffer,        \* Runner.MaxReconcileBuffer
          Stamps,           \* whether broker data carries its time
          PushOnSubscribe,  \* the broker pushes a book once it is subscribed to
          MaxVersion,       \* bound: changes of a channel
          MaxFaults         \* bound: things that go wrong

ASSUME StreamAssumption ==
    /\ Books \subseteq Channels
    /\ Requests \in Nat
    /\ MaxBuffer \in Nat \ {0}
    /\ Stamps \subseteq BOOLEAN
    /\ PushOnSubscribe \in BOOLEAN
    /\ MaxVersion \in Nat \ {0}
    /\ MaxFaults \in Nat

VARIABLES
    cancelled,   \* SIGINT or SIGTERM cancelled the context
    writer,      \* stdout takes events: "ok", "broken"
    faults,      \* things that went wrong
    pc,          \* where Run is
    then,        \* why it stops the session
    sends,       \* requests replayed on this session
    link,        \* the session: "none", "up", "silent", "lost", "fatal"
    served,      \* channels whose subscription the broker works on
    pipe,        \* frames between the broker and the select
    version,     \* Channels -> the broker's current version
    task,        \* the reconcile goroutine and its result
    todo,        \* books it has no snapshot of yet
    got,         \* the snapshot it is about to write
    marks,       \* Books -> the cutoffs it collects
    reconciling, \* frames of books are buffered
    buffered,    \* Runner.receive: buffered
    cutoff,      \* Books -> orderBookCutoffs, missingCutoffs
    feed,        \* what the reader knows of the connection
    view,        \* Channels -> the last version the reader was shown
    pushed       \* Channels -> versions pushed on this session

session  == <<link, served, pipe, pushed>>
taskVars == <<task, todo, got, marks>>
bookVars == <<reconciling, buffered, cutoff>>
vars     == <<cancelled, writer, faults, pc, then, sends, session, version,
              taskVars, bookVars, feed, view>>

Versions == 0..MaxVersion
Frame    == [chan : Channels, ver : Versions, stamped : BOOLEAN]
Nothing  == [chan |-> "none", ver |-> 0, stamped |-> FALSE]

(* A book's cutoff: the time of its snapshot, or the snapshot had none, or *)
(* there is no entry.                                                      *)
Missing == -1
Absent  == -2
Cutoffs == Versions \cup {Missing, Absent}

Reasons == {"shutdown", "lost", "fatal", "watchdog", "overflow", "error"}

TypeOK ==
    /\ cancelled \in BOOLEAN
    /\ writer \in {"ok", "broken"}
    /\ faults \in 0..MaxFaults
    /\ pc \in {"loop", "open", "replay", "receive", "flush", "stop", "wait",
               "returned"}
    /\ then \in Reasons \cup {"none"}
    /\ sends \in 0..Requests
    /\ link \in {"none", "up", "silent", "lost", "fatal"}
    /\ served \subseteq Channels
    /\ pipe \in Seq(Frame)
    /\ version \in [Channels -> Versions]
    /\ task \in {"none", "read", "write", "done", "failed", "denied"}
    /\ todo \subseteq Books
    /\ got \in Frame \cup {Nothing}
    /\ marks \in [Books -> Cutoffs]
    /\ reconciling \in BOOLEAN
    /\ buffered \in Seq(Frame) /\ Len(buffered) <= MaxBuffer
    /\ cutoff \in [Books -> Cutoffs]
    /\ feed \in {"down", "up", "over"}
    /\ view \in [Channels -> Versions]
    /\ pushed \in [Channels -> SUBSET Versions]

Init ==
    /\ cancelled = FALSE
    /\ writer = "ok"
    /\ faults = 0
    /\ pc = "loop"
    /\ then = "none"
    /\ sends = 0
    /\ link = "none"
    /\ served = {}
    /\ pipe = <<>>
    /\ version = [c \in Channels |-> 1]
    /\ task = "none"
    /\ todo = {}
    /\ got = Nothing
    /\ marks = [b \in Books |-> Absent]
    /\ reconciling = FALSE
    /\ buffered = <<>>
    /\ cutoff = [b \in Books |-> Absent]
    /\ feed = "down"
    /\ view = [c \in Channels |-> 0]
    /\ pushed = [c \in Channels |-> {}]

-----------------------------------------------------------------------------
(* Run: the connection loop.                                               *)

Fault == faults < MaxFaults /\ faults' = faults + 1

(* Run returns: with nil after the final event, or with an error, which    *)
(* runStream reports as the last event.                                    *)
Return ==
    /\ pc' = "returned"
    /\ feed' = "over"

(* A disconnected event, then the backoff; a writer that fails ends Run.   *)
Disconnected ==
    IF writer = "ok"
    THEN pc' = "wait" /\ feed' = "down"
    ELSE Return

(* The top of the loop: the replay list is taken from the registry.        *)
Loop ==
    /\ pc = "loop"
    /\ IF cancelled THEN Return ELSE pc' = "open" /\ UNCHANGED feed
    /\ UNCHANGED <<cancelled, writer, faults, then, sends, session, version, taskVars,
                   bookVars, view>>

Open ==
    /\ pc = "open"
    /\ pc' = "replay"
    /\ link' = "up"
    /\ sends' = 0
    /\ UNCHANGED <<cancelled, writer, faults, then, served, pipe, pushed, version, taskVars,
                   bookVars, feed, view>>

OpenFails ==
    /\ pc = "open"
    /\ Fault \/ (cancelled /\ UNCHANGED faults)
    /\ Disconnected \/ Return
    /\ UNCHANGED <<cancelled, writer, then, sends, session, version, taskVars, bookVars, view>>

(* cancel and CloseSend: the transport drops what is under way.            *)
CloseSession ==
    /\ link' = "none"
    /\ served' = {}
    /\ pipe' = <<>>
    /\ pushed' = [c \in Channels |-> {}]

(* replayLimiter.waitN, then Send; waitN gives up when cancelled.          *)
Replay ==
    /\ pc = "replay"
    /\ sends < Requests
    /\ sends' = sends + 1
    /\ UNCHANGED <<cancelled, writer, faults, pc, then, session, version, taskVars, bookVars,
                   feed, view>>

ReplayCancelled ==
    /\ pc = "replay"
    /\ sends < Requests
    /\ cancelled
    /\ CloseSession
    /\ Return
    /\ UNCHANGED <<cancelled, writer, faults, then, sends, version, taskVars, bookVars, view>>

SendFails ==
    /\ pc = "replay"
    /\ sends < Requests
    /\ Fault \/ (link # "up" /\ UNCHANGED faults)
    /\ CloseSession
    /\ Disconnected \/ Return
    /\ UNCHANGED <<cancelled, writer, then, sends, version, taskVars, bookVars, view>>

(* The connected event; then receive starts the reader and the reconcile   *)
(* goroutine.                                                              *)
Connected ==
    /\ pc = "replay"
    /\ sends = Requests
    /\ IF writer = "broken" \/ cancelled
       THEN /\ CloseSession
            /\ Return
            /\ UNCHANGED <<taskVars, bookVars>>
       ELSE /\ feed' = "up"
            /\ pc' = "receive"
            /\ task' = IF Books = {} THEN "none" ELSE "read"
            /\ todo' = Books
            /\ marks' = [b \in Books |-> Absent]
            /\ reconciling' = (Books # {})
            /\ buffered' = <<>>
            /\ UNCHANGED <<session, got, cutoff>>
    /\ UNCHANGED <<cancelled, writer, faults, then, sends, version, view>>

Wait ==
    /\ pc = "wait"
    /\ IF cancelled THEN Return ELSE pc' = "loop" /\ UNCHANGED feed
    /\ UNCHANGED <<cancelled, writer, faults, then, sends, session, version, taskVars,
                   bookVars, view>>

-----------------------------------------------------------------------------
(* receive: the select.                                                    *)

(* stop(): it waits for the reconcile goroutine, see Stopped.              *)
Stop(reason) ==
    /\ pc' = "stop"
    /\ then' = reason
    /\ CloseSession

(* Mutant: a cancelled context is looked at when a frame arrives.          *)
StopCancelledOnFrame ==
    /\ pc \in {"receive", "flush"}
    /\ cancelled /\ pipe # <<>>
    /\ Stop("shutdown")
    /\ UNCHANGED <<cancelled, writer, faults, sends, version, taskVars, bookVars, feed, view>>

StopCancelled ==
    /\ pc \in {"receive", "flush"}
    /\ cancelled
    /\ Stop("shutdown")
    /\ UNCHANGED <<cancelled, writer, faults, sends, version, taskVars, bookVars, feed, view>>

(* keepOrderBookFrameAfterSnapshot.                                        *)
Keep(f) ==
    f.chan \in Books =>
        \/ cutoff[f.chan] \in {Missing, Absent}
        \/ f.stamped /\ f.ver > cutoff[f.chan]

(* A live frame without a time is dropped once and takes the cutoff along. *)
CutoffAfter(f) ==
    IF f.chan \in Books /\ ~f.stamped /\ cutoff[f.chan] # Missing
    THEN [cutoff EXCEPT ![f.chan] = Absent]
    ELSE cutoff

(* OnMessage writes the frame if it is kept; a writer that fails ends Run. *)
Deliver(f, keep) ==
    /\ keep => writer = "ok"
    /\ view' = IF keep THEN [view EXCEPT ![f.chan] = f.ver] ELSE view
    /\ UNCHANGED <<pc, then, link, served, pushed>>

DeliverFails(keep) ==
    /\ writer = "broken" /\ keep
    /\ Stop("error")
    /\ UNCHANGED view

Live(f) == ~(reconciling /\ f.chan \in Books)

TakeFrame ==
    /\ pc = "receive"
    /\ pipe # <<>>
    /\ LET f == Head(pipe)
           keep == reconciling \/ Keep(f)
       IN  /\ Live(f)
           /\ \/ Deliver(f, keep) /\ pipe' = Tail(pipe)
              \/ DeliverFails(keep)
           /\ cutoff' = IF reconciling THEN cutoff ELSE CutoffAfter(f)
    /\ UNCHANGED <<cancelled, writer, faults, sends, version, taskVars, reconciling, buffered,
                   feed>>

(* Mutants: the buffer has no limit; a full one drops the frame silently.  *)
TakeForBuffer(room) ==
    /\ pc = "receive"
    /\ pipe # <<>>
    /\ ~Live(Head(pipe))
    /\ buffered' = IF room THEN Append(buffered, Head(pipe)) ELSE buffered
    /\ pipe' = Tail(pipe)
    /\ UNCHANGED <<cancelled, writer, faults, pc, then, sends, link, served, pushed, version,
                   taskVars, reconciling, cutoff, feed, view>>

BufferFrameUnbounded == TakeForBuffer(TRUE)
BufferFrameOrDrop == TakeForBuffer(Len(buffered) < MaxBuffer)

(* A book's frame waits for the snapshot; one too many ends the session.   *)
BufferFrame ==
    /\ pc = "receive"
    /\ pipe # <<>>
    /\ ~Live(Head(pipe))
    /\ \/ /\ Len(buffered) < MaxBuffer
          /\ buffered' = Append(buffered, Head(pipe))
          /\ pipe' = Tail(pipe)
          /\ UNCHANGED <<pc, then, link, served, pushed>>
       \/ /\ Len(buffered) >= MaxBuffer
          /\ Stop("overflow")
          /\ UNCHANGED buffered
    /\ UNCHANGED <<cancelled, writer, faults, sends, version, taskVars, reconciling, cutoff,
                   feed, view>>

TakeError ==
    /\ pc = "receive"
    /\ pipe = <<>>
    /\ link \in {"lost", "fatal"}
    /\ Stop(link)
    /\ UNCHANGED <<cancelled, writer, faults, sends, version, taskVars, bookVars, feed, view>>

(* No data or ping for the watchdog's time; or the reader of stdout held   *)
(* the select up for that long.                                            *)
Watchdog ==
    /\ pc = "receive"
    /\ Fault \/ (link = "silent" /\ UNCHANGED faults)
    /\ Stop("watchdog")
    /\ UNCHANGED <<cancelled, writer, sends, version, taskVars, bookVars, feed, view>>

TakeReconciled ==
    /\ pc = "receive"
    /\ task = "done"
    /\ task' = "none"
    /\ reconciling' = FALSE
    /\ IF cancelled THEN Stop("shutdown") ELSE pc' = "flush" /\ UNCHANGED <<then, session>>
    /\ UNCHANGED <<cancelled, writer, faults, sends, version, todo, got, marks, buffered,
                   cutoff, feed, view>>

TakeReconcileError ==
    /\ pc = "receive"
    /\ task \in {"failed", "denied"}
    /\ task' = "none"
    /\ reconciling' = FALSE
    /\ Stop(IF task = "failed" THEN "lost" ELSE "fatal")
    /\ UNCHANGED <<cancelled, writer, faults, sends, version, todo, got, marks, buffered,
                   cutoff, feed, view>>

(* The buffered frames newer than the snapshot, in order.                  *)
Flush ==
    /\ pc = "flush"
    /\ buffered # <<>>
    /\ LET f == Head(buffered) IN
       \/ Deliver(f, Keep(f)) /\ buffered' = Tail(buffered) /\ UNCHANGED pipe
       \/ DeliverFails(Keep(f)) /\ UNCHANGED buffered
    /\ UNCHANGED <<cancelled, writer, faults, sends, version, taskVars, reconciling, cutoff,
                   feed>>

(* Mutant: buffered frames are dropped once the snapshots are written.     *)
FlushedUnseen ==
    /\ pc = "flush"
    /\ buffered' = <<>>
    /\ pc' = "receive"
    /\ UNCHANGED <<cancelled, writer, faults, then, sends, session, version, taskVars,
                   reconciling, cutoff, feed, view>>

Flushed ==
    /\ pc = "flush"
    /\ buffered = <<>>
    /\ pc' = "receive"
    /\ UNCHANGED <<cancelled, writer, faults, then, sends, session, version, taskVars,
                   bookVars, feed, view>>

(* Mutant: stop does not wait for the goroutine.                           *)
StoppedAtOnce ==
    /\ pc = "stop"
    /\ then' = "none"
    /\ IF then \in {"shutdown", "error", "fatal"} \/ (then = "lost" /\ cancelled)
       THEN Return ELSE Disconnected
    /\ reconciling' = FALSE
    /\ buffered' = <<>>
    /\ UNCHANGED <<cancelled, writer, faults, sends, session, version, taskVars, cutoff, view>>

(* The goroutine is gone; now the events, and on with Run.                 *)
Stopped ==
    /\ pc = "stop"
    /\ task \in {"none", "done", "failed", "denied"}
    /\ task' = "none"
    /\ then' = "none"
    /\ IF then \in {"shutdown", "error", "fatal"} \/ (then = "lost" /\ cancelled)
       THEN Return
       ELSE Disconnected
    /\ reconciling' = FALSE
    /\ buffered' = <<>>
    /\ UNCHANGED <<cancelled, writer, faults, sends, session, version, todo, got, marks,
                   cutoff, view>>

-----------------------------------------------------------------------------
(* The reconcile goroutine: a unary snapshot per book, each written.       *)

SnapshotRead(b) ==
    /\ task = "read"
    /\ b \in todo
    /\ \E s \in Stamps : got' = [chan |-> b, ver |-> version[b], stamped |-> s]
    /\ task' = "write"
    /\ UNCHANGED <<cancelled, writer, faults, pc, then, sends, session, version, todo, marks,
                   bookVars, feed, view>>

SnapshotFails ==
    /\ task = "read"
    /\ Fault \/ ((cancelled \/ pc = "stop") /\ UNCHANGED faults)
    /\ task' \in {"failed", "denied"}
    /\ UNCHANGED <<cancelled, writer, pc, then, sends, session, version, todo, got, marks,
                   bookVars, feed, view>>

SnapshotWrite ==
    /\ task = "write"
    /\ got' = Nothing
    /\ IF writer = "broken"
       THEN task' = "failed" /\ UNCHANGED <<todo, marks, cutoff, view>>
       ELSE /\ view' = [view EXCEPT ![got.chan] = got.ver]
            /\ todo' = todo \ {got.chan}
            /\ marks' = [marks EXCEPT ![got.chan] =
                           IF got.stamped THEN got.ver ELSE Missing]
            /\ IF todo' = {}
               THEN task' = "done" /\ cutoff' = marks'
               ELSE task' = "read" /\ UNCHANGED cutoff
    /\ UNCHANGED <<cancelled, writer, faults, pc, then, sends, session, version, reconciling,
                   buffered, feed>>

-----------------------------------------------------------------------------
(* The broker and the outside world.                                       *)

Push(c) ==
    \E s \in Stamps :
        /\ pipe' = Append(pipe, [chan |-> c, ver |-> version'[c], stamped |-> s])
        /\ pushed' = [pushed EXCEPT ![c] = @ \cup {version'[c]}]

(* The broker starts to work on a subscription some time after it was sent. *)
Serve(c) ==
    /\ link = "up"
    /\ c \notin served
    /\ sends > 0 \/ Requests = 0
    /\ served' = served \cup {c}
    /\ UNCHANGED version
    /\ IF PushOnSubscribe /\ c \in Books THEN Push(c) ELSE UNCHANGED <<pipe, pushed>>
    /\ UNCHANGED <<cancelled, writer, faults, pc, then, sends, link, taskVars, bookVars,
                   feed, view>>

Change(c) ==
    /\ version[c] < MaxVersion
    /\ version' = [version EXCEPT ![c] = @ + 1]
    /\ IF c \in served /\ link = "up" THEN Push(c) ELSE UNCHANGED <<pipe, pushed>>
    /\ UNCHANGED <<cancelled, writer, faults, pc, then, sends, link, served, taskVars,
                   bookVars, feed, view>>

(* The stream ends with an error, or falls silent; frames under way may    *)
(* not arrive.                                                             *)
Break ==
    /\ link = "up"
    /\ Fault
    /\ link' \in {"lost", "fatal", "silent"}
    /\ \E n \in 0..Len(pipe) : pipe' = SubSeq(pipe, 1, n)
    /\ UNCHANGED <<cancelled, writer, pc, then, sends, served, pushed, version, taskVars,
                   bookVars, feed, view>>

WriterBreaks ==
    /\ writer = "ok"
    /\ Fault
    /\ writer' = "broken"
    /\ UNCHANGED <<cancelled, pc, then, sends, session, version, taskVars, bookVars, feed,
                   view>>

Cancel ==
    /\ ~cancelled
    /\ cancelled' = TRUE
    /\ UNCHANGED <<writer, faults, pc, then, sends, session, version, taskVars, bookVars,
                   feed, view>>

-----------------------------------------------------------------------------
Reconcile == (\E b \in Books : SnapshotRead(b)) \/ SnapshotFails \/ SnapshotWrite

Run ==
    \/ Loop \/ Open \/ OpenFails \/ Replay \/ ReplayCancelled \/ SendFails \/ Connected \/ Wait
    \/ StopCancelled \/ TakeFrame \/ BufferFrame \/ TakeError \/ Watchdog
    \/ TakeReconciled \/ TakeReconcileError \/ Flush \/ Flushed \/ Stopped

Broker == \E c \in Channels : Serve(c) \/ Change(c)

Next == Run \/ Reconcile \/ Broker \/ Break \/ WriterBreaks \/ Cancel

Spec == Init /\ [][Next]_vars

(* The runner and its goroutine run on; an open stream is served; a silent *)
(* one meets the watchdog; a snapshot call comes back.                     *)
Fairness ==
    /\ WF_vars(Run)
    /\ WF_vars(Reconcile)
    /\ \A c \in Channels : WF_vars(Serve(c))

FairSpec == Spec /\ Fairness

-----------------------------------------------------------------------------
(* Properties.                                                             *)

(* A frame with version v of channel c is in queue q.                      *)
Under(q, c, v) == \E i \in DOMAIN q : q[i].chan = c /\ q[i].ver = v

(* While the reader believes the connection is up and it is, everything    *)
(* the broker pushed on it that is newer than what the reader was shown is *)
(* still on its way: no frame is lost between buffer, filter and snapshot  *)
(* without a disconnected event.                                           *)
NoSilentGap ==
    pc \in {"receive", "flush"} /\ link = "up" =>
        \A c \in Channels : \A v \in pushed[c] :
            v > view[c] => Under(pipe, c, v) \/ Under(buffered, c, v)

(* The output keeps the promise of StreamFeed: data and snapshots only     *)
(* between connected and disconnected, never an older version after a      *)
(* newer one, nothing after the final event.                               *)
Feed == INSTANCE StreamFeed

KeepsFeed == Feed!FeedSpec

(* Once cancelled, Run returns, whatever hangs at that moment.             *)
ShutdownEnds == cancelled ~> pc = "returned"

(* When faults and changes are over, the reader has the current books,     *)
(* however many connections, snapshots and overflows it took.              *)
BooksFresh == <>[](pc = "returned" \/ \A b \in Books : view[b] = version[b])
=============================================================================
