------------------------- MODULE StreamRunnerProofs -------------------------
(***************************************************************************)
(* For any channels, books, requests and buffer: StreamRunner is well      *)
(* typed, and when all broker data carries its time it loses no frame      *)
(* silently and implements StreamFeed.                                     *)
(*                                                                         *)
(* Frames of a channel travel in the order of their versions (OrderInv).   *)
(* While snapshots are under way a book is shown by them alone             *)
(* (SnapshotInv), so that when they are done each cutoff is what the       *)
(* reader was shown of the book; from then on a frame the filter drops is  *)
(* no news, and one it keeps is not older than what was shown (ShowInv).   *)
(***************************************************************************)
EXTENDS StreamRunner, SequenceTheorems, TLAPS

(* All broker data carries its time.                                       *)
Timed == Stamps \subseteq {TRUE}

InQueue(q) == {q[i] : i \in DOMAIN q}
Pending    == InQueue(pipe) \cup InQueue(buffered)

(* Snapshots are written and the filter decides about books.               *)
Filtering == pc \in {"receive", "flush"} /\ ~reconciling

-----------------------------------------------------------------------------
(* The inductive invariant.                                                *)

PlaceInv ==
    /\ feed = CASE pc \in {"loop", "open", "replay", "wait"} -> "down"
                [] pc \in {"receive", "flush", "stop"} -> "up"
                [] OTHER -> "over"
    /\ task # "none" => pc \in {"receive", "stop"}
    /\ reconciling <=> task # "none"
    /\ buffered # <<>> => reconciling \/ pc \in {"flush", "stop"}
    /\ pc \notin {"replay", "receive", "flush"} => link = "none"
    /\ link = "none" => pushed = [c \in Channels |-> {}]

StampInv ==
    /\ \A f \in Pending : f.stamped
    /\ \A f \in InQueue(buffered) : f.chan \in Books
    /\ task = "write" => got.stamped

OlderFirst(q) ==
    \A i, j \in DOMAIN q : i < j /\ q[i].chan = q[j].chan => q[i].ver <= q[j].ver

OrderInv ==
    /\ OlderFirst(pipe)
    /\ OlderFirst(buffered)
    /\ \A f \in InQueue(buffered), g \in InQueue(pipe) : f.chan = g.chan => f.ver <= g.ver
    /\ \A f \in Pending : f.ver <= version[f.chan]
    /\ \A c \in Channels : view[c] <= version[c]

SnapshotInv ==
    /\ task = "write" => /\ got.chan \in todo
                         /\ got \in Frame
                         /\ view[got.chan] <= got.ver
                         /\ got.ver <= version[got.chan]
    /\ task \in {"read", "write"} => \A b \in Books \ todo : marks[b] = view[b]
    /\ task = "done" => \A b \in Books : cutoff[b] = view[b]

ShowInv ==
    /\ \A f \in Pending :
         /\ f.chan \notin Books => f.ver >= view[f.chan]
         /\ f.chan \in Books /\ Filtering =>
              f.ver >= view[f.chan] \/ f.ver <= cutoff[f.chan]
    /\ Filtering => \A b \in Books : cutoff[b] \in Versions /\ cutoff[b] <= view[b]

GapInv ==
    link = "up" => \A c \in Channels : \A v \in pushed[c] :
                     v > view[c] => Under(pipe, c, v) \/ Under(buffered, c, v)

NewsInv == StampInv /\ OrderInv /\ SnapshotInv /\ ShowInv /\ GapInv

IInv == TypeOK /\ PlaceInv /\ NewsInv

-----------------------------------------------------------------------------
(* Types.                                                                  *)

(* What CloseSession and the ends of a connection leave is typed.          *)
LEMMA CloseTyped ==
    ASSUME CloseSession
    PROVE  /\ link' = "none" /\ served' = {} /\ pipe' = <<>>
           /\ pipe' \in Seq(Frame)
           /\ pushed' = [c \in Channels |-> {}]
           /\ pushed' \in [Channels -> SUBSET Versions]
BY DEF CloseSession

(* What the broker pushes is a frame with the current version.             *)
LEMMA PushTyped ==
    ASSUME NEW c \in Channels, Push(c), TypeOK, version' \in [Channels -> Versions]
    PROVE  /\ pipe' \in Seq(Frame)
           /\ pushed' \in [Channels -> SUBSET Versions]
BY StreamAssumption DEF StreamAssumption, Push, TypeOK, Frame

LEMMA NoFrames == <<>> \in Seq(Frame) /\ Len(<<>>) = 0
BY EmptySeq

LEMMA InitTypeOK == Init => TypeOK
  <1> SUFFICES ASSUME Init PROVE TypeOK
    OBVIOUS
  <1> USE StreamAssumption DEF StreamAssumption, Init
  <1>1. pipe \in Seq(Frame) /\ buffered \in Seq(Frame) /\ Len(buffered) <= MaxBuffer
    BY NoFrames
  <1>2. /\ version \in [Channels -> Versions]
        /\ view \in [Channels -> Versions]
        /\ pushed \in [Channels -> SUBSET Versions]
    BY DEF Versions
  <1>3. marks \in [Books -> Cutoffs] /\ cutoff \in [Books -> Cutoffs]
    BY DEF Cutoffs
  <1>4. faults \in 0..MaxFaults /\ sends \in 0..Requests
    OBVIOUS
  <1>5. then \in Reasons \cup {"none"} /\ got \in Frame \cup {Nothing}
    OBVIOUS
  <1> QED BY <1>1, <1>2, <1>3, <1>4, <1>5 DEF TypeOK

(* The connection loop keeps the types.                                    *)
LEMMA LoopTypeOK ==
    ASSUME TypeOK,
           Loop \/ Open \/ OpenFails \/ Replay \/ ReplayCancelled \/ SendFails
             \/ Connected \/ Wait
    PROVE  TypeOK'
  <1> USE StreamAssumption DEF StreamAssumption, TypeOK, session, taskVars, bookVars
  <1>1. CASE Loop
    BY <1>1 DEF Loop, Return
  <1>2. CASE Open
    BY <1>2 DEF Open
  <1>3. CASE OpenFails
    BY <1>3 DEF OpenFails, Fault, Disconnected, Return
  <1>4. CASE Replay
    BY <1>4 DEF Replay
  <1>5. CASE ReplayCancelled
    BY <1>5, CloseTyped DEF ReplayCancelled, Return
  <1>6. CASE SendFails
    BY <1>6, CloseTyped DEF SendFails, Fault, Disconnected, Return
  <1>7. CASE Connected
    <2>1. CASE writer = "broken" \/ cancelled
      BY <1>7, <2>1, CloseTyped DEF Connected, Return
    <2>2. CASE ~(writer = "broken" \/ cancelled)
      BY <1>7, <2>2 DEF Connected, Cutoffs
    <2> QED BY <2>1, <2>2
  <1>8. CASE Wait
    BY <1>8 DEF Wait, Return
  <1> QED BY <1>1, <1>2, <1>3, <1>4, <1>5, <1>6, <1>7, <1>8

(* So does the select.                                                     *)
LEMMA SelectTypeOK ==
    ASSUME TypeOK,
           StopCancelled \/ TakeFrame \/ BufferFrame \/ TakeError \/ Watchdog
             \/ TakeReconciled \/ TakeReconcileError \/ Flush \/ Flushed \/ Stopped
    PROVE  TypeOK'
  <1> USE StreamAssumption DEF StreamAssumption, TypeOK, session, taskVars, bookVars
  <1>1. CASE StopCancelled
    BY <1>1, CloseTyped DEF StopCancelled, Stop, Reasons
  <1>2. CASE TakeFrame
    <2> DEFINE f == Head(pipe)
    <2>1. f \in Frame /\ Tail(pipe) \in Seq(Frame)
      BY <1>2 DEF TakeFrame
    <2>2. cutoff' \in [Books -> Cutoffs]
      BY <1>2 DEF TakeFrame, CutoffAfter, Cutoffs
    <2>3. CASE Deliver(f, reconciling \/ Keep(f)) /\ pipe' = Tail(pipe)
      <3>1. view' \in [Channels -> Versions]
        BY <2>1, <2>3 DEF Deliver, Frame
      <3>2. UNCHANGED <<pc, then, link, served, pushed>>
        BY <2>3 DEF Deliver
      <3> QED BY <1>2, <2>1, <2>2, <2>3, <3>1, <3>2 DEF TakeFrame
    <2>4. CASE DeliverFails(reconciling \/ Keep(f))
      BY <1>2, <2>2, <2>4, CloseTyped DEF TakeFrame, DeliverFails, Stop, Reasons
    <2> QED BY <1>2, <2>3, <2>4 DEF TakeFrame
  <1>3. CASE BufferFrame
    <2>1. Head(pipe) \in Frame /\ Tail(pipe) \in Seq(Frame)
      BY <1>3 DEF BufferFrame
    <2>2. Append(buffered, Head(pipe)) \in Seq(Frame)
          /\ Len(Append(buffered, Head(pipe))) = Len(buffered) + 1
          /\ Len(buffered) \in Nat
      BY <2>1
    <2>3. CASE Len(buffered) < MaxBuffer
      <3>1. Len(buffered) + 1 <= MaxBuffer
        BY <2>2, <2>3
      <3>2. /\ buffered' = Append(buffered, Head(pipe)) /\ pipe' = Tail(pipe)
            /\ UNCHANGED <<cancelled, writer, faults, sends, version, taskVars, reconciling,
                           cutoff, feed, view, pc, then, link, served, pushed>>
        BY <1>3, <2>2, <2>3 DEF BufferFrame
      <3> QED BY <2>1, <2>2, <3>1, <3>2
    <2>4. CASE Len(buffered) >= MaxBuffer
      BY <1>3, <2>2, <2>4, CloseTyped DEF BufferFrame, Stop, Reasons
    <2> QED BY <2>2, <2>3, <2>4
  <1>4. CASE TakeError
    BY <1>4, CloseTyped DEF TakeError, Stop, Reasons
  <1>5. CASE Watchdog
    BY <1>5, CloseTyped DEF Watchdog, Stop, Reasons, Fault
  <1>6. CASE TakeReconciled
    BY <1>6, CloseTyped DEF TakeReconciled, Stop, Reasons
  <1>7. CASE TakeReconcileError
    BY <1>7, CloseTyped DEF TakeReconcileError, Stop, Reasons
  <1>8. CASE Flush
    <2> DEFINE f == Head(buffered)
    <2>1. f \in Frame /\ Tail(buffered) \in Seq(Frame) /\ Len(Tail(buffered)) <= MaxBuffer
      BY <1>8, HeadTailProperties DEF Flush
    <2>2. CASE Deliver(f, Keep(f)) /\ buffered' = Tail(buffered) /\ UNCHANGED pipe
      <3>1. view' \in [Channels -> Versions]
        BY <2>1, <2>2 DEF Deliver, Frame
      <3>2. UNCHANGED <<pc, then, link, served, pushed>>
        BY <2>2 DEF Deliver
      <3> QED BY <1>8, <2>1, <2>2, <3>1, <3>2 DEF Flush
    <2>3. CASE DeliverFails(Keep(f)) /\ UNCHANGED buffered
      BY <1>8, <2>3, CloseTyped DEF Flush, DeliverFails, Stop, Reasons
    <2> QED BY <1>8, <2>2, <2>3 DEF Flush
  <1>9. CASE Flushed
    BY <1>9 DEF Flushed
  <1>10. CASE Stopped
    <2>1. buffered' = <<>> /\ buffered' \in Seq(Frame) /\ Len(buffered') <= MaxBuffer
      BY <1>10, NoFrames DEF Stopped
    <2> QED BY <1>10, <2>1 DEF Stopped, Disconnected, Return
  <1> QED BY <1>1, <1>2, <1>3, <1>4, <1>5, <1>6, <1>7, <1>8, <1>9, <1>10

(* So do the reconcile goroutine, the broker and the outside world.        *)
LEMMA OutsideTypeOK ==
    ASSUME TypeOK, Reconcile \/ Broker \/ Break \/ WriterBreaks \/ Cancel
    PROVE  TypeOK'
  <1> USE StreamAssumption DEF StreamAssumption, TypeOK, session, taskVars, bookVars
  <1>1. CASE Reconcile
    <2>1. ASSUME NEW b \in Books, SnapshotRead(b) PROVE TypeOK'
      BY <2>1 DEF SnapshotRead, Frame
    <2>2. CASE SnapshotFails
      BY <2>2 DEF SnapshotFails, Fault
    <2>3. CASE SnapshotWrite
      <3>1. CASE writer = "broken"
        BY <2>3, <3>1 DEF SnapshotWrite
      <3>2. CASE writer # "broken"
        <4>1. got.ver \in Versions
          BY DEF Frame, Nothing, Versions
        <4>2. view' \in [Channels -> Versions]
          BY <2>3, <3>2, <4>1 DEF SnapshotWrite
        <4>3. marks' \in [Books -> Cutoffs]
          BY <2>3, <3>2, <4>1 DEF SnapshotWrite, Cutoffs
        <4> QED BY <2>3, <3>2, <4>2, <4>3 DEF SnapshotWrite
      <3> QED BY <3>1, <3>2
    <2> QED BY <1>1, <2>1, <2>2, <2>3 DEF Reconcile
  <1>2. ASSUME NEW c \in Channels, Serve(c) PROVE TypeOK'
    <2>1. version' \in [Channels -> Versions]
      BY <1>2 DEF Serve
    <2>2. pipe' \in Seq(Frame) /\ pushed' \in [Channels -> SUBSET Versions]
      BY <1>2, <2>1, PushTyped DEF Serve
    <2> QED BY <1>2, <2>1, <2>2 DEF Serve
  <1>3. ASSUME NEW c \in Channels, Change(c) PROVE TypeOK'
    <2>1. version' \in [Channels -> Versions]
      BY <1>3 DEF Change, Versions
    <2>2. pipe' \in Seq(Frame) /\ pushed' \in [Channels -> SUBSET Versions]
      BY <1>3, <2>1, PushTyped DEF Change
    <2> QED BY <1>3, <2>1, <2>2 DEF Change
  <1>4. CASE Break
    <2>1. \A n \in 0..Len(pipe) : SubSeq(pipe, 1, n) \in Seq(Frame)
      OBVIOUS
    <2> QED BY <1>4, <2>1 DEF Break, Fault
  <1>5. CASE WriterBreaks
    BY <1>5 DEF WriterBreaks, Fault
  <1>6. CASE Cancel
    BY <1>6 DEF Cancel
  <1> QED BY <1>1, <1>2, <1>3, <1>4, <1>5, <1>6 DEF Broker

LEMMA StepTypeOK == TypeOK /\ [Next]_vars => TypeOK'
  <1> SUFFICES ASSUME TypeOK, [Next]_vars PROVE TypeOK'
    OBVIOUS
  <1>1. CASE UNCHANGED vars
    BY <1>1 DEF vars, session, taskVars, bookVars, TypeOK
  <1> QED BY <1>1, LoopTypeOK, SelectTypeOK, OutsideTypeOK DEF Next, Run

(* Every reachable state is well typed: the reconcile buffer is never      *)
(* longer than MaxReconcileBuffer, whatever the broker sends.              *)
THEOREM TypeCorrect == Spec => []TypeOK
BY InitTypeOK, StepTypeOK, PTL DEF Spec

-----------------------------------------------------------------------------
(* Queues of frames.                                                       *)

LEMMA EmptyQueue == InQueue(<<>>) = {} /\ OlderFirst(<<>>)
BY DEF InQueue, OlderFirst

LEMMA UnderIsInQueue ==
    ASSUME NEW q, NEW c, NEW v
    PROVE  Under(q, c, v) <=> \E f \in InQueue(q) : f.chan = c /\ f.ver = v
BY DEF Under, InQueue

(* A frame behind all the others of its channel.                           *)
LEMMA AppendQueue ==
    ASSUME NEW q \in Seq(Frame), NEW f \in Frame
    PROVE  /\ InQueue(Append(q, f)) = InQueue(q) \cup {f}
           /\ OlderFirst(q) /\ (\A g \in InQueue(q) : g.chan = f.chan => g.ver <= f.ver)
                => OlderFirst(Append(q, f))
  <1> DEFINE r == Append(q, f)
  <1>1. /\ Len(q) \in Nat /\ DOMAIN q = 1..Len(q) /\ DOMAIN r = 1..(Len(q) + 1)
        /\ \A i \in 1..Len(q) : r[i] = q[i]
        /\ r[Len(q) + 1] = f
        /\ \A i \in 1..Len(q) : q[i] \in Frame
    BY AppendProperties, LenProperties, ElementOfSeq
  <1>2. InQueue(r) = InQueue(q) \cup {f}
    BY <1>1 DEF InQueue
  <1>3. ASSUME OlderFirst(q), \A g \in InQueue(q) : g.chan = f.chan => g.ver <= f.ver,
               NEW i \in DOMAIN r, NEW j \in DOMAIN r, i < j, r[i].chan = r[j].chan
        PROVE  r[i].ver <= r[j].ver
    <2>1. i \in 1..Len(q)
      BY <1>1, <1>3
    <2>2. CASE j \in 1..Len(q)
      BY <1>1, <1>3, <2>1, <2>2 DEF OlderFirst
    <2>3. CASE j = Len(q) + 1
      BY <1>1, <1>3, <2>1, <2>3 DEF InQueue
    <2> QED BY <1>1, <2>2, <2>3
  <1> QED BY <1>2, <1>3 DEF OlderFirst

(* The head taken: the rest of its channel is not older.                   *)
LEMMA TailQueue ==
    ASSUME NEW q \in Seq(Frame), q # <<>>
    PROVE  /\ Head(q) \in Frame /\ Tail(q) \in Seq(Frame)
           /\ InQueue(q) = {Head(q)} \cup InQueue(Tail(q))
           /\ OlderFirst(q) =>
                /\ OlderFirst(Tail(q))
                /\ \A g \in InQueue(Tail(q)) : g.chan = Head(q).chan => Head(q).ver <= g.ver
  <1> DEFINE r == Tail(q)
  <1>1. /\ Len(q) \in Nat \ {0} /\ DOMAIN q = 1..Len(q) /\ DOMAIN r = 1..(Len(q) - 1)
        /\ Head(q) = q[1] /\ Head(q) \in Frame /\ r \in Seq(Frame)
        /\ \A i \in 1..(Len(q) - 1) : r[i] = q[i + 1]
    BY HeadTailProperties, LenProperties, EmptySeq
  <1>2. InQueue(q) = {q[1]} \cup InQueue(r)
    <2>1. ASSUME NEW i \in DOMAIN q PROVE q[i] \in {q[1]} \cup InQueue(r)
      <3>1. CASE i = 1
        BY <3>1
      <3>2. CASE i # 1
        <4>1. i - 1 \in 1..(Len(q) - 1) /\ (i - 1) + 1 = i
          BY <1>1, <3>2
        <4>2. r[i - 1] = q[i] /\ i - 1 \in DOMAIN r
          BY <1>1, <4>1
        <4> QED BY <4>2 DEF InQueue
      <3> QED BY <3>1, <3>2
    <2>2. ASSUME NEW i \in DOMAIN r PROVE r[i] \in InQueue(q)
      BY <1>1 DEF InQueue
    <2>3. q[1] \in InQueue(q)
      BY <1>1 DEF InQueue
    <2> QED BY <2>1, <2>2, <2>3 DEF InQueue
  <1>3. ASSUME OlderFirst(q)
        PROVE  /\ OlderFirst(r)
               /\ \A g \in InQueue(r) : g.chan = q[1].chan => q[1].ver <= g.ver
    <2>1. \A i, j \in 1..(Len(q) - 1) : i < j => i + 1 < j + 1 /\ i + 1 \in DOMAIN q
                                                /\ j + 1 \in DOMAIN q
      BY <1>1
    <2>2. OlderFirst(r)
      BY <1>1, <1>3, <2>1 DEF OlderFirst
    <2>3. \A i \in 1..(Len(q) - 1) : 1 < i + 1 /\ i + 1 \in DOMAIN q /\ 1 \in DOMAIN q
      BY <1>1
    <2> QED BY <1>1, <1>3, <2>2, <2>3 DEF OlderFirst, InQueue
  <1> QED BY <1>1, <1>2, <1>3

(* A queue cut short.                                                      *)
LEMMA CutQueue ==
    ASSUME NEW q \in Seq(Frame), NEW n \in 0..Len(q)
    PROVE  /\ InQueue(SubSeq(q, 1, n)) \subseteq InQueue(q)
           /\ OlderFirst(q) => OlderFirst(SubSeq(q, 1, n))
  <1> DEFINE r == SubSeq(q, 1, n)
  <1>1. /\ DOMAIN q = 1..Len(q) /\ DOMAIN r = 1..n /\ 1..n \subseteq 1..Len(q)
        /\ \A i \in 1..n : r[i] = q[i]
    OBVIOUS
  <1> QED BY <1>1 DEF InQueue, OlderFirst

-----------------------------------------------------------------------------
(* Where the runner is.                                                    *)

LEMMA InitPlaceInv == Init => PlaceInv
BY DEF Init, PlaceInv

LEMMA StepPlaceInv == TypeOK /\ PlaceInv /\ [Next]_vars => PlaceInv'
  <1> SUFFICES ASSUME TypeOK, PlaceInv, [Next]_vars PROVE PlaceInv'
    OBVIOUS
  <1> USE DEF PlaceInv, session, taskVars, bookVars
  <1>1. CASE Loop
    BY <1>1 DEF Loop, Return
  <1>2. CASE Open
    BY <1>2 DEF Open
  <1>3. CASE OpenFails
    BY <1>3 DEF OpenFails, Disconnected, Return
  <1>4. CASE Replay
    BY <1>4 DEF Replay
  <1>5. CASE ReplayCancelled
    BY <1>5 DEF ReplayCancelled, Return, CloseSession
  <1>6. CASE SendFails
    BY <1>6 DEF SendFails, Disconnected, Return, CloseSession
  <1>7. CASE Connected
    BY <1>7 DEF Connected, Return, CloseSession
  <1>8. CASE Wait
    BY <1>8 DEF Wait, Return
  <1>9. CASE StopCancelled
    BY <1>9 DEF StopCancelled, Stop, CloseSession
  <1>10. CASE TakeFrame
    BY <1>10 DEF TakeFrame, Deliver, DeliverFails, Stop, CloseSession
  <1>11. CASE BufferFrame
    <2>1. reconciling
      BY <1>11 DEF BufferFrame, Live
    <2> QED BY <1>11, <2>1 DEF BufferFrame, Stop, CloseSession
  <1>12. CASE TakeError
    BY <1>12 DEF TakeError, Stop, CloseSession
  <1>13. CASE Watchdog
    BY <1>13 DEF Watchdog, Stop, CloseSession
  <1>14. CASE TakeReconciled
    BY <1>14 DEF TakeReconciled, Stop, CloseSession
  <1>15. CASE TakeReconcileError
    BY <1>15 DEF TakeReconcileError, Stop, CloseSession
  <1>16. CASE Flush
    BY <1>16 DEF Flush, Deliver, DeliverFails, Stop, CloseSession
  <1>17. CASE Flushed
    BY <1>17 DEF Flushed
  <1>18. CASE Stopped
    BY <1>18 DEF Stopped, Disconnected, Return
  <1>19. CASE Reconcile
    BY <1>19 DEF Reconcile, SnapshotRead, SnapshotFails, SnapshotWrite
  <1>20. ASSUME NEW c \in Channels, Serve(c) \/ Change(c) PROVE PlaceInv'
    BY <1>20 DEF Serve, Change
  <1>21. CASE Break
    BY <1>21 DEF Break
  <1>22. CASE WriterBreaks \/ Cancel \/ UNCHANGED vars
    BY <1>22 DEF WriterBreaks, Cancel, vars
  <1> QED BY <1>1, <1>2, <1>3, <1>4, <1>5, <1>6, <1>7, <1>8, <1>9, <1>10, <1>11, <1>12, <1>13,
             <1>14, <1>15, <1>16, <1>17, <1>18, <1>19, <1>20, <1>21, <1>22
          DEF Next, Run, Broker

-----------------------------------------------------------------------------
(* Frames on their way.                                                    *)

LEMMA PendingFrames ==
    ASSUME TypeOK
    PROVE  /\ Pending \subseteq Frame
           /\ InQueue(pipe) \subseteq Frame /\ InQueue(buffered) \subseteq Frame
           /\ \A f \in Frame : f.chan \in Channels /\ f.ver \in Int
           /\ \A c \in Channels : view[c] \in Int /\ version[c] \in Int
  <1>1. ASSUME NEW q \in Seq(Frame) PROVE InQueue(q) \subseteq Frame
    BY ElementOfSeq, LenProperties DEF InQueue
  <1>2. InQueue(pipe) \subseteq Frame /\ InQueue(buffered) \subseteq Frame
    BY <1>1 DEF TypeOK
  <1> QED BY <1>2, StreamAssumption DEF TypeOK, Pending, Frame, Versions, StreamAssumption

LEMMA InitNewsInv == Init => NewsInv
  <1> SUFFICES ASSUME Init PROVE NewsInv
    OBVIOUS
  <1>1. Pending = {} /\ OlderFirst(pipe) /\ OlderFirst(buffered)
        /\ InQueue(buffered) = {}
    BY EmptyQueue DEF Init, Pending
  <1> QED BY <1>1 DEF Init, NewsInv, StampInv, OrderInv, SnapshotInv, ShowInv, GapInv, Filtering

(* A step that only drops frames, ends the session or leaves the frames    *)
(* alone.                                                                  *)
Dropping ==
    /\ InQueue(pipe') \subseteq InQueue(pipe) /\ OlderFirst(pipe)'
    /\ buffered' = buffered \/ buffered' = <<>>
    /\ UNCHANGED <<version, view, cutoff, marks, todo, got>>
    /\ task' = task \/ task' \in {"none", "failed", "denied"}
    /\ Filtering' => Filtering
    /\ \/ link' # "up"
       \/ pushed' = [c \in Channels |-> {}]
       \/ UNCHANGED <<link, pushed, pipe, buffered>>

LEMMA DroppingKeepsNews ==
    ASSUME TypeOK, NewsInv, Dropping
    PROVE  NewsInv'
  <1> USE DEF NewsInv, Dropping
  <1>1. InQueue(buffered') \subseteq InQueue(buffered) /\ OlderFirst(buffered)'
    BY EmptyQueue DEF OrderInv
  <1>2. Pending' \subseteq Pending
    BY <1>1 DEF Pending
  <1>3. StampInv'
    BY <1>1, <1>2 DEF StampInv
  <1>4. OrderInv'
    BY <1>1, <1>2 DEF OrderInv
  <1>5. SnapshotInv'
    BY DEF SnapshotInv
  <1>6. ShowInv'
    BY <1>2 DEF ShowInv
  <1>7. GapInv'
    BY DEF GapInv, Under
  <1> QED BY <1>3, <1>4, <1>5, <1>6, <1>7

LEMMA SameQueues ==
    ASSUME NewsInv, UNCHANGED pipe
    PROVE  InQueue(pipe') \subseteq InQueue(pipe) /\ OlderFirst(pipe)'
BY DEF NewsInv, OrderInv, OlderFirst

LEMMA ClosedQueues ==
    ASSUME CloseSession
    PROVE  InQueue(pipe') \subseteq InQueue(pipe) /\ OlderFirst(pipe)' /\ link' # "up"
BY EmptyQueue DEF CloseSession

(* The steps of the connection loop, but for a connection that begins.     *)
LEMMA LoopDrops ==
    ASSUME TypeOK, PlaceInv, NewsInv,
           \/ Loop \/ Open \/ OpenFails \/ Replay \/ ReplayCancelled \/ SendFails \/ Wait
           \/ Connected /\ feed' # "up"
    PROVE  Dropping
  <1> USE SameQueues, ClosedQueues DEF Dropping, Filtering, session, taskVars, bookVars
  <1>1. CASE Loop
    BY <1>1 DEF Loop, Return
  <1>2. CASE Open
    BY <1>2 DEF Open, PlaceInv
  <1>3. CASE OpenFails
    BY <1>3 DEF OpenFails, Disconnected, Return
  <1>4. CASE Replay
    BY <1>4 DEF Replay
  <1>5. CASE ReplayCancelled
    BY <1>5 DEF ReplayCancelled, Return
  <1>6. CASE SendFails
    BY <1>6 DEF SendFails, Disconnected, Return
  <1>7. CASE Wait
    BY <1>7 DEF Wait, Return
  <1>8. CASE Connected /\ feed' # "up"
    BY <1>8 DEF Connected, Return
  <1> QED BY <1>1, <1>2, <1>3, <1>4, <1>5, <1>6, <1>7, <1>8

(* A frame the broker stamped takes no cutoff along.                       *)
LEMMA StampedKeepsCutoff ==
    ASSUME NEW f, f.stamped
    PROVE  CutoffAfter(f) = cutoff
BY DEF CutoffAfter

(* The steps that end a session.                                           *)
LEMMA StopDrops ==
    ASSUME TypeOK, PlaceInv, NewsInv,
           \/ StopCancelled \/ TakeError \/ Watchdog \/ TakeReconcileError
           \/ Flushed \/ Stopped \/ Break \/ WriterBreaks \/ Cancel \/ SnapshotFails
           \/ (TakeFrame \/ BufferFrame \/ TakeReconciled \/ Flush) /\ pc' = "stop"
    PROVE  Dropping
  <1> USE SameQueues, ClosedQueues DEF Dropping, Filtering, session, taskVars, bookVars
  <1>1. CASE StopCancelled
    BY <1>1 DEF StopCancelled, Stop
  <1>2. CASE TakeError
    BY <1>2 DEF TakeError, Stop
  <1>3. CASE Watchdog
    BY <1>3 DEF Watchdog, Stop
  <1>4. CASE TakeReconcileError
    BY <1>4 DEF TakeReconcileError, Stop
  <1>5. CASE Flushed
    BY <1>5 DEF Flushed
  <1>6. CASE Stopped
    BY <1>6 DEF Stopped, Disconnected, Return, PlaceInv
  <1>7. CASE Break
    <2>1. PICK n \in 0..Len(pipe) : pipe' = SubSeq(pipe, 1, n)
      BY <1>7 DEF Break
    <2> QED BY <1>7, <2>1, CutQueue DEF Break, TypeOK, NewsInv, OrderInv
  <1>8. CASE WriterBreaks
    BY <1>8 DEF WriterBreaks
  <1>9. CASE Cancel
    BY <1>9 DEF Cancel
  <1>10. CASE SnapshotFails
    BY <1>10 DEF SnapshotFails
  <1>11. CASE TakeFrame /\ pc' = "stop"
    <2>1. Head(pipe).stamped /\ cutoff' = cutoff
      BY <1>11, TailQueue, StampedKeepsCutoff
      DEF TakeFrame, TypeOK, NewsInv, StampInv, Pending
    <2> QED BY <1>11, <2>1 DEF TakeFrame, Deliver, DeliverFails, Stop
  <1>12. CASE BufferFrame /\ pc' = "stop"
    BY <1>12 DEF BufferFrame, Stop
  <1>13. CASE TakeReconciled /\ pc' = "stop"
    BY <1>13 DEF TakeReconciled, Stop
  <1>14. CASE Flush /\ pc' = "stop"
    BY <1>14 DEF Flush, Deliver, DeliverFails, Stop
  <1> QED BY <1>1, <1>2, <1>3, <1>4, <1>5, <1>6, <1>7, <1>8, <1>9, <1>10, <1>11, <1>12,
             <1>13, <1>14

(* A connection begins: nothing is buffered, and books wait for snapshots. *)
LEMMA ConnectedNews ==
    ASSUME TypeOK, PlaceInv, NewsInv, Connected, feed' = "up"
    PROVE  NewsInv'
  <1>1. /\ pc = "replay" /\ pc' = "receive"
        /\ UNCHANGED <<pipe, link, pushed, version, view>>
        /\ task' \in {"none", "read"} /\ todo' = Books
        /\ reconciling' = (Books # {})
        /\ buffered' = <<>>
    BY DEF Connected, Return, session, PlaceInv
  <1>2. buffered = <<>> /\ ~reconciling
    BY <1>1 DEF PlaceInv
  <1>3. Pending' = Pending /\ InQueue(buffered)' = {} /\ OlderFirst(buffered)'
    BY <1>1, <1>2, EmptyQueue DEF Pending
  <1>4. Filtering' => Books = {}
    BY <1>1 DEF Filtering
  <1>5. StampInv'
    BY <1>1, <1>3 DEF NewsInv, StampInv
  <1>6. OrderInv'
    BY <1>1, <1>3 DEF NewsInv, OrderInv, OlderFirst
  <1>7. SnapshotInv'
    BY <1>1 DEF NewsInv, SnapshotInv
  <1>8. ShowInv'
    BY <1>1, <1>3, <1>4 DEF NewsInv, ShowInv
  <1>9. GapInv'
    BY <1>1, <1>2 DEF NewsInv, GapInv, Under
  <1> QED BY <1>5, <1>6, <1>7, <1>8, <1>9 DEF NewsInv

-----------------------------------------------------------------------------
(* Frames shown to the reader.                                             *)

(* What the filter keeps is not older than what was shown, and what it     *)
(* drops is no news.                                                       *)
LEMMA FilterIsRight ==
    ASSUME TypeOK, NewsInv, NEW f \in Pending, f.chan \in Books => Filtering
    PROVE  /\ Keep(f) => view[f.chan] <= f.ver
           /\ ~Keep(f) => f.ver <= view[f.chan]
  <1>1. f \in Frame /\ f.chan \in Channels /\ f.ver \in Int /\ view[f.chan] \in Int /\ f.stamped
    BY PendingFrames DEF NewsInv, StampInv
  <1>2. CASE f.chan \notin Books
    BY <1>1, <1>2 DEF Keep, NewsInv, ShowInv
  <1>3. CASE f.chan \in Books
    <2>1. cutoff[f.chan] \in Int /\ cutoff[f.chan] \notin {Missing, Absent}
          /\ cutoff[f.chan] <= view[f.chan]
      BY <1>3, StreamAssumption
      DEF NewsInv, ShowInv, Versions, Missing, Absent, StreamAssumption
    <2>2. f.ver >= view[f.chan] \/ f.ver <= cutoff[f.chan]
      BY <1>3 DEF NewsInv, ShowInv
    <2>3. Keep(f) <=> f.ver > cutoff[f.chan]
      BY <1>1, <1>3, <2>1 DEF Keep
    <2> QED BY <1>1, <2>1, <2>2, <2>3
  <1> QED BY <1>2, <1>3

(* The step takes frame f, the first of its channel, and shows it unless   *)
(* it is no news.                                                          *)
Shows(f) ==
    /\ f \in Frame
    /\ Pending = {f} \cup Pending'
    /\ InQueue(pipe') \subseteq InQueue(pipe) /\ InQueue(buffered') \subseteq InQueue(buffered)
    /\ OlderFirst(pipe)' /\ OlderFirst(buffered)'
    /\ \A g \in Pending' : g.chan = f.chan => f.ver <= g.ver
    /\ f.chan \in Books => Filtering
    /\ \/ view' = [view EXCEPT ![f.chan] = f.ver] /\ view[f.chan] <= f.ver
       \/ view' = view /\ f.ver <= view[f.chan]
    /\ UNCHANGED <<pc, link, pushed, version, taskVars, reconciling, cutoff, feed>>

LEMMA TakeFrameShows ==
    ASSUME TypeOK, PlaceInv, NewsInv, TakeFrame, pc' # "stop"
    PROVE  Shows(Head(pipe))
  <1> DEFINE f == Head(pipe)
  <1>1. /\ pc = "receive" /\ pipe # <<>> /\ Live(f)
        /\ Deliver(f, reconciling \/ Keep(f)) /\ pipe' = Tail(pipe)
        /\ UNCHANGED <<version, taskVars, reconciling, buffered, feed>>
        /\ cutoff' = IF reconciling THEN cutoff ELSE CutoffAfter(f)
    BY DEF TakeFrame, DeliverFails, Stop
  <1>2. /\ f \in Frame
        /\ InQueue(pipe) = {f} \cup InQueue(pipe')
        /\ OlderFirst(pipe)'
        /\ \A g \in InQueue(pipe') : g.chan = f.chan => f.ver <= g.ver
    BY <1>1, TailQueue DEF TypeOK, NewsInv, OrderInv
  <1>3. f.chan \in Books => Filtering /\ buffered = <<>>
    BY <1>1 DEF Live, Filtering, PlaceInv
  <1>4. f \in Pending /\ f.stamped /\ Pending = {f} \cup Pending'
    BY <1>1, <1>2 DEF Pending, NewsInv, StampInv
  <1>5. cutoff' = cutoff
    BY <1>1, <1>4, StampedKeepsCutoff
  <1>6. ASSUME NEW g \in InQueue(buffered), g.chan = f.chan PROVE FALSE
    BY <1>3, <1>6, EmptyQueue DEF NewsInv, StampInv
  <1>7. \A g \in Pending' : g.chan = f.chan => f.ver <= g.ver
    BY <1>1, <1>2, <1>6 DEF Pending
  <1>8. \/ view' = [view EXCEPT ![f.chan] = f.ver] /\ view[f.chan] <= f.ver
        \/ view' = view /\ f.ver <= view[f.chan]
    <2>1. f.chan \in Books => Filtering
      BY <1>3
    <2>2. (reconciling \/ Keep(f)) <=> Keep(f)
      BY <1>1 DEF Keep, Live
    <2> QED BY <1>1, <1>4, <2>1, <2>2, FilterIsRight DEF Deliver
  <1>9. UNCHANGED <<pc, link, pushed, version, taskVars, reconciling, cutoff, feed>>
    BY <1>1, <1>5 DEF Deliver
  <1> QED BY <1>1, <1>2, <1>3, <1>4, <1>7, <1>8, <1>9
          DEF Shows, NewsInv, OrderInv, OlderFirst

LEMMA FlushShows ==
    ASSUME TypeOK, PlaceInv, NewsInv, Flush, pc' # "stop"
    PROVE  Shows(Head(buffered))
  <1> DEFINE f == Head(buffered)
  <1>1. /\ pc = "flush" /\ buffered # <<>>
        /\ Deliver(f, Keep(f)) /\ buffered' = Tail(buffered) /\ UNCHANGED pipe
        /\ UNCHANGED <<version, taskVars, reconciling, cutoff, feed>>
    BY DEF Flush, DeliverFails, Stop
  <1>2. /\ f \in Frame
        /\ InQueue(buffered) = {f} \cup InQueue(buffered')
        /\ OlderFirst(buffered)'
        /\ \A g \in InQueue(buffered') : g.chan = f.chan => f.ver <= g.ver
    BY <1>1, TailQueue DEF TypeOK, NewsInv, OrderInv
  <1>3. Filtering
    BY <1>1 DEF Filtering, PlaceInv
  <1>4. f \in Pending /\ Pending = {f} \cup Pending'
    BY <1>1, <1>2 DEF Pending
  <1>5. \A g \in Pending' : g.chan = f.chan => f.ver <= g.ver
    BY <1>1, <1>2 DEF Pending, NewsInv, OrderInv
  <1>6. \/ view' = [view EXCEPT ![f.chan] = f.ver] /\ view[f.chan] <= f.ver
        \/ view' = view /\ f.ver <= view[f.chan]
    BY <1>1, <1>3, <1>4, FilterIsRight DEF Deliver
  <1>7. UNCHANGED <<pc, link, pushed, version, taskVars, reconciling, cutoff, feed>>
    BY <1>1 DEF Deliver
  <1> QED BY <1>1, <1>2, <1>3, <1>4, <1>5, <1>6, <1>7
          DEF Shows, NewsInv, OrderInv, OlderFirst

LEMMA ShowsNews ==
    ASSUME TypeOK, PlaceInv, NewsInv, NEW f, Shows(f)
    PROVE  NewsInv'
  <1> USE PendingFrames DEF NewsInv
  <1>1. /\ UNCHANGED <<pc, link, pushed, version, task, todo, got, marks, reconciling, cutoff>>
        /\ f \in Pending /\ f \in Frame /\ Pending' \subseteq Pending
        /\ Filtering' = Filtering
    BY DEF Shows, taskVars, Filtering
  <1>2. /\ \A c \in Channels \ {f.chan} : view'[c] = view[c]
        /\ view'[f.chan] >= view[f.chan] /\ view'[f.chan] >= f.ver
        /\ view'[f.chan] \in {view[f.chan], f.ver}
        /\ \A c \in Channels : view'[c] \in Int /\ view'[c] >= view[c]
    BY <1>1 DEF Shows, TypeOK
  <1>3. StampInv'
    BY <1>1 DEF Shows, StampInv
  <1>4. OrderInv'
    <2>1. \A c \in Channels : view'[c] <= version[c]
      BY <1>1, <1>2 DEF OrderInv
    <2> QED BY <1>1, <2>1 DEF Shows, OrderInv
  <1>5. SnapshotInv'
    <2>1. \A b \in Books : ~Filtering => view'[b] = view[b]
      BY <1>2, StreamAssumption DEF Shows, StreamAssumption
    <2>2. task # "none" => ~Filtering
      BY DEF PlaceInv, Filtering
    <2>3. task = "write" => got.chan \in Books
      BY DEF SnapshotInv, TypeOK
    <2> QED BY <1>1, <2>1, <2>2, <2>3 DEF SnapshotInv
  <1>6. ShowInv'
    <2>1. ASSUME NEW g \in Pending'
          PROVE  /\ g.chan \notin Books => g.ver >= view'[g.chan]
                 /\ g.chan \in Books /\ Filtering =>
                      g.ver >= view'[g.chan] \/ g.ver <= cutoff[g.chan]
      <3>1. CASE g.chan = f.chan
        BY <1>1, <1>2, <2>1, <3>1 DEF Shows, ShowInv
      <3>2. CASE g.chan # f.chan
        BY <1>1, <1>2, <2>1, <3>2 DEF ShowInv
      <3> QED BY <3>1, <3>2
    <2>2. Filtering => \A b \in Books : cutoff[b] \in Versions /\ cutoff[b] <= view'[b]
      BY <1>2, StreamAssumption DEF ShowInv, StreamAssumption, Versions
    <2> QED BY <1>1, <2>1, <2>2 DEF ShowInv
  <1>7. GapInv'
    <2>1. ASSUME link = "up", NEW c \in Channels, NEW v \in pushed[c], v > view'[c]
          PROVE  Under(pipe', c, v) \/ Under(buffered', c, v)
      <3>1. v \in Int /\ v > view[c]
        BY <1>2, <2>1 DEF TypeOK, Versions
      <3>2. PICK g \in Pending : g.chan = c /\ g.ver = v
        BY <2>1, <3>1, UnderIsInQueue DEF GapInv, Pending
      <3>3. g # f
        BY <1>2, <2>1, <3>1, <3>2
      <3>4. g \in Pending'
        BY <3>3 DEF Shows
      <3> QED BY <3>2, <3>4, UnderIsInQueue DEF Pending
    <2> QED BY <1>1, <2>1 DEF GapInv
  <1> QED BY <1>3, <1>4, <1>5, <1>6, <1>7

-----------------------------------------------------------------------------
(* The other steps that move frames or snapshots.                          *)

(* A frame of a book moves from the stream into the buffer.                *)
LEMMA BufferFrameNews ==
    ASSUME TypeOK, PlaceInv, NewsInv, BufferFrame, pc' # "stop"
    PROVE  NewsInv'
  <1> USE DEF NewsInv
  <1> DEFINE f == Head(pipe)
  <1>1. /\ pipe # <<>> /\ ~Live(f)
        /\ buffered' = Append(buffered, f) /\ pipe' = Tail(pipe)
        /\ UNCHANGED <<pc, link, pushed, version, task, todo, got, marks, reconciling, cutoff,
                       view>>
    BY DEF BufferFrame, Stop, taskVars
  <1>2. /\ f \in Frame
        /\ InQueue(pipe) = {f} \cup InQueue(pipe')
        /\ OlderFirst(pipe)'
        /\ \A g \in InQueue(pipe') : g.chan = f.chan => f.ver <= g.ver
    BY <1>1, TailQueue DEF TypeOK, OrderInv
  <1>3. InQueue(buffered') = InQueue(buffered) \cup {f}
    BY <1>1, <1>2, AppendQueue DEF TypeOK
  <1>4. OlderFirst(buffered)'
    <2>1. \A g \in InQueue(buffered) : g.chan = f.chan => g.ver <= f.ver
      BY <1>2 DEF OrderInv
    <2>2. OlderFirst(Append(buffered, f))
      BY <1>2, <2>1, AppendQueue DEF TypeOK, OrderInv
    <2> QED BY <1>1, <2>2 DEF OlderFirst
  <1>5. Pending' = Pending /\ Filtering' = Filtering /\ ~Filtering /\ f.chan \in Books
    BY <1>1, <1>2, <1>3 DEF Pending, Filtering, Live
  <1>6. StampInv'
    BY <1>1, <1>3, <1>5 DEF StampInv
  <1>7. OrderInv'
    <2>1. \A g \in InQueue(buffered'), h \in InQueue(pipe') : g.chan = h.chan => g.ver <= h.ver
      BY <1>2, <1>3 DEF OrderInv
    <2> QED BY <1>1, <1>2, <1>4, <1>5, <2>1 DEF OrderInv
  <1>8. SnapshotInv' /\ ShowInv'
    BY <1>1, <1>5 DEF SnapshotInv, ShowInv
  <1>9. GapInv'
    BY <1>1, <1>5, UnderIsInQueue DEF GapInv, Pending
  <1> QED BY <1>6, <1>7, <1>8, <1>9

(* The snapshots are written: the filter starts from what they showed.     *)
LEMMA TakeReconciledNews ==
    ASSUME TypeOK, PlaceInv, NewsInv, TakeReconciled, pc' # "stop"
    PROVE  NewsInv'
  <1> USE DEF NewsInv
  <1>1. /\ task = "done" /\ task' = "none"
        /\ UNCHANGED <<pipe, link, pushed, version, todo, got, marks, buffered, cutoff, view>>
    BY DEF TakeReconciled, Stop, session
  <1>2. \A b \in Books : cutoff[b] = view[b] /\ view[b] \in Versions /\ view[b] \in Int
    BY <1>1, StreamAssumption DEF SnapshotInv, TypeOK, StreamAssumption, Versions
  <1>3. ShowInv'
    BY <1>1, <1>2, PendingFrames DEF ShowInv, Pending
  <1>4. StampInv' /\ OrderInv' /\ SnapshotInv' /\ GapInv'
    BY <1>1 DEF StampInv, OrderInv, SnapshotInv, GapInv, Pending, OlderFirst, Under
  <1> QED BY <1>3, <1>4

LEMMA SnapshotReadNews ==
    ASSUME Timed, TypeOK, PlaceInv, NewsInv, NEW b \in Books, SnapshotRead(b)
    PROVE  NewsInv'
  <1> USE DEF NewsInv
  <1>1. /\ task = "read" /\ task' = "write" /\ b \in todo
        /\ got' = [chan |-> b, ver |-> version[b], stamped |-> TRUE]
        /\ UNCHANGED <<pc, pipe, link, pushed, version, todo, marks, buffered, reconciling,
                       cutoff, view>>
    BY DEF SnapshotRead, session, bookVars, Timed
  <1>2. got' \in Frame /\ view[b] <= version[b] /\ version[b] \in Int
    BY <1>1, PendingFrames, StreamAssumption DEF Frame, TypeOK, StreamAssumption, OrderInv
  <1>3. SnapshotInv'
    BY <1>1, <1>2 DEF SnapshotInv
  <1>4. StampInv' /\ OrderInv' /\ ShowInv' /\ GapInv'
    BY <1>1 DEF StampInv, OrderInv, ShowInv, GapInv, Pending, OlderFirst, Under, Filtering
  <1> QED BY <1>3, <1>4

LEMMA SnapshotWriteNews ==
    ASSUME TypeOK, PlaceInv, NewsInv, SnapshotWrite
    PROVE  NewsInv'
  <1> USE DEF NewsInv
  <1>1. CASE writer = "broken"
    <2>1. /\ task' = "failed"
          /\ UNCHANGED <<pc, reconciling, pipe, link, pushed, version, view, buffered, cutoff,
                         marks, todo>>
      BY <1>1 DEF SnapshotWrite, session
    <2>2. StampInv' /\ OrderInv' /\ SnapshotInv' /\ ShowInv' /\ GapInv'
      BY <2>1 DEF StampInv, OrderInv, SnapshotInv, ShowInv, GapInv, Pending, OlderFirst, Under,
                  Filtering
    <2> QED BY <2>2
  <1>2. CASE writer # "broken"
    <2> DEFINE b == got.chan
    <2>1. /\ task = "write" /\ task' \in {"done", "read"}
          /\ view' = [view EXCEPT ![b] = got.ver]
          /\ todo' = todo \ {b}
          /\ marks' = [marks EXCEPT ![b] = IF got.stamped THEN got.ver ELSE Missing]
          /\ task' = "done" => todo' = {} /\ cutoff' = marks'
          /\ UNCHANGED <<pc, pipe, link, pushed, version, buffered, reconciling>>
      BY <1>2 DEF SnapshotWrite, session
    <2>2. /\ b \in Books /\ b \in Channels /\ got.stamped /\ got.ver \in Int
          /\ view[b] <= got.ver /\ got.ver <= version[b]
          /\ \A c \in Books \ todo : marks[c] = view[c]
      BY <2>1, StreamAssumption, PendingFrames
      DEF SnapshotInv, TypeOK, StampInv, StreamAssumption
    <2>3. /\ ~Filtering /\ ~Filtering' /\ Pending' = Pending
      BY <2>1 DEF PlaceInv, Filtering, Pending
    <2>4. /\ \A c \in Channels : view'[c] \in Int /\ view'[c] >= view[c]
                                              /\ view'[c] <= version[c]
          /\ \A c \in Channels \ {b} : view'[c] = view[c]
          /\ view'[b] = got.ver
      BY <2>1, <2>2, PendingFrames DEF TypeOK, OrderInv
    <2>5. StampInv' /\ OrderInv'
      BY <2>1, <2>3, <2>4 DEF StampInv, OrderInv, OlderFirst
    <2>6. SnapshotInv'
      <3>1. \A c \in Books \ todo' : marks'[c] = view'[c]
        BY <2>1, <2>2, <2>4, StreamAssumption DEF TypeOK, StreamAssumption
      <3> QED BY <2>1, <3>1 DEF SnapshotInv
    <2>7. ShowInv'
      BY <2>1, <2>2, <2>3, <2>4, PendingFrames DEF ShowInv
    <2>8. GapInv'
      <3>1. \A c \in Channels : \A v \in pushed[c] : v > view'[c] => v > view[c]
        BY <2>4, PendingFrames DEF TypeOK, Versions
      <3>2. link' = link /\ pushed' = pushed /\ pipe' = pipe /\ buffered' = buffered
        BY <2>1
      <3> QED BY <3>1, <3>2 DEF GapInv, Under
    <2> QED BY <2>5, <2>6, <2>7, <2>8
  <1> QED BY <1>1, <1>2

(* The broker gets on with a channel, and pushes a frame of it or not.     *)
LEMMA BrokerNews ==
    ASSUME Timed, TypeOK, PlaceInv, NewsInv, NEW c \in Channels, Serve(c) \/ Change(c)
    PROVE  NewsInv'
  <1> USE PendingFrames DEF NewsInv
  <1> DEFINE new == [chan |-> c, ver |-> version'[c], stamped |-> TRUE]
  <1>1. /\ UNCHANGED <<pc, link, task, todo, got, marks, buffered, reconciling, cutoff, view>>
        /\ \/ pipe' = pipe /\ pushed' = pushed
           \/ /\ pipe' = Append(pipe, new)
              /\ pushed' = [pushed EXCEPT ![c] = @ \cup {version'[c]}]
    BY DEF Serve, Change, Push, Timed, taskVars, bookVars
  <1>2. /\ \A d \in Channels : version'[d] >= version[d] /\ version'[d] \in Int
        /\ new \in Frame
    <2>1. CASE Serve(c)
      BY <2>1 DEF Serve, Frame, TypeOK
    <2>2. CASE Change(c)
      BY <2>2, StreamAssumption DEF Change, Frame, TypeOK, Versions, StreamAssumption
    <2> QED BY <2>1, <2>2
  <1>3. Filtering' = Filtering /\ InQueue(buffered') = InQueue(buffered)
    BY <1>1 DEF Filtering
  <1>4. /\ InQueue(pipe) \subseteq InQueue(pipe') /\ InQueue(pipe') \subseteq InQueue(pipe) \cup {new}
        /\ OlderFirst(pipe)'
    <2>1. \A g \in InQueue(pipe) : g.chan = c => g.ver <= version'[c]
      BY <1>2 DEF OrderInv, Pending
    <2>2. CASE pipe' = pipe
      BY <2>2 DEF OrderInv, OlderFirst
    <2>3. CASE pipe' = Append(pipe, new)
      <3>1. OlderFirst(Append(pipe, new)) /\ InQueue(Append(pipe, new)) = InQueue(pipe) \cup {new}
        BY <1>2, <2>1, AppendQueue DEF TypeOK, OrderInv
      <3> QED BY <2>3, <3>1 DEF OlderFirst
    <2> QED BY <1>1, <2>2, <2>3
  <1>5. \A f \in Pending' : f \in Pending \/ f = new
    BY <1>3, <1>4 DEF Pending
  <1>6. StampInv'
    BY <1>1, <1>3, <1>5 DEF StampInv
  <1>7. OrderInv'
    <2>1. \A f \in InQueue(buffered'), g \in InQueue(pipe') : f.chan = g.chan => f.ver <= g.ver
      BY <1>2, <1>3, <1>4 DEF OrderInv, Pending
    <2>2. \A f \in Pending' : f.ver <= version'[f.chan]
      BY <1>2, <1>5 DEF OrderInv
    <2>3. \A d \in Channels : view'[d] <= version'[d]
      BY <1>1, <1>2 DEF OrderInv
    <2> QED BY <1>1, <1>4, <2>1, <2>2, <2>3 DEF OrderInv, OlderFirst
  <1>8. SnapshotInv'
    <2>1. task = "write" => got.ver <= version'[got.chan]
      BY <1>2 DEF SnapshotInv
    <2> QED BY <1>1, <2>1 DEF SnapshotInv
  <1>9. ShowInv'
    <2>1. new.ver >= view[c] /\ new.chan = c
      BY <1>2 DEF OrderInv
    <2> QED BY <1>1, <1>3, <1>5, <2>1 DEF ShowInv
  <1>10. GapInv'
    <2>1. ASSUME link = "up", NEW d \in Channels, NEW v \in pushed'[d], v > view[d]
          PROVE  Under(pipe', d, v) \/ Under(buffered', d, v)
      <3>1. CASE v \in pushed[d]
        BY <1>3, <1>4, <2>1, <3>1, UnderIsInQueue DEF GapInv
      <3>2. CASE v \notin pushed[d]
        <4>1. pipe' = Append(pipe, new) /\ d = c /\ v = version'[c]
          BY <1>1, <2>1, <3>2 DEF TypeOK
        <4>2. new \in InQueue(pipe')
          BY <1>2, <4>1, AppendQueue DEF TypeOK
        <4> QED BY <4>1, <4>2, UnderIsInQueue
      <3> QED BY <3>1, <3>2
    <2> QED BY <1>1, <2>1 DEF GapInv
  <1> QED BY <1>6, <1>7, <1>8, <1>9, <1>10

LEMMA StepNewsInv == Timed /\ TypeOK /\ PlaceInv /\ NewsInv /\ [Next]_vars => NewsInv'
  <1> SUFFICES ASSUME Timed, TypeOK, PlaceInv, NewsInv, [Next]_vars PROVE NewsInv'
    OBVIOUS
  <1>1. CASE Loop \/ Open \/ OpenFails \/ Replay \/ ReplayCancelled \/ SendFails \/ Wait
    BY <1>1, LoopDrops, DroppingKeepsNews
  <1>2. CASE Connected
    BY <1>2, LoopDrops, DroppingKeepsNews, ConnectedNews
  <1>3. CASE TakeFrame \/ BufferFrame \/ TakeReconciled \/ Flush
    BY <1>3, StopDrops, DroppingKeepsNews, TakeFrameShows, FlushShows, ShowsNews,
       BufferFrameNews, TakeReconciledNews
  <1>4. CASE \/ StopCancelled \/ TakeError \/ Watchdog \/ TakeReconcileError
             \/ Flushed \/ Stopped \/ Break \/ WriterBreaks \/ Cancel
    BY <1>4, StopDrops, DroppingKeepsNews
  <1>5. CASE Reconcile
    BY <1>5, StopDrops, DroppingKeepsNews, SnapshotReadNews, SnapshotWriteNews DEF Reconcile
  <1>6. CASE Broker
    BY <1>6, BrokerNews DEF Broker
  <1>7. CASE UNCHANGED vars
    <2>1. Dropping
      BY <1>7, SameQueues DEF vars, session, taskVars, bookVars, Dropping, Filtering
    <2> QED BY <2>1, DroppingKeepsNews
  <1> QED BY <1>1, <1>2, <1>3, <1>4, <1>5, <1>6, <1>7 DEF Next, Run

(* The invariant that the two theorems below rest on holds in every        *)
(* reachable state.                                                        *)
THEOREM IInvHolds == Timed => (Spec => []IInv)
  <1> SUFFICES ASSUME Timed PROVE Spec => []IInv
    OBVIOUS
  <1>1. Init => IInv
    BY InitTypeOK, InitPlaceInv, InitNewsInv DEF IInv
  <1>2. IInv /\ [Next]_vars => IInv'
    BY StepTypeOK, StepPlaceInv, StepNewsInv DEF IInv
  <1> QED BY <1>1, <1>2, PTL DEF Spec

(* While the reader believes the connection is up and it is, every frame   *)
(* pushed on it that is newer than what the reader was shown is still in   *)
(* the stream or in the buffer.                                            *)
THEOREM NoSilentGapHolds == Timed => (Spec => []NoSilentGap)
  <1> SUFFICES ASSUME Timed PROVE Spec => []NoSilentGap
    OBVIOUS
  <1>1. IInv => NoSilentGap
    BY DEF IInv, NewsInv, GapInv, NoSilentGap
  <1> QED BY <1>1, IInvHolds, PTL

-----------------------------------------------------------------------------
(* What the reader of the output is promised.                              *)

(* A step that leaves the reader's view alone only moves the feed on.      *)
LEMMA SameViewKeepsFeed ==
    ASSUME PlaceInv, PlaceInv', UNCHANGED view,
           feed' = feed \/ feed' = "over" \/ <<feed, feed'>> \in {<<"down", "up">>, <<"up", "down">>}
    PROVE  [Feed!FeedNext]_(Feed!feedVars)
  <1>1. CASE feed' = feed
    BY <1>1 DEF Feed!feedVars
  <1>2. CASE feed' # feed
    BY <1>2 DEF Feed!FeedNext, Feed!Connect, Feed!Disconnect, Feed!End
  <1> QED BY <1>1, <1>2

LEMMA ShowKeepsFeed ==
    ASSUME TypeOK, NEW c \in Channels, NEW v \in Int, feed = "up", feed' = "up",
           view' = [view EXCEPT ![c] = v], view[c] <= v
    PROVE  [Feed!FeedNext]_(Feed!feedVars)
  <1>1. view[c] \in Int /\ view'[c] = v
    BY PendingFrames DEF TypeOK
  <1>2. CASE view[c] = v
    BY <1>2 DEF Feed!feedVars, TypeOK
  <1>3. CASE view[c] < v
    <2>1. Feed!Show(c)
      BY <1>1, <1>3 DEF Feed!Show
    <2> QED BY <2>1 DEF Feed!FeedNext
  <1> QED BY <1>1, <1>2, <1>3

LEMMA FeedStep ==
    ASSUME IInv, PlaceInv', [Next]_vars
    PROVE  [Feed!FeedNext]_(Feed!feedVars)
  <1> USE DEF IInv
  <1>1. CASE (TakeFrame \/ Flush) /\ pc' # "stop"
    <2>1. PICK f : Shows(f)
      BY <1>1, TakeFrameShows, FlushShows
    <2>2. f \in Frame /\ f.chan \in Channels /\ f.ver \in Int
      BY <2>1, PendingFrames DEF Shows
    <2>3. feed = "up" /\ feed' = "up"
      BY <1>1, <2>1 DEF TakeFrame, Flush, PlaceInv, Shows
    <2> QED BY <2>1, <2>2, <2>3, ShowKeepsFeed, SameViewKeepsFeed DEF Shows
  <1>2. CASE SnapshotWrite /\ writer # "broken"
    <2>1. task = "write" /\ view' = [view EXCEPT ![got.chan] = got.ver] /\ feed' = feed
      BY <1>2 DEF SnapshotWrite
    <2>2. got.chan \in Channels /\ got.ver \in Int /\ view[got.chan] <= got.ver
      BY <2>1, PendingFrames DEF NewsInv, SnapshotInv
    <2>3. feed = "up"
      BY <2>1 DEF PlaceInv
    <2> QED BY <2>1, <2>2, <2>3, ShowKeepsFeed
  <1>3. CASE ~((TakeFrame \/ Flush) /\ pc' # "stop") /\ ~(SnapshotWrite /\ writer # "broken")
    <2>1. UNCHANGED view
      <3>1. CASE Loop \/ Open \/ OpenFails \/ Replay \/ ReplayCancelled \/ SendFails \/ Wait
                 \/ Connected
        BY <3>1 DEF Loop, Open, OpenFails, Replay, ReplayCancelled, SendFails, Wait, Connected
      <3>2. CASE TakeFrame \/ Flush
        BY <1>3, <3>2, StopDrops DEF Dropping
      <3>3. CASE BufferFrame \/ TakeReconciled \/ StopCancelled \/ TakeError \/ Watchdog
                 \/ TakeReconcileError \/ Flushed \/ Stopped
        BY <3>3 DEF BufferFrame, TakeReconciled, StopCancelled, TakeError, Watchdog,
                    TakeReconcileError, Flushed, Stopped
      <3>4. CASE Reconcile
        BY <1>3, <3>4 DEF Reconcile, SnapshotRead, SnapshotFails, SnapshotWrite
      <3>5. CASE Broker \/ Break \/ WriterBreaks \/ Cancel \/ UNCHANGED vars
        BY <3>5 DEF Broker, Serve, Change, Break, WriterBreaks, Cancel, vars
      <3> QED BY <3>1, <3>2, <3>3, <3>4, <3>5 DEF Next, Run
    <2>2. pc = "returned" => pc' = "returned"
      <3>1. CASE Reconcile \/ Broker \/ Break \/ WriterBreaks \/ Cancel \/ UNCHANGED vars
        BY <3>1 DEF Reconcile, SnapshotRead, SnapshotFails, SnapshotWrite, Broker, Serve, Change,
                    Break, WriterBreaks, Cancel, vars
      <3>2. CASE Run
        BY <3>2 DEF Run, Loop, Open, OpenFails, Replay, ReplayCancelled, SendFails, Connected,
                    Wait, StopCancelled, TakeFrame, BufferFrame, TakeError, Watchdog,
                    TakeReconciled, TakeReconcileError, Flush, Flushed, Stopped
      <3> QED BY <3>1, <3>2 DEF Next
    <2>3. feed' = feed \/ feed' = "over"
            \/ <<feed, feed'>> \in {<<"down", "up">>, <<"up", "down">>}
      <3>1. feed \in {"down", "up", "over"} /\ (feed = "over" => pc = "returned")
        BY DEF PlaceInv, TypeOK
      <3>2. feed' \in {"down", "up", "over"} /\ (pc' = "returned" => feed' = "over")
        BY DEF PlaceInv
      <3> QED BY <2>2, <3>1, <3>2
    <2> QED BY <2>1, <2>3, SameViewKeepsFeed
  <1> QED BY <1>1, <1>2, <1>3

(* The output keeps the promise of StreamFeed: nothing outside a           *)
(* connection, nothing older than what was shown, nothing after the end.   *)
THEOREM KeepsFeedHolds == Timed => (Spec => KeepsFeed)
  <1> SUFFICES ASSUME Timed PROVE Spec => KeepsFeed
    OBVIOUS
  <1>1. Init => Feed!FeedInit
    BY DEF Init, Feed!FeedInit
  <1>2. IInv /\ IInv' /\ [Next]_vars => [Feed!FeedNext]_(Feed!feedVars)
    BY FeedStep DEF IInv
  <1> QED BY <1>1, <1>2, IInvHolds, PTL DEF Spec, KeepsFeed, Feed!FeedSpec
=============================================================================
