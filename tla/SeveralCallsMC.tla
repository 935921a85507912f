--------------------------- MODULE SeveralCallsMC ---------------------------
(* The commands that take several calls: an order that is cancelled and    *)
(* waited for, a stop order that is cancelled twice, a list of operations, *)
(* a chart, three downloads of one archive.  These five have nothing in    *)
(* common, so a behaviour is about one of them.                            *)
(*                                                                         *)
(* The calendar has months of 3, 1, 2, 3, ... days; ranges begin on days   *)
(* that other months do not have.                                          *)
EXTENDS OrderSettle, BulkReads, TLC

CONSTANTS c1, w, s1, s2, order, stop, d1, d2, d3

VARIABLE subject

MCCommands == {c1, w, s1, s2}
MCOrders   == {order, stop}
MCKindOf   == (c1 :> "cancel") @@ (w :> "wait") @@ (s1 :> "stop-cancel") @@ (s2 :> "stop-cancel")
MCOrderOf  == (c1 :> order) @@ (w :> order) @@ (s1 :> stop) @@ (s2 :> stop)

MCMonthStart == <<0, 3, 4, 6, 9, 10, 12, 15, 16, 18, 21, 22, 24>>
Request(a, b, u, n) == [from |-> a, to |-> b, unit |-> u, cap |-> n]
MCRanges == {Request(a, b, u, n) : a \in 0..3, b \in {0, 2, 3, 6, 9}, u \in {"days", "months"},
                                   n \in 1..3}

MCInit ==
    /\ Init
    /\ ReadInit
    /\ subject \in Orders \cup {"list", "chart", "download"}
    /\ \A o \in Orders \ {subject} : status[o] = "none" /\ born[o] = 0
    /\ listing = "reading" <=> subject = "list"
    /\ charting = "reading" <=> subject = "chart"
    /\ subject # "list" => cursor = Empty
    /\ subject # "chart" => range = Request(0, 9, "days", 3)

Settle1 ==
    \/ \E c \in {x \in Commands : OrderOf[x] = subject} :
         Cancel(c) \/ WaitFor(c) \/ StrayArrives(c)
    \/ subject \in Orders /\ (OrderMoves(subject) \/ Midnight)
    \/ subject = order /\ Tick

MCNext ==
    \/ Settle1 /\ UNCHANGED <<readVars, subject>>
    \/ (List \/ Candles) /\ UNCHANGED <<vars, subject>>
    \/ subject = "download" /\ DownloadNext /\ UNCHANGED <<vars, subject>>

(* All five are well typed: no attempt too many, no window past the range. *)
CallsTypeOK == TypeOK /\ ReadTypeOK

MCSpec == MCInit /\ [][MCNext]_<<vars, readVars, subject>>
=============================================================================
