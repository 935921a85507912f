------------------------------ MODULE BulkReads ------------------------------
(***************************************************************************)
(* The reads that take more than one answer.  operations list --all        *)
(* follows the broker's cursors, candles asks for a long range window by   *)
(* window, history download writes a stream to a file that other downloads *)
(* of the machine may want to write too.  All three promise the same: a    *)
(* result that is reported is whole, and after an error there is none.     *)
(*                                                                         *)
(* Dates are day numbers.  The broker's cursors are any at all: its        *)
(* documentation knows of pages that repeat and cursors that stall.        *)
(***************************************************************************)
EXTENDS Integers, Sequences

CONSTANTS Cursors,     \* the cursors there are besides the empty one
          MonthStart,  \* the day on which each month starts, in order
          Ranges,      \* requests of candles, as records
          Downloads    \* commands that download the same archive

None  == "none"
Empty == "empty"  \* the cursor ""; a file without content

(* The calendar begins on day 0, and goes on until after the last window.  *)
ASSUME ReadsAssumption ==
    /\ Empty \notin Cursors
    /\ None \notin Downloads
    /\ MonthStart \in Seq(Nat)
    /\ \A m, n \in DOMAIN MonthStart : m < n => MonthStart[m] < MonthStart[n]
    /\ \A r \in Ranges :
         /\ r.from \in Nat /\ r.to \in Nat
         /\ r.unit \in {"days", "months"}  \* candleRangeCap; a year is 12 months
         /\ r.cap \in Nat \ {0}
         /\ r.unit = "months" => /\ Len(MonthStart) > r.cap
                                /\ MonthStart[1] = 0
                                /\ r.to <= MonthStart[Len(MonthStart) - r.cap]

AnyCursor == Cursors \cup {Empty}

VARIABLES
    cursor,        \* List: the page to ask for
    seenCursors,
    pages,         \* how often each page is in the items, 2 for more
    more,          \* HasNext of the last answer
    listing,       \* how it stands; "none": no such command
    range,         \* Candles: the request
    start,         \* of the next window
    windows,       \* those whose candles are in the result
    charting,      \* how it stands; "none": no such command
    path,          \* the command whose file the path names; None
    body,          \* Downloads -> how much is in its file
    load           \* Downloads -> how it stands

listVars     == <<cursor, seenCursors, pages, more, listing>>
candleVars   == <<range, start, windows, charting>>
downloadVars == <<path, body, load>>
readVars     == <<listVars, candleVars, downloadVars>>

ReadTypeOK ==
    /\ cursor \in AnyCursor
    /\ seenCursors \subseteq AnyCursor
    /\ pages \in [AnyCursor -> 0..2]
    /\ more \in BOOLEAN
    /\ listing \in {"none", "reading", "whole", "failed"}
    /\ range \in Ranges
    /\ start \in {range.from} \cup 0..range.to
    /\ windows \in Seq([from : Nat, to : 0..range.to])
    /\ charting \in {"none", "reading", "whole", "failed"}
    /\ path \in Downloads \cup {None}
    /\ body \in [Downloads -> {Empty, "part", "whole"}]
    /\ load \in [Downloads -> {"asking", "creating", "copying", "closing", "whole",
                               "failed", "dead"}]

ReadInit ==
    /\ cursor \in AnyCursor
    /\ seenCursors = {cursor}
    /\ pages = [c \in AnyCursor |-> 0]
    /\ more = TRUE
    /\ listing \in {"none", "reading"}
    /\ range \in Ranges
    /\ start = range.from
    /\ windows = <<>>
    /\ charting \in {"none", "reading"}
    /\ path = None
    /\ body = [d \in Downloads |-> Empty]
    /\ load = [d \in Downloads |-> "asking"]

-----------------------------------------------------------------------------
(* operations.List with All.                                               *)

(* Mutant: only a cursor that does not move is noticed.                    *)
RepeatedAtOnce(next) == next = cursor

Repeated(next) == next \in seenCursors

Count(c) == pages' = [pages EXCEPT ![c] = IF @ = 2 THEN 2 ELSE @ + 1]

(* Mutant: a page without items is taken for the last.                     *)
PageUntilEmpty ==
    /\ listing = "reading"
    /\ Count(cursor)
    /\ \E items, hasNext \in BOOLEAN, next \in AnyCursor :
         /\ more' = hasNext
         /\ IF ~hasNext \/ ~items
            THEN listing' = "whole" /\ UNCHANGED <<cursor, seenCursors>>
            ELSE /\ next # Empty /\ ~Repeated(next)
                 /\ seenCursors' = seenCursors \cup {next}
                 /\ cursor' = next
                 /\ UNCHANGED listing

(* The broker answers anything.                                            *)
Page ==
    /\ listing = "reading"
    /\ Count(cursor)
    /\ \E hasNext \in BOOLEAN, next \in AnyCursor :
         /\ more' = hasNext
         /\ IF ~hasNext
            THEN listing' = "whole" /\ UNCHANGED <<cursor, seenCursors>>
            ELSE IF next = Empty \/ Repeated(next)
            THEN listing' = "failed" /\ UNCHANGED <<cursor, seenCursors>>
            ELSE /\ seenCursors' = seenCursors \cup {next}
                 /\ cursor' = next
                 /\ UNCHANGED listing

PageFails ==
    /\ listing = "reading"
    /\ listing' = "failed"
    /\ UNCHANGED <<cursor, seenCursors, pages, more>>

List == (Page \/ PageFails) /\ UNCHANGED <<candleVars, downloadVars>>

-----------------------------------------------------------------------------
(* Candles and CandleWindows.                                              *)

(* time.AddDate: the same day so many months on; a day that month does not *)
(* have runs over into the next.                                           *)
MonthOf(t) == CHOOSE m \in 1..(Len(MonthStart) - 1) :
                 MonthStart[m] <= t /\ t < MonthStart[m + 1]

AddMonths(t, n) == MonthStart[MonthOf(t) + n] + (t - MonthStart[MonthOf(t)])

Advance(t) == IF range.unit = "days" THEN t + range.cap ELSE AddMonths(t, range.cap)

(* Mutant: the last window is not cut.                                     *)
WindowEndUncut == Advance(start)

WindowEnd == IF Advance(start) > range.to THEN range.to ELSE Advance(start)

(* Mutant: the next window starts a day after the end of this one.         *)
WindowApart ==
    /\ charting = "reading"
    /\ start < range.to
    /\ windows' = Append(windows, [from |-> start, to |-> WindowEnd])
    /\ start' = WindowEnd + 1
    /\ UNCHANGED <<range, charting>>

Window ==
    /\ charting = "reading"
    /\ start < range.to
    /\ windows' = Append(windows, [from |-> start, to |-> WindowEnd])
    /\ start' = WindowEnd
    /\ UNCHANGED <<range, charting>>

(* An empty range is an error from the start.                              *)
WindowsDone ==
    /\ charting = "reading"
    /\ start >= range.to
    /\ charting' = IF windows = <<>> THEN "failed" ELSE "whole"
    /\ UNCHANGED <<range, start, windows>>

(* The call fails, or the pause before it is cut short.                    *)
WindowFails ==
    /\ charting = "reading"
    /\ charting' = "failed"
    /\ UNCHANGED <<range, start, windows>>

Candles == (Window \/ WindowsDone \/ WindowFails) /\ UNCHANGED <<listVars, downloadVars>>

-----------------------------------------------------------------------------
(* Download.                                                               *)

To(d, place) == load' = [load EXCEPT ![d] = place]
Holds(d, b)  == body' = [body EXCEPT ![d] = b]

Respond(d) ==
    /\ load[d] = "asking"
    /\ \E place \in {"creating", "failed"} : To(d, place)
    /\ UNCHANGED <<path, body>>

(* Mutant: O_TRUNC in the place of O_EXCL.                                 *)
CreateOverExisting(d) ==
    /\ load[d] = "creating"
    /\ path' = d
    /\ To(d, "copying")
    /\ Holds(d, Empty)

(* O_EXCL.                                                                 *)
Create(d) ==
    /\ load[d] = "creating"
    /\ IF path = None THEN path' = d /\ To(d, "copying") ELSE To(d, "failed") /\ UNCHANGED path
    /\ UNCHANGED body

(* Mutant: a file that cannot be closed is left where it is.               *)
RemovePartialUnlessClosing(d) == path' = IF load[d] = "closing" THEN path ELSE None

(* os.Remove takes whatever is at the path.                                *)
RemovePartial(d) == path' = None

Copy(d) ==
    /\ load[d] = "copying"
    /\ \/ Holds(d, "part") /\ UNCHANGED <<path, load>>
       \/ Holds(d, "whole") /\ To(d, "closing") /\ UNCHANGED path
       \/ RemovePartial(d) /\ To(d, "failed") /\ UNCHANGED body

Close(d) ==
    /\ load[d] = "closing"
    /\ \/ To(d, "whole") /\ UNCHANGED <<path, body>>
       \/ RemovePartial(d) /\ To(d, "failed") /\ Holds(d, "part")

(* SIGKILL leaves the file, half written.                                  *)
Kill(d) ==
    /\ load[d] \in {"copying", "closing"}
    /\ To(d, "dead")
    /\ UNCHANGED <<path, body>>

(* The user removes what a killed command left.                            *)
CleanUp ==
    /\ path # None
    /\ load[path] = "dead"
    /\ path' = None
    /\ UNCHANGED <<body, load>>

DownloadNext ==
    /\ (\E d \in Downloads : Respond(d) \/ Create(d) \/ Copy(d) \/ Close(d) \/ Kill(d)) \/ CleanUp
    /\ UNCHANGED <<listVars, candleVars>>

ReadNext == List \/ Candles \/ DownloadNext

ReadSpec == ReadInit /\ [][ReadNext]_readVars

-----------------------------------------------------------------------------
(* Properties.                                                             *)

(* No page of operations is read twice, so that the command comes to an    *)
(* end whatever cursors the broker hands out; and a list that is reported  *)
(* was read to the broker's last page.                                     *)
ListIsWhole ==
    /\ \A c \in AnyCursor : pages[c] <= 1
    /\ listing = "whole" => ~more

(* Every day of the range is asked for in one window; no window is empty,  *)
(* so that the loop ends, or longer than the longest span of as many       *)
(* months as the broker allows, at the end of a short month too.           *)
CandlesAreWhole ==
    /\ charting = "whole" =>
         \A t \in range.from..(range.to - 1) :
             \E i \in DOMAIN windows : \A j \in DOMAIN windows :
                 (windows[j].from <= t /\ t < windows[j].to) <=> j = i
    /\ \A i \in DOMAIN windows :
         LET length == windows[i].to - windows[i].from IN
         /\ length > 0
         /\ range.unit = "days" => length <= range.cap
         /\ range.unit # "days" =>
              \E m \in 1..(Len(MonthStart) - range.cap) :
                  length <= MonthStart[m + range.cap] - MonthStart[m]

(* The archive of a download that reported success is at the path, whole,  *)
(* and stays there, no other download overwrites or removes it; and one    *)
(* that failed, unless it was killed, leaves nothing behind there that     *)
(* would make the next one fail.                                           *)
DownloadStays ==
    \A d \in Downloads :
        /\ load[d] = "whole" => path = d /\ body[d] = "whole"
        /\ load[d] = "failed" => path # d
=============================================================================
