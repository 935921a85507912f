------------------------------- MODULE Ledger -------------------------------
(***************************************************************************)
(* The journal files under the write-ahead log: several processes with an  *)
(* open handle append records to the file of the current month under its   *)
(* flock and fsync them, repair torn tails, rotate, and scan all files     *)
(* without a lock.  Writes may stop half way, processes and the machine    *)
(* may stop at any point.                                                  *)
(*                                                                         *)
(* A file is the sequence of pieces that were written to it.  A whole      *)
(* piece ends with its newline, a bare one lacks only that, a part lacks   *)
(* more.  Pieces up to the next newline share a line.                      *)
(***************************************************************************)
EXTENDS Integers, Sequences, FiniteSets

CONSTANTS Procs,
          Existing,    \* months whose file is there, and durable, at the start
          MaxMonth,    \* bound: the last month
          MaxRecord,   \* bound: records ever appended
          ShortWrites, \* a write may fail with part of the line in the file,
                       \* and its process, or others, go on
          PowerFails   \* the machine may stop

Nobody == "nobody"

ASSUME LedgerAssumption ==
    /\ Nobody \notin Procs
    /\ MaxMonth \in Nat \ {0}
    /\ Existing \subseteq 1..MaxMonth
    /\ MaxRecord \in Nat
    /\ ShortWrites \in BOOLEAN
    /\ PowerFails \in BOOLEAN

Months  == 1..MaxMonth
Records == 1..MaxRecord
Piece   == [rec : Records, cut : {"whole", "bare", "part"}]

VARIABLES
    exists,   \* the months whose file exists
    file,     \* Months -> pieces, as processes see them
    disk,     \* Months -> pieces, as of the last fsync
    entry,    \* names whose directory entry is durable
    side,     \* Months -> the records whose pieces the sidecar keeps
    lock,     \* Months -> the process that holds the flock
    clock,    \* the month
    pc,       \* Procs -> where the process is
    handle,   \* Procs -> the month its handle appends to, 0 if closed
    on,       \* Procs -> the month it is opening, repairing or reading
    after,    \* Procs -> what it opens or repairs for
    fresh,    \* Procs -> openMonth found no file
    rec,      \* Procs -> the record it appends
    used,     \* records given out so far
    acked,    \* records whose append returned nil
    torn,     \* Months -> records whose pieces a repair cut off
    rest,     \* Procs -> jobs of its scan not yet done
    since,    \* Procs -> what was acknowledged when its scan began
    seen,     \* Procs -> records its scan read
    corrupt   \* Procs -> its scan met a corrupt line

files    == <<exists, file, disk, entry, side, torn>>
scanVars == <<rest, since, seen, corrupt>>
runVars  == <<handle, on, after, fresh, rec>>
vars     == <<files, lock, clock, pc, runVars, used, acked, scanVars>>

Journal(m) == <<m, "jsonl">>
Sidecar(m) == <<m, "corrupt">>
Names(months, sidecars) == {Journal(m) : m \in months} \cup {Sidecar(m) : m \in sidecars}

Places == {"closed", "create", "syncDir", "ready", "lock", "write", "writing", "sync",
           "repair", "quarantine", "truncate", "repairSync", "scan", "scanned"}

(* A scan repairs every file it found, then reads every file it found, in  *)
(* the order of the months.                                                *)
Jobs == {"repair", "read"} \X Months

TypeOK ==
    /\ exists \subseteq Months
    /\ file \in [Months -> Seq(Piece)]
    /\ disk \in [Months -> Seq(Piece)]
    /\ entry \subseteq Names(Months, Months)
    /\ side \in [Months -> SUBSET Records]
    /\ torn \in [Months -> SUBSET Records]
    /\ lock \in [Months -> Procs \cup {Nobody}]
    /\ clock \in Months
    /\ pc \in [Procs -> Places]
    /\ handle \in [Procs -> Months \cup {0}]
    /\ on \in [Procs -> Months \cup {0}]
    /\ after \in [Procs -> {"none", "open", "append", "scan"}]
    /\ fresh \in [Procs -> BOOLEAN]
    /\ rec \in [Procs -> Records \cup {0}]
    /\ used \in 0..MaxRecord
    /\ acked \subseteq Records
    /\ rest \in [Procs -> SUBSET Jobs]
    /\ since \in [Procs -> SUBSET Records]
    /\ seen \in [Procs -> SUBSET Records]
    /\ corrupt \in [Procs -> BOOLEAN]

Init ==
    /\ exists = Existing
    /\ file = [m \in Months |-> <<>>]
    /\ disk = [m \in Months |-> <<>>]
    /\ entry = Names(Existing, {})
    /\ side = [m \in Months |-> {}]
    /\ torn = [m \in Months |-> {}]
    /\ lock = [m \in Months |-> Nobody]
    /\ clock = 1
    /\ pc = [p \in Procs |-> "closed"]
    /\ handle = [p \in Procs |-> 0]
    /\ on = [p \in Procs |-> 0]
    /\ after = [p \in Procs |-> "none"]
    /\ fresh = [p \in Procs |-> FALSE]
    /\ rec = [p \in Procs |-> 0]
    /\ used = 0
    /\ acked = {}
    /\ rest = [p \in Procs |-> {}]
    /\ since = [p \in Procs |-> {}]
    /\ seen = [p \in Procs |-> {}]
    /\ corrupt = [p \in Procs |-> FALSE]

-----------------------------------------------------------------------------
(* What readers make of a file.                                            *)

(* The piece starts a line, and nothing follows it on that line.           *)
Readable(f, i) ==
    /\ f[i].cut # "part"
    /\ i > 1 => f[i - 1].cut = "whole"
    /\ f[i].cut = "bare" => i = Len(f)

Good(f) == {f[i].rec : i \in {j \in DOMAIN f : Readable(f, j)}}

Damaged(f) == \E i \in DOMAIN f : ~Readable(f, i)

(* Records of which there is something in the file.                        *)
Landed(m) == {file[m][i].rec : i \in DOMAIN file[m]}

(* The file ends in a newline; where its last newline is.                  *)
CleanTail(f) == f = <<>> \/ f[Len(f)].cut = "whole"

LastNewline(f) ==
    CHOOSE n \in 0..Len(f) :
        /\ n = 0 \/ f[n].cut = "whole"
        /\ \A i \in n + 1..Len(f) : f[i].cut # "whole"

Torn(f) == {f[i].rec : i \in LastNewline(f) + 1..Len(f)}

-----------------------------------------------------------------------------
(* Opening a month.                                                        *)

Unlock(p) == lock' = [m \in Months |-> IF lock[m] = p THEN Nobody ELSE lock[m]]

Goto(p, place) == pc' = [pc EXCEPT ![p] = place]

(* Mutant: the month of the local time, one ahead of UTC.                  *)
OpenMonthLocalTime(p, why) ==
    /\ on' = [on EXCEPT ![p] = clock + 1]
    /\ fresh' = [fresh EXCEPT ![p] = clock + 1 \notin exists]
    /\ after' = [after EXCEPT ![p] = why]
    /\ Goto(p, "create")

(* openMonth: stat, to know whether it is this process that creates it.    *)
OpenMonth(p, why) ==
    /\ on' = [on EXCEPT ![p] = clock]
    /\ fresh' = [fresh EXCEPT ![p] = clock \notin exists]
    /\ after' = [after EXCEPT ![p] = why]
    /\ Goto(p, "create")

Open(p) ==
    /\ pc[p] = "closed"
    /\ OpenMonth(p, "open")
    /\ UNCHANGED <<files, lock, clock, handle, rec, used, acked, scanVars>>

(* open(O_CREATE); a file that was there may have a torn tail.             *)
Create(p) ==
    /\ pc[p] = "create"
    /\ exists' = exists \cup {on[p]}
    /\ Goto(p, IF fresh[p] THEN "syncDir" ELSE "repair")
    /\ UNCHANGED <<file, disk, entry, side, torn, lock, clock, runVars, used, acked,
                   scanVars>>

(* openMonth returns: to Open, or to the append that had to rotate.        *)
Opened(p) ==
    /\ handle' = [handle EXCEPT ![p] = on[p]]
    /\ Goto(p, IF after[p] = "append" THEN "lock" ELSE "ready")
    /\ UNCHANGED rest

(* fsync of the directory makes every name in it durable.                  *)
SyncDir(p) ==
    /\ pc[p] = "syncDir"
    /\ entry' = Names(exists, {m \in Months : side[m] # {}})
    /\ Opened(p)
    /\ UNCHANGED <<exists, file, disk, side, torn, lock, clock, on, after, fresh, rec,
                   used, acked, since, seen, corrupt>>

-----------------------------------------------------------------------------
(* repairTornTail, under the flock.                                        *)

(* The repair is over: back to openMonth, or to the scan.                  *)
Repaired(p) ==
    IF after[p] = "scan"
    THEN /\ rest' = [rest EXCEPT ![p] = @ \ {<<"repair", on[p]>>}]
         /\ Goto(p, "scan")
         /\ UNCHANGED handle
    ELSE Opened(p)

(* Mutant: without the flock.                                              *)
CheckTailUnlocked(p) ==
    /\ pc[p] = "repair"
    /\ IF CleanTail(file[on[p]])
       THEN Repaired(p)
       ELSE Goto(p, "quarantine") /\ UNCHANGED <<handle, rest>>
    /\ UNCHANGED <<files, lock, clock, on, after, fresh, rec, used, acked, since, seen,
                   corrupt>>

CheckTail(p) ==
    /\ pc[p] = "repair"
    /\ lock[on[p]] = Nobody
    /\ IF CleanTail(file[on[p]])
       THEN Repaired(p) /\ UNCHANGED lock
       ELSE /\ lock' = [lock EXCEPT ![on[p]] = p]
            /\ Goto(p, "quarantine")
            /\ UNCHANGED <<handle, rest>>
    /\ UNCHANGED <<files, clock, on, after, fresh, rec, used, acked, since, seen, corrupt>>

(* The torn bytes go to the sidecar and are fsynced there.                 *)
Quarantine(p) ==
    /\ pc[p] = "quarantine"
    /\ side' = [side EXCEPT ![on[p]] = @ \cup Torn(file[on[p]])]
    /\ Goto(p, "truncate")
    /\ UNCHANGED <<exists, file, disk, entry, torn, lock, clock, runVars, used, acked,
                   scanVars>>

(* Mutant: the file ends before its last whole line, not after it.         *)
TruncateLineTooFar(p) ==
    /\ pc[p] = "truncate"
    /\ LET f == file[on[p]]
           n == IF LastNewline(f) = 0 THEN 0 ELSE LastNewline(f) - 1
       IN  /\ torn' = [torn EXCEPT ![on[p]] = @ \cup {f[i].rec : i \in n + 1..Len(f)}]
           /\ file' = [file EXCEPT ![on[p]] = SubSeq(f, 1, n)]
    /\ Goto(p, "repairSync")
    /\ UNCHANGED <<exists, disk, entry, side, lock, clock, runVars, used, acked, scanVars>>

Truncate(p) ==
    /\ pc[p] = "truncate"
    /\ torn' = [torn EXCEPT ![on[p]] = @ \cup Torn(file[on[p]])]
    /\ file' = [file EXCEPT ![on[p]] = SubSeq(@, 1, LastNewline(@))]
    /\ Goto(p, "repairSync")
    /\ UNCHANGED <<exists, disk, entry, side, lock, clock, runVars, used, acked, scanVars>>

RepairSync(p) ==
    /\ pc[p] = "repairSync"
    /\ disk' = [disk EXCEPT ![on[p]] = file[on[p]]]
    /\ Unlock(p)
    /\ Repaired(p)
    /\ UNCHANGED <<exists, file, entry, side, torn, clock, on, after, fresh, rec, used,
                   acked, since, seen, corrupt>>

-----------------------------------------------------------------------------
(* Appending a record.                                                     *)

(* Ledger.append: the file is the current month's, or it is opened first.  *)
BeginAppend(p) ==
    /\ pc[p] = "ready"
    /\ used < MaxRecord
    /\ used' = used + 1
    /\ rec' = [rec EXCEPT ![p] = used + 1]
    /\ \/ /\ handle[p] = clock
          /\ Goto(p, "lock")
          /\ UNCHANGED <<on, after, fresh>>
       \/ /\ handle[p] # clock
          /\ OpenMonth(p, "append")
    /\ UNCHANGED <<files, lock, clock, handle, acked, scanVars>>

(* Mutant: the flock is not waited for.                                    *)
LockFileNoWait(p) ==
    /\ pc[p] = "lock"
    /\ lock' = [lock EXCEPT ![handle[p]] = p]
    /\ Goto(p, "write")
    /\ UNCHANGED <<files, clock, runVars, used, acked, scanVars>>

LockFile(p) ==
    /\ pc[p] = "lock"
    /\ lock[handle[p]] = Nobody
    /\ lock' = [lock EXCEPT ![handle[p]] = p]
    /\ Goto(p, "write")
    /\ UNCHANGED <<files, clock, runVars, used, acked, scanVars>>

Put(p, cut) ==
    file' = [file EXCEPT ![handle[p]] = Append(@, [rec |-> rec[p], cut |-> cut])]

(* write(2) takes the whole line, or some of it and is called again.       *)
Write(p) ==
    /\ pc[p] = "write"
    /\ \/ Put(p, "whole") /\ Goto(p, "sync")
       \/ \E cut \in {"bare", "part"} : Put(p, cut) /\ Goto(p, "writing")
    /\ UNCHANGED <<exists, disk, entry, side, torn, lock, clock, runVars, used, acked,
                   scanVars>>

(* The rest of the line lands at the end of the file.                      *)
WriteRest(p) ==
    /\ pc[p] = "writing"
    /\ LET f == file[handle[p]] IN
       IF f # <<>> /\ f[Len(f)].rec = rec[p]
       THEN file' = [file EXCEPT ![handle[p]][Len(f)].cut = "whole"]
       ELSE Put(p, "part")
    /\ Goto(p, "sync")
    /\ UNCHANGED <<exists, disk, entry, side, torn, lock, clock, runVars, used, acked,
                   scanVars>>

(* Mutant: the append returns without an fsync.                            *)
SyncNothing(p) ==
    /\ pc[p] = "sync"
    /\ acked' = acked \cup {rec[p]}
    /\ rec' = [rec EXCEPT ![p] = 0]
    /\ Unlock(p)
    /\ Goto(p, "ready")
    /\ UNCHANGED <<files, clock, handle, on, after, fresh, used, scanVars>>

(* fsync, then the append is acknowledged.                                 *)
Sync(p) ==
    /\ pc[p] = "sync"
    /\ disk' = [disk EXCEPT ![handle[p]] = file[handle[p]]]
    /\ acked' = acked \cup {rec[p]}
    /\ rec' = [rec EXCEPT ![p] = 0]
    /\ Unlock(p)
    /\ Goto(p, "ready")
    /\ UNCHANGED <<exists, file, entry, side, torn, clock, handle, on, after, fresh, used,
                   scanVars>>

-----------------------------------------------------------------------------
(* Unresolved and AssignedStopOrderIDs: repair all, then read all.         *)

(* Mutant: only the file the process appends to is scanned.                *)
ScanStartOwnFile(p) ==
    /\ pc[p] = "ready"
    /\ rest' = [rest EXCEPT ![p] = {"repair", "read"} \X {handle[p]}]
    /\ since' = [since EXCEPT ![p] = acked]
    /\ after' = [after EXCEPT ![p] = "scan"]
    /\ Goto(p, "scan")
    /\ UNCHANGED <<files, lock, clock, handle, on, fresh, rec, used, acked, seen, corrupt>>

ScanStart(p) ==
    /\ pc[p] = "ready"
    /\ rest' = [rest EXCEPT ![p] = {"repair", "read"} \X exists]
    /\ since' = [since EXCEPT ![p] = acked]
    /\ after' = [after EXCEPT ![p] = "scan"]
    /\ Goto(p, "scan")
    /\ UNCHANGED <<files, lock, clock, handle, on, fresh, rec, used, acked, seen, corrupt>>

ScanRepair(p, m) ==
    /\ pc[p] = "scan"
    /\ <<"repair", m>> \in rest[p]
    /\ \A j \in rest[p] : j[1] = "repair" => m <= j[2]
    /\ on' = [on EXCEPT ![p] = m]
    /\ Goto(p, "repair")
    /\ UNCHANGED <<files, lock, clock, handle, after, fresh, rec, used, acked, scanVars>>

(* Mutant: corrupt lines are skipped and not reported.                     *)
ScanReadSilent(p, m) ==
    /\ pc[p] = "scan"
    /\ <<"read", m>> \in rest[p]
    /\ \A j \in rest[p] : j[1] = "read" /\ m <= j[2]
    /\ rest' = [rest EXCEPT ![p] = @ \ {<<"read", m>>}]
    /\ seen' = [seen EXCEPT ![p] = @ \cup Good(file[m])]
    /\ Goto(p, IF rest'[p] = {} THEN "scanned" ELSE "scan")
    /\ UNCHANGED <<files, lock, clock, runVars, used, acked, since, corrupt>>

(* Readers take no lock.                                                   *)
ScanRead(p, m) ==
    /\ pc[p] = "scan"
    /\ <<"read", m>> \in rest[p]
    /\ \A j \in rest[p] : j[1] = "read" /\ m <= j[2]
    /\ rest' = [rest EXCEPT ![p] = @ \ {<<"read", m>>}]
    /\ seen' = [seen EXCEPT ![p] = @ \cup Good(file[m])]
    /\ corrupt' = [corrupt EXCEPT ![p] = @ \/ Damaged(file[m])]
    /\ Goto(p, IF rest'[p] = {} THEN "scanned" ELSE "scan")
    /\ UNCHANGED <<files, lock, clock, runVars, used, acked, since>>

(* The process lets go of the scan's result.                               *)
ForgetScan(p) ==
    /\ rest' = [rest EXCEPT ![p] = {}]
    /\ since' = [since EXCEPT ![p] = {}]
    /\ seen' = [seen EXCEPT ![p] = {}]
    /\ corrupt' = [corrupt EXCEPT ![p] = FALSE]

ScanEnd(p) ==
    /\ pc[p] = "scanned"
    /\ ForgetScan(p)
    /\ Goto(p, "ready")
    /\ UNCHANGED <<files, lock, clock, runVars, used, acked>>

-----------------------------------------------------------------------------
(* What fails.                                                             *)

(* A system call returns an error: the operation is given up, the flock    *)
(* released, what was written stays.                                       *)
Fail(p) ==
    /\ pc[p] \in {"create", "syncDir", "repair", "quarantine", "truncate", "repairSync",
                  "lock", "write", "writing", "sync"}
    /\ pc[p] = "writing" => ShortWrites
    /\ Goto(p, IF handle[p] = 0 THEN "closed" ELSE "ready")
    /\ rec' = [rec EXCEPT ![p] = 0]
    /\ ForgetScan(p)
    /\ Unlock(p)
    /\ UNCHANGED <<files, clock, handle, on, after, fresh, used, acked>>

Reset(P) ==
    /\ pc' = [p \in Procs |-> IF p \in P THEN "closed" ELSE pc[p]]
    /\ handle' = [p \in Procs |-> IF p \in P THEN 0 ELSE handle[p]]
    /\ rec' = [p \in Procs |-> IF p \in P THEN 0 ELSE rec[p]]
    /\ rest' = [p \in Procs |-> IF p \in P THEN {} ELSE rest[p]]
    /\ since' = [p \in Procs |-> IF p \in P THEN {} ELSE since[p]]
    /\ seen' = [p \in Procs |-> IF p \in P THEN {} ELSE seen[p]]
    /\ corrupt' = [p \in Procs |-> IF p \in P THEN FALSE ELSE corrupt[p]]
    /\ lock' = [m \in Months |-> IF lock[m] \in P THEN Nobody ELSE lock[m]]
    /\ UNCHANGED <<on, after, fresh>>

(* Ledger.Close, or the process is killed.                                 *)
Leave(p) ==
    /\ pc[p] # "closed"
    /\ pc[p] = "writing" => ShortWrites
    /\ Reset({p})
    /\ UNCHANGED <<files, clock, used, acked>>

(* What the disk may hold of a file after the machine stopped: what was    *)
(* fsynced and as much of the rest as got there.                           *)
Survivors(m) ==
    LET f == file[m]
        d == disk[m]
        kept == Len(d)..Len(f)
    IN  {d, f} \cup
        IF Len(d) <= Len(f) /\ SubSeq(f, 1, Len(d)) = d
        THEN {SubSeq(f, 1, n) : n \in kept}
             \cup {Append(SubSeq(f, 1, n), [rec |-> f[n + 1].rec, cut |-> "part"])
                     : n \in kept \ {Len(f)}}
        ELSE {}

(* A name whose directory was never fsynced may be gone with its file.     *)
PowerLoss ==
    /\ PowerFails
    /\ \E gone \in SUBSET {m \in exists : Journal(m) \notin entry},
          lost \in SUBSET {m \in Months : Sidecar(m) \notin entry} :
         /\ exists' = exists \ gone
         /\ file' \in {g \in [Months -> UNION {Survivors(m) \cup {<<>>} : m \in Months}] :
                         \A m \in Months : IF m \in gone THEN g[m] = <<>>
                                           ELSE g[m] \in Survivors(m)}
         /\ side' = [m \in Months |-> IF m \in lost THEN {} ELSE side[m]]
    /\ disk' = file'
    /\ Reset(Procs)
    /\ UNCHANGED <<entry, torn, clock, used, acked>>

NextMonth ==
    /\ clock < MaxMonth
    /\ clock' = clock + 1
    /\ UNCHANGED <<files, lock, pc, runVars, used, acked, scanVars>>

Step(p) ==
    \/ Open(p) \/ Create(p) \/ SyncDir(p)
    \/ CheckTail(p) \/ Quarantine(p) \/ Truncate(p) \/ RepairSync(p)
    \/ BeginAppend(p) \/ LockFile(p) \/ Write(p) \/ WriteRest(p) \/ Sync(p)
    \/ ScanStart(p) \/ (\E m \in Months : ScanRepair(p, m) \/ ScanRead(p, m)) \/ ScanEnd(p)
    \/ Fail(p) \/ Leave(p)

Next == (\E p \in Procs : Step(p)) \/ PowerLoss \/ NextMonth

Spec == Init /\ [][Next]_vars

-----------------------------------------------------------------------------
(* Properties.                                                             *)

(* An append that returned nil left a record every later scan reads: torn  *)
(* tails are repaired before anything lands on them, names are durable.    *)
AckedReadable ==
    \A r \in acked : \E m \in exists : r \in Good(file[m])

(* A scan that reports no corruption has read every record acknowledged    *)
(* before it began, whatever was appended, repaired or rotated meanwhile.  *)
ScanComplete ==
    \A p \in Procs : pc[p] = "scanned" /\ ~corrupt[p] => since[p] \subseteq seen[p]

(* A repair cuts off nothing that was acknowledged, and nothing that is    *)
(* not in the sidecar, unless the machine stopped and it is back.          *)
RepairHarmless ==
    \A m \in Months : \A r \in torn[m] :
        r \notin acked /\ (r \in side[m] \/ r \in Landed(m))
=============================================================================
