---------------------------- MODULE LedgerProofs ----------------------------
(***************************************************************************)
(* For any processes, months and records: Ledger is well typed; while the  *)
(* machine does not stop, repairs cut off nothing acknowledged; while no   *)
(* write fails half way, and files whose machine may stop were durable     *)
(* from the start, every acknowledged record stays readable; and in either *)
(* case a scan that reports no corruption is complete.                     *)
(***************************************************************************)
EXTENDS Ledger, SequenceTheorems, WellFoundedInduction, TLAPS

(* The machine does not stop.                                              *)
Powered == ~PowerFails

(* No write fails half way, and names are durable where they can be lost.  *)
Sound == ~ShortWrites /\ (PowerFails => Existing = Months)

-----------------------------------------------------------------------------
(* The inductive invariants.                                               *)

Repairing == {"quarantine", "truncate", "repairSync"}
Opening   == {"create", "syncDir", "repair"} \cup Repairing
Appending == {"write", "writing", "sync"}

(* Where a process is says which flock it holds and what it has in hand.   *)
PlaceOf(p) ==
    /\ handle[p] # 0 => handle[p] \in exists
    /\ pc[p] \in {"lock"} \cup Appending => handle[p] # 0
    /\ pc[p] \in Appending => lock[handle[p]] = p
    /\ pc[p] \in Opening => on[p] \in Months
    /\ pc[p] \in Opening \ {"create"} => on[p] \in exists
    /\ pc[p] \in Opening => after[p] # "none"
    /\ pc[p] \in {"create", "syncDir"} => after[p] # "scan"
    /\ pc[p] \in Repairing => lock[on[p]] = p
    /\ pc[p] = "scan" => after[p] = "scan"
    /\ rec[p] # 0 <=> \/ pc[p] \in {"lock"} \cup Appending
                      \/ pc[p] \in Opening /\ after[p] = "append"
    /\ \A j \in rest[p] : j[2] \in exists
    /\ pc[p] = "scanned" => rest[p] = {}
PlaceInv == \A p \in Procs : PlaceOf(p)

(* Under its flock a process finds its own record at the end of the file.  *)
TailOf(p) ==
    pc[p] \in {"writing", "sync"} =>
        LET f == file[handle[p]] IN
        /\ f # <<>>
        /\ f[Len(f)].rec = rec[p]
        /\ f[Len(f)].cut = "whole" <=> pc[p] = "sync"
TailInv == \A p \in Procs : TailOf(p)

(* The file has a line with the record and its newline.                    *)
Holds(f, r) == \E i \in DOMAIN f : f[i].rec = r /\ f[i].cut = "whole"

KeptInv == \A r \in acked : \E m \in exists : Holds(file[m], r)

ScanOf(p) ==
    \A r \in since[p] :
        \/ r \in seen[p]
        \/ corrupt[p]
        \/ \E m \in exists : <<"read", m>> \in rest[p] /\ Holds(file[m], r)
ScanInv == \A p \in Procs : ScanOf(p)

(* A record is written by one process, once, and is then acknowledged or   *)
(* given up.                                                               *)
RecordOf(p) ==
    rec[p] # 0 =>
        /\ rec[p] <= used
        /\ rec[p] \notin acked
        /\ \A m \in Months : rec[p] \notin torn[m]
        /\ pc[p] \notin {"writing", "sync"} => \A m \in Months : rec[p] \notin Landed(m)
        /\ \A q \in Procs : rec[q] = rec[p] => q = p
RecordInv ==
    /\ \A p \in Procs : RecordOf(p)
    /\ \A r \in acked : r <= used
    /\ \A m \in Months : \A r \in Landed(m) \cup torn[m] : r <= used
    /\ \A m, n \in Months : \A i \in DOMAIN file[m], j \in DOMAIN file[n] :
         file[m][i].rec = file[n][j].rec => m = n /\ i = j

CutInv ==
    /\ \A m \in Months : \A r \in torn[m] : r \notin acked /\ r \in side[m]
    /\ \A p \in Procs : pc[p] = "truncate" => Torn(file[on[p]]) \subseteq side[on[p]]

(* Only the last line of a file may lack its newline.                      *)
WholeLines(f) == \A i \in DOMAIN f : i < Len(f) => f[i].cut = "whole"

UnderWay(m) == \E p \in Procs : pc[p] = "writing" /\ handle[p] = m

DurableInv ==
    /\ PowerFails => /\ exists = Months
                     /\ \A m \in Months : Journal(m) \in entry
                     /\ \A p \in Procs : pc[p] # "syncDir" /\ ~fresh[p]
    /\ \A m \in Months : WholeLines(file[m]) /\ WholeLines(disk[m])
    /\ \A m \in Months : Powered \/ (\E p \in Procs : handle[p] = m) =>
         CleanTail(file[m]) \/ UnderWay(m)
    /\ \A p \in Procs : pc[p] = "repairSync" => CleanTail(file[on[p]])
    /\ \A r \in acked : \E m \in exists : Holds(file[m], r) /\ Holds(disk[m], r)

-----------------------------------------------------------------------------
(* Files.                                                                  *)

Smaller == {ss \in Nat \X Nat : ss[1] < ss[2]}

LEMMA SmallerIsWellFounded == IsWellFoundedOn(Smaller, Nat)
BY NatLessThanWellFounded DEF OpToRel, Smaller

LEMMA HasLeast ==
    ASSUME NEW T \in SUBSET Nat, T # {}
    PROVE  \E x \in T : \A y \in T : x <= y
  <1>1. PICK x \in T : \A y \in T : ~ (<<y, x>> \in Smaller)
    BY SmallerIsWellFounded, WFMin
  <1>2. ASSUME NEW y \in T PROVE x <= y
    <2>1. <<y, x>> \in Nat \X Nat /\ <<y, x>>[1] = y /\ <<y, x>>[2] = x
      OBVIOUS
    <2>2. ~(y < x)
      BY <1>1, <2>1 DEF Smaller
    <2> QED BY <2>2
  <1> QED BY <1>2

(* There is a last newline, and nothing after it is whole.                 *)
LEMMA LastNewlineIs ==
    ASSUME NEW f \in Seq(Piece)
    PROVE  LET n == LastNewline(f) IN
           /\ n \in 0..Len(f)
           /\ n = 0 \/ f[n].cut = "whole"
           /\ \A i \in n + 1..Len(f) : f[i].cut # "whole"
  <1> DEFINE Ends(n) == /\ n = 0 \/ f[n].cut = "whole"
                        /\ \A i \in n + 1..Len(f) : f[i].cut # "whole"
             T == {k \in 0..Len(f) : k = Len(f) \/ f[Len(f) - k].cut = "whole"}
  <1>1. Len(f) \in Nat
    OBVIOUS
  <1>2. PICK k \in T : \A j \in T : k <= j
    <2>1. T \in SUBSET Nat /\ Len(f) \in T
      BY <1>1
    <2> QED BY <2>1, HasLeast
  <1>3. ASSUME NEW i \in (Len(f) - k) + 1..Len(f) PROVE f[i].cut # "whole"
    <2>1. Len(f) - i \in 0..Len(f) /\ Len(f) - (Len(f) - i) = i /\ Len(f) - i < k
      BY <1>1
    <2> QED BY <1>1, <1>2, <2>1
  <1>4. Len(f) - k \in 0..Len(f) /\ (Len(f) - k = 0 \/ f[Len(f) - k].cut = "whole")
    BY <1>1
  <1>5. \E n \in 0..Len(f) : Ends(n)
    BY <1>3, <1>4
  <1> QED BY <1>5 DEF LastNewline

(* What is left of a file a repair cut short.                              *)
LEMMA CutShort ==
    ASSUME NEW f \in Seq(Piece), NEW n \in 0..Len(f)
    PROVE  LET g == SubSeq(f, 1, n) IN
           /\ g \in Seq(Piece) /\ Len(g) = n /\ DOMAIN g = 1..n /\ DOMAIN g \subseteq DOMAIN f
           /\ \A i \in 1..n : g[i] = f[i]
OBVIOUS

LEMMA RepairKeepsWhole ==
    ASSUME NEW f \in Seq(Piece)
    PROVE  LET g == SubSeq(f, 1, LastNewline(f)) IN
           /\ g \in Seq(Piece)
           /\ DOMAIN g \subseteq DOMAIN f /\ \A i \in DOMAIN g : g[i] = f[i]
           /\ CleanTail(g)
           /\ \A r \in Records : Holds(f, r) => Holds(g, r)
           /\ \A i \in DOMAIN f : f[i].cut = "whole" => i \in DOMAIN g
  <1> DEFINE n == LastNewline(f)
             g == SubSeq(f, 1, n)
  <1>1. /\ n \in 0..Len(f)
        /\ n = 0 \/ f[n].cut = "whole"
        /\ \A i \in n + 1..Len(f) : f[i].cut # "whole"
    BY LastNewlineIs
  <1>2. /\ g \in Seq(Piece) /\ Len(g) = n /\ DOMAIN g = 1..n
        /\ \A i \in 1..n : g[i] = f[i]
        /\ DOMAIN f = 1..Len(f) /\ Len(f) \in Nat
    BY <1>1, CutShort
  <1>3. \A i \in DOMAIN f : f[i].cut = "whole" => i \in DOMAIN g
    BY <1>1, <1>2
  <1>4. CleanTail(g)
    BY <1>1, <1>2 DEF CleanTail
  <1> QED BY <1>1, <1>2, <1>3, <1>4 DEF Holds

(* A file with one more piece, and one whose last piece was finished.      *)
LEMMA OneMore ==
    ASSUME NEW f \in Seq(Piece), NEW x \in Piece
    PROVE  LET g == Append(f, x) IN
           /\ g \in Seq(Piece) /\ Len(g) = Len(f) + 1 /\ g # <<>>
           /\ Len(f) \in Nat /\ DOMAIN f = 1..Len(f) /\ DOMAIN g = 1..Len(f) + 1
           /\ \A i \in 1..Len(f) : g[i] = f[i]
           /\ g[Len(f) + 1] = x
BY AppendProperties, LenProperties

LEMMA Finished ==
    ASSUME NEW f \in Seq(Piece), f # <<>>
    PROVE  LET g == [f EXCEPT ![Len(f)].cut = "whole"] IN
           /\ g \in Seq(Piece) /\ Len(g) = Len(f) /\ g # <<>>
           /\ Len(f) \in Nat \ {0} /\ DOMAIN f = 1..Len(f) /\ DOMAIN g = 1..Len(f)
           /\ \A i \in 1..Len(f) : i # Len(f) => g[i] = f[i]
           /\ g[Len(f)].rec = f[Len(f)].rec /\ g[Len(f)].cut = "whole"
  <1>1. Len(f) \in Nat \ {0} /\ DOMAIN f = 1..Len(f) /\ f \in [1..Len(f) -> Piece]
    BY EmptySeq, LenProperties
  <1>2. f[Len(f)] \in Piece
    BY <1>1
  <1>3. [f[Len(f)] EXCEPT !.cut = "whole"] \in Piece
    BY <1>2 DEF Piece
  <1>4. [f EXCEPT ![Len(f)].cut = "whole"] = [f EXCEPT ![Len(f)] = [f[Len(f)] EXCEPT !.cut = "whole"]]
    OBVIOUS
  <1>5. /\ [f[Len(f)] EXCEPT !.cut = "whole"].rec = f[Len(f)].rec
        /\ [f[Len(f)] EXCEPT !.cut = "whole"].cut = "whole"
    BY <1>2 DEF Piece
  <1> QED BY <1>1, <1>3, <1>4, <1>5, ExceptSeq, LenProperties, EmptySeq

-----------------------------------------------------------------------------
(* Types.                                                                  *)

LEMMA InitTypeOK == Init => TypeOK
  <1> SUFFICES ASSUME Init PROVE TypeOK
    OBVIOUS
  <1> USE LedgerAssumption DEF LedgerAssumption, Init
  <1>1. file \in [Months -> Seq(Piece)] /\ disk \in [Months -> Seq(Piece)]
    BY EmptySeq
  <1>2. exists \subseteq Months /\ clock \in Months /\ used \in 0..MaxRecord
    BY DEF Months
  <1>3. entry \subseteq Names(Months, Months)
    BY DEF Names, Months
  <1>4. pc \in [Procs -> Places] /\ lock \in [Months -> Procs \cup {Nobody}]
    BY DEF Places
  <1> QED BY <1>1, <1>2, <1>3, <1>4 DEF TypeOK

LEMMA RecordsOf ==
    ASSUME NEW f \in Seq(Piece)
    PROVE  Torn(f) \subseteq Records /\ Good(f) \subseteq Records
  <1>0. \A i \in 1..Len(f) : f[i] \in Piece
    BY ElementOfSeq
  <1>1. \A i \in 1..Len(f) : f[i].rec \in Records
    BY <1>0 DEF Piece
  <1>2. LastNewline(f) \in 0..Len(f) /\ DOMAIN f = 1..Len(f) /\ Len(f) \in Nat
    BY LastNewlineIs, LenProperties
  <1>3. \A i \in LastNewline(f) + 1..Len(f) : i \in 1..Len(f)
    BY <1>2
  <1> QED BY <1>1, <1>2, <1>3 DEF Torn, Good

LEMMA OpenedTyped ==
    ASSUME TypeOK, NEW p \in Procs, on[p] \in Months, Opened(p)
    PROVE  handle' \in [Procs -> Months \cup {0}] /\ pc' \in [Procs -> Places] /\ rest' = rest
BY DEF TypeOK, Opened, Goto, Places

LEMMA RepairedTyped ==
    ASSUME TypeOK, NEW p \in Procs, on[p] \in Months, Repaired(p)
    PROVE  handle' \in [Procs -> Months \cup {0}] /\ pc' \in [Procs -> Places]
           /\ rest' \in [Procs -> SUBSET Jobs]
  <1>1. CASE after[p] = "scan"
    <2> DEFINE left == rest[p] \ {<<"repair", on[p]>>}
    <2>1. left \in SUBSET Jobs /\ rest' = [rest EXCEPT ![p] = left]
      BY <1>1 DEF TypeOK, Repaired
    <2> HIDE DEF left
    <2>2. rest' \in [Procs -> SUBSET Jobs]
      BY <2>1 DEF TypeOK
    <2> QED BY <1>1, <2>2 DEF TypeOK, Repaired, Goto, Places
  <1>2. CASE after[p] # "scan"
    BY <1>2, OpenedTyped DEF TypeOK, Repaired
  <1> QED BY <1>1, <1>2

LEMMA UnlockTyped ==
    ASSUME TypeOK, NEW p, Unlock(p)
    PROVE  lock' \in [Months -> Procs \cup {Nobody}]
BY DEF TypeOK, Unlock

LEMMA ForgetTyped ==
    ASSUME TypeOK, NEW p \in Procs, ForgetScan(p)
    PROVE  /\ rest' \in [Procs -> SUBSET Jobs]
           /\ since' \in [Procs -> SUBSET Records]
           /\ seen' \in [Procs -> SUBSET Records]
           /\ corrupt' \in [Procs -> BOOLEAN]
BY DEF TypeOK, ForgetScan

LEMMA PutTyped ==
    ASSUME TypeOK, NEW p \in Procs, rec[p] \in Records, NEW cut \in {"whole", "bare", "part"},
           Put(p, cut)
    PROVE  file' \in [Months -> Seq(Piece)]
  <1>1. [rec |-> rec[p], cut |-> cut] \in Piece
    BY DEF Piece
  <1> QED BY <1>1, AppendProperties DEF TypeOK, Put

(* Opening and repairing keep the types.                                   *)
LEMMA OpenTypeOK ==
    ASSUME TypeOK, PlaceInv, NEW p \in Procs,
           Open(p) \/ Create(p) \/ SyncDir(p) \/ CheckTail(p) \/ Quarantine(p) \/ Truncate(p)
             \/ RepairSync(p)
    PROVE  TypeOK'
  <1> USE LedgerAssumption DEF LedgerAssumption, TypeOK, files, runVars, scanVars
  <1>1. pc[p] \in Opening => on[p] \in Months
    BY DEF PlaceInv, PlaceOf
  <1>2. CASE Open(p)
    BY <1>2 DEF Open, OpenMonth, Goto, Places
  <1>3. CASE Create(p)
    BY <1>1, <1>3 DEF Create, Goto, Places, Opening
  <1>4. CASE SyncDir(p)
    <2>1. handle' \in [Procs -> Months \cup {0}] /\ pc' \in [Procs -> Places] /\ rest' = rest
      BY <1>1, <1>4, OpenedTyped DEF SyncDir, Opening
    <2>2. entry' \subseteq Names(Months, Months)
      BY <1>4 DEF SyncDir, Names
    <2> QED BY <1>4, <2>1, <2>2 DEF SyncDir
  <1>5. CASE CheckTail(p)
    <2>1. CASE CleanTail(file[on[p]])
      BY <1>1, <1>5, <2>1, RepairedTyped DEF CheckTail, Opening
    <2>2. CASE ~CleanTail(file[on[p]])
      BY <1>5, <2>2 DEF CheckTail, Goto, Places
    <2> QED BY <2>1, <2>2
  <1>6. CASE Quarantine(p)
    <2>1. on[p] \in Months /\ file[on[p]] \in Seq(Piece)
      BY <1>1, <1>6 DEF Quarantine, Opening, Repairing
    <2>2. Torn(file[on[p]]) \subseteq Records
      BY <2>1, RecordsOf
    <2> QED BY <1>6, <2>1, <2>2 DEF Quarantine, Goto, Places
  <1>7. CASE Truncate(p)
    <2>1. on[p] \in Months /\ file[on[p]] \in Seq(Piece)
      BY <1>1, <1>7 DEF Truncate, Opening, Repairing
    <2>2. Torn(file[on[p]]) \subseteq Records
      BY <2>1, RecordsOf
    <2>3. SubSeq(file[on[p]], 1, LastNewline(file[on[p]])) \in Seq(Piece)
      BY <2>1, RepairKeepsWhole
    <2> QED BY <1>7, <2>1, <2>2, <2>3 DEF Truncate, Goto, Places
  <1>8. CASE RepairSync(p)
    BY <1>1, <1>8, RepairedTyped, UnlockTyped DEF RepairSync, Opening, Repairing
  <1> QED BY <1>2, <1>3, <1>4, <1>5, <1>6, <1>7, <1>8

(* So does appending.                                                      *)
LEMMA AppendTypeOK ==
    ASSUME TypeOK, PlaceInv, TailInv, NEW p \in Procs,
           BeginAppend(p) \/ LockFile(p) \/ Write(p) \/ WriteRest(p) \/ Sync(p)
    PROVE  TypeOK'
  <1> USE LedgerAssumption DEF LedgerAssumption, TypeOK, files, runVars, scanVars
  <1>1. pc[p] \in {"lock"} \cup Appending => handle[p] \in Months /\ rec[p] \in Records
    BY DEF PlaceInv, PlaceOf
  <1>2. CASE BeginAppend(p)
    <2>1. used' \in 0..MaxRecord /\ rec' \in [Procs -> Records \cup {0}]
      BY <1>2 DEF BeginAppend, Records
    <2>2. pc' \in [Procs -> Places]
      <3>1. \E place \in {"lock", "create"} : pc' = [pc EXCEPT ![p] = place]
        BY <1>2 DEF BeginAppend, OpenMonth, Goto
      <3> QED BY <3>1 DEF Places
    <2>3. CASE UNCHANGED <<on, after, fresh>>
      BY <1>2, <2>1, <2>2, <2>3 DEF BeginAppend
    <2>4. CASE OpenMonth(p, "append")
      BY <1>2, <2>1, <2>2, <2>4 DEF BeginAppend, OpenMonth
    <2> QED BY <1>2, <2>3, <2>4 DEF BeginAppend
  <1>3. CASE LockFile(p)
    BY <1>3 DEF LockFile, Goto, Places
  <1>4. CASE Write(p)
    <2>1. file' \in [Months -> Seq(Piece)]
      BY <1>1, <1>4, PutTyped DEF Write, Appending
    <2> QED BY <1>4, <2>1 DEF Write, Goto, Places
  <1>5. CASE WriteRest(p)
    <2>1. file' \in [Months -> Seq(Piece)]
      <3> DEFINE f == file[handle[p]]
      <3>1. handle[p] \in Months /\ f \in Seq(Piece) /\ f # <<>> /\ f[Len(f)].rec = rec[p]
        BY <1>1, <1>5 DEF WriteRest, Appending, TailInv, TailOf
      <3>2. file' = [file EXCEPT ![handle[p]] = [f EXCEPT ![Len(f)].cut = "whole"]]
        BY <1>5, <3>1 DEF WriteRest
      <3>3. [f EXCEPT ![Len(f)].cut = "whole"] \in Seq(Piece)
        BY <3>1, Finished
      <3> QED BY <3>1, <3>2, <3>3
    <2> QED BY <1>5, <2>1 DEF WriteRest, Goto, Places
  <1>6. CASE Sync(p)
    BY <1>1, <1>6, UnlockTyped DEF Sync, Goto, Places, Appending
  <1> QED BY <1>2, <1>3, <1>4, <1>5, <1>6

(* So do scans and processes that fail or leave.                           *)
LEMMA ScanTypeOK ==
    ASSUME TypeOK, NEW p \in Procs,
           \/ ScanStart(p) \/ (\E m \in Months : ScanRepair(p, m) \/ ScanRead(p, m)) \/ ScanEnd(p)
           \/ Fail(p) \/ Leave(p)
    PROVE  TypeOK'
  <1> USE LedgerAssumption DEF LedgerAssumption, TypeOK, files, runVars, scanVars
  <1>1. CASE ScanStart(p)
    <2>1. {"repair", "read"} \X exists \subseteq Jobs
      BY DEF Jobs
    <2> QED BY <1>1, <2>1 DEF ScanStart, Goto, Places
  <1>2. ASSUME NEW m \in Months, ScanRepair(p, m) PROVE TypeOK'
    BY <1>2 DEF ScanRepair, Goto, Places
  <1>3. ASSUME NEW m \in Months, ScanRead(p, m) PROVE TypeOK'
    <2>1. Good(file[m]) \subseteq Records
      BY RecordsOf
    <2> QED BY <1>3, <2>1 DEF ScanRead, Goto, Places
  <1>4. CASE ScanEnd(p)
    BY <1>4, ForgetTyped DEF ScanEnd, Goto, Places
  <1>5. CASE Fail(p)
    BY <1>5, ForgetTyped, UnlockTyped DEF Fail, Goto, Places
  <1>6. CASE Leave(p)
    BY <1>6 DEF Leave, Reset, Places
  <1> QED BY <1>1, <1>2, <1>3, <1>4, <1>5, <1>6

(* What survives of a file is a file.                                      *)
LEMMA SurvivorsTyped ==
    ASSUME TypeOK, NEW m \in Months, NEW f \in Survivors(m)
    PROVE  f \in Seq(Piece)
  <1>1. file[m] \in Seq(Piece) /\ disk[m] \in Seq(Piece)
    BY DEF TypeOK
  <1>2. CASE f \in {disk[m], file[m]}
    BY <1>1, <1>2
  <1>3. CASE \E n \in Len(disk[m])..Len(file[m]) : f = SubSeq(file[m], 1, n)
    BY <1>1, <1>3
  <1>4. CASE \E n \in (Len(disk[m])..Len(file[m])) \ {Len(file[m])} :
                f = Append(SubSeq(file[m], 1, n), [rec |-> file[m][n + 1].rec, cut |-> "part"])
    <2>1. PICK n \in (Len(disk[m])..Len(file[m])) \ {Len(file[m])} :
                f = Append(SubSeq(file[m], 1, n), [rec |-> file[m][n + 1].rec, cut |-> "part"])
      BY <1>4
    <2>2. n \in 0..Len(file[m]) /\ n + 1 \in 1..Len(file[m])
      BY <1>1
    <2>3. file[m][n + 1] \in Piece
      BY <1>1, <2>2, ElementOfSeq
    <2>4. [rec |-> file[m][n + 1].rec, cut |-> "part"] \in Piece
      BY <2>3 DEF Piece
    <2> QED BY <1>1, <2>1, <2>2, <2>4, CutShort, AppendProperties
  <1> QED BY <1>2, <1>3, <1>4 DEF Survivors

LEMMA PowerTypeOK ==
    ASSUME TypeOK, PowerLoss
    PROVE  TypeOK'
  <1>1. PICK gone \in SUBSET {m \in exists : Journal(m) \notin entry},
             lost \in SUBSET {m \in Months : Sidecar(m) \notin entry} :
          /\ exists' = exists \ gone
          /\ file' \in {g \in [Months -> UNION {Survivors(m) \cup {<<>>} : m \in Months}] :
                         \A m \in Months : IF m \in gone THEN g[m] = <<>>
                                           ELSE g[m] \in Survivors(m)}
          /\ side' = [m \in Months |-> IF m \in lost THEN {} ELSE side[m]]
    BY DEF PowerLoss
  <1>2. \A m \in Months : file'[m] \in Seq(Piece)
    BY <1>1, SurvivorsTyped, EmptySeq
  <1>3. file' \in [Months -> Seq(Piece)]
    BY <1>1, <1>2
  <1> QED BY <1>1, <1>3 DEF PowerLoss, TypeOK, Reset, Places

LEMMA StepTypeOK ==
    ASSUME TypeOK, PlaceInv, TailInv, [Next]_vars
    PROVE  TypeOK'
  <1>1. CASE NextMonth
    <2>1. clock' \in Months
      BY <1>1, LedgerAssumption DEF NextMonth, TypeOK, Months, LedgerAssumption
    <2> QED BY <1>1, <2>1 DEF NextMonth, TypeOK, files, runVars, scanVars
  <1>2. CASE UNCHANGED vars
    BY <1>2 DEF vars, TypeOK, files, runVars, scanVars
  <1> QED BY <1>1, <1>2, OpenTypeOK, AppendTypeOK, ScanTypeOK, PowerTypeOK DEF Next, Step

-----------------------------------------------------------------------------
(* Where a process is.                                                     *)

LEMMA OpenedMoves ==
    ASSUME TypeOK, NEW p \in Procs, Opened(p)
    PROVE  /\ \A q \in Procs \ {p} : pc'[q] = pc[q] /\ handle'[q] = handle[q] /\ rest'[q] = rest[q]
           /\ pc'[p] = IF after[p] = "append" THEN "lock" ELSE "ready"
           /\ handle'[p] = on[p] /\ rest'[p] = rest[p]
BY DEF TypeOK, Opened, Goto

LEMMA RepairedMoves ==
    ASSUME TypeOK, NEW p \in Procs, Repaired(p)
    PROVE  /\ \A q \in Procs \ {p} : pc'[q] = pc[q] /\ handle'[q] = handle[q] /\ rest'[q] = rest[q]
           /\ after[p] = "scan" => /\ pc'[p] = "scan" /\ handle'[p] = handle[p]
                                   /\ rest'[p] = rest[p] \ {<<"repair", on[p]>>}
           /\ after[p] # "scan" => /\ pc'[p] = IF after[p] = "append" THEN "lock" ELSE "ready"
                                   /\ handle'[p] = on[p] /\ rest'[p] = rest[p]
BY OpenedMoves DEF TypeOK, Repaired, Goto

LEMMA UnlockMoves ==
    ASSUME TypeOK, NEW p \in Procs, Unlock(p)
    PROVE  \A m \in Months : \A q \in Procs \ {p} : lock[m] = q => lock'[m] = q
BY DEF TypeOK, Unlock

LEMMA ForgetMoves ==
    ASSUME TypeOK, NEW p \in Procs, ForgetScan(p)
    PROVE  /\ \A q \in Procs \ {p} : /\ rest'[q] = rest[q] /\ since'[q] = since[q]
                                     /\ seen'[q] = seen[q] /\ corrupt'[q] = corrupt[q]
           /\ rest'[p] = {} /\ since'[p] = {}
BY DEF TypeOK, ForgetScan

(* What the step of p leaves alone: the other processes and their flocks.  *)
Bystander(q) ==
    /\ pc'[q] = pc[q] /\ handle'[q] = handle[q] /\ on'[q] = on[q] /\ after'[q] = after[q]
    /\ fresh'[q] = fresh[q] /\ rec'[q] = rec[q] /\ rest'[q] = rest[q]
    /\ since'[q] = since[q] /\ seen'[q] = seen[q] /\ corrupt'[q] = corrupt[q]
    /\ \A m \in Months : lock[m] = q => lock'[m] = q

LEMMA OthersStay ==
    ASSUME TypeOK, NEW p \in Procs, Step(p), NEW q \in Procs \ {p}
    PROVE  Bystander(q) /\ exists \subseteq exists'
  <1> USE LedgerAssumption DEF LedgerAssumption, Bystander, files, runVars, scanVars
  <1>1. CASE Open(p)
    BY <1>1 DEF Open, OpenMonth, Goto, TypeOK
  <1>2. CASE Create(p)
    BY <1>2 DEF Create, Goto, TypeOK
  <1>3. CASE SyncDir(p)
    BY <1>3, OpenedMoves DEF SyncDir
  <1>4. CASE CheckTail(p)
    <2>1. CASE CleanTail(file[on[p]])
      BY <1>4, <2>1, RepairedMoves DEF CheckTail
    <2>2. CASE ~CleanTail(file[on[p]])
      BY <1>4, <2>2 DEF CheckTail, Goto, TypeOK
    <2> QED BY <2>1, <2>2
  <1>5. CASE Quarantine(p)
    BY <1>5 DEF Quarantine, Goto, TypeOK
  <1>6. CASE Truncate(p)
    BY <1>6 DEF Truncate, Goto, TypeOK
  <1>7. CASE RepairSync(p)
    BY <1>7, RepairedMoves, UnlockMoves DEF RepairSync
  <1>8. CASE BeginAppend(p)
    <2>1. CASE UNCHANGED <<on, after, fresh>> /\ Goto(p, "lock")
      BY <1>8, <2>1 DEF BeginAppend, Goto, TypeOK
    <2>2. CASE OpenMonth(p, "append")
      BY <1>8, <2>2 DEF BeginAppend, OpenMonth, Goto, TypeOK
    <2> QED BY <1>8, <2>1, <2>2 DEF BeginAppend
  <1>9. CASE LockFile(p)
    BY <1>9 DEF LockFile, Goto, TypeOK
  <1>10. CASE Write(p)
    <2>1. \E place \in {"sync", "writing"} : Goto(p, place)
      BY <1>10 DEF Write
    <2> QED BY <1>10, <2>1 DEF Write, Goto, TypeOK
  <1>11. CASE WriteRest(p)
    BY <1>11 DEF WriteRest, Goto, TypeOK
  <1>12. CASE Sync(p)
    BY <1>12, UnlockMoves DEF Sync, Goto, TypeOK
  <1>13. CASE ScanStart(p)
    BY <1>13 DEF ScanStart, Goto, TypeOK
  <1>14. ASSUME NEW m \in Months, ScanRepair(p, m) PROVE Bystander(q) /\ exists \subseteq exists'
    BY <1>14 DEF ScanRepair, Goto, TypeOK
  <1>15. ASSUME NEW m \in Months, ScanRead(p, m) PROVE Bystander(q) /\ exists \subseteq exists'
    BY <1>15 DEF ScanRead, Goto, TypeOK
  <1>16. CASE ScanEnd(p)
    BY <1>16, ForgetMoves DEF ScanEnd, Goto, TypeOK
  <1>17. CASE Fail(p)
    BY <1>17, ForgetMoves, UnlockMoves DEF Fail, Goto, TypeOK
  <1>18. CASE Leave(p)
    BY <1>18 DEF Leave, Reset, TypeOK
  <1> QED BY <1>1, <1>2, <1>3, <1>4, <1>5, <1>6, <1>7, <1>8, <1>9, <1>10, <1>11, <1>12, <1>13,
             <1>14, <1>15, <1>16, <1>17, <1>18
          DEF Step

(* After a power loss every process is gone.                               *)
LEMMA AllGone ==
    ASSUME TypeOK, PowerLoss
    PROVE  \A p \in Procs : /\ pc'[p] = "closed" /\ handle'[p] = 0 /\ rec'[p] = 0
                            /\ rest'[p] = {} /\ since'[p] = {}
BY DEF PowerLoss, Reset

LEMMA InitPlaceInv == Init => PlaceInv
BY DEF Init, PlaceInv, PlaceOf, Opening, Repairing, Appending

LEMMA RepairedPlace ==
    ASSUME TypeOK, NEW p \in Procs, PlaceOf(p), pc[p] \in {"repair", "repairSync"}, Repaired(p),
           UNCHANGED <<exists, on, after, rec>>
    PROVE  PlaceOf(p)'
  <1>1. /\ on[p] \in exists /\ after[p] # "none"
        /\ rec[p] # 0 <=> after[p] = "append"
        /\ handle[p] # 0 => handle[p] \in exists
        /\ \A j \in rest[p] : j[2] \in exists
    BY DEF PlaceOf, Opening, Repairing, Appending
  <1>2. on[p] # 0
    BY <1>1 DEF TypeOK, Months
  <1>3. CASE after[p] = "scan"
    <2>1. pc'[p] = "scan" /\ handle'[p] = handle[p] /\ \A j \in rest'[p] : j[2] \in exists
      BY <1>1, <1>3, RepairedMoves
    <2> QED BY <1>1, <1>3, <2>1 DEF PlaceOf, Opening, Repairing, Appending
  <1>4. CASE after[p] # "scan"
    <2>1. /\ pc'[p] = IF after[p] = "append" THEN "lock" ELSE "ready"
          /\ handle'[p] = on[p] /\ rest'[p] = rest[p]
      BY <1>4, RepairedMoves
    <2> QED BY <1>1, <1>2, <2>1 DEF PlaceOf, Opening, Repairing, Appending
  <1> QED BY <1>3, <1>4

LEMMA OwnPlace ==
    ASSUME TypeOK, PlaceInv, NEW p \in Procs, Step(p)
    PROVE  PlaceOf(p)'
  <1> USE LedgerAssumption DEF LedgerAssumption, Opening, Repairing, Appending, files, runVars,
          scanVars
  <1>0. PlaceOf(p) /\ p # Nobody
    BY DEF PlaceInv
  <1>1. CASE Open(p)
    BY <1>0, <1>1 DEF Open, OpenMonth, Goto, TypeOK, PlaceOf, Months
  <1>2. CASE Create(p)
    BY <1>0, <1>2 DEF Create, Goto, TypeOK, PlaceOf
  <1>3. CASE SyncDir(p)
    <2>1. /\ on[p] \in exists /\ after[p] \notin {"none", "scan"}
          /\ rec[p] # 0 <=> after[p] = "append"
          /\ \A j \in rest[p] : j[2] \in exists
      BY <1>0, <1>3 DEF SyncDir, PlaceOf
    <2>2. on[p] # 0
      BY <2>1 DEF TypeOK, Months
    <2>3. /\ pc'[p] = IF after[p] = "append" THEN "lock" ELSE "ready"
          /\ handle'[p] = on[p] /\ rest'[p] = rest[p]
          /\ UNCHANGED <<exists, on, after, rec>>
      BY <1>3, OpenedMoves DEF SyncDir
    <2> QED BY <2>1, <2>2, <2>3 DEF PlaceOf
  <1>4. CASE CheckTail(p)
    <2>1. CASE CleanTail(file[on[p]])
      BY <1>0, <1>4, <2>1, RepairedPlace DEF CheckTail
    <2>2. CASE ~CleanTail(file[on[p]])
      BY <1>0, <1>4, <2>2 DEF CheckTail, Goto, TypeOK, PlaceOf
    <2> QED BY <2>1, <2>2
  <1>5. CASE Quarantine(p)
    BY <1>0, <1>5 DEF Quarantine, Goto, TypeOK, PlaceOf
  <1>6. CASE Truncate(p)
    BY <1>0, <1>6 DEF Truncate, Goto, TypeOK, PlaceOf
  <1>7. CASE RepairSync(p)
    BY <1>0, <1>7, RepairedPlace DEF RepairSync
  <1>8. CASE BeginAppend(p)
    <2>1. rec'[p] # 0 /\ pc[p] = "ready"
      BY <1>8 DEF BeginAppend, TypeOK
    <2>2. CASE UNCHANGED <<on, after, fresh>> /\ Goto(p, "lock") /\ handle[p] = clock
      <3>1. clock # 0
        BY DEF TypeOK, Months
      <3> QED BY <1>0, <1>8, <2>1, <2>2, <3>1 DEF BeginAppend, Goto, TypeOK, PlaceOf
    <2>3. CASE OpenMonth(p, "append")
      BY <1>0, <1>8, <2>1, <2>3 DEF BeginAppend, OpenMonth, Goto, TypeOK, PlaceOf
    <2> QED BY <1>8, <2>2, <2>3 DEF BeginAppend
  <1>9. CASE LockFile(p)
    BY <1>0, <1>9 DEF LockFile, Goto, TypeOK, PlaceOf
  <1>10. CASE Write(p)
    <2>1. \E place \in {"sync", "writing"} : Goto(p, place)
      BY <1>10 DEF Write
    <2> QED BY <1>0, <1>10, <2>1 DEF Write, Goto, TypeOK, PlaceOf
  <1>11. CASE WriteRest(p)
    BY <1>0, <1>11 DEF WriteRest, Goto, TypeOK, PlaceOf
  <1>12. CASE Sync(p)
    BY <1>0, <1>12 DEF Sync, Goto, TypeOK, PlaceOf
  <1>13. CASE ScanStart(p)
    BY <1>0, <1>13 DEF ScanStart, Goto, TypeOK, PlaceOf
  <1>14. ASSUME NEW m \in Months, ScanRepair(p, m) PROVE PlaceOf(p)'
    <2>1. m \in exists
      BY <1>0, <1>14 DEF ScanRepair, PlaceOf
    <2> QED BY <1>0, <1>14, <2>1 DEF ScanRepair, Goto, TypeOK, PlaceOf
  <1>15. ASSUME NEW m \in Months, ScanRead(p, m) PROVE PlaceOf(p)'
    BY <1>0, <1>15 DEF ScanRead, Goto, TypeOK, PlaceOf
  <1>16. CASE ScanEnd(p)
    BY <1>0, <1>16, ForgetMoves DEF ScanEnd, Goto, TypeOK, PlaceOf
  <1>17. CASE Fail(p)
    BY <1>0, <1>17, ForgetMoves DEF Fail, Goto, TypeOK, PlaceOf
  <1>18. CASE Leave(p)
    <2>1. pc'[p] = "closed" /\ handle'[p] = 0 /\ rec'[p] = 0 /\ rest'[p] = {}
      BY <1>18 DEF Leave, Reset
    <2> QED BY <2>1 DEF PlaceOf
  <1> QED BY <1>1, <1>2, <1>3, <1>4, <1>5, <1>6, <1>7, <1>8, <1>9, <1>10, <1>11, <1>12, <1>13,
             <1>14, <1>15, <1>16, <1>17, <1>18
          DEF Step

LEMMA StepPlaceInv ==
    ASSUME TypeOK, PlaceInv, [Next]_vars
    PROVE  PlaceInv'
  <1>1. ASSUME NEW p \in Procs, Step(p) PROVE PlaceInv'
    <2>1. PlaceOf(p)'
      BY <1>1, OwnPlace
    <2>2. ASSUME NEW q \in Procs \ {p} PROVE PlaceOf(q)'
      <3>1. Bystander(q) /\ exists \subseteq exists' /\ PlaceOf(q)
        BY <1>1, OthersStay DEF PlaceInv
      <3>2. handle[q] \in Months \cup {0} /\ exists \subseteq Months
        BY DEF TypeOK
      <3> QED BY <3>1, <3>2 DEF PlaceOf, Bystander, Opening, Repairing, Appending
    <2> QED BY <2>1, <2>2 DEF PlaceInv
  <1>2. CASE PowerLoss
    BY <1>2, AllGone DEF PlaceInv, PlaceOf, Opening, Repairing, Appending
  <1>3. CASE NextMonth
    BY <1>3 DEF NextMonth, PlaceInv, PlaceOf, files, runVars, scanVars
  <1>4. CASE UNCHANGED vars
    BY <1>4 DEF vars, PlaceInv, PlaceOf, files, runVars, scanVars
  <1> QED BY <1>1, <1>2, <1>3, <1>4 DEF Next

-----------------------------------------------------------------------------
(* What happens to the files.                                              *)

LEMMA FilesStay ==
    ASSUME NEW p \in Procs, Step(p), ~Write(p), ~WriteRest(p), ~Truncate(p)
    PROVE  file' = file
BY DEF Step, Open, Create, SyncDir, CheckTail, Quarantine, RepairSync, BeginAppend, LockFile,
       Sync, ScanStart, ScanRepair, ScanRead, ScanEnd, Fail, Leave, files

LEMMA WriteDoes ==
    ASSUME TypeOK, PlaceInv, NEW p \in Procs, Write(p)
    PROVE  /\ pc[p] = "write" /\ handle[p] \in exists /\ lock[handle[p]] = p /\ rec[p] \in Records
           /\ \E cut \in {"whole", "bare", "part"} :
                /\ [rec |-> rec[p], cut |-> cut] \in Piece
                /\ file' = [file EXCEPT ![handle[p]] =
                              Append(file[handle[p]], [rec |-> rec[p], cut |-> cut])]
                /\ pc'[p] = IF cut = "whole" THEN "sync" ELSE "writing"
           /\ UNCHANGED <<exists, disk, entry, side, torn, lock, clock, handle, on, after, fresh,
                          rec, used, acked, rest, since, seen, corrupt>>
  <1> USE DEF Write, runVars, scanVars
  <1>1. /\ pc[p] = "write" /\ handle[p] \in exists /\ lock[handle[p]] = p /\ rec[p] \in Records
    BY DEF PlaceInv, PlaceOf, Appending, TypeOK
  <1>2. \E cut \in {"whole", "bare", "part"} :
            /\ Put(p, cut)
            /\ pc' = [pc EXCEPT ![p] = IF cut = "whole" THEN "sync" ELSE "writing"]
    BY DEF Goto
  <1>3. \A cut \in {"whole", "bare", "part"} : [rec |-> rec[p], cut |-> cut] \in Piece
    BY <1>1 DEF Piece
  <1> QED BY <1>1, <1>2, <1>3 DEF Put, TypeOK

LEMMA WriteRestDoes ==
    ASSUME TypeOK, PlaceInv, TailInv, NEW p \in Procs, WriteRest(p)
    PROVE  LET f == file[handle[p]] IN
           /\ pc[p] = "writing" /\ pc'[p] = "sync"
           /\ handle[p] \in exists /\ lock[handle[p]] = p /\ rec[p] \in Records
           /\ f # <<>> /\ f[Len(f)].rec = rec[p] /\ f[Len(f)].cut # "whole"
           /\ file' = [file EXCEPT ![handle[p]] = [f EXCEPT ![Len(f)].cut = "whole"]]
           /\ UNCHANGED <<exists, disk, entry, side, torn, lock, clock, handle, on, after, fresh,
                          rec, used, acked, rest, since, seen, corrupt>>
  <1> USE DEF WriteRest, runVars, scanVars
  <1>1. /\ pc[p] = "writing" /\ handle[p] \in exists /\ lock[handle[p]] = p /\ rec[p] \in Records
    BY DEF PlaceInv, PlaceOf, Appending, TypeOK
  <1>2. LET f == file[handle[p]] IN f # <<>> /\ f[Len(f)].rec = rec[p] /\ f[Len(f)].cut # "whole"
    BY <1>1 DEF TailInv, TailOf
  <1> QED BY <1>1, <1>2 DEF Goto, TypeOK

LEMMA TruncateDoes ==
    ASSUME TypeOK, PlaceInv, NEW p \in Procs, Truncate(p)
    PROVE  LET f == file[on[p]] IN
           /\ pc[p] = "truncate" /\ pc'[p] = "repairSync"
           /\ on[p] \in exists /\ lock[on[p]] = p
           /\ file' = [file EXCEPT ![on[p]] = SubSeq(f, 1, LastNewline(f))]
           /\ torn' = [torn EXCEPT ![on[p]] = torn[on[p]] \cup Torn(f)]
           /\ UNCHANGED <<exists, disk, entry, side, lock, clock, handle, on, after, fresh,
                          rec, used, acked, rest, since, seen, corrupt>>
BY DEF Truncate, Goto, runVars, scanVars, TypeOK, PlaceInv, PlaceOf, Opening, Repairing

(* Nobody touches a file without its flock.                                *)
LEMMA FileNeedsLock ==
    ASSUME TypeOK, PlaceInv, TailInv, NEW p \in Procs, Step(p), NEW m \in Months
    PROVE  file'[m] = file[m] \/ lock[m] = p
  <1>1. CASE Write(p)
    <2>1. m # handle[p] => file'[m] = file[m]
      BY <1>1 DEF Write, Put, TypeOK
    <2> QED BY <1>1, <2>1, WriteDoes
  <1>2. CASE WriteRest(p)
    <2>1. m # handle[p] => file'[m] = file[m]
      BY <1>2 DEF WriteRest, Put, TypeOK
    <2> QED BY <1>2, <2>1, WriteRestDoes
  <1>3. CASE Truncate(p)
    <2>1. m # on[p] => file'[m] = file[m]
      BY <1>3 DEF Truncate, TypeOK
    <2> QED BY <1>3, <2>1, TruncateDoes
  <1> QED BY <1>1, <1>2, <1>3, FilesStay

LEMMA InitTailInv == Init => TailInv
BY DEF Init, TailInv, TailOf

(* What ends up at "writing" or "sync" has just written or was there.      *)
LEMMA WritersCome ==
    ASSUME TypeOK, NEW p \in Procs, Step(p), pc'[p] \in {"writing", "sync"}
    PROVE  Write(p) \/ WriteRest(p)
  <1> USE DEF Goto, TypeOK
  <1>1. CASE Open(p) \/ Create(p) \/ Quarantine(p) \/ Truncate(p) \/ LockFile(p) \/ Sync(p)
    BY <1>1 DEF Open, OpenMonth, Create, Quarantine, Truncate, LockFile, Sync
  <1>2. CASE SyncDir(p) \/ RepairSync(p)
    BY <1>2, OpenedMoves, RepairedMoves DEF SyncDir, RepairSync
  <1>3. CASE CheckTail(p)
    BY <1>3, RepairedMoves DEF CheckTail
  <1>4. CASE BeginAppend(p)
    BY <1>4 DEF BeginAppend, OpenMonth
  <1>5. CASE ScanStart(p) \/ (\E m \in Months : ScanRepair(p, m) \/ ScanRead(p, m)) \/ ScanEnd(p)
    BY <1>5 DEF ScanStart, ScanRepair, ScanRead, ScanEnd
  <1>6. CASE Fail(p)
    BY <1>6 DEF Fail
  <1>7. CASE Leave(p)
    BY <1>7 DEF Leave, Reset
  <1> QED BY <1>1, <1>2, <1>3, <1>4, <1>5, <1>6, <1>7 DEF Step

LEMMA StepTailInv ==
    ASSUME TypeOK, PlaceInv, TailInv, [Next]_vars
    PROVE  TailInv'
  <1>1. ASSUME NEW p \in Procs, Step(p) PROVE TailInv'
    <2>1. TailOf(p)'
      <3>1. CASE Write(p)
        <4> DEFINE f == file[handle[p]]
        <4>1. handle[p] \in Months /\ handle'[p] = handle[p] /\ rec'[p] = rec[p] /\ f \in Seq(Piece)
          BY <3>1, WriteDoes DEF TypeOK
        <4>2. PICK cut \in {"whole", "bare", "part"} :
                /\ [rec |-> rec[p], cut |-> cut] \in Piece
                /\ file' = [file EXCEPT ![handle[p]] = Append(f, [rec |-> rec[p], cut |-> cut])]
                /\ pc'[p] = IF cut = "whole" THEN "sync" ELSE "writing"
          BY <3>1, WriteDoes
        <4>3. file'[handle[p]] = Append(f, [rec |-> rec[p], cut |-> cut])
          BY <4>1, <4>2 DEF TypeOK
        <4>4. /\ file'[handle[p]] # <<>>
              /\ file'[handle[p]][Len(file'[handle[p]])] = [rec |-> rec[p], cut |-> cut]
          BY <4>1, <4>2, <4>3, OneMore
        <4> QED BY <4>1, <4>2, <4>4 DEF TailOf
      <3>2. CASE WriteRest(p)
        <4> DEFINE f == file[handle[p]]
        <4>1. handle[p] \in Months /\ handle'[p] = handle[p] /\ rec'[p] = rec[p] /\ f \in Seq(Piece)
              /\ f # <<>> /\ f[Len(f)].rec = rec[p] /\ pc'[p] = "sync"
          BY <3>2, WriteRestDoes DEF TypeOK
        <4> DEFINE g == [f EXCEPT ![Len(f)].cut = "whole"]
        <4>0. file' = [file EXCEPT ![handle[p]] = g]
          BY <3>2, WriteRestDoes
        <4>2. g # <<>> /\ Len(g) = Len(f) /\ g[Len(f)].rec = f[Len(f)].rec /\ g[Len(f)].cut = "whole"
          BY <4>1, Finished
        <4> HIDE DEF g
        <4>3. file'[handle'[p]] = g
          BY <4>0, <4>1 DEF TypeOK
        <4>4. g[Len(g)].rec = rec'[p] /\ g[Len(g)].cut = "whole"
          BY <4>1, <4>2
        <4> QED BY <4>1, <4>2, <4>3, <4>4 DEF TailOf
      <3> QED BY <1>1, <3>1, <3>2, WritersCome DEF TailOf
    <2>2. ASSUME NEW q \in Procs \ {p} PROVE TailOf(q)'
      <3>1. Bystander(q) /\ TailOf(q) /\ PlaceOf(q)
        BY <1>1, OthersStay DEF TailInv, PlaceInv
      <3>2. pc[q] \in {"writing", "sync"} => file'[handle[q]] = file[handle[q]]
        BY <1>1, <3>1, FileNeedsLock DEF PlaceOf, Appending, TypeOK
      <3> QED BY <3>1, <3>2 DEF TailOf, Bystander
    <2> QED BY <2>1, <2>2 DEF TailInv
  <1>2. CASE PowerLoss
    BY <1>2, AllGone DEF TailInv, TailOf
  <1>3. CASE NextMonth
    BY <1>3 DEF NextMonth, TailInv, TailOf, files, runVars, scanVars
  <1>4. CASE UNCHANGED vars
    BY <1>4 DEF vars, TailInv, TailOf, files, runVars, scanVars
  <1> QED BY <1>1, <1>2, <1>3, <1>4 DEF Next

BaseInv == TypeOK /\ PlaceInv /\ TailInv

(* Whatever fails: where a process is fits the flocks it holds, and what   *)
(* it appends is at the end of its file.                                   *)
THEOREM BaseInvHolds == Spec => []BaseInv
  <1>1. Init => BaseInv
    BY InitTypeOK, InitPlaceInv, InitTailInv DEF BaseInv
  <1>2. BaseInv /\ [Next]_vars => BaseInv'
    BY StepTypeOK, StepPlaceInv, StepTailInv DEF BaseInv
  <1> QED BY <1>1, <1>2, PTL DEF Spec

(* Every reachable state is well typed: no process appends to a month it   *)
(* has not opened, and none opens one that has not come.                   *)
THEOREM TypeCorrect == Spec => []TypeOK
  <1>1. BaseInv => TypeOK
    BY DEF BaseInv
  <1> QED BY <1>1, BaseInvHolds, PTL

-----------------------------------------------------------------------------
(* Scans.                                                                  *)

(* No step of a process takes a whole line out of a file.                  *)
LEMMA HoldsStays ==
    ASSUME BaseInv, NEW p \in Procs, Step(p), NEW m \in Months, NEW r \in Records, Holds(file[m], r)
    PROVE  Holds(file'[m], r)
  <1> USE DEF BaseInv
  <1>0. file[m] \in Seq(Piece) /\ file \in [Months -> Seq(Piece)]
    BY DEF TypeOK
  <1>1. CASE Write(p)
    <2>1. PICK x \in Piece : file' = [file EXCEPT ![handle[p]] = Append(file[handle[p]], x)]
      BY <1>1, WriteDoes
    <2>2. CASE m = handle[p]
      <3>1. file'[m] = Append(file[m], x)
        BY <1>0, <2>1, <2>2
      <3> QED BY <1>0, <3>1, OneMore DEF Holds
    <2>3. CASE m # handle[p]
      BY <1>0, <2>1, <2>3
    <2> QED BY <2>2, <2>3
  <1>2. CASE WriteRest(p)
    <2> DEFINE f == file[handle[p]]
               g == [f EXCEPT ![Len(f)].cut = "whole"]
    <2>1. f # <<>> /\ f[Len(f)].cut # "whole" /\ handle[p] \in Months
          /\ file' = [file EXCEPT ![handle[p]] = g]
      BY <1>2, WriteRestDoes DEF TypeOK
    <2>2. CASE m = handle[p]
      <3>1. DOMAIN g = DOMAIN f /\ \A i \in DOMAIN f : i # Len(f) => g[i] = f[i]
        BY <1>0, <2>1, <2>2, Finished
      <3> HIDE DEF g
      <3>2. file'[m] = g
        BY <1>0, <2>1, <2>2
      <3> QED BY <2>1, <2>2, <3>1, <3>2 DEF Holds
    <2> HIDE DEF g
    <2>3. CASE m # handle[p]
      BY <1>0, <2>1, <2>3
    <2> QED BY <2>2, <2>3
  <1>3. CASE Truncate(p)
    <2> DEFINE g == SubSeq(file[on[p]], 1, LastNewline(file[on[p]]))
    <2>1. file' = [file EXCEPT ![on[p]] = g]
      BY <1>3, TruncateDoes
    <2>2. CASE m = on[p]
      <3>1. Holds(g, r)
        BY <1>0, <2>2, RepairKeepsWhole
      <3> QED BY <1>0, <2>1, <2>2, <3>1
    <2> HIDE DEF g
    <2>3. CASE m # on[p]
      BY <1>0, <2>1, <2>3
    <2> QED BY <2>2, <2>3
  <1> QED BY <1>1, <1>2, <1>3, FilesStay

(* A record is acknowledged when it is on the disk.                        *)
LEMMA SyncHolds ==
    ASSUME BaseInv, NEW p \in Procs, Sync(p)
    PROVE  /\ handle[p] \in exists /\ rec[p] \in Records /\ Holds(file[handle[p]], rec[p])
           /\ acked' = acked \cup {rec[p]} /\ file' = file /\ exists' = exists
           /\ disk' = [disk EXCEPT ![handle[p]] = file[handle[p]]]
  <1> USE DEF BaseInv
  <1>1. pc[p] = "sync" /\ handle[p] \in exists /\ rec[p] \in Records
    BY DEF Sync, PlaceInv, PlaceOf, Appending, TypeOK
  <1>2. LET f == file[handle[p]] IN
        f \in Seq(Piece) /\ f # <<>> /\ f[Len(f)].rec = rec[p] /\ f[Len(f)].cut = "whole"
    BY <1>1 DEF TailInv, TailOf, TypeOK
  <1>3. Holds(file[handle[p]], rec[p])
    BY <1>2, EmptySeq, LenProperties DEF Holds
  <1> QED BY <1>1, <1>3 DEF Sync

LEMMA AckedStay ==
    ASSUME NEW p \in Procs, Step(p), ~Sync(p)
    PROVE  acked' = acked
BY DEF Step, Open, Create, SyncDir, CheckTail, Quarantine, Truncate, RepairSync, BeginAppend,
       LockFile, Write, WriteRest, ScanStart, ScanRepair, ScanRead, ScanEnd, Fail, Leave

(* A whole line is read, or reported with what it is stuck to.             *)
LEMMA WholeIsReadOrReported ==
    ASSUME NEW f \in Seq(Piece), NEW r, Holds(f, r)
    PROVE  r \in Good(f) \/ Damaged(f)
BY DEF Holds, Good, Damaged

(* Only a power loss takes a file away.                                    *)
LEMMA FilesAreKept ==
    ASSUME NEW p \in Procs, Step(p)
    PROVE  exists \subseteq exists'
BY DEF Step, Open, Create, SyncDir, CheckTail, Quarantine, Truncate, RepairSync, BeginAppend,
       LockFile, Write, WriteRest, Sync, ScanStart, ScanRepair, ScanRead, ScanEnd, Fail, Leave,
       files

LEMMA KeptStep ==
    ASSUME BaseInv, KeptInv, NEW p \in Procs, Step(p)
    PROVE  KeptInv'
  <1>1. exists \subseteq exists' /\ exists \subseteq Months /\ acked \subseteq Records
    <2>1. exists \subseteq exists'
      BY FilesAreKept
    <2> QED BY <2>1 DEF BaseInv, TypeOK
  <1>2. ASSUME NEW r \in acked PROVE \E m \in exists' : Holds(file'[m], r)
    BY <1>1, HoldsStays DEF KeptInv
  <1>3. CASE Sync(p)
    BY <1>2, <1>3, SyncHolds DEF KeptInv
  <1>4. CASE ~Sync(p)
    BY <1>2, <1>4, AckedStay DEF KeptInv
  <1> QED BY <1>3, <1>4

(* The scan of the process that takes the step.                            *)
LEMMA OwnScan ==
    ASSUME BaseInv, KeptInv, ScanInv, NEW p \in Procs, Step(p), exists \subseteq exists'
    PROVE  ScanOf(p)'
  <1> USE DEF BaseInv, files, runVars, scanVars
  <1>0. since[p] \subseteq Records /\ exists \subseteq Months
    BY DEF TypeOK
  <1>1. CASE UNCHANGED <<seen, corrupt, since>> /\ \A m \in Months : <<"read", m>> \in rest[p] => <<"read", m>> \in rest'[p]
    BY <1>0, <1>1, HoldsStays DEF ScanInv, ScanOf
  <1>2. CASE ScanStart(p)
    <2>1. since'[p] = acked /\ rest'[p] = {"repair", "read"} \X exists /\ file' = file
      BY <1>2 DEF ScanStart, TypeOK
    <2> QED BY <1>0, <2>1 DEF KeptInv, ScanOf
  <1>3. ASSUME NEW m \in Months, ScanRead(p, m) PROVE ScanOf(p)'
    <2>1. /\ rest'[p] = rest[p] \ {<<"read", m>>}
          /\ seen'[p] = seen[p] \cup Good(file[m])
          /\ corrupt'[p] = (corrupt[p] \/ Damaged(file[m]))
          /\ UNCHANGED <<file, since>>
      BY <1>3 DEF ScanRead, TypeOK
    <2>2. ASSUME NEW r \in since[p]
          PROVE  \/ r \in seen'[p]
                 \/ corrupt'[p]
                 \/ \E n \in exists' : <<"read", n>> \in rest'[p] /\ Holds(file'[n], r)
      <3>1. CASE r \in seen[p] \/ corrupt[p]
        BY <2>1, <3>1
      <3>2. ASSUME NEW n \in exists, <<"read", n>> \in rest[p], Holds(file[n], r), n # m
            PROVE  \E k \in exists' : <<"read", k>> \in rest'[p] /\ Holds(file'[k], r)
        BY <2>1, <3>2
      <3>3. CASE Holds(file[m], r)
        BY <2>1, <3>3, WholeIsReadOrReported DEF TypeOK
      <3> QED BY <3>1, <3>2, <3>3 DEF ScanInv, ScanOf
    <2> QED BY <2>1, <2>2 DEF ScanOf
  <1>4. CASE ScanEnd(p) \/ Fail(p) \/ Leave(p)
    <2>1. since'[p] = {}
      BY <1>4, ForgetMoves DEF ScanEnd, Fail, Leave, Reset
    <2> QED BY <2>1 DEF ScanOf
  <1>5. CASE \/ Open(p) \/ Create(p) \/ SyncDir(p) \/ Quarantine(p) \/ Truncate(p) \/ BeginAppend(p)
             \/ LockFile(p) \/ Write(p) \/ WriteRest(p) \/ Sync(p)
             \/ (\E m \in Months : ScanRepair(p, m))
    BY <1>1, <1>5 DEF Open, Create, SyncDir, Opened, Quarantine, Truncate, BeginAppend, LockFile,
       Write, WriteRest, Sync, ScanRepair
  <1>6. CASE RepairSync(p) \/ CheckTail(p)
    <2>1. UNCHANGED <<seen, corrupt, since>>
      BY <1>6 DEF RepairSync, CheckTail
    <2>2. rest' = rest \/ rest'[p] = rest[p] \ {<<"repair", on[p]>>} \/ rest'[p] = rest[p]
      BY <1>6, RepairedMoves DEF RepairSync, CheckTail
    <2> QED BY <1>1, <2>1, <2>2
  <1> QED BY <1>2, <1>3, <1>4, <1>5, <1>6 DEF Step

LEMMA ScanStep ==
    ASSUME BaseInv, KeptInv, ScanInv, NEW p \in Procs, Step(p), exists \subseteq exists'
    PROVE  ScanInv'
  <1>1. ScanOf(p)'
    BY OwnScan
  <1>2. ASSUME NEW q \in Procs \ {p} PROVE ScanOf(q)'
    <2>1. Bystander(q) /\ since[q] \subseteq Records /\ exists \subseteq Months
      BY OthersStay DEF BaseInv, TypeOK
    <2> QED BY <2>1, HoldsStays DEF ScanInv, ScanOf, Bystander
  <1> QED BY <1>1, <1>2 DEF ScanInv

(* While the machine runs, what is acknowledged is in a file, and a scan   *)
(* under way has read it or has its month still before it.                 *)
THEOREM ScanInvHolds == Powered => (Spec => [](BaseInv /\ KeptInv /\ ScanInv))
  <1> SUFFICES ASSUME Powered PROVE Spec => [](BaseInv /\ KeptInv /\ ScanInv)
    OBVIOUS
  <1> DEFINE I == BaseInv /\ KeptInv /\ ScanInv
  <1>1. Init => I
    BY InitTypeOK, InitPlaceInv, InitTailInv DEF Init, BaseInv, KeptInv, ScanInv, ScanOf
  <1>2. I /\ [Next]_vars => I'
    <2> SUFFICES ASSUME I, [Next]_vars PROVE I'
      OBVIOUS
    <2>1. BaseInv'
      BY StepTypeOK, StepPlaceInv, StepTailInv DEF BaseInv
    <2>2. ASSUME NEW p \in Procs, Step(p) PROVE KeptInv' /\ ScanInv'
      <3>1. exists \subseteq exists'
        BY <2>2, FilesAreKept
      <3> QED BY <2>2, <3>1, KeptStep, ScanStep
    <2>3. CASE NextMonth \/ UNCHANGED vars
      <3>1. UNCHANGED <<exists, file, acked, rest, since, seen, corrupt>>
        BY <2>3 DEF NextMonth, vars, files, scanVars
      <3>2. KeptInv'
        BY <3>1 DEF KeptInv
      <3>3. ScanInv'
        BY <3>1 DEF ScanInv, ScanOf
      <3> QED BY <2>1, <3>2, <3>3
    <2>4. ~PowerLoss
      BY DEF Powered, PowerLoss
    <2> QED BY <2>1, <2>2, <2>3, <2>4 DEF Next
  <1> QED BY <1>1, <1>2, PTL DEF Spec

-----------------------------------------------------------------------------
(* Repairs.                                                                *)

(* A piece was there before, or it is the one this step wrote.             *)
LEMMA PieceOrigin ==
    ASSUME BaseInv, NEW p \in Procs, Step(p), NEW m \in Months, NEW i \in DOMAIN file'[m]
    PROVE  \/ i \in DOMAIN file[m] /\ file'[m][i].rec = file[m][i].rec
           \/ /\ Write(p) /\ m = handle[p] /\ i = Len(file[m]) + 1
              /\ file'[m][i].rec = rec[p]
  <1> USE DEF BaseInv
  <1>0. file[m] \in Seq(Piece) /\ file \in [Months -> Seq(Piece)]
    BY DEF TypeOK
  <1>1. CASE Write(p)
    <2>1. PICK cut \in {"whole", "bare", "part"} :
            /\ [rec |-> rec[p], cut |-> cut] \in Piece
            /\ file' = [file EXCEPT ![handle[p]] =
                          Append(file[handle[p]], [rec |-> rec[p], cut |-> cut])]
      BY <1>1, WriteDoes
    <2>2. CASE m = handle[p]
      <3>1. file'[m] = Append(file[m], [rec |-> rec[p], cut |-> cut])
        BY <1>0, <2>1, <2>2
      <3>2. /\ Len(file[m]) \in Nat /\ DOMAIN file[m] = 1..Len(file[m])
            /\ DOMAIN file'[m] = 1..Len(file[m]) + 1
            /\ \A j \in 1..Len(file[m]) : file'[m][j] = file[m][j]
            /\ file'[m][Len(file[m]) + 1] = [rec |-> rec[p], cut |-> cut]
        BY <1>0, <2>1, <3>1, OneMore
      <3> QED BY <1>1, <2>2, <3>2
    <2>3. CASE m # handle[p]
      BY <1>0, <2>1, <2>3
    <2> QED BY <2>2, <2>3
  <1>2. CASE WriteRest(p)
    <2> DEFINE f == file[handle[p]]
               g == [f EXCEPT ![Len(f)].cut = "whole"]
    <2>1. f # <<>> /\ handle[p] \in Months /\ file' = [file EXCEPT ![handle[p]] = g]
      BY <1>2, WriteRestDoes DEF TypeOK
    <2>2. CASE m = handle[p]
      <3>1. DOMAIN g = DOMAIN f /\ \A j \in DOMAIN f : g[j].rec = f[j].rec
        BY <1>0, <2>1, <2>2, Finished
      <3> HIDE DEF g
      <3>2. file'[m] = g
        BY <1>0, <2>1, <2>2
      <3> QED BY <2>2, <3>1, <3>2
    <2> HIDE DEF g
    <2>3. CASE m # handle[p]
      BY <1>0, <2>1, <2>3
    <2> QED BY <2>2, <2>3
  <1>3. CASE Truncate(p)
    <2> DEFINE g == SubSeq(file[on[p]], 1, LastNewline(file[on[p]]))
    <2>1. file' = [file EXCEPT ![on[p]] = g]
      BY <1>3, TruncateDoes
    <2>2. CASE m = on[p]
      <3>1. DOMAIN g \subseteq DOMAIN file[m] /\ \A j \in DOMAIN g : g[j] = file[m][j]
        BY <1>0, <2>2, RepairKeepsWhole
      <3> HIDE DEF g
      <3>2. file'[m] = g
        BY <1>0, <2>1, <2>2
      <3> QED BY <3>1, <3>2
    <2> HIDE DEF g
    <2>3. CASE m # on[p]
      BY <1>0, <2>1, <2>3
    <2> QED BY <2>2, <2>3
  <1> QED BY <1>1, <1>2, <1>3, FilesStay

LEMMA LandedOrigin ==
    ASSUME BaseInv, NEW p \in Procs, Step(p), NEW m \in Months, NEW r \in Landed(m)'
    PROVE  r \in Landed(m) \/ (Write(p) /\ r = rec[p])
BY PieceOrigin DEF Landed

(* What a repair cut off before, or what this step cuts off.               *)
LEMMA TornOrigin ==
    ASSUME BaseInv, NEW p \in Procs, Step(p), NEW m \in Months, NEW r \in torn'[m]
    PROVE  r \in torn[m] \/ (Truncate(p) /\ m = on[p] /\ r \in Torn(file[m]))
  <1>1. CASE Truncate(p)
    BY <1>1, TruncateDoes DEF BaseInv, TypeOK
  <1>2. CASE ~Truncate(p)
    <2>1. torn' = torn
      BY <1>2 DEF Step, Open, Create, SyncDir, CheckTail, Quarantine, RepairSync, BeginAppend,
         LockFile, Write, WriteRest, Sync, ScanStart, ScanRepair, ScanRead, ScanEnd, Fail, Leave,
         files
    <2> QED BY <2>1
  <1> QED BY <1>1, <1>2

LEMMA TornLanded ==
    ASSUME TypeOK, NEW m \in Months, NEW r \in Torn(file[m])
    PROVE  \E i \in DOMAIN file[m] : file[m][i].rec = r /\ file[m][i].cut # "whole"
  <1>1. file[m] \in Seq(Piece)
    BY DEF TypeOK
  <1>2. PICK i \in LastNewline(file[m]) + 1..Len(file[m]) : file[m][i].rec = r
    BY DEF Torn
  <1>3. /\ LastNewline(file[m]) \in 0..Len(file[m]) /\ DOMAIN file[m] = 1..Len(file[m])
        /\ Len(file[m]) \in Nat /\ file[m][i].cut # "whole"
    BY <1>1, <1>2, LastNewlineIs, LenProperties
  <1>4. i \in DOMAIN file[m]
    BY <1>2, <1>3
  <1> QED BY <1>2, <1>3, <1>4

(* The record in hand is a new one, the same, or none.                     *)
LEMMA RecOrigin ==
    ASSUME BaseInv, NEW p \in Procs, Step(p)
    PROVE  \/ BeginAppend(p) /\ rec'[p] = used + 1 /\ used' = used + 1
           \/ ~BeginAppend(p) /\ used' = used /\ rec'[p] \in {rec[p], 0}
  <1> USE DEF BaseInv, TypeOK
  <1>1. CASE BeginAppend(p)
    BY <1>1 DEF BeginAppend
  <1>2. CASE ~BeginAppend(p)
    BY <1>2 DEF Step, Open, Create, SyncDir, CheckTail, Quarantine, Truncate, RepairSync,
       LockFile, Write, WriteRest, Sync, ScanStart, ScanRepair, ScanRead, ScanEnd, Fail, Leave,
       Reset, runVars
  <1> QED BY <1>1, <1>2

(* Who has begun to write goes on to the end, or gives the record up.      *)
LEMMA WritersGo ==
    ASSUME BaseInv, NEW p \in Procs, Step(p), pc[p] \in {"writing", "sync"}
    PROVE  rec'[p] = 0 \/ pc'[p] = "sync"
  <1> USE DEF BaseInv
  <1>1. WriteRest(p) \/ Sync(p) \/ Fail(p) \/ Leave(p)
    BY DEF Step, Open, Create, SyncDir, CheckTail, Quarantine, Truncate, RepairSync, BeginAppend,
       LockFile, Write, ScanStart, ScanRepair, ScanRead, ScanEnd
  <1>2. CASE WriteRest(p)
    BY <1>2, WriteRestDoes
  <1>3. CASE Sync(p) \/ Fail(p)
    BY <1>3 DEF Sync, Fail, TypeOK
  <1>4. CASE Leave(p)
    BY <1>4 DEF Leave, Reset
  <1> QED BY <1>1, <1>2, <1>3, <1>4

(* A repair does not touch a record that someone has in hand.              *)
LEMMA NotInHand ==
    ASSUME BaseInv, RecordInv, NEW p \in Procs, Truncate(p), NEW q \in Procs, rec[q] # 0
    PROVE  rec[q] \notin Torn(file[on[p]])
  <1> SUFFICES ASSUME rec[q] \in Torn(file[on[p]]) PROVE FALSE
    OBVIOUS
  <1> USE DEF BaseInv
  <1>1. pc[p] = "truncate" /\ on[p] \in Months /\ lock[on[p]] = p
    BY TruncateDoes DEF TypeOK
  <1>2. PICK i \in DOMAIN file[on[p]] : file[on[p]][i].rec = rec[q]
    BY <1>1, TornLanded
  <1>3. pc[q] \in {"writing", "sync"}
    BY <1>1, <1>2 DEF RecordInv, RecordOf, Landed
  <1>4. handle[q] \in Months /\ lock[handle[q]] = q
    BY <1>3 DEF PlaceInv, PlaceOf, Appending, TypeOK
  <1> DEFINE f == file[handle[q]]
  <1>5. f \in Seq(Piece) /\ f # <<>> /\ f[Len(f)].rec = rec[q]
    BY <1>3, <1>4 DEF TailInv, TailOf, TypeOK
  <1>6. Len(f) \in DOMAIN f
    BY <1>5, EmptySeq, LenProperties
  <1>7. on[p] = handle[q]
    BY <1>1, <1>2, <1>4, <1>5, <1>6 DEF RecordInv
  <1>8. p = q
    BY <1>1, <1>4, <1>7
  <1> QED BY <1>1, <1>3, <1>8
(* Who is about to cut a tail off has put it in the sidecar.               *)
LEMMA TruncatersCome ==
    ASSUME BaseInv, NEW p \in Procs, Step(p), pc'[p] = "truncate"
    PROVE  Quarantine(p)
  <1> USE DEF BaseInv, Goto, TypeOK
  <1>1. CASE Open(p) \/ Create(p) \/ Truncate(p) \/ LockFile(p) \/ Sync(p) \/ WriteRest(p)
    BY <1>1 DEF Open, OpenMonth, Create, Truncate, LockFile, Sync, WriteRest
  <1>2. CASE SyncDir(p) \/ RepairSync(p)
    BY <1>2, OpenedMoves, RepairedMoves DEF SyncDir, RepairSync
  <1>3. CASE CheckTail(p)
    BY <1>3, RepairedMoves DEF CheckTail
  <1>4. CASE BeginAppend(p)
    BY <1>4 DEF BeginAppend, OpenMonth
  <1>5. CASE Write(p)
    BY <1>5, WriteDoes
  <1>6. CASE ScanStart(p) \/ (\E m \in Months : ScanRepair(p, m) \/ ScanRead(p, m)) \/ ScanEnd(p)
    BY <1>6 DEF ScanStart, ScanRepair, ScanRead, ScanEnd
  <1>7. CASE Fail(p)
    BY <1>7 DEF Fail
  <1>8. CASE Leave(p)
    BY <1>8 DEF Leave, Reset
  <1> QED BY <1>1, <1>2, <1>3, <1>4, <1>5, <1>6, <1>7, <1>8 DEF Step

LEMMA OwnRecord ==
    ASSUME BaseInv, RecordInv, NEW p \in Procs, Step(p)
    PROVE  RecordOf(p)'
  <1> USE DEF BaseInv
  <1>0. used \in Nat /\ \A q \in Procs : rec[q] \in Nat /\ rec[q] <= used
    <2>1. \A q \in Procs : rec[q] \in Nat
      BY LedgerAssumption DEF TypeOK, Records, LedgerAssumption
    <2>2. used \in Nat
      BY LedgerAssumption DEF TypeOK, LedgerAssumption
    <2> QED BY <2>1, <2>2 DEF RecordInv, RecordOf
  <1>1. CASE BeginAppend(p)
    <2>1. /\ rec'[p] = used + 1 /\ used' = used + 1
          /\ UNCHANGED <<file, torn, acked>>
      BY <1>1, RecOrigin DEF BeginAppend, files
    <2>2. \A m \in Months : used + 1 \notin torn[m] /\ used + 1 \notin Landed(m)
      BY <1>0 DEF RecordInv
    <2>3. \A m \in Months : Landed(m)' = Landed(m)
      BY <2>1 DEF Landed
    <2>4. used + 1 \notin acked
      BY <1>0 DEF RecordInv
    <2>5. \A q \in Procs : rec'[q] = rec'[p] => q = p
      BY <1>0, <2>1, OthersStay DEF Bystander
    <2> QED BY <1>0, <2>1, <2>2, <2>3, <2>4, <2>5 DEF RecordOf
  <1>2. CASE ~BeginAppend(p) /\ rec'[p] # 0
    <2>1. used' = used /\ rec'[p] = rec[p] /\ rec[p] # 0
      BY <1>2, RecOrigin
    <2>2. RecordOf(p)
      BY DEF RecordInv
    <2>3. rec[p] \notin acked'
      <3>1. ~Sync(p)
        BY <2>1 DEF Sync, TypeOK
      <3> QED BY <2>1, <2>2, <3>1, AckedStay DEF RecordOf
    <2>4. \A m \in Months : rec[p] \notin torn'[m]
      BY <2>1, <2>2, TornOrigin, NotInHand DEF RecordOf
    <2>5. pc'[p] \notin {"writing", "sync"} => \A m \in Months : rec[p] \notin Landed(m)'
      <3>1. ASSUME pc'[p] \notin {"writing", "sync"}
            PROVE  pc[p] \notin {"writing", "sync"} /\ ~Write(p)
        BY <2>1, <3>1, WritersGo, WriteDoes
      <3> QED BY <2>1, <2>2, <3>1, LandedOrigin DEF RecordOf
    <2>6. \A q \in Procs : rec'[q] = rec'[p] => q = p
      BY <2>1, <2>2, OthersStay DEF Bystander, RecordOf
    <2> QED BY <1>0, <2>1, <2>3, <2>4, <2>5, <2>6 DEF RecordOf
  <1>3. CASE rec'[p] = 0
    BY <1>3 DEF RecordOf
  <1> QED BY <1>1, <1>2, <1>3

LEMMA RecordStep ==
    ASSUME BaseInv, RecordInv, NEW p \in Procs, Step(p)
    PROVE  RecordInv'
  <1> USE DEF BaseInv
  <1>0. used \in Nat /\ used' \in Nat /\ used <= used'
    <2>1. used \in Nat
      BY LedgerAssumption DEF TypeOK, LedgerAssumption
    <2>2. used' \in {used, used + 1}
      BY RecOrigin
    <2> QED BY <2>1, <2>2
  <1>1. \A q \in Procs : rec[q] \in Nat /\ (rec[q] # 0 => rec[q] <= used)
    <2>1. \A q \in Procs : rec[q] \in Nat
      BY LedgerAssumption DEF TypeOK, Records, LedgerAssumption
    <2> QED BY <2>1 DEF RecordInv, RecordOf
  <1>2. ASSUME NEW q \in Procs \ {p} PROVE RecordOf(q)'
    <2>1. Bystander(q) /\ RecordOf(q) /\ RecordOf(p)
      BY OthersStay DEF RecordInv
    <2> SUFFICES ASSUME rec[q] # 0 PROVE RecordOf(q)'
      BY <2>1 DEF RecordOf, Bystander
    <2>2. rec[q] \notin acked'
      <3>1. rec[q] # rec[p]
        BY <2>1 DEF RecordOf
      <3> QED BY <2>1, <3>1, AckedStay, SyncHolds DEF RecordOf
    <2>3. \A m \in Months : rec[q] \notin torn'[m]
      BY <2>1, TornOrigin, NotInHand DEF RecordOf
    <2>4. pc[q] \notin {"writing", "sync"} => \A m \in Months : rec[q] \notin Landed(m)'
      BY <2>1, LandedOrigin DEF RecordOf
    <2>5. ASSUME NEW k \in Procs, rec'[k] = rec[q] PROVE k = q
      <3>1. CASE k = p
        <4>1. rec'[p] # used + 1
          BY <1>0, <1>1, <2>5, <3>1
        <4>2. rec[p] = rec[q]
          BY <2>5, <3>1, <4>1, RecOrigin
        <4> QED BY <2>1, <3>1, <4>2 DEF RecordOf
      <3>2. CASE k # p
        BY <2>1, <2>5, <3>2, OthersStay DEF Bystander, RecordOf
      <3> QED BY <3>1, <3>2
    <2>6. rec[q] <= used'
      BY <1>0, <1>1
    <2> QED BY <2>1, <2>2, <2>3, <2>4, <2>5, <2>6 DEF RecordOf, Bystander
  <1>3. ASSUME NEW r \in acked' PROVE r <= used'
    <2>1. acked \subseteq Nat
      BY DEF TypeOK, Records
    <2>2. CASE r \in acked
      BY <1>0, <2>1, <2>2 DEF RecordInv
    <2>3. CASE r \notin acked
      <3>1. Sync(p) /\ r = rec[p] /\ rec[p] # 0
        BY <1>3, <2>3, AckedStay, SyncHolds DEF Records
      <3> QED BY <1>0, <1>1, <3>1
    <2> QED BY <2>2, <2>3
  <1>4. ASSUME NEW m \in Months, NEW r \in Landed(m)' \cup torn'[m] PROVE r <= used'
    <2>1. \A k \in Landed(m) \cup torn[m] : k \in Nat
      <3>1. \A i \in DOMAIN file[m] : file[m][i] \in Piece
        BY ElementOfSeq, LenProperties DEF TypeOK
      <3>2. \A i \in DOMAIN file[m] : file[m][i].rec \in Records
        BY <3>1 DEF Piece
      <3> QED BY <3>2 DEF Landed, TypeOK, Records
    <2>2. CASE r \in Landed(m) \cup torn[m]
      BY <1>0, <2>1, <2>2 DEF RecordInv
    <2>3. CASE Write(p) /\ r = rec[p]
      BY <1>0, <1>1, <2>3, WriteDoes DEF Records
    <2>4. CASE m = on[p] /\ r \in Torn(file[m])
      BY <2>2, <2>4, TornLanded DEF Landed
    <2> QED BY <1>4, <2>2, <2>3, <2>4, LandedOrigin, TornOrigin
  <1>5. ASSUME NEW m \in Months, NEW n \in Months, NEW i \in DOMAIN file'[m],
               NEW j \in DOMAIN file'[n], file'[m][i].rec = file'[n][j].rec
        PROVE  m = n /\ i = j
    <2>1. ~Write(p) \/ (rec[p] # 0 /\ \A k \in Months : rec[p] \notin Landed(k))
      <3>1. RecordOf(p)
        BY DEF RecordInv
      <3>2. Write(p) => pc[p] = "write" /\ rec[p] \in Records
        BY WriteDoes
      <3>3. rec[p] \in Records => rec[p] # 0
        BY DEF Records
      <3> QED BY <3>1, <3>2, <3>3 DEF RecordOf
    <2>2. \A k \in Months : \A x \in DOMAIN file[k] : file[k][x].rec \in Landed(k)
      BY DEF Landed
    <2> QED BY <1>5, <2>1, <2>2, PieceOrigin DEF RecordInv
  <1>6. \A q \in Procs : RecordOf(q)'
    BY <1>2, OwnRecord
  <1> QED BY <1>3, <1>4, <1>5, <1>6 DEF RecordInv

(* What a repair cuts off was not acknowledged and is in the sidecar.      *)
LEMMA CutStep ==
    ASSUME BaseInv, KeptInv, RecordInv, CutInv, NEW p \in Procs, Step(p)
    PROVE  CutInv'
  <1> USE DEF BaseInv
  <1>1. \A m \in Months : side[m] \subseteq side'[m]
    <2>1. CASE Quarantine(p)
      BY <2>1 DEF Quarantine, TypeOK
    <2>2. CASE ~Quarantine(p)
      BY <2>2 DEF Step, Open, Create, SyncDir, CheckTail, Truncate, RepairSync, BeginAppend,
         LockFile, Write, WriteRest, Sync, ScanStart, ScanRepair, ScanRead, ScanEnd, Fail, Leave,
         files
    <2> QED BY <2>1, <2>2
  <1>2. ASSUME Truncate(p), NEW r \in Torn(file[on[p]]) PROVE r \notin acked /\ r \in side[on[p]]
    <2>1. on[p] \in Months /\ pc[p] = "truncate" /\ exists \subseteq Months
      BY <1>2, TruncateDoes DEF TypeOK
    <2>2. PICK i \in DOMAIN file[on[p]] : file[on[p]][i].rec = r /\ file[on[p]][i].cut # "whole"
      BY <1>2, <2>1, TornLanded
    <2>3. ASSUME r \in acked PROVE FALSE
      <3>1. PICK m \in exists : Holds(file[m], r)
        BY <2>3 DEF KeptInv
      <3>2. PICK j \in DOMAIN file[m] : file[m][j].rec = r /\ file[m][j].cut = "whole"
        BY <3>1 DEF Holds
      <3>3. m = on[p] /\ j = i
        BY <2>1, <2>2, <3>2 DEF RecordInv
      <3> QED BY <2>2, <3>2, <3>3
    <2> QED BY <1>2, <2>1, <2>3 DEF CutInv
  <1>3. ASSUME NEW m \in Months, NEW r \in torn'[m] PROVE r \notin acked' /\ r \in side'[m]
    <2>1. CASE r \in torn[m]
      <3>1. r \notin acked /\ r \in side[m] /\ r # 0
        BY <2>1 DEF CutInv, TypeOK, Records
      <3>2. Sync(p) => r # rec[p]
        BY <2>1, <3>1 DEF RecordInv, RecordOf
      <3> QED BY <1>1, <3>1, <3>2, AckedStay, SyncHolds
    <2>2. CASE Truncate(p) /\ m = on[p] /\ r \in Torn(file[m])
      <3>1. ~Sync(p)
        BY <2>2 DEF Truncate, Sync
      <3> QED BY <1>1, <1>2, <2>2, <3>1, AckedStay
    <2> QED BY <1>3, <2>1, <2>2, TornOrigin
  <1>4. ASSUME NEW q \in Procs, pc'[q] = "truncate" PROVE Torn(file'[on'[q]]) \subseteq side'[on'[q]]
    <2>1. CASE q = p
      <3>1. Quarantine(p)
        BY <1>4, <2>1, TruncatersCome
      <3>2. on[p] \in Months
        BY <3>1 DEF Quarantine, PlaceInv, PlaceOf, Opening, Repairing, TypeOK
      <3> QED BY <2>1, <3>1, <3>2 DEF Quarantine, runVars, TypeOK
    <2>2. CASE q # p
      <3>1. Bystander(q) /\ pc[q] = "truncate"
        BY <1>4, <2>2, OthersStay DEF Bystander
      <3>2. on[q] \in Months /\ lock[on[q]] = q
        BY <3>1 DEF PlaceInv, PlaceOf, Opening, Repairing, TypeOK
      <3>3. file'[on[q]] = file[on[q]]
        BY <2>2, <3>2, FileNeedsLock
      <3> QED BY <1>1, <3>1, <3>2, <3>3 DEF CutInv, Bystander
    <2> QED BY <2>1, <2>2
  <1> QED BY <1>3, <1>4 DEF CutInv

(* While the machine runs, a repair cuts off nothing that was acknowledged *)
(* and nothing that is not in the sidecar.                                 *)
THEOREM RepairHarmlessHolds == Powered => (Spec => []RepairHarmless)
  <1> SUFFICES ASSUME Powered PROVE Spec => []RepairHarmless
    OBVIOUS
  <1> DEFINE I == BaseInv /\ KeptInv /\ RecordInv /\ CutInv
  <1>1. Init => I
    <2> SUFFICES ASSUME Init PROVE I
      OBVIOUS
    <2>1. BaseInv /\ KeptInv
      BY InitTypeOK, InitPlaceInv, InitTailInv DEF Init, BaseInv, KeptInv
    <2>2. \A m \in Months : file[m] = <<>> /\ torn[m] = {} /\ DOMAIN file[m] = {}
      BY DEF Init
    <2>3. RecordInv
      BY <2>2 DEF Init, RecordInv, RecordOf, Landed
    <2>4. CutInv
      BY <2>2 DEF Init, CutInv
    <2> QED BY <2>1, <2>3, <2>4
  <1>2. I /\ [Next]_vars => I'
    <2> SUFFICES ASSUME I, [Next]_vars PROVE I'
      OBVIOUS
    <2>1. BaseInv'
      BY StepTypeOK, StepPlaceInv, StepTailInv DEF BaseInv
    <2>2. ASSUME NEW p \in Procs, Step(p) PROVE I'
      BY <2>1, <2>2, KeptStep, RecordStep, CutStep
    <2>3. CASE NextMonth \/ UNCHANGED vars
      <3>1. UNCHANGED <<exists, file, side, torn, pc, on, rec, used, acked>>
        BY <2>3 DEF NextMonth, vars, files, runVars
      <3>2. KeptInv'
        BY <3>1 DEF KeptInv
      <3>3. RecordInv'
        BY <3>1 DEF RecordInv, RecordOf, Landed
      <3>4. CutInv'
        BY <3>1 DEF CutInv
      <3> QED BY <2>1, <3>2, <3>3, <3>4
    <2>4. ~PowerLoss
      BY DEF Powered, PowerLoss
    <2> QED BY <2>2, <2>3, <2>4 DEF Next
  <1>3. I => RepairHarmless
    BY DEF CutInv, RepairHarmless
  <1> QED BY <1>1, <1>2, <1>3, PTL DEF Spec
-----------------------------------------------------------------------------
(* Acknowledged records.                                                   *)

LEMMA WholeLineIsGood ==
    ASSUME NEW f \in Seq(Piece), WholeLines(f), NEW r, Holds(f, r)
    PROVE  r \in Good(f)
  <1>1. PICK i \in DOMAIN f : f[i].rec = r /\ f[i].cut = "whole"
    BY DEF Holds
  <1>2. i \in 1..Len(f) /\ Len(f) \in Nat /\ DOMAIN f = 1..Len(f)
    BY LenProperties
  <1>3. i > 1 => f[i - 1].cut = "whole"
    <2>1. i > 1 => i - 1 \in DOMAIN f /\ i - 1 < Len(f)
      BY <1>2
    <2> QED BY <2>1 DEF WholeLines
  <1>4. Readable(f, i)
    BY <1>1, <1>3 DEF Readable
  <1> QED BY <1>1, <1>4 DEF Good

(* What survives the machine has its lines whole, and has what had been    *)
(* fsynced.                                                                *)
LEMMA SurvivorsKeep ==
    ASSUME TypeOK, NEW m \in Months, WholeLines(file[m]), WholeLines(disk[m]),
           NEW g \in Survivors(m)
    PROVE  /\ WholeLines(g)
           /\ \A r : Holds(file[m], r) /\ Holds(disk[m], r) => Holds(g, r)
  <1> DEFINE f == file[m]
             d == disk[m]
  <1>1. /\ f \in Seq(Piece) /\ Len(f) \in Nat /\ DOMAIN f = 1..Len(f)
        /\ d \in Seq(Piece) /\ Len(d) \in Nat /\ DOMAIN d = 1..Len(d)
    BY LenProperties DEF TypeOK
  <1>2. CASE g \in {d, f}
    BY <1>2
  <1>3. ASSUME NEW n \in Len(d)..Len(f), SubSeq(f, 1, Len(d)) = d, Len(d) <= Len(f)
        PROVE  LET h == SubSeq(f, 1, n) IN
               /\ h \in Seq(Piece) /\ Len(h) = n /\ DOMAIN h = 1..n
               /\ \A i \in 1..n : h[i] = f[i]
               /\ \A r : Holds(d, r) => \E i \in 1..n : f[i].rec = r /\ f[i].cut = "whole"
    <2>1. n \in 0..Len(f) /\ Len(d) \in 0..Len(f)
      BY <1>1, <1>3
    <2>2. \A i \in 1..Len(d) : d[i] = f[i] /\ i \in 1..n
      BY <1>1, <1>3, <2>1, CutShort
    <2> QED BY <1>1, <2>1, <2>2, CutShort DEF Holds
  <1>4. CASE Len(d) <= Len(f) /\ SubSeq(f, 1, Len(d)) = d /\ \E n \in Len(d)..Len(f) : g = SubSeq(f, 1, n)
    <2>1. PICK n \in Len(d)..Len(f) : g = SubSeq(f, 1, n)
      BY <1>4
    <2>2. /\ g \in Seq(Piece) /\ Len(g) = n /\ DOMAIN g = 1..n
          /\ \A i \in 1..n : g[i] = f[i]
          /\ \A r : Holds(d, r) => \E i \in 1..n : f[i].rec = r /\ f[i].cut = "whole"
      BY <1>3, <1>4, <2>1
    <2>3. WholeLines(g)
      <3>1. \A i \in 1..n : i < n => i \in DOMAIN f /\ i < Len(f)
        BY <1>1
      <3> QED BY <2>2, <3>1 DEF WholeLines
    <2>8. ASSUME NEW r, Holds(d, r) PROVE Holds(g, r)
      <3>1. PICK i \in 1..n : f[i].rec = r /\ f[i].cut = "whole"
        BY <2>2, <2>8
      <3>2. i \in DOMAIN g /\ g[i] = f[i]
        BY <2>2
      <3> QED BY <3>1, <3>2 DEF Holds
    <2> QED BY <2>3, <2>8
  <1>5. CASE /\ Len(d) <= Len(f) /\ SubSeq(f, 1, Len(d)) = d
             /\ \E n \in (Len(d)..Len(f)) \ {Len(f)} :
                  g = Append(SubSeq(f, 1, n), [rec |-> f[n + 1].rec, cut |-> "part"])
    <2>1. PICK n \in (Len(d)..Len(f)) \ {Len(f)} :
                  g = Append(SubSeq(f, 1, n), [rec |-> f[n + 1].rec, cut |-> "part"])
      BY <1>5
    <2> DEFINE h == SubSeq(f, 1, n)
               x == [rec |-> f[n + 1].rec, cut |-> "part"]
    <2>2. /\ h \in Seq(Piece) /\ Len(h) = n /\ DOMAIN h = 1..n
          /\ \A i \in 1..n : h[i] = f[i]
          /\ \A r : Holds(d, r) => \E i \in 1..n : f[i].rec = r /\ f[i].cut = "whole"
      BY <1>3, <1>5
    <2>3. x \in Piece
      <3>1. n + 1 \in 1..Len(f)
        BY <1>1
      <3>2. f[n + 1] \in Piece
        BY <1>1, <3>1
      <3> QED BY <3>2 DEF Piece
    <2> HIDE DEF h, x
    <2>4. g = Append(h, x)
      BY <2>1 DEF h, x
    <2>5. DOMAIN g = 1..n + 1 /\ Len(g) = n + 1 /\ \A i \in 1..n : g[i] = f[i]
      BY <2>2, <2>3, <2>4, OneMore
    <2>6. WholeLines(g)
      <3>1. \A i \in 1..n + 1 : i < n + 1 => i \in 1..n /\ i \in DOMAIN f /\ i < Len(f)
        BY <1>1
      <3> QED BY <2>5, <3>1 DEF WholeLines
    <2>7. \A i \in 1..n : i \in DOMAIN g
      BY <1>1, <2>5
    <2>8. ASSUME NEW r, Holds(d, r) PROVE Holds(g, r)
      <3>1. PICK i \in 1..n : f[i].rec = r /\ f[i].cut = "whole"
        BY <2>2, <2>8
      <3>2. i \in DOMAIN g /\ g[i] = f[i]
        BY <2>2, <2>5, <2>7
      <3> QED BY <3>1, <3>2 DEF Holds
    <2> QED BY <2>6, <2>8
  <1> QED BY <1>2, <1>4, <1>5 DEF Survivors
(* Who goes to fsync the directory has found no file there; nobody does    *)
(* where all files are.                                                    *)
LEMMA NamesStay ==
    ASSUME BaseInv, DurableInv, PowerFails, NEW p \in Procs, Step(p)
    PROVE  /\ exists' = Months /\ entry' = entry
           /\ pc'[p] # "syncDir" /\ ~fresh'[p]
  <1> USE DEF BaseInv, DurableInv, Goto, TypeOK
  <1>1. /\ exists = Months /\ pc[p] # "syncDir" /\ ~fresh[p] /\ clock \in exists
    OBVIOUS
  <1>2. exists \subseteq exists' /\ exists' \subseteq Months
    <2>1. TypeOK'
      BY StepTypeOK DEF Next
    <2> QED BY <2>1, FilesAreKept
  <1>3. ~SyncDir(p)
    BY <1>1 DEF SyncDir
  <1>4. entry' = entry
    BY <1>3 DEF Step, Open, Create, CheckTail, Quarantine, Truncate, RepairSync, BeginAppend,
       LockFile, Write, WriteRest, Sync, ScanStart, ScanRepair, ScanRead, ScanEnd, Fail, Leave,
       files
  <1> SUFFICES pc'[p] # "syncDir" /\ ~fresh'[p]
    BY <1>1, <1>2, <1>4
  <1>5. CASE Open(p) \/ Create(p) \/ Quarantine(p) \/ Truncate(p) \/ LockFile(p) \/ WriteRest(p) \/ Sync(p)
    BY <1>1, <1>5 DEF Open, OpenMonth, Create, Quarantine, Truncate, LockFile, WriteRest, Sync, runVars
  <1>6. CASE CheckTail(p) \/ RepairSync(p)
    BY <1>1, <1>6, RepairedMoves DEF CheckTail, RepairSync
  <1>7. CASE BeginAppend(p)
    BY <1>1, <1>7 DEF BeginAppend, OpenMonth
  <1>8. CASE Write(p)
    BY <1>1, <1>8, WriteDoes
  <1>9. CASE ScanStart(p) \/ (\E m \in Months : ScanRepair(p, m) \/ ScanRead(p, m)) \/ ScanEnd(p)
    BY <1>1, <1>9 DEF ScanStart, ScanRepair, ScanRead, ScanEnd, runVars
  <1>10. CASE Fail(p)
    BY <1>1, <1>10 DEF Fail
  <1>11. CASE Leave(p)
    BY <1>1, <1>11 DEF Leave, Reset
  <1> QED BY <1>3, <1>5, <1>6, <1>7, <1>8, <1>9, <1>10, <1>11 DEF Step

(* A process that appends finds the file ending in a newline.              *)
LEMMA WriterFindsCleanTail ==
    ASSUME BaseInv, DurableInv, NEW p \in Procs, Write(p)
    PROVE  CleanTail(file[handle[p]])
  <1>1. pc[p] = "write" /\ handle[p] \in Months /\ lock[handle[p]] = p
    BY WriteDoes DEF BaseInv, TypeOK
  <1>2. ~UnderWay(handle[p])
    <2> SUFFICES ASSUME NEW q \in Procs, pc[q] = "writing", handle[q] = handle[p] PROVE FALSE
      BY DEF UnderWay
    <2>1. lock[handle[p]] = q
      BY DEF BaseInv, PlaceInv, PlaceOf, Appending
    <2> QED BY <1>1, <2>1
  <1> QED BY <1>1, <1>2 DEF DurableInv

(* Lines stay whole.                                                       *)
LEMMA LinesStay ==
    ASSUME BaseInv, DurableInv, NEW p \in Procs, Step(p), NEW m \in Months
    PROVE  WholeLines(file'[m])
  <1> USE DEF BaseInv
  <1>0. file[m] \in Seq(Piece) /\ file \in [Months -> Seq(Piece)] /\ WholeLines(file[m])
    BY DEF TypeOK, DurableInv
  <1>1. CASE Write(p)
    <2>1. PICK x \in Piece : file' = [file EXCEPT ![handle[p]] = Append(file[handle[p]], x)]
      BY <1>1, WriteDoes
    <2>2. CASE m = handle[p]
      <3>1. file'[m] = Append(file[m], x)
        BY <1>0, <2>1, <2>2
      <3>2. /\ Len(file'[m]) = Len(file[m]) + 1 /\ Len(file[m]) \in Nat
            /\ DOMAIN file'[m] = 1..Len(file[m]) + 1 /\ DOMAIN file[m] = 1..Len(file[m])
            /\ \A i \in 1..Len(file[m]) : file'[m][i] = file[m][i]
        BY <1>0, <3>1, OneMore
      <3>3. file[m] = <<>> \/ file[m][Len(file[m])].cut = "whole"
        BY <1>1, <2>2, WriterFindsCleanTail DEF CleanTail
      <3>4. ASSUME NEW i \in DOMAIN file'[m], i < Len(file'[m]) PROVE file'[m][i].cut = "whole"
        <4>1. i \in DOMAIN file[m] /\ file'[m][i] = file[m][i] /\ (i = Len(file[m]) \/ i < Len(file[m]))
          BY <3>2, <3>4
        <4>2. file[m] # <<>>
          BY <3>2, <4>1
        <4> QED BY <1>0, <3>3, <4>1, <4>2 DEF WholeLines
      <3> QED BY <3>4 DEF WholeLines
    <2>3. CASE m # handle[p]
      BY <1>0, <2>1, <2>3
    <2> QED BY <2>2, <2>3
  <1>2. CASE WriteRest(p)
    <2> DEFINE f == file[handle[p]]
               g == [f EXCEPT ![Len(f)].cut = "whole"]
    <2>1. f # <<>> /\ handle[p] \in Months /\ file' = [file EXCEPT ![handle[p]] = g]
      BY <1>2, WriteRestDoes DEF TypeOK
    <2>2. CASE m = handle[p]
      <3>1. /\ DOMAIN g = DOMAIN f /\ Len(g) = Len(f) /\ Len(f) \in Nat
            /\ DOMAIN f = 1..Len(f) /\ \A j \in DOMAIN f : j # Len(f) => g[j] = f[j]
        BY <1>0, <2>1, <2>2, Finished
      <3> HIDE DEF g
      <3>2. file'[m] = g
        BY <1>0, <2>1, <2>2
      <3>3. WholeLines(g)
        BY <1>0, <2>2, <3>1 DEF WholeLines
      <3> QED BY <3>2, <3>3
    <2> HIDE DEF g
    <2>3. CASE m # handle[p]
      BY <1>0, <2>1, <2>3
    <2> QED BY <2>2, <2>3
  <1>3. CASE Truncate(p)
    <2> DEFINE n == LastNewline(file[on[p]])
               g == SubSeq(file[on[p]], 1, n)
    <2>1. file' = [file EXCEPT ![on[p]] = g]
      BY <1>3, TruncateDoes
    <2>2. CASE m = on[p]
      <3>1. n \in 0..Len(file[m]) /\ Len(file[m]) \in Nat /\ DOMAIN file[m] = 1..Len(file[m])
        BY <1>0, <2>2, LastNewlineIs, LenProperties
      <3> HIDE DEF n
      <3>2. Len(g) = n /\ DOMAIN g = 1..n /\ \A i \in 1..n : g[i] = file[m][i]
        BY <1>0, <2>2, <3>1, CutShort
      <3> HIDE DEF g
      <3>3. file'[m] = g
        BY <1>0, <2>1, <2>2
      <3>4. WholeLines(g)
        BY <1>0, <3>1, <3>2 DEF WholeLines
      <3> QED BY <3>3, <3>4
    <2> HIDE DEF g
    <2>3. CASE m # on[p]
      BY <1>0, <2>1, <2>3
    <2> QED BY <2>2, <2>3
  <1> QED BY <1>0, <1>1, <1>2, <1>3, FilesStay

(* What is on the disk was there, or is what processes see.                *)
LEMMA DiskOrigin ==
    ASSUME BaseInv, NEW p \in Procs, Step(p), NEW m \in Months
    PROVE  disk'[m] = disk[m] \/ (disk'[m] = file[m] /\ file' = file)
  <1> USE DEF BaseInv, TypeOK
  <1>1. CASE RepairSync(p)
    BY <1>1 DEF RepairSync
  <1>2. CASE Sync(p)
    BY <1>2 DEF Sync
  <1>3. CASE ~RepairSync(p) /\ ~Sync(p)
    BY <1>3 DEF Step, Open, Create, SyncDir, CheckTail, Quarantine, Truncate, BeginAppend,
       LockFile, Write, WriteRest, ScanStart, ScanRepair, ScanRead, ScanEnd, Fail, Leave, files
  <1> QED BY <1>1, <1>2, <1>3
(* Who is about to fsync a repaired file has cut its tail off.             *)
LEMMA RepairersCome ==
    ASSUME BaseInv, NEW p \in Procs, Step(p), pc'[p] = "repairSync"
    PROVE  Truncate(p)
  <1> USE DEF BaseInv, Goto, TypeOK
  <1>1. CASE Open(p) \/ Create(p) \/ Quarantine(p) \/ LockFile(p) \/ Sync(p) \/ WriteRest(p)
    BY <1>1 DEF Open, OpenMonth, Create, Quarantine, LockFile, Sync, WriteRest
  <1>2. CASE SyncDir(p) \/ RepairSync(p)
    BY <1>2, OpenedMoves, RepairedMoves DEF SyncDir, RepairSync
  <1>3. CASE CheckTail(p)
    BY <1>3, RepairedMoves DEF CheckTail
  <1>4. CASE BeginAppend(p)
    BY <1>4 DEF BeginAppend, OpenMonth
  <1>5. CASE Write(p)
    BY <1>5, WriteDoes
  <1>6. CASE ScanStart(p) \/ (\E m \in Months : ScanRepair(p, m) \/ ScanRead(p, m)) \/ ScanEnd(p)
    BY <1>6 DEF ScanStart, ScanRepair, ScanRead, ScanEnd
  <1>7. CASE Fail(p)
    BY <1>7 DEF Fail
  <1>8. CASE Leave(p)
    BY <1>8 DEF Leave, Reset
  <1> QED BY <1>1, <1>2, <1>3, <1>4, <1>5, <1>6, <1>7, <1>8 DEF Step

(* A handle is opened on a file whose tail was found, or made, clean.      *)
LEMMA HandleOrigin ==
    ASSUME BaseInv, DurableInv, NEW p \in Procs, Step(p)
    PROVE  \/ handle'[p] \in {handle[p], 0}
           \/ SyncDir(p)
           \/ /\ handle'[p] = on[p] /\ on[p] \in Months
              /\ file' = file /\ CleanTail(file[on[p]])
  <1> USE DEF BaseInv
  <1>1. CASE CheckTail(p)
    <2>1. on[p] \in Months
      BY <1>1 DEF CheckTail, PlaceInv, PlaceOf, Opening, Repairing
    <2> QED BY <1>1, <2>1, RepairedMoves DEF CheckTail, files
  <1>2. CASE RepairSync(p)
    <2>1. on[p] \in Months /\ CleanTail(file[on[p]])
      BY <1>2 DEF RepairSync, PlaceInv, PlaceOf, Opening, Repairing, DurableInv
    <2> QED BY <1>2, <2>1, RepairedMoves DEF RepairSync
  <1>3. CASE ~SyncDir(p) /\ ~CheckTail(p) /\ ~RepairSync(p)
    <2>1. handle' = handle \/ handle'[p] = 0
      BY <1>3 DEF Step, Open, Create, Quarantine, Truncate, BeginAppend, LockFile, Write,
         WriteRest, Sync, ScanStart, ScanRepair, ScanRead, ScanEnd, Fail, Leave, Reset, runVars
    <2> QED BY <2>1
  <1> QED BY <1>1, <1>2, <1>3

LEMMA TailStep ==
    ASSUME BaseInv, DurableInv, Sound, NEW p \in Procs, Step(p), NEW m \in Months,
           Powered \/ (\E q \in Procs : handle'[q] = m)
    PROVE  CleanTail(file'[m]) \/ UnderWay(m)'
  <1> USE DEF BaseInv
  <1>0. file[m] \in Seq(Piece) /\ file \in [Months -> Seq(Piece)]
    BY DEF TypeOK
  <1>1. CASE Write(p) /\ m = handle[p]
    <2>1. PICK cut \in {"whole", "bare", "part"} :
            /\ [rec |-> rec[p], cut |-> cut] \in Piece
            /\ file' = [file EXCEPT ![handle[p]] =
                          Append(file[handle[p]], [rec |-> rec[p], cut |-> cut])]
            /\ pc'[p] = IF cut = "whole" THEN "sync" ELSE "writing"
      BY <1>1, WriteDoes
    <2>2. handle' = handle
      BY <1>1, WriteDoes
    <2>3. CASE cut = "whole"
      <3>1. file'[m] = Append(file[m], [rec |-> rec[p], cut |-> cut])
        BY <1>0, <1>1, <2>1
      <3>2. /\ Len(file'[m]) = Len(file[m]) + 1
            /\ file'[m][Len(file[m]) + 1] = [rec |-> rec[p], cut |-> cut]
        BY <1>0, <2>1, <3>1, OneMore
      <3> QED BY <2>3, <3>2 DEF CleanTail
    <2>4. CASE cut # "whole"
      BY <1>1, <2>1, <2>2, <2>4 DEF UnderWay
    <2> QED BY <2>3, <2>4
  <1>2. CASE WriteRest(p) /\ m = handle[p]
    <2> DEFINE f == file[handle[p]]
               g == [f EXCEPT ![Len(f)].cut = "whole"]
    <2>1. f # <<>> /\ file' = [file EXCEPT ![handle[p]] = g]
      BY <1>2, WriteRestDoes
    <2>2. Len(g) = Len(f) /\ g[Len(f)].cut = "whole"
      BY <1>0, <1>2, <2>1, Finished
    <2> HIDE DEF g
    <2>3. file'[m] = g
      BY <1>0, <1>2, <2>1
    <2> QED BY <2>2, <2>3 DEF CleanTail
  <1>3. CASE Truncate(p) /\ m = on[p]
    <2> DEFINE g == SubSeq(file[on[p]], 1, LastNewline(file[on[p]]))
    <2>1. file' = [file EXCEPT ![on[p]] = g] /\ CleanTail(g)
      BY <1>0, <1>3, TruncateDoes, RepairKeepsWhole
    <2> HIDE DEF g
    <2> QED BY <1>0, <1>3, <2>1
  <1>4. CASE ~(Write(p) /\ m = handle[p]) /\ ~(WriteRest(p) /\ m = handle[p]) /\ ~(Truncate(p) /\ m = on[p])
    <2>1. file'[m] = file[m]
      <3>1. CASE Write(p)
        <4>1. PICK cut \in {"whole", "bare", "part"} :
                file' = [file EXCEPT ![handle[p]] =
                          Append(file[handle[p]], [rec |-> rec[p], cut |-> cut])]
          BY <3>1, WriteDoes
        <4> QED BY <1>0, <1>4, <3>1, <4>1
      <3>2. CASE WriteRest(p)
        BY <1>0, <1>4, <3>2, WriteRestDoes
      <3>3. CASE Truncate(p)
        BY <1>0, <1>4, <3>3, TruncateDoes
      <3> QED BY <3>1, <3>2, <3>3, FilesStay
    <2>2. ASSUME UnderWay(m) PROVE UnderWay(m)'
      <3>1. PICK q \in Procs : pc[q] = "writing" /\ handle[q] = m
        BY <2>2 DEF UnderWay
      <3>2. q # p
        <4> SUFFICES ASSUME q = p PROVE FALSE
          OBVIOUS
        <4>1. ~Fail(p) /\ ~Leave(p)
          BY <3>1 DEF Sound, Fail, Leave
        <4> QED BY <1>4, <3>1, <4>1 DEF Step, Open, Create, SyncDir, CheckTail, Quarantine, Truncate,
               RepairSync, BeginAppend, LockFile, Write, Sync, ScanStart, ScanRepair, ScanRead,
               ScanEnd
      <3> QED BY <3>1, <3>2, OthersStay DEF UnderWay, Bystander
    <2>3. CASE Powered \/ \E q \in Procs : handle[q] = m
      BY <2>1, <2>2, <2>3 DEF DurableInv
    <2>4. CASE ~Powered /\ ~(\E q \in Procs : handle[q] = m)
      <3>1. PICK q \in Procs : handle'[q] = m
        BY <2>4
      <3>2. q = p
        BY <2>4, <3>1, OthersStay DEF Bystander
      <3>3. ~SyncDir(p) /\ m # 0
        BY <2>4 DEF DurableInv, Powered, SyncDir, Months
      <3>4. file' = file /\ CleanTail(file[m])
        BY <2>4, <3>1, <3>2, <3>3, HandleOrigin
      <3> QED BY <3>4
    <2> QED BY <2>3, <2>4
  <1> QED BY <1>1, <1>2, <1>3, <1>4

LEMMA DurableStep ==
    ASSUME BaseInv, DurableInv, Sound, NEW p \in Procs, Step(p)
    PROVE  DurableInv'
  <1> USE DEF BaseInv
  <1>1. PowerFails => /\ exists' = Months
                      /\ \A m \in Months : Journal(m) \in entry'
                      /\ \A q \in Procs : pc'[q] # "syncDir" /\ ~fresh'[q]
    <2> SUFFICES ASSUME PowerFails
                 PROVE  /\ exists' = Months
                        /\ \A m \in Months : Journal(m) \in entry'
                        /\ \A q \in Procs : pc'[q] # "syncDir" /\ ~fresh'[q]
      OBVIOUS
    <2>1. exists' = Months /\ entry' = entry /\ pc'[p] # "syncDir" /\ ~fresh'[p]
      BY NamesStay
    <2>2. \A q \in Procs \ {p} : pc'[q] = pc[q] /\ fresh'[q] = fresh[q]
      BY OthersStay DEF Bystander
    <2> QED BY <2>1, <2>2 DEF DurableInv
  <1>2. ASSUME NEW m \in Months PROVE WholeLines(file'[m]) /\ WholeLines(disk'[m])
    BY LinesStay, DiskOrigin DEF DurableInv
  <1>3. ASSUME NEW q \in Procs, pc'[q] = "repairSync" PROVE CleanTail(file'[on'[q]])
    <2>1. CASE q = p
      <3>1. Truncate(p)
        BY <1>3, <2>1, RepairersCome
      <3> DEFINE g == SubSeq(file[on[p]], 1, LastNewline(file[on[p]]))
      <3>2. on' = on /\ on[p] \in Months /\ file' = [file EXCEPT ![on[p]] = g]
        BY <3>1, TruncateDoes DEF TypeOK
      <3>3. CleanTail(g)
        BY <3>2, RepairKeepsWhole DEF TypeOK
      <3> HIDE DEF g
      <3> QED BY <2>1, <3>2, <3>3 DEF TypeOK
    <2>2. CASE q # p
      <3>1. Bystander(q) /\ pc[q] = "repairSync"
        BY <1>3, <2>2, OthersStay DEF Bystander
      <3>2. on[q] \in Months /\ lock[on[q]] = q
        BY <3>1 DEF PlaceInv, PlaceOf, Opening, Repairing, TypeOK
      <3>3. file'[on[q]] = file[on[q]]
        BY <2>2, <3>2, FileNeedsLock
      <3> QED BY <3>1, <3>3 DEF DurableInv, Bystander
    <2> QED BY <2>1, <2>2
  <1>4. ASSUME NEW r \in acked' PROVE \E m \in exists' : Holds(file'[m], r) /\ Holds(disk'[m], r)
    <2>1. CASE r \in acked
      <3>1. PICK m \in exists : Holds(file[m], r) /\ Holds(disk[m], r)
        BY <2>1 DEF DurableInv
      <3>2. m \in Months /\ m \in exists' /\ r \in Records
        BY <2>1, FilesAreKept DEF TypeOK
      <3>3. Holds(file'[m], r)
        BY <3>1, <3>2, HoldsStays
      <3>4. Holds(disk'[m], r)
        BY <3>1, <3>2, DiskOrigin
      <3> QED BY <3>2, <3>3, <3>4
    <2>2. CASE r \notin acked
      <3>1. Sync(p) /\ r = rec[p]
        BY <1>4, <2>2, AckedStay, SyncHolds
      <3>2. /\ handle[p] \in exists /\ Holds(file[handle[p]], r) /\ file' = file /\ exists' = exists
            /\ disk' = [disk EXCEPT ![handle[p]] = file[handle[p]]]
        BY <3>1, SyncHolds
      <3>3. disk'[handle[p]] = file[handle[p]]
        BY <3>2 DEF TypeOK
      <3> QED BY <3>2, <3>3
    <2> QED BY <2>1, <2>2
  <1>5. \A m \in Months : Powered \/ (\E q \in Procs : handle'[q] = m) =>
            CleanTail(file'[m]) \/ UnderWay(m)'
    BY TailStep
  <1> QED BY <1>1, <1>2, <1>3, <1>4, <1>5 DEF DurableInv

(* The machine stops: no name is lost, and what was fsynced is there.      *)
LEMMA DurablePower ==
    ASSUME BaseInv, DurableInv, PowerLoss
    PROVE  DurableInv'
  <1> USE DEF BaseInv
  <1>1. PowerFails /\ ~Powered
    BY DEF PowerLoss, Powered
  <1>2. PICK gone \in SUBSET {m \in exists : Journal(m) \notin entry},
             lost \in SUBSET {m \in Months : Sidecar(m) \notin entry} :
          /\ exists' = exists \ gone
          /\ file' \in {g \in [Months -> UNION {Survivors(m) \cup {<<>>} : m \in Months}] :
                         \A m \in Months : IF m \in gone THEN g[m] = <<>>
                                           ELSE g[m] \in Survivors(m)}
          /\ side' = [m \in Months |-> IF m \in lost THEN {} ELSE side[m]]
    BY DEF PowerLoss
  <1>3. gone = {} /\ exists' = Months /\ exists = Months
    BY <1>1, <1>2 DEF DurableInv
  <1>4. \A m \in Months : file'[m] \in Survivors(m)
    BY <1>2, <1>3
  <1>5. \A m \in Months : /\ WholeLines(file'[m])
                          /\ \A r : Holds(file[m], r) /\ Holds(disk[m], r) => Holds(file'[m], r)
    BY <1>4, SurvivorsKeep DEF DurableInv
  <1>6. disk' = file' /\ acked' = acked /\ entry' = entry /\ fresh' = fresh
    BY DEF PowerLoss, Reset
  <1>7. \A q \in Procs : pc'[q] = "closed" /\ handle'[q] = 0
    BY AllGone
  <1>8. \A m \in Months : m # 0
    BY DEF Months
  <1>9. \A r \in acked : \E m \in exists' : Holds(file'[m], r)
    BY <1>3, <1>5 DEF DurableInv
  <1>10. /\ \A m \in Months : Journal(m) \in entry
         /\ \A q \in Procs : ~fresh[q]
    BY <1>1 DEF DurableInv
  <1> QED BY <1>1, <1>3, <1>5, <1>6, <1>7, <1>8, <1>9, <1>10 DEF DurableInv

(* While no write fails half way and no name can be lost, every line is    *)
(* whole, and acknowledged ones are on the disk.                           *)
THEOREM DurableInvHolds == Sound => (Spec => [](BaseInv /\ DurableInv))
  <1> SUFFICES ASSUME Sound PROVE Spec => [](BaseInv /\ DurableInv)
    OBVIOUS
  <1> DEFINE I == BaseInv /\ DurableInv
  <1>1. Init => I
    <2> SUFFICES ASSUME Init PROVE I
      OBVIOUS
    <2>1. BaseInv
      BY InitTypeOK, InitPlaceInv, InitTailInv DEF BaseInv
    <2>2. \A m \in Months : file[m] = <<>> /\ disk[m] = <<>> /\ DOMAIN <<>> = {}
      BY DEF Init
    <2>3. \A m \in Months : WholeLines(file[m]) /\ WholeLines(disk[m]) /\ CleanTail(file[m])
      BY <2>2 DEF WholeLines, CleanTail
    <2>4. PowerFails => exists = Months /\ \A m \in Months : Journal(m) \in entry
      BY DEF Sound, Init, Names
    <2> QED BY <2>1, <2>3, <2>4 DEF Init, DurableInv
  <1>2. I /\ [Next]_vars => I'
    <2> SUFFICES ASSUME I, [Next]_vars PROVE I'
      OBVIOUS
    <2>1. BaseInv'
      BY StepTypeOK, StepPlaceInv, StepTailInv DEF BaseInv
    <2>2. ASSUME NEW p \in Procs, Step(p) PROVE DurableInv'
      BY <2>2, DurableStep
    <2>3. CASE PowerLoss
      BY <2>1, <2>3, DurablePower
    <2>4. CASE NextMonth \/ UNCHANGED vars
      <3>1. UNCHANGED <<exists, file, disk, entry, pc, handle, on, fresh, acked>>
        BY <2>4 DEF NextMonth, vars, files, runVars
      <3>2. \A m \in Months : UnderWay(m)' = UnderWay(m)
        BY <3>1 DEF UnderWay
      <3> QED BY <2>1, <3>1, <3>2 DEF DurableInv
    <2> QED BY <2>1, <2>2, <2>3, <2>4 DEF Next
  <1> QED BY <1>1, <1>2, PTL DEF Spec

(* While no write fails half way, and no name can be lost, a record whose  *)
(* append returned nil is there for every later scan.                      *)
THEOREM AckedReadableHolds == Sound => (Spec => []AckedReadable)
  <1> SUFFICES ASSUME Sound PROVE Spec => []AckedReadable
    OBVIOUS
  <1>1. BaseInv /\ DurableInv => AckedReadable
    <2> SUFFICES ASSUME BaseInv, DurableInv, NEW r \in acked
                 PROVE  \E m \in exists : r \in Good(file[m])
      BY DEF AckedReadable
    <2>1. PICK m \in exists : Holds(file[m], r)
      BY DEF DurableInv
    <2>2. m \in Months /\ file[m] \in Seq(Piece) /\ WholeLines(file[m])
      BY DEF BaseInv, TypeOK, DurableInv
    <2> QED BY <2>1, <2>2, WholeLineIsGood
  <1> QED BY <1>1, DurableInvHolds, PTL

(* While the machine runs, or no write fails half way and no name can be   *)
(* lost, a scan that reports no corruption has read every record           *)
(* acknowledged before it began.                                           *)
THEOREM ScanCompleteHolds == Powered \/ Sound => (Spec => []ScanComplete)
  <1>1. BaseInv /\ ScanInv => ScanComplete
    BY DEF BaseInv, PlaceInv, PlaceOf, ScanInv, ScanOf, ScanComplete
  <1>2. CASE Powered
    <2>1. Spec => [](BaseInv /\ KeptInv /\ ScanInv)
      BY <1>2, ScanInvHolds
    <2> QED BY <1>1, <2>1, PTL
  <1>3. CASE Sound
    <2>1. Spec => [](BaseInv /\ DurableInv)
      BY <1>3, DurableInvHolds
    <2>2. Init => ScanInv
      BY DEF Init, ScanInv, ScanOf
    <2>3. BaseInv /\ DurableInv /\ ScanInv /\ [Next]_vars => ScanInv'
      <3> SUFFICES ASSUME BaseInv, DurableInv, ScanInv, [Next]_vars PROVE ScanInv'
        OBVIOUS
      <3>1. KeptInv
        BY DEF DurableInv, KeptInv
      <3>2. ASSUME NEW p \in Procs, Step(p) PROVE ScanInv'
        BY <3>1, <3>2, FilesAreKept, ScanStep
      <3>3. CASE PowerLoss
        BY <3>3, AllGone DEF BaseInv, ScanInv, ScanOf
      <3>4. CASE NextMonth \/ UNCHANGED vars
        <4>1. UNCHANGED <<exists, file, rest, since, seen, corrupt>>
          BY <3>4 DEF NextMonth, vars, files, scanVars
        <4> QED BY <4>1 DEF ScanInv, ScanOf
      <3> QED BY <3>2, <3>3, <3>4 DEF Next
    <2> QED BY <1>1, <2>1, <2>2, <2>3, PTL DEF Spec
  <1> QED BY <1>2, <1>3
=============================================================================
