------------------------- MODULE GuardedOrderProofs -------------------------
(***************************************************************************)
(* What a command resolves its id to was the broker's answer within the    *)
(* TTL and the time of a call, and what it sends keeps the policy file's   *)
(* rules, for any number of processes that share the cache file; and that  *)
(* file is whole while no two of them write at a time.                     *)
(*                                                                         *)
(* The argument: every entry of every inode, and every entry a process is  *)
(* about to write, is either harmless (it does not match the id it is      *)
(* filed under) or honest (HonestEntries).  How the inodes are moved,      *)
(* truncated and torn does not matter, since a text that is torn has no    *)
(* entries and no step makes an entry but PutRead.  That the file is whole *)
(* is another invariant (FileInv): the inode at the temporary path is the  *)
(* one writer's own, and never the one at the cache's path.                *)
(***************************************************************************)
EXTENDS GuardedOrder, TLAPS

Having == {"put", "open", "write", "rename", "resolved", "sent"}
Busy   == Having \cup {"ask"}
Asking == {"ask", "put"}

(* What a command has at each of its places.                               *)
HasKey(p)   == /\ pc[p] \in Busy => key[p] \in Keys
               /\ pc[p] \in Busy \cup {"resolve"} => key[p] # None /\ order[p] \in Orders
HasGot(p)   == pc[p] \in Having <=> got[p] # None
InTime(p)   == /\ pc[p] \in Asking => asked[p] <= now /\ now <= asked[p] + CallTime
               /\ gotAt[p] <= now
PlaceInv    == \A p \in Procs : HasKey(p) /\ HasGot(p) /\ InTime(p)

(* The entry was the broker's answer until a call's time before its stamp. *)
Honest(k, e) ==
    e.inst # None /\ k \in NamesOf[e.inst] =>
        /\ e.at <= now
        /\ \/ e.inst = answer[k]
           \/ lastTrue[k][e.inst] # Never /\ lastTrue[k][e.inst] + CallTime >= e.at

AllHonest(entries) == \A k \in Keys : Honest(k, entries[k])

HonestEntries ==
    /\ \A n \in Inodes : AllHonest(content[n].entries)
    /\ \A p \in Procs : AllHonest(data[p])

(* What a command holds in memory, and what it is about to write.          *)
GotRecent(p) ==
    /\ got[p] # None => Recent(key[p], got[p], gotAt[p])
    /\ pc[p] = "put" =>
         \/ got[p] = answer[key[p]]
         \/ lastTrue[key[p]][got[p]] # Never /\ lastTrue[key[p]][got[p]] >= asked[p]
GotInv == \A p \in Procs : GotRecent(p)

(* What a command has been through.                                        *)
Checked(p) ==
    /\ pc[p] \in Busy \cup {"resolve"} => ~RefusedAtOnce(order[p])
    /\ pc[p] = "sent" => ~ResolvedViolation(order[p], key[p], got[p])
CheckedInv == \A p \in Procs : Checked(p)

IInv == GuardTypeOK /\ PlaceInv /\ HonestEntries /\ GotInv /\ CheckedInv

-----------------------------------------------------------------------------
(* What all of these are about.                                            *)
LEMMA ReadFileType ==
    ASSUME GuardTypeOK PROVE ReadFile \in Entries
<1>1. NoEntries \in Entries
  BY CacheAssumption DEF NoEntries, Entries, Entry, Time
<1>2. \A n \in Inodes : content[n].entries \in Entries
  BY DEF GuardTypeOK, CacheTypeOK, Content
<1>3. live # None => live \in Inodes
  BY DEF GuardTypeOK, CacheTypeOK
<1> QED BY <1>1, <1>2, <1>3 DEF ReadFile

LEMMA ReadFileHonest ==
    ASSUME GuardTypeOK, HonestEntries PROVE AllHonest(ReadFile)
<1>1. AllHonest(NoEntries)
  BY DEF AllHonest, NoEntries, Honest
<1>2. live # None => live \in Inodes
  BY DEF GuardTypeOK, CacheTypeOK
<1>3. live # None => AllHonest(content[live].entries)
  BY <1>2 DEF HonestEntries
<1> QED BY <1>1, <1>3 DEF ReadFile

LEMMA Texts ==
    /\ NoEntries \in Entries
    /\ \A t \in {"empty", "torn"} : Unreadable(t) \in Content
    /\ \A e \in Entries : Json(e) \in Content
<1>1. NoEntries \in Entries
  BY CacheAssumption DEF CacheAssumption, NoEntries, Entries, Entry, Time
<1> QED BY <1>1 DEF Unreadable, Json, Content

-----------------------------------------------------------------------------
(* Types.                                                                  *)

LEMMA EndType ==
    ASSUME GuardTypeOK, NEW p \in Procs, NEW how \in {"refused", "failed", "dead"}, End(p, how),
           UNCHANGED now
    PROVE  /\ key' \in [Procs -> Keys \cup Malformed \cup {None}]
           /\ pc' \in [Procs -> {"start", "resolve", "ask", "put", "open", "write", "rename",
                                 "resolved", "sent", "refused", "failed", "dead"}]
           /\ fd' \in [Procs -> Procs \cup {None}]
           /\ data' \in [Procs -> Entries]
           /\ asked' \in [Procs -> Time]
           /\ got' \in [Procs -> Insts \cup {None}]
           /\ gotAt' \in [Procs -> Time]
<1>1. NoEntries \in Entries
  BY Texts
<1>2. 0 \in Time
  BY CacheAssumption DEF CacheAssumption, Time
<1> QED BY <1>1, <1>2 DEF End, Goto, GuardTypeOK, CacheTypeOK

LEMMA ResolveType ==
    ASSUME GuardTypeOK, PlaceInv, NEW p \in Procs, Resolve(p) \/ Crash(p)
    PROVE  CacheTypeOK'
<1>1. ReadFile \in Entries
  BY ReadFileType
<1>2. NoEntries \in Entries /\ Unreadable("empty") \in Content /\ Unreadable("torn") \in Content
  BY Texts
<1>3. \A k \in Keys : ReadFile[k].inst \in Insts \cup {None}
  BY <1>1 DEF Entries, Entry
<1>4. CacheTypeOK
  BY DEF GuardTypeOK
<1>5. CASE RefuseId(p)
  BY <1>4, <1>5, EndType DEF RefuseId, files, CacheTypeOK
<1>6. CASE Get(p)
  BY <1>3, <1>4, <1>6 DEF Get, Take, Goto, files, world, CacheTypeOK
<1>7. CASE BrokerAnswers(p)
  <2>1. answer[key[p]] \in Insts
    BY <1>4, <1>7 DEF BrokerAnswers, PlaceInv, HasKey, Busy, CacheTypeOK
  <2> QED BY <1>4, <1>7, <2>1 DEF BrokerAnswers, Take, Goto, files, world, CacheTypeOK
<1>8. CASE BrokerFails(p)
  BY <1>4, <1>8, EndType DEF BrokerFails, files, CacheTypeOK
<1>9. CASE PutRead(p)
  <2>1. /\ key[p] \in Keys
        /\ got[p] \in Insts \cup {None}
    BY <1>4, <1>9 DEF PutRead, PlaceInv, HasKey, Busy, Having, CacheTypeOK
  <2>2. [inst |-> got[p], at |-> now] \in Entry
    BY <1>4, <2>1 DEF Entry, CacheTypeOK
  <2>3. [ReadFile EXCEPT ![key[p]] = [inst |-> got[p], at |-> now]] \in Entries
    BY <1>1, <2>1, <2>2 DEF Entries
  <2>4. 0 \in Time
    BY CacheAssumption DEF CacheAssumption, Time
  <2> QED BY <1>4, <1>9, <2>3, <2>4 DEF PutRead, Goto, files, world, CacheTypeOK
<1>10. CASE OpenTmp(p)
  <2>1. tmp' \in Procs
    BY <1>4, <1>10 DEF OpenTmp, CacheTypeOK
  <2>2. overlapped' \in BOOLEAN
    BY <1>4, <1>10 DEF OpenTmp, CacheTypeOK
  <2> QED BY <1>2, <1>4, <1>10, <2>1, <2>2 DEF OpenTmp, Goto, world, CacheTypeOK, Inodes
<1>11. CASE Write(p)
  <2>1. Json(data[p]) \in Content
    BY <1>4, Texts DEF CacheTypeOK
  <2>2. content' \in [Inodes -> Content]
    BY <1>2, <1>4, <1>11, <2>1 DEF Write, CacheTypeOK
  <2> QED BY <1>2, <1>4, <1>11, <2>2 DEF Write, LetGo, Goto, world, CacheTypeOK
<1>12. CASE Rename(p)
  BY <1>2, <1>4, <1>12 DEF Rename, Goto, world, CacheTypeOK, Inodes
<1>13. CASE PutFails(p)
  <2>1. content' \in [Inodes -> Content]
    BY <1>2, <1>4, <1>13 DEF PutFails, CacheTypeOK
  <2> QED BY <1>2, <1>4, <1>13, <2>1 DEF PutFails, LetGo, Goto, world, CacheTypeOK
<1>14. CASE Crash(p)
  <2>1. content' \in [Inodes -> Content]
    BY <1>2, <1>4, <1>14 DEF Crash, CacheTypeOK
  <2> QED BY <1>4, <1>14, <2>1, EndType DEF Crash, CacheTypeOK
<1> QED BY <1>5, <1>6, <1>7, <1>8, <1>9, <1>10, <1>11, <1>12, <1>13, <1>14 DEF Resolve

LEMMA ForgetType ==
    ASSUME GuardTypeOK, Forget
    PROVE  order' \in [Procs -> Orders \cup {None}]
BY DEF Forget, GuardTypeOK

LEMMA TypeStep ==
    ASSUME GuardTypeOK, PlaceInv, [GuardNext]_guardVars
    PROVE  GuardTypeOK'
<1>1. CacheTypeOK
  BY DEF GuardTypeOK
<1>2. ASSUME NEW p \in Procs, CheckLocal(p) PROVE GuardTypeOK'
  <2>1. /\ order' \in [Procs -> Orders \cup {None}]
        /\ file' \in PolicyFiles
    BY <1>2 DEF CheckLocal, GuardTypeOK
  <2>2. CASE End(p, "refused")
    BY <1>1, <1>2, <2>1, <2>2, EndType DEF CheckLocal, files, GuardTypeOK, CacheTypeOK
  <2>3. CASE /\ \E k \in Keys \cup Malformed : key' = [key EXCEPT ![p] = k]
             /\ Goto(p, "resolve")
             /\ UNCHANGED <<fd, data, asked, got, gotAt>>
    BY <1>1, <1>2, <2>1, <2>3 DEF CheckLocal, Goto, files, GuardTypeOK, CacheTypeOK
  <2> QED BY <1>2, <2>2, <2>3 DEF CheckLocal
<1>3. ASSUME NEW p \in Procs, CheckResolved(p) PROVE GuardTypeOK'
  <2>1. order' \in [Procs -> Orders \cup {None}]
    BY <1>3, ForgetType DEF CheckResolved, SendUnless
  <2>2. CASE End(p, "refused")
    BY <1>1, <1>3, <2>1, <2>2, EndType DEF CheckResolved, SendUnless, files, GuardTypeOK, CacheTypeOK
  <2>3. CASE Goto(p, "sent") /\ UNCHANGED <<key, fd, data, asked, got, gotAt>>
    BY <1>1, <1>3, <2>1, <2>3 DEF CheckResolved, SendUnless, Goto, files, GuardTypeOK, CacheTypeOK
  <2> QED BY <1>3, <2>2, <2>3 DEF CheckResolved, SendUnless
<1>4. ASSUME NEW p \in Procs, Resolve(p) \/ Crash(p), Forget, UNCHANGED file PROVE GuardTypeOK'
  BY <1>4, ResolveType, ForgetType DEF GuardTypeOK
<1>5. CASE BrokerChanges /\ UNCHANGED <<order, file>>
  <2>1. answer' \in [Keys -> Insts] /\ lastTrue' \in [Keys -> [Insts -> Time \cup {Never}]]
    BY <1>1, <1>5 DEF BrokerChanges, CacheTypeOK
  <2> QED BY <1>1, <1>5, <2>1 DEF BrokerChanges, files, procs, GuardTypeOK, CacheTypeOK
<1>6. CASE Tick /\ UNCHANGED <<order, file>>
  <2>1. now' \in Time
    BY <1>1, <1>6, CacheAssumption DEF CacheAssumption, Tick, CacheTypeOK, Time
  <2> QED BY <1>1, <1>6, <2>1 DEF Tick, world, files, procs, GuardTypeOK, CacheTypeOK
<1>7. CASE UNCHANGED guardVars
  BY <1>1, <1>7 DEF guardVars, cacheVars, world, files, procs, GuardTypeOK, CacheTypeOK
<1> QED BY <1>2, <1>3, <1>4, <1>5, <1>6, <1>7 DEF GuardNext

-----------------------------------------------------------------------------
(* A step of one command, seen by another one.                             *)

Stays(q) ==
    /\ pc'[q] = pc[q] /\ key'[q] = key[q] /\ data'[q] = data[q]
    /\ asked'[q] = asked[q] /\ got'[q] = got[q] /\ gotAt'[q] = gotAt[q]
    /\ order'[q] = order[q] \/ key[q] = None

Moves(p) ==
    \/ CheckLocal(p)
    \/ CheckResolved(p)
    \/ (Resolve(p) \/ Crash(p)) /\ Forget /\ UNCHANGED file

LEMMA EndStays ==
    ASSUME GuardTypeOK, NEW p \in Procs, NEW q \in Procs \ {p}, NEW how, End(p, how),
           order'[q] = order[q] \/ key[q] = None
    PROVE  Stays(q)
BY DEF End, Goto, Stays, GuardTypeOK, CacheTypeOK

LEMMA OthersStay ==
    ASSUME GuardTypeOK, NEW p \in Procs, Moves(p), NEW q \in Procs \ {p}
    PROVE  Stays(q)
<1>1. CacheTypeOK
  BY DEF GuardTypeOK
<1>2. CASE CheckLocal(p)
  <2>1. order'[q] = order[q]
    BY <1>2 DEF CheckLocal, GuardTypeOK
  <2>2. CASE End(p, "refused")
    BY <2>1, <2>2, EndStays
  <2>3. CASE /\ \E k \in Keys \cup Malformed : key' = [key EXCEPT ![p] = k]
             /\ Goto(p, "resolve")
             /\ UNCHANGED <<fd, data, asked, got, gotAt>>
    BY <1>1, <2>1, <2>3 DEF Goto, Stays, CacheTypeOK
  <2> QED BY <1>2, <2>2, <2>3 DEF CheckLocal
<1>3. CASE (CheckResolved(p) \/ Resolve(p) \/ Crash(p)) /\ Forget
  <2>1. order'[q] = order[q] \/ key'[q] = None
    BY <1>3 DEF Forget
  <2>2. CASE UNCHANGED key
    <3>1. order'[q] = order[q] \/ key[q] = None
      BY <2>1, <2>2
    <3>2. CASE CheckResolved(p)
      <4>1. CASE End(p, "refused")
        BY <3>1, <4>1, EndStays
      <4>2. CASE Goto(p, "sent") /\ UNCHANGED <<key, fd, data, asked, got, gotAt>>
        BY <1>1, <3>1, <4>2 DEF Goto, Stays, CacheTypeOK
      <4> QED BY <3>2, <4>1, <4>2 DEF CheckResolved, SendUnless
    <3>3. CASE RefuseId(p) \/ BrokerFails(p) \/ Crash(p)
      BY <3>1, <3>3, EndStays DEF RefuseId, BrokerFails, Crash
    <3>4. CASE Get(p) \/ BrokerAnswers(p) \/ PutRead(p)
      BY <1>1, <2>2, <3>1, <3>4 DEF Get, BrokerAnswers, PutRead, Take, Goto, Stays, CacheTypeOK
    <3>5. CASE OpenTmp(p) \/ Write(p) \/ Rename(p) \/ PutFails(p)
      BY <1>1, <2>2, <3>1, <3>5
      DEF OpenTmp, Write, Rename, PutFails, LetGo, Goto, Stays, CacheTypeOK
    <3> QED BY <1>3, <3>2, <3>3, <3>4, <3>5 DEF Resolve
  <2>3. CASE \E how \in {"refused", "failed", "dead"} : End(p, how)
    <3>1. key'[q] = key[q]
      BY <1>1, <2>3 DEF End, CacheTypeOK
    <3> QED BY <2>1, <2>3, <3>1, EndStays
  <2>4. UNCHANGED key \/ \E how \in {"refused", "failed", "dead"} : End(p, how)
    <3>1. CASE CheckResolved(p)
      BY <3>1 DEF CheckResolved, SendUnless
    <3>2. CASE Resolve(p) \/ Crash(p)
      BY <3>2 DEF Resolve, RefuseId, Get, BrokerAnswers, BrokerFails, PutRead, OpenTmp, Write,
                  Rename, PutFails, Crash, world
    <3> QED BY <1>3, <3>1, <3>2
  <2> QED BY <2>2, <2>3, <2>4
<1> QED BY <1>2, <1>3 DEF Moves, CheckResolved, SendUnless

-----------------------------------------------------------------------------
(* Places.                                                                 *)

LEMMA StaysInPlace ==
    ASSUME PlaceInv, NEW q \in Procs, Stays(q), UNCHANGED now
    PROVE  HasKey(q)' /\ HasGot(q)' /\ InTime(q)'
<1>1. HasKey(q) /\ HasGot(q) /\ InTime(q)
  BY DEF PlaceInv
<1>2. HasKey(q)'
  BY <1>1 DEF Stays, HasKey, Busy, Having
<1>3. HasGot(q)'
  BY <1>1 DEF Stays, HasGot
<1>4. InTime(q)'
  BY <1>1 DEF Stays, InTime
<1> QED BY <1>2, <1>3, <1>4

LEMMA EndInPlace ==
    ASSUME GuardTypeOK, NEW p \in Procs, NEW how \in {"refused", "failed", "dead"}, End(p, how),
           UNCHANGED now
    PROVE  HasKey(p)' /\ HasGot(p)' /\ InTime(p)'
<1>1. pc'[p] = how /\ got'[p] = None /\ gotAt'[p] = 0
  BY DEF End, Goto, GuardTypeOK, CacheTypeOK
<1>2. 0 <= now
  BY DEF GuardTypeOK, CacheTypeOK, Time
<1> QED BY <1>1, <1>2 DEF HasKey, HasGot, InTime, Busy, Having, Asking

(* The order of a command that goes on stays with it.                      *)
LEMMA OrderStays ==
    ASSUME GuardTypeOK, NEW p \in Procs, Forget, UNCHANGED key, HasKey(p)
    PROVE  /\ pc[p] \in Busy \cup {"resolve"} => order'[p] = order[p]
           /\ pc[p] \in Busy \cup {"resolve"} => order'[p] \in Orders
BY DEF Forget, HasKey

LEMMA ActorInPlace ==
    ASSUME GuardTypeOK, PlaceInv, NEW p \in Procs, Moves(p)
    PROVE  HasKey(p)' /\ HasGot(p)' /\ InTime(p)'
<1>1. CacheTypeOK
  BY DEF GuardTypeOK
<1>2. HasKey(p) /\ HasGot(p) /\ InTime(p)
  BY DEF PlaceInv
<1>3. ASSUME NEW how \in {"refused", "failed", "dead"}, End(p, how), UNCHANGED now
      PROVE  HasKey(p)' /\ HasGot(p)' /\ InTime(p)'
  BY <1>3, EndInPlace
<1>4. CASE CheckLocal(p)
  <2>1. CASE End(p, "refused")
    BY <1>3, <1>4, <2>1 DEF CheckLocal
  <2>2. CASE ~End(p, "refused")
    <3>1. PICK k \in Keys \cup Malformed, o \in Orders :
            /\ key' = [key EXCEPT ![p] = k]
            /\ order' = [order EXCEPT ![p] = o]
            /\ Goto(p, "resolve")
            /\ UNCHANGED <<fd, data, asked, got, gotAt>>
      BY <1>4, <2>2 DEF CheckLocal
    <3>2. pc'[p] = "resolve" /\ key'[p] = k /\ order'[p] = o /\ got'[p] = got[p] /\ gotAt'[p] = gotAt[p]
      BY <1>1, <3>1 DEF Goto, GuardTypeOK, CacheTypeOK
    <3>3. k # None
      BY CacheAssumption DEF CacheAssumption
    <3>4. got[p] = None
      BY <1>2, <1>4 DEF CheckLocal, HasGot, Having
    <3>5. gotAt[p] <= now /\ now' = now
      BY <1>2, <1>4 DEF CheckLocal, InTime
    <3> QED BY <3>2, <3>3, <3>4, <3>5 DEF HasKey, HasGot, InTime, Busy, Having, Asking
  <2> QED BY <2>1, <2>2
<1>5. CASE RefuseId(p) \/ BrokerFails(p) \/ Crash(p)
  BY <1>3, <1>5 DEF RefuseId, BrokerFails, Crash
<1>6. CASE CheckResolved(p) /\ End(p, "refused")
  BY <1>3, <1>6 DEF CheckResolved, SendUnless
<1>7. ASSUME Forget, UNCHANGED <<key, now, got, gotAt>>, pc[p] \in Having, pc'[p] \in Having \ {"put"}
      PROVE  HasKey(p)' /\ HasGot(p)' /\ InTime(p)'
  <2>1. order'[p] \in Orders /\ key[p] \in Keys /\ key[p] # None
    BY <1>2, <1>7, OrderStays DEF HasKey, Busy
  <2>2. pc'[p] \notin Asking
    BY <1>7 DEF Having, Asking
  <2>3. got[p] # None /\ gotAt[p] <= now
    BY <1>2, <1>7 DEF HasGot, InTime
  <2> QED BY <1>7, <2>1, <2>2, <2>3 DEF HasKey, HasGot, InTime
<1>8. CASE CheckResolved(p) /\ ~End(p, "refused")
  <2>1. Forget /\ UNCHANGED <<key, now, got, gotAt>> /\ pc[p] = "resolved" /\ pc'[p] = "sent"
    BY <1>1, <1>8 DEF CheckResolved, SendUnless, Goto, CacheTypeOK
  <2> QED BY <1>7, <2>1 DEF Having
<1>9. CASE (OpenTmp(p) \/ Write(p) \/ Rename(p) \/ PutFails(p) \/ PutRead(p)) /\ Forget
  <2>1. /\ UNCHANGED <<key, now, got, gotAt>>
        /\ pc[p] \in {"put", "open", "write", "rename"}
        /\ pc'[p] \in {"open", "write", "rename", "resolved"}
    BY <1>1, <1>9 DEF OpenTmp, Write, Rename, PutFails, PutRead, Goto, world, CacheTypeOK
  <2> QED BY <1>7, <1>9, <2>1 DEF Having
<1>10. CASE Get(p) /\ Forget
  <2>1. order'[p] \in Orders /\ key[p] \in Keys /\ key[p] # None /\ UNCHANGED <<key, now>>
    BY <1>2, <1>10, OrderStays, CacheAssumption DEF CacheAssumption, Get, world, HasKey
  <2>2. CASE Hit(key[p]) /\ pc'[p] # "ask"
    <3>1. got'[p] = ReadFile[key[p]].inst /\ gotAt'[p] = now /\ pc'[p] = "resolved"
      BY <1>1, <1>10, <2>2 DEF Get, Take, Goto, CacheTypeOK
    <3>2. got'[p] # None
      BY <2>2, <3>1 DEF Hit, MatchesKey
    <3>3. gotAt'[p] <= now'
      BY <1>1, <2>1, <3>1 DEF CacheTypeOK, Time
    <3> QED BY <2>1, <3>1, <3>2, <3>3 DEF HasKey, HasGot, InTime, Busy, Having, Asking
  <2>3. CASE pc'[p] = "ask"
    <3>1. asked'[p] = now /\ UNCHANGED <<got, gotAt>>
      BY <1>1, <1>10, <2>3 DEF Get, Take, Goto, CacheTypeOK
    <3>2. got[p] = None /\ gotAt[p] <= now
      BY <1>2, <1>10 DEF Get, HasGot, InTime, Having
    <3>3. asked'[p] <= now' /\ now' <= asked'[p] + CallTime
      BY <1>1, <2>1, <3>1, CacheAssumption DEF CacheAssumption, CacheTypeOK, Time
    <3> QED BY <2>1, <2>3, <3>1, <3>2, <3>3 DEF HasKey, HasGot, InTime, Busy, Having, Asking
  <2> QED BY <1>1, <1>10, <2>2, <2>3 DEF Get, Goto, CacheTypeOK
<1>11. CASE BrokerAnswers(p) /\ Forget
  <2>1. order'[p] \in Orders /\ key[p] \in Keys /\ key[p] # None
    BY <1>2, <1>11, OrderStays DEF BrokerAnswers, world, HasKey, Busy
  <2>2. /\ UNCHANGED <<key, now, asked>>
        /\ got'[p] = answer[key[p]] /\ gotAt'[p] = now
        /\ pc'[p] \in {"put", "resolved"}
    BY <1>1, <1>11 DEF BrokerAnswers, Take, Goto, world, CacheTypeOK
  <2>3. got'[p] # None
    BY <1>1, <2>1, <2>2, CacheAssumption DEF CacheAssumption, CacheTypeOK
  <2>4. asked[p] <= now /\ now <= asked[p] + CallTime
    BY <1>2, <1>11 DEF BrokerAnswers, InTime, Asking
  <2>5. gotAt'[p] <= now'
    BY <1>1, <2>2 DEF CacheTypeOK, Time
  <2> QED BY <2>1, <2>2, <2>3, <2>4, <2>5 DEF HasKey, HasGot, InTime, Busy, Having, Asking
<1> QED BY <1>4, <1>5, <1>6, <1>8, <1>9, <1>10, <1>11 DEF Moves, Resolve

LEMMA MovesNow ==
    ASSUME NEW p \in Procs, Moves(p)
    PROVE  UNCHANGED <<answer, lastTrue, now, file>>
<1>1. CASE CheckLocal(p) \/ CheckResolved(p)
  BY <1>1 DEF CheckLocal, CheckResolved, SendUnless
<1>2. CASE (Resolve(p) \/ Crash(p)) /\ UNCHANGED file
  BY <1>2 DEF Resolve, RefuseId, Get, BrokerAnswers, BrokerFails, PutRead, OpenTmp, Write,
              Rename, PutFails, Crash, world
<1> QED BY <1>1, <1>2 DEF Moves

LEMMA PlaceStep ==
    ASSUME GuardTypeOK, PlaceInv, [GuardNext]_guardVars
    PROVE  PlaceInv'
<1>1. ASSUME NEW p \in Procs, Moves(p) PROVE PlaceInv'
  BY <1>1, ActorInPlace, OthersStay, StaysInPlace, MovesNow DEF PlaceInv
<1>2. CASE UNCHANGED <<key, procs, order>> /\ UNCHANGED now
  BY <1>2 DEF procs, PlaceInv, HasKey, HasGot, InTime
<1>3. CASE Tick /\ UNCHANGED order
  <2>1. UNCHANGED <<key, pc, got, asked, gotAt, order>> /\ now' = now + 1
    BY <1>3 DEF Tick, world, procs
  <2>2. now \in Nat /\ \A q \in Procs : asked[q] \in Nat /\ gotAt[q] \in Nat
    BY DEF GuardTypeOK, CacheTypeOK, Time
  <2>3. SUFFICES ASSUME NEW q \in Procs PROVE HasKey(q)' /\ HasGot(q)' /\ InTime(q)'
    BY DEF PlaceInv
  <2>4. HasKey(q) /\ HasGot(q) /\ InTime(q)
    BY DEF PlaceInv
  <2>5. HasKey(q)' /\ HasGot(q)'
    BY <2>1, <2>4 DEF HasKey, HasGot
  <2>6. pc[q] \in Asking => now < asked[q] + CallTime
    BY <1>3 DEF Tick, Asking
  <2>7. InTime(q)'
    BY <2>1, <2>2, <2>4, <2>6, CacheAssumption DEF CacheAssumption, InTime
  <2> QED BY <2>5, <2>7
<1>4. CASE BrokerChanges /\ UNCHANGED order
  BY <1>2, <1>4 DEF BrokerChanges
<1>5. CASE UNCHANGED guardVars
  BY <1>2, <1>5 DEF guardVars, cacheVars, world
<1> QED BY <1>1, <1>3, <1>4, <1>5 DEF GuardNext, Moves

-----------------------------------------------------------------------------
(* The cache.                                                              *)

(* Where the entries of an inode and of a text to be written come from.    *)
LEMMA InodeSources ==
    ASSUME GuardTypeOK, NEW p \in Procs, Moves(p), NEW n \in Inodes
    PROVE  \/ content'[n].entries = content[n].entries
           \/ content'[n].entries = NoEntries
           \/ content'[n].entries = data[p]
<1>1. CacheTypeOK
  BY DEF GuardTypeOK
<1>2. CASE UNCHANGED content
  BY <1>2
<1>4. /\ Unreadable("empty").entries = NoEntries /\ Unreadable("torn").entries = NoEntries
      /\ Json(data[p]).entries = data[p]
  BY DEF Unreadable, Json
<1>5. CASE OpenTmp(p)
  <2>1. content' = [content EXCEPT ![tmp'] = Unreadable("empty")]
    BY <1>5 DEF OpenTmp
  <2> QED BY <1>1, <1>4, <2>1 DEF CacheTypeOK
<1>6. CASE Write(p)
  <2>1. \/ content' = [content EXCEPT ![fd[p]] = Json(data[p])]
        \/ content' = [content EXCEPT ![fd[p]] = Unreadable("torn")]
    BY <1>6 DEF Write
  <2> QED BY <1>1, <1>4, <2>1 DEF CacheTypeOK
<1>7. CASE Rename(p)
  <2>1. UNCHANGED content \/ content' = [content EXCEPT ![live] = Unreadable("torn")]
    BY <1>7 DEF Rename
  <2> QED BY <1>1, <1>4, <2>1 DEF CacheTypeOK
<1>8. CASE PutFails(p) \/ Crash(p)
  <2>1. UNCHANGED content \/ content' = [content EXCEPT ![fd[p]] = Unreadable("torn")]
    BY <1>8 DEF PutFails, Crash
  <2> QED BY <1>1, <1>4, <2>1 DEF CacheTypeOK
<1>9. CASE RefuseId(p) \/ Get(p) \/ BrokerAnswers(p) \/ BrokerFails(p) \/ PutRead(p)
  BY <1>2, <1>9 DEF RefuseId, Get, BrokerAnswers, BrokerFails, PutRead, files
<1>10. CASE CheckLocal(p) \/ CheckResolved(p)
  BY <1>2, <1>10 DEF CheckLocal, CheckResolved, SendUnless, files
<1> QED BY <1>5, <1>6, <1>7, <1>8, <1>9, <1>10 DEF Moves, Resolve

LEMMA TextSources ==
    ASSUME GuardTypeOK, NEW p \in Procs, Moves(p), NEW q \in Procs
    PROVE  \/ data'[q] = data[q]
           \/ data'[q] = NoEntries
           \/ q = p /\ PutRead(p)
<1>1. CASE q # p
  BY <1>1, OthersStay DEF Stays
<1>2. CASE q = p
  <2>1. data \in [Procs -> Entries]
    BY DEF GuardTypeOK, CacheTypeOK
  <2>2. CASE RefuseId(p) \/ BrokerFails(p) \/ Crash(p) \/ CheckLocal(p) \/ CheckResolved(p)
    BY <1>2, <2>1, <2>2 DEF RefuseId, BrokerFails, Crash, CheckLocal, CheckResolved, SendUnless, End
  <2>3. CASE Get(p) \/ BrokerAnswers(p) \/ OpenTmp(p) \/ Write(p) \/ Rename(p) \/ PutFails(p)
    BY <1>2, <2>1, <2>3 DEF Get, BrokerAnswers, OpenTmp, Write, Rename, PutFails, LetGo
  <2> QED BY <1>2, <2>2, <2>3 DEF Moves, Resolve
<1> QED BY <1>1, <1>2

(* An entry that is stamped now is honest: it is at most a call old.       *)
LEMMA NewEntryHonest ==
    ASSUME GuardTypeOK, PlaceInv, GotInv, NEW p \in Procs, PutRead(p)
    PROVE  Honest(key[p], [inst |-> got[p], at |-> now])
<1>1. /\ now \in Nat /\ asked[p] \in Nat
      /\ now <= asked[p] + CallTime
  BY DEF PutRead, PlaceInv, InTime, Asking, GuardTypeOK, CacheTypeOK, Time
<1>2. \/ got[p] = answer[key[p]]
      \/ lastTrue[key[p]][got[p]] # Never /\ lastTrue[key[p]][got[p]] >= asked[p]
  BY DEF PutRead, GotInv, GotRecent
<1>3. got[p] # None => lastTrue[key[p]][got[p]] \in Int
  BY CacheAssumption
  DEF PutRead, PlaceInv, HasKey, Busy, Having, GuardTypeOK, CacheTypeOK, Time, Never
<1>4. CallTime \in Nat
  BY CacheAssumption DEF CacheAssumption
<1> QED BY <1>1, <1>2, <1>3, <1>4 DEF Honest

LEMMA HonestMove ==
    ASSUME GuardTypeOK, PlaceInv, HonestEntries, GotInv, NEW p \in Procs, Moves(p)
    PROVE  HonestEntries'
<1>1. UNCHANGED <<answer, lastTrue, now>>
  BY MovesNow
<1>2. AllHonest(NoEntries)'
  BY DEF AllHonest, NoEntries, Honest
<1>3. \A q \in Procs : AllHonest(data[q])
  BY DEF HonestEntries
<1>4. ASSUME NEW n \in Inodes PROVE AllHonest(content[n].entries)'
  <2>1. CASE content'[n].entries = content[n].entries
    BY <1>1, <2>1 DEF HonestEntries, AllHonest, Honest
  <2>2. CASE content'[n].entries = NoEntries
    BY <1>2, <2>2 DEF AllHonest
  <2>3. CASE content'[n].entries = data[p]
    BY <1>1, <1>3, <2>3 DEF AllHonest, Honest
  <2> QED BY <2>1, <2>2, <2>3, InodeSources
<1>5. ASSUME NEW q \in Procs PROVE AllHonest(data[q])'
  <2>1. CASE data'[q] = data[q]
    BY <1>1, <1>3, <2>1 DEF AllHonest, Honest
  <2>2. CASE data'[q] = NoEntries
    BY <1>2, <2>2 DEF AllHonest
  <2>3. CASE q = p /\ PutRead(p)
    <3>1. data'[p] = [ReadFile EXCEPT ![key[p]] = [inst |-> got[p], at |-> now]]
      BY <2>3 DEF PutRead, GuardTypeOK, CacheTypeOK
    <3>2. AllHonest(ReadFile)
      BY ReadFileHonest
    <3>3. Honest(key[p], [inst |-> got[p], at |-> now])
      BY <2>3, NewEntryHonest
    <3>4. ReadFile \in [Keys -> Entry]
      BY ReadFileType DEF Entries
    <3>5. ASSUME NEW k \in Keys PROVE Honest(k, data[p][k])'
      <4>1. CASE k = key[p]
        <5>1. data'[p][k] = [inst |-> got[p], at |-> now]
          BY <3>1, <3>4, <4>1
        <5> QED BY <1>1, <3>3, <4>1, <5>1 DEF Honest
      <4>2. CASE k # key[p]
        <5>1. data'[p][k] = ReadFile[k]
          BY <3>1, <3>4, <4>2
        <5>2. Honest(k, ReadFile[k])
          BY <3>2 DEF AllHonest
        <5> QED BY <1>1, <5>1, <5>2 DEF Honest
      <4> QED BY <4>1, <4>2
    <3> QED BY <2>3, <3>5 DEF AllHonest
  <2> QED BY <2>1, <2>2, <2>3, TextSources
<1> QED BY <1>4, <1>5 DEF HonestEntries

(* A listing that changes: what was the answer until now was so at any     *)
(* time stamped before.                                                    *)
LEMMA HonestChange ==
    ASSUME GuardTypeOK, NEW k \in Keys, NEW i \in Insts, NEW t \in Nat, t <= now, NEW d \in Nat,
           BrokerChanges,
           \/ i = answer[k]
           \/ lastTrue[k][i] # Never /\ lastTrue[k][i] + d >= t
    PROVE  \/ i = answer'[k]
           \/ lastTrue'[k][i] # Never /\ lastTrue'[k][i] + d >= t
<1>1. PICK l \in Keys, j \in Insts :
        /\ answer' = [answer EXCEPT ![l] = j]
        /\ lastTrue' = [lastTrue EXCEPT ![l][answer[l]] = now]
        /\ lastTrue[l][j] = Never
  BY DEF BrokerChanges
<1>2. /\ answer \in [Keys -> Insts] /\ now \in Nat
      /\ lastTrue \in [Keys -> [Insts -> Time \cup {Never}]]
  BY DEF GuardTypeOK, CacheTypeOK, Time
<1>3. CASE k # l
  BY <1>1, <1>2, <1>3
<1>4. CASE k = l /\ i = answer[k]
  <2>1. lastTrue'[k][i] = now
    BY <1>1, <1>2, <1>4
  <2> QED BY <1>2, <2>1 DEF Never
<1>5. CASE k = l /\ i # answer[k]
  <2>1. lastTrue'[k][i] = lastTrue[k][i]
    BY <1>1, <1>2, <1>5
  <2> QED BY <1>5, <2>1
<1> QED BY <1>3, <1>4, <1>5

LEMMA EntryChange ==
    ASSUME GuardTypeOK, BrokerChanges, NEW k \in Keys, NEW e \in Entry, Honest(k, e)
    PROVE  Honest(k, e)'
<1>1. SUFFICES ASSUME e.inst # None, k \in NamesOf[e.inst]
               PROVE  /\ e.at <= now'
                      /\ \/ e.inst = answer'[k]
                         \/ lastTrue'[k][e.inst] # Never /\ lastTrue'[k][e.inst] + CallTime >= e.at
  BY DEF Honest
<1>2. e.inst \in Insts /\ e.at \in Nat
  BY <1>1 DEF Entry, Time
<1>3. /\ e.at <= now
      /\ \/ e.inst = answer[k]
         \/ lastTrue[k][e.inst] # Never /\ lastTrue[k][e.inst] + CallTime >= e.at
  BY <1>1 DEF Honest
<1>4. CallTime \in Nat /\ now' = now
  BY CacheAssumption DEF CacheAssumption, BrokerChanges
<1> QED BY <1>2, <1>3, <1>4, HonestChange

LEMMA HonestStep ==
    ASSUME GuardTypeOK, PlaceInv, HonestEntries, GotInv, [GuardNext]_guardVars
    PROVE  HonestEntries'
<1>1. ASSUME NEW p \in Procs, Moves(p) PROVE HonestEntries'
  BY <1>1, HonestMove
<1>2. /\ \A n \in Inodes, k \in Keys : content[n].entries[k] \in Entry
      /\ \A p \in Procs, k \in Keys : data[p][k] \in Entry
  BY DEF GuardTypeOK, CacheTypeOK, Content, Entries
<1>3. CASE BrokerChanges
  <2>1. UNCHANGED <<content, data>>
    BY <1>3 DEF BrokerChanges, files, procs
  <2>2. ASSUME NEW n \in Inodes, NEW k \in Keys PROVE Honest(k, content[n].entries[k])'
    <3> DEFINE e == content[n].entries[k]
    <3>1. e \in Entry /\ Honest(k, e)
      BY <1>2 DEF HonestEntries, AllHonest
    <3>2. ASSUME NEW x \in Entry, Honest(k, x) PROVE Honest(k, x)'
      BY <1>3, <3>2, EntryChange
    <3> QED BY <2>1, <3>1, <3>2 DEF Honest
  <2>3. ASSUME NEW p \in Procs, NEW k \in Keys PROVE Honest(k, data[p][k])'
    <3>1. data[p][k] \in Entry /\ Honest(k, data[p][k])
      BY <1>2 DEF HonestEntries, AllHonest
    <3>2. ASSUME NEW x \in Entry, Honest(k, x) PROVE Honest(k, x)'
      BY <1>3, <3>2, EntryChange
    <3> QED BY <2>1, <3>1, <3>2 DEF Honest
  <2> QED BY <2>2, <2>3 DEF HonestEntries, AllHonest
<1>4. CASE Tick
  <2>1. UNCHANGED <<content, data, answer, lastTrue>> /\ now' = now + 1
    BY <1>4 DEF Tick, files, procs, world
  <2>2. now \in Nat
    BY DEF GuardTypeOK, CacheTypeOK, Time
  <2>3. ASSUME NEW k \in Keys, NEW x \in Entry, Honest(k, x) PROVE Honest(k, x)'
    BY <2>1, <2>2, <2>3 DEF Honest, Entry, Time
  <2> QED BY <1>2, <2>1, <2>3 DEF HonestEntries, AllHonest, Honest
<1>5. CASE UNCHANGED guardVars
  BY <1>5 DEF guardVars, cacheVars, world, files, procs, HonestEntries, AllHonest, Honest
<1> QED BY <1>1, <1>3, <1>4, <1>5 DEF GuardNext, Moves

-----------------------------------------------------------------------------
(* What a command has in hand.                                             *)

LEMMA HitRecent ==
    ASSUME GuardTypeOK, HonestEntries, NEW k \in Keys, Hit(k)
    PROVE  Recent(k, ReadFile[k].inst, now)
<1>1. Honest(k, ReadFile[k])
  BY ReadFileHonest DEF AllHonest
<1>2. ReadFile[k] \in Entry
  BY ReadFileType DEF Entries
<1>3. ReadFile[k].inst # None /\ k \in NamesOf[ReadFile[k].inst] /\ now - ReadFile[k].at <= TTL
  BY DEF Hit, MatchesKey, Fresh
<1> DEFINE i == ReadFile[k].inst
           t == ReadFile[k].at
<1>4. i \in Insts /\ t \in Nat
  BY <1>2, <1>3 DEF Entry, Time
<1>5. i = answer[k] \/ (lastTrue[k][i] # Never /\ lastTrue[k][i] + CallTime >= t)
  BY <1>1, <1>3 DEF Honest
<1>6. now \in Nat /\ TTL \in Nat /\ CallTime \in Nat /\ lastTrue[k][i] \in Int
  BY <1>4, CacheAssumption DEF CacheAssumption, GuardTypeOK, CacheTypeOK, Time, Never
<1>7. now - t <= TTL
  BY <1>3
<1> HIDE DEF i, t
<1>8. Recent(k, i, now)
  BY <1>4, <1>5, <1>6, <1>7 DEF Recent
<1> QED BY <1>8 DEF i

LEMMA ActorRecent ==
    ASSUME GuardTypeOK, PlaceInv, HonestEntries, GotInv, NEW p \in Procs, Moves(p)
    PROVE  GotRecent(p)'
<1>1. CacheTypeOK
  BY DEF GuardTypeOK
<1>2. UNCHANGED <<answer, lastTrue, now>>
  BY MovesNow
<1>3. CASE got'[p] = None /\ pc'[p] # "put"
  BY <1>3 DEF GotRecent
<1>4. CASE UNCHANGED <<got, gotAt>> /\ key'[p] = key[p] /\ pc'[p] # "put"
  BY <1>2, <1>4 DEF GotInv, GotRecent, Recent
<1>5. ASSUME NEW how \in {"refused", "failed", "dead"}, End(p, how) PROVE GotRecent(p)'
  BY <1>1, <1>3, <1>5 DEF End, Goto, CacheTypeOK
<1>6. CASE CheckLocal(p)
  <2>1. CASE End(p, "refused")
    BY <1>5, <2>1
  <2>2. CASE Goto(p, "resolve") /\ UNCHANGED <<got, gotAt>>
    <3>1. got[p] = None
      BY <1>6 DEF CheckLocal, PlaceInv, HasGot, Having
    <3>2. pc'[p] = "resolve"
      BY <1>1, <2>2 DEF Goto, CacheTypeOK
    <3> QED BY <1>3, <2>2, <3>1, <3>2
  <2> QED BY <1>6, <2>1, <2>2 DEF CheckLocal
<1>7. CASE CheckResolved(p)
  <2>1. CASE End(p, "refused")
    BY <1>5, <2>1
  <2>2. CASE Goto(p, "sent") /\ UNCHANGED <<key, got, gotAt>>
    <3>1. pc'[p] = "sent"
      BY <1>1, <2>2 DEF Goto, CacheTypeOK
    <3> QED BY <1>4, <2>2, <3>1
  <2> QED BY <1>7, <2>1, <2>2 DEF CheckResolved, SendUnless
<1>8. CASE RefuseId(p) \/ BrokerFails(p) \/ Crash(p)
  BY <1>5, <1>8 DEF RefuseId, BrokerFails, Crash
<1>9. CASE PutRead(p) \/ OpenTmp(p) \/ Write(p) \/ Rename(p) \/ PutFails(p)
  <2>1. UNCHANGED <<got, gotAt, key>> /\ pc'[p] \in {"open", "write", "rename", "resolved"}
    BY <1>1, <1>9 DEF PutRead, OpenTmp, Write, Rename, PutFails, Goto, world, CacheTypeOK
  <2> QED BY <1>4, <2>1
<1>10. CASE BrokerAnswers(p)
  <2>1. UNCHANGED key /\ got'[p] = answer[key[p]]
    BY <1>1, <1>10 DEF BrokerAnswers, Take, world, CacheTypeOK
  <2> QED BY <1>2, <2>1 DEF GotRecent, Recent
<1>11. CASE Get(p)
  <2>1. key[p] \in Keys /\ UNCHANGED key
    BY <1>11 DEF Get, world
  <2>2. CASE pc'[p] = "ask"
    <3>1. UNCHANGED <<got, gotAt>>
      BY <1>1, <1>11, <2>2 DEF Get, Goto, CacheTypeOK
    <3> QED BY <1>4, <2>1, <2>2, <3>1
  <2>3. CASE pc'[p] # "ask"
    <3>1. Hit(key[p]) /\ got'[p] = ReadFile[key[p]].inst /\ gotAt'[p] = now /\ pc'[p] = "resolved"
      BY <1>1, <1>11, <2>3 DEF Get, Take, Goto, CacheTypeOK
    <3>2. Recent(key[p], ReadFile[key[p]].inst, now)
      BY <2>1, <3>1, HitRecent
    <3> QED BY <1>2, <2>1, <3>1, <3>2 DEF GotRecent, Recent
  <2> QED BY <2>2, <2>3
<1> QED BY <1>6, <1>7, <1>8, <1>9, <1>10, <1>11 DEF Moves, Resolve

LEMMA GotStep ==
    ASSUME GuardTypeOK, PlaceInv, HonestEntries, GotInv, [GuardNext]_guardVars
    PROVE  GotInv'
<1>1. ASSUME NEW p \in Procs, Moves(p) PROVE GotInv'
  <2>1. UNCHANGED <<answer, lastTrue, now>>
    BY <1>1, MovesNow
  <2>2. ASSUME NEW q \in Procs \ {p} PROVE GotRecent(q)'
    <3>1. Stays(q) /\ GotRecent(q)
      BY <1>1, OthersStay DEF GotInv
    <3> QED BY <2>1, <3>1 DEF Stays, GotRecent, Recent
  <2> QED BY <1>1, <2>2, ActorRecent DEF GotInv
<1>2. CASE BrokerChanges
  <2>1. UNCHANGED <<key, pc, got, gotAt, asked>>
    BY <1>2 DEF BrokerChanges, procs
  <2>2. SUFFICES ASSUME NEW p \in Procs, got[p] # None \/ pc[p] = "put" PROVE GotRecent(p)'
    BY <2>1 DEF GotInv, GotRecent
  <2>3. pc[p] \in Having /\ got[p] # None /\ GotRecent(p)
    BY <2>2 DEF PlaceInv, HasGot, Having, GotInv
  <2>4. key[p] \in Keys /\ got[p] \in Insts
    BY <2>3 DEF PlaceInv, HasKey, Busy, GuardTypeOK, CacheTypeOK
  <2>5. /\ gotAt[p] \in Nat /\ gotAt[p] <= now /\ asked[p] \in Nat
        /\ pc[p] = "put" => asked[p] <= now
    BY DEF PlaceInv, InTime, Asking, GuardTypeOK, CacheTypeOK, Time
  <2>6. TTL + CallTime \in Nat /\ 0 \in Nat
    BY CacheAssumption DEF CacheAssumption
  <2> DEFINE k == key[p]
             i == got[p]
  <2>7. lastTrue[k][i] \in Int /\ lastTrue'[k][i] \in Int
    <3>1. GuardTypeOK'
      BY TypeStep
    <3> QED BY <2>1, <2>4, <3>1 DEF GuardTypeOK, CacheTypeOK, Time, Never
  <2>8. Recent(k, i, gotAt[p])'
    <3>1. \/ i = answer[k]
          \/ lastTrue[k][i] # Never /\ lastTrue[k][i] + (TTL + CallTime) >= gotAt[p]
      BY <2>3, <2>6, <2>7, CacheAssumption DEF CacheAssumption, GotRecent, Recent
    <3>2. \/ i = answer'[k]
          \/ lastTrue'[k][i] # Never /\ lastTrue'[k][i] + (TTL + CallTime) >= gotAt[p]
      BY <1>2, <2>4, <2>5, <2>6, <3>1, HonestChange
    <3> QED BY <2>1, <2>7, <3>2, CacheAssumption DEF CacheAssumption, Recent
  <2>9. ASSUME pc[p] = "put"
        PROVE  \/ i = answer'[k]
               \/ lastTrue'[k][i] # Never /\ lastTrue'[k][i] >= asked[p]
    <3>1. \/ i = answer[k]
          \/ lastTrue[k][i] # Never /\ lastTrue[k][i] + 0 >= asked[p]
      BY <2>3, <2>7, <2>9 DEF GotRecent
    <3>2. \/ i = answer'[k]
          \/ lastTrue'[k][i] # Never /\ lastTrue'[k][i] + 0 >= asked[p]
      BY <1>2, <2>4, <2>5, <2>6, <2>9, <3>1, HonestChange
    <3> QED BY <2>7, <3>2
  <2> QED BY <2>1, <2>8, <2>9 DEF GotRecent
<1>3. CASE Tick \/ UNCHANGED guardVars
  <2>1. UNCHANGED <<key, pc, got, gotAt, asked, answer, lastTrue>>
    BY <1>3 DEF Tick, guardVars, cacheVars, world, procs
  <2> QED BY <2>1 DEF GotInv, GotRecent, Recent
<1> QED BY <1>1, <1>2, <1>3 DEF GuardNext, Moves

-----------------------------------------------------------------------------
(* What a command has been through.                                        *)

LEMMA SameChecks ==
    ASSUME UNCHANGED file, NEW q \in Procs
    PROVE  /\ \A o : order'[q] = o => (RefusedAtOnce(order[q])' <=> RefusedAtOnce(o))
           /\ \A o, k, i :
                order'[q] = o /\ key'[q] = k /\ got'[q] = i =>
                  (ResolvedViolation(order[q], key[q], got[q])' <=> ResolvedViolation(o, k, i))
<1>1. LoadFails' <=> LoadFails
  BY DEF LoadFails
<1>2. \A o : order'[q] = o =>
        /\ Misshapen(order[q])' <=> Misshapen(o)
        /\ TooManyLots(order[q])' <=> TooManyLots(o)
        /\ LocalViolation(order[q])' <=> LocalViolation(o)
  BY DEF Misshapen, TooManyLots, LocalViolation, MarketBarred
<1>3. \A k, i : key'[q] = k /\ got'[q] = i => (NotAllowed(key[q], got[q])' <=> NotAllowed(k, i))
  BY DEF NotAllowed
<1>4. \A o, i : order'[q] = o /\ got'[q] = i =>
        (OverNotional(order[q], got[q])' <=> OverNotional(o, i))
  BY DEF OverNotional, PolicyPrice, Notional, Abs
<1>5. \A o : order'[q] = o => (RefusedAtOnce(order[q])' <=> RefusedAtOnce(o))
  BY <1>1, <1>2 DEF RefusedAtOnce
<1>6. \A o, k, i :
        order'[q] = o /\ key'[q] = k /\ got'[q] = i =>
          (ResolvedViolation(order[q], key[q], got[q])' <=> ResolvedViolation(o, k, i))
  BY <1>2, <1>3, <1>4 DEF ResolvedViolation
<1> QED BY <1>5, <1>6

(* A command whose place, id, order and instrument do not change.          *)
LEMMA CheckedStays ==
    ASSUME NEW q \in Procs, Checked(q), UNCHANGED file,
           pc[q] \in Busy \cup {"resolve"} => order'[q] = order[q],
           pc'[q] \in Busy \cup {"resolve"} => pc[q] \in Busy \cup {"resolve"},
           pc'[q] = "sent" => pc[q] = "sent" /\ key'[q] = key[q] /\ got'[q] = got[q]
    PROVE  Checked(q)'
<1>1. pc'[q] \in Busy \cup {"resolve"} => ~RefusedAtOnce(order[q])'
  BY SameChecks DEF Checked
<1>2. pc'[q] = "sent" => ~ResolvedViolation(order[q], key[q], got[q])'
  BY SameChecks DEF Checked, Busy, Having
<1> QED BY <1>1, <1>2 DEF Checked, Busy, Having

LEMMA ActorChecked ==
    ASSUME GuardTypeOK, PlaceInv, CheckedInv, NEW p \in Procs, Moves(p)
    PROVE  Checked(p)'
<1>1. CacheTypeOK
  BY DEF GuardTypeOK
<1>2. UNCHANGED file
  BY MovesNow
<1>3. HasKey(p) /\ HasGot(p) /\ Checked(p)
  BY DEF PlaceInv, CheckedInv
<1>4. ASSUME NEW how \in {"refused", "failed", "dead"}, End(p, how) PROVE Checked(p)'
  <2>1. pc'[p] = how
    BY <1>1, <1>4 DEF End, Goto, CacheTypeOK
  <2> QED BY <2>1 DEF Checked, Busy, Having
<1>5. CASE CheckLocal(p)
  <2>1. CASE End(p, "refused")
    BY <1>4, <2>1
  <2>2. CASE ~End(p, "refused")
    <3>1. PICK o \in Orders :
            /\ ~RefusedAtOnce(o)
            /\ order' = [order EXCEPT ![p] = o]
            /\ Goto(p, "resolve")
      BY <1>5, <2>2 DEF CheckLocal
    <3>2. order'[p] = o /\ pc'[p] = "resolve"
      BY <1>1, <3>1 DEF Goto, GuardTypeOK, CacheTypeOK
    <3> QED BY <1>2, <3>1, <3>2, SameChecks DEF Checked
  <2> QED BY <2>1, <2>2
<1>6. CASE RefuseId(p) \/ BrokerFails(p) \/ Crash(p)
  BY <1>4, <1>6 DEF RefuseId, BrokerFails, Crash
<1>7. CASE CheckResolved(p)
  <2>1. CASE End(p, "refused")
    BY <1>4, <2>1
  <2>2. CASE ~End(p, "refused")
    <3>1. /\ pc[p] = "resolved" /\ pc'[p] = "sent" /\ Forget /\ UNCHANGED <<key, got>>
          /\ ~ResolvedViolation(order[p], key[p], got[p])
      BY <1>1, <1>7, <2>2 DEF CheckResolved, SendUnless, Goto, CacheTypeOK
    <3>2. order'[p] = order[p] /\ order[p] \in Orders /\ key[p] \in Keys
      BY <1>3, <3>1, OrderStays DEF HasKey, Busy, Having
    <3>3. ~RefusedAtOnce(order[p])
      BY <1>3, <3>1 DEF Checked, Busy, Having
    <3> QED BY <1>2, <3>1, <3>2, <3>3, SameChecks DEF Checked
  <2> QED BY <2>1, <2>2
<1>8. CASE /\ Get(p) \/ BrokerAnswers(p) \/ PutRead(p) \/ OpenTmp(p) \/ Write(p) \/ Rename(p) \/ PutFails(p)
           /\ Forget
  <2>1. UNCHANGED key /\ pc[p] \in Busy \cup {"resolve"} /\ pc'[p] # "sent"
    BY <1>1, <1>8 DEF Get, BrokerAnswers, PutRead, OpenTmp, Write, Rename, PutFails, Goto, world,
                      CacheTypeOK, Busy, Having
  <2>2. order'[p] = order[p]
    BY <1>3, <1>8, <2>1, OrderStays
  <2> QED BY <1>2, <1>3, <2>1, <2>2, CheckedStays
<1> QED BY <1>5, <1>6, <1>7, <1>8 DEF Moves, Resolve

LEMMA CheckedStep ==
    ASSUME GuardTypeOK, PlaceInv, CheckedInv, [GuardNext]_guardVars
    PROVE  CheckedInv'
<1>1. ASSUME NEW p \in Procs, Moves(p) PROVE CheckedInv'
  <2>1. UNCHANGED file
    BY <1>1, MovesNow
  <2>2. ASSUME NEW q \in Procs \ {p} PROVE Checked(q)'
    <3>1. Stays(q) /\ HasKey(q) /\ Checked(q)
      BY <1>1, OthersStay DEF PlaceInv, CheckedInv
    <3>2. pc[q] \in Busy \cup {"resolve"} => order'[q] = order[q]
      BY <3>1 DEF Stays, HasKey
    <3> QED BY <2>1, <3>1, <3>2, CheckedStays DEF Stays
  <2> QED BY <1>1, <2>2, ActorChecked DEF CheckedInv
<1>2. CASE (BrokerChanges \/ Tick) /\ UNCHANGED <<order, file>>
  <2>1. UNCHANGED <<key, pc, got, order, file>>
    BY <1>2 DEF BrokerChanges, Tick, world, procs
  <2> QED BY <2>1, CheckedStays DEF CheckedInv
<1>3. CASE UNCHANGED guardVars
  <2>1. UNCHANGED <<key, pc, got, order, file>>
    BY <1>3 DEF guardVars, cacheVars, world, procs
  <2> QED BY <2>1, CheckedStays DEF CheckedInv
<1> QED BY <1>1, <1>2, <1>3 DEF GuardNext, Moves

(* An order that passes the checks keeps the rules.  The code compares the *)
(* product of the absolute price, the rules bound the product.             *)
LEMMA PolicyKept ==
    ASSUME NEW o \in Orders, NEW k \in Keys, NEW i \in Insts, file \in PolicyFiles,
           ~RefusedAtOnce(o), ~ResolvedViolation(o, k, i)
    PROVE  KeepsPolicy(o, k, i)
<1> SUFFICES ASSUME file # None PROVE KeepsPolicy(o, k, i)
  BY DEF KeepsPolicy
<1>1. /\ o.kind \in {"place", "replace", "stop"} /\ o.lots \in Int
      /\ o.price \in Int \cup {None} /\ o.resting \in Int \cup {None} /\ o.stop \in Int \cup {None}
      /\ file.max_lots \in Int \cup {None} /\ file.max_notional \in Int \cup {None}
      /\ i.lot \in Int
  BY GuardAssumption DEF GuardAssumption
<1>2. o.lots > 0
  BY <1>1 DEF RefusedAtOnce, Misshapen
<1>3. file.max_lots # None => o.lots <= file.max_lots
  <2>1. SUFFICES ASSUME file.max_lots # None PROVE o.lots <= file.max_lots
    OBVIOUS
  <2>2. file.max_lots \in Int /\ o.lots \in Int
    BY <1>1, <2>1
  <2>3. ~(file.max_lots <= 0)
    BY <2>1 DEF RefusedAtOnce, LoadFails
  <2>4. ~(file.max_lots > 0 /\ o.lots > file.max_lots)
    BY <2>1 DEF RefusedAtOnce, TooManyLots
  <2> QED BY <2>2, <2>3, <2>4
<1>4. o.type = "market" /\ o.kind # "stop" => file.allow_market_orders
  <2>1. CASE o.kind = "place"
    BY <2>1 DEF RefusedAtOnce, LocalViolation, MarketBarred
  <2>2. CASE o.kind = "replace"
    BY <2>2 DEF ResolvedViolation, LocalViolation, MarketBarred
  <2> QED BY <1>1, <2>1, <2>2
<1>5. file.allowed_instruments # {} =>
        \E name \in file.allowed_instruments : name = k \/ name \in NamesOf[i]
  BY DEF ResolvedViolation, NotAllowed
<1>6. PriceAtStake(o) = PolicyPrice(o)
  <2>1. o.kind = "stop" => o.stop # None
    BY DEF RefusedAtOnce, Misshapen, StopMisshapen
  <2>2. (o.kind # "replace" => o.resting = None) /\ (o.kind # "stop" => o.stop = None)
    BY GuardAssumption DEF GuardAssumption
  <2> QED BY <1>1, <2>1, <2>2 DEF PriceAtStake, PolicyPrice
<1>7. ASSUME file.max_notional # None, PolicyPrice(o) # None
      PROVE  /\ i.currency = file.currency
             /\ i.lot > 0
             /\ PolicyPrice(o) * o.lots * i.lot \in -file.max_notional..file.max_notional
  <2>1. i.currency = file.currency /\ i.lot > 0 /\ Notional(o, i) <= file.max_notional
    <3>1. Abs(PolicyPrice(o)) \in Int
      BY <1>1, <1>7 DEF PolicyPrice, Abs
    <3>2. Notional(o, i) \in Int
      BY <1>1, <3>1 DEF Notional
    <3> QED BY <1>1, <1>7, <3>2 DEF ResolvedViolation, OverNotional
  <2> DEFINE P == PolicyPrice(o)
             L == o.lots
             l == i.lot
             M == file.max_notional
  <2>2. P \in Int /\ L \in Int /\ l \in Int /\ M \in Int /\ L > 0 /\ l > 0
    BY <1>1, <1>2, <1>7, <2>1 DEF PolicyPrice
  <2>3. Abs(P) * L * l <= M
    BY <2>1 DEF Notional
  <2> HIDE DEF P, L, l, M
  <2>4. P * L * l \in -M..M
    <3>1. CASE P >= 0
      <4>1. P * L * l <= M
        BY <2>2, <2>3, <3>1 DEF Abs
      <4>2. P * L \in Int /\ P * L >= 0
        BY <2>2, <3>1
      <4>3. P * L * l \in Int /\ P * L * l >= 0
        BY <2>2, <4>2
      <4> QED BY <2>2, <4>1, <4>3
    <3>2. CASE P < 0
      <4>1. (-P) * L * l <= M
        BY <2>2, <2>3, <3>2 DEF Abs
      <4>2. (-P) * L \in Int /\ (-P) * L >= 0 /\ (-P) * L = -(P * L) /\ P * L \in Int
        BY <2>2, <3>2
      <4>3. (-P) * L * l \in Int /\ (-P) * L * l >= 0 /\ P * L * l \in Int
        BY <2>2, <4>2
      <4>4. (-P) * L * l = -(P * L * l)
        BY <2>2, <4>2
      <4> QED BY <2>2, <4>1, <4>3, <4>4
    <3> QED BY <2>2, <3>1, <3>2
  <2> QED BY <2>1, <2>4 DEF P, L, l, M
<1> QED BY <1>3, <1>4, <1>5, <1>6, <1>7 DEF KeepsPolicy

-----------------------------------------------------------------------------
LEMMA InvInit ==
    ASSUME GuardInit PROVE IInv
<1>1. 0 \in Time /\ 0 \in Nat /\ Never \in Int /\ TTL \in Nat /\ CallTime \in Nat
  BY CacheAssumption DEF CacheAssumption, Time, Never
<1>2. PICK e \in [Keys -> [inst : Insts \cup {None}, at : {0}]] :
        /\ \A k \in Keys : e[k].inst # None /\ k \in NamesOf[e[k].inst] => e[k].inst = answer[k]
        /\ content \in [Inodes -> {Json(e), Unreadable("torn")}]
  BY DEF GuardInit, CacheInit
<1>3. e \in Entries
  BY <1>1, <1>2 DEF Entries, Entry
<1>4. content \in [Inodes -> Content]
  BY <1>2, <1>3, Texts
<1>5. GuardTypeOK
  BY <1>1, <1>4, Texts DEF GuardInit, CacheInit, GuardTypeOK, CacheTypeOK, Inodes
<1>6. PlaceInv
  <2>1. SUFFICES ASSUME NEW p \in Procs PROVE HasKey(p) /\ HasGot(p) /\ InTime(p)
    BY DEF PlaceInv
  <2>2. pc[p] = "start" /\ got[p] = None /\ gotAt[p] = 0 /\ now = 0
    BY DEF GuardInit, CacheInit
  <2> QED BY <2>2 DEF HasKey, HasGot, InTime, Busy, Having, Asking
<1>7. HonestEntries
  <2>1. now = 0
    BY DEF GuardInit, CacheInit
  <2>2. AllHonest(NoEntries)
    BY DEF AllHonest, NoEntries, Honest
  <2>3. AllHonest(e)
    BY <1>2, <2>1 DEF AllHonest, Honest
  <2>4. \A n \in Inodes : content[n].entries = e \/ content[n].entries = NoEntries
    BY <1>2 DEF Json, Unreadable
  <2>5. \A p \in Procs : data[p] = NoEntries
    BY DEF GuardInit, CacheInit
  <2> QED BY <2>2, <2>3, <2>4, <2>5 DEF HonestEntries
<1>8. GotInv
  BY DEF GuardInit, CacheInit, GotInv, GotRecent
<1>9. CheckedInv
  BY DEF GuardInit, CacheInit, CheckedInv, Checked, Busy, Having
<1> QED BY <1>5, <1>6, <1>7, <1>8, <1>9 DEF IInv

LEMMA InvNext ==
    ASSUME IInv, [GuardNext]_guardVars PROVE IInv'
BY TypeStep, PlaceStep, HonestStep, GotStep, CheckedStep DEF IInv

(* The invariant that the theorems rest on holds in every reachable state. *)
THEOREM InvHolds == GuardSpec => []IInv
BY InvInit, InvNext, PTL DEF GuardSpec

(* Every reachable state is well typed, for any commands, ids, instruments *)
(* and policy files.                                                       *)
THEOREM GuardTypeCorrect == GuardSpec => []GuardTypeOK
<1>1. IInv => GuardTypeOK
  BY DEF IInv
<1> QED BY <1>1, InvHolds, PTL

(* Through any number of writers and crashes, torn files and entries under *)
(* a wrong id, what Resolve returns was the broker's answer for that id    *)
(* within the TTL and a call.                                              *)
THEOREM ResolvedIsRecentHolds == GuardSpec => []ResolvedIsRecent
<1>1. IInv => ResolvedIsRecent
  BY DEF IInv, PlaceInv, HasGot, HasKey, Busy, GotInv, GotRecent, ResolvedIsRecent
<1> QED BY <1>1, InvHolds, PTL

(* For any requests, instruments and policy files, what orders place,      *)
(* orders replace and stop-orders place send keeps the rules of the file.  *)
THEOREM SentIsWithinPolicyHolds == GuardSpec => []SentIsWithinPolicy
<1>1. ASSUME IInv PROVE SentIsWithinPolicy
  <2>1. SUFFICES ASSUME NEW p \in Procs, pc[p] = "sent"
                 PROVE  \E i \in Insts : Recent(key[p], i, gotAt[p])
                                         /\ KeepsPolicy(order[p], key[p], i)
    BY DEF SentIsWithinPolicy
  <2>2. /\ GuardTypeOK /\ HasKey(p) /\ HasGot(p) /\ GotRecent(p) /\ Checked(p)
    BY <1>1 DEF IInv, PlaceInv, GotInv, CheckedInv
  <2>3. key[p] \in Keys /\ order[p] \in Orders /\ got[p] \in Insts /\ got[p] # None
    BY <2>1, <2>2 DEF HasKey, HasGot, Busy, Having, GuardTypeOK, CacheTypeOK
  <2>4. Recent(key[p], got[p], gotAt[p])
    BY <2>2, <2>3 DEF GotRecent
  <2>5. file \in PolicyFiles /\ ~RefusedAtOnce(order[p])
        /\ ~ResolvedViolation(order[p], key[p], got[p])
    BY <2>1, <2>2 DEF Checked, Busy, Having, GuardTypeOK
  <2>6. KeepsPolicy(order[p], key[p], got[p])
    BY <2>3, <2>5, PolicyKept
  <2> QED BY <2>3, <2>4, <2>6
<1> QED BY <1>1, InvHolds, PTL

-----------------------------------------------------------------------------
(* The cache file stays whole.                                             *)

Before  == {"start", "resolve", "ask", "put", "open"}
Writing == {"write", "rename"}

(* The inode of a process is made by its OpenTmp, which it runs once: so   *)
(* what is at the two paths are two inodes, of processes past it.          *)
InodesInv ==
    /\ tmp # None => pc[tmp] \notin Before
    /\ live \in Procs => pc[live] \notin Before
    /\ tmp # None => tmp # live

(* One writer at a time: the temporary file is its own, empty before the   *)
(* write and whole after it.                                               *)
WriterInv ==
    /\ \A p, q \in Procs : pc[p] \in Writing /\ pc[q] \in Writing => p = q
    /\ \A p \in Procs :
         /\ pc[p] = "write" => tmp # None /\ fd[p] = tmp /\ content[tmp].text = "empty"
         /\ pc[p] = "rename" => tmp # None /\ content[tmp].text = "json"

WholeInv == ~overlapped => WriterInv /\ CrashLeavesFileWhole

FileInv == InodesInv /\ WholeInv

(* Only p moves, and it does not come back to where it has been.           *)
Alone(p) ==
    /\ \A q \in Procs \ {p} : pc'[q] = pc[q] /\ fd'[q] = fd[q]
    /\ pc'[p] \in Before => pc[p] \in Before

LEMMA EndAlone ==
    ASSUME CacheTypeOK, NEW p \in Procs, NEW how, how \notin Before \cup Writing, End(p, how)
    PROVE  Alone(p) /\ pc'[p] = how
  BY DEF CacheTypeOK, End, Goto, Alone, Before

LEMMA GotoAlone ==
    ASSUME CacheTypeOK, NEW p \in Procs, NEW place, Goto(p, place), place \in Before => pc[p] \in Before,
           fd' = fd \/ \E n : fd' = [fd EXCEPT ![p] = n]
    PROVE  Alone(p) /\ pc'[p] = place
  BY DEF CacheTypeOK, Goto, Alone

(* A process that does not touch the files, or leaves them.                *)
LEMMA FilesLeft ==
    ASSUME CacheTypeOK, FileInv, NEW p \in Procs, Alone(p), UNCHANGED files,
           pc'[p] \notin Writing
    PROVE  FileInv'
  <1>1. live' = live /\ tmp' = tmp /\ content' = content /\ overlapped' = overlapped
    BY DEF files
  <1>2. tmp \in Procs \cup {None}
    BY DEF CacheTypeOK
  <1>3. InodesInv'
    BY <1>1, <1>2 DEF FileInv, InodesInv, Alone
  <1>4. ASSUME ~overlapped PROVE WriterInv' /\ CrashLeavesFileWhole'
    <2>1. WriterInv /\ CrashLeavesFileWhole
      BY <1>4 DEF FileInv, WholeInv
    <2>2. WriterInv'
      BY <1>1, <2>1 DEF WriterInv, Alone, Writing
    <2> QED BY <1>1, <2>1, <2>2 DEF CrashLeavesFileWhole
  <1> QED BY <1>1, <1>3, <1>4 DEF FileInv, WholeInv

(* Nobody moves.                                                           *)
LEMMA NobodyMoves ==
    ASSUME FileInv, UNCHANGED <<files, pc, fd>>
    PROVE  FileInv'
  <1>1. live' = live /\ tmp' = tmp /\ content' = content /\ overlapped' = overlapped
        /\ pc' = pc /\ fd' = fd
    BY DEF files
  <1>2. InodesInv' /\ (WriterInv => WriterInv')
        /\ (CrashLeavesFileWhole => CrashLeavesFileWhole')
    BY <1>1 DEF FileInv, InodesInv, WriterInv, CrashLeavesFileWhole
  <1> QED BY <1>1, <1>2 DEF FileInv, WholeInv

LEMMA OpenTmpFile ==
    ASSUME CacheTypeOK, FileInv, NEW p \in Procs, OpenTmp(p)
    PROVE  FileInv'
  <1>1. /\ pc[p] = "open" /\ Goto(p, "write") /\ live' = live
        /\ tmp' = IF tmp = None THEN p ELSE tmp
        /\ fd' = [fd EXCEPT ![p] = tmp']
        /\ content' = [content EXCEPT ![tmp'] = Unreadable("empty")]
        /\ overlapped' = (overlapped \/ \E q \in Procs \ {p} : pc[q] \in {"write", "rename"})
    BY DEF OpenTmp
  <1>2. /\ pc \in [Procs -> {"start", "resolve", "ask", "put", "open", "write", "rename",
                             "resolved", "sent", "refused", "failed", "dead"}]
        /\ fd \in [Procs -> Procs \cup {None}] /\ content \in [Inodes -> Content]
        /\ tmp \in Procs \cup {None} /\ live \in Inodes \cup {None}
    BY DEF CacheTypeOK
  <1>3. Alone(p) /\ pc'[p] = "write"
    BY <1>1, GotoAlone DEF Before
  <1>4. tmp' \in Procs /\ tmp' # None /\ tmp' \in Inodes
    BY <1>1, <1>2, CacheAssumption DEF Inodes, CacheAssumption
  <1>5. tmp' # live
    BY <1>1 DEF FileInv, InodesInv, Before
  <1>6. pc'[tmp'] \notin Before
    BY <1>1, <1>3, <1>4 DEF FileInv, InodesInv, Before, Alone
  <1>7. live \in Procs => pc'[live] \notin Before
    BY <1>3 DEF FileInv, InodesInv, Alone, Before
  <1>8. InodesInv'
    BY <1>1, <1>5, <1>6, <1>7 DEF InodesInv
  <1>9. ASSUME ~overlapped' PROVE WriterInv' /\ CrashLeavesFileWhole'
    <2>1. ~overlapped /\ \A q \in Procs \ {p} : pc[q] \notin {"write", "rename"}
      BY <1>1, <1>9
    <2>2. CrashLeavesFileWhole
      BY <2>1 DEF FileInv, WholeInv
    <2>3. \A q \in Procs \ {p} : pc'[q] \notin Writing
      BY <1>3, <2>1 DEF Alone, Writing
    <2>4. fd'[p] = tmp' /\ content'[tmp'].text = "empty"
      BY <1>1, <1>2, <1>4 DEF Unreadable
    <2>5. WriterInv'
      BY <1>3, <1>4, <2>3, <2>4 DEF WriterInv, Writing
    <2>6. CrashLeavesFileWhole'
      <3>1. live \in Inodes /\ live # tmp' => content'[live] = content[live]
        BY <1>1, <1>2
      <3> QED BY <1>1, <1>2, <1>5, <2>1, <2>2, <3>1 DEF CrashLeavesFileWhole
    <2> QED BY <2>5, <2>6
  <1> QED BY <1>8, <1>9 DEF FileInv, WholeInv

(* A write, or what a failed one leaves: it goes to the inode the process  *)
(* has open.                                                               *)
LEMMA WriteFile ==
    ASSUME CacheTypeOK, FileInv, NEW p \in Procs, pc[p] = "write", Alone(p), NEW c,
           content' = [content EXCEPT ![fd[p]] = c],
           \/ pc'[p] \notin Writing
           \/ pc'[p] = "rename" /\ (content[fd[p]].text = "empty" => c.text = "json"),
           UNCHANGED <<live, tmp, overlapped>>
    PROVE  FileInv'
  <1>1. /\ content \in [Inodes -> Content]
        /\ tmp \in Procs \cup {None} /\ live \in Inodes \cup {None}
    BY DEF CacheTypeOK
  <1>2. InodesInv'
    BY <1>1 DEF FileInv, InodesInv, Alone
  <1>3. ASSUME ~overlapped' PROVE WriterInv' /\ CrashLeavesFileWhole'
    <2>1. ~overlapped
      BY <1>3
    <2>2. WriterInv /\ CrashLeavesFileWhole
      BY <2>1 DEF FileInv, WholeInv
    <2>3. tmp # None /\ fd[p] = tmp /\ content[tmp].text = "empty" /\ tmp \in Inodes
      BY <1>1, <2>2 DEF WriterInv, Inodes
    <2>4. \A q \in Procs \ {p} : pc'[q] \notin Writing
      BY <2>2 DEF WriterInv, Writing, Alone
    <2>5. content'[tmp] = c
      BY <1>1, <2>3
    <2>6. WriterInv'
      BY <2>3, <2>4, <2>5 DEF WriterInv, Writing
    <2>7. CrashLeavesFileWhole'
      <3>1. live # tmp
        BY <2>3 DEF FileInv, InodesInv
      <3>2. live \in Inodes => content'[live] = content[live]
        BY <1>1, <2>3, <3>1
      <3> QED BY <1>1, <2>1, <2>2, <3>2 DEF CrashLeavesFileWhole
    <2> QED BY <2>6, <2>7
  <1> QED BY <1>2, <1>3 DEF FileInv, WholeInv

LEMMA RenameFile ==
    ASSUME CacheTypeOK, FileInv, NEW p \in Procs, Rename(p)
    PROVE  FileInv'
  <1>1. /\ pc[p] = "rename" /\ Goto(p, "resolved") /\ fd' = fd
        /\ live' = IF tmp = None THEN live ELSE tmp
        /\ tmp' = None /\ overlapped' = overlapped
        /\ content' = IF tmp = None \/ live = None THEN content
                      ELSE [content EXCEPT ![live] = Unreadable("torn")]
    BY DEF Rename
  <1>2. /\ content \in [Inodes -> Content]
        /\ tmp \in Procs \cup {None} /\ live \in Inodes \cup {None}
    BY DEF CacheTypeOK
  <1>3. Alone(p) /\ pc'[p] = "resolved"
    BY <1>1, GotoAlone DEF Before
  <1>4. live' \in Procs => pc'[live'] \notin Before
    <2>1. live' \in Procs => pc[live'] \notin Before
      BY <1>1, <1>2, CacheAssumption DEF FileInv, InodesInv, CacheAssumption
    <2> QED BY <1>3, <2>1 DEF Alone, Before
  <1>5. InodesInv'
    BY <1>1, <1>4 DEF InodesInv
  <1>6. ASSUME ~overlapped' PROVE WriterInv' /\ CrashLeavesFileWhole'
    <2>1. WriterInv /\ CrashLeavesFileWhole
      BY <1>1, <1>6 DEF FileInv, WholeInv
    <2>2. \A q \in Procs : pc'[q] \notin Writing
      BY <1>1, <1>3, <2>1 DEF WriterInv, Writing, Alone
    <2>3. WriterInv'
      BY <2>2 DEF WriterInv, Writing
    <2>4. tmp # None /\ content[tmp].text = "json" /\ live # tmp /\ tmp \in Inodes
      BY <1>1, <1>2, <2>1 DEF WriterInv, FileInv, InodesInv, Inodes
    <2>5. content'[tmp] = content[tmp]
      BY <1>1, <1>2, <2>4
    <2> QED BY <1>1, <2>3, <2>4, <2>5 DEF CrashLeavesFileWhole
  <1> QED BY <1>5, <1>6 DEF FileInv, WholeInv

LEMMA FileStep ==
    ASSUME GuardTypeOK, FileInv, [GuardNext]_guardVars
    PROVE  FileInv'
  <1>t. CacheTypeOK
    BY DEF GuardTypeOK
  <1>1. ASSUME NEW p \in Procs, CheckLocal(p) PROVE FileInv'
    <2>1. pc[p] = "start" /\ UNCHANGED files
      BY <1>1 DEF CheckLocal
    <2>2. Alone(p) /\ pc'[p] \notin Writing
      <3>1. CASE End(p, "refused")
        BY <1>t, <3>1, EndAlone DEF Before, Writing
      <3>2. CASE Goto(p, "resolve") /\ UNCHANGED fd
        BY <1>t, <2>1, <3>2, GotoAlone DEF Before, Writing
      <3> QED BY <1>1, <3>1, <3>2 DEF CheckLocal
    <2> QED BY <1>t, <2>1, <2>2, FilesLeft
  <1>2. ASSUME NEW p \in Procs, CheckResolved(p) PROVE FileInv'
    <2>1. UNCHANGED files /\ (End(p, "refused") \/ (Goto(p, "sent") /\ UNCHANGED fd))
      BY <1>2 DEF CheckResolved, SendUnless
    <2>2. Alone(p) /\ pc'[p] \notin Writing
      BY <1>t, <2>1, EndAlone, GotoAlone DEF Before, Writing
    <2> QED BY <1>t, <2>1, <2>2, FilesLeft
  <1>3. ASSUME NEW p \in Procs, Resolve(p) \/ Crash(p) PROVE FileInv'
    <2>1. CASE RefuseId(p) \/ BrokerFails(p)
      <3>1. UNCHANGED files /\ (End(p, "refused") \/ End(p, "failed"))
        BY <2>1 DEF RefuseId, BrokerFails
      <3>2. Alone(p) /\ pc'[p] \notin Writing
        BY <1>t, <3>1, EndAlone DEF Before, Writing
      <3> QED BY <1>t, <3>1, <3>2, FilesLeft
    <2>2. CASE Get(p) \/ BrokerAnswers(p) \/ PutRead(p)
      <3>1. /\ pc[p] \in Before /\ UNCHANGED <<files, fd>>
            /\ \E place \in {"resolved", "ask", "put", "open"} : Goto(p, place)
        BY <2>2 DEF Get, BrokerAnswers, PutRead, Before
      <3>2. Alone(p) /\ pc'[p] \notin Writing
        BY <1>t, <3>1, GotoAlone DEF Before, Writing
      <3> QED BY <1>t, <3>1, <3>2, FilesLeft
    <2>3. CASE OpenTmp(p)
      BY <1>t, <2>3, OpenTmpFile
    <2>4. CASE Write(p)
      <3>1. PICK c \in {Json(data[p]), Unreadable("torn")} :
               /\ content[fd[p]].text = "empty" => c = Json(data[p])
               /\ content' = [content EXCEPT ![fd[p]] = c]
        BY <2>4 DEF Write
      <3>2. pc[p] = "write" /\ LetGo(p) /\ Goto(p, "rename") /\ UNCHANGED <<live, tmp, overlapped>>
        BY <2>4 DEF Write
      <3>3. Alone(p) /\ pc'[p] = "rename"
        BY <1>t, <3>2, GotoAlone DEF Before, LetGo
      <3>4. content[fd[p]].text = "empty" => c.text = "json"
        BY <3>1 DEF Json
      <3> QED BY <1>t, <3>1, <3>2, <3>3, <3>4, WriteFile
    <2>5. CASE Rename(p)
      BY <1>t, <2>5, RenameFile
    <2>6. CASE PutFails(p)
      <3>1. LetGo(p) /\ Goto(p, "resolved") /\ UNCHANGED <<live, tmp, overlapped>>
        BY <2>6 DEF PutFails
      <3>n. Alone(p) /\ pc'[p] = "resolved"
        BY <1>t, <3>1, GotoAlone DEF Before, LetGo
      <3>2. Alone(p) /\ pc'[p] \notin Writing
        BY <3>n DEF Writing
      <3>3. CASE UNCHANGED content
        BY <1>t, <3>1, <3>2, <3>3, FilesLeft DEF files
      <3>4. CASE pc[p] = "write" /\ content' = [content EXCEPT ![fd[p]] = Unreadable("torn")]
        <4>1. PICK c : c = Unreadable("torn")
          OBVIOUS
        <4>2. content' = [content EXCEPT ![fd[p]] = c]
          BY <3>4, <4>1
        <4> QED BY <1>t, <3>1, <3>2, <3>4, <4>2, WriteFile
      <3> QED BY <2>6, <3>3, <3>4 DEF PutFails
    <2>7. CASE Crash(p)
      <3>1. End(p, "dead") /\ UNCHANGED <<live, tmp, overlapped>>
        BY <2>7 DEF Crash
      <3>2. Alone(p) /\ pc'[p] \notin Writing
        BY <1>t, <3>1, EndAlone DEF Before, Writing
      <3>3. CASE UNCHANGED content
        BY <1>t, <3>1, <3>2, <3>3, FilesLeft DEF files
      <3>4. CASE pc[p] = "write" /\ content' = [content EXCEPT ![fd[p]] = Unreadable("torn")]
        <4>1. PICK c : c = Unreadable("torn")
          OBVIOUS
        <4>2. content' = [content EXCEPT ![fd[p]] = c]
          BY <3>4, <4>1
        <4> QED BY <1>t, <3>1, <3>2, <3>4, <4>2, WriteFile
      <3> QED BY <2>7, <3>3, <3>4 DEF Crash
    <2> QED BY <1>3, <2>1, <2>2, <2>3, <2>4, <2>5, <2>6, <2>7 DEF Resolve
  <1>4. CASE BrokerChanges \/ Tick \/ UNCHANGED guardVars
    <2>1. UNCHANGED <<files, pc, fd>>
      BY <1>4 DEF BrokerChanges, Tick, guardVars, cacheVars, procs
    <2> QED BY <2>1, NobodyMoves
  <1> QED BY <1>1, <1>2, <1>3, <1>4 DEF GuardNext

LEMMA FileInit == GuardInit => FileInv
  <1> SUFFICES ASSUME GuardInit PROVE FileInv
    OBVIOUS
  <1>1. /\ tmp = None /\ live \in {First, None} /\ pc = [p \in Procs |-> "start"]
        /\ First \notin Procs /\ None \notin Procs
    BY CacheAssumption DEF GuardInit, CacheInit, CacheAssumption
  <1>2. InodesInv
    BY <1>1 DEF InodesInv
  <1>3. WriterInv
    BY <1>1 DEF WriterInv, Writing
  <1>4. CrashLeavesFileWhole
    BY <1>1 DEF CrashLeavesFileWhole
  <1> QED BY <1>2, <1>3, <1>4 DEF FileInv, WholeInv

(* "A crash mid-write cannot corrupt the cache" (cache.go): however many   *)
(* commands are killed wherever, as long as no two of them write at a      *)
(* time, the file that Rename put in place is a whole one.                 *)
THEOREM CrashLeavesFileWholeHolds == GuardSpec => []CrashLeavesFileWhole
  <1>1. IInv /\ FileInv /\ [GuardNext]_guardVars => FileInv'
    BY FileStep DEF IInv
  <1>2. GuardSpec => []FileInv
    BY <1>1, FileInit, InvHolds, PTL DEF GuardSpec
  <1>3. FileInv => CrashLeavesFileWhole
    BY DEF FileInv, WholeInv, CrashLeavesFileWhole
  <1> QED BY <1>2, <1>3, PTL
=============================================================================
