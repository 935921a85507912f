-------------------------- MODULE InstrumentCache --------------------------
(***************************************************************************)
(* Resolving an instrument id through the local cache file, which every    *)
(* command of the machine shares: Client.Resolve and Cache.Get and Put.    *)
(*                                                                         *)
(* The mutex of Cache orders the calls of one process only.  Between       *)
(* processes nothing does: all of them write the one temporary file, so    *)
(* the file system is modelled with inodes.  WriteFile truncates whatever  *)
(* inode is at the temporary path, the write goes to that inode even after *)
(* another process has renamed it, and Rename moves whatever is there.     *)
(* Two writes into one inode leave the later text, or that text with a     *)
(* tail of the other, which is not JSON.                                   *)
(***************************************************************************)
EXTENDS Integers

CONSTANTS Procs,      \* commands, each of which resolves one id
          Keys,       \* ids in one of the three shapes, up to letter case
          Malformed,  \* ids in none of them
          Insts,      \* instruments, as records
          NamesOf,    \* Insts -> the ids an instrument goes by
          NoCache,    \* the commands given --no-cache
          TTL,
          CallTime,   \* from the request to the entry's time stamp, at most
          First,      \* the inode the cache file has at first
          None,
          MaxTime     \* bound

ASSUME CacheAssumption ==
    /\ Malformed \cap Keys = {}
    /\ NamesOf \in [Insts -> SUBSET Keys]
    /\ NoCache \subseteq Procs
    /\ TTL \in Nat /\ CallTime \in Nat /\ MaxTime \in Nat
    /\ First \notin Procs /\ None \notin Procs \cup {First}
    /\ None \notin Insts \cup Keys \cup Malformed

VARIABLES
    key,         \* Procs -> the id to resolve; None until the command is given one
    answer,      \* Keys -> the instrument the broker would answer with
    lastTrue,    \* Keys -> Insts -> when it was last the answer; Never
    now,
    live,        \* the inode at instruments.json
    tmp,         \* the inode at instruments.json.tmp
    content,     \* Inodes -> what is in it
    overlapped,  \* two processes have been between OpenTmp and Rename
    pc,
    fd,          \* Procs -> the inode the process has open
    data,        \* Procs -> the entries it is to write
    asked,       \* Procs -> when it asked the broker
    got,         \* Procs -> the instrument
    gotAt        \* Procs -> when it got it

world   == <<key, answer, lastTrue>>
files   == <<live, tmp, content, overlapped>>
procs   == <<pc, fd, data, asked, got, gotAt>>
cacheVars == <<world, now, files, procs>>

Inodes  == Procs \cup {First}
Time    == 0..MaxTime
Never   == -1
Entry   == [inst : Insts \cup {None}, at : Time]
Entries == [Keys -> Entry]
NoEntries == [k \in Keys |-> [inst |-> None, at |-> 0]]
Content == [text : {"json", "empty", "torn"}, entries : Entries]

Unreadable(t) == [text |-> t, entries |-> NoEntries]
Json(e)       == [text |-> "json", entries |-> e]

CacheTypeOK ==
    /\ key \in [Procs -> Keys \cup Malformed \cup {None}]
    /\ answer \in [Keys -> Insts]
    /\ lastTrue \in [Keys -> [Insts -> Time \cup {Never}]]
    /\ now \in Time
    /\ live \in Inodes \cup {None}
    /\ tmp \in Procs \cup {None}
    /\ content \in [Inodes -> Content]
    /\ overlapped \in BOOLEAN
    /\ pc \in [Procs -> {"start", "resolve", "ask", "put", "open", "write", "rename",
                         "resolved", "sent", "refused", "failed", "dead"}]
    /\ fd \in [Procs -> Procs \cup {None}]
    /\ data \in [Procs -> Entries]
    /\ asked \in [Procs -> Time]
    /\ got \in [Procs -> Insts \cup {None}]
    /\ gotAt \in [Procs -> Time]

(* The file of earlier commands: entries that were the broker's answers,   *)
(* entries under a wrong id, no file, or a file that is not JSON.  An      *)
(* entry edited under its right id, or stamped in the future, is believed  *)
(* by Get and left out here.                                               *)
CacheInit ==
    /\ key = [p \in Procs |-> None]
    /\ answer \in {a \in [Keys -> Insts] : \A k \in Keys : k \in NamesOf[a[k]]}
    /\ lastTrue = [k \in Keys |-> [i \in Insts |-> Never]]
    /\ now = 0
    /\ live \in {First, None}
    /\ tmp = None
    /\ \E e \in [Keys -> [inst : Insts \cup {None}, at : {0}]] :
         /\ \A k \in Keys : e[k].inst # None /\ k \in NamesOf[e[k].inst] => e[k].inst = answer[k]
         /\ content \in [Inodes -> {Json(e), Unreadable("torn")}]
         /\ \A p \in Procs : content[p] = Unreadable("torn")
         /\ live = None => content[First] = Unreadable("torn")
    /\ overlapped = FALSE
    /\ pc = [p \in Procs |-> "start"]
    /\ fd = [p \in Procs |-> None]
    /\ data = [p \in Procs |-> NoEntries]
    /\ asked = [p \in Procs |-> 0]
    /\ got = [p \in Procs |-> None]
    /\ gotAt = [p \in Procs |-> 0]

-----------------------------------------------------------------------------
(* The rest of the world: a listing changes (a lot, a ticker given to      *)
(* another paper), time passes.                                            *)

BrokerChanges ==
    /\ \E k \in Keys, i \in Insts :
         /\ k \in NamesOf[i] /\ i # answer[k] /\ lastTrue[k][i] = Never
         /\ answer' = [answer EXCEPT ![k] = i]
         /\ lastTrue' = [lastTrue EXCEPT ![k][answer[k]] = now]
    /\ UNCHANGED <<key, now, files, procs>>

Tick ==
    /\ now < MaxTime
    /\ \A p \in Procs : pc[p] \in {"ask", "put"} => now < asked[p] + CallTime
    /\ now' = now + 1
    /\ UNCHANGED <<world, files, procs>>

-----------------------------------------------------------------------------
(* Get.                                                                    *)

(* Cache.read: a file that is not JSON is an error; Get and Put both go on *)
(* as if it were empty.                                                    *)
ReadFile == IF live = None \/ content[live].text # "json" THEN NoEntries
            ELSE content[live].entries

(* Mutant: an entry that only just got too old.                            *)
FreshAndOneMore(e) == now - e.at <= TTL + 1

Fresh(e) == now - e.at <= TTL

(* Mutant of cacheEntryMatchesKey: it only asks whether there is an entry. *)
MatchesAnything(k, i) == i # None

MatchesKey(k, i) == i # None /\ k \in NamesOf[i]

Hit(k) == MatchesKey(k, ReadFile[k].inst) /\ Fresh(ReadFile[k])

Goto(p, place) == pc' = [pc EXCEPT ![p] = place]

(* The command is over; what it had in memory is gone.                     *)
End(p, how) ==
    /\ Goto(p, how)
    /\ key' = [key EXCEPT ![p] = None]
    /\ fd' = [fd EXCEPT ![p] = None]
    /\ data' = [data EXCEPT ![p] = NoEntries]
    /\ asked' = [asked EXCEPT ![p] = 0]
    /\ got' = [got EXCEPT ![p] = None]
    /\ gotAt' = [gotAt EXCEPT ![p] = 0]

Take(p, i) ==
    /\ got' = [got EXCEPT ![p] = i]
    /\ gotAt' = [gotAt EXCEPT ![p] = now]

(* Classify comes before the cache and the network.                        *)
RefuseId(p) ==
    /\ pc[p] = "resolve"
    /\ key[p] \in Malformed
    /\ End(p, "refused")
    /\ UNCHANGED <<answer, lastTrue, now, files>>

Get(p) ==
    /\ pc[p] = "resolve"
    /\ key[p] \in Keys
    /\ IF p \notin NoCache /\ Hit(key[p])
       THEN /\ Take(p, ReadFile[key[p]].inst)
            /\ Goto(p, "resolved")
            /\ UNCHANGED asked
       ELSE /\ asked' = [asked EXCEPT ![p] = now]
            /\ Goto(p, "ask")
            /\ UNCHANGED <<got, gotAt>>
    /\ UNCHANGED <<world, now, files, fd, data>>

BrokerAnswers(p) ==
    /\ pc[p] = "ask"
    /\ Take(p, answer[key[p]])
    /\ Goto(p, IF p \in NoCache THEN "resolved" ELSE "put")
    /\ UNCHANGED <<world, now, files, fd, data, asked>>

(* Errors are not cached.                                                  *)
BrokerFails(p) ==
    /\ pc[p] = "ask"
    /\ End(p, "failed")
    /\ UNCHANGED <<answer, lastTrue, now, files>>

-----------------------------------------------------------------------------
(* Put.  None of its errors fails the command.                             *)

(* Mutant: the entry is stamped with the time it goes stale.               *)
PutReadExpiry(p) ==
    /\ pc[p] = "put"
    /\ data' = [data EXCEPT ![p] =
                   [ReadFile EXCEPT ![key[p]] = [inst |-> got[p], at |-> now + TTL]]]
    /\ asked' = [asked EXCEPT ![p] = 0]
    /\ Goto(p, "open")
    /\ UNCHANGED <<world, now, files, fd, got, gotAt>>

PutRead(p) ==
    /\ pc[p] = "put"
    /\ data' = [data EXCEPT ![p] = [ReadFile EXCEPT ![key[p]] = [inst |-> got[p], at |-> now]]]
    /\ asked' = [asked EXCEPT ![p] = 0]
    /\ Goto(p, "open")
    /\ UNCHANGED <<world, now, files, fd, got, gotAt>>

(* Mutant: an existing temporary file is not truncated.                    *)
OpenTmpAppending(p) ==
    /\ pc[p] = "open"
    /\ tmp' = IF tmp = None THEN p ELSE tmp
    /\ fd' = [fd EXCEPT ![p] = tmp']
    /\ content' = IF tmp = None THEN [content EXCEPT ![p] = Unreadable("empty")] ELSE content
    /\ overlapped' = (overlapped \/ \E q \in Procs \ {p} : pc[q] \in {"write", "rename"})
    /\ Goto(p, "write")
    /\ UNCHANGED <<world, now, live, data, asked, got, gotAt>>

OpenTmp(p) ==
    /\ pc[p] = "open"
    /\ tmp' = IF tmp = None THEN p ELSE tmp
    /\ fd' = [fd EXCEPT ![p] = tmp']
    /\ content' = [content EXCEPT ![tmp'] = Unreadable("empty")]
    /\ overlapped' = (overlapped \/ \E q \in Procs \ {p} : pc[q] \in {"write", "rename"})
    /\ Goto(p, "write")
    /\ UNCHANGED <<world, now, live, data, asked, got, gotAt>>

(* The file is closed and the text forgotten.                              *)
LetGo(p) ==
    /\ fd' = [fd EXCEPT ![p] = None]
    /\ data' = [data EXCEPT ![p] = NoEntries]

Write(p) ==
    /\ pc[p] = "write"
    /\ \E c \in {Json(data[p]), Unreadable("torn")} :
         /\ content[fd[p]].text = "empty" => c = Json(data[p])
         /\ content' = [content EXCEPT ![fd[p]] = c]
    /\ LetGo(p)
    /\ Goto(p, "rename")
    /\ UNCHANGED <<world, now, live, tmp, overlapped, asked, got, gotAt>>

(* What the file was before, nobody can read any more.                     *)
Rename(p) ==
    /\ pc[p] = "rename"
    /\ live' = IF tmp = None THEN live ELSE tmp
    /\ tmp' = None
    /\ content' = IF tmp = None \/ live = None THEN content
                  ELSE [content EXCEPT ![live] = Unreadable("torn")]
    /\ Goto(p, "resolved")
    /\ UNCHANGED <<world, now, overlapped, fd, data, asked, got, gotAt>>

(* No directory, no permission, no space: half of the text may be there.   *)
PutFails(p) ==
    /\ \/ pc[p] \in {"open", "rename"} /\ UNCHANGED content
       \/ pc[p] = "write" /\ content' = [content EXCEPT ![fd[p]] = Unreadable("torn")]
    /\ LetGo(p)
    /\ Goto(p, "resolved")
    /\ UNCHANGED <<world, now, live, tmp, overlapped, asked, got, gotAt>>

(* The process is killed, in the middle of the write perhaps.  Before and  *)
(* after Put that is no different from a command that does nothing more.   *)
Crash(p) ==
    /\ pc[p] \in {"put", "open", "write", "rename"}
    /\ \/ UNCHANGED content
       \/ pc[p] = "write" /\ content' = [content EXCEPT ![fd[p]] = Unreadable("torn")]
    /\ End(p, "dead")
    /\ UNCHANGED <<answer, lastTrue, now, live, tmp, overlapped>>

Resolve(p) ==
    \/ RefuseId(p) \/ Get(p) \/ BrokerAnswers(p) \/ BrokerFails(p)
    \/ PutRead(p) \/ OpenTmp(p) \/ Write(p) \/ Rename(p) \/ PutFails(p)

-----------------------------------------------------------------------------
(* Properties.                                                             *)

(* i was the broker's answer for k at some time not long before t.         *)
Recent(k, i, t) ==
    i = answer[k] \/ (lastTrue[k][i] # Never /\ lastTrue[k][i] + TTL + CallTime >= t)

(* Whatever a command resolves its id to, from the cache or from the       *)
(* broker, through torn files, other writers' leftovers and entries under  *)
(* wrong ids, is what the broker answered for that very id within the TTL  *)
(* and the time of a call.  An entry somebody edited under its right id is *)
(* outside it (CacheInit).                                                 *)
ResolvedIsRecent ==
    \A p \in Procs : got[p] # None => key[p] \in Keys /\ Recent(key[p], got[p], gotAt[p])

(* "Writes are atomic (write a temp file, then rename) so a crash mid-     *)
(* write cannot corrupt the cache": so it is while no two processes write  *)
(* at a time, whatever the crashed ones leave behind.                      *)
CrashLeavesFileWhole ==
    live # None /\ live # First /\ ~overlapped => content[live].text = "json"
=============================================================================
