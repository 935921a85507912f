---------------------------- MODULE PacingProofs ----------------------------
(***************************************************************************)
(* For any calls, limits, deadlines and tariffs: the limiter is well       *)
(* typed, keeps within the tariff over any span of time, and is not left   *)
(* with a debt nobody will pay.  For any cap, windows and pauses: a stream *)
(* command's subscription messages keep within the cap wherever they       *)
(* arrive, and its connections do not become a storm.                      *)
(*                                                                         *)
(* Both facts about the limiter are about the content a bucket has now,    *)
(* with the token of every call that waits counted as not yet spent: that  *)
(* sum changes with the clock and with calls that pass only (Budget).  And *)
(* by any time T the bucket will have earned what the calls waiting beyond *)
(* T do not owe (Debt).                                                    *)
(*                                                                         *)
(* A subscription message is stamped after the arrival of the one before,  *)
(* so the messages that follow one within the window all have stamps in it *)
(* (StampInv).  And the failures counted keep up with the quick calls of   *)
(* Open (StormInv).                                                        *)
(***************************************************************************)
EXTENDS PacingMC, FiniteSetTheorems, SequenceTheorems, WellFoundedInduction, TLAPS

(* Calls that will wait on a bucket beyond T.                              *)
Owing(b, T) == {c \in Waiting(b) : wake[c] > T}

(* A call waits on a bucket that was installed.                            *)
Installed == \A c \in Calls : pc[c] = "waiting" => from[c] \in 0..newest

Budget ==
    Refilled(watched) + Cost(watched) * (Cardinality(Waiting(watched)) + passed) <=
        Capacity(watched) + (now - since) + Cost(watched) * before

Debt ==
    \A b \in 0..newest, T \in Nat :
        T >= now => Refilled(b) + (T - now) + Cost(b) * Cardinality(Owing(b, T)) >= 0

IInv == TypeOK /\ Installed /\ Budget /\ Debt

-----------------------------------------------------------------------------
(* Numbers and sets.                                                       *)

LEMMA OneTimesMore ==
    ASSUME NEW C \in Nat, NEW k \in Nat
    PROVE  C * k \in Nat /\ C * (k + 1) = C * k + C
OBVIOUS

LEMMA Positive ==
    ASSUME NEW C \in Nat \ {0}, NEW k \in Nat \ {0}
    PROVE  C * k \in Nat \ {0}
OBVIOUS

LEMMA BucketNumbers ==
    ASSUME TypeOK, NEW b \in Buckets
    PROVE  /\ Cost(b) \in Nat \ {0}
           /\ Capacity(b) \in Nat \ {0}
           /\ Refilled(b) \in Int
           /\ Refilled(b) <= Capacity(b)
           /\ Refilled(b) = Least(Capacity(b), tokens[b] + (now - last[b]))
<1>1. limit[b] \in Limits /\ tokens[b] \in Int /\ last[b] \in Int /\ now \in Int
  BY LimiterAssumption DEF TypeOK, LimiterAssumption
<1>2. limit[b].cost \in Nat \ {0} /\ limit[b].burst \in Nat \ {0}
  BY <1>1 DEF Limits
<1>3. Cost(b) \in Nat \ {0} /\ Capacity(b) \in Nat \ {0}
  BY <1>2, Positive DEF Cost, Capacity
<1>4. QED BY <1>1, <1>3 DEF Refilled, Least

LEMMA InBuckets ==
    ASSUME TypeOK
    PROVE  /\ 0..newest \subseteq Buckets
           /\ watched \in Buckets /\ current \in Buckets
BY LimiterAssumption DEF TypeOK, Buckets, LimiterAssumption

LEMMA CallSets ==
    ASSUME NEW b, NEW T
    PROVE  /\ IsFiniteSet(Waiting(b)) /\ Cardinality(Waiting(b)) \in Nat
           /\ IsFiniteSet(Owing(b, T)) /\ Cardinality(Owing(b, T)) \in Nat
           /\ Cardinality(Owing(b, T)) <= Cardinality(Waiting(b))
<1>1. IsFiniteSet(Calls)
  BY LimiterAssumption DEF LimiterAssumption
<1>2. Waiting(b) \subseteq Calls /\ Owing(b, T) \subseteq Waiting(b)
  BY DEF Waiting, Owing
<1>3. IsFiniteSet(Waiting(b))
  BY <1>1, <1>2, FS_Subset
<1>4. QED BY <1>2, <1>3, FS_Subset, FS_CardinalityType

(* A bucket whose content was stored now holds just that.                  *)
LEMMA AfterStore ==
    ASSUME TypeOK, NEW b \in Buckets, NEW x \in Int, x <= Capacity(b),
           Store(b, x), UNCHANGED <<now, buckets>>
    PROVE  /\ tokens' \in [Buckets -> Int] /\ last' \in [Buckets -> 0..MaxTime]
           /\ \A d \in Buckets :
                /\ tokens'[d] <= Capacity(d)'
                /\ Capacity(d)' = Capacity(d) /\ Cost(d)' = Cost(d)
                /\ Refilled(d)' = IF d = b THEN x ELSE Refilled(d)
<1>1. /\ tokens' = [tokens EXCEPT ![b] = x] /\ last' = [last EXCEPT ![b] = now]
      /\ limit' = limit /\ now' = now
  BY DEF Store, buckets
<1>2. tokens' \in [Buckets -> Int] /\ last' \in [Buckets -> 0..MaxTime]
  BY <1>1 DEF TypeOK
<1>3. ASSUME NEW d \in Buckets
      PROVE  /\ tokens'[d] <= Capacity(d)'
             /\ Capacity(d)' = Capacity(d) /\ Cost(d)' = Cost(d)
             /\ Refilled(d)' = IF d = b THEN x ELSE Refilled(d)
  <2>1. Capacity(d)' = Capacity(d) /\ Cost(d)' = Cost(d)
    BY <1>1 DEF Capacity, Cost
  <2>2. /\ tokens'[d] = IF d = b THEN x ELSE tokens[d]
        /\ last'[d] = IF d = b THEN now ELSE last[d]
    BY <1>1 DEF TypeOK
  <2>3. tokens'[d] <= Capacity(d)'
    BY <2>1, <2>2 DEF TypeOK
  <2>4. Refilled(d)' = Least(Capacity(d), tokens'[d] + (now - last'[d]))
    BY <1>1, <2>1 DEF Refilled
  <2>5. CASE d = b
    <3>1. now \in Int /\ now - now = 0 /\ x + 0 = x /\ Capacity(b) \in Nat
      BY BucketNumbers DEF TypeOK
    <3>2. QED BY <2>1, <2>2, <2>3, <2>4, <2>5, <3>1 DEF Least
  <2>6. CASE d # b
    BY <2>1, <2>2, <2>3, <2>4, <2>6 DEF Refilled
  <2>7. QED BY <2>5, <2>6
<1>4. QED BY <1>2, <1>3

(* One more call waits on bucket b.                                        *)
Joins(c, b, w) ==
    /\ pc[c] = "idle"
    /\ pc' = [pc EXCEPT ![c] = "waiting"]
    /\ from' = [from EXCEPT ![c] = b]
    /\ wake' = [wake EXCEPT ![c] = w]

LEMMA AfterJoin ==
    ASSUME TypeOK, NEW c \in Calls, NEW b \in Buckets, NEW w \in Nat, Joins(c, b, w)
    PROVE  /\ pc' \in [Calls -> {"idle", "waiting"}] /\ from' \in [Calls -> Buckets]
           /\ wake' \in [Calls -> Nat]
           /\ Cardinality(Waiting(b)') = Cardinality(Waiting(b)) + 1
           /\ \A d \in Buckets \ {b} : Waiting(d)' = Waiting(d)
           /\ \A d \in Buckets \ {b}, T \in Nat : Owing(d, T)' = Owing(d, T)
           /\ \A T \in Nat : Cardinality(Owing(b, T)') =
                Cardinality(Owing(b, T)) + (IF w > T THEN 1 ELSE 0)
<1>1. /\ pc' \in [Calls -> {"idle", "waiting"}] /\ from' \in [Calls -> Buckets]
      /\ wake' \in [Calls -> Nat]
  BY DEF Joins, TypeOK
<1>2. ASSUME NEW e \in Calls
      PROVE  /\ pc'[e] = IF e = c THEN "waiting" ELSE pc[e]
             /\ from'[e] = IF e = c THEN b ELSE from[e]
             /\ wake'[e] = IF e = c THEN w ELSE wake[e]
  BY DEF Joins, TypeOK
<1>3. c \notin Waiting(b) /\ Waiting(b)' = Waiting(b) \cup {c}
  BY <1>2 DEF Joins, Waiting
<1>4. Cardinality(Waiting(b)') = Cardinality(Waiting(b)) + 1
  BY <1>3, CallSets, FS_AddElement
<1>5. \A d \in Buckets \ {b} : Waiting(d)' = Waiting(d)
  BY <1>2 DEF Joins, Waiting
<1>6. \A d \in Buckets \ {b}, T \in Nat : Owing(d, T)' = Owing(d, T)
  BY <1>2, <1>5 DEF Joins, Waiting, Owing
<1>7. ASSUME NEW T \in Nat
      PROVE  Cardinality(Owing(b, T)') =
               Cardinality(Owing(b, T)) + (IF w > T THEN 1 ELSE 0)
  <2>1. CASE w > T
    <3>1. c \notin Owing(b, T) /\ Owing(b, T)' = Owing(b, T) \cup {c}
      BY <1>2, <2>1 DEF Owing, Waiting, Joins
    <3>2. QED BY <2>1, <3>1, CallSets, FS_AddElement
  <2>2. CASE ~(w > T)
    <3>1. Owing(b, T)' = Owing(b, T)
      BY <1>2, <2>2 DEF Owing, Waiting, Joins
    <3>2. QED BY <2>2, <3>1, CallSets
  <2>3. QED BY <2>1, <2>2
<1>8. QED BY <1>1, <1>4, <1>5, <1>6, <1>7

(* A call leaves the bucket it waits on.                                   *)
LEMMA AfterReturn ==
    ASSUME TypeOK, NEW c \in Calls, pc[c] = "waiting", NEW b, b = from[c], Return(c)
    PROVE  /\ pc' \in [Calls -> {"idle", "waiting"}] /\ from' \in [Calls -> Buckets]
           /\ wake' \in [Calls -> Nat]
           /\ Cardinality(Waiting(b)') = Cardinality(Waiting(b)) - 1
           /\ \A d \in Buckets \ {b} : Waiting(d)' = Waiting(d)
           /\ \A d \in Buckets \ {b}, T \in Nat : Owing(d, T)' = Owing(d, T)
           /\ \A T \in Nat : Cardinality(Owing(b, T)') =
                Cardinality(Owing(b, T)) - (IF wake[c] > T THEN 1 ELSE 0)
<1>1. /\ pc' \in [Calls -> {"idle", "waiting"}] /\ from' \in [Calls -> Buckets]
      /\ wake' \in [Calls -> Nat]
  BY LimiterAssumption DEF Return, TypeOK, Buckets, LimiterAssumption
<1>2. ASSUME NEW e \in Calls
      PROVE  /\ pc'[e] = IF e = c THEN "idle" ELSE pc[e]
             /\ from'[e] = IF e = c THEN 0 ELSE from[e]
             /\ wake'[e] = IF e = c THEN 0 ELSE wake[e]
  BY DEF Return, TypeOK
<1>3. c \in Waiting(b) /\ Waiting(b)' = Waiting(b) \ {c}
  BY <1>2 DEF Waiting
<1>4. Cardinality(Waiting(b)') = Cardinality(Waiting(b)) - 1
  BY <1>3, CallSets, FS_RemoveElement
<1>5. \A d \in Buckets \ {b} : Waiting(d)' = Waiting(d)
  BY <1>2 DEF Waiting
<1>6. \A d \in Buckets \ {b}, T \in Nat : Owing(d, T)' = Owing(d, T)
  BY <1>2, <1>5 DEF Waiting, Owing
<1>7. ASSUME NEW T \in Nat
      PROVE  Cardinality(Owing(b, T)') =
               Cardinality(Owing(b, T)) - (IF wake[c] > T THEN 1 ELSE 0)
  <2>1. CASE wake[c] > T
    <3>1. c \in Owing(b, T) /\ Owing(b, T)' = Owing(b, T) \ {c}
      BY <1>2, <1>3, <2>1 DEF Owing, Waiting
    <3>2. QED BY <2>1, <3>1, CallSets, FS_RemoveElement
  <2>2. CASE ~(wake[c] > T)
    <3>1. Owing(b, T)' = Owing(b, T)
      BY <1>2, <1>3, <2>2 DEF Owing, Waiting
    <3>2. QED BY <2>2, <3>1, CallSets
  <2>3. QED BY <2>1, <2>2
<1>8. QED BY <1>1, <1>4, <1>5, <1>6, <1>7

-----------------------------------------------------------------------------
(* The invariant holds at the start.                                       *)

LEMMA InvariantInit == Init => IInv
<1> SUFFICES ASSUME Init PROVE IInv
  OBVIOUS
<1>1. /\ StaticLimit \in Limits /\ StaticLimit.burst \in Nat \ {0}
      /\ StaticLimit.cost \in Nat \ {0} /\ MaxRefresh \in Nat /\ MaxTime \in Nat
  BY LimiterAssumption DEF LimiterAssumption, Limits
<1>2. TypeOK
  <2>1. StaticLimit.burst * StaticLimit.cost \in Nat
    BY <1>1
  <2>2. QED BY <1>1, <2>1 DEF Init, TypeOK, Buckets, Capacity
<1>3. Installed
  BY DEF Init, Installed
<1>4. \A b \in Buckets : Waiting(b) = {}
  BY DEF Init, Waiting
<1>5. \A b \in Buckets : Refilled(b) = Capacity(b) /\ Capacity(b) \in Nat
  BY <1>1, <1>2, BucketNumbers DEF Init, Refilled, Capacity, Least
<1>6. watched \in Buckets /\ watched = 0 /\ now = 0 /\ since = 0 /\ passed = 0 /\ before = 0
  BY <1>2, InBuckets DEF Init
<1>7. Budget
  <2>1. Cardinality(Waiting(watched)) = 0
    BY <1>4, <1>6, FS_EmptySet
  <2>2. Cost(watched) \in Nat
    BY <1>2, <1>6, BucketNumbers
  <2>3. Cost(watched) * (Cardinality(Waiting(watched)) + passed) = 0
        /\ Cost(watched) * before = 0
    BY <1>6, <2>1, <2>2
  <2>4. QED BY <1>5, <1>6, <2>3 DEF Budget
<1>8. Debt
  <2> SUFFICES ASSUME NEW b \in 0..newest, NEW T \in Nat, T >= now
               PROVE  Refilled(b) + (T - now) + Cost(b) * Cardinality(Owing(b, T)) >= 0
    BY DEF Debt
  <2>1. b \in Buckets /\ now = 0
    BY <1>2, InBuckets DEF Init
  <2>2. Cost(b) * Cardinality(Owing(b, T)) \in Nat
    BY <1>2, <2>1, BucketNumbers, CallSets, OneTimesMore
  <2>3. QED BY <1>5, <2>1, <2>2
<1>9. QED BY <1>2, <1>3, <1>7, <1>8 DEF IInv

-----------------------------------------------------------------------------
(* Every step keeps it.                                                    *)

(* A step that stores x in bucket b, and changes the number of calls that  *)
(* wait on it and that it has let through by what it takes or gives back,  *)
(* keeps the sums.                                                         *)
LEMMA BudgetKept ==
    ASSUME IInv, NEW b \in Buckets, NEW x \in Int, NEW n \in Int, NEW p \in Int,
           UNCHANGED <<now, buckets, span>>,
           \A d \in Buckets :
             /\ Capacity(d)' = Capacity(d) /\ Cost(d)' = Cost(d)
             /\ Refilled(d)' = IF d = b THEN x ELSE Refilled(d),
           \A d \in Buckets : Cardinality(Waiting(d)') =
             IF d = b THEN Cardinality(Waiting(d)) + n ELSE Cardinality(Waiting(d)),
           passed' = IF b = watched THEN passed + p ELSE passed,
           n + p \in {-1, 0, 1},
           x + Cost(b) * (n + p) <= Refilled(b)
    PROVE  Budget'
<1> DEFINE C == Cost(watched)
           W == Cardinality(Waiting(watched))
<1>1. watched \in Buckets /\ watched' = watched /\ since' = since /\ before' = before
      /\ now' = now
  BY InBuckets DEF IInv, span
<1>2. /\ C \in Nat /\ W \in Nat /\ passed \in Nat /\ before \in Nat
      /\ now \in Int /\ since \in Int /\ Refilled(watched) \in Int
      /\ Capacity(watched) \in Int
  <2>1. passed \in Nat /\ before \in Nat /\ now \in Int /\ since \in Int
    BY LimiterAssumption DEF IInv, TypeOK, LimiterAssumption
  <2>2. C \in Nat /\ Refilled(watched) \in Int /\ Capacity(watched) \in Int
    BY <1>1, BucketNumbers DEF IInv
  <2>3. W \in Nat
    BY CallSets
  <2>4. QED BY <2>1, <2>2, <2>3
<1>3. Refilled(watched) + C * (W + passed) <= Capacity(watched) + (now - since) + C * before
  BY DEF IInv, Budget
<1>4. C * (W + passed) \in Nat /\ C * before \in Nat
  BY <1>2, OneTimesMore
<1>5. Budget' = (Refilled(watched)' + C * (Cardinality(Waiting(watched)') + passed')
                   <= Capacity(watched) + (now - since) + C * before)
  BY <1>1 DEF Budget
<1>6. CASE b # watched
  <2>1. Refilled(watched)' = Refilled(watched) /\ passed' = passed
        /\ Cardinality(Waiting(watched)') = W
    BY <1>1, <1>6
  <2>2. QED BY <1>3, <1>5, <2>1
<1>7. CASE b = watched
  <2>1. Refilled(watched)' = x /\ passed' = passed + p
        /\ Cardinality(Waiting(watched)') = W + n
    BY <1>1, <1>7
  <2>2. x + C * (n + p) <= Refilled(watched)
    BY <1>7
  <2>3. C * ((W + n) + (passed + p)) = C * (W + passed) + C * (n + p)
    <3>1. (W + n) + (passed + p) = (W + passed) + (n + p)
      BY <1>2
    <3>2. QED BY <1>2, <3>1
  <2>4. C * (n + p) \in Int
    BY <1>2
  <2>5. x + C * ((W + n) + (passed + p)) <= Capacity(watched) + (now - since) + C * before
    BY <1>2, <1>3, <1>4, <2>2, <2>3, <2>4
  <2>6. QED BY <1>5, <2>1, <2>5
<1>8. QED BY <1>6, <1>7

LEMMA DebtKept ==
    ASSUME IInv, NEW b \in Buckets, NEW x \in Int,
           UNCHANGED <<now, buckets>>,
           \A d \in Buckets :
             /\ Capacity(d)' = Capacity(d) /\ Cost(d)' = Cost(d)
             /\ Refilled(d)' = IF d = b THEN x ELSE Refilled(d),
           \A d \in Buckets \ {b}, T \in Nat : Owing(d, T)' = Owing(d, T),
           b \in 0..newest =>
             \A T \in Nat : T >= now =>
               x + (T - now) + Cost(b) * Cardinality(Owing(b, T)') >= 0
    PROVE  Debt'
<1>1. newest' = newest /\ now' = now
  BY DEF buckets
<1>2. SUFFICES ASSUME NEW d \in 0..newest, NEW T \in Nat, T >= now
               PROVE  Refilled(d)' + (T - now) + Cost(d) * Cardinality(Owing(d, T)') >= 0
  <2>1. \A d \in 0..newest : Cost(d)' = Cost(d)
    BY InBuckets DEF IInv
  <2>2. QED BY <1>1, <1>2, <2>1 DEF Debt
<1>3. d \in Buckets
  BY InBuckets DEF IInv
<1>4. CASE d = b
  BY <1>2, <1>3, <1>4
<1>5. CASE d # b
  <2>1. Refilled(d)' = Refilled(d) /\ Owing(d, T)' = Owing(d, T)
    BY <1>3, <1>5
  <2>2. Refilled(d) + (T - now) + Cost(d) * Cardinality(Owing(d, T)) >= 0
    BY <1>2 DEF IInv, Debt
  <2>3. QED BY <2>1, <2>2
<1>6. QED BY <1>4, <1>5
-----------------------------------------------------------------------------
LEMMA RefuseKeeps ==
    ASSUME IInv, NEW c \in Calls, NEW left \in Deadlines, Refuse(c, left)
    PROVE  IInv'
<1>0. PICK b, x : b = current /\ x = Refilled(current)
  OBVIOUS
<1>1. b \in Buckets /\ b \in 0..newest /\ TypeOK
  BY <1>0, InBuckets DEF IInv, TypeOK
<1>2. /\ Refilled(b) \in Int /\ Cost(b) \in Nat /\ Refilled(b) <= Capacity(b)
      /\ Capacity(b) \in Int
  BY <1>1, BucketNumbers
<1>3. PutBack(b, Taken(b)) = x /\ x = Refilled(b)
  BY <1>0, <1>2 DEF PutBack, Taken, Least
<1>4. Store(b, x) /\ UNCHANGED <<now, buckets, span, passed, calls>>
  BY <1>0, <1>3 DEF Refuse
<1>5. /\ tokens' \in [Buckets -> Int] /\ last' \in [Buckets -> 0..MaxTime]
      /\ \A d \in Buckets :
           /\ tokens'[d] <= Capacity(d)'
           /\ Capacity(d)' = Capacity(d) /\ Cost(d)' = Cost(d)
           /\ Refilled(d)' = IF d = b THEN x ELSE Refilled(d)
  BY <1>1, <1>2, <1>3, <1>4, AfterStore
<1>6. TypeOK' /\ Installed'
  BY <1>1, <1>4, <1>5 DEF IInv, TypeOK, Installed, buckets, span, calls
<1>7. \A d \in Buckets, T \in Nat : Waiting(d)' = Waiting(d) /\ Owing(d, T)' = Owing(d, T)
  BY <1>4 DEF Waiting, Owing, calls
<1>8. Budget'
  <2>1. \A d \in Buckets : Cardinality(Waiting(d)') =
          IF d = b THEN Cardinality(Waiting(d)) + 0 ELSE Cardinality(Waiting(d))
    BY <1>7, CallSets
  <2>2. passed' = IF b = watched THEN passed + 0 ELSE passed
    BY <1>4 DEF IInv, TypeOK
  <2>3. x + Cost(b) * (0 + 0) <= Refilled(b) /\ 0 + 0 \in {-1, 0, 1}
    BY <1>2, <1>3
  <2>4. QED BY <1>1, <1>2, <1>3, <1>4, <1>5, <2>1, <2>2, <2>3, BudgetKept
<1>9. Debt'
  <2>1. \A T \in Nat : T >= now =>
          x + (T - now) + Cost(b) * Cardinality(Owing(b, T)') >= 0
    BY <1>1, <1>3, <1>7 DEF IInv, Debt
  <2>2. QED BY <1>1, <1>2, <1>3, <1>4, <1>5, <1>7, <2>1, DebtKept
<1>10. QED BY <1>6, <1>8, <1>9 DEF IInv

LEMMA PassAtOnceKeeps ==
    ASSUME IInv, NEW c \in Calls, NEW left \in Deadlines, PassAtOnce(c, left)
    PROVE  IInv'
<1>0. PICK b, x : b = current /\ x = Taken(current)
  OBVIOUS
<1>1. b \in Buckets /\ b \in 0..newest /\ TypeOK
  BY <1>0, InBuckets DEF IInv, TypeOK
<1>2. /\ Refilled(b) \in Int /\ Cost(b) \in Nat /\ Refilled(b) <= Capacity(b)
      /\ Capacity(b) \in Int
  BY <1>1, BucketNumbers
<1>3. x \in Int /\ x = Refilled(b) - Cost(b) /\ x <= Capacity(b) /\ x >= 0
  BY <1>0, <1>2 DEF PassAtOnce, Taken, Wait
<1>4. Store(b, x) /\ UNCHANGED <<now, buckets, span, calls>> /\ Count(b)
  BY <1>0 DEF PassAtOnce
<1>5. /\ tokens' \in [Buckets -> Int] /\ last' \in [Buckets -> 0..MaxTime]
      /\ \A d \in Buckets :
           /\ tokens'[d] <= Capacity(d)'
           /\ Capacity(d)' = Capacity(d) /\ Cost(d)' = Cost(d)
           /\ Refilled(d)' = IF d = b THEN x ELSE Refilled(d)
  BY <1>1, <1>2, <1>3, <1>4, AfterStore
<1>6. TypeOK' /\ Installed'
  BY <1>1, <1>4, <1>5 DEF IInv, TypeOK, Installed, buckets, span, calls, Count
<1>7. \A d \in Buckets, T \in Nat : Waiting(d)' = Waiting(d) /\ Owing(d, T)' = Owing(d, T)
  BY <1>4 DEF Waiting, Owing, calls
<1>8. Budget'
  <2>1. \A d \in Buckets : Cardinality(Waiting(d)') =
          IF d = b THEN Cardinality(Waiting(d)) + 0 ELSE Cardinality(Waiting(d))
    BY <1>7, CallSets
  <2>2. passed' = IF b = watched THEN passed + 1 ELSE passed
    BY <1>4 DEF Count
  <2>3. x + Cost(b) * (0 + 1) <= Refilled(b) /\ 0 + 1 \in {-1, 0, 1}
    BY <1>2, <1>3
  <2>4. QED BY <1>1, <1>3, <1>4, <1>5, <2>1, <2>2, <2>3, BudgetKept
<1>9. Debt'
  <2>1. \A T \in Nat : T >= now =>
          x + (T - now) + Cost(b) * Cardinality(Owing(b, T)') >= 0
    <3>1. ASSUME NEW T \in Nat, T >= now
          PROVE  x + (T - now) + Cost(b) * Cardinality(Owing(b, T)') >= 0
      <4>1. Cost(b) * Cardinality(Owing(b, T)') \in Nat
        BY <1>1, <1>2, <1>7, CallSets, OneTimesMore
      <4>2. now \in Int
        BY <1>1, LimiterAssumption DEF TypeOK, LimiterAssumption
      <4>3. QED BY <1>3, <3>1, <4>1, <4>2
    <3>2. QED BY <3>1
  <2>2. QED BY <1>1, <1>3, <1>4, <1>5, <1>7, <2>1, DebtKept
<1>10. QED BY <1>6, <1>8, <1>9 DEF IInv

LEMMA ReserveKeeps ==
    ASSUME IInv, NEW c \in Calls, NEW left \in Deadlines, Reserve(c, left)
    PROVE  IInv'
<1>0. PICK b, x, w : b = current /\ x = Taken(current) /\ w = now + Wait(current)
  OBVIOUS
<1>1. b \in Buckets /\ b \in 0..newest /\ TypeOK /\ now \in Nat
  BY <1>0, InBuckets, LimiterAssumption DEF IInv, TypeOK, LimiterAssumption
<1>2. /\ Refilled(b) \in Int /\ Cost(b) \in Nat /\ Refilled(b) <= Capacity(b)
      /\ Capacity(b) \in Int
  BY <1>1, BucketNumbers
<1>3. /\ x \in Int /\ x = Refilled(b) - Cost(b) /\ x <= Capacity(b)
      /\ x < 0 /\ w = now - x /\ w \in Nat
  BY <1>0, <1>1, <1>2 DEF Reserve, Taken, Wait
<1>4. /\ Store(b, x) /\ Joins(c, b, w) /\ passed' = passed
      /\ UNCHANGED <<now, buckets, span>>
  BY <1>0 DEF Reserve, Joins
<1>5. /\ tokens' \in [Buckets -> Int] /\ last' \in [Buckets -> 0..MaxTime]
      /\ \A d \in Buckets :
           /\ tokens'[d] <= Capacity(d)'
           /\ Capacity(d)' = Capacity(d) /\ Cost(d)' = Cost(d)
           /\ Refilled(d)' = IF d = b THEN x ELSE Refilled(d)
  BY <1>1, <1>2, <1>3, <1>4, AfterStore
<1>6. /\ pc' \in [Calls -> {"idle", "waiting"}] /\ from' \in [Calls -> Buckets]
      /\ wake' \in [Calls -> Nat]
      /\ Cardinality(Waiting(b)') = Cardinality(Waiting(b)) + 1
      /\ \A d \in Buckets \ {b} : Waiting(d)' = Waiting(d)
      /\ \A d \in Buckets \ {b}, T \in Nat : Owing(d, T)' = Owing(d, T)
      /\ \A T \in Nat : Cardinality(Owing(b, T)') =
           Cardinality(Owing(b, T)) + (IF w > T THEN 1 ELSE 0)
  BY <1>1, <1>3, <1>4, AfterJoin
<1>7. TypeOK'
  BY <1>1, <1>4, <1>5, <1>6 DEF TypeOK, buckets, span
<1>8. Installed'
  BY <1>1, <1>4 DEF IInv, Installed, Joins, TypeOK, buckets
<1>9. Budget'
  <2>1. \A d \in Buckets : Cardinality(Waiting(d)') =
          IF d = b THEN Cardinality(Waiting(d)) + 1 ELSE Cardinality(Waiting(d))
    BY <1>6
  <2>2. passed' = IF b = watched THEN passed + 0 ELSE passed
    BY <1>1, <1>4 DEF TypeOK
  <2>3. x + Cost(b) * (1 + 0) <= Refilled(b) /\ 1 + 0 \in {-1, 0, 1}
    BY <1>2, <1>3
  <2>4. 1 \in Int /\ 0 \in Int /\ UNCHANGED <<now, buckets, span>>
    BY <1>4
  <2>5. QED BY <1>1, <1>3, <1>5, <2>1, <2>2, <2>3, <2>4, BudgetKept
<1>10. Debt'
  <2>1. ASSUME NEW T \in Nat, T >= now
        PROVE  x + (T - now) + Cost(b) * Cardinality(Owing(b, T)') >= 0
    <3> DEFINE k == Cardinality(Owing(b, T))
    <3>1. k \in Nat /\ Cost(b) * k \in Nat /\ Cost(b) * (k + 1) = Cost(b) * k + Cost(b)
      BY <1>2, CallSets, OneTimesMore
    <3>2. Refilled(b) + (T - now) + Cost(b) * k >= 0
      BY <1>1, <2>1 DEF IInv, Debt
    <3>3. CASE w > T
      <4>1. Cardinality(Owing(b, T)') = k + 1
        BY <1>6, <3>3
      <4>2. QED BY <1>1, <1>2, <1>3, <3>1, <3>2, <4>1
    <3>4. CASE ~(w > T)
      <4>1. Cardinality(Owing(b, T)') = k
        BY <1>6, <3>1, <3>4
      <4>2. QED BY <1>1, <1>3, <3>1, <3>4, <4>1
    <3>5. QED BY <3>3, <3>4
  <2>2. QED BY <1>1, <1>3, <1>4, <1>5, <1>6, <2>1, DebtKept
<1>11. QED BY <1>7, <1>8, <1>9, <1>10 DEF IInv
LEMMA WakeKeeps ==
    ASSUME IInv, NEW c \in Calls, Wake(c)
    PROVE  IInv'
<1>0. PICK b, x : b = from[c] /\ x = Refilled(from[c])
  OBVIOUS
<1>1. /\ b \in Buckets /\ b \in 0..newest /\ TypeOK /\ pc[c] = "waiting" /\ now \in Nat
      /\ wake[c] \in Nat /\ wake[c] <= now
  BY <1>0, InBuckets, LimiterAssumption DEF IInv, Installed, Wake, TypeOK, LimiterAssumption
<1>2. /\ x = Refilled(b) /\ x \in Int /\ Cost(b) \in Nat
  BY <1>0, <1>1, BucketNumbers
<1>3. /\ Return(c) /\ Count(b) /\ UNCHANGED <<now, buckets, stored, span>>
  BY <1>0 DEF Wake
<1>4. \A d \in Buckets :
        /\ Capacity(d)' = Capacity(d) /\ Cost(d)' = Cost(d)
        /\ Refilled(d)' = IF d = b THEN x ELSE Refilled(d)
  BY <1>2, <1>3 DEF buckets, stored, Refilled, Capacity, Cost
<1>5. /\ pc' \in [Calls -> {"idle", "waiting"}] /\ from' \in [Calls -> Buckets]
      /\ wake' \in [Calls -> Nat]
      /\ Cardinality(Waiting(b)') = Cardinality(Waiting(b)) - 1
      /\ \A d \in Buckets \ {b} : Waiting(d)' = Waiting(d)
      /\ \A d \in Buckets \ {b}, T \in Nat : Owing(d, T)' = Owing(d, T)
      /\ \A T \in Nat : Cardinality(Owing(b, T)') =
           Cardinality(Owing(b, T)) - (IF wake[c] > T THEN 1 ELSE 0)
  BY <1>0, <1>1, <1>3, AfterReturn
<1>6. TypeOK'
  BY <1>1, <1>3, <1>5 DEF TypeOK, buckets, stored, span, Count, Capacity
<1>7. Installed'
  BY <1>1, <1>3 DEF IInv, Installed, Return, TypeOK, buckets
<1>8. Budget'
  <2>1. \A d \in Buckets : Cardinality(Waiting(d)') =
          IF d = b THEN Cardinality(Waiting(d)) + (-1) ELSE Cardinality(Waiting(d))
    BY <1>5, CallSets
  <2>2. passed' = IF b = watched THEN passed + 1 ELSE passed
    BY <1>3 DEF Count
  <2>3. x + Cost(b) * ((-1) + 1) <= Refilled(b) /\ (-1) + 1 \in {-1, 0, 1}
    BY <1>2
  <2>4. -1 \in Int /\ 1 \in Int /\ UNCHANGED <<now, buckets, span>>
    BY <1>3
  <2>5. QED BY <1>1, <1>2, <1>4, <2>1, <2>2, <2>3, <2>4, BudgetKept
<1>9. Debt'
  <2>1. ASSUME NEW T \in Nat, T >= now
        PROVE  x + (T - now) + Cost(b) * Cardinality(Owing(b, T)') >= 0
    <3>1. ~(wake[c] > T)
      BY <1>1, <2>1
    <3>2. Cardinality(Owing(b, T)') = Cardinality(Owing(b, T))
      BY <1>5, <3>1, CallSets
    <3>3. QED BY <1>1, <1>2, <2>1, <3>2 DEF IInv, Debt
  <2>2. QED BY <1>1, <1>2, <1>3, <1>4, <1>5, <2>1, DebtKept
<1>10. QED BY <1>6, <1>7, <1>8, <1>9 DEF IInv

LEMMA CancelKeeps ==
    ASSUME IInv, NEW c \in Calls, Cancel(c)
    PROVE  IInv'
<1>0. PICK b, x : b = from[c] /\ x = PutBack(from[c], Refilled(from[c]))
  OBVIOUS
<1>1. /\ b \in Buckets /\ b \in 0..newest /\ TypeOK /\ pc[c] = "waiting" /\ now \in Nat
  BY <1>0, InBuckets, LimiterAssumption DEF IInv, Installed, Cancel, TypeOK, LimiterAssumption
<1>2. /\ Refilled(b) \in Int /\ Cost(b) \in Nat /\ Refilled(b) <= Capacity(b)
      /\ Capacity(b) \in Nat
  BY <1>1, BucketNumbers
<1>3. /\ x \in Int /\ x <= Capacity(b) /\ x <= Refilled(b) + Cost(b)
      /\ x = Refilled(b) + Cost(b) \/ x = Capacity(b)
  BY <1>0, <1>2 DEF PutBack, Least
<1>4. /\ Return(c) /\ Store(b, x) /\ UNCHANGED <<now, buckets, span, passed>>
  BY <1>0 DEF Cancel
<1>5. /\ tokens' \in [Buckets -> Int] /\ last' \in [Buckets -> 0..MaxTime]
      /\ \A d \in Buckets :
           /\ tokens'[d] <= Capacity(d)'
           /\ Capacity(d)' = Capacity(d) /\ Cost(d)' = Cost(d)
           /\ Refilled(d)' = IF d = b THEN x ELSE Refilled(d)
  BY <1>1, <1>2, <1>3, <1>4, AfterStore
<1>6. /\ pc' \in [Calls -> {"idle", "waiting"}] /\ from' \in [Calls -> Buckets]
      /\ wake' \in [Calls -> Nat]
      /\ Cardinality(Waiting(b)') = Cardinality(Waiting(b)) - 1
      /\ \A d \in Buckets \ {b} : Waiting(d)' = Waiting(d)
      /\ \A d \in Buckets \ {b}, T \in Nat : Owing(d, T)' = Owing(d, T)
      /\ \A T \in Nat : Cardinality(Owing(b, T)') =
           Cardinality(Owing(b, T)) - (IF wake[c] > T THEN 1 ELSE 0)
  BY <1>0, <1>1, <1>4, AfterReturn
<1>7. TypeOK'
  BY <1>1, <1>4, <1>5, <1>6 DEF TypeOK, buckets, span
<1>8. Installed'
  BY <1>1, <1>4 DEF IInv, Installed, Return, TypeOK, buckets
<1>9. Budget'
  <2>1. \A d \in Buckets : Cardinality(Waiting(d)') =
          IF d = b THEN Cardinality(Waiting(d)) + (-1) ELSE Cardinality(Waiting(d))
    BY <1>6, CallSets
  <2>2. passed' = IF b = watched THEN passed + 0 ELSE passed
    BY <1>1, <1>4 DEF TypeOK
  <2>3. x + Cost(b) * ((-1) + 0) <= Refilled(b) /\ (-1) + 0 \in {-1, 0, 1}
    BY <1>2, <1>3
  <2>4. -1 \in Int /\ 0 \in Int /\ UNCHANGED <<now, buckets, span>>
    BY <1>4
  <2>5. QED BY <1>1, <1>3, <1>5, <2>1, <2>2, <2>3, <2>4, BudgetKept
<1>10. Debt'
  <2>1. ASSUME NEW T \in Nat, T >= now
        PROVE  x + (T - now) + Cost(b) * Cardinality(Owing(b, T)') >= 0
    <3>1. PICK k, j : k = Cardinality(Owing(b, T)) /\ j = Cardinality(Owing(b, T)')
      OBVIOUS
    <3>2. k \in Nat /\ j \in Nat /\ (j = k \/ k = j + 1)
      <4>1. k \in Nat
        BY <3>1, CallSets
      <4>2. j \in Nat
        <5>1. Owing(b, T)' \subseteq Calls
          BY DEF Owing, Waiting
        <5>2. QED BY <3>1, <5>1, LimiterAssumption, FS_Subset, FS_CardinalityType
                  DEF LimiterAssumption
      <4>3. j = k - (IF wake[c] > T THEN 1 ELSE 0)
        BY <1>6, <3>1
      <4>4. QED BY <4>1, <4>2, <4>3
    <3>3. /\ Cost(b) * j \in Nat /\ Cost(b) * k \in Nat
          /\ Cost(b) * (j + 1) = Cost(b) * j + Cost(b)
      BY <1>2, <3>2, OneTimesMore
    <3>4. Refilled(b) + (T - now) + Cost(b) * k >= 0
      BY <1>1, <2>1, <3>1 DEF IInv, Debt
    <3>5. Cost(b) * k <= Cost(b) * j + Cost(b)
      BY <1>2, <3>2, <3>3
    <3>6. x + (T - now) + Cost(b) * j >= 0
      BY <1>1, <1>2, <1>3, <2>1, <3>3, <3>4, <3>5
    <3>7. QED BY <3>1, <3>6
  <2>2. QED BY <1>1, <1>3, <1>4, <1>5, <1>6, <2>1, DebtKept
<1>11. QED BY <1>7, <1>8, <1>9, <1>10 DEF IInv
LEMMA InstallKeeps ==
    ASSUME IInv, NEW g \in TariffGroups, Install(g)
    PROVE  IInv'
<1>0. PICK n, l : n = newest + 1 /\ l = LimitOf(g)
  OBVIOUS
<1>1. TypeOK /\ now \in Nat /\ newest \in Nat /\ now' = now
  BY LimiterAssumption DEF IInv, TypeOK, Buckets, LimiterAssumption, Install
<1>2. n \in Buckets /\ n \notin 0..newest /\ newest' = n /\ current' = n
  BY <1>0, <1>1, LimiterAssumption DEF Install, TypeOK, Buckets, LimiterAssumption
<1>3. /\ l \in Limits /\ l.burst \in Nat \ {0} /\ l.cost \in Nat \ {0}
  BY <1>0, LimiterAssumption DEF Install, Limits, LimiterAssumption
<1>4. /\ limit' = [limit EXCEPT ![n] = l]
      /\ tokens' = [tokens EXCEPT ![n] = l.burst * l.cost]
      /\ last' = [last EXCEPT ![n] = now]
      /\ UNCHANGED <<now, span, passed, calls>>
  BY <1>0 DEF Install
<1>5. l.burst * l.cost \in Nat \ {0}
  BY <1>3, Positive
<1>6. \A d \in Buckets :
        /\ limit'[d] = IF d = n THEN l ELSE limit[d]
        /\ tokens'[d] = IF d = n THEN l.burst * l.cost ELSE tokens[d]
        /\ last'[d] = IF d = n THEN now ELSE last[d]
  BY <1>1, <1>4 DEF TypeOK
<1>7. TypeOK'
  <2>1. /\ limit' \in [Buckets -> Limits] /\ tokens' \in [Buckets -> Int]
        /\ last' \in [Buckets -> 0..MaxTime]
    <3>1. l.burst * l.cost \in Int /\ now \in 0..MaxTime
      BY <1>1, <1>5 DEF TypeOK
    <3>2. QED BY <1>1, <1>3, <1>4, <3>1 DEF TypeOK
  <2>2. \A d \in Buckets : tokens'[d] <= Capacity(d)'
    BY <1>1, <1>5, <1>6 DEF TypeOK, Capacity
  <2>3. /\ newest' \in Buckets /\ current' \in 0..newest' /\ watched' \in 0..newest'
    BY <1>1, <1>2, <1>4, LimiterAssumption DEF TypeOK, Buckets, span, LimiterAssumption
  <2>4. QED BY <1>1, <1>4, <2>1, <2>2, <2>3 DEF TypeOK, span, calls
<1>8. Installed'
  BY <1>0, <1>1, <1>2, <1>4 DEF IInv, Installed, calls
<1>9. \A d \in 0..newest :
        Refilled(d)' = Refilled(d) /\ Capacity(d)' = Capacity(d) /\ Cost(d)' = Cost(d)
  BY <1>1, <1>2, <1>4, <1>6, InBuckets DEF Refilled, Capacity, Cost
<1>10. \A d, T : Waiting(d)' = Waiting(d) /\ Owing(d, T)' = Owing(d, T)
  BY <1>4 DEF Waiting, Owing, calls
<1>11. Budget'
  <2>1. watched' = watched /\ watched \in 0..newest /\ passed' = passed
        /\ since' = since /\ before' = before /\ now' = now
    BY <1>1, <1>4 DEF TypeOK, span
  <2>2. QED BY <1>9, <1>10, <2>1 DEF IInv, Budget
<1>12. Debt'
  <2>1. SUFFICES ASSUME NEW d \in (0..newest)', NEW T \in Nat, T >= now
                 PROVE  Refilled(d)' + (T - now) + Cost(d)' * Cardinality(Owing(d, T)) >= 0
    BY <1>1, <1>10 DEF Debt
  <2>2. CASE d \in 0..newest
    BY <1>9, <2>1, <2>2 DEF IInv, Debt
  <2>3. CASE d = n
    <3>1. Capacity(n)' = l.burst * l.cost /\ Cost(n)' = l.cost
      BY <1>2, <1>6 DEF Capacity, Cost
    <3>2. Refilled(n)' = l.burst * l.cost
      BY <1>1, <1>2, <1>5, <1>6, <3>1 DEF Refilled, Least
    <3>3. l.cost * Cardinality(Owing(n, T)) \in Nat
      BY <1>3, CallSets, OneTimesMore
    <3>4. QED BY <1>1, <1>5, <2>1, <2>3, <3>1, <3>2, <3>3
  <2>4. QED BY <1>0, <1>1, <1>2, <2>2, <2>3
<1>13. QED BY <1>7, <1>8, <1>11, <1>12 DEF IInv

LEMMA TickKeeps ==
    ASSUME IInv, Tick
    PROVE  IInv'
<1>1. /\ TypeOK /\ now \in Nat /\ now' = now + 1 /\ newest' = newest
      /\ UNCHANGED <<buckets, stored, span, passed, calls>>
  BY LimiterAssumption DEF IInv, TypeOK, Tick, buckets, LimiterAssumption
<1>2. TypeOK'
  BY <1>1, LimiterAssumption
     DEF Tick, TypeOK, buckets, stored, span, calls, Capacity, LimiterAssumption
<1>3. Installed'
  BY <1>1 DEF IInv, Installed, buckets, calls
<1>4. ASSUME NEW d \in Buckets
      PROVE  /\ Capacity(d)' = Capacity(d) /\ Cost(d)' = Cost(d)
             /\ Refilled(d)' = Refilled(d) + 1 \/ Refilled(d)' = Capacity(d)
             /\ Refilled(d)' <= Refilled(d) + 1 /\ Refilled(d)' \in Int
  <2>1. Capacity(d)' = Capacity(d) /\ Cost(d)' = Cost(d)
    BY <1>1 DEF Capacity, Cost, buckets
  <2>2. Refilled(d)' = Least(Capacity(d), tokens[d] + ((now + 1) - last[d]))
    BY <1>1, <2>1 DEF Refilled, stored
  <2>3. Refilled(d) = Least(Capacity(d), tokens[d] + (now - last[d]))
    BY DEF Refilled
  <2>4. /\ tokens[d] \in Int /\ last[d] \in Int /\ Capacity(d) \in Nat
    BY <1>1, BucketNumbers, LimiterAssumption DEF TypeOK, LimiterAssumption
  <2>5. QED BY <1>1, <2>1, <2>2, <2>3, <2>4 DEF Least
<1>5. \A d, T : Waiting(d)' = Waiting(d) /\ Owing(d, T)' = Owing(d, T)
  BY <1>1 DEF Waiting, Owing, calls
<1>6. Budget'
  <2>1. watched' = watched /\ watched \in Buckets /\ passed' = passed
        /\ since' = since /\ before' = before
    BY <1>1, InBuckets DEF span
  <2>2. /\ Cost(watched) \in Nat /\ Refilled(watched) \in Int /\ Capacity(watched) \in Int
        /\ Cardinality(Waiting(watched)) \in Nat
    BY <1>1, <2>1, BucketNumbers, CallSets
  <2>3. since \in Int /\ passed \in Nat /\ before \in Nat
    BY <1>1, LimiterAssumption DEF TypeOK, LimiterAssumption
  <2>4. /\ Cost(watched) * (Cardinality(Waiting(watched)) + passed) \in Nat
        /\ Cost(watched) * before \in Nat
    BY <2>2, <2>3, OneTimesMore
  <2>5. Refilled(watched) + Cost(watched) * (Cardinality(Waiting(watched)) + passed) <=
          Capacity(watched) + (now - since) + Cost(watched) * before
    BY DEF IInv, Budget
  <2>6. /\ Capacity(watched)' = Capacity(watched) /\ Cost(watched)' = Cost(watched)
        /\ Refilled(watched)' <= Refilled(watched) + 1 /\ Refilled(watched)' \in Int
        /\ Waiting(watched)' = Waiting(watched)
    BY <1>1, <1>4, <1>5, <2>1
  <2>7. Refilled(watched)' + Cost(watched) * (Cardinality(Waiting(watched)) + passed) <=
          Capacity(watched) + ((now + 1) - since) + Cost(watched) * before
    BY <1>1, <2>2, <2>3, <2>4, <2>5, <2>6
  <2>8. QED BY <1>1, <2>1, <2>6, <2>7 DEF Budget
<1>7. Debt'
  <2>1. SUFFICES ASSUME NEW d \in 0..newest, NEW T \in Nat, T >= now + 1
                 PROVE  Refilled(d)' + (T - (now + 1)) + Cost(d)' * Cardinality(Owing(d, T)) >= 0
    BY <1>1, <1>5 DEF Debt
  <2>2. /\ d \in Buckets /\ Refilled(d) + (T - now) + Cost(d) * Cardinality(Owing(d, T)) >= 0
    BY <1>1, <2>1, InBuckets DEF IInv, Debt
  <2>3. /\ Refilled(d) \in Int /\ Capacity(d) \in Nat /\ Cost(d) \in Nat
        /\ Cost(d) * Cardinality(Owing(d, T)) \in Nat
    BY <1>1, <2>2, BucketNumbers, CallSets, OneTimesMore
  <2>4. QED BY <1>1, <1>4, <2>1, <2>2, <2>3
<1>8. QED BY <1>2, <1>3, <1>6, <1>7 DEF IInv

LEMMA FallBackKeeps ==
    ASSUME IInv, NEW g \in TariffGroups, FallBack(g)
    PROVE  IInv'
<1>1. current' = 0 /\ UNCHANGED <<now, newest, limit, stored, span, passed, calls>>
  BY DEF FallBack
<1>2. TypeOK'
  BY <1>1, LimiterAssumption
     DEF IInv, TypeOK, stored, span, calls, Capacity, Buckets, LimiterAssumption
<1>3. \A d, T :
        /\ Waiting(d)' = Waiting(d) /\ Owing(d, T)' = Owing(d, T)
        /\ Refilled(d)' = Refilled(d) /\ Capacity(d)' = Capacity(d) /\ Cost(d)' = Cost(d)
  BY <1>1 DEF Waiting, Owing, Refilled, Capacity, Cost, calls, stored
<1>4. Installed' /\ Budget' /\ Debt'
  BY <1>1, <1>3 DEF IInv, Installed, Budget, Debt, span, calls
<1>5. QED BY <1>2, <1>4 DEF IInv

LEMMA CountFromNowKeeps ==
    ASSUME IInv, NEW b \in Buckets, CountFromNow(b)
    PROVE  IInv'
<1>1. /\ TypeOK /\ UNCHANGED <<now, buckets, stored, calls>>
      /\ b \in 0..newest /\ watched' = b /\ since' = now /\ passed' = 0
      /\ before' = Cardinality(Waiting(b)) /\ now \in Int
  BY LimiterAssumption DEF IInv, TypeOK, CountFromNow, Buckets, LimiterAssumption
<1>2. before' \in Nat
  BY <1>1, CallSets
<1>3. TypeOK'
  BY <1>1, <1>2 DEF TypeOK, buckets, stored, calls, Capacity
<1>4. \A d, T :
        /\ Waiting(d)' = Waiting(d) /\ Owing(d, T)' = Owing(d, T)
        /\ Refilled(d)' = Refilled(d) /\ Capacity(d)' = Capacity(d) /\ Cost(d)' = Cost(d)
  BY <1>1 DEF Waiting, Owing, Refilled, Capacity, Cost, calls, stored, buckets
<1>5. Installed' /\ Debt'
  BY <1>1, <1>4 DEF IInv, Installed, Debt, buckets, calls
<1>6. Budget'
  <2>1. /\ Cardinality(Waiting(b)) \in Nat /\ Cost(b) \in Nat /\ Refilled(b) \in Int
        /\ Capacity(b) \in Int /\ Refilled(b) <= Capacity(b)
    BY <1>1, BucketNumbers, CallSets
  <2>2. Cost(b) * Cardinality(Waiting(b)) \in Nat
    BY <2>1, OneTimesMore
  <2>3. Cardinality(Waiting(b)) + 0 = Cardinality(Waiting(b)) /\ now - now = 0
    BY <1>1, <2>1
  <2>4. Refilled(b) + Cost(b) * (Cardinality(Waiting(b)) + 0) <=
          Capacity(b) + (now - now) + Cost(b) * Cardinality(Waiting(b))
    BY <2>1, <2>2, <2>3
  <2>5. /\ Refilled(watched)' = Refilled(b) /\ Cost(watched)' = Cost(b)
        /\ Capacity(watched)' = Capacity(b) /\ Waiting(watched)' = Waiting(b)
    BY <1>1 DEF Waiting, Refilled, Capacity, Cost, calls, stored, buckets
  <2>6. now' = now
    BY <1>1
  <2>7. QED BY <1>1, <2>4, <2>5, <2>6 DEF Budget
<1>7. QED BY <1>3, <1>5, <1>6 DEF IInv

LEMMA StutterKeeps ==
    ASSUME IInv, UNCHANGED vars
    PROVE  IInv'
<1>1. UNCHANGED <<now, newest, current, limit, tokens, last, watched, since, before, passed,
                  pc, from, wake>>
  BY DEF vars, buckets, stored, span, calls
<1>2. \A d, T :
        /\ Waiting(d)' = Waiting(d) /\ Owing(d, T)' = Owing(d, T)
        /\ Refilled(d)' = Refilled(d) /\ Capacity(d)' = Capacity(d) /\ Cost(d)' = Cost(d)
  BY <1>1 DEF Waiting, Owing, Refilled, Capacity, Cost
<1>3. TypeOK'
  BY <1>1 DEF IInv, TypeOK, Capacity
<1>4. Installed' /\ Budget' /\ Debt'
  BY <1>1, <1>2 DEF IInv, Installed, Budget, Debt
<1>5. QED BY <1>3, <1>4 DEF IInv

LEMMA InvariantStep == IInv /\ [Next]_vars => IInv'
<1> SUFFICES ASSUME IInv, [Next]_vars PROVE IInv'
  OBVIOUS
<1>1. CASE \E c \in Calls, left \in Deadlines :
             Refuse(c, left) \/ PassAtOnce(c, left) \/ Reserve(c, left)
  BY <1>1, RefuseKeeps, PassAtOnceKeeps, ReserveKeeps
<1>2. CASE \E c \in Calls : Wake(c) \/ Cancel(c)
  BY <1>2, WakeKeeps, CancelKeeps
<1>3. CASE \E g \in TariffGroups : Install(g) \/ FallBack(g)
  BY <1>3, InstallKeeps, FallBackKeeps
<1>4. CASE \E b \in Buckets : CountFromNow(b)
  BY <1>4, CountFromNowKeeps
<1>5. CASE Tick
  BY <1>5, TickKeeps
<1>6. CASE UNCHANGED vars
  BY <1>6, StutterKeeps
<1>7. QED BY <1>1, <1>2, <1>3, <1>4, <1>5, <1>6 DEF Next

LEMMA Invariant == Spec => []IInv
BY InvariantInit, InvariantStep, PTL DEF Spec

-----------------------------------------------------------------------------
(* What it means.                                                          *)

(* The limiter's types, among them that no bucket holds more than its      *)
(* burst.                                                                  *)
THEOREM LimiterTypeCorrect == Spec => []TypeOK
<1>1. IInv => TypeOK
  BY DEF IInv
<1>2. QED BY <1>1, Invariant, PTL

(* When nobody waits on a bucket, it owes nothing.                         *)
LEMMA DebtIsOwed == IInv => NoOrphanDebt
<1> SUFFICES ASSUME IInv, NEW b \in 0..newest, Waiting(b) = {}
             PROVE  Refilled(b) >= 0
  BY DEF NoOrphanDebt
<1>1. now \in Nat /\ b \in Buckets
  BY InBuckets, LimiterAssumption DEF IInv, TypeOK, LimiterAssumption
<1>2. Owing(b, now) = {}
  BY DEF Owing
<1>3. Cost(b) * Cardinality(Owing(b, now)) = 0
  BY <1>1, <1>2, FS_EmptySet, BucketNumbers DEF IInv
<1>4. Refilled(b) + (now - now) + Cost(b) * Cardinality(Owing(b, now)) >= 0
  BY <1>1 DEF IInv, Debt
<1>5. QED BY <1>1, <1>3, <1>4, BucketNumbers DEF IInv

(* Refusals and cancellations, in any order and at any time, leave no debt *)
(* behind in a bucket (Limiter.Wait's two refunds).                        *)
THEOREM NoOrphanDebtHolds == Spec => []NoOrphanDebt
BY DebtIsOwed, Invariant, PTL

(* What is spent or owed was earned: the content counted with the tokens   *)
(* of waiting calls is not negative, so the budget bounds what passed.     *)
LEMMA BudgetBounds == IInv => WithinTariff
<1> SUFFICES ASSUME IInv PROVE WithinTariff
  OBVIOUS
<1>1. now \in Nat /\ watched \in 0..newest /\ watched \in Buckets /\ passed \in Nat
      /\ before \in Nat /\ since \in Int
  BY InBuckets, LimiterAssumption DEF IInv, TypeOK, LimiterAssumption
<1>2. PICK w, k, C : /\ w = Cardinality(Waiting(watched))
                     /\ k = Cardinality(Owing(watched, now)) /\ C = Cost(watched)
  OBVIOUS
<1>3. w \in Nat /\ k \in Nat /\ k <= w /\ C \in Nat
  BY <1>1, <1>2, CallSets, BucketNumbers DEF IInv
<1>4. Refilled(watched) \in Int /\ Capacity(watched) \in Int
  BY <1>1, BucketNumbers DEF IInv
<1>5. Refilled(watched) + C * k >= 0
  <2>1. Refilled(watched) + (now - now) + C * k >= 0
    BY <1>1, <1>2 DEF IInv, Debt
  <2>2. QED BY <1>1, <1>3, <1>4, <2>1, OneTimesMore
<1>6. C * w >= C * k /\ C * w \in Nat /\ C * k \in Nat
  BY <1>3
<1>7. C * (w + passed) = C * w + C * passed /\ C * passed \in Nat /\ C * before \in Nat
  BY <1>1, <1>3
<1>8. Refilled(watched) + C * (w + passed) <=
        Capacity(watched) + (now - since) + C * before
  BY <1>2 DEF IInv, Budget
<1>9. C * passed <= Capacity(watched) + (now - since) + C * before
  BY <1>1, <1>4, <1>5, <1>6, <1>7, <1>8
<1>10. QED BY <1>2, <1>9 DEF WithinTariff

(* Over any span of time a bucket lets through its burst, its rate and the *)
(* calls that waited when the span began, and no more.                     *)
THEOREM WithinTariffHolds == Spec => []WithinTariff
BY BudgetBounds, Invariant, PTL

-----------------------------------------------------------------------------
(* The stream half.                                                        *)

(* Times that were noted are past; a message that is being sent is one of  *)
(* the registry's.                                                         *)
PastInv ==
    /\ opened <= clock
    /\ connectedAt <= clock
    /\ \A i \in DOMAIN stamps : stamps[i] <= clock
    /\ \A i \in DOMAIN arrived : arrived[i] <= clock
    /\ step = "up" => opened <= connectedAt
    /\ step = "sending" => replayed < Requests

(* The messages that arrive after the i-th, with the one being sent.       *)
Later(i) == Len(arrived) - i + (IF step = "sending" THEN 1 ELSE 0)

(* After a message that arrived within the window, each message has a      *)
(* stamp of its own, no older than that arrival.                           *)
FollowedBy(i) ==
    arrived[i] > clock - ReplayWindow =>
        /\ Later(i) <= Len(stamps)
        /\ \A k \in DOMAIN stamps : k > Len(stamps) - Later(i) => stamps[k] >= arrived[i]
StampInv == \A i \in DOMAIN arrived : FollowedBy(i)

(* The failures counted are no fewer than the quick calls of Open, and the *)
(* pause under way is that of the failures.                                *)
StormInv ==
    /\ step = "open" => quick = 0 /\ failures = 0
    /\ step \in {"replay", "asleep", "sending", "up"} => quick <= failures
    /\ step = "backoff" =>
         \/ until - opened >= Watchdog
         \/ quick < failures /\ 5 * (until - opened) >= 4 * Nominal(failures)

StreamInv == StreamTypeOK /\ PastInv /\ StampInv /\ ArrivalsWithinCap /\ StormInv /\ NoReconnectStorm

-----------------------------------------------------------------------------
(* Powers of two, as far as the backoff goes.                              *)

Pow(n) == 2 ^ n

LEMMA Powers ==
    ASSUME NEW n \in 0..16
    PROVE  \/ (n = 0 /\ Pow(n) = 1) \/ (n = 1 /\ Pow(n) = 2) \/ (n = 2 /\ Pow(n) = 4)
           \/ (n = 3 /\ Pow(n) = 8) \/ (n = 4 /\ Pow(n) = 16) \/ (n = 5 /\ Pow(n) = 32)
           \/ (n = 6 /\ Pow(n) = 64) \/ (n = 7 /\ Pow(n) = 128) \/ (n = 8 /\ Pow(n) = 256)
           \/ (n = 9 /\ Pow(n) = 512) \/ (n = 10 /\ Pow(n) = 1024) \/ (n = 11 /\ Pow(n) = 2048)
           \/ (n = 12 /\ Pow(n) = 4096) \/ (n = 13 /\ Pow(n) = 8192) \/ (n = 14 /\ Pow(n) = 16384)
           \/ (n = 15 /\ Pow(n) = 32768) \/ (n = 16 /\ Pow(n) = 65536)
  <1>0. n = 0 => Pow(n) = 1
    BY DEF Pow
  <1>1. n = 1 => Pow(n) = 2
    BY DEF Pow
  <1>2. n = 2 => Pow(n) = 4
    BY DEF Pow
  <1>3. n = 3 => Pow(n) = 8
    BY DEF Pow
  <1>4. n = 4 => Pow(n) = 16
    BY DEF Pow
  <1>5. n = 5 => Pow(n) = 32
    BY DEF Pow
  <1>6. n = 6 => Pow(n) = 64
    BY DEF Pow
  <1>7. n = 7 => Pow(n) = 128
    BY DEF Pow
  <1>8. n = 8 => Pow(n) = 256
    BY DEF Pow
  <1>9. n = 9 => Pow(n) = 512
    BY DEF Pow
  <1>10. n = 10 => Pow(n) = 1024
    BY DEF Pow
  <1>11. n = 11 => Pow(n) = 2048
    BY DEF Pow
  <1>12. n = 12 => Pow(n) = 4096
    BY DEF Pow
  <1>13. n = 13 => Pow(n) = 8192
    BY DEF Pow
  <1>14. n = 14 => Pow(n) = 16384
    BY DEF Pow
  <1>15. n = 15 => Pow(n) = 32768
    BY DEF Pow
  <1>16. n = 16 => Pow(n) = 65536
    BY DEF Pow
  <1> QED BY <1>0, <1>1, <1>2, <1>3, <1>4, <1>5, <1>6, <1>7, <1>8, <1>9, <1>10, <1>11, <1>12, <1>13, <1>14, <1>15, <1>16

LEMMA PowersGrow ==
    ASSUME NEW m \in 0..16, NEW n \in 0..16, m <= n
    PROVE  Pow(m) \in Nat \ {0} /\ Pow(n) \in Nat \ {0} /\ Pow(m) <= Pow(n)
BY Powers

(* The pause does not get shorter with the failures.                       *)
LEMMA NominalGrows ==
    ASSUME NEW m \in Nat \ {0}, NEW n \in Nat \ {0}, m <= n
    PROVE  Nominal(m) \in Nat /\ Nominal(n) \in Nat /\ Nominal(m) <= Nominal(n)
  <1> DEFINE e(k) == IF k < 17 THEN k - 1 ELSE 16
  <1>1. e(m) \in 0..16 /\ e(n) \in 0..16 /\ e(m) <= e(n)
    OBVIOUS
  <1> DEFINE x == Pow(e(m))
             y == Pow(e(n))
  <1>2. x \in Nat \ {0} /\ y \in Nat \ {0} /\ x <= y
    BY <1>1, PowersGrow
  <1>3. /\ Nominal(m) = IF x > BackoffCap THEN BackoffCap ELSE x
        /\ Nominal(n) = IF y > BackoffCap THEN BackoffCap ELSE y
    BY DEF Nominal, Pow
  <1> HIDE DEF x, y
  <1> QED BY <1>2, <1>3, PacingAssumption DEF PacingAssumption

-----------------------------------------------------------------------------
(* The limiter's stamps.                                                   *)

Smaller == {ss \in Nat \X Nat : ss[1] < ss[2]}

LEMMA HasLeast ==
    ASSUME NEW T \in SUBSET Nat, T # {}
    PROVE  \E x \in T : \A y \in T : x <= y
  <1>1. IsWellFoundedOn(Smaller, Nat)
    BY NatLessThanWellFounded DEF OpToRel, Smaller
  <1>2. PICK x \in T : \A y \in T : ~ (<<y, x>> \in Smaller)
    BY <1>1, WFMin
  <1>3. ASSUME NEW y \in T PROVE x <= y
    <2>1. <<y, x>> \in Nat \X Nat /\ <<y, x>>[1] = y /\ <<y, x>>[2] = x
      OBVIOUS
    <2>2. ~(y < x)
      BY <1>2, <2>1 DEF Smaller
    <2> QED BY <2>2
  <1> QED BY <1>3

LEMMA ExpiredIs ==
    ASSUME stamps \in Seq(Times)
    PROVE  /\ Expired \in 0..Len(stamps)
           /\ \A i \in 1..Expired : ~InWindow(stamps[i], clock)
           /\ Expired < Len(stamps) => InWindow(stamps[Expired + 1], clock)
  <1> DEFINE T == {n \in 0..Len(stamps) : n < Len(stamps) => InWindow(stamps[n + 1], clock)}
  <1>1. Len(stamps) \in Nat
    OBVIOUS
  <1>2. PICK n \in T : \A y \in T : n <= y
    <2>1. T \in SUBSET Nat /\ Len(stamps) \in T
      BY <1>1
    <2> QED BY <2>1, HasLeast
  <1>3. ASSUME NEW i \in 1..n PROVE ~InWindow(stamps[i], clock)
    <2>1. i - 1 \in 0..Len(stamps) /\ i - 1 < Len(stamps) /\ (i - 1) + 1 = i /\ ~(n <= i - 1)
      BY <1>1
    <2>2. i - 1 \notin T
      BY <1>2, <2>1
    <2> QED BY <2>1, <2>2
  <1>4. \E k \in 0..Len(stamps) : /\ \A i \in 1..k : ~InWindow(stamps[i], clock)
                                  /\ k < Len(stamps) => InWindow(stamps[k + 1], clock)
    BY <1>2, <1>3
  <1> QED BY <1>4 DEF Expired

(* The end of a sequence from some place on.                               *)
LEMMA EndOf ==
    ASSUME NEW S, NEW s \in Seq(S), NEW n \in 0..Len(s)
    PROVE  LET g == SubSeq(s, n + 1, Len(s)) IN
           /\ g \in Seq(S) /\ Len(s) \in Nat /\ Len(g) = Len(s) - n
           /\ DOMAIN g = 1..Len(s) - n /\ DOMAIN s = 1..Len(s)
           /\ \A i \in 1..Len(s) - n : g[i] = s[i + n]
OBVIOUS

LEMMA ActiveIs ==
    ASSUME stamps \in Seq(Times)
    PROVE  /\ Expired \in 0..Len(stamps) /\ Len(stamps) \in Nat
           /\ Active \in Seq(Times) /\ Len(Active) = Len(stamps) - Expired
           /\ DOMAIN Active = 1..Len(stamps) - Expired /\ DOMAIN stamps = 1..Len(stamps)
           /\ \A i \in 1..Len(stamps) - Expired : Active[i] = stamps[i + Expired]
BY ExpiredIs, EndOf DEF Active

LEMMA LastOf ==
    ASSUME NEW s \in Seq(Times), NEW n \in Nat \ {0}
    PROVE  \E k \in 0..Len(s) :
             /\ k = IF Len(s) > n THEN Len(s) - n ELSE 0
             /\ Last(s, n) \in Seq(Times) /\ Len(s) \in Nat /\ Len(Last(s, n)) = Len(s) - k
             /\ DOMAIN Last(s, n) = 1..Len(s) - k
             /\ \A i \in 1..Len(s) - k : Last(s, n)[i] = s[i + k]
  <1> DEFINE k == IF Len(s) > n THEN Len(s) - n ELSE 0
  <1>1. Len(s) \in Nat /\ k \in 0..Len(s)
    OBVIOUS
  <1>2. Last(s, n) = SubSeq(s, k + 1, Len(s))
    BY DEF Last
  <1>4. k = IF Len(s) > n THEN Len(s) - n ELSE 0
    OBVIOUS
  <1> HIDE DEF k
  <1>3. /\ Last(s, n) \in Seq(Times) /\ Len(Last(s, n)) = Len(s) - k
        /\ DOMAIN Last(s, n) = 1..Len(s) - k
        /\ \A i \in 1..Len(s) - k : Last(s, n)[i] = s[i + k]
    BY <1>1, <1>2, EndOf
  <1> QED BY <1>1, <1>3, <1>4

-----------------------------------------------------------------------------
(* Types, and times that are past.                                         *)

LEMMA FailsDoes ==
    ASSUME StreamTypeOK, NEW count \in Nat \ {0}, Fails(count)
    PROVE  \/ step' = "returned" /\ failures' = failures /\ until' = until
           \/ /\ step' = "backoff" /\ failures' = count /\ count <= MaxFailures
              /\ until' \in Nat /\ until' >= clock
              /\ 5 * (until' - clock) >= 4 * Nominal(count)
  <1>1. CASE GiveUp
    BY <1>1 DEF GiveUp
  <1>2. CASE BackOff(count)
    <2>1. PICK d \in Delays(count) : until' = clock + d
      BY <1>2 DEF BackOff
    <2>2. d \in Nat /\ 5 * d >= 4 * Nominal(count)
      BY PacingAssumption DEF Delays, PacingAssumption
    <2>3. clock \in Nat
      BY PacingAssumption DEF StreamTypeOK, Times, PacingAssumption
    <2>4. until' \in Nat /\ until' >= clock /\ until' - clock = d
      BY <2>1, <2>2, <2>3
    <2> QED BY <1>2, <2>2, <2>4 DEF BackOff
  <1> QED BY <1>1, <1>2 DEF Fails

LEMMA FailsTyped ==
    ASSUME StreamTypeOK, NEW count \in Nat \ {0}, Fails(count)
    PROVE  step' \in {"returned", "backoff"} /\ failures' \in 0..MaxFailures /\ until' \in Nat
  <1>1. failures \in 0..MaxFailures /\ until \in Nat /\ MaxFailures \in Nat
    BY PacingAssumption DEF StreamTypeOK, PacingAssumption
  <1> QED BY <1>1, FailsDoes

(* The variables an arrival changes.                                       *)
LEMMA ArrivesDoes ==
    ASSUME StreamTypeOK, Arrives
    PROVE  \E k \in 0..Len(arrived) + 1 :
             /\ Len(arrived) \in Nat /\ Len(arrived') \in Nat
             /\ arrived' \in Seq(Times) /\ Len(arrived') = Len(arrived) + 1 - k
             /\ Len(arrived') <= ReplayLimit + 2
             /\ DOMAIN arrived' = 1..Len(arrived') /\ DOMAIN arrived = 1..Len(arrived)
             /\ \A j \in 1..Len(arrived') :
                  arrived'[j] = IF j + k = Len(arrived) + 1 THEN clock ELSE arrived[j + k]
  <1> DEFINE s == Append(arrived, clock)
             n == ReplayLimit + 2
  <1>1. /\ arrived \in Seq(Times) /\ clock \in Times /\ Len(arrived) \in Nat
        /\ DOMAIN arrived = 1..Len(arrived)
    BY DEF StreamTypeOK
  <1>2. /\ s \in Seq(Times) /\ Len(s) = Len(arrived) + 1
        /\ \A i \in 1..Len(arrived) + 1 :
             s[i] = IF i = Len(arrived) + 1 THEN clock ELSE arrived[i]
    BY <1>1
  <1>3. n \in Nat \ {0}
    BY PacingAssumption DEF PacingAssumption
  <1>4. arrived' = Last(s, n)
    BY DEF Arrives
  <1> HIDE DEF s
  <1>5. PICK k \in 0..Len(s) :
             /\ k = IF Len(s) > n THEN Len(s) - n ELSE 0
             /\ Last(s, n) \in Seq(Times) /\ Len(s) \in Nat /\ Len(Last(s, n)) = Len(s) - k
             /\ DOMAIN Last(s, n) = 1..Len(s) - k
             /\ \A i \in 1..Len(s) - k : Last(s, n)[i] = s[i + k]
    BY <1>2, <1>3, LastOf
  <1>6. /\ Len(arrived') = Len(arrived) + 1 - k /\ k \in 0..Len(arrived) + 1
        /\ Len(arrived') \in Nat
    BY <1>1, <1>2, <1>4, <1>5
  <1>7. Len(arrived') <= ReplayLimit + 2
    BY <1>2, <1>3, <1>4, <1>5
  <1>8. ASSUME NEW j \in 1..Len(arrived')
        PROVE  arrived'[j] = IF j + k = Len(arrived) + 1 THEN clock ELSE arrived[j + k]
    <2>1. arrived'[j] = s[j + k]
      BY <1>2, <1>4, <1>5, <1>6
    <2>2. j + k \in 1..Len(arrived) + 1
      BY <1>1, <1>6
    <2> QED BY <1>2, <2>1, <2>2
  <1> QED BY <1>1, <1>2, <1>4, <1>5, <1>6, <1>7, <1>8

(* The parts of the invariant that only say what may be stored.            *)
StoredInv == StreamTypeOK /\ PastInv

LEMMA NumbersOf ==
    ASSUME StreamTypeOK
    PROVE  /\ clock \in Nat /\ clock \in Times /\ opened \in Nat /\ connectedAt \in Nat
           /\ gap \in Nat /\ failures \in Nat /\ quick \in Nat /\ until \in Nat
           /\ ReplayLimit \in Nat \ {0} /\ ReplayWindow \in Nat \ {0}
           /\ Watchdog \in Nat \ {0} /\ MaxSend \in Nat /\ MaxFailures \in Nat
           /\ MaxClock \in Nat /\ Requests \in Nat
           /\ stamps \in Seq(Times) /\ arrived \in Seq(Times)
           /\ Len(stamps) \in Nat /\ Len(arrived) \in Nat
           /\ DOMAIN stamps = 1..Len(stamps) /\ DOMAIN arrived = 1..Len(arrived)
           /\ \A i \in DOMAIN stamps : stamps[i] \in Nat
           /\ \A i \in DOMAIN arrived : arrived[i] \in Nat
  <1>1. /\ ReplayLimit \in Nat \ {0} /\ ReplayWindow \in Nat \ {0}
        /\ Watchdog \in Nat \ {0} /\ MaxSend \in Nat /\ MaxFailures \in Nat
        /\ MaxClock \in Nat /\ Requests \in Nat
    BY PacingAssumption DEF PacingAssumption
  <1>2. /\ stamps \in Seq(Times) /\ arrived \in Seq(Times)
        /\ Len(stamps) \in Nat /\ Len(arrived) \in Nat
        /\ DOMAIN stamps = 1..Len(stamps) /\ DOMAIN arrived = 1..Len(arrived)
        /\ \A i \in DOMAIN stamps : stamps[i] \in Times
        /\ \A i \in DOMAIN arrived : arrived[i] \in Times
    BY DEF StreamTypeOK
  <1>3. /\ clock \in Times /\ opened \in Times /\ connectedAt \in Times /\ gap \in Times
        /\ failures \in 0..MaxFailures /\ quick \in Nat /\ until \in Nat
    BY DEF StreamTypeOK
  <1>4. Times \subseteq Nat
    BY <1>1 DEF Times
  <1>5. \A i \in DOMAIN stamps : stamps[i] \in Nat
    BY <1>2, <1>4
  <1>6. \A i \in DOMAIN arrived : arrived[i] \in Nat
    BY <1>2, <1>4
  <1>7. clock \in Nat /\ opened \in Nat /\ connectedAt \in Nat /\ gap \in Nat
    BY <1>3, <1>4
  <1>8. failures \in Nat /\ quick \in Nat /\ until \in Nat
    BY <1>1, <1>3
  <1> QED BY <1>1, <1>2, <1>3, <1>5, <1>6, <1>7, <1>8

(* A step that leaves the limiter alone and whose other values are typed.  *)
LEMMA StoredBeside ==
    ASSUME StoredInv, UNCHANGED <<limiter, clock, connectedAt>>,
           step' \in {"open", "replay", "asleep", "backoff", "returned"},
           failures' \in 0..MaxFailures, until' \in Nat, replayed' \in 0..Requests,
           opened' \in Times, opened' <= clock, gap' \in Times, quick' \in Nat
    PROVE  StoredInv'
  <1>1. clock' = clock /\ connectedAt' = connectedAt /\ stamps' = stamps /\ arrived' = arrived
    BY DEF limiter
  <1>2. StreamTypeOK'
    BY <1>1 DEF StoredInv, StreamTypeOK, Times
  <1>3. PastInv'
    BY <1>1 DEF StoredInv, PastInv
  <1> QED BY <1>2, <1>3 DEF StoredInv

LEMMA OpenCalledTyped ==
    ASSUME StoredInv, OpenCalled
    PROVE  opened' \in Times /\ opened' <= clock /\ gap' \in Times /\ quick' \in Nat
  <1>1. clock \in 0..MaxClock /\ opened \in 0..MaxClock /\ opened <= clock /\ quick \in Nat
        /\ MaxClock \in Nat
    BY NumbersOf DEF StoredInv, PastInv, StreamTypeOK, Times
  <1>2. opened' = clock /\ gap' = clock - opened /\ quick' \in {0, quick + 1}
    BY DEF OpenCalled
  <1> QED BY <1>1, <1>2 DEF Times

LEMMA StoredStep ==
    ASSUME StoredInv, [StreamNext]_streamVars
    PROVE  StoredInv'
  <1>n. StreamTypeOK /\ PastInv
    BY DEF StoredInv
  <1>t. /\ failures \in 0..MaxFailures /\ replayed \in 0..Requests /\ opened \in Times
        /\ opened <= clock /\ gap \in Times /\ quick \in Nat /\ until \in Nat
        /\ step \in {"open", "replay", "asleep", "sending", "up", "backoff", "returned"}
        /\ failures + 1 \in Nat \ {0}
    BY <1>n, NumbersOf DEF StreamTypeOK, PastInv
  <1>1. CASE Opens
    <2>1. OpenCalled /\ UNCHANGED <<limiter, clock, connectedAt, failures, until>>
          /\ step' = "replay" /\ replayed' = 0
      BY <1>1 DEF Opens
    <2>2. 0 \in 0..Requests
      BY <1>n, NumbersOf
    <2> QED BY <1>t, <2>1, <2>2, OpenCalledTyped, StoredBeside
  <1>2. CASE OpenRefused
    <2>1. OpenCalled /\ UNCHANGED <<limiter, clock, connectedAt, replayed>> /\ Fails(failures + 1)
      BY <1>2 DEF OpenRefused
    <2>2. step' \in {"returned", "backoff"} /\ failures' \in 0..MaxFailures /\ until' \in Nat
      BY <1>n, <1>t, <2>1, FailsTyped
    <2> QED BY <1>t, <2>1, <2>2, OpenCalledTyped, StoredBeside
  <1>3. CASE Granted
    <2>1. /\ stamps' = Append(Active, clock) /\ step' = "sending" /\ until' = clock + MaxSend
          /\ Len(Active) < ReplayLimit
          /\ UNCHANGED <<clock, failures, connectedAt, replayed, arrived, opened, gap, quick>>
      BY <1>3 DEF Granted, Room, history
    <2>r. replayed < Requests
      BY <1>3 DEF Granted
    <2>2. /\ Active \in Seq(Times) /\ Len(Active) \in Nat
          /\ \A i \in 1..Len(Active) : Active[i] <= clock
      <3>1. stamps \in Seq(Times)
        BY <1>n, NumbersOf
      <3>2. Len(Active) \in Nat
        BY <3>1, ActiveIs
      <3>3. ASSUME NEW i \in 1..Len(Active) PROVE Active[i] <= clock
        <4>1. Active[i] = stamps[i + Expired] /\ i + Expired \in DOMAIN stamps
          BY <3>1, ActiveIs
        <4> QED BY <1>n, <4>1 DEF PastInv
      <3> QED BY <3>1, <3>2, <3>3, ActiveIs
    <2>3. /\ stamps' \in Seq(Times) /\ Len(stamps') = Len(Active) + 1
          /\ \A i \in DOMAIN stamps' : stamps'[i] <= clock
      <3>1. clock \in Times /\ clock <= clock
        BY <1>n, NumbersOf
      <3>2. stamps' \in Seq(Times) /\ Len(stamps') = Len(Active) + 1
            /\ DOMAIN stamps' = 1..Len(Active) + 1
            /\ \A i \in 1..Len(Active) + 1 :
                 stamps'[i] = IF i = Len(Active) + 1 THEN clock ELSE Active[i]
        BY <2>1, <2>2, <3>1
      <3> QED BY <2>2, <3>1, <3>2
    <2>n. clock \in Nat /\ MaxSend \in Nat /\ ReplayLimit \in Nat
      BY <1>n, NumbersOf
    <2>4. until' \in Nat /\ Len(stamps') <= ReplayLimit
      BY <2>1, <2>2, <2>3, <2>n
    <2>5. StreamTypeOK'
      BY <1>n, <2>1, <2>3, <2>4 DEF StreamTypeOK, Times
    <2>6. PastInv'
      BY <1>n, <2>1, <2>r, <2>3 DEF PastInv
    <2> QED BY <2>5, <2>6 DEF StoredInv
  <1>4. CASE Sleeps
    <2>1. /\ stamps' = Active /\ step' = "asleep" /\ until' = Active[1] + ReplayWindow
          /\ ~(Len(Active) < ReplayLimit)
          /\ UNCHANGED <<clock, failures, connectedAt, replayed, arrived, opened, gap, quick>>
      BY <1>4 DEF Sleeps, Room, history
    <2>2. /\ Active \in Seq(Times) /\ Len(Active) \in Nat /\ Len(Active) <= Len(stamps)
          /\ DOMAIN Active = 1..Len(Active)
          /\ \A i \in 1..Len(Active) : Active[i] <= clock /\ Active[i] \in Nat
      <3>1. stamps \in Seq(Times)
        BY <1>n, NumbersOf
      <3>2. Len(Active) \in Nat /\ Len(Active) <= Len(stamps)
        BY <3>1, ActiveIs
      <3>3. ASSUME NEW i \in 1..Len(Active) PROVE Active[i] <= clock /\ Active[i] \in Nat
        <4>1. Active[i] = stamps[i + Expired] /\ i + Expired \in DOMAIN stamps
          BY <3>1, ActiveIs
        <4> QED BY <1>n, <4>1, NumbersOf DEF PastInv
      <3> QED BY <3>1, <3>2, <3>3, ActiveIs
    <2>3. until' \in Nat /\ Len(stamps') <= ReplayLimit
      <3>1. 1 \in 1..Len(Active)
        BY <1>n, <2>1, <2>2, NumbersOf
      <3>2. Len(stamps) <= ReplayLimit
        BY <1>n DEF StreamTypeOK
      <3>3. ReplayWindow \in Nat /\ ReplayLimit \in Nat /\ Len(stamps) \in Nat
        BY <1>n, NumbersOf
      <3>4. Active[1] \in Nat
        BY <2>2, <3>1
      <3>5. until' \in Nat
        BY <2>1, <3>3, <3>4
      <3> QED BY <2>1, <2>2, <3>2, <3>3, <3>5
    <2>4. StreamTypeOK'
      BY <1>n, <2>1, <2>2, <2>3 DEF StreamTypeOK, Times
    <2>5. PastInv'
      BY <1>n, <2>1, <2>2 DEF PastInv
    <2> QED BY <2>4, <2>5 DEF StoredInv
  <1>5. CASE Awakes
    BY <1>5, <1>t, StoredBeside DEF Awakes, history
  <1>6. CASE step = "sending" /\ Arrives /\ step' \in {"replay", "backoff", "returned"}
             /\ UNCHANGED <<clock, connectedAt, stamps, opened, gap, quick>>
             /\ failures' \in 0..MaxFailures /\ until' \in Nat /\ replayed' \in 0..Requests
    <2>1. PICK k \in 0..Len(arrived) + 1 :
             /\ Len(arrived) \in Nat /\ Len(arrived') \in Nat
             /\ arrived' \in Seq(Times) /\ Len(arrived') = Len(arrived) + 1 - k
             /\ Len(arrived') <= ReplayLimit + 2
             /\ DOMAIN arrived' = 1..Len(arrived') /\ DOMAIN arrived = 1..Len(arrived)
             /\ \A j \in 1..Len(arrived') :
                  arrived'[j] = IF j + k = Len(arrived) + 1 THEN clock ELSE arrived[j + k]
      BY <1>6, <1>n, ArrivesDoes
    <2>2. ASSUME NEW j \in DOMAIN arrived' PROVE arrived'[j] <= clock
      <3>1. j \in 1..Len(arrived')
        BY <2>1
      <3>2. j + k \in 1..Len(arrived) + 1
        BY <2>1, <3>1
      <3>3. clock <= clock
        BY <1>n, NumbersOf
      <3>4. j + k # Len(arrived) + 1 => j + k \in DOMAIN arrived
        BY <2>1, <3>2
      <3> QED BY <1>n, <2>1, <3>1, <3>3, <3>4 DEF PastInv
    <2>3. StreamTypeOK'
      BY <1>6, <1>n, <2>1 DEF StreamTypeOK, Times
    <2>4. PastInv'
      BY <1>6, <1>n, <2>2 DEF PastInv
    <2> QED BY <2>3, <2>4 DEF StoredInv
  <1>7. CASE SendReturns
    <2>1. replayed \in 0..Requests /\ replayed < Requests /\ Requests \in Nat
          /\ replayed' = replayed + 1
      BY <1>7, <1>n, <1>t, NumbersOf DEF SendReturns, PastInv
    <2>2. replayed' \in 0..Requests
      BY <2>1
    <2> QED BY <1>6, <1>7, <1>t, <2>2 DEF SendReturns, history
  <1>8. CASE SendRefused
    <2>1. step' \in {"returned", "backoff"} /\ failures' \in 0..MaxFailures /\ until' \in Nat
      BY <1>8, <1>n, <1>t, FailsTyped DEF SendRefused
    <2>2. CASE Arrives
      BY <1>6, <1>8, <1>t, <2>1, <2>2 DEF SendRefused, history
    <2>3. CASE UNCHANGED arrived
      BY <1>8, <1>t, <2>1, <2>3, StoredBeside DEF SendRefused, history, limiter
    <2> QED BY <1>8, <2>2, <2>3 DEF SendRefused
  <1>9. CASE Connects
    <2>1. /\ step' = "up" /\ connectedAt' = clock /\ until' = clock + Watchdog
          /\ UNCHANGED <<clock, failures, replayed, stamps, arrived, opened, gap, quick>>
      BY <1>9 DEF Connects, limiter, history
    <2>2. until' \in Nat /\ clock \in Times /\ clock <= clock
      BY <1>n, <2>1, NumbersOf
    <2>3. StreamTypeOK'
      BY <1>n, <2>1, <2>2 DEF StreamTypeOK, Times
    <2>4. PastInv'
      BY <1>n, <2>1, <2>2 DEF PastInv
    <2> QED BY <2>3, <2>4 DEF StoredInv
  <1>10. CASE Activity
    <2>1. /\ until' = clock + Watchdog
          /\ UNCHANGED <<clock, step, failures, connectedAt, replayed, stamps, arrived,
                         opened, gap, quick>>
      BY <1>10 DEF Activity, limiter, history
    <2>2. until' \in Nat
      BY <1>n, <2>1, NumbersOf
    <2>3. StreamTypeOK'
      BY <1>n, <2>1, <2>2 DEF StreamTypeOK, Times
    <2>4. PastInv'
      BY <1>n, <2>1 DEF PastInv
    <2> QED BY <2>3, <2>4 DEF StoredInv
  <1>11. CASE /\ \E count \in Nat \ {0} : Fails(count)
              /\ UNCHANGED <<clock, connectedAt, replayed, limiter, history>>
    <2>1. step' \in {"returned", "backoff"} /\ failures' \in 0..MaxFailures /\ until' \in Nat
      BY <1>11, <1>n, FailsTyped
    <2> QED BY <1>11, <1>t, <2>1, StoredBeside DEF history
  <1>12. CASE RecvFails \/ ReconcileFails \/ BufferOverflows \/ WatchdogFires
    <2>1. \E count \in Nat \ {0} : Fails(count)
      BY <1>12, <1>t DEF RecvFails, ReconcileFails, BufferOverflows, WatchdogFires, Fails
    <2> QED BY <1>11, <1>12, <2>1 DEF RecvFails, ReconcileFails, BufferOverflows, WatchdogFires
  <1>13. CASE Interrupted
    BY <1>13, <1>t, StoredBeside DEF Interrupted, history
  <1>14. CASE StreamTick
    <2>1. /\ clock < MaxClock /\ clock' = clock + 1
          /\ UNCHANGED <<step, failures, until, connectedAt, replayed, stamps, arrived,
                         opened, gap, quick>>
      BY <1>14 DEF StreamTick, limiter, history
    <2>2. clock' \in Times /\ clock \in Int
      BY <1>n, <2>1, NumbersOf DEF Times
    <2>3. StreamTypeOK'
      BY <1>n, <2>1, <2>2 DEF StreamTypeOK, Times
    <2>4. PastInv'
      <3>1. opened <= clock + 1 /\ connectedAt <= clock + 1
        BY <1>n, NumbersOf DEF PastInv
      <3>2. \A i \in DOMAIN stamps : stamps[i] <= clock + 1
        <4> SUFFICES ASSUME NEW i \in DOMAIN stamps PROVE stamps[i] <= clock + 1
          OBVIOUS
        <4>1. stamps[i] \in Nat /\ clock \in Nat
          BY <1>n, NumbersOf
        <4>2. stamps[i] <= clock
          BY <1>n DEF PastInv
        <4> QED BY <4>1, <4>2
      <3>3. \A i \in DOMAIN arrived : arrived[i] <= clock + 1
        <4> SUFFICES ASSUME NEW i \in DOMAIN arrived PROVE arrived[i] <= clock + 1
          OBVIOUS
        <4>1. arrived[i] \in Nat /\ clock \in Nat
          BY <1>n, NumbersOf
        <4>2. arrived[i] <= clock
          BY <1>n DEF PastInv
        <4> QED BY <4>1, <4>2
      <3> QED BY <1>n, <2>1, <3>1, <3>2, <3>3 DEF PastInv
    <2> QED BY <2>3, <2>4 DEF StoredInv
  <1>15. CASE UNCHANGED streamVars
    <2>1. UNCHANGED <<clock, step, failures, until, connectedAt, replayed, stamps, arrived,
                      opened, gap, quick>>
      BY <1>15 DEF streamVars, limiter, history
    <2>2. StreamTypeOK'
      BY <1>n, <2>1 DEF StreamTypeOK, Times
    <2>3. PastInv'
      BY <1>n, <2>1 DEF PastInv
    <2> QED BY <2>2, <2>3 DEF StoredInv
  <1> QED BY <1>1, <1>2, <1>3, <1>4, <1>5, <1>7, <1>8, <1>9, <1>10, <1>12, <1>13, <1>14,
             <1>15 DEF StreamNext

-----------------------------------------------------------------------------
(* Every message that came through within the window keeps its stamp.      *)

LEMMA LaterIs ==
    ASSUME StreamTypeOK, NEW i \in DOMAIN arrived
    PROVE  /\ i \in 1..Len(arrived) /\ Later(i) \in Nat
           /\ Later(i) = Len(arrived) - i + (IF step = "sending" THEN 1 ELSE 0)
  <1>1. i \in 1..Len(arrived) /\ Len(arrived) \in Nat
    BY NumbersOf
  <1> QED BY <1>1 DEF Later

(* A step that leaves stamps and arrivals alone.                           *)
LEMMA StampsStay ==
    ASSUME StreamTypeOK, StreamTypeOK', StampInv, UNCHANGED <<stamps, arrived>>,
           clock' >= clock, step' = "sending" => step = "sending"
    PROVE  StampInv'
  <1> SUFFICES ASSUME NEW i \in DOMAIN arrived, arrived[i] > clock' - ReplayWindow
               PROVE  /\ Later(i)' <= Len(stamps)
                      /\ \A k \in DOMAIN stamps :
                           k > Len(stamps) - Later(i)' => stamps[k] >= arrived[i]
    BY DEF StampInv, FollowedBy
  <1>1. clock \in Nat /\ clock' \in Nat /\ ReplayWindow \in Nat /\ arrived[i] \in Nat
        /\ Len(stamps) \in Nat /\ DOMAIN stamps = 1..Len(stamps)
    <2>1. clock \in Nat /\ ReplayWindow \in Nat /\ arrived[i] \in Nat
          /\ Len(stamps) \in Nat /\ DOMAIN stamps = 1..Len(stamps)
      BY NumbersOf
    <2>2. clock' \in Nat
      BY <2>1, PacingAssumption DEF StreamTypeOK, Times, PacingAssumption
    <2> QED BY <2>1, <2>2
  <1>2. arrived[i] > clock - ReplayWindow
    BY <1>1
  <1>3. Later(i) \in Nat /\ Later(i)' \in Int /\ Later(i)' <= Later(i)
    <2>1. i \in 1..Len(arrived) /\ Len(arrived) \in Nat
      BY NumbersOf
    <2> QED BY <2>1 DEF Later
  <1>4. /\ Later(i) <= Len(stamps)
        /\ \A k \in DOMAIN stamps : k > Len(stamps) - Later(i) => stamps[k] >= arrived[i]
    BY <1>2 DEF StampInv, FollowedBy
  <1>5. ASSUME NEW k \in DOMAIN stamps, k > Len(stamps) - Later(i)'
        PROVE  stamps[k] >= arrived[i]
    <2>1. k \in Nat
      BY <1>1
    <2>2. k > Len(stamps) - Later(i)
      BY <1>1, <1>3, <1>5, <2>1
    <2> QED BY <1>4, <2>2
  <1>6. Later(i)' <= Len(stamps)
    BY <1>1, <1>3, <1>4
  <1> QED BY <1>5, <1>6

(* None of those stamps is among the expired.                              *)
LEMMA ActiveKeeps ==
    ASSUME StreamTypeOK, StampInv, NEW i \in DOMAIN arrived,
           arrived[i] > clock - ReplayWindow
    PROVE  /\ Later(i) <= Len(Active)
           /\ \A k \in DOMAIN Active : k > Len(Active) - Later(i) => Active[k] >= arrived[i]
  <1>1. clock \in Nat /\ ReplayWindow \in Nat /\ arrived[i] \in Nat /\ Later(i) \in Nat
        /\ stamps \in Seq(Times) /\ Len(stamps) \in Nat /\ DOMAIN stamps = 1..Len(stamps)
        /\ \A k \in DOMAIN stamps : stamps[k] \in Nat
    BY NumbersOf, LaterIs
  <1>2. /\ Expired \in 0..Len(stamps)
        /\ Len(Active) = Len(stamps) - Expired
        /\ DOMAIN Active = 1..Len(stamps) - Expired
        /\ \A k \in 1..Len(stamps) - Expired : Active[k] = stamps[k + Expired]
        /\ \A k \in 1..Expired : ~InWindow(stamps[k], clock)
    BY <1>1, ActiveIs, ExpiredIs
  <1>3. /\ Later(i) <= Len(stamps)
        /\ \A k \in DOMAIN stamps : k > Len(stamps) - Later(i) => stamps[k] >= arrived[i]
    BY DEF StampInv, FollowedBy
  <1>4. Later(i) <= Len(Active)
    <2> SUFFICES ASSUME Later(i) > Len(Active) PROVE FALSE
      BY <1>1, <1>2
    <2>1. Expired \in 1..Expired /\ Expired \in DOMAIN stamps
          /\ Expired > Len(stamps) - Later(i)
      BY <1>1, <1>2, <1>3
    <2>2. stamps[Expired] >= arrived[i] /\ stamps[Expired] \in Nat
      BY <1>1, <1>3, <2>1
    <2>3. InWindow(stamps[Expired], clock)
      BY <1>1, <2>2 DEF InWindow
    <2> QED BY <1>2, <2>1, <2>3
  <1>5. ASSUME NEW k \in DOMAIN Active, k > Len(Active) - Later(i)
        PROVE  Active[k] >= arrived[i]
    <2>1. k \in 1..Len(stamps) - Expired /\ Active[k] = stamps[k + Expired]
      BY <1>2
    <2>2. k + Expired \in DOMAIN stamps /\ k + Expired > Len(stamps) - Later(i)
      BY <1>1, <1>2, <1>5, <2>1
    <2> QED BY <1>3, <2>1, <2>2
  <1> QED BY <1>4, <1>5

(* The arrival of the message being sent.                                  *)
LEMMA ArrivalKeepsStamps ==
    ASSUME StoredInv, StreamTypeOK', StampInv, step = "sending", Arrives, step' # "sending",
           UNCHANGED <<stamps, clock>>
    PROVE  StampInv'
  <1>n. StreamTypeOK /\ PastInv
    BY DEF StoredInv
  <1>1. PICK k \in 0..Len(arrived) + 1 :
           /\ Len(arrived) \in Nat /\ Len(arrived') \in Nat
           /\ arrived' \in Seq(Times) /\ Len(arrived') = Len(arrived) + 1 - k
           /\ Len(arrived') <= ReplayLimit + 2
           /\ DOMAIN arrived' = 1..Len(arrived') /\ DOMAIN arrived = 1..Len(arrived)
           /\ \A j \in 1..Len(arrived') :
                arrived'[j] = IF j + k = Len(arrived) + 1 THEN clock ELSE arrived[j + k]
    BY <1>n, ArrivesDoes
  <1>2. Len(stamps) \in Nat /\ DOMAIN stamps = 1..Len(stamps)
    BY <1>n, NumbersOf
  <1> SUFFICES ASSUME NEW j \in DOMAIN arrived', arrived'[j] > clock - ReplayWindow
               PROVE  /\ Later(j)' <= Len(stamps)
                      /\ \A m \in DOMAIN stamps :
                           m > Len(stamps) - Later(j)' => stamps[m] >= arrived'[j]
    BY DEF StampInv, FollowedBy
  <1>3. j \in 1..Len(arrived')
    BY <1>1
  <1>4. Later(j)' = Len(arrived') - j
    <2>1. Later(j)' = Len(arrived') - j + 0
      BY DEF Later
    <2> QED BY <1>1, <1>3, <2>1
  <1>5. CASE j + k = Len(arrived) + 1
    <2>1. Later(j)' = 0
      BY <1>1, <1>3, <1>4, <1>5
    <2>2. \A m \in DOMAIN stamps : ~(m > Len(stamps) - Later(j)')
      BY <1>2, <2>1
    <2> QED BY <1>2, <2>1, <2>2
  <1>6. CASE j + k # Len(arrived) + 1
    <2>1. j + k \in DOMAIN arrived /\ arrived'[j] = arrived[j + k]
      BY <1>1, <1>3, <1>6
    <2>2. Later(j + k) = Len(arrived) - (j + k) + 1
      BY DEF Later
    <2>3. Later(j)' = Later(j + k)
      BY <1>1, <1>3, <1>4, <2>2
    <2>4. FollowedBy(j + k)
      BY <2>1 DEF StampInv
    <2> QED BY <2>1, <2>3, <2>4 DEF FollowedBy
  <1> QED BY <1>5, <1>6

LEMMA StampStep ==
    ASSUME StoredInv, StreamTypeOK', StampInv, [StreamNext]_streamVars
    PROVE  StampInv'
  <1>n. StreamTypeOK /\ PastInv
    BY DEF StoredInv
  <1>t. clock \in Nat /\ clock <= clock
    BY <1>n, NumbersOf
  <1>1. CASE Opens \/ Awakes \/ Connects \/ Activity \/ Interrupted \/ UNCHANGED streamVars
    BY <1>1, <1>n, <1>t, StampsStay
       DEF Opens, Awakes, Connects, Activity, Interrupted, streamVars, limiter
  <1>2. ASSUME \E count \in Nat \ {0} : Fails(count), UNCHANGED <<stamps, arrived, clock>>
        PROVE  StampInv'
    <2>1. step' # "sending"
      BY <1>2, <1>n, FailsTyped
    <2> QED BY <1>2, <1>n, <1>t, <2>1, StampsStay
  <1>3. failures + 1 \in Nat \ {0}
    BY <1>n, NumbersOf
  <1>4. CASE OpenRefused
    BY <1>2, <1>3, <1>4 DEF OpenRefused, limiter
  <1>5. CASE RecvFails \/ ReconcileFails \/ BufferOverflows \/ WatchdogFires
    <2>1. \E count \in Nat \ {0} : Fails(count)
      BY <1>3, <1>5 DEF RecvFails, ReconcileFails, BufferOverflows, WatchdogFires, Fails
    <2> QED BY <1>2, <1>5, <2>1
            DEF RecvFails, ReconcileFails, BufferOverflows, WatchdogFires, limiter
  <1>6. CASE Granted
    <2>1. /\ step = "replay" /\ step' = "sending" /\ stamps' = Append(Active, clock)
          /\ UNCHANGED <<clock, arrived>>
      BY <1>6 DEF Granted
    <2>2. /\ Active \in Seq(Times) /\ Len(Active) \in Nat /\ DOMAIN Active = 1..Len(Active)
          /\ clock \in Times
      BY <1>n, ActiveIs, NumbersOf
    <2>3. /\ Len(stamps') = Len(Active) + 1 /\ DOMAIN stamps' = 1..Len(Active) + 1
          /\ \A k \in 1..Len(Active) + 1 :
               stamps'[k] = IF k = Len(Active) + 1 THEN clock ELSE Active[k]
      BY <2>1, <2>2
    <2> SUFFICES ASSUME NEW i \in DOMAIN arrived, arrived[i] > clock - ReplayWindow
                 PROVE  /\ Later(i)' <= Len(stamps')
                        /\ \A k \in DOMAIN stamps' :
                             k > Len(stamps') - Later(i)' => stamps'[k] >= arrived[i]
      BY <2>1 DEF StampInv, FollowedBy
    <2>4. Later(i) \in Nat /\ Later(i)' = Later(i) + 1
      <3>1. i \in 1..Len(arrived) /\ Len(arrived) \in Nat
        BY <1>n, NumbersOf
      <3> QED BY <2>1, <3>1 DEF Later
    <2>5. /\ Later(i) <= Len(Active)
          /\ \A k \in DOMAIN Active : k > Len(Active) - Later(i) => Active[k] >= arrived[i]
      BY <1>n, ActiveKeeps
    <2>6. ASSUME NEW k \in DOMAIN stamps', k > Len(stamps') - Later(i)'
          PROVE  stamps'[k] >= arrived[i]
      <3>1. CASE k = Len(Active) + 1
        <4>1. arrived[i] <= clock /\ arrived[i] \in Nat
          BY <1>n, NumbersOf DEF PastInv
        <4> QED BY <1>t, <2>3, <3>1, <4>1
      <3>2. CASE k # Len(Active) + 1
        <4>1. k \in DOMAIN Active /\ k > Len(Active) - Later(i)
          BY <2>2, <2>3, <2>4, <2>6, <3>2
        <4> QED BY <2>3, <2>5, <3>2, <4>1
      <3> QED BY <3>1, <3>2
    <2>7. Later(i)' <= Len(stamps')
      BY <2>2, <2>3, <2>4, <2>5
    <2> QED BY <2>6, <2>7
  <1>7. CASE Sleeps
    <2>1. /\ step = "replay" /\ step' = "asleep" /\ stamps' = Active
          /\ UNCHANGED <<clock, arrived>>
      BY <1>7 DEF Sleeps
    <2> SUFFICES ASSUME NEW i \in DOMAIN arrived, arrived[i] > clock - ReplayWindow
                 PROVE  /\ Later(i)' <= Len(Active)
                        /\ \A k \in DOMAIN Active :
                             k > Len(Active) - Later(i)' => Active[k] >= arrived[i]
      BY <2>1 DEF StampInv, FollowedBy
    <2>2. Later(i)' = Later(i)
      BY <2>1 DEF Later
    <2> QED BY <1>n, <2>2, ActiveKeeps
  <1>8. CASE SendReturns
    BY <1>8, ArrivalKeepsStamps DEF SendReturns
  <1>9. CASE SendRefused
    <2>1. step' # "sending"
      BY <1>3, <1>9, <1>n, FailsTyped DEF SendRefused
    <2>2. CASE Arrives
      BY <1>9, <2>1, <2>2, ArrivalKeepsStamps DEF SendRefused
    <2>3. CASE UNCHANGED arrived
      BY <1>2, <1>3, <1>9, <2>3 DEF SendRefused
    <2> QED BY <1>9, <2>2, <2>3 DEF SendRefused
  <1>10. CASE StreamTick
    <2>1. clock' >= clock /\ UNCHANGED <<stamps, arrived, step>>
      BY <1>10, <1>t DEF StreamTick, limiter
    <2> QED BY <1>n, <2>1, StampsStay
  <1> QED BY <1>1, <1>4, <1>5, <1>6, <1>7, <1>8, <1>9, <1>10 DEF StreamNext

-----------------------------------------------------------------------------
(* The cap: were the last of ReplayLimit + 2 messages within the window of *)
(* the first, the limiter would hold ReplayLimit + 1 stamps.               *)

LEMMA CapAtArrival ==
    ASSUME StreamTypeOK', StampInv', step' # "sending",
           Len(arrived') = ReplayLimit + 2 => arrived'[ReplayLimit + 2] = clock'
    PROVE  ArrivalsWithinCap'
  <1> SUFFICES ASSUME Len(arrived') = ReplayLimit + 2
               PROVE  arrived'[ReplayLimit + 2] - arrived'[1] >= ReplayWindow
    BY DEF ArrivalsWithinCap
  <1>1. ReplayLimit \in Nat \ {0} /\ ReplayWindow \in Nat \ {0} /\ MaxClock \in Nat
    BY PacingAssumption DEF PacingAssumption
  <1>2. arrived' \in Seq(Times) /\ stamps' \in Seq(Times) /\ Len(stamps') <= ReplayLimit
        /\ clock' \in Times
    BY DEF StreamTypeOK, Times
  <1>3. 1 \in DOMAIN arrived' /\ arrived'[1] \in Times /\ Len(stamps') \in Nat
    BY <1>1, <1>2
  <1>4. clock' \in Nat /\ arrived'[1] \in Nat
    BY <1>1, <1>2, <1>3 DEF Times
  <1>5. Later(1)' = ReplayLimit + 1
    <2>1. Later(1)' = Len(arrived') - 1 + 0
      BY DEF Later
    <2> QED BY <1>1, <2>1
  <1>6. ~(arrived'[1] > clock' - ReplayWindow)
    <2>1. ~(Later(1)' <= Len(stamps'))
      BY <1>1, <1>2, <1>3, <1>5
    <2> QED BY <1>3, <2>1 DEF StampInv, FollowedBy
  <1> QED BY <1>1, <1>4, <1>6

LEMMA CapStep ==
    ASSUME StoredInv, StreamTypeOK', StampInv', ArrivalsWithinCap, [StreamNext]_streamVars
    PROVE  ArrivalsWithinCap'
  <1>n. StreamTypeOK /\ PastInv
    BY DEF StoredInv
  <1>1. CASE UNCHANGED arrived
    BY <1>1 DEF ArrivalsWithinCap
  <1>2. CASE Arrives /\ clock' = clock /\ step' # "sending"
    <2>1. PICK k \in 0..Len(arrived) + 1 :
             /\ Len(arrived) \in Nat /\ Len(arrived') \in Nat
             /\ arrived' \in Seq(Times) /\ Len(arrived') = Len(arrived) + 1 - k
             /\ Len(arrived') <= ReplayLimit + 2
             /\ DOMAIN arrived' = 1..Len(arrived') /\ DOMAIN arrived = 1..Len(arrived)
             /\ \A j \in 1..Len(arrived') :
                  arrived'[j] = IF j + k = Len(arrived) + 1 THEN clock ELSE arrived[j + k]
      BY <1>2, <1>n, ArrivesDoes
    <2>2. ASSUME Len(arrived') = ReplayLimit + 2
          PROVE  arrived'[ReplayLimit + 2] = clock'
      <3>1. Len(arrived') \in 1..Len(arrived') /\ Len(arrived') + k = Len(arrived) + 1
        BY <2>1, <2>2, PacingAssumption DEF PacingAssumption
      <3> QED BY <1>2, <2>1, <2>2, <3>1
    <2> QED BY <1>2, <2>2, CapAtArrival
  <1>3. failures + 1 \in Nat \ {0}
    BY <1>n, NumbersOf
  <1>4. CASE SendRefused
    <2>1. step' # "sending"
      BY <1>3, <1>4, <1>n, FailsTyped DEF SendRefused
    <2> QED BY <1>1, <1>2, <1>4, <2>1 DEF SendRefused
  <1>5. CASE SendReturns
    BY <1>2, <1>5 DEF SendReturns
  <1>6. CASE Opens \/ OpenRefused \/ Granted \/ Sleeps \/ Awakes \/ Connects \/ Activity
             \/ RecvFails \/ ReconcileFails \/ BufferOverflows \/ WatchdogFires
             \/ Interrupted \/ StreamTick \/ UNCHANGED streamVars
    <2>1. UNCHANGED arrived
      BY <1>6 DEF Opens, OpenRefused, Granted, Sleeps, Awakes, Connects, Activity, RecvFails,
           ReconcileFails, BufferOverflows, WatchdogFires, Interrupted, StreamTick,
           streamVars, limiter
    <2> QED BY <1>1, <2>1
  <1> QED BY <1>4, <1>5, <1>6 DEF StreamNext

-----------------------------------------------------------------------------
(* Pauses between connections.                                             *)

StormTotal == StormInv /\ NoReconnectStorm

(* One more call of Open.                                                  *)
LEMMA OpenCalledStorm ==
    ASSUME StoredInv, StormTotal, MayOpen, OpenCalled
    PROVE  quick' \in Nat /\ quick' <= failures /\ NoReconnectStorm' /\ opened' = clock
  <1>n. StreamTypeOK /\ PastInv /\ StormInv
    BY DEF StoredInv, StormTotal
  <1>1. /\ clock \in Nat /\ opened \in Nat /\ opened <= clock /\ failures \in Nat
        /\ quick \in Nat /\ until \in Nat /\ Watchdog \in Nat
    BY <1>n, NumbersOf DEF PastInv
  <1>2. opened' = clock /\ gap' = clock - opened
    BY DEF OpenCalled
  <1>3. CASE step = "open" \/ clock - opened >= Watchdog
    <2>1. quick' = 0
      BY <1>3 DEF OpenCalled
    <2> QED BY <1>1, <1>2, <2>1 DEF NoReconnectStorm
  <1>4. CASE ~(step = "open" \/ clock - opened >= Watchdog)
    <2>1. quick' = quick + 1
      BY <1>4 DEF OpenCalled
    <2>2. step = "backoff" /\ until <= clock
      BY <1>4 DEF MayOpen
    <2>3. ~(until - opened >= Watchdog)
      BY <1>1, <1>4, <2>2
    <2>4. quick < failures /\ 5 * (until - opened) >= 4 * Nominal(failures)
      BY <1>n, <2>2, <2>3 DEF StormInv
    <2>5. quick + 1 \in Nat \ {0} /\ failures \in Nat \ {0} /\ quick + 1 <= failures
      BY <1>1, <2>4
    <2>6. Nominal(quick + 1) \in Nat /\ Nominal(failures) \in Nat
          /\ Nominal(quick + 1) <= Nominal(failures)
      BY <2>5, NominalGrows
    <2>7. 5 * (clock - opened) >= 4 * Nominal(quick + 1)
      <3> DEFINE x == Nominal(quick + 1)
                 y == Nominal(failures)
      <3>1. x \in Nat /\ y \in Nat /\ x <= y /\ 5 * (until - opened) >= 4 * y
        BY <2>4, <2>6
      <3> HIDE DEF x, y
      <3>2. 5 * (clock - opened) >= 4 * x
        BY <1>1, <2>2, <3>1
      <3> QED BY <3>2 DEF x
    <2>8. Nominal(quick)' = Nominal(quick')
      BY DEF Nominal
    <2>9. NoReconnectStorm'
      BY <1>2, <2>1, <2>7, <2>8 DEF NoReconnectStorm
    <2> QED BY <1>2, <2>1, <2>5, <2>9
  <1> QED BY <1>3, <1>4

LEMMA NominalStays == \A n : Nominal(n)' = Nominal(n)
BY DEF Nominal

(* A failure counted on a connection: the pause is that of the count.      *)
LEMMA FailsKeepsStorm ==
    ASSUME StoredInv, NEW count \in Nat \ {0}, Fails(count), opened' \in Nat,
           opened' <= clock, quick' < count
    PROVE  StormInv'
  <1>n. StreamTypeOK
    BY DEF StoredInv
  <1>1. clock \in Nat
    BY <1>n, NumbersOf
  <1>2. CASE step' = "returned"
    BY <1>2 DEF StormInv
  <1>3. CASE /\ step' = "backoff" /\ failures' = count
             /\ until' \in Nat /\ until' >= clock
             /\ 5 * (until' - clock) >= 4 * Nominal(count)
    <2> DEFINE y == Nominal(count)
    <2>1. y \in Nat
      BY NominalGrows
    <2> HIDE DEF y
    <2>2. 5 * (until' - opened') >= 4 * y
      <3>1. 5 * (until' - clock) >= 4 * y
        BY <1>3 DEF y
      <3> DEFINE u == until'
                 o == opened'
      <3>2. u \in Nat /\ o \in Nat /\ o <= clock /\ 5 * (u - clock) >= 4 * y
        BY <1>3, <3>1
      <3> HIDE DEF u, o
      <3>3. 5 * (u - o) >= 4 * y
        BY <1>1, <2>1, <3>2
      <3> QED BY <3>3 DEF u, o
    <2>3. Nominal(failures)' = y
      BY <1>3 DEF y, Nominal
    <2> QED BY <1>3, <2>2, <2>3 DEF StormInv
  <1> QED BY <1>n, <1>2, <1>3, FailsDoes

LEMMA StormStep ==
    ASSUME StoredInv, StormTotal, [StreamNext]_streamVars
    PROVE  StormTotal'
  <1>n. StreamTypeOK /\ PastInv /\ StormInv /\ NoReconnectStorm
    BY DEF StoredInv, StormTotal
  <1>1. /\ clock \in Nat /\ opened \in Nat /\ opened <= clock /\ failures \in Nat
        /\ quick \in Nat /\ until \in Nat /\ Watchdog \in Nat /\ connectedAt \in Nat
        /\ failures + 1 \in Nat \ {0} /\ clock <= clock
    <2>1. /\ clock \in Nat /\ opened \in Nat /\ failures \in Nat /\ quick \in Nat
          /\ until \in Nat /\ Watchdog \in Nat /\ connectedAt \in Nat
      BY <1>n, NumbersOf
    <2> QED BY <1>n, <2>1 DEF PastInv
  <1>2. UNCHANGED history => NoReconnectStorm'
    BY <1>n DEF history, NoReconnectStorm, Nominal
  <1>3. CASE Opens
    <2>1. OpenCalled /\ MayOpen /\ step' = "replay" /\ failures' = failures
      BY <1>3 DEF Opens
    <2>2. quick' <= failures /\ NoReconnectStorm'
      BY <2>1, OpenCalledStorm
    <2>3. StormInv'
      BY <2>1, <2>2 DEF StormInv
    <2> QED BY <2>2, <2>3 DEF StormTotal
  <1>4. CASE OpenRefused
    <2>1. OpenCalled /\ MayOpen /\ Fails(failures + 1)
      BY <1>4 DEF OpenRefused
    <2>2. quick' \in Nat /\ quick' <= failures /\ NoReconnectStorm' /\ opened' = clock
      BY <2>1, OpenCalledStorm
    <2>3. quick' < failures + 1
      BY <1>1, <2>2
    <2>4. StormInv'
      BY <1>1, <2>1, <2>2, <2>3, FailsKeepsStorm
    <2> QED BY <2>2, <2>4 DEF StormTotal
  <1>5. CASE Granted \/ Sleeps \/ Awakes \/ SendReturns \/ Connects \/ Activity
    <2>1. /\ step \in {"replay", "asleep", "sending", "up"}
          /\ step' \in {"replay", "asleep", "sending", "up"}
          /\ UNCHANGED <<failures, history>>
      BY <1>5 DEF Granted, Sleeps, Awakes, SendReturns, Connects, Activity
    <2>2. StormInv'
      BY <1>n, <2>1 DEF StormInv, history
    <2> QED BY <1>2, <2>1, <2>2 DEF StormTotal
  <1>6. CASE SendRefused \/ ReconcileFails \/ BufferOverflows \/ WatchdogFires
    <2>1. step \in {"sending", "up"} /\ Fails(failures + 1) /\ UNCHANGED history
      BY <1>6 DEF SendRefused, ReconcileFails, BufferOverflows, WatchdogFires, Fails
    <2>2. quick <= failures
      BY <1>n, <2>1 DEF StormInv
    <2>3. opened' = opened /\ quick' = quick /\ quick' < failures + 1
      BY <1>1, <2>1, <2>2 DEF history
    <2>4. StormInv'
      BY <1>1, <2>1, <2>3, FailsKeepsStorm
    <2> QED BY <1>2, <2>1, <2>4 DEF StormTotal
  <1>7. CASE RecvFails
    <2>1. step = "up" /\ UNCHANGED history /\ quick <= failures /\ opened <= connectedAt
      BY <1>7, <1>n DEF RecvFails, StormInv, PastInv
    <2>2. opened' = opened /\ quick' = quick
      BY <2>1 DEF history
    <2>3. CASE Lasted
      <3>1. Fails(1) /\ clock - opened >= Watchdog
        BY <1>1, <1>7, <2>1, <2>3 DEF RecvFails, Lasted
      <3>2. ASSUME step' = "returned" PROVE StormInv'
        BY <3>2 DEF StormInv
      <3>3. ASSUME step' = "backoff", until' \in Nat, until' >= clock PROVE StormInv'
        <4>1. until' - opened' >= Watchdog
          <5> DEFINE u == until'
          <5>1. u \in Nat /\ u >= clock /\ opened' = opened
            BY <2>2, <3>3
          <5> HIDE DEF u
          <5>2. u - opened >= Watchdog
            BY <1>1, <3>1, <5>1
          <5> QED BY <5>1, <5>2 DEF u
        <4> QED BY <3>3, <4>1 DEF StormInv
      <3>4. StormInv'
        BY <1>n, <3>1, <3>2, <3>3, FailsDoes
      <3> QED BY <1>2, <2>1, <3>4 DEF StormTotal
    <2>4. CASE ~Lasted
      <3>1. Fails(failures + 1) /\ quick' < failures + 1
        BY <1>1, <1>7, <2>1, <2>2, <2>4 DEF RecvFails
      <3>2. StormInv'
        BY <1>1, <2>2, <3>1, FailsKeepsStorm
      <3> QED BY <1>2, <2>1, <3>2 DEF StormTotal
    <2> QED BY <2>3, <2>4
  <1>8. CASE Interrupted
    <2>1. step' = "returned" /\ UNCHANGED history
      BY <1>8 DEF Interrupted
    <2>2. StormInv'
      BY <2>1 DEF StormInv
    <2> QED BY <1>2, <2>1, <2>2 DEF StormTotal
  <1>9. CASE StreamTick \/ UNCHANGED streamVars
    <2>1. UNCHANGED <<step, failures, until, history>>
      BY <1>9 DEF StreamTick, streamVars
    <2>2. StormInv'
      BY <1>n, <2>1 DEF StormInv, history, Nominal
    <2> QED BY <1>2, <2>1, <2>2 DEF StormTotal
  <1> QED BY <1>3, <1>4, <1>5, <1>6, <1>7, <1>8, <1>9 DEF StreamNext

-----------------------------------------------------------------------------
(* What it means.                                                          *)

LEMMA StreamInvInit == StreamInit => StreamInv
  <1> SUFFICES ASSUME StreamInit PROVE StreamInv
    OBVIOUS
  <1>1. /\ ReplayLimit \in Nat \ {0} /\ MaxFailures \in Nat /\ MaxClock \in Nat
        /\ Requests \in Nat
    BY PacingAssumption DEF PacingAssumption
  <1>2. /\ 0 \in Times /\ 0 \in 0..MaxFailures /\ 0 \in 0..Requests /\ 0 \in Nat
        /\ <<>> \in Seq(Times) /\ Len(<<>>) = 0 /\ DOMAIN <<>> = {}
        /\ 0 <= ReplayLimit /\ 0 <= ReplayLimit + 2 /\ 0 # ReplayLimit + 2
    BY <1>1 DEF Times
  <1>3. StreamTypeOK
    BY <1>2 DEF StreamInit, StreamTypeOK
  <1>4. PastInv
    BY <1>2 DEF StreamInit, PastInv
  <1>5. StampInv /\ ArrivalsWithinCap
    BY <1>2 DEF StreamInit, StampInv, ArrivalsWithinCap
  <1>6. StormInv /\ NoReconnectStorm
    BY DEF StreamInit, StormInv, NoReconnectStorm
  <1> QED BY <1>3, <1>4, <1>5, <1>6 DEF StreamInv

LEMMA StreamInvStep == StreamInv /\ [StreamNext]_streamVars => StreamInv'
  <1> SUFFICES ASSUME StreamInv, [StreamNext]_streamVars PROVE StreamInv'
    OBVIOUS
  <1>1. StoredInv /\ StampInv /\ ArrivalsWithinCap /\ StormTotal
    BY DEF StreamInv, StoredInv, StormTotal
  <1>2. StoredInv'
    BY <1>1, StoredStep
  <1>3. StreamTypeOK' /\ PastInv'
    BY <1>2 DEF StoredInv
  <1>4. StampInv'
    BY <1>1, <1>3, StampStep
  <1>5. ArrivalsWithinCap'
    BY <1>1, <1>3, <1>4, CapStep
  <1>6. StormTotal'
    BY <1>1, StormStep
  <1> QED BY <1>3, <1>4, <1>5, <1>6 DEF StreamInv, StormTotal

LEMMA StreamInvariant == StreamSpec => []StreamInv
BY StreamInvInit, StreamInvStep, PTL DEF StreamSpec

(* The replay limiter outlives its connection and stamps a message before  *)
(* it is sent (replayLimiter.wait): no ReplayLimit + 2 messages arrive     *)
(* within a window, however long each Send takes and however often the     *)
(* stream reconnects.                                                      *)
THEOREM ArrivalsWithinCapHolds == StreamSpec => []ArrivalsWithinCap
  <1>1. StreamInv => ArrivalsWithinCap
    BY DEF StreamInv
  <1> QED BY <1>1, StreamInvariant, PTL

(* Run's backoff grows with the calls of Open that follow each other       *)
(* quickly, whatever ends the connections between them.                    *)
THEOREM NoReconnectStormHolds == StreamSpec => []NoReconnectStorm
  <1>1. StreamInv => NoReconnectStorm
    BY DEF StreamInv
  <1> QED BY <1>1, StreamInvariant, PTL

(* Every run of the two halves side by side is one of each of them, so the *)
(* theorems about either hold in it.                                       *)
THEOREM PacesBoth == PacingSpec => Spec /\ StreamSpec
  <1>1. PacingInit => Init /\ StreamInit
    BY DEF PacingInit
  <1>2. [UnaryStep \/ StreamStep]_<<command, vars, streamVars>>
          => [Next]_vars /\ [StreamNext]_streamVars
    BY DEF UnaryStep, StreamStep
  <1> QED BY <1>1, <1>2, PTL DEF PacingSpec, Spec, StreamSpec

(* Both halves are well typed: no bucket holds more than its burst, and    *)
(* the replay limiter no more stamps than its cap.                         *)
THEOREM PacingTypeCorrect == PacingSpec => []PacingTypeOK
  <1>1. IInv /\ StreamInv => PacingTypeOK
    BY DEF IInv, StreamInv, PacingTypeOK
  <1> QED BY <1>1, PacesBoth, Invariant, StreamInvariant, PTL
=============================================================================
