----------------------- MODULE LeaderElection_proofs -----------------------
(***************************************************************************)
(* The properties of LeaderElection for every number of replicas, every    *)
(* time to live and every delay.                                           *)
(*                                                                         *)
(* The argument rests on what the lock's expiry tells.  It only ever moves *)
(* when the lock is free, and then to a full Ttl ahead, so it pays for the *)
(* start of workers that the answer may bring.  The answer is at most Late *)
(* behind the lock, so the next round of a leader is due a known time      *)
(* before its lock expires: prompt rounds find it locked and step down.    *)
(***************************************************************************)
EXTENDS LeaderElection, FiniteSetTheorems, TLAPS

\* Those that set the lock and have not been told.
Winners == {p \in Replicas : pc[p] = "acquired"}

\* A leader is waiting for, or in the first half of, the round after its election,
\* whose time is bounded by its lock; a winner's lock is as young as its round; and
\* there is one of them at most.
LeaderIsDue ==
    Prompt =>
        /\ \A p \in Replicas : leader[p] =>
            /\ pc[p] \in {"set", "ttl", "held"}
            /\ due[p] + Ttl <= expires + Interval + Late
        /\ \A p \in Winners : due[p] + Ttl <= expires
        /\ \A p, q \in Replicas :
              (leader[p] \/ p \in Winners) /\ (leader[q] \/ q \in Winners) => p = q

\* Every start, made or to be made, has had the lock for a full time to live.
StartsArePaid == (starts + Cardinality(Winners)) * Ttl <= expires

\* The clock waits for every round.
RoundsAreShort == \A p \in Replicas : Running(p) => now <= due[p] + Late

\* A round begins before the lock is gone it finds or sets, or else a sleep and a late
\* answer after it.
RoundsAreDue ==
    failures = 0 =>
        /\ \A p \in Replicas :
            /\ Running(p)
            /\ due[p] < expires + (IF pc[p] = "set" THEN Interval + Late ELSE 0)
        /\ FreeLockIsTaken

IInv == TypeOK /\ LeaderIsDue /\ StartsArePaid /\ RoundsAreShort /\ RoundsAreDue

-----------------------------------------------------------------------------
LEMMA IntervalType == Interval \in Nat \ {0} /\ Ttl \in Nat \ {0} /\ Late \in Nat
BY ElectionAssumption DEF ElectionAssumption, Interval

\* A prompt leader, or winner, is running.
LEMMA LeaderIsRunning ==
    ASSUME LeaderIsDue, Prompt, NEW p \in Replicas, leader[p] \/ p \in Winners
    PROVE  Running(p)
BY DEF LeaderIsDue, Winners, Running, Asking, Answered

\* While a prompt replica is leader, or is about to be, the lock is held.
LEMMA LeaderIsLocked ==
    ASSUME TypeOK, LeaderIsDue, RoundsAreShort, Prompt,
           NEW p \in Replicas, leader[p] \/ p \in Winners
    PROVE  Locked
<1>1. now <= due[p] + Late
    BY LeaderIsRunning DEF RoundsAreShort
<1>2. due[p] + Ttl <= expires + Interval + Late
    BY IntervalType DEF TypeOK, LeaderIsDue, Winners
<1>3. {now, due[p], expires} \subseteq Nat
    BY DEF TypeOK
<1> QED BY <1>1, <1>2, <1>3, IntervalType DEF Prompt, Locked

\* The number of winners is a number.
LEMMA WinnersCount ==
    IsFiniteSet(Winners) /\ Cardinality(Winners) \in Nat
<1>1. Winners \subseteq Replicas
    BY DEF Winners
<1> QED BY <1>1, FS_Subset, FS_CardinalityType, ElectionAssumption DEF ElectionAssumption

LEMMA InitIInv == Init => IInv
<1> SUFFICES ASSUME Init PROVE IInv
    OBVIOUS
<1>1. Winners = {}
    BY DEF Init, Winners
<1>2. StartsArePaid
    BY <1>1, FS_EmptySet, IntervalType DEF Init, StartsArePaid
<1> QED
    BY <1>1, <1>2, IntervalType
       DEF Init, IInv, TypeOK, LeaderIsDue, RoundsAreShort, RoundsAreDue, FreeLockIsTaken,
           Running, Asking

LEMMA TickPreserves == IInv /\ Tick => IInv'
<1> SUFFICES ASSUME IInv, Tick PROVE IInv'
    OBVIOUS
<1> USE IntervalType
<1>1. TypeOK'
    BY DEF IInv, TypeOK, Tick
<1>2. LeaderIsDue' /\ StartsArePaid'
    BY DEF IInv, LeaderIsDue, StartsArePaid, Winners, Tick, Prompt
<1>3. ASSUME NEW p \in Replicas, Running(p) PROVE now + 1 <= due[p] + Late
    BY <1>3 DEF Tick, IInv, TypeOK
<1>4. RoundsAreShort'
    BY <1>3 DEF RoundsAreShort, Tick, Running
<1>5. RoundsAreDue'
    <2> SUFFICES ASSUME failures' = 0 PROVE RoundsAreDue'
        BY DEF RoundsAreDue
    <2>1. ASSUME NEW p \in Replicas
          PROVE  /\ Running(p)
                 /\ due[p] < expires + (IF pc[p] = "set" THEN Interval + Late ELSE 0)
        BY DEF IInv, RoundsAreDue, Tick
    <2>2. ASSUME NEW p \in Replicas PROVE now + 1 < expires + Interval + 2 * Late
        <3>1. due[p] < expires + Interval + Late
            BY <2>1 DEF IInv, TypeOK
        <3> QED BY <1>3, <2>1, <3>1 DEF IInv, TypeOK
    <2>3. FreeLockIsTaken'
        BY <2>2 DEF FreeLockIsTaken, Tick
    <2> QED BY <2>1, <2>3 DEF RoundsAreDue, Tick, Running
<1> QED BY <1>1, <1>2, <1>4, <1>5 DEF IInv

\* Redis sets the lock for p.
LEMMA AcquirePreserves ==
    ASSUME IInv, NEW p \in Replicas, Acquire(p)
    PROVE  IInv'
<1> USE IntervalType
<1>1. TypeOK'
    BY DEF IInv, TypeOK, Acquire, SetLock, Answered
<1>2. Winners' = Winners \cup {p} /\ p \notin Winners
    BY DEF Winners, Acquire, IInv, TypeOK
<1>3. LeaderIsDue'
    <2> SUFFICES ASSUME Prompt PROVE LeaderIsDue'
        BY DEF LeaderIsDue, Prompt
    <2>1. \A q \in Replicas : ~ leader[q] /\ q \notin Winners
        BY LeaderIsLocked DEF IInv, Acquire
    <2>2. Winners' = {p}
        BY <2>1, <1>2 DEF Winners
    <2>3. due[p] + Ttl <= expires'
        BY DEF Acquire, SetLock, IInv, TypeOK
    <2> QED BY <2>1, <2>2, <2>3 DEF LeaderIsDue, Acquire
<1>4. StartsArePaid'
    <2>1. Cardinality(Winners') = Cardinality(Winners) + 1
        BY <1>2, WinnersCount, FS_AddElement
    <2> DEFINE n == starts + Cardinality(Winners)
    <2>2. n \in Nat /\ expires \in Nat /\ now \in Nat /\ expires <= now
        BY WinnersCount DEF IInv, TypeOK, Acquire, Locked
    <2>3. n * Ttl <= expires
        BY DEF IInv, StartsArePaid
    <2>4. (starts + Cardinality(Winners) + 1) * Ttl = n * Ttl + Ttl
        <3> HIDE DEF n
        <3>1. (n + 1) * Ttl = n * Ttl + Ttl
            BY <2>2
        <3> QED BY <3>1 DEF n
    <2>5. starts' + Cardinality(Winners') = starts + Cardinality(Winners) + 1
        BY <2>1, WinnersCount DEF Acquire, IInv, TypeOK
    <2>6. n * Ttl + Ttl <= now + Ttl
        <3> HIDE DEF n
        <3>1. n * Ttl \in Nat
            BY <2>2
        <3> QED BY <2>2, <2>3, <3>1
    <2> QED BY <2>4, <2>5, <2>6 DEF StartsArePaid, Acquire, SetLock
<1>5. RoundsAreShort'
    BY DEF IInv, TypeOK, RoundsAreShort, Acquire, Running, Asking
<1>6. RoundsAreDue'
    <2> SUFFICES ASSUME failures' = 0 PROVE RoundsAreDue'
        BY DEF RoundsAreDue
    <2>1. failures = 0 /\ expires <= now /\ expires' = now + Ttl /\ due[p] <= now
        BY DEF Acquire, Locked, SetLock, IInv, TypeOK
    <2>2. {now, expires} \subseteq Nat /\ \A q \in Replicas : due[q] \in Nat
        BY DEF IInv, TypeOK
    <2>3. ASSUME NEW q \in Replicas
          PROVE  /\ Running(q)'
                 /\ due[q] < expires' + (IF pc'[q] = "set" THEN Interval + Late ELSE 0)
        <3>1. CASE q = p
            BY <2>1, <2>2, <3>1 DEF Acquire, IInv, TypeOK, Running, Answered
        <3>2. CASE q # p
            <4>1. pc'[q] = pc[q] /\ Running(q)
                BY <2>1, <3>2 DEF Acquire, IInv, TypeOK, RoundsAreDue
            <4>2. due[q] < expires + (IF pc[q] = "set" THEN Interval + Late ELSE 0)
                BY <2>1 DEF IInv, RoundsAreDue
            <4> QED BY <2>1, <2>2, <4>1, <4>2 DEF Running
        <3> QED BY <3>1, <3>2
    <2>4. FreeLockIsTaken'
        BY <2>1, <2>2 DEF FreeLockIsTaken, Acquire
    <2> QED BY <2>1, <2>3, <2>4 DEF RoundsAreDue, Acquire
<1> QED BY <1>1, <1>3, <1>4, <1>5, <1>6 DEF IInv

\* Redis answers that the lock is held, or that it is not.
LEMMA AskPreserves ==
    ASSUME IInv, NEW p \in Replicas, Denied(p) \/ ReadTtl(p)
    PROVE  IInv'
<1> USE IntervalType
<1> DEFINE stage == IF pc[p] = "set" THEN "ttl" ELSE IF Locked THEN "held" ELSE "retry"
<1>1. /\ pc[p] \in {"set", "ttl"}
      /\ pc' = [pc EXCEPT ![p] = stage]
      /\ stage \in {"ttl", "held", "retry"}
      /\ UNCHANGED <<now, expires, due, leader, workers, failures, starts>>
    BY DEF Denied, ReadTtl
<1>2. stage = "retry" => ~ Locked
    OBVIOUS
<1>3. pc[p] = "set" => due[p] < expires
    <2>1. pc[p] = "set" => due[p] <= now /\ now < expires
        BY DEF Denied, ReadTtl, Locked, IInv, TypeOK
    <2> QED BY <2>1 DEF IInv, TypeOK
<1>4. Running(p)
    BY <1>1 DEF Running, Asking
<1> HIDE DEF stage
<1>5. TypeOK'
    BY <1>1 DEF IInv, TypeOK, Asking, Answered
<1>6. Winners' = Winners
    BY <1>1 DEF IInv, TypeOK, Winners
<1>7. StartsArePaid'
    BY <1>1, <1>6 DEF IInv, StartsArePaid
<1>8. RoundsAreShort'
    BY <1>1, <1>4 DEF IInv, TypeOK, RoundsAreShort, Running, Asking, Answered
<1>9. LeaderIsDue'
    <2>1. Prompt /\ leader[p] => stage # "retry"
        BY <1>2, LeaderIsLocked DEF IInv
    <2> QED BY <1>1, <1>6, <2>1 DEF IInv, TypeOK, LeaderIsDue, Prompt
<1>10. RoundsAreDue'
    <2> SUFFICES ASSUME failures' = 0 PROVE RoundsAreDue'
        BY DEF RoundsAreDue
    <2>1. ASSUME NEW q \in Replicas
          PROVE  /\ Running(q)'
                 /\ due[q] < expires + (IF pc'[q] = "set" THEN Interval + Late ELSE 0)
        <3>1. CASE q = p
            <4>1. due[p] < expires + (IF pc[p] = "set" THEN Interval + Late ELSE 0)
                BY <1>1 DEF IInv, RoundsAreDue
            <4>2. due[p] < expires
                BY <1>1, <1>3, <4>1 DEF IInv, TypeOK
            <4>3. pc'[p] = stage
                BY <1>1 DEF IInv, TypeOK
            <4> QED
                BY <1>1, <3>1, <4>2, <4>3 DEF IInv, TypeOK, Running, Asking, Answered
        <3>2. CASE q # p
            BY <1>1, <3>2 DEF IInv, TypeOK, RoundsAreDue, Running
        <3> QED BY <3>1, <3>2
    <2>2. FreeLockIsTaken'
        BY <1>1 DEF IInv, RoundsAreDue, FreeLockIsTaken
    <2> QED BY <1>1, <2>1, <2>2 DEF RoundsAreDue
<1> QED BY <1>5, <1>7, <1>8, <1>9, <1>10 DEF IInv

\* Redis runs the second SET.
LEMMA RetryPreserves ==
    ASSUME IInv, NEW p \in Replicas, Retry(p)
    PROVE  IInv'
<1> USE IntervalType
<1>1. /\ pc[p] = "retry" /\ pc' = [pc EXCEPT ![p] = "retried"]
      /\ UNCHANGED <<now, due, leader, workers, failures, starts>>
    BY DEF Retry
<1>2. /\ expires' \in Nat /\ expires <= expires' /\ expires' <= now + Ttl
      /\ now < expires'
      /\ expires' # expires => ~ Locked
    BY DEF Retry, SetLock, Locked, IInv, TypeOK
<1>3. TypeOK'
    BY <1>1, <1>2 DEF IInv, TypeOK, Answered
<1>4. Winners' = Winners
    BY <1>1 DEF IInv, TypeOK, Winners
<1>5. LeaderIsDue'
    <2> SUFFICES ASSUME Prompt PROVE LeaderIsDue'
        BY DEF LeaderIsDue, Prompt
    <2>1. \A q \in Replicas : leader[q] \/ q \in Winners => expires' = expires
        BY <1>2, LeaderIsLocked DEF IInv
    <2>2. ~ leader[p]
        BY <1>1 DEF IInv, LeaderIsDue
    <2> QED BY <1>1, <1>4, <2>1, <2>2 DEF IInv, TypeOK, LeaderIsDue, Winners
<1>6. StartsArePaid'
    <2> DEFINE paid == (starts + Cardinality(Winners)) * Ttl
    <2>1. paid \in Nat /\ paid <= expires
        BY WinnersCount DEF IInv, TypeOK, StartsArePaid
    <2>2. paid <= expires'
        <3> HIDE DEF paid
        <3> QED BY <1>2, <2>1 DEF IInv, TypeOK
    <2> QED BY <1>1, <1>4, <2>2 DEF StartsArePaid
<1>7. RoundsAreShort'
    BY <1>1 DEF IInv, TypeOK, RoundsAreShort, Running, Asking
<1>8. RoundsAreDue'
    <2> SUFFICES ASSUME failures' = 0 PROVE RoundsAreDue'
        BY DEF RoundsAreDue
    <2>1. ASSUME NEW q \in Replicas
          PROVE  /\ Running(q)'
                 /\ due[q] < expires' + (IF pc'[q] = "set" THEN Interval + Late ELSE 0)
        <3>1. due[q] < expires + (IF pc[q] = "set" THEN Interval + Late ELSE 0)
            BY <1>1 DEF IInv, RoundsAreDue
        <3>2. Running(q) /\ (pc'[q] = "set" <=> pc[q] = "set")
            BY <1>1 DEF IInv, TypeOK, RoundsAreDue
        <3>3. Running(q)'
            BY <1>1, <3>2 DEF IInv, TypeOK, Running, Answered
        <3> QED BY <1>2, <3>1, <3>2, <3>3 DEF IInv, TypeOK
    <2>2. FreeLockIsTaken'
        BY <1>1, <1>2 DEF IInv, TypeOK, FreeLockIsTaken
    <2> QED BY <1>1, <2>1, <2>2 DEF RoundsAreDue
<1> QED BY <1>3, <1>5, <1>6, <1>7, <1>8 DEF IInv

\* What going to sleep does to the rounds.
LEMMA SleepKeepsRounds ==
    ASSUME IInv, NEW p \in Replicas, Running(p), pc[p] # "set", Sleep(p),
           UNCHANGED <<now, expires, failures>>
    PROVE  RoundsAreShort' /\ RoundsAreDue'
<1> USE IntervalType
<1>1. /\ pc' = [pc EXCEPT ![p] = "set"]
      /\ due' = [due EXCEPT ![p] = now + Interval]
    BY DEF Sleep
<1>2. RoundsAreShort'
    BY <1>1 DEF IInv, TypeOK, RoundsAreShort, Running
<1>3. RoundsAreDue'
    <2> SUFFICES ASSUME failures' = 0 PROVE RoundsAreDue'
        BY DEF RoundsAreDue
    <2>1. now <= due[p] + Late /\ due[p] < expires + 0
        BY DEF IInv, RoundsAreShort, RoundsAreDue
    <2>2. now + Interval < expires + Interval + Late
        BY <2>1 DEF IInv, TypeOK
    <2>3. ASSUME NEW q \in Replicas
          PROVE  /\ Running(q)'
                 /\ due'[q] < expires + (IF pc'[q] = "set" THEN Interval + Late ELSE 0)
        BY <1>1, <2>2 DEF IInv, TypeOK, RoundsAreDue, Running, Asking
    <2>4. FreeLockIsTaken'
        BY DEF IInv, RoundsAreDue, FreeLockIsTaken
    <2> QED BY <2>3, <2>4 DEF RoundsAreDue
<1> QED BY <1>2, <1>3

\* The winner is told.
LEMMA ElectedPreserves ==
    ASSUME IInv, NEW p \in Replicas, Elected(p)
    PROVE  IInv'
<1> USE IntervalType
<1>1. /\ pc[p] = "acquired"
      /\ leader' = [leader EXCEPT ![p] = TRUE]
      /\ pc' = [pc EXCEPT ![p] = "set"]
      /\ due' = [due EXCEPT ![p] = now + Interval]
      /\ UNCHANGED <<now, expires, failures>>
    BY DEF Elected, Sleep
<1>2. \/ UNCHANGED <<workers, starts>>
      \/ workers' = [workers EXCEPT ![p] = @ + 1] /\ starts' = starts + 1
    BY DEF Elected, StartWorkers
<1>3. Running(p)
    BY <1>1 DEF Running, Answered
<1>4. TypeOK'
    BY <1>1, <1>2 DEF IInv, TypeOK, Asking
<1>5. Winners' = Winners \ {p} /\ p \in Winners
    BY <1>1 DEF IInv, TypeOK, Winners
<1>6. LeaderIsDue'
    <2> SUFFICES ASSUME Prompt PROVE LeaderIsDue'
        BY DEF LeaderIsDue, Prompt
    <2>1. \A q \in Replicas : leader[q] \/ q \in Winners => q = p
        BY <1>5 DEF IInv, LeaderIsDue
    <2>2. due[p] + Ttl <= expires /\ now <= due[p] + Late
        BY <1>3, <1>5 DEF IInv, LeaderIsDue, RoundsAreShort
    <2>3. due'[p] + Ttl <= expires + Interval + Late
        BY <1>1, <2>2 DEF IInv, TypeOK
    <2>4. Winners' = {} /\ pc'[p] = "set"
        BY <1>1, <1>5, <2>1 DEF Winners, IInv, TypeOK
    <2>5. \A q \in Replicas : leader'[q] => q = p
        BY <1>1, <2>1 DEF IInv, TypeOK
    <2> QED BY <1>1, <2>3, <2>4, <2>5 DEF LeaderIsDue
<1>7. StartsArePaid'
    <2>1. Cardinality(Winners') = Cardinality(Winners) - 1
        BY <1>5, WinnersCount, FS_RemoveElement
    <2>2. Cardinality(Winners') \in Nat
        BY <1>5, WinnersCount, FS_RemoveElement, FS_CardinalityType
    <2> DEFINE old == starts + Cardinality(Winners)
               new == starts' + Cardinality(Winners')
    <2>3. old \in Nat /\ new \in Nat /\ (new = old \/ new + 1 = old)
        BY <1>2, <2>1, <2>2, WinnersCount DEF IInv, TypeOK
    <2>4. old * Ttl <= expires /\ expires \in Nat
        BY DEF IInv, StartsArePaid, TypeOK
    <2>5. new * Ttl <= expires
        <3> HIDE DEF old, new
        <3>1. (new + 1) * Ttl = new * Ttl + Ttl /\ new * Ttl \in Nat
            BY <2>3
        <3> QED BY <2>3, <2>4, <3>1
    <2> QED BY <1>1, <2>5 DEF StartsArePaid
<1>8. RoundsAreShort' /\ RoundsAreDue'
    BY <1>1, <1>3, SleepKeepsRounds DEF Elected
<1> QED BY <1>4, <1>6, <1>7, <1>8 DEF IInv

\* The others are told.
LEMMA NotElectedPreserves ==
    ASSUME IInv, NEW p \in Replicas, NotElected(p)
    PROVE  IInv'
<1> USE IntervalType
<1>1. /\ pc[p] \in {"held", "retried"}
      /\ leader' = [leader EXCEPT ![p] = FALSE]
      /\ pc' = [pc EXCEPT ![p] = "set"]
      /\ due' = [due EXCEPT ![p] = now + Interval]
      /\ UNCHANGED <<now, expires, workers, failures, starts>>
    BY DEF NotElected, StepDown, Sleep
<1>2. Running(p)
    BY <1>1 DEF Running, Answered
<1>3. TypeOK'
    BY <1>1 DEF IInv, TypeOK, Asking
<1>4. Winners' = Winners /\ p \notin Winners
    BY <1>1 DEF IInv, TypeOK, Winners
<1>5. LeaderIsDue'
    BY <1>1, <1>4 DEF IInv, TypeOK, LeaderIsDue, Prompt, Winners
<1>6. StartsArePaid'
    BY <1>1, <1>4 DEF IInv, StartsArePaid
<1>7. RoundsAreShort' /\ RoundsAreDue'
    BY <1>1, <1>2, SleepKeepsRounds DEF NotElected
<1> QED BY <1>3, <1>5, <1>6, <1>7 DEF IInv

\* A replica leaves its round.
LEMMA FailurePreserves ==
    ASSUME IInv, NEW p \in Replicas, CallFails(p) \/ Crash(p)
    PROVE  IInv'
<1> USE IntervalType
<1>1. /\ pc' = [pc EXCEPT ![p] = IF CallFails(p) THEN "ended" ELSE "down"]
      /\ leader' = [leader EXCEPT ![p] = FALSE]
      /\ workers' \in [Replicas -> 0 .. starts]
      /\ failures' = failures + 1
      /\ UNCHANGED <<now, expires, due, starts>>
    BY DEF CallFails, Crash, Fail, StepDown, IInv, TypeOK
<1>2. TypeOK'
    BY <1>1 DEF IInv, TypeOK
<1>3. Winners' = Winners \ {p}
    BY <1>1 DEF IInv, TypeOK, Winners
<1>4. LeaderIsDue'
    BY <1>1, <1>3 DEF IInv, TypeOK, LeaderIsDue, Prompt, Winners
<1>5. StartsArePaid'
    <2> DEFINE old == starts + Cardinality(Winners)
               new == starts + Cardinality(Winners')
    <2>1. IsFiniteSet(Winners') /\ Cardinality(Winners') <= Cardinality(Winners)
        BY <1>3, WinnersCount, FS_Subset
    <2>2. old \in Nat /\ new \in Nat /\ new <= old
        BY <2>1, WinnersCount, FS_CardinalityType DEF IInv, TypeOK
    <2>3. old * Ttl <= expires /\ expires \in Nat
        BY DEF IInv, StartsArePaid, TypeOK
    <2>4. new * Ttl <= expires
        <3> HIDE DEF old, new
        <3>1. PICK d \in Nat : old = new + d
            BY <2>2
        <3>2. old * Ttl = new * Ttl + d * Ttl /\ d * Ttl \in Nat /\ new * Ttl \in Nat
            BY <2>2, <3>1
        <3> QED BY <2>3, <3>2
    <2> QED BY <1>1, <2>4 DEF StartsArePaid
<1>6. RoundsAreShort'
    BY <1>1 DEF IInv, TypeOK, RoundsAreShort, Running, Asking, Answered
<1>7. RoundsAreDue'
    BY <1>1 DEF IInv, TypeOK, RoundsAreDue
<1> QED BY <1>2, <1>4, <1>5, <1>6, <1>7 DEF IInv

LEMMA RestartPreserves ==
    ASSUME IInv, NEW p \in Replicas, Restart(p)
    PROVE  IInv'
<1> USE IntervalType
<1>1. /\ pc[p] = "down" /\ pc' = [pc EXCEPT ![p] = "set"]
      /\ due' = [due EXCEPT ![p] = now]
      /\ UNCHANGED <<now, expires, leader, workers, failures, starts>>
    BY DEF Restart
<1>2. failures # 0
    BY <1>1 DEF IInv, RoundsAreDue, Running, Asking, Answered
<1>3. Prompt => ~ leader[p]
    BY <1>1 DEF IInv, LeaderIsDue
<1>4. Winners' = Winners /\ p \notin Winners
    BY <1>1 DEF IInv, TypeOK, Winners
<1>5. TypeOK'
    BY <1>1 DEF IInv, TypeOK, Asking
<1>6. LeaderIsDue'
    BY <1>1, <1>3, <1>4 DEF IInv, TypeOK, LeaderIsDue, Prompt, Winners
<1>7. StartsArePaid' /\ RoundsAreDue'
    BY <1>1, <1>2, <1>4 DEF IInv, StartsArePaid, RoundsAreDue
<1>8. RoundsAreShort'
    BY <1>1 DEF IInv, TypeOK, RoundsAreShort, Running
<1> QED BY <1>5, <1>6, <1>7, <1>8 DEF IInv

LEMMA StepPreserves == IInv /\ [Next]_vars => IInv'
<1> SUFFICES ASSUME IInv, [Next]_vars PROVE IInv'
    OBVIOUS
<1>1. CASE UNCHANGED vars
    BY <1>1
       DEF vars, IInv, TypeOK, LeaderIsDue, StartsArePaid, RoundsAreShort, RoundsAreDue,
           FreeLockIsTaken, Running, Prompt, Winners
<1>2. CASE Tick
    BY <1>2, TickPreserves
<1>3. ASSUME NEW p \in Replicas, Round(p) PROVE IInv'
    BY <1>3, AcquirePreserves, AskPreserves, RetryPreserves, ElectedPreserves,
       NotElectedPreserves DEF Round
<1>4. ASSUME NEW p \in Replicas, CallFails(p) \/ Crash(p) \/ Restart(p) PROVE IInv'
    BY <1>4, FailurePreserves, RestartPreserves
<1> QED BY <1>1, <1>2, <1>3, <1>4 DEF Next

\* IInv is an invariant of the specification.
THEOREM Invariance == Spec => []IInv
<1>1. IInv /\ [Next]_vars => IInv'
    BY StepPreserves
<1> QED BY InitIInv, <1>1, PTL DEF Spec

-----------------------------------------------------------------------------
\* Type correctness of the electors, the lock and the counters (leader.py:9-30).
THEOREM TypeCorrect == Spec => []TypeOK
<1>1. IInv => TypeOK
    BY DEF IInv
<1> QED BY Invariance, <1>1, PTL

\* A prompt leader's lock is still held, although its sleep began only with the answer:
\* it steps down before the lock expires (leader.py:18, 27-30).
THEOREM LeaderIsCovered == Spec => []LeaderHoldsLock
<1>1. IInv => LeaderHoldsLock
    BY LeaderIsLocked DEF IInv, LeaderHoldsLock
<1> QED BY Invariance, <1>1, PTL

\* No two replicas take themselves for the leader if rounds are prompt
\* (leader.py:17-30).
THEOREM LeadershipIsExclusive == Spec => []AtMostOneLeader
<1>1. IInv => AtMostOneLeader
    BY DEF IInv, LeaderIsDue, AtMostOneLeader
<1> QED BY Invariance, <1>1, PTL

\* All replicas together start at most one pair of workers per time to live, however
\* late the rounds are (leader.py:18-22, main.py:264-276).
THEOREM StartsAreRare == Spec => []OneStartPerLock
<1>1. IInv => OneStartPerLock
    <2> SUFFICES ASSUME IInv PROVE OneStartPerLock
        OBVIOUS
    <2> DEFINE c == Cardinality(Winners)
    <2>1. starts \in Nat /\ c \in Nat /\ {expires, now} \subseteq Nat /\ expires <= now + Ttl
        BY IntervalType, WinnersCount DEF IInv, TypeOK
    <2>2. (starts + c) * Ttl <= expires
        BY DEF IInv, StartsArePaid
    <2> HIDE DEF c
    <2>3. (starts + c) * Ttl = starts * Ttl + c * Ttl /\ starts * Ttl \in Nat /\ c * Ttl \in Nat
        BY <2>1, IntervalType
    <2>4. starts * Ttl <= now + Ttl
        BY <2>1, <2>2, <2>3, IntervalType
    <2> QED BY <2>4 DEF OneStartPerLock
<1> QED BY Invariance, <1>1, PTL

\* A lock that expired is set again in the round after it, however the answers of two
\* rounds are delayed (leader.py:17-30).
THEOREM FreeLockIsRetaken == Spec => []FreeLockIsTaken
<1>1. IInv => FreeLockIsTaken
    BY DEF IInv, RoundsAreDue, FreeLockIsTaken
<1> QED BY Invariance, <1>1, PTL
=============================================================================
