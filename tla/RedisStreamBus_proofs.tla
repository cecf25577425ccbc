------------------------ MODULE RedisStreamBus_proofs ------------------------
(***************************************************************************)
(* The safety properties of RedisStreamBus for any number of processes,    *)
(* messages, crashes and failed calls, and any MAXLEN and read counts.     *)
(*                                                                         *)
(* Nothing is forgotten since a read takes the oldest messages there are,  *)
(* so what it passes over had been trimmed, and Publish has written that   *)
(* down.  Messages are taken up in order since what is left of a batch is  *)
(* younger than what was taken.  And a handler runs again on a message     *)
(* only if an acknowledgement did not come, which a crash or a failed call *)
(* pays for: the pending messages that were handled are at most as many,   *)
(* less the repeats.                                                       *)
(***************************************************************************)
EXTENDS RedisStreamBus, FiniteSetTheorems, WellFoundedInduction, TLAPS

\* What was trimmed unread is lost, and nothing else is.
LostWasTrimmed ==
    /\ \A m \in lost : m <= trimmed
    /\ delivered + 1 .. trimmed \subseteq lost

\* What each consumer has in hand.
InHand ==
    \A p \in Processes :
        /\ mode[p] \in {"off", "down", "start"} => seen[p] = 0 /\ stage[p] = "idle" /\ batch[p] = {}
        /\ \A m \in batch[p] : m > seen[p]
        /\ stage[p] # "idle" => cur[p] = seen[p] /\ cur[p] \in 1 .. delivered
        /\ stage[p] = "acking" => cur[p] \in attempted

HandledWasDelivered == attempted \subseteq 1 .. delivered /\ succeeded \subseteq attempted

IInv ==
    /\ TypeOK /\ LostWasTrimmed /\ InHand /\ HandledWasDelivered
    /\ AckedWasAttempted /\ NothingForgotten

\* A step takes messages up in order.
TakenInOrder ==
    \A p \in Processes : stage[p] = "idle" /\ stage'[p] = "handling" => cur'[p] > seen[p]

-----------------------------------------------------------------------------
LEMMA ConstantsAreNumbers ==
    /\ MaxLen \in Nat \ {0} /\ ReadCount \in Nat \ {0} /\ ReplayCount \in Nat \ {0}
    /\ MaxMessages \in Nat /\ MaxCrashes \in Nat /\ MaxErrors \in Nat
BY StreamAssumption DEF StreamAssumption

LEMMA CountersAreNumbers ==
    ASSUME TypeOK
    PROVE  /\ added \in Nat /\ trimmed \in Nat /\ delivered \in Nat
           /\ crashes \in Nat /\ errors \in Nat /\ repeats \in Nat
BY DEF TypeOK

LEMMA LaterInterval ==
    ASSUME NEW i \in Nat, NEW j \in Nat, NEW n \in Nat, i <= j
    PROVE  j + 1 .. n \subseteq i + 1 .. n
OBVIOUS

\* A bounded set of numbers is finite and has a largest member.
LEMMA LargestExists ==
    ASSUME NEW b \in Nat, NEW S \in SUBSET (0 .. b), S # {}
    PROVE  \E m \in S : \A k \in S : k <= m
<1> DEFINE gaps == {b - m : m \in S}
<1>1. gaps \subseteq Nat /\ gaps # {}
  <2>1. \A m \in S : m \in Nat /\ m <= b
    OBVIOUS
  <2>2. \A m \in S : b - m \in Nat
    BY <2>1
  <2>3. \A m \in S : b - m \in gaps
    OBVIOUS
  <2>4. ASSUME NEW x \in gaps PROVE x \in Nat
    BY <2>2
  <2> QED BY <2>3, <2>4
<1>2. PICK x \in gaps : \A y \in gaps : ~(<<y, x>> \in OpToRel(<, Nat))
  <2> HIDE DEF gaps
  <2> QED BY <1>1, NatLessThanWellFounded, WFMin, Zenon
<1>3. PICK m \in S : x = b - m
  BY <1>2
<1>4. \A y \in gaps : x <= y
  <2> HIDE DEF gaps
  <2> TAKE y \in gaps
  <2>1. x \in Nat /\ y \in Nat
    BY <1>1
  <2>2. ~(y < x)
    BY <1>2, <2>1 DEF OpToRel
  <2> QED BY <2>1, <2>2
<1>5. ASSUME NEW k \in S PROVE k <= m
  <2>1. b - m <= b - k
    BY <1>3, <1>4
  <2> QED BY <2>1
<1> QED BY <1>5

\* Oldest takes from its set, and all of it that is older than what it takes.
LEMMA OldestIsClosed ==
    ASSUME NEW b \in Nat, NEW S \in SUBSET (0 .. b), NEW n \in Nat,
           NEW m \in Oldest(n, S), NEW k \in S, k <= m
    PROVE  m \in S /\ k \in Oldest(n, S)
<1> DEFINE below(x) == {j \in S : j < x}
<1>1. m \in S /\ Cardinality(below(m)) < n
  BY DEF Oldest
<1>2. IsFiniteSet(S)
  <2>1. IsFiniteSet(0 .. b)
    BY FS_Interval
  <2> QED BY <2>1, FS_Subset
<1>3. IsFiniteSet(below(m)) /\ below(k) \subseteq below(m)
  <2>1. below(m) \subseteq S
    OBVIOUS
  <2>2. ASSUME NEW j \in S, j < k PROVE j < m
    <3>1. j \in 0 .. b /\ k \in 0 .. b /\ m \in 0 .. b
      BY <1>1
    <3> QED BY <2>2, <3>1
  <2>3. below(k) \subseteq below(m)
    BY <2>2
  <2> QED BY <1>2, <2>1, <2>3, FS_Subset
<1>4. /\ IsFiniteSet(below(k)) /\ Cardinality(below(k)) <= Cardinality(below(m))
      /\ Cardinality(below(k)) \in Nat /\ Cardinality(below(m)) \in Nat
  BY <1>3, FS_Subset, FS_CardinalityType
<1>5. Cardinality(below(k)) < n
  BY <1>1, <1>4
<1> QED BY <1>1, <1>5 DEF Oldest

\* The oldest one has nothing older.
LEMMA OldestOne ==
    ASSUME NEW b \in Nat, NEW S \in SUBSET (0 .. b), NEW m \in Oldest(1, S)
    PROVE  m \in S /\ \A k \in S : m <= k
<1> DEFINE below == {j \in S : j < m}
<1>1. m \in S /\ Cardinality(below) < 1
  BY DEF Oldest
<1>2. IsFiniteSet(below)
  <2>1. IsFiniteSet(0 .. b)
    BY FS_Interval
  <2> QED BY <2>1, FS_Subset
<1>3. below = {}
  BY <1>1, <1>2, FS_EmptySet, FS_CardinalityType
<1> QED BY <1>1, <1>3

-----------------------------------------------------------------------------
LEMMA InitInv == Init => IInv
<1> SUFFICES ASSUME Init PROVE IInv
  OBVIOUS
<1>1. 1 .. 0 = {} /\ 0 + 1 .. 0 = {}
  OBVIOUS
<1>2. TypeOK
  BY <1>1 DEF Init, TypeOK
<1> QED BY <1>1, <1>2 DEF Init, IInv, LostWasTrimmed, InHand, HandledWasDelivered,
        AckedWasAttempted, NothingForgotten

\* XADD: what the trim passes over unread is lost.
LEMMA PublishInv == IInv /\ Publish => IInv'
<1> SUFFICES ASSUME IInv, Publish PROVE IInv'
  OBVIOUS
<1>1. /\ added \in Nat /\ trimmed \in Nat /\ delivered \in Nat /\ trimmed <= added /\ delivered <= added
      /\ MaxLen \in Nat \ {0}
  BY ConstantsAreNumbers, CountersAreNumbers DEF IInv, TypeOK
<1>2. /\ added' = added + 1 /\ trimmed' \in trimmed .. added
      /\ trimmed' = trimmed \/ trimmed' + MaxLen <= added + 1
      /\ lost' = lost \cup {m \in trimmed + 1 .. trimmed' : m > delivered}
      /\ UNCHANGED <<delivered, pel, mode, batch, cur, stage, crashes, errors, attempted, succeeded,
                     repeats, acked, seen>>
  BY DEF Publish, faults, outcome
<1>3. TypeOK'
  <2>1. trimmed' \in Nat /\ trimmed' <= added' /\ delivered <= added' /\ added' \in Nat
    BY <1>1, <1>2
  <2>2. 1 .. added \subseteq 1 .. added' /\ lost' \subseteq 1 .. added'
    BY <1>1, <1>2, <2>1 DEF IInv, TypeOK
  <2> QED BY <1>2, <2>1, <2>2 DEF IInv, TypeOK
<1>4. LostWasTrimmed'
  <2>1. trimmed <= trimmed' /\ trimmed' \in Nat
    BY <1>1, <1>2
  <2>2. lost \subseteq 1 .. added
    BY DEF IInv, TypeOK
  <2>3. \A m \in lost' : m <= trimmed'
    BY <1>1, <1>2, <2>1, <2>2 DEF IInv, LostWasTrimmed
  <2>4. delivered + 1 .. trimmed' \subseteq lost'
    BY <1>1, <1>2, <2>1 DEF IInv, LostWasTrimmed
  <2> QED BY <1>2, <2>3, <2>4 DEF LostWasTrimmed
<1>5. NothingForgotten'
  <2>1. 1 .. added' = (1 .. added) \cup {added'} /\ added' \in delivered + 1 .. added'
    BY <1>1, <1>2
  <2>2. delivered + 1 .. added \subseteq delivered + 1 .. added' /\ delivered + 1 .. added' \subseteq 1 .. added'
    BY <1>1, <1>2
  <2>3. lost' \subseteq 1 .. added'
    BY <1>3 DEF TypeOK
  <2>4. lost \subseteq lost'
    BY <1>2
  <2> QED BY <1>2, <2>1, <2>2, <2>3, <2>4 DEF IInv, NothingForgotten
<1> QED BY <1>2, <1>3, <1>4, <1>5 DEF IInv, InHand, HandledWasDelivered, AckedWasAttempted

-----------------------------------------------------------------------------
\* What XREADGROUP delivers: new messages, up to the largest of them and all
\* that was not trimmed before it.
LEMMA DeliverFacts ==
    ASSUME IInv, Deliver(NextBatch)
    PROVE  /\ delivered' \in delivered + 1 .. added
           /\ NextBatch \subseteq delivered + 1 .. delivered'
           /\ \A m \in delivered + 1 .. delivered' : m \in NextBatch \/ m \in lost
           /\ pel' = pel \cup NextBatch
<1> DEFINE S == {m \in delivered + 1 .. added : m > trimmed}
           new == Oldest(ReadCount, S)
<1>1. added \in Nat /\ trimmed \in Nat /\ delivered \in Nat
  BY CountersAreNumbers DEF IInv
<1>2. S \subseteq 0 .. added /\ new \subseteq S /\ NextBatch = new
  BY <1>1 DEF Oldest, NextBatch
<1> HIDE DEF new
<1>3. new # {} /\ pel' = pel \cup new /\ delivered' = CHOOSE m \in new : \A k \in new : k <= m
  BY <1>2 DEF Deliver
<1>4. \E m \in new : \A k \in new : k <= m
  <2>1. new \in SUBSET (0 .. added)
    BY <1>2
  <2> QED BY <1>1, <1>3, <2>1, LargestExists
<1>5. delivered' \in new /\ \A k \in new : k <= delivered'
  BY <1>3, <1>4
<1>6. delivered' \in delivered + 1 .. added /\ new \subseteq delivered + 1 .. delivered'
  BY <1>1, <1>2, <1>5
<1>7. ASSUME NEW m \in delivered + 1 .. delivered' PROVE m \in new \/ m \in lost
  <2>1. CASE m <= trimmed
    <3>1. m \in delivered + 1 .. trimmed
      BY <1>1, <1>6, <1>7, <2>1
    <3> QED BY <3>1 DEF IInv, LostWasTrimmed
  <2>2. CASE ~(m <= trimmed)
    <3>1. m \in S /\ m <= delivered' /\ ReadCount \in Nat
      BY <1>1, <1>6, <1>7, <2>2, ConstantsAreNumbers
    <3>2. delivered' \in Oldest(ReadCount, S) /\ S \in SUBSET (0 .. added)
      BY <1>2, <1>5 DEF new
    <3> HIDE DEF S
    <3>3. m \in Oldest(ReadCount, S)
      BY <1>1, <3>1, <3>2, OldestIsClosed
    <3> QED BY <3>3 DEF new
  <2> QED BY <2>1, <2>2
<1> QED BY <1>2, <1>3, <1>6, <1>7

\* A delivery keeps the group's books, whatever becomes of its answer.
LEMMA DeliverInv ==
    ASSUME IInv, Deliver(NextBatch), UNCHANGED <<added, trimmed, attempted, succeeded, acked, lost>>
    PROVE  /\ delivered' \in Nat /\ delivered <= delivered' /\ delivered' <= added
           /\ 1 .. delivered \subseteq 1 .. delivered' /\ 0 .. delivered \subseteq 0 .. delivered'
           /\ NextBatch \subseteq 1 .. delivered' /\ \A m \in NextBatch : m > delivered
           /\ pel' \subseteq 1 .. delivered'
           /\ LostWasTrimmed' /\ NothingForgotten'
<1>1. added \in Nat /\ trimmed \in Nat /\ delivered \in Nat /\ delivered <= added
  BY CountersAreNumbers DEF IInv, TypeOK
<1>2. /\ delivered' \in Nat /\ delivered <= delivered' /\ delivered' <= added
      /\ 1 .. delivered \subseteq 1 .. delivered' /\ 0 .. delivered \subseteq 0 .. delivered'
      /\ NextBatch \subseteq 1 .. delivered' /\ \A m \in NextBatch : m > delivered
  BY <1>1, DeliverFacts
<1>3. pel' \subseteq 1 .. delivered'
  BY <1>2, DeliverFacts DEF IInv, TypeOK
<1>4. LostWasTrimmed'
  <2>1. delivered' + 1 .. trimmed \subseteq delivered + 1 .. trimmed
    BY <1>1, <1>2, LaterInterval
  <2>2. trimmed' = trimmed /\ lost' = lost
    OBVIOUS
  <2> QED BY <2>1, <2>2 DEF IInv, LostWasTrimmed
<1>5. NothingForgotten'
  <2>1. delivered + 1 .. added = (delivered + 1 .. delivered') \cup (delivered' + 1 .. added)
    BY <1>1, <1>2
  <2>2. delivered + 1 .. delivered' \subseteq pel' \cup lost /\ pel \subseteq pel'
    BY DeliverFacts
  <2>3. pel' \subseteq 1 .. added
    BY <1>1, <1>2, <1>3
  <2> QED BY <2>1, <2>2, <2>3 DEF IInv, NothingForgotten
<1> QED BY <1>2, <1>3, <1>4, <1>5

LEMMA LiveReadInv ==
    ASSUME IInv, NEW p \in Processes, LiveRead(p)
    PROVE  IInv'
<1>1. /\ Deliver(NextBatch) /\ batch' = [batch EXCEPT ![p] = NextBatch \cap Parsable]
      /\ mode[p] = "live" /\ stage[p] = "idle"
      /\ UNCHANGED <<added, trimmed, mode, cur, stage, crashes, errors, attempted, succeeded, repeats,
                     acked, lost, seen>>
  BY DEF LiveRead, faults, outcome
<1>2. /\ delivered' \in Nat /\ delivered <= delivered' /\ delivered' <= added /\ delivered \in Nat
      /\ 1 .. delivered \subseteq 1 .. delivered' /\ 0 .. delivered \subseteq 0 .. delivered'
      /\ NextBatch \subseteq 1 .. delivered' /\ \A m \in NextBatch : m > delivered
      /\ pel' \subseteq 1 .. delivered' /\ LostWasTrimmed' /\ NothingForgotten'
  BY <1>1, DeliverInv, CountersAreNumbers DEF IInv
<1>3. \A q \in Processes : batch'[q] = IF q = p THEN NextBatch \cap Parsable ELSE batch[q]
  BY <1>1 DEF IInv, TypeOK
<1>4. batch' \in [Processes -> SUBSET (1 .. delivered')]
  BY <1>1, <1>2 DEF IInv, TypeOK
<1>5. TypeOK'
  BY <1>1, <1>2, <1>4 DEF IInv, TypeOK
<1>6. InHand'
  <2>1. \A m \in NextBatch : m > seen[p]
    <3>1. seen[p] \in 0 .. delivered
      BY DEF IInv, TypeOK
    <3> QED BY <1>2, <3>1
  <2>2. \A m \in NextBatch \cap Parsable : m > seen[p]
    BY <2>1
  <2>3. \A q \in Processes : cur[q] \in 1 .. delivered => cur[q] \in 1 .. delivered'
    BY <1>2
  <2>4. ASSUME NEW q \in Processes
        PROVE  \A m \in batch'[q] : m > seen'[q]
    BY <1>1, <1>3, <2>2 DEF IInv, InHand
  <2>5. ASSUME NEW q \in Processes, mode'[q] \in {"off", "down", "start"}
        PROVE  seen'[q] = 0 /\ stage'[q] = "idle" /\ batch'[q] = {}
    <3>1. q # p
      BY <1>1, <2>5
    <3> QED BY <1>1, <1>3, <2>5, <3>1 DEF IInv, InHand
  <2> QED BY <1>1, <2>3, <2>4, <2>5 DEF IInv, InHand
<1> QED BY <1>1, <1>2, <1>5, <1>6 DEF IInv, HandledWasDelivered, AckedWasAttempted

LEMMA LiveReadFailsInv ==
    ASSUME IInv, NEW p \in Processes, LiveReadFails(p)
    PROVE  IInv'
<1>1. /\ Deliver(NextBatch) /\ errors' = errors + 1
      /\ UNCHANGED <<added, trimmed, mode, batch, cur, stage, crashes, attempted, succeeded, repeats,
                     acked, lost, seen>>
  BY DEF LiveReadFails, Fail, outcome
<1>2. /\ delivered' \in Nat /\ delivered' <= added
      /\ 1 .. delivered \subseteq 1 .. delivered' /\ 0 .. delivered \subseteq 0 .. delivered'
      /\ pel' \subseteq 1 .. delivered' /\ LostWasTrimmed' /\ NothingForgotten'
  BY <1>1, DeliverInv
<1>3. TypeOK'
  BY <1>1, <1>2 DEF IInv, TypeOK
<1>4. InHand'
  BY <1>1, <1>2 DEF IInv, InHand
<1> QED BY <1>1, <1>2, <1>3, <1>4 DEF IInv, HandledWasDelivered, AckedWasAttempted

-----------------------------------------------------------------------------
\* A start replays what is pending, from the beginning.
LEMMA ReplayReadInv ==
    ASSUME IInv, NEW p \in Processes, ReplayRead(p)
    PROVE  IInv'
<1> DEFINE old == {m \in Oldest(ReplayCount, pel) : m \in Parsable /\ m > trimmed}
<1>1. /\ mode[p] = "start" /\ mode' = [mode EXCEPT ![p] = "replay"]
      /\ batch' = [batch EXCEPT ![p] = old]
      /\ UNCHANGED <<added, trimmed, delivered, pel, cur, stage, crashes, errors, attempted, succeeded,
                     repeats, acked, lost, seen>>
  BY DEF ReplayRead, stream, faults, outcome
<1>2. old \subseteq 1 .. delivered
  BY DEF Oldest, IInv, TypeOK
<1> HIDE DEF old
<1>3. TypeOK'
  BY <1>1, <1>2 DEF IInv, TypeOK
<1>4. \A m \in old : m > 0
  BY <1>2, CountersAreNumbers DEF IInv
<1>5. InHand'
  BY <1>1, <1>4 DEF IInv, TypeOK, InHand
<1> QED BY <1>1, <1>3, <1>5 DEF IInv, LostWasTrimmed, HandledWasDelivered,
        AckedWasAttempted, NothingForgotten

LEMMA ModeInv ==
    ASSUME IInv, NEW p \in Processes, StartFails(p) \/ GoLive(p) \/ Restart(p) \/ Deploy(p)
    PROVE  IInv'
<1>1. /\ mode' \in [Processes -> {"off", "down", "start", "replay", "live", "dead"}]
      /\ \A q \in Processes : mode'[q] \in {"off", "down", "start"} => mode[q] \in {"off", "down", "start"}
      /\ errors' \in {errors, errors + 1}
      /\ UNCHANGED <<added, trimmed, delivered, pel, batch, cur, stage, crashes, attempted, succeeded,
                     repeats, acked, lost, seen>>
  BY DEF StartFails, GoLive, Restart, Deploy, Fail, stream, faults, outcome, IInv, TypeOK
<1>2. TypeOK'
  BY <1>1, CountersAreNumbers DEF IInv, TypeOK
<1>3. InHand'
  BY <1>1 DEF IInv, InHand
<1> QED BY <1>1, <1>2, <1>3 DEF IInv, LostWasTrimmed, HandledWasDelivered,
        AckedWasAttempted, NothingForgotten

\* The oldest of the batch is taken, and it is younger than all before it.
LEMMA YieldInv ==
    ASSUME IInv, NEW p \in Processes, Yield(p)
    PROVE  IInv' /\ cur'[p] > seen[p]
<1>1. PICK m \in Oldest(1, batch[p]) :
        /\ cur' = [cur EXCEPT ![p] = m] /\ batch' = [batch EXCEPT ![p] = @ \ {m}]
        /\ seen' = [seen EXCEPT ![p] = cur'[p]] /\ stage' = [stage EXCEPT ![p] = "handling"]
        /\ UNCHANGED <<added, trimmed, delivered, pel, mode, crashes, errors, attempted, succeeded,
                       repeats, acked, lost>>
  BY DEF Yield, stream, faults, outcome
<1>2. delivered \in Nat /\ batch[p] \subseteq 1 .. delivered /\ batch[p] \in SUBSET (0 .. delivered)
  BY CountersAreNumbers DEF IInv, TypeOK
<1>3. m \in batch[p] /\ \A k \in batch[p] : m <= k
  BY <1>2, OldestOne
<1>4. m \in 1 .. delivered /\ m > seen[p]
  BY <1>2, <1>3 DEF IInv, InHand
<1>5. cur'[p] = m /\ seen'[p] = m /\ stage'[p] = "handling" /\ batch'[p] = batch[p] \ {m}
  BY <1>1 DEF IInv, TypeOK
<1>6. \A q \in Processes : q # p => /\ cur'[q] = cur[q] /\ seen'[q] = seen[q]
                                    /\ stage'[q] = stage[q] /\ batch'[q] = batch[q]
  BY <1>1 DEF IInv, TypeOK
<1>7. mode[p] \notin {"off", "down", "start"}
  BY <1>3 DEF IInv, InHand
<1>8. TypeOK'
  BY <1>1, <1>2, <1>4, <1>5 DEF IInv, TypeOK
<1>9. \A k \in batch'[p] : k > m
  BY <1>2, <1>3, <1>4, <1>5
<1>10. InHand'
  BY <1>1, <1>4, <1>5, <1>6, <1>7, <1>9 DEF IInv, InHand
<1> QED BY <1>1, <1>4, <1>5, <1>8, <1>10 DEF IInv, LostWasTrimmed, HandledWasDelivered,
        AckedWasAttempted, NothingForgotten

LEMMA HandlerEndsInv ==
    ASSUME IInv, NEW p \in Processes, HandlerEnds(p)
    PROVE  IInv'
<1>1. /\ stage[p] = "handling" /\ stage' = [stage EXCEPT ![p] = "acking"]
      /\ attempted' = attempted \cup {cur[p]} /\ repeats' \in {repeats, repeats + 1}
      /\ succeeded' \in {succeeded, succeeded \cup {cur[p]}}
      /\ UNCHANGED <<added, trimmed, delivered, pel, mode, batch, cur, crashes, errors, acked, lost, seen>>
  BY DEF HandlerEnds, stream, faults
<1>2. cur[p] \in 1 .. delivered /\ cur[p] \in 1 .. added
  <2>1. cur[p] \in 1 .. delivered
    BY <1>1 DEF IInv, InHand
  <2> QED BY <2>1, CountersAreNumbers DEF IInv, TypeOK
<1>3. TypeOK'
  BY <1>1, <1>2, CountersAreNumbers DEF IInv, TypeOK
<1>4. \A q \in Processes : stage'[q] = IF q = p THEN "acking" ELSE stage[q]
  BY <1>1 DEF IInv, TypeOK
<1>5. mode[p] \notin {"off", "down", "start"}
  BY <1>1 DEF IInv, InHand
<1>6. InHand'
  BY <1>1, <1>4, <1>5 DEF IInv, InHand
<1>7. HandledWasDelivered' /\ AckedWasAttempted'
  BY <1>1, <1>2 DEF IInv, HandledWasDelivered, AckedWasAttempted
<1> QED BY <1>1, <1>3, <1>6, <1>7 DEF IInv, LostWasTrimmed, NothingForgotten

\* Both ends of an acknowledgement, and a crash, leave p with nothing in hand.
LEMMA ReleaseInHand ==
    ASSUME IInv, NEW p \in Processes, Release(p), UNCHANGED <<delivered, attempted>>,
           \A q \in Processes : q # p => mode'[q] = mode[q] /\ batch'[q] = batch[q] /\ seen'[q] = seen[q],
           mode'[p] \in {"off", "down", "start"} => seen'[p] = 0 /\ batch'[p] = {},
           \A m \in batch'[p] : m > seen'[p]
    PROVE  InHand'
<1>1. stage'[p] = "idle" /\ \A q \in Processes : q # p => stage'[q] = stage[q] /\ cur'[q] = cur[q]
  BY DEF Release, IInv, TypeOK
<1>2. ASSUME NEW q \in Processes, q # p
      PROVE  /\ mode'[q] = mode[q] /\ batch'[q] = batch[q] /\ seen'[q] = seen[q]
             /\ stage'[q] = stage[q] /\ cur'[q] = cur[q]
  BY <1>1, <1>2
<1> QED BY <1>1, <1>2 DEF IInv, InHand

LEMMA AckInv ==
    ASSUME IInv, NEW p \in Processes, Ack(p)
    PROVE  IInv'
<1>1. /\ stage[p] = "acking" /\ pel' = pel \ {cur[p]} /\ acked' = acked \cup {cur[p]}
      /\ cur' = [cur EXCEPT ![p] = 0] /\ stage' = [stage EXCEPT ![p] = "idle"]
      /\ UNCHANGED <<added, trimmed, delivered, mode, batch, crashes, errors, attempted, succeeded,
                     repeats, lost, seen>>
  BY DEF Ack, Release, stream, faults, outcome
<1>2. cur[p] \in attempted /\ cur[p] \in 1 .. added
  <2>1. cur[p] \in attempted /\ attempted \subseteq 1 .. added
    BY <1>1 DEF IInv, InHand, TypeOK
  <2> QED BY <2>1
<1>3. TypeOK'
  <2>1. pel' \subseteq 1 .. delivered /\ acked' \subseteq 1 .. added
    BY <1>1, <1>2 DEF IInv, TypeOK
  <2>2. stage' \in [Processes -> {"idle", "handling", "acking"}]
    BY <1>1 DEF IInv, TypeOK
  <2>3. cur' \in [Processes -> 0 .. delivered]
    BY <1>1, CountersAreNumbers DEF IInv, TypeOK
  <2> QED BY <1>1, <2>1, <2>2, <2>3 DEF IInv, TypeOK
<1>4. InHand'
  <2>1. Release(p)
    BY <1>1 DEF Release
  <2> QED BY <1>1, <2>1, ReleaseInHand DEF IInv, InHand
<1>5. NothingForgotten' /\ AckedWasAttempted'
  BY <1>1, <1>2 DEF IInv, NothingForgotten, AckedWasAttempted
<1> QED BY <1>1, <1>3, <1>4, <1>5 DEF IInv, LostWasTrimmed, HandledWasDelivered

LEMMA AckFailsInv ==
    ASSUME IInv, NEW p \in Processes, AckFails(p)
    PROVE  IInv'
<1>1. /\ Release(p) /\ errors' = errors + 1
      /\ cur' = [cur EXCEPT ![p] = 0] /\ stage' = [stage EXCEPT ![p] = "idle"]
      /\ UNCHANGED <<added, trimmed, delivered, pel, mode, batch, crashes, attempted, succeeded,
                     repeats, acked, lost, seen>>
  BY DEF AckFails, Fail, Release, stream, outcome
<1>2. TypeOK'
  BY <1>1, CountersAreNumbers DEF IInv, TypeOK
<1>3. InHand'
  BY <1>1, ReleaseInHand DEF IInv, InHand
<1> QED BY <1>1, <1>2, <1>3 DEF IInv, LostWasTrimmed, HandledWasDelivered,
        AckedWasAttempted, NothingForgotten

LEMMA CrashInv ==
    ASSUME IInv, NEW p \in Processes, Crash(p)
    PROVE  IInv'
<1>1. /\ Release(p) /\ crashes' = crashes + 1
      /\ cur' = [cur EXCEPT ![p] = 0] /\ stage' = [stage EXCEPT ![p] = "idle"]
      /\ mode' = [mode EXCEPT ![p] = "down"] /\ batch' = [batch EXCEPT ![p] = {}]
      /\ seen' = [seen EXCEPT ![p] = 0]
      /\ UNCHANGED <<added, trimmed, delivered, pel, errors, attempted, succeeded, repeats, acked, lost>>
  BY DEF Crash, Release, stream, outcome
<1>2. TypeOK'
  <2>1. crashes' \in Nat /\ delivered \in Nat
    BY <1>1, CountersAreNumbers DEF IInv
  <2>2. /\ mode' \in [Processes -> {"off", "down", "start", "replay", "live", "dead"}]
        /\ stage' \in [Processes -> {"idle", "handling", "acking"}]
    BY <1>1 DEF IInv, TypeOK
  <2>3. /\ batch' \in [Processes -> SUBSET (1 .. delivered)]
        /\ cur' \in [Processes -> 0 .. delivered] /\ seen' \in [Processes -> 0 .. delivered]
    BY <1>1, <2>1 DEF IInv, TypeOK
  <2> QED BY <1>1, <2>1, <2>2, <2>3 DEF IInv, TypeOK
<1>3. InHand'
  <2>1. seen'[p] = 0 /\ batch'[p] = {}
    BY <1>1 DEF IInv, TypeOK
  <2>2. \A q \in Processes : q # p => mode'[q] = mode[q] /\ batch'[q] = batch[q] /\ seen'[q] = seen[q]
    BY <1>1 DEF IInv, TypeOK
  <2> QED BY <1>1, <2>1, <2>2, ReleaseInHand
<1> QED BY <1>1, <1>2, <1>3 DEF IInv, LostWasTrimmed, HandledWasDelivered,
        AckedWasAttempted, NothingForgotten

-----------------------------------------------------------------------------
LEMMA StepInv == IInv /\ [Next]_vars => IInv' /\ TakenInOrder
<1> SUFFICES ASSUME IInv, [Next]_vars PROVE IInv' /\ TakenInOrder
  OBVIOUS
<1>1. CASE UNCHANGED vars
  BY <1>1 DEF vars, IInv, TypeOK, LostWasTrimmed, InHand, HandledWasDelivered,
     AckedWasAttempted, NothingForgotten, TakenInOrder
<1>2. CASE Publish
  BY <1>2, PublishInv DEF Publish, TakenInOrder
<1>3. ASSUME NEW p \in Processes, Yield(p) PROVE IInv' /\ TakenInOrder
  <2>1. IInv' /\ cur'[p] > seen[p]
    BY <1>3, YieldInv
  <2>2. \A q \in Processes : q # p => stage'[q] = stage[q]
    BY <1>3 DEF Yield, IInv, TypeOK
  <2> QED BY <2>1, <2>2 DEF TakenInOrder
<1>4. ASSUME NEW p \in Processes,
             ReplayRead(p) \/ GoLive(p) \/ LiveRead(p) \/ StartFails(p) \/ LiveReadFails(p) \/ Restart(p)
             \/ Deploy(p)
      PROVE  IInv' /\ TakenInOrder
  <2>1. IInv'
    BY <1>4, ReplayReadInv, ModeInv, LiveReadInv, LiveReadFailsInv
  <2>2. stage' = stage
    BY <1>4 DEF ReplayRead, GoLive, LiveRead, StartFails, LiveReadFails, Restart, Deploy
  <2> QED BY <2>1, <2>2 DEF TakenInOrder
<1>5. ASSUME NEW p \in Processes, HandlerEnds(p) \/ Ack(p) \/ AckFails(p) \/ Crash(p)
      PROVE  IInv' /\ TakenInOrder
  <2>1. IInv'
    BY <1>5, HandlerEndsInv, AckInv, AckFailsInv, CrashInv
  <2>2. \A q \in Processes : stage'[q] = stage[q] \/ stage'[q] # "handling"
    BY <1>5 DEF HandlerEnds, Ack, AckFails, Crash, Release, IInv, TypeOK
  <2> QED BY <2>1, <2>2 DEF TakenInOrder
<1> QED BY <1>1, <1>2, <1>3, <1>4, <1>5 DEF Next, Consume

LEMMA InvAlways == Spec => []IInv
<1>1. Init => IInv
  BY InitInv
<1>2. IInv /\ [Next]_vars => IInv'
  BY StepInv
<1> QED BY <1>1, <1>2, PTL DEF Spec

\* No step takes a variable of the bus or of a consumer out of its type.
THEOREM TypeCorrect == Spec => []TypeOK
<1>1. IInv => TypeOK
  BY DEF IInv
<1> QED BY <1>1, InvAlways, PTL

\* XACK never overtakes the handler, however processes crash and calls fail
\* (bus.py:107-108, 127-128).
THEOREM AckedAfterAttempt == Spec => []AckedWasAttempted
<1>1. IInv => AckedWasAttempted
  BY DEF IInv
<1> QED BY <1>1, InvAlways, PTL

\* Every message added is still to be delivered, pending, acknowledged, or was
\* trimmed unread (bus.py:89-130).
THEOREM GroupForgetsNothing == Spec => []NothingForgotten
<1>1. IInv => NothingForgotten
  BY DEF IInv
<1> QED BY <1>1, InvAlways, PTL

\* Between two starts a consumer takes messages up in the order of the stream
\* (bus.py:99-130).
THEOREM ConsumersKeepOrder == Spec => InOrder
<1>1. IInv /\ [Next]_vars => [TakenInOrder]_vars
  BY StepInv
<1>2. [][TakenInOrder]_vars <=> InOrder
  BY DEF InOrder, TakenInOrder
<1> QED BY <1>1, <1>2, InvAlways, PTL DEF Spec

-----------------------------------------------------------------------------
(* A lone consumer: what it has in hand is pending, and every handled      *)
(* message that is still pending, every repeat too, was paid for by a      *)
(* crash or a failed call, or is about to be acknowledged.                 *)

Due(p) == IF stage[p] = "acking" THEN 1 ELSE 0

Balanced(p) ==
    /\ batch[p] \subseteq pel
    /\ stage[p] # "idle" => cur[p] \in pel
    /\ repeats + Cardinality(pel \cap attempted) <= crashes + errors + Due(p)

LoneIsBalanced == \A p \in Processes : Alone(p) => Balanced(p)

LEMMA HandledPendingIsFinite ==
    ASSUME IInv
    PROVE  IsFiniteSet(pel \cap attempted) /\ Cardinality(pel \cap attempted) \in Nat
<1>1. pel \cap attempted \subseteq 1 .. delivered /\ delivered \in Nat
  BY CountersAreNumbers DEF IInv, TypeOK
<1>2. IsFiniteSet(1 .. delivered)
  BY <1>1, FS_Interval
<1> QED BY <1>1, <1>2, FS_Subset, FS_CardinalityType

\* A handler's end makes a repeat, or one more handled message; either is due.
LEMMA HandlerEndsBalanced ==
    ASSUME IInv, NEW p \in Processes, Balanced(p), HandlerEnds(p)
    PROVE  Balanced(p)'
<1> DEFINE S == pel \cap attempted
<1>1. /\ stage[p] = "handling" /\ stage'[p] = "acking" /\ attempted' = attempted \cup {cur[p]}
      /\ repeats' = IF cur[p] \in attempted THEN repeats + 1 ELSE repeats
      /\ UNCHANGED <<pel, batch, cur, crashes, errors>>
  BY DEF HandlerEnds, faults, IInv, TypeOK
<1>2. cur[p] \in pel /\ batch[p] \subseteq pel /\ Due(p) = 0 /\ Due(p)' = 1
  BY <1>1 DEF Balanced, Due
<1>3. IsFiniteSet(S) /\ Cardinality(S) \in Nat
  BY HandledPendingIsFinite
<1>4. repeats \in Nat /\ crashes \in Nat /\ errors \in Nat /\ repeats + Cardinality(S) <= crashes + errors
  BY <1>2, <1>3, CountersAreNumbers DEF IInv, Balanced
<1>5. (pel \cap attempted)' = S \cup {cur[p]}
  BY <1>1, <1>2
<1> HIDE DEF S
<1>6. repeats' + Cardinality(S \cup {cur[p]}) <= crashes + errors + 1
  <2>1. CASE cur[p] \in attempted
    <3>1. Cardinality(S \cup {cur[p]}) = Cardinality(S)
      <4>1. S \cup {cur[p]} = S
        BY <1>2, <2>1 DEF S
      <4> QED BY <4>1
    <3>2. repeats' = repeats + 1
      BY <1>1, <2>1
    <3> QED BY <1>3, <1>4, <3>1, <3>2
  <2>2. CASE cur[p] \notin attempted
    <3>1. Cardinality(S \cup {cur[p]}) = Cardinality(S) + 1
      BY <1>3, <2>2, FS_AddElement DEF S
    <3>2. repeats' = repeats
      BY <1>1, <2>2
    <3> QED BY <1>3, <1>4, <3>1, <3>2
  <2> QED BY <2>1, <2>2
<1> QED BY <1>1, <1>2, <1>5, <1>6 DEF Balanced

\* An acknowledgement takes a handled message off the pending ones.
LEMMA AckBalanced ==
    ASSUME IInv, NEW p \in Processes, Balanced(p), Ack(p)
    PROVE  Balanced(p)'
<1> DEFINE S == pel \cap attempted
<1>1. /\ stage[p] = "acking" /\ stage'[p] = "idle" /\ pel' = pel \ {cur[p]}
      /\ UNCHANGED <<batch, crashes, errors, attempted, repeats>>
  BY DEF Ack, Release, faults, outcome, IInv, TypeOK
<1>2. cur[p] \in pel /\ cur[p] \in attempted /\ Due(p) = 1 /\ Due(p)' = 0
  BY <1>1 DEF Balanced, Due, IInv, InHand
<1>3. batch[p] \subseteq pel \ {cur[p]}
  <2>1. \A m \in batch[p] : m > cur[p] /\ m \in Nat
    BY <1>1, CountersAreNumbers DEF IInv, TypeOK, InHand
  <2>2. cur[p] \in Nat
    BY CountersAreNumbers DEF IInv, TypeOK
  <2>3. cur[p] \notin batch[p]
    BY <2>1, <2>2
  <2> QED BY <2>3 DEF Balanced
<1>4. IsFiniteSet(S) /\ Cardinality(S) \in Nat
  BY HandledPendingIsFinite
<1>5. /\ repeats \in Nat /\ crashes \in Nat /\ errors \in Nat
      /\ repeats + Cardinality(S) <= crashes + errors + 1
  BY <1>2, <1>4, CountersAreNumbers DEF IInv, Balanced
<1>6. (pel \cap attempted)' = S \ {cur[p]} /\ cur[p] \in S
  BY <1>1, <1>2
<1> HIDE DEF S
<1>7. Cardinality(S \ {cur[p]}) = Cardinality(S) - 1
  BY <1>4, <1>6, FS_RemoveElement
<1>8. repeats' + Cardinality(S \ {cur[p]}) <= crashes' + errors' + 0
  BY <1>1, <1>4, <1>5, <1>7
<1> QED BY <1>1, <1>2, <1>3, <1>6, <1>8 DEF Balanced

\* A crash, or an acknowledgement that fails, pays for what was due.
LEMMA FaultBalanced ==
    ASSUME IInv, NEW p \in Processes, Balanced(p), Crash(p) \/ AckFails(p)
    PROVE  Balanced(p)'
<1>1. /\ stage'[p] = "idle" /\ batch'[p] \in {batch[p], {}}
      /\ crashes' + errors' = crashes + errors + 1
      /\ UNCHANGED <<pel, attempted, repeats>>
  BY CountersAreNumbers DEF Crash, AckFails, Fail, Release, outcome, IInv, TypeOK
<1>2. Due(p) \in {0, 1} /\ Due(p)' = 0
  BY <1>1 DEF Due
<1>3. repeats' + Cardinality(pel \cap attempted)' <= crashes' + errors' + Due(p)'
  <2> DEFINE c == Cardinality(pel \cap attempted)
  <2>1. c \in Nat /\ c' = c
    BY <1>1, HandledPendingIsFinite
  <2>2. repeats + c <= crashes + errors + Due(p)
    BY DEF Balanced
  <2> HIDE DEF c
  <2>3. repeats' + c' <= crashes' + errors' + Due(p)'
    BY <1>1, <1>2, <2>1, <2>2, CountersAreNumbers DEF IInv
  <2> QED BY <2>3 DEF c
<1> QED BY <1>1, <1>3 DEF Balanced

\* A delivery adds messages that nobody has handled.
LEMMA DeliverBalanced ==
    ASSUME IInv, NEW p \in Processes, Balanced(p), LiveRead(p) \/ LiveReadFails(p)
    PROVE  Balanced(p)'
<1>1. /\ Deliver(NextBatch) /\ stage[p] = "idle" /\ batch'[p] \subseteq batch[p] \cup NextBatch
      /\ errors' \in {errors, errors + 1}
      /\ UNCHANGED <<stage, attempted, repeats, crashes>>
  BY DEF LiveRead, LiveReadFails, Fail, faults, outcome, IInv, TypeOK
<1>2. pel' = pel \cup NextBatch /\ (pel \cap attempted)' = pel \cap attempted
  <2>1. pel' = pel \cup NextBatch /\ \A m \in NextBatch : m \in delivered + 1 .. delivered'
    BY <1>1, DeliverFacts
  <2>2. delivered \in Nat /\ attempted \subseteq 1 .. delivered
    BY CountersAreNumbers DEF IInv, HandledWasDelivered
  <2>3. \A m \in NextBatch : m \notin attempted
    BY <2>1, <2>2
  <2> QED BY <1>1, <2>1, <2>3
<1>3. repeats' + Cardinality(pel \cap attempted)' <= crashes' + errors' + Due(p)'
  <2> DEFINE c == Cardinality(pel \cap attempted)
  <2>1. c \in Nat /\ c' = c /\ Due(p) = 0 /\ Due(p)' = 0
    BY <1>1, <1>2, HandledPendingIsFinite DEF Due
  <2>2. repeats + c <= crashes + errors + Due(p)
    BY DEF Balanced
  <2> HIDE DEF c
  <2>3. repeats' + c' <= crashes' + errors' + Due(p)'
    BY <1>1, <2>1, <2>2, CountersAreNumbers DEF IInv
  <2> QED BY <2>3 DEF c
<1> QED BY <1>1, <1>2, <1>3 DEF Balanced

\* The other steps change neither the account nor what is pending.
LEMMA RestBalanced ==
    ASSUME IInv, NEW p \in Processes, Balanced(p),
           ReplayRead(p) \/ StartFails(p) \/ GoLive(p) \/ Yield(p) \/ Restart(p) \/ Deploy(p)
    PROVE  Balanced(p)'
<1>1. /\ batch'[p] \subseteq pel
      /\ stage'[p] # "idle" => cur'[p] \in pel
      /\ Due(p) \in {0, 1} /\ Due(p)' = Due(p)
      /\ errors' \in {errors, errors + 1}
      /\ UNCHANGED <<pel, attempted, repeats, crashes>>
  <2>1. CASE ReplayRead(p)
    BY <2>1 DEF ReplayRead, Oldest, Balanced, Due, faults, outcome, IInv, TypeOK
  <2>2. CASE StartFails(p) \/ GoLive(p) \/ Restart(p) \/ Deploy(p)
    BY <2>2 DEF StartFails, GoLive, Restart, Deploy, Fail, Balanced, Due, faults, outcome
  <2>3. CASE Yield(p)
    <3>1. PICK m \in Oldest(1, batch[p]) :
            cur' = [cur EXCEPT ![p] = m] /\ batch' = [batch EXCEPT ![p] = @ \ {m}]
      BY <2>3 DEF Yield
    <3>2. m \in pel /\ cur'[p] = m /\ batch'[p] \subseteq batch[p]
      BY <3>1 DEF Oldest, Balanced, IInv, TypeOK
    <3> QED BY <2>3, <3>2 DEF Yield, Balanced, Due, faults, outcome, IInv, TypeOK
  <2> QED BY <2>1, <2>2, <2>3
<1>2. repeats' + Cardinality(pel \cap attempted)' <= crashes' + errors' + Due(p)'
  <2> DEFINE c == Cardinality(pel \cap attempted)
  <2>1. c \in Nat /\ c' = c
    BY <1>1, HandledPendingIsFinite
  <2>2. repeats + c <= crashes + errors + Due(p)
    BY DEF Balanced
  <2> HIDE DEF c
  <2>3. repeats' + c' <= crashes' + errors' + Due(p)'
    BY <1>1, <2>1, <2>2, CountersAreNumbers DEF IInv
  <2> QED BY <2>3 DEF c
<1> QED BY <1>1, <1>2 DEF Balanced

LEMMA InitBalanced == Init => LoneIsBalanced
<1>1. Cardinality({}) = 0
  BY FS_EmptySet
<1> QED BY <1>1 DEF Init, LoneIsBalanced, Balanced, Due

\* A process that was not deployed takes no step but to be.
LEMMA OnlyDeployed ==
    ASSUME IInv, NEW q \in Processes, mode[q] = "off",
           Consume(q) \/ StartFails(q) \/ LiveReadFails(q) \/ AckFails(q) \/ Crash(q) \/ Restart(q)
    PROVE  FALSE
<1>1. stage[q] = "idle" /\ batch[q] = {}
  BY DEF IInv, InHand
<1> QED BY <1>1 DEF Consume, ReplayRead, GoLive, LiveRead, Yield, HandlerEnds, Ack, StartFails,
        LiveReadFails, AckFails, Crash, Restart

LEMMA StepBalanced == IInv /\ LoneIsBalanced /\ [Next]_vars => LoneIsBalanced'
<1> SUFFICES ASSUME IInv, LoneIsBalanced, [Next]_vars, NEW p \in Processes, Alone(p)'
             PROVE  Balanced(p)'
  BY DEF LoneIsBalanced
<1>1. ASSUME NEW q \in Processes, q # p PROVE mode[q] = "off" /\ ~Deploy(q)
  <2>1. mode'[q] = "off"
    BY <1>1 DEF Alone
  <2>2. mode[q] # "off" => mode'[q] # "off"
    BY DEF Next, vars, Consume, Publish, ReplayRead, GoLive, LiveRead, Yield, HandlerEnds, Ack,
       StartFails, LiveReadFails, AckFails, Crash, Restart, Deploy, IInv, TypeOK
  <2>3. ~Deploy(q)
    BY <2>1 DEF Deploy, IInv, TypeOK
  <2> QED BY <2>1, <2>2, <2>3
<1>2. Balanced(p)
  BY <1>1 DEF LoneIsBalanced, Alone
<1>3. CASE UNCHANGED vars
  BY <1>2, <1>3 DEF vars, Balanced, Due
<1>4. CASE Publish
  BY <1>2, <1>4 DEF Publish, faults, outcome, Balanced, Due
<1>5. CASE Consume(p) \/ StartFails(p) \/ LiveReadFails(p) \/ AckFails(p) \/ Crash(p)
           \/ Restart(p) \/ Deploy(p)
  BY <1>2, <1>5, HandlerEndsBalanced, AckBalanced, FaultBalanced, DeliverBalanced, RestBalanced
     DEF Consume
<1> QED BY <1>1, <1>3, <1>4, <1>5, OnlyDeployed DEF Next

\* As long as there is one process, each crash or failed call makes at most one handler
\* run again on a message it had already handled (bus.py:99-110, 124-130).
THEOREM RepeatsAreBounded == Spec => []RepeatsBounded
<1>1. Init => LoneIsBalanced
  BY InitBalanced
<1>2. IInv /\ LoneIsBalanced /\ [Next]_vars => LoneIsBalanced'
  BY StepBalanced
<1>3. IInv /\ LoneIsBalanced => RepeatsBounded
  <2> SUFFICES ASSUME IInv, LoneIsBalanced, \E p \in Processes : Alone(p)
               PROVE  repeats <= crashes + errors
    BY DEF RepeatsBounded
  <2>1. PICK p \in Processes : Alone(p)
    OBVIOUS
  <2>2. Balanced(p) /\ p \in Processes
    BY <2>1 DEF LoneIsBalanced
  <2>3. repeats + Cardinality(pel \cap attempted) <= crashes + errors + Due(p)
    BY <2>2 DEF Balanced
  <2>4. Cardinality(pel \cap attempted) \in Nat /\ repeats \in Nat /\ crashes \in Nat /\ errors \in Nat
    BY HandledPendingIsFinite, CountersAreNumbers DEF IInv
  <2>5. CASE stage[p] = "acking"
    <3>1. cur[p] \in pel \cap attempted
      BY <2>2, <2>5 DEF Balanced, IInv, InHand
    <3>2. Cardinality(pel \cap attempted) # 0
      BY <3>1, HandledPendingIsFinite, FS_EmptySet
    <3> QED BY <2>3, <2>4, <2>5, <3>2 DEF Due
  <2>6. CASE stage[p] # "acking"
    BY <2>3, <2>4, <2>6 DEF Due
  <2> QED BY <2>5, <2>6
<1> QED BY <1>1, <1>2, <1>3, InvAlways, PTL DEF Spec
=============================================================================
