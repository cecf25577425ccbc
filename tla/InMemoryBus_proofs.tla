------------------------ MODULE InMemoryBus_proofs -------------------------
(***************************************************************************)
(* Proofs about InMemoryBus, for any set of consumer tasks, any size of    *)
(* the queue and any number of events.                                     *)
(***************************************************************************)
EXTENDS InMemoryBus, FiniteSetTheorems, SequenceTheorems, TLAPS

\* The events handed out so far are in the order of publication.
TakenInOrder ==
    \A i, j \in DOMAIN taken : i < j => taken[i] < taken[j]

\* The record of drops stays within what was published.
DroppedWasPublished == dropped \in SUBSET (1 .. published)

\* What join() waits for is more than the work that is left: an event that publish()
\* dropped stays unfinished.
Unfinished ==
    unfinished = Len(queue) + Cardinality(Busy) + Cardinality(dropped)

\* The hook is past close() only if join() found nothing to wait for, and
\* from then on nothing is published or handled.
StopIsQuiescent == main = "stopped" => unfinished = 0

\* The inductive invariant.  None of its conjuncts is inductive alone:
\* unfinished - 1 is a natural number by Unfinished, the cardinality
\* of dropped grows by one because of Conservation, and what StopIsQuiescent
\* says of the queue follows from Unfinished.
IInv ==
    /\ TypeOK
    /\ Conservation
    /\ TakenInOrder
    /\ DroppedWasPublished
    /\ ExclusiveHandling
    /\ DropOnlyUnderOverload
    /\ Unfinished
    /\ StopIsQuiescent

-----------------------------------------------------------------------------
(* Sequences and their ranges.                                             *)

LEMMA RangeAppend ==
    ASSUME NEW S, NEW s \in Seq(S), NEW e \in S
    PROVE  Range(Append(s, e)) = Range(s) \cup {e}
<1>1. /\ DOMAIN Append(s, e) = 1 .. Len(s) + 1
      /\ DOMAIN s = 1 .. Len(s)
      /\ Len(s) \in Nat
  BY AppendProperties, LenProperties
<1>2. /\ \A i \in 1 .. Len(s) : Append(s, e)[i] = s[i]
      /\ Append(s, e)[Len(s) + 1] = e
  BY AppendProperties
<1>3. 1 .. Len(s) + 1 = (1 .. Len(s)) \cup {Len(s) + 1}
  BY <1>1
<1>4. QED
  <2>1. Range(Append(s, e)) = {Append(s, e)[i] : i \in (1 .. Len(s)) \cup {Len(s) + 1}}
    BY <1>1, <1>3 DEF Range
  <2>2. Range(s) = {s[i] : i \in 1 .. Len(s)}
    BY <1>1 DEF Range
  <2> QED BY <1>2, <2>1, <2>2

\* What queue holds, given that it is the youngest events in order.
LEMMA QueueIsInterval ==
    ASSUME TypeOK, Conservation
    PROVE  /\ Len(queue) \in Nat
           /\ DOMAIN queue = 1 .. Len(queue)
           /\ Queued = published - Len(queue) + 1 .. published
<1>1. Len(queue) \in Nat /\ DOMAIN queue = 1 .. Len(queue) /\ published \in Nat
  BY LenProperties DEF TypeOK
<1>2. \A i \in 1 .. Len(queue) : queue[i] = published - Len(queue) + i
  BY <1>1 DEF Conservation
<1>3. Queued = {published - Len(queue) + i : i \in 1 .. Len(queue)}
  BY <1>1, <1>2 DEF Queued, Range
<1>4. ASSUME NEW e \in published - Len(queue) + 1 .. published
      PROVE  e \in Queued
  <2>1. e - (published - Len(queue)) \in 1 .. Len(queue)
    BY <1>1
  <2>2. e = published - Len(queue) + (e - (published - Len(queue)))
    BY <1>1
  <2>3. QED
    BY <2>1, <2>2, <1>3
<1>5. ASSUME NEW e \in Queued
      PROVE  e \in published - Len(queue) + 1 .. published
  <2>1. PICK i \in 1 .. Len(queue) : e = published - Len(queue) + i
    BY <1>3
  <2>2. Len(queue) <= published
    BY DEF Conservation
  <2>3. QED
    BY <2>1, <2>2, <1>1
<1>6. QED
  BY <1>1, <1>4, <1>5

\* The head of a nonempty queue is the oldest event not handed out or dropped.
LEMMA HeadIsOldest ==
    ASSUME TypeOK, Conservation, queue # <<>>
    PROVE  /\ Len(queue) \in Nat \ {0}
           /\ Head(queue) = queue[1]
           /\ Head(queue) = published - Len(queue) + 1
           /\ Head(queue) \in Nat \ {0}
           /\ Tail(queue) \in Seq(Nat \ {0})
           /\ Len(Tail(queue)) = Len(queue) - 1
           /\ \A i \in 1 .. Len(queue) - 1 : Tail(queue)[i] = queue[i + 1]
           /\ Head(queue) \notin Range(taken) \cup dropped
<1>1. /\ Len(queue) \in Nat \ {0}
      /\ Head(queue) \in Nat \ {0}
      /\ Tail(queue) \in Seq(Nat \ {0})
      /\ Len(Tail(queue)) = Len(queue) - 1
      /\ \A i \in 1 .. Len(Tail(queue)) : Tail(queue)[i] = queue[i + 1]
  BY HeadTailProperties, EmptySeq DEF TypeOK
<1>2. Head(queue) = queue[1]
  BY DEF TypeOK
<1>3. 1 \in DOMAIN queue /\ published \in Nat
  BY <1>1, LenProperties DEF TypeOK
<1>4. queue[1] = published - Len(queue) + 1
  BY <1>3 DEF Conservation
<1>5. Head(queue) \notin 1 .. published - Len(queue)
  BY <1>1, <1>2, <1>3, <1>4
<1>6. QED
  BY <1>1, <1>2, <1>4, <1>5 DEF Conservation

-----------------------------------------------------------------------------
(* The inductive invariant, one lemma per action that disturbs it.         *)

LEMMA InitIInv == Init => IInv
<1> SUFFICES ASSUME Init PROVE IInv
  OBVIOUS
<1>1. Range(queue) = {} /\ Range(taken) = {} /\ DOMAIN queue = {} /\ DOMAIN taken = {}
  BY DEF Init, Range
<1>2. Busy = {}
  BY DEF Init, Busy
<1>3. TypeOK
  <2>1. <<>> \in Seq(Nat \ {0}) /\ Len(<<>>) = 0
    BY EmptySeq
  <2>2. 0 <= MaxSize
    BY BusAssumption
  <2>3. QED
    BY <2>1, <2>2 DEF Init, TypeOK
<1>4. Conservation /\ TakenInOrder /\ DroppedWasPublished
  BY <1>1 DEF Init, Conservation, TakenInOrder, DroppedWasPublished
<1>5. ExclusiveHandling /\ DropOnlyUnderOverload /\ StopIsQuiescent
  BY DEF Init, ExclusiveHandling, DropOnlyUnderOverload, StopIsQuiescent
<1>6. Unfinished
  BY <1>2, FS_EmptySet DEF Init, Unfinished
<1>7. QED
  BY <1>3, <1>4, <1>5, <1>6 DEF IInv

LEMMA BusyIsFinite ==
    /\ IsFiniteSet(Busy) /\ Cardinality(Busy) \in Nat
    /\ IsFiniteSet(Busy') /\ Cardinality(Busy') \in Nat
BY BusAssumption, FS_Subset, FS_CardinalityType DEF Busy

LEMMA DroppedIsFinite ==
    ASSUME TypeOK, DroppedWasPublished
    PROVE  IsFiniteSet(dropped) /\ Cardinality(dropped) \in Nat
<1>1. 1 \in Int /\ published \in Int
  BY DEF TypeOK
<1>2. IsFiniteSet(1 .. published)
  BY <1>1, FS_Interval
<1>3. IsFiniteSet(dropped)
  BY <1>2, FS_Subset DEF DroppedWasPublished
<1>4. QED
  BY <1>3, FS_CardinalityType

LEMMA PublishPreserves == IInv /\ Publish => IInv'
<1> SUFFICES ASSUME IInv, Publish PROVE IInv'
  OBVIOUS
<1> USE DEF IInv
<1>1. published \in Nat /\ published + 1 \in Nat \ {0} /\ published' = published + 1
  BY DEF TypeOK, Publish
<1>2. Len(queue) \in Nat /\ DOMAIN queue = 1 .. Len(queue) /\ MaxSize \in Nat \ {0}
  BY QueueIsInterval, BusAssumption
<1>3. /\ Busy' = Busy
      /\ UNCHANGED <<shutdown, pc, holding, main, consumerTask, taken>>
      /\ unfinished' = unfinished + 1
      /\ main = "serving"
  BY DEF Publish, Busy
<1>4. CASE PublishRoom
  <2>1. /\ queue' \in Seq(Nat \ {0})
        /\ Len(queue') = Len(queue) + 1
        /\ \A i \in 1 .. Len(queue) : queue'[i] = queue[i]
        /\ queue'[Len(queue) + 1] = published + 1
        /\ dropped' = dropped
        /\ Len(queue) < MaxSize
    BY <1>1, <1>4, AppendProperties DEF PublishRoom, TypeOK
  <2>2. DOMAIN queue' = 1 .. Len(queue')
    BY <2>1, LenProperties
  <2>3. TypeOK'
    BY <1>1, <1>2, <1>3, <2>1 DEF TypeOK
  <2>4. \A i \in DOMAIN queue' : queue'[i] = published' - Len(queue') + i
    <3> SUFFICES ASSUME NEW i \in 1 .. Len(queue) + 1
                 PROVE  queue'[i] = published - Len(queue) + i
      BY <1>1, <1>2, <2>1, <2>2
    <3>1. CASE i = Len(queue) + 1
      BY <3>1, <2>1, <1>1, <1>2
    <3>2. CASE i \in 1 .. Len(queue)
      BY <3>2, <2>1, <1>2 DEF Conservation
    <3>3. QED
      BY <3>1, <3>2, <1>2
  <2>5. published' - Len(queue') = published - Len(queue) /\ Len(queue') <= published'
    BY <1>1, <1>2, <2>1 DEF Conservation
  <2>6. Conservation'
    BY <1>3, <2>1, <2>4, <2>5 DEF Conservation
  <2>7. DroppedWasPublished' /\ DropOnlyUnderOverload'
    BY <1>1, <1>2, <2>1 DEF DroppedWasPublished, DropOnlyUnderOverload, TypeOK
  <2>8. Unfinished'
    <3>1. Cardinality(Busy) \in Nat /\ Cardinality(dropped) \in Nat
      BY BusyIsFinite, DroppedIsFinite
    <3>2. unfinished = Len(queue) + Cardinality(Busy) + Cardinality(dropped)
      BY DEF Unfinished
    <3>3. unfinished' = Len(queue') + Cardinality(Busy) + Cardinality(dropped)
      BY <1>2, <1>3, <2>1, <3>1, <3>2
    <3> QED BY <1>3, <2>1, <3>3 DEF Unfinished
  <2>9. TakenInOrder' /\ ExclusiveHandling' /\ StopIsQuiescent'
    BY <1>3 DEF TakenInOrder, ExclusiveHandling, StopIsQuiescent
  <2>10. QED
    BY <2>3, <2>6, <2>7, <2>8, <2>9
<1>5. CASE PublishFull
  <2> DEFINE oldest == Head(queue)
  <2>1. Len(queue) = MaxSize /\ queue # <<>>
    BY <1>2, <1>5, EmptySeq DEF PublishFull
  <2>2. /\ oldest = queue[1]
        /\ oldest = published - Len(queue) + 1
        /\ oldest \in Nat \ {0}
        /\ Tail(queue) \in Seq(Nat \ {0})
        /\ Len(Tail(queue)) = Len(queue) - 1
        /\ \A i \in 1 .. Len(queue) - 1 : Tail(queue)[i] = queue[i + 1]
        /\ oldest \notin Range(taken) \cup dropped
    BY <2>1, HeadIsOldest
  <2>3. /\ queue' \in Seq(Nat \ {0})
        /\ Len(queue') = Len(queue)
        /\ \A i \in 1 .. Len(queue) - 1 : queue'[i] = queue[i + 1]
        /\ queue'[Len(queue)] = published + 1
        /\ dropped' = dropped \cup {oldest}
    <3>1. /\ Append(Tail(queue), published + 1) \in Seq(Nat \ {0})
          /\ Len(Append(Tail(queue), published + 1)) = Len(Tail(queue)) + 1
          /\ \A i \in 1 .. Len(Tail(queue)) :
                 Append(Tail(queue), published + 1)[i] = Tail(queue)[i]
          /\ Append(Tail(queue), published + 1)[Len(Tail(queue)) + 1] = published + 1
      BY <1>1, <2>2, AppendProperties
    <3>2. queue' = Append(Tail(queue), published + 1) /\ dropped' = dropped \cup {oldest}
      BY <1>5 DEF PublishFull
    <3>3. QED
      BY <3>1, <3>2, <2>2, <1>2
  <2>4. DOMAIN queue' = 1 .. Len(queue)
    BY <2>3, LenProperties
  <2>5. TypeOK'
    <3>1. Len(queue') <= MaxSize /\ unfinished' \in Nat /\ published' \in Nat
      BY <1>1, <1>2, <1>3, <2>1, <2>3 DEF TypeOK
    <3>2. dropped' \in SUBSET (Nat \ {0})
      BY <2>2, <2>3 DEF TypeOK
    <3>3. QED
      BY <3>1, <3>2, <1>3, <2>3 DEF TypeOK
  <2>6. \A i \in DOMAIN queue' : queue'[i] = published' - Len(queue') + i
    <3> SUFFICES ASSUME NEW i \in 1 .. Len(queue)
                 PROVE  queue'[i] = published + 1 - Len(queue) + i
      BY <1>1, <2>3, <2>4
    <3>1. CASE i = Len(queue)
      BY <3>1, <2>3, <1>1, <1>2
    <3>2. CASE i # Len(queue)
      <4>0. Len(queue) \in Nat
        BY <1>2
      <4>1. i \in 1 .. Len(queue) - 1 /\ i + 1 \in 1 .. Len(queue)
        BY <3>2, <4>0
      <4>2. queue'[i] = queue[i + 1] /\ queue[i + 1] = published - Len(queue) + (i + 1)
        BY <4>1, <2>3, <1>2 DEF Conservation
      <4>3. QED
        BY <4>2, <1>1, <1>2
    <3>3. QED
      BY <3>1, <3>2
  <2>7. Len(queue') <= published'
    BY <1>1, <1>2, <2>3 DEF Conservation
  <2>8. 1 .. published' - Len(queue') = (1 .. published - Len(queue)) \cup {oldest}
    <3>1. published - Len(queue) \in Nat
      BY <1>1, <1>2 DEF Conservation
    <3>2. published' - Len(queue') = published - Len(queue) + 1
      BY <1>1, <1>2, <2>3
    <3>3. QED
      BY <3>1, <3>2, <2>2
  <2>9. /\ Range(taken) \cup dropped' = (1 .. published - Len(queue)) \cup {oldest}
        /\ Range(taken) \cap dropped' = {}
    BY <2>2, <2>3 DEF Conservation
  <2>10. Conservation'
    BY <1>3, <2>6, <2>7, <2>8, <2>9 DEF Conservation
  <2>11. DroppedWasPublished'
    <3>1. oldest \in 1 .. published + 1
      BY <1>1, <1>2, <2>2, <2>1 DEF Conservation
    <3>2. \A e \in dropped : e \in 1 .. published + 1
      BY <1>1 DEF DroppedWasPublished
    <3>3. QED
      BY <3>1, <3>2, <2>3, <1>1 DEF DroppedWasPublished
  <2>12. DropOnlyUnderOverload'
    <3>1. oldest + MaxSize <= published + 1
      BY <1>1, <1>2, <2>1, <2>2
    <3>2. \A e \in dropped : e + MaxSize <= published + 1
      BY <1>1, <1>2 DEF DropOnlyUnderOverload, TypeOK
    <3>3. QED
      BY <3>1, <3>2, <2>3, <1>1 DEF DropOnlyUnderOverload
  <2>13. Unfinished'
    <3>1. Cardinality(dropped') = Cardinality(dropped) + 1
      BY <2>2, <2>3, DroppedIsFinite, FS_AddElement
    <3>2. QED
      BY <3>1, <1>2, <1>3, <2>3, BusyIsFinite, DroppedIsFinite
         DEF Unfinished, TypeOK
  <2>14. TakenInOrder' /\ ExclusiveHandling' /\ StopIsQuiescent'
    BY <1>3 DEF TakenInOrder, ExclusiveHandling, StopIsQuiescent
  <2>15. QED
    BY <2>5, <2>10, <2>11, <2>12, <2>13, <2>14
<1>6. QED
  BY <1>4, <1>5 DEF Publish

LEMMA StartPreserves ==
    ASSUME IInv, NEW c \in Consumers, Start(c)
    PROVE  IInv'
<1> USE DEF IInv
<1>1. /\ UNCHANGED <<queue, unfinished, shutdown, holding, main, published, taken, dropped>>
      /\ pc[c] = "unborn"
      /\ pc' = [pc EXCEPT ![c] = "loop"]
      /\ consumerTask' = c
  BY DEF Start, bus, history
<1>2. \A d \in Consumers : pc'[d] = "handling" <=> pc[d] = "handling"
  BY <1>1 DEF TypeOK
<1>3. Busy' = Busy
  BY <1>2 DEF Busy
<1>4. TypeOK'
  BY <1>1 DEF TypeOK
<1>5. ExclusiveHandling'
  BY <1>1, <1>2 DEF ExclusiveHandling
<1>6. Unfinished' /\ StopIsQuiescent'
  BY <1>1, <1>3 DEF Unfinished, StopIsQuiescent
<1>7. Conservation' /\ TakenInOrder' /\ DroppedWasPublished' /\ DropOnlyUnderOverload'
  BY <1>1 DEF Conservation, TakenInOrder, DroppedWasPublished, DropOnlyUnderOverload
<1>8. QED
  BY <1>4, <1>5, <1>6, <1>7

\* The steps of a consumer that touch neither the queue nor an event.
LEMMA LoopPreserves ==
    ASSUME IInv, NEW c \in Consumers, NEW l \in {"get", "loop", "done"},
           pc[c] \in {"loop", "get"}, pc' = [pc EXCEPT ![c] = l],
           UNCHANGED <<bus, shutdown, holding, main, consumerTask, history>>
    PROVE  IInv'
<1> USE DEF IInv
<1>1. UNCHANGED <<queue, unfinished, shutdown, holding, main, consumerTask,
                  published, taken, dropped>>
  BY DEF bus, history
<1>2. \A d \in Consumers : pc'[d] = "handling" <=> pc[d] = "handling"
  BY DEF TypeOK
<1>3. Busy' = Busy
  BY <1>2 DEF Busy
<1>4. TypeOK'
  BY <1>1 DEF TypeOK
<1>5. ExclusiveHandling'
  BY <1>1, <1>2 DEF ExclusiveHandling
<1>6. Unfinished' /\ StopIsQuiescent'
  BY <1>1, <1>3 DEF Unfinished, StopIsQuiescent
<1>7. Conservation' /\ TakenInOrder' /\ DroppedWasPublished' /\ DropOnlyUnderOverload'
  BY <1>1 DEF Conservation, TakenInOrder, DroppedWasPublished, DropOnlyUnderOverload
<1>8. QED
  BY <1>4, <1>5, <1>6, <1>7

\* Handing the head of the queue to an idle consumer.
LEMMA TakePreserves ==
    ASSUME IInv, NEW c \in Consumers, pc[c] \in {"loop", "get"}, Take(c)
    PROVE  IInv'
<1> USE DEF IInv
<1> DEFINE e == Head(queue)
<1>1. /\ queue # <<>>
      /\ queue' = Tail(queue)
      /\ pc' = [pc EXCEPT ![c] = "handling"]
      /\ holding' = [holding EXCEPT ![c] = e]
      /\ taken' = Append(taken, e)
      /\ UNCHANGED <<unfinished, shutdown, main, consumerTask, published, dropped>>
  BY DEF Take
<1>2. /\ Len(queue) \in Nat \ {0}
      /\ e = published - Len(queue) + 1
      /\ e \in Nat \ {0}
      /\ Tail(queue) \in Seq(Nat \ {0})
      /\ Len(Tail(queue)) = Len(queue) - 1
      /\ \A i \in 1 .. Len(queue) - 1 : Tail(queue)[i] = queue[i + 1]
      /\ e \notin Range(taken) \cup dropped
  BY <1>1, HeadIsOldest
<1>3. published \in Nat /\ DOMAIN queue = 1 .. Len(queue)
  BY LenProperties DEF TypeOK
<1>4. DOMAIN Tail(queue) = 1 .. Len(queue) - 1
  BY <1>2, LenProperties
<1>5. /\ Range(taken') = Range(taken) \cup {e}
      /\ taken' \in Seq(Nat \ {0})
      /\ Len(taken) \in Nat
      /\ DOMAIN taken = 1 .. Len(taken)
      /\ DOMAIN taken' = 1 .. Len(taken) + 1
      /\ \A i \in 1 .. Len(taken) : taken'[i] = taken[i]
      /\ taken'[Len(taken) + 1] = e
  BY <1>1, <1>2, RangeAppend, AppendProperties, LenProperties DEF TypeOK
<1>6. TypeOK'
  BY <1>1, <1>2, <1>5, BusAssumption DEF TypeOK
<1>7. Conservation'
  <2>1. Len(queue') = Len(queue) - 1 /\ Len(queue') <= published'
    BY <1>1, <1>2, <1>3 DEF Conservation
  <2>2. \A i \in DOMAIN queue' : queue'[i] = published' - Len(queue') + i
    <3> SUFFICES ASSUME NEW i \in 1 .. Len(queue) - 1
                 PROVE  Tail(queue)[i] = published - (Len(queue) - 1) + i
      BY <1>1, <1>4, <2>1
    <3>0. Len(queue) \in Nat
      BY <1>2
    <3>1. i + 1 \in 1 .. Len(queue)
      BY <3>0
    <3>2. queue[i + 1] = published - Len(queue) + (i + 1)
      BY <3>1, <1>3 DEF Conservation
    <3>3. QED
      BY <3>0, <3>2, <1>2, <1>3
  <2>3. 1 .. published' - Len(queue') = (1 .. published - Len(queue)) \cup {e}
    <3>1. published - Len(queue) \in Nat
      BY <1>2, <1>3 DEF Conservation
    <3>2. published' - Len(queue') = published - Len(queue) + 1
      BY <1>1, <1>2, <1>3, <2>1
    <3>3. QED
      BY <3>1, <3>2, <1>2
  <2>4. /\ Range(taken') \cup dropped' = (1 .. published - Len(queue)) \cup {e}
        /\ Range(taken') \cap dropped' = {}
    BY <1>1, <1>2, <1>5 DEF Conservation
  <2>5. QED
    BY <2>1, <2>2, <2>3, <2>4 DEF Conservation
<1>8. TakenInOrder'
  <2> SUFFICES ASSUME NEW i \in 1 .. Len(taken) + 1, NEW j \in 1 .. Len(taken) + 1, i < j
               PROVE  taken'[i] < taken'[j]
    BY <1>5 DEF TakenInOrder
  <2>1. i \in 1 .. Len(taken) /\ taken'[i] = taken[i]
    BY <1>5
  <2>2. CASE j = Len(taken) + 1
    <3>1. taken[i] \in Range(taken)
      BY <2>1, <1>5 DEF Range
    <3>2. taken[i] \in 1 .. published - Len(queue)
      BY <3>1 DEF Conservation
    <3>3. QED
      BY <2>1, <2>2, <3>2, <1>2, <1>3, <1>5
  <2>3. CASE j # Len(taken) + 1
    <3>1. j \in 1 .. Len(taken) /\ taken'[j] = taken[j]
      BY <2>3, <1>5
    <3>2. QED
      BY <2>1, <3>1, <1>5 DEF TakenInOrder
  <2>4. QED
    BY <2>2, <2>3
<1>9. ExclusiveHandling'
  <2>1. \A d \in Consumers : holding[d] # 0 => holding[d] \in Range(taken)
    BY DEF ExclusiveHandling
  <2>2. holding'[c] = e /\ \A d \in Consumers \ {c} : holding'[d] = holding[d]
    BY <1>1 DEF TypeOK
  <2>3. \A d \in Consumers \ {c} : holding[d] # e
    BY <2>1, <1>2
  <2>4. pc'[c] = "handling" /\ \A d \in Consumers \ {c} : pc'[d] = pc[d]
    BY <1>1 DEF TypeOK
  <2>5. e # 0 /\ e \in Range(taken')
    BY <1>2, <1>5
  <2>6. ASSUME NEW d \in Consumers
        PROVE  pc'[d] = "handling" <=> holding'[d] # 0
    BY <2>2, <2>4, <2>5 DEF ExclusiveHandling
  <2>7. ASSUME NEW d \in Consumers, holding'[d] # 0
        PROVE  /\ holding'[d] \in Range(taken')
               /\ \A f \in Consumers \ {d} : holding'[f] # holding'[d]
    <3>1. CASE d = c
      BY <3>1, <2>2, <2>3, <2>5
    <3>2. CASE d # c
      <4>1. holding'[d] = holding[d] /\ holding[d] \in Range(taken)
        BY <3>2, <2>1, <2>2, <2>7
      <4>2. \A f \in Consumers \ {d} : holding[f] # holding[d]
        BY <4>1, <2>7 DEF ExclusiveHandling
      <4>3. \A f \in Consumers \ {d} : holding'[f] # holding'[d]
        BY <4>1, <4>2, <2>2, <2>3, <3>2
      <4>4. QED
        BY <4>1, <4>3, <1>5
    <3>3. QED
      BY <3>1, <3>2
  <2>8. QED
    BY <2>6, <2>7 DEF ExclusiveHandling
<1>10. Unfinished'
  <2>1. Busy' = Busy \cup {c} /\ c \notin Busy
    BY <1>1 DEF Busy, TypeOK
  <2>2. Cardinality(Busy') = Cardinality(Busy) + 1
    BY <2>1, BusyIsFinite, FS_AddElement
  <2>3. Len(queue') = Len(queue) - 1
    BY <1>1, <1>2
  <2>4. QED
    BY <2>2, <2>3, <1>1, <1>2, BusyIsFinite, DroppedIsFinite DEF Unfinished, TypeOK
<1>11. DroppedWasPublished' /\ DropOnlyUnderOverload' /\ StopIsQuiescent'
  BY <1>1 DEF DroppedWasPublished, DropOnlyUnderOverload, StopIsQuiescent
<1>12. QED
  BY <1>6, <1>7, <1>8, <1>9, <1>10, <1>11

LEMMA FinishPreserves ==
    ASSUME IInv, NEW c \in Consumers, FinishHandling(c)
    PROVE  IInv'
<1> USE DEF IInv
<1>1. /\ pc[c] = "handling"
      /\ unfinished' = unfinished - 1
      /\ holding' = [holding EXCEPT ![c] = 0]
      /\ pc' = [pc EXCEPT ![c] = "loop"]
      /\ UNCHANGED <<queue, shutdown, main, consumerTask, published, taken, dropped>>
  BY DEF FinishHandling, history
<1>2. Busy' = Busy \ {c} /\ c \in Busy
  BY <1>1 DEF Busy, TypeOK
<1>3. Cardinality(Busy') = Cardinality(Busy) - 1
  BY <1>2, BusyIsFinite, FS_RemoveElement
<1>4. Len(queue) \in Nat
  BY QueueIsInterval
<1>5. unfinished \in Nat /\ unfinished - 1 \in Nat
  BY <1>3, <1>4, BusyIsFinite, DroppedIsFinite DEF Unfinished, TypeOK
<1>6. TypeOK'
  BY <1>1, <1>5 DEF TypeOK
<1>7. Unfinished'
  BY <1>1, <1>3, <1>4, <1>5, BusyIsFinite, DroppedIsFinite DEF Unfinished
<1>8. StopIsQuiescent'
  BY <1>1, <1>5 DEF StopIsQuiescent
<1>9. ExclusiveHandling'
  <2>1. /\ holding'[c] = 0 /\ pc'[c] = "loop"
        /\ \A d \in Consumers \ {c} : holding'[d] = holding[d] /\ pc'[d] = pc[d]
    BY <1>1 DEF TypeOK
  <2>2. QED
    BY <1>1, <2>1 DEF ExclusiveHandling
<1>10. Conservation' /\ TakenInOrder' /\ DroppedWasPublished' /\ DropOnlyUnderOverload'
  BY <1>1 DEF Conservation, TakenInOrder, DroppedWasPublished, DropOnlyUnderOverload
<1>11. QED
  BY <1>6, <1>7, <1>8, <1>9, <1>10

LEMMA ClosePreserves == IInv /\ Close => IInv'
<1> SUFFICES ASSUME IInv, Close PROVE IInv'
  OBVIOUS
<1> USE DEF IInv
<1>1. /\ UNCHANGED <<queue, unfinished, pc, holding, consumerTask,
                     published, taken, dropped>>
      /\ main' = "closing"
      /\ shutdown' = TRUE
  BY DEF Close, bus, history
<1>2. Busy' = Busy
  BY <1>1 DEF Busy
<1>3. TypeOK'
  BY <1>1 DEF TypeOK
<1>4. Unfinished' /\ StopIsQuiescent' /\ ExclusiveHandling'
  BY <1>1, <1>2 DEF Unfinished, StopIsQuiescent, ExclusiveHandling
<1>5. Conservation' /\ TakenInOrder' /\ DroppedWasPublished' /\ DropOnlyUnderOverload'
  BY <1>1 DEF Conservation, TakenInOrder, DroppedWasPublished, DropOnlyUnderOverload
<1>6. QED
  BY <1>3, <1>4, <1>5

\* When nothing is unfinished, nothing waits, runs or was ever dropped.
LEMMA NothingUnfinished ==
    ASSUME IInv, unfinished = 0
    PROVE  queue = <<>> /\ Busy = {} /\ dropped = {}
<1>1. Len(queue) \in Nat /\ Cardinality(Busy) \in Nat /\ Cardinality(dropped) \in Nat
  BY QueueIsInterval, BusyIsFinite, DroppedIsFinite DEF IInv
<1>2. Len(queue) = 0 /\ Cardinality(Busy) = 0 /\ Cardinality(dropped) = 0
  BY <1>1 DEF IInv, Unfinished
<1>3. queue = <<>>
  BY <1>2, EmptySeq DEF IInv, TypeOK
<1>4. IsFiniteSet(Busy) /\ IsFiniteSet(dropped)
  BY BusyIsFinite, DroppedIsFinite DEF IInv
<1>5. QED
  BY <1>2, <1>3, <1>4, FS_EmptySet

\* Cancelling the last consumer interrupts no handler, because none runs.
LEMMA StopPreserves == IInv /\ Stop => IInv'
<1> SUFFICES ASSUME IInv, Stop PROVE IInv'
  OBVIOUS
<1> USE DEF IInv
<1>1. /\ UNCHANGED <<queue, unfinished, shutdown, holding, consumerTask,
                     published, taken, dropped>>
      /\ main' = "stopped"
      /\ unfinished = 0
      /\ pc' = [c \in Consumers |-> IF c = consumerTask THEN "done" ELSE pc[c]]
  BY DEF Stop, bus, history
<1>2. \A c \in Consumers : pc[c] # "handling"
  BY <1>1, NothingUnfinished DEF Busy
<1>3. \A c \in Consumers : pc'[c] # "handling"
  BY <1>1, <1>2
<1>4. Busy = {} /\ Busy' = {}
  BY <1>2, <1>3 DEF Busy
<1>5. TypeOK'
  BY <1>1 DEF TypeOK
<1>6. ExclusiveHandling'
  BY <1>1, <1>2, <1>3 DEF ExclusiveHandling
<1>7. Unfinished' /\ StopIsQuiescent'
  BY <1>1, <1>4 DEF Unfinished, StopIsQuiescent
<1>8. Conservation' /\ TakenInOrder' /\ DroppedWasPublished' /\ DropOnlyUnderOverload'
  BY <1>1 DEF Conservation, TakenInOrder, DroppedWasPublished, DropOnlyUnderOverload
<1>9. QED
  BY <1>5, <1>6, <1>7, <1>8

LEMMA ConsumerPreserves ==
    ASSUME IInv, NEW c \in Consumers, ConsumerStep(c)
    PROVE  IInv'
<1>1. CASE EnterLoop(c)
  <2>1. CASE Take(c)
    BY <1>1, <2>1, TakePreserves DEF EnterLoop
  <2>2. CASE ~Take(c)
    BY <1>1, <2>2, LoopPreserves DEF EnterLoop
  <2>3. QED
    BY <2>1, <2>2
<1>2. CASE ExitLoop(c)
  BY <1>2, LoopPreserves DEF ExitLoop
<1>3. CASE Wake(c)
  BY <1>3, TakePreserves DEF Wake
<1>4. CASE Timeout(c)
  BY <1>4, LoopPreserves DEF Timeout
<1>5. CASE FinishHandling(c)
  BY <1>5, FinishPreserves
<1>6. QED
  BY <1>1, <1>2, <1>3, <1>4, <1>5 DEF ConsumerStep

LEMMA StutterPreserves == IInv /\ UNCHANGED vars => IInv'
<1> SUFFICES ASSUME IInv, UNCHANGED vars PROVE IInv'
  OBVIOUS
<1>1. UNCHANGED <<queue, unfinished, shutdown, pc, holding, main, consumerTask,
                  published, taken, dropped>>
  BY DEF vars
<1>2. Busy' = Busy
  BY <1>1 DEF Busy
<1>3. QED
  BY <1>1, <1>2
     DEF IInv, TypeOK, Conservation, TakenInOrder, DroppedWasPublished,
         ExclusiveHandling, DropOnlyUnderOverload, Unfinished, StopIsQuiescent

LEMMA StepPreserves == IInv /\ [Next]_vars => IInv'
<1> SUFFICES ASSUME IInv, [Next]_vars PROVE IInv'
  OBVIOUS
<1>1. CASE Publish
  BY <1>1, PublishPreserves
<1>2. ASSUME NEW c \in Consumers, Start(c) PROVE IInv'
  BY <1>2, StartPreserves
<1>3. ASSUME NEW c \in Consumers, ConsumerStep(c) PROVE IInv'
  BY <1>3, ConsumerPreserves
<1>4. CASE Close
  BY <1>4, ClosePreserves
<1>5. CASE Stop
  BY <1>5, StopPreserves
<1>6. CASE UNCHANGED vars
  BY <1>6, StutterPreserves
<1>7. QED
  BY <1>1, <1>2, <1>3, <1>4, <1>5, <1>6 DEF Next

-----------------------------------------------------------------------------
(* The theorems.                                                           *)

\* The inductive invariant holds in every reachable state.
THEOREM Invariance == Spec => []IInv
<1>1. QED
  BY InitIInv, StepPreserves, PTL DEF Spec

\* Type correctness; in particular unfinished never becomes negative, so
\* task_done() never raises (bus.py:56).
THEOREM TypeCorrect == Spec => []TypeOK
<1>1. IInv => TypeOK
  BY DEF IInv
<1>2. QED
  BY <1>1, Invariance, PTL

\* Every published event waits, was handed out or was dropped, never two of these.
THEOREM EventsConserved == Spec => []Conservation
<1>1. IInv => Conservation
  BY DEF IInv
<1>2. QED
  BY <1>1, Invariance, PTL

\* No two consumer tasks handle the same event.
THEOREM HandlingExclusive == Spec => []ExclusiveHandling
<1>1. IInv => ExclusiveHandling
  BY DEF IInv
<1>2. QED
  BY <1>1, Invariance, PTL

\* publish() drops only events that max_size younger ones have overrun.
THEOREM OnlyOverloadDrops == Spec => []DropOnlyUnderOverload
<1>1. IInv => DropOnlyUnderOverload
  BY DEF IInv
<1>2. QED
  BY <1>1, Invariance, PTL

\* A shutdown that gets past close() has lost and interrupted nothing.
THEOREM CleanStop == Spec => []StopFindsAllHandled
<1>1. IInv => StopFindsAllHandled
  <2> SUFFICES ASSUME IInv, main = "stopped" PROVE StopFindsAllHandled
    BY DEF StopFindsAllHandled
  <2>1. queue = <<>> /\ Busy = {} /\ dropped = {}
    BY NothingUnfinished DEF IInv, StopIsQuiescent
  <2>2. Range(taken) = 1 .. published
    BY <2>1, EmptySeq DEF IInv, TypeOK, Conservation
  <2>3. \A c \in Consumers : holding[c] = 0
    BY <2>1 DEF IInv, ExclusiveHandling, Busy
  <2>4. QED
    BY <2>2, <2>3 DEF StopFindsAllHandled
<1>2. QED
  BY <1>1, Invariance, PTL

-----------------------------------------------------------------------------
(* The bus implements the lossy FIFO channel.                              *)

\* Everything between the youngest event handed out and the queue was dropped.
LEMMA SkippedWasDropped ==
    ASSUME IInv
    PROVE  /\ Fifo!Newest \in 0 .. published - Len(queue)
           /\ Fifo!Newest + 1 .. published - Len(queue) \subseteq dropped
<1> USE DEF IInv
<1>1. /\ Len(taken) \in Nat /\ DOMAIN taken = 1 .. Len(taken)
      /\ published \in Nat /\ Len(queue) \in Nat /\ Len(queue) <= published
  BY LenProperties DEF TypeOK, Conservation
<1>2. CASE taken = <<>>
  <2>1. Fifo!Newest = 0 /\ Range(taken) = {}
    BY <1>2 DEF Fifo!Newest, Range
  <2>2. QED
    BY <1>1, <2>1 DEF Conservation
<1>3. CASE taken # <<>>
  <2>1. Len(taken) \in DOMAIN taken /\ Fifo!Newest = taken[Len(taken)]
    BY <1>1, <1>3, EmptySeq DEF Fifo!Newest, TypeOK
  <2>2. Fifo!Newest \in 1 .. published - Len(queue)
    BY <2>1 DEF Conservation, Range
  <2>3. ASSUME NEW e \in Range(taken)
        PROVE  e <= Fifo!Newest
    <3>1. PICK i \in DOMAIN taken : e = taken[i]
      BY DEF Range
    <3>2. CASE i = Len(taken)
      BY <2>1, <2>2, <3>1, <3>2, <1>1
    <3>3. CASE i # Len(taken)
      <4>1. e < Fifo!Newest
        BY <1>1, <2>1, <3>1, <3>3 DEF TakenInOrder
      <4>2. e \in 1 .. published - Len(queue)
        BY DEF Conservation
      <4>3. QED
        BY <4>1, <4>2, <2>2, <1>1
    <3>4. QED
      BY <3>2, <3>3
  <2>4. ASSUME NEW e \in Fifo!Newest + 1 .. published - Len(queue)
        PROVE  e \in dropped
    <3>1. e \in 1 .. published - Len(queue) /\ ~(e <= Fifo!Newest)
      BY <2>2, <1>1
    <3>2. QED
      BY <3>1, <2>3 DEF Conservation
  <2>5. QED
    BY <1>1, <2>2, <2>4
<1>4. QED
  BY <1>2, <1>3

LEMMA TakeReceives ==
    ASSUME IInv, NEW c \in Consumers, Take(c)
    PROVE  Fifo!Receive
<1> DEFINE e == Head(queue)
<1>1. queue # <<>> /\ taken' = Append(taken, e) /\ published' = published
  BY DEF Take
<1>2. /\ e = published - Len(queue) + 1
      /\ Len(queue) \in Nat \ {0}
      /\ published \in Nat
  BY <1>1, HeadIsOldest DEF IInv, TypeOK
<1>3. /\ Fifo!Newest \in 0 .. published - Len(queue)
      /\ Fifo!Newest + 1 .. published - Len(queue) \subseteq dropped
  BY SkippedWasDropped
<1>4. e \in Fifo!Newest + 1 .. published
  BY <1>2, <1>3
<1>5. e - 1 = published - Len(queue)
  BY <1>2
<1>6. \A skipped \in Fifo!Newest + 1 .. e - 1 : skipped + MaxSize <= published
  BY <1>3, <1>5 DEF IInv, DropOnlyUnderOverload
<1>7. QED
  BY <1>1, <1>4, <1>6 DEF Fifo!Receive

LEMMA StepRefines == IInv /\ [Next]_vars => [Fifo!Next]_(Fifo!fifoVars)
<1> SUFFICES ASSUME IInv, [Next]_vars PROVE [Fifo!Next]_(Fifo!fifoVars)
  OBVIOUS
<1>1. CASE Publish
  <2>1. Fifo!Send
    BY <1>1 DEF Publish, Fifo!Send
  <2>2. QED
    BY <2>1 DEF Fifo!Next
<1>2. ASSUME NEW c \in Consumers, ConsumerStep(c)
      PROVE  [Fifo!Next]_(Fifo!fifoVars)
  <2>1. CASE Take(c)
    BY <2>1, TakeReceives DEF Fifo!Next
  <2>2. CASE ~Take(c)
    <3>1. UNCHANGED <<published, taken>>
      BY <1>2, <2>2
         DEF ConsumerStep, EnterLoop, ExitLoop, Wake, Timeout, FinishHandling, history
    <3>2. QED
      BY <3>1 DEF Fifo!fifoVars
  <2>3. QED
    BY <2>1, <2>2
<1>3. CASE Close \/ Stop \/ (\E c \in Consumers : Start(c)) \/ UNCHANGED vars
  <2>1. UNCHANGED <<published, taken>>
    BY <1>3 DEF Close, Stop, Start, history, vars
  <2>2. QED
    BY <2>1 DEF Fifo!fifoVars
<1>4. QED
  BY <1>1, <1>2, <1>3 DEF Next

\* Subscribers see the published events in order, none twice, and miss only
\* events overrun by max_size younger ones.
THEOREM Refinement == Spec => RefinesLossyFifo
<1>1. Init => Fifo!Init
  BY DEF Init, Fifo!Init
<1>2. QED
  BY <1>1, StepRefines, Invariance, PTL DEF Spec, RefinesLossyFifo, Fifo!Spec

=============================================================================
