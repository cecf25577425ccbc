----------------------- MODULE LureLifecycle_proofs ------------------------
(***************************************************************************)
(* Proofs about LureLifecycle, for any number of replicas and lures, any   *)
(* times to live, and any number of failures.                              *)
(***************************************************************************)
EXTENDS LureLifecycle, FiniteSetTheorems, TLAPS

\* What was recorded had an id, what has a row was recorded, and only what had
\* an id runs.
IdsUsed ==
    /\ rows \subseteq recorded
    /\ recorded \subseteq used
    /\ pods \subseteq used

\* A replica about to insert a row has an id that is nobody else's and that
\* has no row yet.
InsertsAreFresh ==
    \A r \in Replicas : at[r] = "created" =>
        /\ lure[r] \in used \ recorded
        /\ \A s \in Replicas \ {r} : at[s] = "created" => lure[s] # lure[r]

\* A reaper's snapshot holds expired lures only, and the row it is about to
\* remove belongs to a lure that no longer runs.
ReapsAreDue ==
    \A r \in Replicas :
        /\ todo[r] \subseteq {l \in recorded : Expired(l)}
        /\ at[r] = "deleted" => lure[r] \in todo[r] \ pods

\* The inductive invariant of the safety properties.
IInv ==
    /\ TypeOK
    /\ IdsUsed
    /\ InsertsAreFresh
    /\ ReapsAreDue
    /\ RecordedPodsKeepRow

LEMMA InitIInv == Init => IInv
BY LureAssumption
   DEF Init, IInv, TypeOK, IdsUsed, InsertsAreFresh, ReapsAreDue, RecordedPodsKeepRow

-----------------------------------------------------------------------------
(* One lemma per group of actions.                                         *)

\* The clock only makes more lures expired.
LEMMA TickPreserves == IInv /\ Tick => IInv'
<1> SUFFICES ASSUME IInv, Tick PROVE IInv'
  OBVIOUS
<1>1. /\ now \in Nat /\ now' = now + 1
      /\ UNCHANGED <<rows, pods, recorded, created, at, lure, todo, reaper, failures, used>>
  BY DEF Tick, stores, IInv, TypeOK
<1>2. \A l \in Lures : Expired(l) => Expired(l)'
  BY <1>1, LureAssumption DEF Expired, IInv, TypeOK
<1>3. ReapsAreDue'
  BY <1>1, <1>2 DEF IInv, TypeOK, ReapsAreDue
<1>4. QED
  BY <1>1, <1>3 DEF IInv, TypeOK, IdsUsed, InsertsAreFresh, RecordedPodsKeepRow

\* What a fresh id, whose deployment may or may not come to run, changes.
LEMMA IdentifyKeepsDue ==
    ASSUME IInv, NEW l \in Lures, Identify(l), UNCHANGED now
    PROVE  /\ \A m \in recorded : Expired(m)' <=> Expired(m)
           /\ l \notin recorded \cup rows \cup pods
           /\ created' \in [Lures -> Nat]
           /\ used' = used \cup {l}
BY DEF IInv, TypeOK, IdsUsed, Identify, Expired

LEMMA CreatePreserves ==
    ASSUME IInv, NEW r \in Replicas, NEW l \in Lures, Create(r, l)
    PROVE  IInv'
<1>1. /\ at[r] = "free" /\ Identify(l)
      /\ pods' \subseteq pods \cup {l}
      /\ at' = [at EXCEPT ![r] = "created"]
      /\ lure' = [lure EXCEPT ![r] = l]
      /\ UNCHANGED <<now, rows, todo, reaper, failures, recorded>>
  BY DEF Create, GoTo
<1>2. /\ \A m \in recorded : Expired(m)' <=> Expired(m)
      /\ l \notin recorded \cup rows \cup pods
      /\ created' \in [Lures -> Nat]
      /\ used' = used \cup {l} /\ l \notin used
  BY <1>1, IdentifyKeepsDue DEF Identify
<1>3. TypeOK'
  BY <1>1, <1>2 DEF IInv, TypeOK
<1>4. IdsUsed' /\ RecordedPodsKeepRow'
  BY <1>1, <1>2 DEF IInv, IdsUsed, RecordedPodsKeepRow
<1>5. InsertsAreFresh'
  <2>1. \A s \in Replicas \ {r} : at'[s] = at[s] /\ lure'[s] = lure[s]
    BY <1>1 DEF IInv, TypeOK
  <2>2. at'[r] = "created" /\ lure'[r] = l
    BY <1>1 DEF IInv, TypeOK
  <2>3. \A s \in Replicas \ {r} : at'[s] = "created" => lure'[s] \in used \ recorded
    BY <2>1 DEF IInv, InsertsAreFresh
  <2>4. QED
    BY <1>1, <1>2, <2>1, <2>2, <2>3 DEF IInv, InsertsAreFresh
<1>6. ReapsAreDue'
  <2>1. \A s \in Replicas : at'[s] = "deleted" =>
            lure'[s] = lure[s] /\ at[s] = "deleted"
    BY <1>1 DEF IInv, TypeOK
  <2>2. QED
    BY <1>1, <1>2, <2>1 DEF IInv, ReapsAreDue
<1>7. QED
  BY <1>3, <1>4, <1>5, <1>6 DEF IInv

LEMMA CreateFailsPreserves ==
    ASSUME IInv, NEW r \in Replicas, NEW l \in Lures, CreateFails(r, l)
    PROVE  IInv'
<1>1. /\ Identify(l)
      /\ pods' \subseteq pods \cup {l}
      /\ failures' = failures + 1
      /\ UNCHANGED <<now, rows, at, lure, todo, reaper, recorded>>
  BY DEF CreateFails, Fail
<1>2. /\ \A m \in recorded : Expired(m)' <=> Expired(m)
      /\ l \notin recorded \cup rows \cup pods
      /\ created' \in [Lures -> Nat]
      /\ used' = used \cup {l}
  BY <1>1, IdentifyKeepsDue
<1>3. TypeOK'
  BY <1>1, <1>2 DEF IInv, TypeOK
<1>4. IdsUsed' /\ RecordedPodsKeepRow' /\ InsertsAreFresh'
  BY <1>1, <1>2 DEF IInv, IdsUsed, RecordedPodsKeepRow, InsertsAreFresh
<1>5. ReapsAreDue'
  BY <1>1, <1>2 DEF IInv, ReapsAreDue
<1>6. QED
  BY <1>3, <1>4, <1>5 DEF IInv

LEMMA InsertPreserves ==
    ASSUME IInv, NEW r \in Replicas, Insert(r)
    PROVE  IInv'
<1>1. /\ at[r] = "created"
      /\ rows' = rows \cup {lure[r]}
      /\ recorded' = recorded \cup {lure[r]}
      /\ at' = [at EXCEPT ![r] = "free"]
      /\ lure' = [lure EXCEPT ![r] = NoLure]
      /\ UNCHANGED <<now, created, pods, todo, reaper, failures, used>>
  BY DEF Insert, GoTo
<1>2. lure[r] \in used \ recorded /\ lure[r] \in Lures
  BY <1>1 DEF IInv, TypeOK, InsertsAreFresh
<1>3. TypeOK'
  BY <1>1, <1>2 DEF IInv, TypeOK
<1>4. IdsUsed' /\ RecordedPodsKeepRow'
  BY <1>1, <1>2 DEF IInv, IdsUsed, RecordedPodsKeepRow
<1>5. /\ at'[r] = "free"
      /\ \A s \in Replicas \ {r} : at'[s] = at[s] /\ lure'[s] = lure[s]
  BY <1>1 DEF IInv, TypeOK
<1>6. InsertsAreFresh'
  BY <1>1, <1>2, <1>5 DEF IInv, InsertsAreFresh
<1>7. \A m \in Lures : Expired(m)' <=> Expired(m)
  BY <1>1 DEF Expired
<1>8. ReapsAreDue'
  BY <1>1, <1>5, <1>7 DEF IInv, TypeOK, ReapsAreDue
<1>9. QED
  BY <1>3, <1>4, <1>6, <1>8 DEF IInv

\* Replica r leaves whatever it was doing.  No row or deployment appears, and its
\* own snapshot, the only one to change, holds due lures only.
LEMMA LeavePreserves ==
    ASSUME IInv, NEW r \in Replicas, NEW c \in {"down", "free", "reaping"},
           at' = [at EXCEPT ![r] = c], lure' = [lure EXCEPT ![r] = NoLure],
           rows' \subseteq rows, pods' \subseteq pods,
           NEW due \in SUBSET {l \in recorded : Expired(l)},
           todo' = [todo EXCEPT ![r] = due],
           UNCHANGED <<now, created, used, recorded>>
    PROVE  IdsUsed' /\ InsertsAreFresh' /\ ReapsAreDue'
<1>1. /\ at'[r] \notin {"created", "deleted"} /\ todo'[r] = due
      /\ \A s \in Replicas \ {r} :
            at'[s] = at[s] /\ lure'[s] = lure[s] /\ todo'[s] = todo[s]
  BY DEF IInv, TypeOK
<1>2. \A m \in recorded : Expired(m)' <=> Expired(m)
  BY DEF Expired
<1>3. IdsUsed'
  BY DEF IInv, IdsUsed
<1>4. InsertsAreFresh'
  BY <1>1 DEF IInv, InsertsAreFresh
<1>5. ReapsAreDue'
  BY <1>1, <1>2 DEF IInv, ReapsAreDue
<1>6. QED
  BY <1>3, <1>4, <1>5

\* The same when the snapshot is given up, kept, or kept but for one lure.
LEMMA SnapshotStaysDue ==
    ASSUME IInv, NEW r \in Replicas
    PROVE  /\ {} \in SUBSET {l \in recorded : Expired(l)}
           /\ todo[r] \in SUBSET {l \in recorded : Expired(l)}
           /\ todo[r] \ {lure[r]} \in SUBSET {l \in recorded : Expired(l)}
           /\ {l \in rows : Expired(l)} \in SUBSET {l \in recorded : Expired(l)}
           /\ todo = [todo EXCEPT ![r] = todo[r]]
BY DEF IInv, IdsUsed, ReapsAreDue, TypeOK

\* The actions after which neither store has changed.
LEMMA QuietPreserves ==
    ASSUME IInv, NEW r \in Replicas,
           \/ InsertFails(r) \/ ReapScan(r) \/ ScanFails(r) \/ DeleteNotFound(r)
           \/ RemoveFails(r) \/ ReapDone(r) \/ Crash(r) \/ Restart(r)
    PROVE  IInv'
<1>1. /\ UNCHANGED <<now, rows, pods, recorded, created, used>>
      /\ lure' = [lure EXCEPT ![r] = NoLure]
  BY DEF InsertFails, ReapScan, ScanFails, DeleteNotFound, RemoveFails, ReapDone,
         Crash, Restart, ReaperDies, GoTo, stores
<1>2. \E c \in {"down", "free", "reaping"} : at' = [at EXCEPT ![r] = c]
  BY DEF InsertFails, ReapScan, ScanFails, DeleteNotFound, RemoveFails, ReapDone,
         Crash, Restart, ReaperDies, GoTo
<1>3. \E due \in SUBSET {l \in recorded : Expired(l)} :
          todo' = [todo EXCEPT ![r] = due]
  BY SnapshotStaysDue
     DEF InsertFails, ReapScan, ScanFails, DeleteNotFound, RemoveFails, ReapDone,
         Crash, Restart, ReaperDies
<1>4. IdsUsed' /\ InsertsAreFresh' /\ ReapsAreDue'
  BY <1>1, <1>2, <1>3, LeavePreserves
<1>5. failures' \in Nat /\ reaper' \in [Replicas -> {"running", "dead"}]
  BY DEF InsertFails, ReapScan, ScanFails, DeleteNotFound, RemoveFails, ReapDone,
         Crash, Restart, ReaperDies, Fail, IInv, TypeOK
<1>6. todo' \in [Replicas -> SUBSET Lures]
  BY <1>3 DEF IInv, TypeOK
<1>7. TypeOK'
  <2>1. TypeOK
    BY DEF IInv
  <2>2. at' \in [Replicas -> {"down", "free", "created", "reaping", "deleted"}]
    BY <1>2, <2>1 DEF TypeOK
  <2>3. lure' \in [Replicas -> Lures \cup {NoLure}]
    BY <1>1, <2>1 DEF TypeOK
  <2> QED BY <1>1, <1>5, <1>6, <2>1, <2>2, <2>3 DEF TypeOK
<1>8. RecordedPodsKeepRow'
  BY <1>1 DEF IInv, RecordedPodsKeepRow
<1>9. QED
  BY <1>4, <1>7, <1>8 DEF IInv

LEMMA DeletePreserves ==
    ASSUME IInv, NEW r \in Replicas, Delete(r)
    PROVE  IInv'
<1>1. PICK l \in todo[r] :
          /\ pods' = pods \ {l}
          /\ at' = [at EXCEPT ![r] = "deleted"]
          /\ lure' = [lure EXCEPT ![r] = l]
  BY DEF Delete, GoTo
<1>2. UNCHANGED <<now, rows, created, todo, reaper, failures, used, recorded>>
  BY DEF Delete
<1>3. l \in Lures
  BY DEF IInv, TypeOK
<1>4. TypeOK'
  BY <1>1, <1>2, <1>3 DEF IInv, TypeOK
<1>5. /\ at'[r] = "deleted" /\ lure'[r] = l
      /\ \A s \in Replicas \ {r} : at'[s] = at[s] /\ lure'[s] = lure[s]
  BY <1>1 DEF IInv, TypeOK
<1>6. \A m \in Lures : Expired(m)' <=> Expired(m)
  BY <1>2 DEF Expired
<1>7. IdsUsed' /\ RecordedPodsKeepRow'
  BY <1>1, <1>2 DEF IInv, IdsUsed, RecordedPodsKeepRow
<1>8. InsertsAreFresh'
  BY <1>2, <1>5 DEF IInv, InsertsAreFresh
<1>9. ReapsAreDue'
  <2>1. \A s \in Replicas : todo'[s] \subseteq {m \in recorded' : Expired(m)'}
    BY <1>2, <1>6 DEF IInv, TypeOK, ReapsAreDue
  <2>2. \A s \in Replicas : at'[s] = "deleted" => lure'[s] \in todo'[s] \ pods'
    BY <1>1, <1>2, <1>5 DEF IInv, ReapsAreDue
  <2>3. QED
    BY <2>1, <2>2 DEF ReapsAreDue
<1>10. QED
  BY <1>4, <1>7, <1>8, <1>9 DEF IInv

LEMMA DeleteFailsPreserves ==
    ASSUME IInv, NEW r \in Replicas, DeleteFails(r)
    PROVE  IInv'
<1>1. /\ pods' \subseteq pods
      /\ UNCHANGED <<now, rows, created, used, recorded>>
      /\ failures' = failures + 1
      /\ reaper' = [reaper EXCEPT ![r] = "dead"]
      /\ todo' = [todo EXCEPT ![r] = {}]
      /\ at' = [at EXCEPT ![r] = "free"]
      /\ lure' = [lure EXCEPT ![r] = NoLure]
  BY DEF DeleteFails, Fail, ReaperDies, GoTo
<1>2. IdsUsed' /\ InsertsAreFresh' /\ ReapsAreDue'
  BY <1>1, SnapshotStaysDue, LeavePreserves
<1>3. TypeOK'
  BY <1>1 DEF IInv, TypeOK
<1>4. RecordedPodsKeepRow'
  BY <1>1 DEF IInv, RecordedPodsKeepRow
<1>5. QED
  BY <1>2, <1>3, <1>4 DEF IInv

\* The row removed is that of a deployment already deleted.
LEMMA RemovePreserves ==
    ASSUME IInv, NEW r \in Replicas, Remove(r)
    PROVE  IInv'
<1>1. /\ at[r] = "deleted"
      /\ rows' = rows \ {lure[r]}
      /\ todo' = [todo EXCEPT ![r] = todo[r] \ {lure[r]}]
      /\ at' = [at EXCEPT ![r] = "reaping"]
      /\ lure' = [lure EXCEPT ![r] = NoLure]
      /\ UNCHANGED <<now, created, pods, reaper, failures, used, recorded>>
  BY DEF Remove, GoTo
<1>2. lure[r] \notin pods
  BY <1>1 DEF IInv, ReapsAreDue
<1>3. IdsUsed' /\ InsertsAreFresh' /\ ReapsAreDue'
  BY <1>1, SnapshotStaysDue, LeavePreserves
<1>4. TypeOK'
  BY <1>1 DEF IInv, TypeOK
<1>5. RecordedPodsKeepRow'
  BY <1>1, <1>2 DEF IInv, RecordedPodsKeepRow
<1>6. QED
  BY <1>3, <1>4, <1>5 DEF IInv

LEMMA StutterPreserves == IInv /\ UNCHANGED vars => IInv'
BY DEF vars, IInv, TypeOK, IdsUsed, InsertsAreFresh, ReapsAreDue, Expired, RecordedPodsKeepRow

LEMMA StepPreserves == IInv /\ [Next]_vars => IInv'
<1> SUFFICES ASSUME IInv, [Next]_vars PROVE IInv'
  OBVIOUS
<1>1. CASE Tick
  BY <1>1, TickPreserves
<1>2. ASSUME NEW r \in Replicas, Deploy(r) PROVE IInv'
  BY <1>2, CreatePreserves, CreateFailsPreserves, InsertPreserves, QuietPreserves DEF Deploy
<1>3. ASSUME NEW r \in Replicas, Reap(r) PROVE IInv'
  BY <1>3, DeletePreserves, DeleteFailsPreserves, RemovePreserves, QuietPreserves DEF Reap
<1>4. ASSUME NEW r \in Replicas, Crash(r) \/ Restart(r) PROVE IInv'
  BY <1>4, QuietPreserves
<1>5. CASE UNCHANGED vars
  BY <1>5, StutterPreserves
<1>6. QED
  BY <1>1, <1>2, <1>3, <1>4, <1>5 DEF Next

-----------------------------------------------------------------------------
(* The theorems.                                                           *)

\* The inductive invariant holds in every reachable state.
THEOREM Invariance == Spec => []IInv
<1>1. QED
  BY InitIInv, StepPreserves, PTL DEF Spec

\* Type correctness.
THEOREM TypeCorrect == Spec => []TypeOK
<1>1. IInv => TypeOK
  BY DEF IInv
<1>2. QED
  BY <1>1, Invariance, PTL

\* Whatever fails, a deployment that was recorded keeps its row while it runs.
THEOREM RecordedPodsKeepTheirRow == Spec => []RecordedPodsKeepRow
<1>1. IInv => RecordedPodsKeepRow
  BY DEF IInv
<1>2. QED
  BY <1>1, Invariance, PTL

\* No row and no deployment is removed before its time to live is over.
THEOREM NothingReapedEarly == Spec => NoEarlyReap
<1>1. IInv /\ [Next]_vars => [RemovesOnlyOverdue]_vars
  <2> SUFFICES ASSUME IInv, Next, NEW l \in (pods \ pods') \cup (rows \ rows')
               PROVE  now > created[l] + TtlOf[l]
    BY DEF RemovesOnlyOverdue
  <2>1. PICK r \in Replicas : Delete(r) \/ DeleteFails(r) \/ Remove(r)
    BY DEF Next, Tick, Deploy, Reap, Create, CreateFails, Insert, InsertFails, ReapScan,
           ScanFails, DeleteNotFound, RemoveFails, ReapDone, Crash, Restart, stores
  <2>2. \E m \in todo[r] : (pods \ pods') \cup (rows \ rows') \subseteq {m}
    BY <2>1 DEF Delete, DeleteFails, Remove, IInv, ReapsAreDue
  <2>3. l \in todo[r]
    BY <2>2
  <2>4. Expired(l) /\ l \in Lures
    BY <2>3 DEF IInv, TypeOK, ReapsAreDue
  <2>5. QED
    BY <2>4, LureAssumption DEF Expired, IInv, TypeOK
<1>2. QED
  BY <1>1, Invariance, PTL DEF Spec, NoEarlyReap

-----------------------------------------------------------------------------
(* Each failure damages at most one lure.                                  *)

\* A deployment whose row is about to be inserted runs: reapers only delete what
\* was recorded.
InsertsRun ==
    Kubernetes => \A r \in Replicas : at[r] = "created" => lure[r] \in pods

LEMMA DamageIsFinite ==
    ASSUME TypeOK, TypeOK'
    PROVE  /\ IsFiniteSet(Orphans) /\ Cardinality(Orphans) \in Nat
           /\ IsFiniteSet(Ghosts) /\ Cardinality(Ghosts) \in Nat
           /\ IsFiniteSet(Orphans') /\ Cardinality(Orphans') \in Nat
           /\ IsFiniteSet(Ghosts') /\ Cardinality(Ghosts') \in Nat
<1>1. \A S \in SUBSET Lures : IsFiniteSet(S) /\ Cardinality(S) \in Nat
  BY LureAssumption, FS_Subset, FS_CardinalityType
<1>2. /\ Orphans \in SUBSET Lures /\ Ghosts \in SUBSET Lures
      /\ Orphans' \in SUBSET Lures /\ Ghosts' \in SUBSET Lures
  BY DEF TypeOK, Orphans, Ghosts
<1>3. QED
  BY <1>1, <1>2

\* A subset of a finite set and one element more has at most one element more.
LEMMA CardinalityOfSubset ==
    ASSUME NEW S, NEW T, NEW x, IsFiniteSet(S), IsFiniteSet(T)
    PROVE  /\ T \subseteq S => Cardinality(T) <= Cardinality(S)
           /\ T \subseteq S \cup {x} => Cardinality(T) <= Cardinality(S) + 1
<1>1. Cardinality(S) \in Nat /\ Cardinality(T) \in Nat
  BY FS_CardinalityType
<1>2. /\ IsFiniteSet(S \cup {x})
      /\ Cardinality(S \cup {x}) <= Cardinality(S) + 1
  BY <1>1, FS_AddElement
<1>3. T \subseteq S => Cardinality(T) <= Cardinality(S)
  BY FS_Subset
<1>4. T \subseteq S \cup {x} => Cardinality(T) <= Cardinality(S \cup {x})
  BY <1>2, FS_Subset
<1>5. Cardinality(S \cup {x}) \in Nat
  BY <1>2, FS_CardinalityType
<1>6. QED
  BY <1>1, <1>2, <1>3, <1>4, <1>5

\* A step that damages nothing more.
LEMMA NoMoreDamage ==
    ASSUME TypeOK, TypeOK', DamageBounded, failures' = failures \/ failures' = failures + 1,
           Orphans' \subseteq Orphans, Ghosts' \subseteq Ghosts
    PROVE  DamageBounded'
<1>1. /\ IsFiniteSet(Orphans) /\ Cardinality(Orphans) \in Nat
      /\ IsFiniteSet(Ghosts) /\ Cardinality(Ghosts) \in Nat
      /\ IsFiniteSet(Orphans') /\ Cardinality(Orphans') \in Nat
      /\ IsFiniteSet(Ghosts') /\ Cardinality(Ghosts') \in Nat
  BY DamageIsFinite
<1>2. /\ Cardinality(Orphans') <= Cardinality(Orphans)
      /\ Cardinality(Ghosts') <= Cardinality(Ghosts)
  BY <1>1, CardinalityOfSubset
<1>3. QED
  BY <1>1, <1>2 DEF DamageBounded, TypeOK

\* A step that fails and damages one lure.
LEMMA OneMoreDamaged ==
    ASSUME TypeOK, TypeOK', DamageBounded, failures' = failures + 1, NEW l,
           \/ Orphans' \subseteq Orphans \cup {l} /\ Ghosts' \subseteq Ghosts
           \/ Orphans' \subseteq Orphans /\ Ghosts' \subseteq Ghosts \cup {l}
    PROVE  DamageBounded'
<1>1. /\ IsFiniteSet(Orphans) /\ Cardinality(Orphans) \in Nat
      /\ IsFiniteSet(Ghosts) /\ Cardinality(Ghosts) \in Nat
      /\ IsFiniteSet(Orphans') /\ Cardinality(Orphans') \in Nat
      /\ IsFiniteSet(Ghosts') /\ Cardinality(Ghosts') \in Nat
  BY DamageIsFinite
<1>2. /\ Orphans' \subseteq Orphans => Cardinality(Orphans') <= Cardinality(Orphans)
      /\ Orphans' \subseteq Orphans \cup {l} => Cardinality(Orphans') <= Cardinality(Orphans) + 1
  BY <1>1, CardinalityOfSubset
<1>3. /\ Ghosts' \subseteq Ghosts => Cardinality(Ghosts') <= Cardinality(Ghosts)
      /\ Ghosts' \subseteq Ghosts \cup {l} => Cardinality(Ghosts') <= Cardinality(Ghosts) + 1
  BY <1>1, CardinalityOfSubset
<1>4. QED
  BY <1>1, <1>2, <1>3 DEF DamageBounded, TypeOK

\* Damage, action by action; only the cluster mode has deployments.
LEMMA DeployDamage ==
    ASSUME IInv, IInv', InsertsRun, DamageBounded, Kubernetes,
           NEW r \in Replicas, Deploy(r)
    PROVE  InsertsRun' /\ DamageBounded'
<1> USE DEF IInv
<1>1. ASSUME NEW l \in Lures, Create(r, l) PROVE InsertsRun' /\ DamageBounded'
  <2>1. /\ at[r] = "free" /\ pods' = pods \cup {l} /\ l \notin rows
        /\ UNCHANGED <<rows, failures>>
        /\ at'[r] = "created" /\ lure'[r] = l
        /\ \A s \in Replicas \ {r} : at'[s] = at[s] /\ lure'[s] = lure[s]
    BY <1>1 DEF Create, GoTo, Identify, TypeOK, IdsUsed
  <2>2. Orphans' \subseteq Orphans /\ Ghosts' \subseteq Ghosts
    BY <2>1 DEF Orphans, Ghosts
  <2>3. InsertsRun'
    BY <2>1 DEF InsertsRun
  <2>4. QED
    BY <2>1, <2>2, <2>3, NoMoreDamage
<1>2. ASSUME NEW l \in Lures, CreateFails(r, l) PROVE InsertsRun' /\ DamageBounded'
  <2>1. /\ pods' \in {pods, pods \cup {l}} /\ failures' = failures + 1
        /\ UNCHANGED <<rows, at, lure>>
    BY <1>2 DEF CreateFails, Fail
  <2>2. Orphans' \subseteq Orphans \cup {l} /\ Ghosts' \subseteq Ghosts
    BY <2>1 DEF Orphans, Ghosts
  <2>3. InsertsRun'
    BY <2>1 DEF InsertsRun
  <2>4. QED
    BY <2>1, <2>2, <2>3, OneMoreDamaged
<1>3. CASE Insert(r)
  <2>1. /\ at[r] = "created" /\ rows' = rows \cup {lure[r]}
        /\ UNCHANGED <<pods, failures>>
        /\ at'[r] = "free"
        /\ \A s \in Replicas \ {r} : at'[s] = at[s] /\ lure'[s] = lure[s]
    BY <1>3 DEF Insert, GoTo, TypeOK
  <2>2. lure[r] \in pods
    BY <2>1 DEF InsertsRun
  <2>3. Orphans' \subseteq Orphans /\ Ghosts' \subseteq Ghosts
    BY <2>1, <2>2 DEF Orphans, Ghosts
  <2>4. InsertsRun'
    BY <2>1 DEF InsertsRun
  <2>5. QED
    BY <2>1, <2>3, <2>4, NoMoreDamage
<1>4. CASE InsertFails(r)
  <2>1. /\ at[r] = "created"
        /\ UNCHANGED <<pods, rows>> /\ failures' = failures + 1
        /\ at'[r] = "free"
        /\ \A s \in Replicas \ {r} : at'[s] = at[s] /\ lure'[s] = lure[s]
    BY <1>4 DEF InsertFails, Fail, GoTo, TypeOK, stores
  <2>2. Orphans' \subseteq Orphans \cup {lure[r]} /\ Ghosts' \subseteq Ghosts
    BY <2>1 DEF Orphans, Ghosts
  <2>3. InsertsRun'
    BY <2>1 DEF InsertsRun
  <2>4. QED
    BY <2>1, <2>2, <2>3, OneMoreDamaged
<1>5. QED
  BY <1>1, <1>2, <1>3, <1>4 DEF Deploy

\* Replica r, which was in no step of a deployment, leaves both stores alone.
LEMMA IdleDamage ==
    ASSUME IInv, IInv', InsertsRun, DamageBounded, Kubernetes,
           NEW r \in Replicas, at[r] \in {"free", "reaping", "down"},
           at'[r] \in {"free", "reaping"},
           \A s \in Replicas \ {r} : at'[s] = at[s] /\ lure'[s] = lure[s],
           UNCHANGED <<pods, rows>>, failures' = failures \/ failures' = failures + 1
    PROVE  InsertsRun' /\ DamageBounded'
<1>1. Orphans' \subseteq Orphans /\ Ghosts' \subseteq Ghosts
  BY DEF Orphans, Ghosts
<1>2. InsertsRun'
  BY DEF InsertsRun
<1>3. QED
  BY <1>1, <1>2, NoMoreDamage DEF IInv

LEMMA ReapDamage ==
    ASSUME IInv, IInv', InsertsRun, DamageBounded, Kubernetes,
           NEW r \in Replicas, Reap(r)
    PROVE  InsertsRun' /\ DamageBounded'
<1> USE DEF IInv
<1>1. CASE ReapScan(r) \/ ScanFails(r) \/ DeleteNotFound(r) \/ ReapDone(r)
  <2>1. at[r] \in {"free", "reaping"} /\ UNCHANGED <<pods, rows>>
    BY <1>1 DEF ReapScan, ScanFails, DeleteNotFound, ReapDone, stores
  <2>2. /\ at'[r] \in {"free", "reaping"}
        /\ \A s \in Replicas \ {r} : at'[s] = at[s] /\ lure'[s] = lure[s]
    BY <1>1 DEF ReapScan, ScanFails, DeleteNotFound, ReapDone, ReaperDies, GoTo, TypeOK
  <2>3. failures' = failures \/ failures' = failures + 1
    BY <1>1 DEF ReapScan, ScanFails, DeleteNotFound, ReapDone, Fail
  <2>4. QED
    BY <2>1, <2>2, <2>3, IdleDamage
<1>2. CASE Delete(r)
  <2>1. PICK l \in todo[r] :
            /\ pods' = pods \ {l}
            /\ at' = [at EXCEPT ![r] = "deleted"]
            /\ lure' = [lure EXCEPT ![r] = l]
    BY <1>2 DEF Delete, GoTo
  <2>2. /\ at[r] = "reaping" /\ UNCHANGED <<rows, failures>>
        /\ at'[r] = "deleted" /\ lure'[r] = l
        /\ \A s \in Replicas \ {r} : at'[s] = at[s] /\ lure'[s] = lure[s]
    BY <1>2, <2>1 DEF Delete, TypeOK
  <2>3. Orphans' \subseteq Orphans /\ Ghosts' \subseteq Ghosts
    BY <2>1, <2>2 DEF Orphans, Ghosts
  <2>4. l \in recorded
    BY DEF ReapsAreDue
  <2>5. InsertsRun'
    BY <2>1, <2>2, <2>4 DEF InsertsRun, InsertsAreFresh
  <2>6. QED
    BY <2>2, <2>3, <2>5, NoMoreDamage
<1>3. CASE DeleteFails(r)
  <2>1. PICK l \in todo[r] : pods' \in {pods, pods \ {l}}
    BY <1>3 DEF DeleteFails
  <2>2. /\ at[r] = "reaping" /\ UNCHANGED rows /\ failures' = failures + 1
        /\ at'[r] = "free"
        /\ \A s \in Replicas \ {r} : at'[s] = at[s] /\ lure'[s] = lure[s]
    BY <1>3 DEF DeleteFails, ReaperDies, Fail, GoTo, TypeOK
  <2>3. Orphans' \subseteq Orphans /\ Ghosts' \subseteq Ghosts \cup {l}
    BY <2>1, <2>2 DEF Orphans, Ghosts
  <2>4. l \in recorded
    BY DEF ReapsAreDue
  <2>5. InsertsRun'
    BY <2>1, <2>2, <2>4 DEF InsertsRun, InsertsAreFresh
  <2>6. QED
    BY <2>2, <2>3, <2>5, OneMoreDamaged
<1>4. CASE Remove(r)
  <2>1. /\ at[r] = "deleted" /\ rows' = rows \ {lure[r]}
        /\ UNCHANGED <<pods, failures>>
        /\ at'[r] = "reaping"
        /\ \A s \in Replicas \ {r} : at'[s] = at[s] /\ lure'[s] = lure[s]
    BY <1>4 DEF Remove, GoTo, TypeOK
  <2>2. lure[r] \notin pods
    BY <2>1 DEF ReapsAreDue
  <2>3. Orphans' \subseteq Orphans /\ Ghosts' \subseteq Ghosts
    BY <2>1, <2>2 DEF Orphans, Ghosts
  <2>4. InsertsRun'
    BY <2>1 DEF InsertsRun
  <2>5. QED
    BY <2>1, <2>3, <2>4, NoMoreDamage
<1>5. CASE RemoveFails(r)
  <2>1. /\ at[r] = "deleted" /\ UNCHANGED <<pods, rows>> /\ failures' = failures + 1
        /\ at'[r] = "free"
        /\ \A s \in Replicas \ {r} : at'[s] = at[s] /\ lure'[s] = lure[s]
    BY <1>5 DEF RemoveFails, ReaperDies, Fail, GoTo, TypeOK, stores
  <2>2. Orphans' \subseteq Orphans /\ Ghosts' \subseteq Ghosts \cup {lure[r]}
    BY <2>1 DEF Orphans, Ghosts
  <2>3. InsertsRun'
    BY <2>1 DEF InsertsRun
  <2>4. QED
    BY <2>1, <2>2, <2>3, OneMoreDamaged
<1>6. QED
  BY <1>1, <1>2, <1>3, <1>4, <1>5 DEF Reap

\* A crash may come between any two calls.
LEMMA CrashDamage ==
    ASSUME IInv, IInv', InsertsRun, DamageBounded, NEW r \in Replicas, Crash(r)
    PROVE  InsertsRun' /\ DamageBounded'
<1> USE DEF IInv
<1>1. /\ UNCHANGED <<pods, rows>> /\ failures' = failures + 1
      /\ at'[r] = "down"
      /\ \A s \in Replicas \ {r} : at'[s] = at[s] /\ lure'[s] = lure[s]
  BY DEF Crash, Fail, GoTo, TypeOK, stores
<1>2. \/ Orphans' \subseteq Orphans \cup {lure[r]} /\ Ghosts' \subseteq Ghosts
      \/ Orphans' \subseteq Orphans /\ Ghosts' \subseteq Ghosts \cup {lure[r]}
  <2>1. CASE at[r] = "created"
    BY <1>1, <2>1 DEF Orphans, Ghosts
  <2>2. CASE at[r] # "created"
    BY <1>1, <2>2 DEF Orphans, Ghosts
  <2>3. QED
    BY <2>1, <2>2
<1>3. InsertsRun'
  BY <1>1 DEF InsertsRun
<1>4. QED
  BY <1>1, <1>2, <1>3, OneMoreDamaged

LEMMA DamageStep ==
    IInv /\ IInv' /\ InsertsRun /\ DamageBounded /\ [Next]_vars => InsertsRun' /\ DamageBounded'
<1> SUFFICES ASSUME IInv, IInv', InsertsRun, DamageBounded, [Next]_vars
             PROVE  InsertsRun' /\ DamageBounded'
  OBVIOUS
<1>1. CASE ~Kubernetes
  BY <1>1 DEF InsertsRun, DamageBounded
<1>2. CASE Kubernetes
  <2>1. CASE Tick \/ UNCHANGED vars
    <3>1. UNCHANGED <<pods, rows, at, lure, failures>>
      BY <2>1 DEF Tick, stores, vars
    <3>2. QED
      BY <3>1 DEF InsertsRun, DamageBounded, Orphans, Ghosts
  <2>2. ASSUME NEW r \in Replicas, Deploy(r) PROVE InsertsRun' /\ DamageBounded'
    BY <1>2, <2>2, DeployDamage
  <2>3. ASSUME NEW r \in Replicas, Reap(r) PROVE InsertsRun' /\ DamageBounded'
    BY <1>2, <2>3, ReapDamage
  <2>4. ASSUME NEW r \in Replicas, Crash(r) PROVE InsertsRun' /\ DamageBounded'
    BY <2>4, CrashDamage
  <2>5. ASSUME NEW r \in Replicas, Restart(r) PROVE InsertsRun' /\ DamageBounded'
    <3>1. /\ UNCHANGED <<pods, rows, failures>> /\ at[r] = "down" /\ at'[r] = "free"
          /\ \A s \in Replicas \ {r} : at'[s] = at[s] /\ lure'[s] = lure[s]
      BY <2>5 DEF Restart, GoTo, stores, IInv, TypeOK
    <3>2. QED
      BY <1>2, <3>1, IdleDamage
  <2>6. QED
    BY <2>1, <2>2, <2>3, <2>4, <2>5 DEF Next
<1>3. QED
  BY <1>1, <1>2

\* Every crash or failed call orphans one deployment or leaves one ghost row at most.
THEOREM DamageIsBounded == Spec => []DamageBounded
<1>1. Init => InsertsRun /\ DamageBounded
  <2> SUFFICES ASSUME Init PROVE InsertsRun /\ DamageBounded
    OBVIOUS
  <2>1. Orphans = {} /\ Ghosts = {}
    BY DEF Init, Orphans, Ghosts
  <2>2. QED
    BY <2>1, FS_EmptySet DEF Init, InsertsRun, DamageBounded
<1>2. QED
  BY <1>1, DamageStep, Invariance, PTL DEF Spec

-----------------------------------------------------------------------------
(* Without failures, and with nobody else deleting deployments, the reaper  *)
(* task lives.                                                              *)

Undisturbed == failures = 0 /\ (Kubernetes => Cardinality(Replicas) = 1)

\* No reaper has died, no process is down, and every row the pass of the only
\* reaper may come to still has its deployment.
UndisturbedInv ==
    Undisturbed =>
        \A r \in Replicas :
            /\ reaper[r] = "running"
            /\ at[r] # "down"
            /\ Kubernetes =>
                /\ \A l \in rows : l \in pods \/ (at[r] = "deleted" /\ lure[r] = l)
                /\ todo[r] \subseteq rows

LEMMA UndisturbedStep ==
    IInv /\ InsertsRun /\ UndisturbedInv /\ [Next]_vars => UndisturbedInv'
<1> SUFFICES ASSUME IInv, InsertsRun, UndisturbedInv, [Next]_vars, Undisturbed'
             PROVE  UndisturbedInv'
  BY DEF UndisturbedInv
<1>1. CASE Tick \/ UNCHANGED vars
  <2>1. UNCHANGED <<rows, pods, at, lure, todo, reaper, failures>>
    BY <1>1 DEF Tick, stores, vars
  <2>2. QED
    BY <2>1 DEF UndisturbedInv, Undisturbed
<1>2. ASSUME NEW r \in Replicas, Deploy(r) \/ Reap(r) \/ Crash(r) \/ Restart(r)
      PROVE  UndisturbedInv'
  <2>1. failures = 0 /\ failures' = 0 /\ Undisturbed
    BY <1>2 DEF Undisturbed, Deploy, Reap, Create, CreateFails, Insert, InsertFails,
                ReapScan, ScanFails, Delete, DeleteNotFound, DeleteFails, Remove,
                RemoveFails, ReapDone, Crash, Restart, Fail, IInv, TypeOK
  <2>2. /\ reaper[r] = "running" /\ at[r] # "down"
        /\ Kubernetes =>
            /\ \A l \in rows : l \in pods \/ (at[r] = "deleted" /\ lure[r] = l)
            /\ todo[r] \subseteq rows
    BY <2>1 DEF UndisturbedInv
  <2>3. \/ \E l \in Lures : Create(r, l)
        \/ Insert(r) \/ ReapScan(r) \/ Delete(r) \/ Remove(r) \/ ReapDone(r)
    BY <1>2, <2>1, <2>2
       DEF Deploy, Reap, CreateFails, InsertFails, ScanFails, DeleteNotFound,
           DeleteFails, RemoveFails, Crash, Restart, Fail
  <2>4. UNCHANGED reaper /\ \A s \in Replicas : reaper[s] = "running"
    BY <2>1, <2>3 DEF Create, Insert, ReapScan, Delete, Remove, ReapDone, UndisturbedInv
  <2>5. \A s \in Replicas : at'[s] # "down"
    BY <2>1, <2>3
       DEF Create, Insert, ReapScan, Delete, Remove, ReapDone, GoTo, UndisturbedInv,
           IInv, TypeOK
  <2>6. ASSUME Kubernetes, NEW s \in Replicas
        PROVE  /\ \A l \in rows' : l \in pods' \/ (at'[s] = "deleted" /\ lure'[s] = l)
               /\ todo'[s] \subseteq rows'
    <3>1. s = r
      <4>1. IsFiniteSet(Replicas) /\ Cardinality(Replicas) = 1
        BY <2>1, <2>6, LureAssumption DEF Undisturbed
      <4>2. QED
        BY <4>1, FS_Singleton
    <3>2. ASSUME NEW l \in Lures, Create(r, l)
          PROVE  /\ \A m \in rows' : m \in pods'
                 /\ todo'[r] \subseteq rows'
      BY <2>2, <2>6, <3>2 DEF Create
    <3>3. CASE Insert(r)
      <4>1. lure[r] \in pods
        BY <2>6, <3>3 DEF Insert, InsertsRun
      <4>2. QED
        BY <2>2, <2>6, <3>1, <3>3, <4>1 DEF Insert
    <3>4. CASE ReapScan(r) \/ ReapDone(r)
      BY <2>2, <2>6, <3>1, <3>4 DEF ReapScan, ReapDone, stores, IInv, TypeOK
    <3>5. CASE Delete(r)
      <4>1. PICK l \in todo[r] :
                /\ pods' = pods \ {l}
                /\ at' = [at EXCEPT ![r] = "deleted"]
                /\ lure' = [lure EXCEPT ![r] = l]
        BY <3>5 DEF Delete, GoTo
      <4>2. at[r] = "reaping" /\ UNCHANGED <<rows, todo>>
        BY <3>5 DEF Delete
      <4>3. at'[r] = "deleted" /\ lure'[r] = l
        BY <4>1 DEF IInv, TypeOK
      <4>4. QED
        BY <2>2, <2>6, <3>1, <4>1, <4>2, <4>3
    <3>6. CASE Remove(r)
      <4>1. /\ at[r] = "deleted"
            /\ rows' = rows \ {lure[r]}
            /\ todo'[r] = todo[r] \ {lure[r]}
            /\ UNCHANGED pods
        BY <3>6 DEF Remove, IInv, TypeOK
      <4>2. QED
        BY <2>2, <2>6, <3>1, <4>1
    <3>7. QED
      BY <2>3, <3>1, <3>2, <3>3, <3>4, <3>5, <3>6
  <2>7. QED
    BY <2>4, <2>5, <2>6 DEF UndisturbedInv
<1>3. QED
  BY <1>1, <1>2 DEF Next

\* Only a failure, or a second replica that tears the same lures down, ends a reaper.
THEOREM ReaperSurvival == Spec => []ReaperSurvives
<1>1. Init => InsertsRun /\ DamageBounded /\ UndisturbedInv
  <2> SUFFICES ASSUME Init PROVE InsertsRun /\ DamageBounded /\ UndisturbedInv
    OBVIOUS
  <2>1. Orphans = {} /\ Ghosts = {}
    BY DEF Init, Orphans, Ghosts
  <2>2. QED
    BY <2>1, FS_EmptySet DEF Init, InsertsRun, DamageBounded, UndisturbedInv
<1>2. UndisturbedInv => ReaperSurvives
  BY DEF UndisturbedInv, Undisturbed, ReaperSurvives
<1>3. QED
  BY <1>1, <1>2, DamageStep, UndisturbedStep, Invariance, PTL DEF Spec
=============================================================================
