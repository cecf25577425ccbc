--------------------------- MODULE LureLifecycle ---------------------------
(***************************************************************************)
(* The life of a lure: a controller deploys a honeypot in the cluster and  *)
(* records it in the state store; the TTL reaper finds it expired, deletes *)
(* the deployment and removes the row (controller/app/orchestrator.py,     *)
(* state.py, ttl.py).                                                      *)
(*                                                                         *)
(* A lure lives in two stores that no transaction spans.  The calls to     *)
(* them are synchronous, so within one process a deployment, or a whole    *)
(* pass of the reaper, excludes every other task; between two calls the    *)
(* process may crash, a call may fail, and another replica of the          *)
(* controller may act on the same rows.                                    *)
(*                                                                         *)
(* With Kubernetes = FALSE this is the dry-run orchestrator: rows only.    *)
(* Leader election is off: a process has one reaper from start to end.     *)
(*                                                                         *)
(* created of a lure that has no row, used and recorded are history.       *)
(***************************************************************************)
EXTENDS Integers, FiniteSets

CONSTANTS
    Replicas,     \* controller processes that share the state store
    Lures,        \* lure ids (uuid4: never generated twice)
    NoLure,
    TtlOf,        \* ttl_seconds of each lure, from the rule that asks for it
    Kubernetes,   \* orchestration_mode = "kubernetes"
    MaxTime,      \* bound on the clock
    MaxFailures   \* bound on crashes and failed calls

ASSUME LureAssumption ==
    /\ IsFiniteSet(Replicas)
    /\ IsFiniteSet(Lures)
    /\ NoLure \notin Lures
    /\ TtlOf \in [Lures -> Nat]
    /\ Kubernetes \in BOOLEAN
    /\ MaxTime \in Nat
    /\ MaxFailures \in Nat

VARIABLES
    now,        \* the wall clock
    rows,       \* the lures table of the state store
    created,    \* created_at of each lure
    pods,       \* deployments in the cluster
    at,         \* the synchronous code a replica's event loop is in
    lure,       \* the lure that code works on
    todo,       \* the expired lures left in the reaper's pass
    reaper,     \* the reaper task of each replica
    failures,   \* crashes and failed calls so far
    used,       \* history: lure ids generated
    recorded    \* history: lures that had a row

stores == <<rows, pods, recorded>>
vars == <<now, rows, created, pods, at, lure, todo, reaper, failures, used, recorded>>

TypeOK ==
    /\ now \in Nat
    /\ rows \in SUBSET Lures
    /\ created \in [Lures -> Nat]
    /\ pods \in SUBSET Lures
    /\ at \in [Replicas -> {"down", "free", "created", "reaping", "deleted"}]
    /\ lure \in [Replicas -> Lures \cup {NoLure}]
    /\ todo \in [Replicas -> SUBSET Lures]
    /\ reaper \in [Replicas -> {"running", "dead"}]
    /\ failures \in Nat
    /\ used \in SUBSET Lures
    /\ recorded \in SUBSET Lures

Init ==
    /\ now = 0
    /\ rows = {}
    /\ created = [l \in Lures |-> 0]
    /\ pods = {}
    /\ at = [r \in Replicas |-> "free"]
    /\ lure = [r \in Replicas |-> NoLure]
    /\ todo = [r \in Replicas |-> {}]
    /\ reaper = [r \in Replicas |-> "running"]
    /\ failures = 0
    /\ used = {}
    /\ recorded = {}

-----------------------------------------------------------------------------
(* Seeded faults.  Each operator is a plausible wrong form of the           *)
(* definition named in its comment; PROJECT.json names the property that    *)
(* must fail when it is put in that definition's place.                     *)

\* Expired: as soon as the time to live is reached.
ExpiredAtTtl(l) == now - created[l] >= TtlOf[l]

\* Identify: created_at is backdated by the clock's granularity.
IdentifyBackdated(l) ==
    /\ l \notin used
    /\ used' = used \cup {l}
    /\ created' = [created EXCEPT ![l] = now - 1]

\* Delete: the row is removed before the deployment.
DeleteRowFirst(r) ==
    /\ at[r] = "reaping"
    /\ \E l \in todo[r] :
        /\ rows' = rows \ {l}
        /\ at' = [at EXCEPT ![r] = "deleted"]
        /\ lure' = [lure EXCEPT ![r] = l]
    /\ UNCHANGED <<now, pods, created, todo, reaper, failures, used, recorded>>

\* Remove: the row stays.
RemoveKeepsRow(r) ==
    /\ at[r] = "deleted"
    /\ todo' = [todo EXCEPT ![r] = @ \ {lure[r]}]
    /\ at' = [at EXCEPT ![r] = "reaping"]
    /\ lure' = [lure EXCEPT ![r] = NoLure]
    /\ UNCHANGED <<now, rows, created, pods, reaper, failures, used, recorded>>

\* ReapScan: only what expired since the last pass, taken to be one second ago.
ReapScanLatest(r) ==
    /\ at[r] = "free"
    /\ reaper[r] = "running"
    /\ todo' = [todo EXCEPT ![r] = {l \in rows : now - created[l] = TtlOf[l] + 1}]
    /\ at' = [at EXCEPT ![r] = "reaping"]
    /\ UNCHANGED <<now, stores, created, lure, reaper, failures, used>>

-----------------------------------------------------------------------------
\* expired_lures: strictly older than its time to live.
Expired(l) == now - created[l] > TtlOf[l]

\* A call that fails, or a crash.
Fail ==
    /\ failures < MaxFailures
    /\ failures' = failures + 1

\* Replica r goes on to code c, working on lure l.
GoTo(r, c, l) ==
    /\ at' = [at EXCEPT ![r] = c]
    /\ lure' = [lure EXCEPT ![r] = l]

Tick ==
    /\ now < MaxTime
    /\ now' = now + 1
    /\ UNCHANGED <<stores, created, at, lure, todo, reaper, failures, used>>

-----------------------------------------------------------------------------
(* deploy(): create_namespaced_deployment, then add_lure.                  *)

\* A fresh id and created_at are fixed before the first call.
Identify(l) ==
    /\ l \notin used
    /\ used' = used \cup {l}
    /\ created' = [created EXCEPT ![l] = now]

\* The deployment is created.  The dry run makes no call here.
Create(r, l) ==
    /\ at[r] = "free"
    /\ Identify(l)
    /\ pods' = IF Kubernetes THEN pods \cup {l} ELSE pods
    /\ GoTo(r, "created", l)
    /\ UNCHANGED <<now, rows, todo, reaper, failures, recorded>>

\* The API call raises: nothing was created, or only the answer was lost.
\* handle_event() is left; _consume_bus logs the exception.
CreateFails(r, l) ==
    /\ Kubernetes
    /\ at[r] = "free"
    /\ Identify(l)
    /\ pods' \in {pods, pods \cup {l}}
    /\ Fail
    /\ UNCHANGED <<now, rows, at, lure, todo, reaper, recorded>>

\* add_lure commits the row.
Insert(r) ==
    /\ at[r] = "created"
    /\ rows' = rows \cup {lure[r]}
    /\ recorded' = recorded \cup {lure[r]}
    /\ GoTo(r, "free", NoLure)
    /\ UNCHANGED <<now, created, pods, todo, reaper, failures, used>>

\* add_lure raises; nothing undoes the deployment.
InsertFails(r) ==
    /\ at[r] = "created"
    /\ Fail
    /\ GoTo(r, "free", NoLure)
    /\ UNCHANGED <<now, stores, created, todo, reaper, used>>

-----------------------------------------------------------------------------
(* TTLReaper.run(): nothing in it catches an exception, so the first one    *)
(* ends the task for the rest of the life of the process.                   *)

\* A pass begins with a snapshot of the expired rows.
ReapScan(r) ==
    /\ at[r] = "free"
    /\ reaper[r] = "running"
    /\ todo' = [todo EXCEPT ![r] = {l \in rows : Expired(l)}]
    /\ GoTo(r, "reaping", NoLure)
    /\ UNCHANGED <<now, stores, created, reaper, failures, used>>

\* The reaper task ends and the event loop is free again.
ReaperDies(r) ==
    /\ reaper' = [reaper EXCEPT ![r] = "dead"]
    /\ todo' = [todo EXCEPT ![r] = {}]
    /\ GoTo(r, "free", NoLure)

\* list_lures raises.
ScanFails(r) ==
    /\ at[r] = "free"
    /\ reaper[r] = "running"
    /\ Fail
    /\ ReaperDies(r)
    /\ UNCHANGED <<now, stores, created, used>>

\* teardown() deletes the deployment of the next lure; SELECT gives no order.
Delete(r) ==
    /\ at[r] = "reaping"
    /\ \E l \in todo[r] :
        /\ Kubernetes => l \in pods
        /\ pods' = pods \ {l}
        /\ GoTo(r, "deleted", l)
    /\ UNCHANGED <<now, rows, created, todo, reaper, failures, used, recorded>>

\* The deployment is not there: the API answers 404, the client raises.
DeleteNotFound(r) ==
    /\ Kubernetes
    /\ at[r] = "reaping"
    /\ \E l \in todo[r] : l \notin pods
    /\ ReaperDies(r)
    /\ UNCHANGED <<now, stores, created, failures, used>>

\* The API call raises; the deployment may be gone all the same.
DeleteFails(r) ==
    /\ Kubernetes
    /\ at[r] = "reaping"
    /\ \E l \in todo[r] \cap pods : pods' \in {pods, pods \ {l}}
    /\ Fail
    /\ ReaperDies(r)
    /\ UNCHANGED <<now, rows, created, used, recorded>>

\* remove_lure deletes the row, if it is still there.
Remove(r) ==
    /\ at[r] = "deleted"
    /\ rows' = rows \ {lure[r]}
    /\ todo' = [todo EXCEPT ![r] = @ \ {lure[r]}]
    /\ GoTo(r, "reaping", NoLure)
    /\ UNCHANGED <<now, created, pods, reaper, failures, used, recorded>>

\* remove_lure raises.
RemoveFails(r) ==
    /\ at[r] = "deleted"
    /\ Fail
    /\ ReaperDies(r)
    /\ UNCHANGED <<now, stores, created, used>>

\* The pass is over; the task sleeps for the interval.
ReapDone(r) ==
    /\ at[r] = "reaping"
    /\ todo[r] = {}
    /\ GoTo(r, "free", NoLure)
    /\ UNCHANGED <<now, stores, created, todo, reaper, failures, used>>

-----------------------------------------------------------------------------
(* Crashes.  The stores survive, the tasks do not.                         *)

Crash(r) ==
    /\ at[r] # "down"
    /\ Fail
    /\ GoTo(r, "down", NoLure)
    /\ todo' = [todo EXCEPT ![r] = {}]
    /\ UNCHANGED <<now, stores, created, reaper, used>>

\* start_workers() creates a new reaper.
Restart(r) ==
    /\ at[r] = "down"
    /\ GoTo(r, "free", NoLure)
    /\ reaper' = [reaper EXCEPT ![r] = "running"]
    /\ UNCHANGED <<now, stores, created, todo, failures, used>>

-----------------------------------------------------------------------------
Deploy(r) ==
    \/ \E l \in Lures : Create(r, l) \/ CreateFails(r, l)
    \/ Insert(r)
    \/ InsertFails(r)

Reap(r) ==
    \/ ReapScan(r)
    \/ ScanFails(r)
    \/ Delete(r)
    \/ DeleteNotFound(r)
    \/ DeleteFails(r)
    \/ Remove(r)
    \/ RemoveFails(r)
    \/ ReapDone(r)

Next ==
    \/ Tick
    \/ \E r \in Replicas : Deploy(r) \/ Reap(r) \/ Crash(r) \/ Restart(r)

Spec == Init /\ [][Next]_vars

\* Every call returns or raises, the reaper's sleep ends, and a crashed
\* process is restarted by its Deployment.  Nothing obliges a call to fail.
Fairness ==
    \A r \in Replicas :
        /\ WF_vars(Insert(r))
        /\ WF_vars(Delete(r) \/ DeleteNotFound(r))
        /\ WF_vars(Remove(r))
        /\ WF_vars(ReapDone(r))
        /\ WF_vars(ReapScan(r))
        /\ WF_vars(Restart(r))

FairSpec == Spec /\ Fairness

-----------------------------------------------------------------------------
(* Properties.                                                             *)

\* Deployments no row will ever lead to, and rows whose deployment is gone
\* although no replica is about to remove them.
Orphans == {l \in pods \ rows : \A r \in Replicas : ~(at[r] = "created" /\ lure[r] = l)}
Ghosts == {l \in rows \ pods : \A r \in Replicas : ~(at[r] = "deleted" /\ lure[r] = l)}

\* What a step removes from either store is past its time to live.
RemovesOnlyOverdue ==
    \A l \in (pods \ pods') \cup (rows \ rows') : now > created[l] + TtlOf[l]

\* Neither the deployment nor the row of a lure goes before its time to live is
\* over, however old the reaper's snapshot is (state.py:130-133, ttl.py:17-20).
NoEarlyReap == [][RemovesOnlyOverdue]_vars

\* A deployment that was recorded stays recorded for as long as it runs: whatever
\* fails or crashes, teardown leaves a row too many, never a honeypot that nothing
\* knows of (orchestrator.py:95-97: the row is removed last).
RecordedPodsKeepRow == pods \cap recorded \subseteq rows

\* Each crash or failed call leaves the two stores apart in at most one lure: it
\* orphans one deployment or leaves one ghost row (orchestrator.py:91-97).
DamageBounded ==
    Kubernetes => Cardinality(Orphans) + Cardinality(Ghosts) <= failures

\* Where no other replica deletes deployments, only a crash or a failed call can end
\* the reaper task: a pass never meets a lure it has torn down itself (ttl.py:15-21).
ReaperSurvives ==
    (failures = 0 /\ (Kubernetes => Cardinality(Replicas) = 1)) =>
        \A r \in Replicas : reaper[r] = "running"

\* However many replicas fail, crash and get in each other's way, an expired row is
\* eventually removed, if there is always a reaper left that no exception has ended: a
\* pass never leaves one out and never hangs (ttl.py:15-21, state.py:130-133).
ExpiredGoOrReapersEnd ==
    \A l \in Lures :
        (l \in rows /\ Expired(l)) ~> (l \notin rows \/ \A r \in Replicas : reaper[r] = "dead")

\* "Record the deployment in the state store with TTL for automatic reaper cleanup"
\* (docs/data-flow.md:118): an expired row is eventually removed.  An exception, or the
\* 404 that a second replica's reaper causes, ends the task for good (ttl.py:16-21).
ExpiredIsCleanedUp ==
    \A l \in Lures : (l \in rows /\ Expired(l)) ~> (l \notin rows)
=============================================================================
