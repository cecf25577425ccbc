--------------------------- MODULE LeaderElection ---------------------------
(***************************************************************************)
(* Leader election between replicas of the controller                      *)
(* (controller/app/leader.py) and the workers that a new leader starts     *)
(* (start_workers in controller/app/main.py).                              *)
(*                                                                         *)
(* The lock is a Redis key with a time to live.  An elector tries to set   *)
(* it once per Interval; nobody renews or deletes it.  Time is counted in  *)
(* seconds.  Redis runs a command in one step and the elector goes on with *)
(* its answer in a later one: the key lives from the first, the elector    *)
(* sleeps from the second.  Late bounds how long after it was due a whole  *)
(* round may last: a slow Redis and a busy event loop delay it.            *)
(*                                                                         *)
(* starts is history.                                                      *)
(***************************************************************************)
EXTENDS Naturals, FiniteSets

CONSTANTS
    Replicas,     \* controller processes with leader election enabled
    Ttl,          \* leader_lock_ttl
    Late,         \* bound on the delay of a round
    MaxTime,      \* bound on the clock
    MaxFailures   \* bound on crashes and failed calls

ASSUME ElectionAssumption ==
    /\ IsFiniteSet(Replicas)
    /\ Ttl \in Nat \ {0}
    /\ {Late, MaxTime, MaxFailures} \subseteq Nat

VARIABLES
    now,        \* the clock
    expires,    \* the lock exists while now < expires
    pc,         \* where each elector is: a command that Redis has not run yet,
                \* the answer on its way, ended by an exception, or down
    due,        \* when each elector's round begins
    leader,     \* is_leader
    workers,    \* reaper and consumer pairs running in each replica
    failures,   \* crashes and failed calls so far
    starts      \* history: pairs of workers ever started

vars == <<now, expires, pc, due, leader, workers, failures, starts>>

\* What an elector sleeps between two rounds.
Interval == IF Ttl \div 2 > 1 THEN Ttl \div 2 ELSE 1

Asking == {"set", "ttl", "retry"}           \* Redis has yet to run the command
Answered == {"acquired", "held", "retried"} \* the elector has yet to go on

Locked == now < expires
Running(p) == pc[p] \in Asking \cup Answered

TypeOK ==
    /\ {now, failures, starts} \subseteq Nat
    /\ expires \in 0 .. now + Ttl
    /\ pc \in [Replicas -> Asking \cup Answered \cup {"ended", "down"}]
    /\ due \in [Replicas -> 0 .. now + Interval]
    /\ leader \in [Replicas -> BOOLEAN]
    /\ workers \in [Replicas -> 0 .. starts]

Init ==
    /\ now = 0
    /\ expires = 0
    /\ pc = [p \in Replicas |-> "set"]
    /\ due = [p \in Replicas |-> 0]
    /\ leader = [p \in Replicas |-> FALSE]
    /\ workers = [p \in Replicas |-> 0]
    /\ failures = 0
    /\ starts = 0

-----------------------------------------------------------------------------
(* Seeded faults.  Each operator is a plausible wrong form of the           *)
(* definition named in its comment; PROJECT.json names the property that    *)
(* must fail when it is put in that definition's place.                     *)

\* Acquire: SET without NX.
AcquireAnyway(p) ==
    /\ pc[p] = "set" /\ now >= due[p]
    /\ expires' = now + Ttl
    /\ pc' = [pc EXCEPT ![p] = "acquired"]
    /\ UNCHANGED <<now, due, leader, workers, failures, starts>>

\* Sleep: ttl * 2 for ttl // 2.
SleepTwice(p) ==
    /\ pc' = [pc EXCEPT ![p] = "set"]
    /\ due' = [due EXCEPT ![p] = now + 2 * Ttl]

\* NotElected: a lock that exists is taken for one's own.
NotElectedKeepsLeader(p) ==
    /\ pc[p] \in {"held", "retried"}
    /\ pc' = [pc EXCEPT ![p] = "set"]
    /\ due' = [due EXCEPT ![p] = now + Interval]
    /\ UNCHANGED <<now, expires, leader, workers, failures, starts>>

\* NotElected: the elector takes it that its second SET succeeded.
NotElectedRetried(p) ==
    /\ pc[p] \in {"held", "retried"}
    /\ leader' = [leader EXCEPT ![p] = pc[p] = "retried"]
    /\ IF pc[p] = "held"
         THEN UNCHANGED <<workers, starts>>
         ELSE /\ workers' = [workers EXCEPT ![p] = @ + 1]
              /\ starts' = starts + 1
    /\ pc' = [pc EXCEPT ![p] = "set"]
    /\ due' = [due EXCEPT ![p] = now + Interval]
    /\ UNCHANGED <<now, expires, failures>>

-----------------------------------------------------------------------------
(* The clock: it does not pass the time by which a round must be finished.  *)

Tick ==
    /\ now < MaxTime
    /\ \A p \in Replicas : Running(p) => now < due[p] + Late
    /\ now' = now + 1
    /\ UNCHANGED <<expires, pc, due, leader, workers, failures, starts>>

-----------------------------------------------------------------------------
(* A round of the elector of replica p: what Redis does.                   *)

\* SET with EX.
SetLock == expires' = now + Ttl

\* SET NX sets the key.
Acquire(p) ==
    /\ pc[p] = "set" /\ now >= due[p]
    /\ ~Locked
    /\ SetLock
    /\ pc' = [pc EXCEPT ![p] = "acquired"]
    /\ UNCHANGED <<now, due, leader, workers, failures, starts>>

\* SET NX finds the key, be it the replica's own; on that answer the elector sends TTL.
Denied(p) ==
    /\ pc[p] = "set" /\ now >= due[p]
    /\ Locked
    /\ pc' = [pc EXCEPT ![p] = "ttl"]
    /\ UNCHANGED <<now, expires, due, leader, workers, failures, starts>>

\* TTL of the key, which may have expired since; then the elector sends SET again.
ReadTtl(p) ==
    /\ pc[p] = "ttl"
    /\ pc' = [pc EXCEPT ![p] = IF Locked THEN "held" ELSE "retry"]
    /\ UNCHANGED <<now, expires, due, leader, workers, failures, starts>>

\* The second SET NX.
Retry(p) ==
    /\ pc[p] = "retry"
    /\ IF Locked THEN UNCHANGED expires ELSE SetLock
    /\ pc' = [pc EXCEPT ![p] = "retried"]
    /\ UNCHANGED <<now, due, leader, workers, failures, starts>>

-----------------------------------------------------------------------------
(* And what the elector does when the last answer of the round arrives.    *)

Sleep(p) ==
    /\ pc' = [pc EXCEPT ![p] = "set"]
    /\ due' = [due EXCEPT ![p] = now + Interval]

\* on_change(False) does nothing: the workers run on.
StepDown(p) == leader' = [leader EXCEPT ![p] = FALSE]

\* on_change(True) starts a reaper and a consumer, whatever runs already.
StartWorkers(p) ==
    /\ workers' = [workers EXCEPT ![p] = @ + 1]
    /\ starts' = starts + 1

\* SET answered that it set the key.
Elected(p) ==
    /\ pc[p] = "acquired"
    /\ leader' = [leader EXCEPT ![p] = TRUE]
    /\ IF leader[p] THEN UNCHANGED <<workers, starts>> ELSE StartWorkers(p)
    /\ Sleep(p)
    /\ UNCHANGED <<now, expires, failures>>

\* TTL answered that the key exists, or the second SET answered, whatever it said.
NotElected(p) ==
    /\ pc[p] \in {"held", "retried"}
    /\ StepDown(p)
    /\ Sleep(p)
    /\ UNCHANGED <<now, expires, workers, failures, starts>>

Round(p) ==
    Acquire(p) \/ Denied(p) \/ ReadTtl(p) \/ Retry(p) \/ Elected(p) \/ NotElected(p)

-----------------------------------------------------------------------------
(* Failures.                                                               *)

Fail ==
    /\ failures < MaxFailures
    /\ failures' = failures + 1

\* A call raises and ends run() for good.  Redis may have run the command: then the
\* elector was Answered.
CallFails(p) ==
    /\ Running(p) /\ now >= due[p]
    /\ Fail
    /\ pc' = [pc EXCEPT ![p] = "ended"]
    /\ StepDown(p)
    /\ UNCHANGED <<now, expires, due, workers, starts>>

Crash(p) ==
    /\ pc[p] # "down"
    /\ Fail
    /\ pc' = [pc EXCEPT ![p] = "down"]
    /\ StepDown(p)
    /\ workers' = [workers EXCEPT ![p] = 0]
    /\ UNCHANGED <<now, expires, due, starts>>

Restart(p) ==
    /\ pc[p] = "down"
    /\ pc' = [pc EXCEPT ![p] = "set"]
    /\ due' = [due EXCEPT ![p] = now]
    /\ UNCHANGED <<now, expires, leader, workers, failures, starts>>

-----------------------------------------------------------------------------
Next ==
    \/ Tick
    \/ \E p \in Replicas : Round(p) \/ CallFails(p) \/ Crash(p) \/ Restart(p)

Spec == Init /\ [][Next]_vars

-----------------------------------------------------------------------------
(* Properties.                                                             *)

\* A round is over before the lock set in the round before it expires: the answer to
\* that SET may have been late, and so may be the round.
Prompt == Interval + 2 * Late < Ttl

\* If rounds are prompt, no two replicas take themselves for the leader: each has
\* stepped down before its lock is gone (leader.py:17-30).
AtMostOneLeader ==
    Prompt => \A p, q \in Replicas : leader[p] /\ leader[q] => p = q

\* If rounds are prompt, a leader's lock is still there, although no elector ever
\* renews it (leader.py:18, 27-29).
LeaderHoldsLock == Prompt => \A p \in Replicas : leader[p] => Locked

\* However late the rounds are and whatever fails, all replicas together start at most
\* one pair of workers per time to live of the lock (leader.py:18-22, main.py:264-276).
OneStartPerLock == starts * Ttl <= now + Ttl

\* Where no call fails and no replica crashes, a lock that expired is set again in the
\* round after it, although the answers of two rounds may be late: the key, not the
\* leader, is what never stays away (leader.py:17-30).
FreeLockIsTaken ==
    (failures = 0 /\ Replicas # {}) => now < expires + Interval + 2 * Late
=============================================================================
