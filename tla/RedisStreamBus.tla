--------------------------- MODULE RedisStreamBus ---------------------------
(***************************************************************************)
(* The Redis Streams bus (controller/app/bus.py) and its consumers         *)
(* (_consume_bus in controller/app/main.py), with crashes, failed calls    *)
(* and the trimming of the stream.                                         *)
(*                                                                         *)
(* A message is the number of its XADD.  The stream holds the messages     *)
(* above trimmed; the consumer group has been given those up to delivered; *)
(* pel is its list of pending entries.  Every process reads under the same *)
(* consumer name (bus.py:15), so there is one pel for all of them.         *)
(*                                                                         *)
(* The commands of Redis are external: XADD with an approximate MAXLEN,    *)
(* XREADGROUP from ">" and from "0", XACK.  A message that cannot be       *)
(* parsed, or was trimmed before its entry is read again, is logged and    *)
(* skipped without an acknowledgement, which changes nothing but the log;  *)
(* the batches below leave it out.                                         *)
(*                                                                         *)
(* attempted, succeeded, acked, lost, repeats and seen are history.        *)
(***************************************************************************)
EXTENDS Naturals, FiniteSets

CONSTANTS
    Processes,     \* controller processes, each with one consumer task
    Parsable,      \* the messages whose payload is an Event
    MaxLen,        \* maxlen of XADD
    ReadCount,     \* count of the live XREADGROUP
    ReplayCount,   \* count of the XREADGROUP of pending entries
    MaxMessages,   \* bound on the number of messages
    MaxCrashes,    \* bound on the number of crashes
    MaxErrors      \* bound on the number of failed calls

ASSUME StreamAssumption ==
    /\ IsFiniteSet(Processes)
    /\ Parsable \subseteq Nat \ {0}
    /\ {MaxLen, ReadCount, ReplayCount} \subseteq Nat \ {0}
    /\ {MaxMessages, MaxCrashes, MaxErrors} \subseteq Nat

VARIABLES
    added,      \* number of messages added to the stream
    trimmed,    \* messages 1 .. trimmed are no longer in the stream
    delivered,  \* last-delivered-id of the consumer group
    pel,        \* the group's pending entries
    mode,       \* each consumer: not deployed yet, down, starting, replaying, live, or dead
    batch,      \* the messages of the last read it has not come to yet
    cur,        \* the message it handles or acknowledges, 0 for none
    stage,      \* idle, handling, or acking
    crashes,    \* crashes so far
    errors,     \* failed calls so far
    attempted,  \* history: messages whose handler ran to an end
    succeeded,  \* history: messages whose handler returned
    acked,      \* history: messages acknowledged
    lost,       \* history: messages trimmed before they were delivered
    repeats,    \* history: how often a handler ran on an attempted message
    seen        \* history: the last message each consumer took up since its start

stream == <<added, trimmed, delivered>>
faults == <<crashes, errors>>
outcome == <<attempted, succeeded, repeats>>
vars == <<added, trimmed, delivered, pel, mode, batch, cur, stage, crashes,
          errors, attempted, succeeded, acked, lost, repeats, seen>>

TypeOK ==
    /\ {added, trimmed, delivered, crashes, errors, repeats} \subseteq Nat
    /\ trimmed <= added /\ delivered <= added
    /\ pel \subseteq 1 .. delivered
    /\ mode \in [Processes -> {"off", "down", "start", "replay", "live", "dead"}]
    /\ batch \in [Processes -> SUBSET (1 .. delivered)]
    /\ cur \in [Processes -> 0 .. delivered]
    /\ seen \in [Processes -> 0 .. delivered]
    /\ stage \in [Processes -> {"idle", "handling", "acking"}]
    /\ \A s \in {attempted, succeeded, acked, lost} : s \subseteq 1 .. added

Init ==
    /\ added = 0 /\ trimmed = 0 /\ delivered = 0
    /\ pel = {}
    /\ mode \in [Processes -> {"off", "start"}]
    /\ \E p \in Processes : mode[p] = "start"
    /\ batch = [p \in Processes |-> {}]
    /\ cur = [p \in Processes |-> 0]
    /\ stage = [p \in Processes |-> "idle"]
    /\ crashes = 0 /\ errors = 0
    /\ attempted = {} /\ succeeded = {} /\ acked = {} /\ lost = {}
    /\ repeats = 0
    /\ seen = [p \in Processes |-> 0]

\* The n smallest members of a set of messages.
Oldest(n, S) == {m \in S : Cardinality({k \in S : k < m}) < n}

\* A call to Redis that raises.
Fail ==
    /\ errors < MaxErrors
    /\ errors' = errors + 1
    /\ UNCHANGED crashes

-----------------------------------------------------------------------------
(* Seeded faults.  Each operator is a plausible wrong form of the           *)
(* definition named in its comment; PROJECT.json names the property that    *)
(* must fail when it is put in that definition's place.                     *)

\* ReplayRead: the stream is read, not the group's pending entries.
ReplayReadsStream(p) ==
    /\ mode[p] = "start"
    /\ mode' = [mode EXCEPT ![p] = "replay"]
    /\ batch' = [batch EXCEPT ![p] = Parsable \cap (trimmed + 1 .. added)]
    /\ UNCHANGED <<stream, pel, cur, stage, faults, outcome, acked, lost, seen>>

\* ReplayRead: a starting consumer reads on from where the group is.
ReplaySkipsPending(p) ==
    /\ mode[p] = "start"
    /\ mode' = [mode EXCEPT ![p] = "replay"]
    /\ UNCHANGED <<stream, pel, batch, cur, stage, faults, outcome, acked, lost, seen>>

\* Crash: close() removes the consumer from the group, and its pending entries
\* with it.
CrashDeletesConsumer(p) ==
    /\ mode[p] \notin {"off", "down"}
    /\ crashes < MaxCrashes
    /\ crashes' = crashes + 1
    /\ mode' = [mode EXCEPT ![p] = "down"]
    /\ batch' = [batch EXCEPT ![p] = {}]
    /\ seen' = [seen EXCEPT ![p] = 0]
    /\ cur' = [cur EXCEPT ![p] = 0]
    /\ stage' = [stage EXCEPT ![p] = "idle"]
    /\ pel' = {}
    /\ UNCHANGED <<stream, errors, outcome, acked, lost>>

\* Yield: the message is acknowledged before it is handed to the handler.
YieldAcksFirst(p) ==
    /\ stage[p] = "idle"
    /\ batch[p] # {}
    /\ \E m \in Oldest(1, batch[p]) :
        /\ cur' = [cur EXCEPT ![p] = m]
        /\ batch' = [batch EXCEPT ![p] = @ \ {m}]
    /\ pel' = pel \ {cur'[p]}
    /\ acked' = acked \cup {cur'[p]}
    /\ seen' = [seen EXCEPT ![p] = cur'[p]]
    /\ stage' = [stage EXCEPT ![p] = "handling"]
    /\ UNCHANGED <<stream, mode, faults, outcome, lost>>

\* Ack: the wrong group is named, and Redis ignores the call.
AckOfOtherGroup(p) ==
    /\ stage[p] = "acking"
    /\ acked' = acked \cup {cur[p]}
    /\ cur' = [cur EXCEPT ![p] = 0]
    /\ stage' = [stage EXCEPT ![p] = "idle"]
    /\ UNCHANGED <<stream, pel, mode, batch, faults, outcome, lost, seen>>

\* AckFails: the consumer goes back to the pending entries.
AckFailureRestarts(p) ==
    /\ stage[p] = "acking"
    /\ errors < MaxErrors
    /\ errors' = errors + 1
    /\ mode' = [mode EXCEPT ![p] = "start"]
    /\ cur' = [cur EXCEPT ![p] = 0]
    /\ stage' = [stage EXCEPT ![p] = "idle"]
    /\ UNCHANGED <<stream, pel, batch, crashes, outcome, acked, lost, seen>>

-----------------------------------------------------------------------------
(* Publishers.                                                             *)

\* XADD; an approximate trim keeps the MaxLen youngest entries and any number
\* of older ones.
Publish ==
    /\ added < MaxMessages
    /\ added' = added + 1
    /\ trimmed' \in {t \in trimmed .. added : t = trimmed \/ t + MaxLen <= added + 1}
    /\ lost' = lost \cup {m \in trimmed + 1 .. trimmed' : m > delivered}
    /\ UNCHANGED <<delivered, pel, mode, batch, cur, stage, faults, outcome, acked, seen>>

-----------------------------------------------------------------------------
(* The consumer: pending entries once, then new ones for ever.             *)

\* XREADGROUP from "0": the oldest pending entries, whoever they were
\* delivered to.
ReplayRead(p) ==
    /\ mode[p] = "start"
    /\ mode' = [mode EXCEPT ![p] = "replay"]
    /\ batch' = [batch EXCEPT ![p] =
          {m \in Oldest(ReplayCount, pel) : m \in Parsable /\ m > trimmed}]
    /\ UNCHANGED <<stream, pel, cur, stage, faults, outcome, acked, lost, seen>>

\* The group was not created, or the first read raises: the generator raises
\* and ends _consume_bus, which catches only what the handler raises.
StartFails(p) ==
    /\ mode[p] = "start"
    /\ Fail
    /\ mode' = [mode EXCEPT ![p] = "dead"]
    /\ UNCHANGED <<stream, pel, batch, cur, stage, outcome, acked, lost, seen>>

\* The batch of pending entries is through; the live loop begins.
GoLive(p) ==
    /\ mode[p] = "replay"
    /\ stage[p] = "idle"
    /\ batch[p] = {}
    /\ mode' = [mode EXCEPT ![p] = "live"]
    /\ UNCHANGED <<stream, pel, batch, cur, stage, faults, outcome, acked, lost, seen>>

\* What XREADGROUP from ">" hands to the group.
NextBatch == Oldest(ReadCount, {m \in delivered + 1 .. added : m > trimmed})

Deliver(new) ==
    /\ new # {}
    /\ pel' = pel \cup new
    /\ delivered' = CHOOSE m \in new : \A k \in new : k <= m

LiveRead(p) ==
    /\ mode[p] = "live"
    /\ stage[p] = "idle"
    /\ batch[p] = {}
    /\ Deliver(NextBatch)
    /\ batch' = [batch EXCEPT ![p] = NextBatch \cap Parsable]
    /\ UNCHANGED <<added, trimmed, mode, cur, stage, faults, outcome, acked, lost, seen>>

\* Redis hands the messages out, but the answer is lost: the loop sleeps and
\* reads on, from ">".
LiveReadFails(p) ==
    /\ mode[p] = "live"
    /\ stage[p] = "idle"
    /\ batch[p] = {}
    /\ Deliver(NextBatch)
    /\ Fail
    /\ UNCHANGED <<added, trimmed, mode, batch, cur, stage, outcome, acked, lost, seen>>

\* The next message of the batch goes to handle_event().
Yield(p) ==
    /\ stage[p] = "idle"
    /\ batch[p] # {}
    /\ \E m \in Oldest(1, batch[p]) :
        /\ cur' = [cur EXCEPT ![p] = m]
        /\ batch' = [batch EXCEPT ![p] = @ \ {m}]
    /\ seen' = [seen EXCEPT ![p] = cur'[p]]
    /\ stage' = [stage EXCEPT ![p] = "handling"]
    /\ UNCHANGED <<stream, pel, mode, faults, outcome, acked, lost>>

\* The handler returns, or raises and _consume_bus logs it.  Either way the
\* generator is asked for the next message and acknowledges this one first.
HandlerEnds(p) ==
    /\ stage[p] = "handling"
    /\ stage' = [stage EXCEPT ![p] = "acking"]
    /\ repeats' = IF cur[p] \in attempted THEN repeats + 1 ELSE repeats
    /\ attempted' = attempted \cup {cur[p]}
    /\ succeeded' \in {succeeded, succeeded \cup {cur[p]}}
    /\ UNCHANGED <<stream, pel, mode, batch, cur, faults, acked, lost, seen>>

\* Consumer p is done with its message.
Release(p) ==
    /\ cur' = [cur EXCEPT ![p] = 0]
    /\ stage' = [stage EXCEPT ![p] = "idle"]

Ack(p) ==
    /\ stage[p] = "acking"
    /\ pel' = pel \ {cur[p]}
    /\ acked' = acked \cup {cur[p]}
    /\ Release(p)
    /\ UNCHANGED <<stream, mode, batch, faults, outcome, lost, seen>>

\* XACK raises and is not tried again; the next message is taken up.
AckFails(p) ==
    /\ stage[p] = "acking"
    /\ Fail
    /\ Release(p)
    /\ UNCHANGED <<stream, pel, mode, batch, outcome, acked, lost, seen>>

-----------------------------------------------------------------------------
(* Processes.                                                              *)

\* A crash.  A shutdown has the same effect: close() does not wait, and the
\* cancelled handler is left without an acknowledgement.
Crash(p) ==
    /\ mode[p] \notin {"off", "down"}
    /\ crashes < MaxCrashes
    /\ crashes' = crashes + 1
    /\ mode' = [mode EXCEPT ![p] = "down"]
    /\ batch' = [batch EXCEPT ![p] = {}]
    /\ seen' = [seen EXCEPT ![p] = 0]
    /\ Release(p)
    /\ UNCHANGED <<stream, pel, errors, outcome, acked, lost>>

Restart(p) ==
    /\ mode[p] = "down"
    /\ mode' = [mode EXCEPT ![p] = "start"]
    /\ UNCHANGED <<stream, pel, batch, cur, stage, faults, outcome, acked, lost, seen>>

\* One more replica of the controller is deployed.
Deploy(p) ==
    /\ mode[p] = "off"
    /\ mode' = [mode EXCEPT ![p] = "start"]
    /\ UNCHANGED <<stream, pel, batch, cur, stage, faults, outcome, acked, lost, seen>>

-----------------------------------------------------------------------------
\* The steps of a consumer to which nothing happens.
Consume(p) ==
    \/ ReplayRead(p)
    \/ GoLive(p)
    \/ LiveRead(p)
    \/ Yield(p)
    \/ HandlerEnds(p)
    \/ Ack(p)

Next ==
    \/ Publish
    \/ \E p \in Processes :
        \/ Consume(p)
        \/ StartFails(p) \/ LiveReadFails(p) \/ AckFails(p)
        \/ Crash(p) \/ Restart(p) \/ Deploy(p)

Spec == Init /\ [][Next]_vars

\* Reads block for a second at most, every call a handler awaits has a
\* timeout, and a crashed process is restarted by its Deployment.  A process
\* whose consumer is dead is not: /health/live does not look at it.
Fairness ==
    \A p \in Processes : WF_vars(Consume(p)) /\ WF_vars(Restart(p))

FairSpec == Spec /\ Fairness

-----------------------------------------------------------------------------
(* Properties.                                                             *)

\* XACK never overtakes the handler: what was acknowledged was handled to an end at
\* least once, so a crash at any point leaves an unhandled message pending
\* (bus.py:107-108, 127-128).
AckedWasAttempted == acked \subseteq attempted

\* Every message added is still to be delivered, pending, acknowledged, or was trimmed
\* unread: no crash and no failed call makes the group forget one (bus.py:89-130).
NothingForgotten ==
    1 .. added = (delivered + 1 .. added) \cup pel \cup acked \cup lost

\* No process but p was ever deployed.
Alone(p) == \A q \in Processes : q # p => mode[q] = "off"

\* As long as there is one process, each crash or failed call makes at most one handler
\* run again on a message it had already handled (bus.py:99-110, 124-130).
RepeatsBounded == (\E p \in Processes : Alone(p)) => repeats <= crashes + errors

\* From its start to its next crash a consumer takes up messages in the order they
\* were added: the replay comes first and holds only older ones (bus.py:99-130).
InOrder ==
    [][\A p \in Processes : stage[p] = "idle" /\ stage'[p] = "handling"
            => cur'[p] > seen[p]]_vars

\* However consumers crash, restart and join, they come to every parsable message,
\* unless it is trimmed first or a call to Redis failed (bus.py:99-130).
\* What is pending must fit into one replay: entries that are unparsable, or trimmed
\* while they were pending, are never acknowledged and take up its room for good.
\* After a failed call nothing is sure: an exception of the first read ends the consumer
\* task, and a lost answer leaves its messages pending until the next start.
EveryMessageHandled ==
    \A m \in Parsable \cap 1 .. MaxMessages :
        (m <= added) ~> (m \in attempted \/ m <= trimmed \/ errors > 0)

\* "Events are ACK'd after successful processing" (bus.py:72).  Failed ones are too.
AckedSucceeded == acked \subseteq succeeded
=============================================================================
