# Formal models of the Adaptive Deception Grid

TLA+ modules, TLC configurations and TLAPS proofs for the ADG SIEM code base
(`src/`): the controller's event buses, its event pipeline and rule engine, the life
cycle of its lures, its leader election, its alerts and their delivery, its DNS records
and its access checks; the token engine, the SOAR service and the pcap forwarder. This
file lists the whole system, says what is modelled and how it corresponds to the code,
what the checks and the proofs show, and what is left out.

Line numbers refer to files under `src/`; where no directory is given, to
`src/controller/app/`.

## 1. Inventory of the system

Three FastAPI services (controller, token engine, SOAR playbooks), a pcap sidecar and
a set of fake services. Each Python service runs one asyncio event loop, so code
between two `await`s is atomic within a process; concurrency comes from tasks at their
suspension points, from several replicas of a service that share Redis or Postgres,
and from crashes and failed calls between two calls to outside stores.

| Component | State | Operations | Interacts with | Hard behaviour | What makes it correct |
|---|---|---|---|---|---|
| In-memory bus (`bus.py:29-66`) | queue, unfinished count, shutdown flag | publish, subscribe, close | `/events`, consumer task, shutdown hook | full queue, several consumers, time-outs, shutdown with a backlog | lossy FIFO: oldest dropped under overload only; join() accounting; clean stop |
| Redis Streams bus (`bus.py:69-137`) | stream, group offset, pending entries (in Redis), batch and message in hand (in the process) | publish, replay, live read, ack, close | all replicas share one group and one consumer name | crash, lost answers, trimming, unparsable entries | nothing forgotten, at-least-once, ordered per consumer, bounded repeats |
| Lures (`orchestrator.py`, `state.py`, `ttl.py`) | lures table, deployments in the cluster, reaper task | deploy, teardown, reap | event pipeline, Kubernetes, database | two stores without a transaction, crash in between, several replicas | no early reap, no unrecorded deployment beyond the failures, clean-up |
| Leader election (`leader.py`, `main.py:259-280`) | Redis key with a time to live, `is_leader`, workers | run, on_change | starts reaper and consumer | delays, expiry, failed calls | one leader, bounded starts |
| Rule engine (`rules.py`) | rules, sliding windows per field and key | evaluate, threshold, validate | event pipeline, hot reload | windows shared by rules, short-circuit evaluation, lazy generator | a threshold fires when it should |
| Event pipeline (`main.py:190-250, 363-370`) | rule engine in force, event in hand | handle_event, dispatch, reload | buses, rules, orchestrator, DNS, SIEM | one action of several raises; reload between two rules | every action of a matching rule is attempted once |
| Subnet policy (`policy.py`) | none | is_allowed | dispatch | overlapping networks | no lure in a blocked subnet |
| Alert content (`alerts.py`, `kill_chain.py`, `redaction.py`) | none | build_alert: look-ups, recursive masking | dispatch | nested dicts and lists, unlisted techniques | nothing sensitive passes, nothing else is lost |
| SIEM fan-out (`siem.py`) | tries of each emitter | emit, retry, gather | dispatch, SIEMs | answers lost after the alert was stored, one emitter of several failing, a body that cannot be encoded | at most three copies, independent emitters, every emission ends |
| DNS (`dns.py`, `dns_providers.py`) | the record set at the provider | upsert (delete has no caller) | dispatch, four providers | look-up and write are two requests at one provider | one record for a name |
| Auth and revocation (`security.py`, `auth.py`, copied in the three services) | in each process: list of revoked ids and when each lapses | mTLS, decode, look up and purge, roles; revoke (controller only) | every route | each check in a thread of its own, the purge by the clock | a revoked token stays revoked while it is good |
| Token engine (`token-engine/app`) | in each container: tables of tokens and accesses | create, rotate, bundle, access | generator, webhook | a rotation is several transactions; an unknown type or a crash in the middle; several replicas, new containers | every answered token is stored where it was made, every access once |
| SOAR playbooks (`soar-playbooks/app`) | results of an alert's steps | handle_alert, execute, twelve handlers, four drivers | webhook from the controller, outside services | a handler that raises half-way becomes an error result | no step left out, in order |
| Pcap forwarder (`honeypot-farm/pcap-forwarder`) | `.forwarded`, the file of names done with, and `seen`, its copy in memory | scan, send with retry, save | tcpdump, Kafka | sends whose message arrives late, crash between send and save or in the save, captures that grow, begin anew or are deleted | no name passed over undelivered, few duplicates |
| Realism, coverage, baseline (`deception.py`) | 10-second buckets per source | record, score | pipeline | standard deviation of zero | score in [0, 1] |
| Enrichment, health, AD, CMDB, secrets | none | calls to outside services | pipeline, routes | time-outs | a failure does not block an alert |
| Audit, configuration | append-only log, settings | log | all | | |
| Honeypot apps (`honeypot-farm/apps`) | session of each connection | protocol handlers | controller `/events` | SMTP dialogue | an event per interaction |
| Breadcrumbs, charts, infra, dashboards, validation | | | | | deployment descriptions, not modelled |

`PROJECT.json` lists the hazards of this code, each at its line, with the properties
that guard it.

## 2. Modules

| Module | What it is |
|---|---|
| `LossyFifo` | abstract specification: what an in-memory bus promises its subscribers |
| `InMemoryBus` | `InMemoryBus`, its publishers, consumers and the shutdown hook; refines `LossyFifo` |
| `RedisStreamBus` | `RedisStreamBus` and its consumer, with Redis' stream and group as environment |
| `LureLifecycle` | both orchestrators, the lures table and the TTL reaper |
| `LeaderElection` | the elector, its lock and the workers its terms start |
| `RuleEngine` | conditions, groups, rules and sliding windows, as operators |
| `SubnetPolicy` | the check of a lure's subnet, as an operator |
| `EventPipeline` | `handle_event`, `_dispatch_action` and the reload of the rules, on top of these two |
| `AlertContent` | `build_alert` with the kill-chain table and the redaction |
| `AlertFanOut` | abstract specification: what the SIEM side promises for one alert |
| `AlertDelivery` | the emitters, their retries and the fan-out; refines `AlertFanOut` |
| `DnsRecords` | upserts of one name at the four DNS providers |
| `Revocation` | the checks before a handler, in every service, and the revocation lists |
| `TokenEngine` | the token engine's requests at its replicas, over the two tables of each container |
| `SoarPlaybooks` | an alert's way through the playbooks, handlers and drivers |
| `PcapForwarder` | the forwarder, its file, its directory and Kafka |
| `ServiceSuite` | composes the last seven components, which share no state |
| `MC*` | the same modules for TLC: symmetry sets, constant functions, rule files, events, playbooks |
| `*_proofs` | theorems and their TLAPS proofs: one module each for the buses, the lures, the election, the rule engine and the pipeline; `ServiceDelivery_proofs` for `AlertContent`, `AlertDelivery`, `PcapForwarder` and `SoarPlaybooks`, `ServiceSuite_proofs` for `DnsRecords`, `Revocation`, `TokenEngine` and the seven together |

Each module has a section of *seeded faults*: wrong forms of an operation, each of
which makes a named property fail when it replaces the operation. They are not part of
the specification; they show that the property can tell the code from a likely mistake.

### InMemoryBus

| Code | Model |
|---|---|
| `queue`, `_shutdown`, `_consumer_task` | `queue`, `shutdown`, `consumerTask` |
| `asyncio.Queue._unfinished_tasks` | `unfinished` |
| the frame of a `_consume_bus` task: loop head, in `get()`, in `handle_event()` | `pc`, `holding` |
| `publish()`, called from `POST /events` | `Publish` = `PublishRoom` or `PublishFull` |
| loop condition and `get()` with an event there | `EnterLoop` (`Take`) |
| a waiting `get()` woken by a put, or timed out | `Wake`, `Timeout` |
| loop condition with the flag set | `ExitLoop` |
| end of the handler, then `task_done()` | `FinishHandling` |
| `close()` and the rest of `_shutdown()` | `Close`, `Stop` |
| `_start()` of a new term of leadership | `Start` |

`publish()` never suspends (it makes room first), so it is one action. A handler that
raises is logged and looks like one that returns. The event `None` that would end the
generator is never published and is left out.

### RedisStreamBus

Messages are numbered by XADD. `added`, `trimmed`, `delivered` and `pel` are the state
of Redis, `mode`, `batch`, `cur` and `stage` that of each process. XADD trims
approximately: any number of entries beyond MAXLEN may go. XREADGROUP from ">" advances
the group and makes the entries pending, from "0" it returns the oldest pending ones,
of whichever process. The answer of a live read may be lost (`LiveReadFails`): then the
entries are pending and the loop reads past them. A graceful shutdown is a crash to the
group, since `close()` waits for nothing. A process need not be there from the beginning
(`Deploy`): until a second one is, `RepeatsBounded` bounds the repeats.

### LureLifecycle

`rows` is the table, `pods` the deployments. The clients are synchronous, so a
deployment (`Create`, `Insert`) and a pass of the reaper (`ReapScan`, then `Delete` and
`Remove` for each expired lure, `ReapDone`) exclude each other within a replica, and
`at` and `lure` say where its event loop is. Every call has a form that raises, which
for a call to the API may or may not have taken effect. Exceptions end a deployment
(`_consume_bus` logs them) but also the reaper task, which nothing restarts. Leader
election is off in this module: one reaper for each process.

### LeaderElection

Time is counted in seconds. `expires` is the end of the lock's life. A command and its
answer are two steps: `Acquire`, `Denied`, `ReadTtl` and `Retry` are what Redis does with
the first SET, the TTL and the second SET, `Elected` and `NotElected` what the elector does
when the last answer of the round has come. So the lock lives from the command and the
elector sleeps from the answer. `pc` says which command is on its way to Redis (`Asking`)
or which answer on its way back (`Answered`). A round may last until `Late` after it was
due, whatever delays it. The elector steps down in the first round after its election,
because its own key denies it; `workers` counts the reaper and consumer pairs, which
nothing stops.

If a sleep and two delays fit into the lock's life (`Prompt`: Interval + 2 * Late < Ttl),
there is one leader and its lock stands. One delay is that of the answer after which the
leader sleeps, the other that of the round in which it steps down. With the default
`leader_lock_ttl` of 20 (config.py:60) and the sleep of 10, delays of up to 4 seconds are
covered.

### RuleEngine, SubnetPolicy and EventPipeline

An operator of the table (rules.py:78) stands for the values it accepts and those it
raises on; `threshold` is modelled in full, `unknown` is an operator the table lacks.
`Match` goes through the conditions as the code does: `when` stops at the first that
fails, a group is evaluated to its end, groups stop at the first that does not pass, and
an exception stops everything but keeps the windows recorded so far. Each of these loops
is a recursive function of the place it has come to (`EvalAll`, `EvalGroup`,
`EvalGroups`), which the proofs can reason about.

`NarrowThresholds` are the thresholds no other one over the same field is narrower than;
`UniqueThresholds` are those that stand at no more than one place of each file. The evaluations of a threshold are history (`evaluations`).

| Code | Model |
|---|---|
| `_window_counter._windows` | `windows`, by field and value of the key |
| `rule_engine` | `engine`, the index of its rule file |
| `baseline_tracker._events` | `baseline` |
| the frame of a `handle_event` coroutine | `stage`, `event`, `number`, `using`, `rule`, `action` |
| the event loop | `running`: nothing else happens while a task runs |
| up to the look-ups, and their end | `Begin`, `EnrichmentEnds` |
| `evaluate()`, rule by rule | `PassOver`, `EvalRule`, `Return` |
| `_dispatch_action()` | `Skip`, `Deploy`, `DeployRaises`, `DnsReturns`, `DnsRaises`, `Emit`, `EmitEnds` |
| the end of the inner loop | `RuleDone` |
| `POST /rules/reload` | `Reload` |

Only an await that really waits gives up the loop: the look-ups, the DNS update and the
emitters do, `deploy()` does not. Two tasks work on one bus after two terms of
leadership. What happens to the event before (delivery, repetition) is the business of the
bus modules, a lure's fate that of `LureLifecycle`, an alert's that of `AlertContent` and
`AlertDelivery`, a DNS update's that of `DnsRecords`.

### AlertContent

`BuildAlert` is `build_alert()` for a rule's list of techniques, an event and what the
enrichment found. Of an event, `data` is what the model `Event` calls so and `rest` all else
that was posted, which the alert carries as it is. `RedactDict` is `redact_dict()`, whose
`Redact` follows `_redact()` through dicts and lists. A technique is the stage its row of the table names, and of a
text matters whether one of the value patterns finds something in it. A dict is the
sequence of its items, in the order in which the code goes through them. `Data` holds
the values nested up to `MaxDepth` deep: `event.data` comes out of a JSON parser, so it
is finite, and `_redact()` returns only where Python's limit of recursion lets it.
`Redact` is a recursive function on `Data`, which the proofs can reason about.

`AlertIsFaithful` is about `event.data`; that the rest is not scanned is in section 6. It
compares the leaves of the data before and after, with their paths,
which the code never computes. It asks three things: what need not be hidden is where it
was; each leaf that must be hidden is covered, by a redacted leaf at its path or above
it; and every new leaf covers something that had to be hidden. It does not ask that no
leaf of a kept value reads `[REDACTED]`, since an event may itself hold that text.

### AlertDelivery and AlertFanOut

| Code | Model |
|---|---|
| `SIEM_MODE`, `build_siem_emitter()` | `SiemModes`, `BuildEmitters`, `siemEmitters` |
| `emit()`, `asyncio.gather` | `StartEmission`, `Report` |
| the loop of `_post_with_retry()` | `siemCalls[i].tries`, `TryFails`, `RetryBegins` |
| one POST: sent, stored, answered | `SendAlert`, `TargetStores`, `TargetConfirms` |
| a POST that fails before or after it arrived | `AlertIsLost`, `AnswerIsLost` |
| what the JSON encoder does with the event's `ts` | `Encodes`, `EncodingRaises` |

`AlertFanOut` numbers the targets and knows of each only how many copies arrived and
whether it counts as served; no target gets more copies than there are retries. It leaves
open how soon an emitter may give up: the documentation says that each retries, of which
`EveryEmitterSends` is the least, and finding 6 is that some do not send at all.

### DnsRecords

One name and type, whose records are a sequence. Three providers replace the record set
in one request (`Replace`); Cloudflare is asked first (`FindRecord`) and then told
(`CloudflareWrites`). `dnsMost` and `dnsAlone` are history for the property only: the
most upserts under way at one time, and whether one has been alone since it began.

### Revocation

A request (`authRequest`) goes through the dependencies in their order: `MtlsVerify`,
`DecodeToken`, `CheckRevoked`, `RequireRoles`, then `RevokeToken` or `Handle`. FastAPI
runs each in a thread of its pool, so the clock and other requests come in between; the
list is read and purged under its lock, in one action. Every service has a list of its
own, and only the controller's has a route that writes it. A restart loses it.

### TokenEngine

The handlers are coroutines that wait only for the webhook of an access, so `LoopIsFree`
guards what begins a request at a replica. Each row is a transaction of its own
(`AddToken`), and `EngineCrash` may come between two. Every replica has a SQLite file of
its own. The file survives a crash of the process in its container, but not the
container, for which infra/k8s/token-engine.yaml mounts no volume: `EngineCrash` may start
a new one (`tokContainer`). A database is known by its replica and its container (`Bases`),
and a row says which one it is in; rows of an earlier container are kept in the model, for
the properties, and no request sees them.

### SoarPlaybooks

A handler is the sequence of its deeds (`HandlerOf`): `append` to a log file, `send` a
request whose status nobody reads, `post` one whose error status raises, `find` a
thing that may not be there, `modify` over LDAP. `DeedRaises` ends the handler, with the
deed done or not, and `execute()` turns the exception into the result of the step. The
trigger that a playbook of the file may have, and the severity of an alert, are part of
the records although `Playbook` and `Alert` drop them, so that properties can speak of
them; no action reads them. `EveryStepAttempted` allows both what the code does and what
the documentation says of triggers and retries (section 6).

### PcapForwarder

A capture's size is 1 (fits a Kafka message), 2 (does not, but is within
MAX_FILE_SIZE_MB) or 3. Stat, read, send, mark and save are steps, between which the
capture may grow or go and the process may crash; `write_text` truncates before it
writes, so `MarkSeen` empties the file and `WriteSaved` fills it. The directory, Kafka
and tcpdump are external. The sidecars let tcpdump write one fixed name
(infra/k8s/honeypots), so a capture may begin anew at any time (`CaptureRestarts`), also
after it was deleted.

A send that failed says nothing of its message (`MessageIsLeft`): it was dropped, it
arrived, or `flush(timeout=30)` left it in the producer's buffer, which gets rid of it
later (`LateArrival`), beside the retry. `pcapArrived` counts what Kafka has, confirmed or
not, and `pcapTroubled` are the captures a send of which did not go through at once. `SaveFails` is the `OSError` of either half: the scan ends, and
`seen` keeps the name that the file lacks.

### ServiceSuite

These components run in separate processes, or in tasks without common state, and no
variable belongs to two of them. A behaviour of all of them is therefore an interleaving
of one of each, and a property of the variables of one, insensitive to stuttering, holds of
the interleaving exactly if it holds of that one alone. So `part` picks the one a behaviour
follows; checking them in one run costs the sum of their state spaces and not the
product. The step from one component to all of them is a theorem (`PartsRunAlone`): a
behaviour of `SuiteSpec` is one of every component's own specification.

## 3. Runs

| Run | Configuration | Bounds | Shows |
|---|---|---|---|
| `bus_memory` | `MCInMemoryBus.cfg` | 2 consumers, queue of 2, 5 events | all safety properties, the refinement of `LossyFifo`, and two liveness properties |
| `bus_memory_drain` | `MCInMemoryBusDrain.cfg` | 4 events | finding: `close()` does not drain the queue |
| `bus_memory_join` | `MCInMemoryBusJoin.cfg` | 4 events | finding: `close()` waits for dropped events |
| `lure_cluster` | `MCLureCluster.cfg` | 2 replicas, 3 lures, 2 failures, 3 seconds | safety with crashes and failed calls; clean-up while a reaper is left |
| `lure_after_error` | `MCLureAfterError.cfg` | 1 replica, 2 lures, 1 failure | finding: one failed call ends the clean-up |
| `stream_pair` | `MCRedisPair.cfg` | 2 processes, 4 messages (one unparsable), MAXLEN 2, 1 crash, 1 failed call | safety of the consumer group, bounded repeats, every message handled |
| `stream_ack` | `MCRedisAckFailed.cfg` | 1 process, 2 messages | finding: a failed event is acknowledged |
| `leader_pair` | `MCLeaderElection.cfg` | 2 replicas, time to live 5, delay 1, 16 seconds, 1 failure | exclusive leadership, rare starts |
| `pipeline_pair` | `MCEventPipeline.cfg` | 2 tasks, 3 events of 2 kinds, 3 rule files, 2 seconds, 1 reload, 1 failed call | nothing skipped, one rule file per event, which thresholds are exact |
| `pipeline_threshold` | `MCThresholdMisses.cfg` | 1 task, 3 events, windows of 1 and 2 seconds | finding: a threshold misses |
| `services` | `MCServiceSuite.cfg` | see below | the seven components of `ServiceSuite` |
| `siem_webhook` | `MCSiemWebhook.cfg` | the default SIEM mode, 3 tries | finding: no alert is sent |

Why the bounds are enough. A queue of two with five events overflows while one event is
handled and another waits, and again after that. Three lures give a pass of the reaper
that has removed one, works on one and has one left; two replicas give two snapshots of
the same table, and two failures an orphan and a ghost together. Four messages with
reads of two give two batches, one of which straddles the unparsable message, and a
MAXLEN of two lets the trim overtake both the pending and the unread ones; a process may
join late, so that the run has the behaviours of one process as well as of two. A time to
live of five with a sleep of two and delays of one is the smallest that `Prompt` admits
with a delay, where four would let a leader outlive its lock; sixteen seconds see three
lives of it. Three events over two seconds fill a window, lose part
of it and fill it again; the rule files have a rule of each kind (disabled, not approved,
with groups, with an operator nobody knows, with a bad, a blocked and an allowed subnet,
with a DNS record), and one the validation refuses. The proofs cover the other values.

`services`: rules of up to three techniques, of which one is unlisted, over data with up to
three dicts and lists in each other, some of whose texts read like what the redaction puts
in; six values of SIEM_MODE with up to three emitters, every one of them, one
twice, one unknown; three upserts of two values, the least for which a race leaves a
surplus record that a third upsert then meets; two services, two requests at a time, two
tokens that expire at 2 and 3 within three seconds, any exp in a revocation; three
playbook files with every handler, an unknown action, a playbook that is off and a
repeated key, for alerts of two severities, with no outside service or with all of them;
two requests to two replicas of the token engine, each of which may get one new container,
for up to four tokens: the least with which one request meets what the other left, or
does not, and a rotation meets an unknown type in its middle; one capture, two tries to
send it and two crashes, which leave a message in the producer's buffer beside its retry
and empty `.forwarded` twice. Captures are sent one after the other and share only the
file, which the proof covers for any number of them. Between them the parts have about
350 000 states.

The properties that hold:

* `Conservation`, `ExclusiveHandling`, `RefinesLossyFifo`: an event is waiting,
  handed to one consumer or dropped, and dropped only after `max_size` younger ones.
* `StopFindsAllHandled`: where `close()` returns, everything was handled. After an overload
  it does not return at all (finding 2).
* `BacklogIsServed`, `IdleCloseReturns`: liveness of consumer and shutdown.
* `AckedWasAttempted`, `NothingForgotten`, `InOrder`, `RepeatsBounded`,
  `EveryMessageHandled`: delivery in order, as long as there is one process with one repeat
  at most for each crash or failed call, and at least once where no call failed and the
  pending fits one replay. Finding 4 and section 6 are about the rest.
* `NoEarlyReap`, `RecordedPodsKeepRow`, `DamageBounded`: no lure goes before its time, none
  that is recorded loses its row, and no more are left behind than there were failures.
  `ExpiredGoOrReapersEnd`: an expired row is removed unless every reaper was ended by an
  exception. A lone replica's is not without a failure (`ReaperSurvives`, a theorem).
* `NothingSkipped`, `AlertsEndNothing`, `OneFilePerEvent`: a handler that returns has
  matched every active rule of one rule file and dispatched every action of the matching
  ones once, in order; what ends it early is a lure or an operator that raises, never an
  alert.
* `UnsharedThresholdIsExact`, `NarrowestNeverMisses`: a threshold whose field no other
  threshold uses counts exactly the events of its window; of several over one field only
  the narrowest is sure to fire when it should (and all of them may fire too early,
  since each records the event).
* `AtMostOneLeader`, `LeaderHoldsLock`: if `Prompt`, one leader at most, whose lock stands.
  `OneStartPerLock`, `FreeLockIsTaken`: however late, one start of workers for each life of
  the lock, and a lock that is set again within a sleep and two delays of its expiry.
* `AlertIsFaithful`: an alert covers all of `event.data` that is sensitive, at any depth, and
  nothing is lost that is not, and its kill chain names the stages of its techniques in
  order. Whether the rest of the event is redacted is left open (section 6).
* `RefinesFanOut`: no target gets more copies than there are retries, none is held up
  or failed by another, failure is reported only if nobody was served, every emission
  ends. It does not say that anybody is served (finding 6).
* `ExtraRecordsNeedRace`: a name has two records only after a race at Cloudflare, and never
  more than there were upserts at one time.
* `RevocationHolds`: a token a process was told to revoke passes none of its checks before
  the exp of that revocation is over, however purges and requests interleave.
* `TokensAreAccounted`: every token in an answer is stored in the database it was made for,
  rows come from requests only, and an access is stored once if the database it meets has
  the token, and refused only if it has not, whatever crashes or raises in the middle. That
  the database met may not be the one of the token is in section 6.
* `EveryStepAttempted`: the steps for an alert are executed in order, none that is meant for
  it is left out, and the results tell of the right step, whatever raises. Triggers and
  retries are left open (section 6).
* `ForwardedOnce`: what counts as forwarded arrived or was too large; a second copy needs a
  send that did not go through at once, or a crash.

Deadlock is not checked where the system may come to rest: the bus after shutdown, a
cluster whose replicas are down or whose lures and clock are used up, a stream whose
messages are all handled (the read then blocks and times out, which changes nothing),
a pipeline without further events,
the clock of the election at its bound, and in `services` an alert delivered, a token
engine whose requests are answered, a SOAR alert processed.

### Findings

Each is a run in which TLC finds the statement violated.

1. `bus_memory_drain`. bus.py:63 promises "Signal consumer to drain then stop.". The
   consumer reads the flag at the head of its loop (bus.py:50) and leaves with events
   in the queue, for which `join()` then waits for ever.
2. `bus_memory_join`. bus.py:65 means "task_done() accounting" to be "correct". `publish()`
   takes the oldest event out of a full queue without `task_done()` (bus.py:42), so after
   one overload `join()` waits for ever on an empty queue.
3. `lure_after_error`. docs/data-flow.md:118 promises "automatic reaper cleanup"; the
   first call that raises ends `TTLReaper.run()` (ttl.py:16-21) and expired lures stay.
4. `stream_ack`. bus.py:72 promises "Events are ACK'd after successful processing so no
   message is lost on restart"; `_consume_bus` (main.py:299) swallows the exception of a
   handler and the generator acknowledges the event all the same.
5. `pipeline_threshold`. rules.py:149 promises "Fires when key_field appears >= count
   times in window_seconds."; the times of a key are kept by the field of the condition,
   and a threshold with a narrower window pops (rules.py:33) what one with a wider window
   over the same field still counts.
6. `siem_webhook`. docs/data-flow.md:96 has the emitter fire "all configured emitters in
   parallel" and retry. A dumped alert holds `ts` as a datetime; webhook (the default),
   Splunk, Elastic and Sumo Logic hand it to the parameter `json` of httpx (siem.py:31),
   whose encoder raises a TypeError the loop does not catch. Nothing is sent and nothing
   is tried again.

## 4. Fairness

* `InMemoryBus`: weak fairness of each consumer's step (the event loop runs every ready
  task, `wait_for` has a deadline, and every call the handler awaits has a time-out) and
  of `Stop`. Nothing obliges publishers to publish or the process to shut down.
* `RedisStreamBus`: weak fairness of each consumer's undisturbed steps and of `Restart`
  (the Kubernetes Deployment restarts a process that exits), none of `Deploy`. A process whose consumer
  task has died is not restarted: `/health/live` does not look at it (main.py:307-309).
* `LureLifecycle`: weak fairness of every call's return, of the reaper's pass and of
  `Restart`; nothing obliges a call to fail or an event to ask for a lure.
* `EventPipeline`, whose runs check safety only: none. That a handler ends is assumed by
  the buses, whose `FinishHandling` is fair.
* `LeaderElection`: none; its promptness is a bound on delays.
* `AlertDelivery` (of `SiemNext`, in `ServiceSuite` of `SiemStep`): weak fairness of the emission as a
  whole. Every POST has an httpx time-out, every backoff is a sleep of a fixed length,
  and the loop of tries is bounded; no emitter's success is assumed. The crash of the
  controller in an emission is left out: the alert's event is then pending in Redis, which
  is `RedisStreamBus`.
* The other parts of `ServiceSuite`: none, their properties are safety.

## 5. Proofs

TLAPS checks the theorems for every value of the constants that satisfies the named
assumption of the module (`ContentAssumption`, `ScalarsAssumption`, `BusAssumption`, `StreamAssumption`, `LureAssumption`,
`ElectionAssumption`, `PipelineAssumption`, `SiemAssumption`, `DnsAssumption`,
`AuthAssumption`, `TokenAssumption`, `SoarAssumption`, `PcapAssumption`). They say that
bounds are numbers and that files, rules, playbooks and tokens have the fields of their
classes; `PipelineAssumption` also that there is a first rule file, `ScalarsAssumption`
that a scalar is a text, which one of the patterns finds something in or not, or anything
else, and that the text the redaction puts in is one that none finds anything in. TLC
evaluates each of them in a run of the module.

* `InMemoryBus_proofs`: type correctness, the four safety invariants and the refinement
  of `LossyFifo`. The inductive invariant `IInv` adds to them that `taken` is in order,
  that dropped events were published, and that past `close()` nothing is unfinished.
  Conservation in its strong form, the queue is the interval of the youngest events, is
  what makes the step of a full queue and the skipped events of `LossyFifo` provable.
* `LureLifecycle_proofs`: type correctness, `RecordedPodsKeepRow`, `NoEarlyReap`,
  `DamageBounded`, `ReaperSurvives`. The strengthening says that a reaper's snapshot
  holds expired lures only, that the row a replica is about to remove has no deployment,
  and that ids about to be inserted are fresh and unshared. `DamageBounded` counts: each
  step adds at most one lure to the orphans and ghosts, and only together with a failure
  (a 404 adds none: the ghost was there already).
* `LeaderElection_proofs`: type correctness and the four properties. The lock's expiry
  moves only when the lock is free, and then a full time to live ahead, so it pays for the
  start of workers that the answer may bring: who set the lock and was not yet told
  (`Winners`) counts already (`StartsArePaid`). The sleep begins at most `Late` after the
  lock, so a leader's next round is due by a known time before its lock expires
  (`LeaderIsDue`), finds it locked and steps down; and every round is due within a sleep
  and a late answer of the expiry (`RoundsAreDue`).
* `RedisStreamBus_proofs`: type correctness, the three safety invariants and `InOrder`.
  `NothingForgotten` needs that a read takes the oldest messages that are left
  (`OldestIsClosed`), so that what it passes over had been trimmed, and that a trim
  writes down what it passes over unread (`LostWasTrimmed`). `InOrder` needs that what
  is left of a batch is younger than what was taken from it, and that a consumer which
  is about to replay has taken up nothing. `RepeatsBounded` is an account of a lone
  consumer (`Balanced`): the repeats, and the handled messages that are still pending,
  are at most the crashes and failed calls, and one more while an acknowledgement is due.
* `RuleEngine_proofs`: what the operators of `RuleEngine` keep, as lemmas. `MatchStays`
  is an induction through a whole rule: if no condition leads out of a set of results,
  neither does the rule. The library's induction theorems take an operator, which no
  prover here can instantiate; the lemma takes the predicate as a function, and looks at
  the least place where it fails (`LeastExists`, `ChainStays`). `RecordedKeeps` says of
  `record()` and `count_in_window()` that the length returned is the number of times
  within the window, and that nothing within it is lost.
* `EventPipeline_proofs`: type correctness and the five safety invariants. The inductive
  invariant has a part for each task (`Task`: what it has come to of its file is exactly
  what `evaluated`, `matched` and `attempted` hold of its event, in order), a part for
  each event (`Event`: what is true of it when its handler returned, or raised) and one
  for the windows. `NarrowestNeverMisses` and `UnsharedThresholdIsExact` both come from
  `WindowsExact`: as far back as the narrowest threshold of a field looks, the windows of
  that field hold one time for each evaluation that recorded one, whichever task it was
  and whatever rule file was in force. Wider thresholds have no such invariant, which is
  finding 5. `Distinct` and `Traced` say that an event is evaluated at one place once and
  only in files it was judged by, so that for a threshold that stands at one place of
  its file the evaluations counted are those of different events.
* `ServiceDelivery_proofs`, in four parts that share no variable.
  `AlertContent`: type correctness and `AlertIsFaithful`, for data nested to any depth.
  The induction is over the depth (`DepthInduction`), with a set of depths in the place of
  the predicate that no prover here can instantiate. It first shows that the recursive
  functions `Redact` and `Leaves` are what their definitions say (`RedactUnfolds`,
  `LeavesUnfolds`): a right-hand side looks only at the parts of a value, which are less
  deep, so that a solution for one depth extends to the next. Then every leaf of a
  redacted container is traced to the item it came from, with one step more on its path,
  on which what is hidden and what covers it below stay so above. That the kill chain is
  in order comes from the places of the stages in the prefix gone through so far.
  `AlertDelivery`: type correctness, and that the initial states and the steps of
  the fan-out are those of the abstract `AlertFanOut`. Its promise that every alert ends
  is the liveness half of the refinement, which the run `services` checks.
  `PcapForwarder`: type correctness and `ForwardedOnce`. A capture in hand is not in `seen`
  (`ScanIsUnseen`), and without a crash or a troubled send what arrived is in `seen` or
  about to be (`ArrivedIsSeen`), so no second message follows it; a message left in the
  producer's buffer is one of a troubled send, whenever it arrives. A started process knows
  no less than was saved (`SeenIsSaved`).
  `SoarPlaybooks`: type correctness and `EveryStepAttempted`. What was taken are the
  steps due before the engine's place (`SoarTakenIsDue`, `SoarPassed`), in order; a
  running handler that has to append a line has still to do so or has done so
  (`SoarLineIsLeft`), for which a query that finds nothing must be followed by the
  request it drops, and not by the line (`SoarFindsPost`).
* `ServiceSuite_proofs`: three more components that share no variable, and all seven.
  `DnsRecords`: type correctness and `ExtraRecordsNeedRace`. The upserts that are
  about to make a record count as if they had made it (`MakersArePaid`): one joins them
  only while there is no record, when they are no more than the upserts under way. An
  upsert that was alone is the only one under way, so it meets what it was told.
  `Revocation`: type correctness and `RevocationHolds`. What a process was told to
  revoke is either in its list, under the exp it was told last, or that exp is over
  (`ListIsCurrent`).
  `TokenEngine`: type correctness and `TokensAreAccounted`. The number of a token is the
  greatest so far, so no row has it, no request has made it and no access was told of it
  (`TokRowsDiffer`, `TokBooks`); what an access was told of its token stays true.
  `ServiceSuite`: a step of the suite is a step of one component or a stutter of every
  one (`SuiteStepIsPartStep`), hence `PartsRunAlone`, and from it `SuiteTypeCorrect` and
  `SuiteKeepsPromises`: the theorems above hold of the components when they run together,
  which is what the run `services` checks on its instance.

Every safety invariant and action property that a passing run checks is a theorem. Only
model-checked: the liveness properties (`BacklogIsServed`, `IdleCloseReturns`,
`ExpiredGoOrReapersEnd`, `EveryMessageHandled`) and the liveness half of `RefinesFanOut`,
since fairness and ENABLED are out of the prover's reach. `OnlyOverloadDrops` and
`ReaperSurvival` are theorems that no run repeats.

## 6. Observations without a run

Disagreements with the documentation that were met in modelling, and other things a
reader of the models should know. None of them has a run; where a property is near one, it
is named.

* Replicas of the controller read the stream under one consumer name (bus.py:15), so a
  replica that starts is handed what a running one is working on. `stream_pair` includes
  it: the other properties hold, `RepeatsBounded` only until the second process joins.
* docs/data-flow.md:37 says "on startup re-delivers pending unACKed messages, then switches
  to live", docs/testing.md:105 "should be replayed on startup". The replay is one read of
  100 entries (bus.py:102). Unparsable and trimmed entries are never acknowledged and use
  up that window for good, and what is pending behind them is not re-delivered by any start.
  `EveryMessageHandled` is checked where the window is wide enough.
* docs/data-flow.md:37 says "reconnects automatically on error". Only the read of the live
  loop is retried; an exception of the first read ends the generator and `_consume_bus` with
  it (bus.py:100), and nothing starts another consumer.
* docs/testing.md:101 says "Controller should reconnect within 2s and replay pending messages
  from consumer group". After a failed live read the loop goes on from ">" (bus.py:119), past
  what that read had been handed, which only the next start of a process replays.
  `NothingForgotten` says that it stays pending until then.
* Two replicas that reap work on the same rows: one deletes what the other is about to
  delete, the API answers 404 and the other's reaper ends without any failure
  (orchestrator.py:96). The SELECT of `list_lures` names no order, so the two passes may
  end each other, and docs/data-flow.md:118's "automatic reaper cleanup" with them.
  `ExpiredGoOrReapersEnd` allows it.
* With two replicas the elector's second SET may take the key unnoticed again and again,
  with nobody leading; `FreeLockIsTaken` says only that the key is taken.
* A DNS update that fails keeps the alert of the same rule, and all later rules, from the
  event: docs/data-flow.md:43 has the event evaluated "against all enabled rules".
  `AlertsEndNothing` states what holds.
* policies/deception-policy.yaml:3 lists "subnets where lures must never be deployed"; a
  subnet that contains a blocked one is not a subnet of it and is allowed (policy.py:22).
* controller/README.md:74 lists an operator `is_empty` that the table does not have: a
  `when` with it is refused, a group with it raises when an event reaches it.
* Losing the lead stops no worker, so replicas consume and reap at the same time.
* Alerts: docs/security.md:92 says that "`redact_dict()` scans the entire payload
  recursively". `build_alert` redacts `event.data` and nothing else (alerts.py:19). The alert
  carries the whole event, `Event` allows extras (models.py:10) and docs/data-flow.md:16-27
  has the fields of an event beside `data`, so those reach the SIEM as they were posted.
  `AlertIsFaithful` leaves them open.
* SIEM: docs/data-flow.md:96 says "Each emitter retries with [1, 3, 7] s backoff before giving
  up"; Sentinel posts by itself and once (siem.py:156), and those of finding 6 give up at
  their first try. `Tries` and `Encodes` carry this. A fan-out of several emitters that all
  raised is still logged as `alert_emitted`, which is why `AlertFanOut` lets "emitted" say
  nothing.
* DNS: surplus records of a race at Cloudflare are never removed. Nothing calls
  `delete_record`, so the record of a reaped lure stays. An RFC 2136 server that refuses
  is taken for success, and Route 53's delete takes the first record set at or after the
  name it was asked for.
* Revocation: only the controller process that was told knows, until it restarts; the
  other services and replicas let the token in. A second revocation with an earlier exp
  shortens the first, since jti and exp are the caller's. No request ever has a
  principal in its state, so audit lines name no subject.
* Token engine: docs/operations.md:15 says "Rotation revokes the existing token and generates
  a new one. The old token ID is preserved in the store with `status=rotated`"; `rotate_tokens`
  adds tokens (rotator.py:12), reads and writes no other row, and the table has no status.
  docs/operations.md:95 calls the token engine stateless and says it scales "without
  additional configuration"; its store is a SQLite file of the container (store.py:12,
  config.py:5) that infra/k8s/token-engine.yaml mounts no volume for, so that an access to a
  token is a 404 at another replica, and at the next container of the same one.
  `TokensAreAccounted` speaks of one database at a time. An expiry is never looked at, and the
  tokens of a bundle are not stored, so an access to one is a 404. Its webhook has the
  TypeError of the SIEM's, swallowed.
* SOAR: docs/data-flow.md:109 says that an alert is matched "against playbook triggers (by
  severity, tags, event type)" and that "Each action is independently retried and logged".
  `Playbook` has no trigger, so every playbook that is on answers every alert
  (playbook_engine.py:25), and `execute()` returns "error" for a handler that raised, which
  nobody calls again (responses.py:94). `EveryStepAttempted` allows both. Drivers of EDR
  and ISE ignore the status of their answers; SentinelOne without a
  matching agent is logged as requested. Of two steps with one name and action in
  playbooks of one name, only the last result is reported.
* Pcap forwarder: honeypot-farm/README.md:58 says that `.forwarded` "prevents duplicate
  forwarding across restarts". A crash after the answer of Kafka and before the name is
  written, or while `write_text` has truncated the file (forwarder.py:42), sends again: such a
  second copy is what `ForwardedOnce` allows a crash. honeypot-farm/README.md:53 says that
  the sidecar "forwards files to Kafka". A name is forwarded once, at the first scan that
  finds it (forwarder.py:121), as large as it is then. The sidecars run `tcpdump -w` on one
  fixed name (infra/k8s/honeypots/cowrie.yaml:24), so what tcpdump writes later, and what it
  writes anew after a restart, is passed over. A capture between Kafka's limit of a
  message and MAX_FILE_SIZE_MB fails in every scan, for ever.
* Baseline: deception.py:174 compares the count of the whole window with the mean of its
  10-second buckets, and a variance of zero counts as a deviation of 1, so a steady
  source with several buckets is flagged. `handle_event` throws the verdict away.
* Honeypots: a MySQL client that says nothing leaves no event; the lines of an SMTP message
  body are taken for commands.

## 7. Not modelled

* Deliberately: wording and layout of logs and events, HTTP routing, signatures, regular
  expressions, the static honeypot pages, deployment descriptions, the health queries.
* Realism scoring and coverage: formulas over a list, without state. The baseline's record
  is part of `EventPipeline`; its verdict is thrown away there.
* Health, AD, CMDB and secrets: single calls to an outside service, without state to go
  wrong between two steps. Enrichment is part of `EventPipeline`.
* Audit and configuration: an append-only log nobody reads, settings read once.
* Honeypot applications: each request makes one event, sent once and forgotten.
* DNS deletion, which has no caller.
* The growth of the windows: a key is never forgotten, but no bound is promised.
* Whether a network that overlaps a blocked one should be refused: see section 6.
