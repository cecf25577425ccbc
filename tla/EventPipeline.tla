---------------------------- MODULE EventPipeline ----------------------------
(***************************************************************************)
(* The event pipeline of the controller (controller/app/main.py):          *)
(* handle_event, _dispatch_action and the reload of the rules, for several *)
(* consumer tasks in one process.                                          *)
(*                                                                         *)
(* The tasks share one event loop.  running is the task whose code runs;   *)
(* it is NoTask while all of them wait, and only then can another one go   *)
(* on, or a request be served.  So what happens between two awaits is not  *)
(* disturbed, and the clock, in seconds, stands still.  A coroutine that is  *)
(* awaited but does not wait itself, such as deploy(), keeps the loop.     *)
(*                                                                         *)
(* The generator of evaluate() belongs to the engine of the moment it was  *)
(* made; using remembers the rule file of that engine.  What a lure and an *)
(* alert go through after they left the pipeline is not modelled here.     *)
(*                                                                         *)
(* evaluated, matched, attempted, files, outcome and evaluations are       *)
(* history.                                                                *)
(***************************************************************************)
EXTENDS RuleEngine, SubnetPolicy

CONSTANTS
    Consumers,        \* tasks of _consume_bus
    NoTask,           \* not a task
    Events,           \* the events that may come
    RuleFiles,        \* the contents the rule file may have
    Routable,         \* values of src_ip that are looked up; {} without enrichment
    AllowedSubnets,   \* allowed_subnets of the policy
    BlockedSubnets,   \* blocked_subnets of the policy
    BaselineWindow,   \* window of the baseline tracker
    MaxEvents,        \* bound on the number of events handled
    MaxTime,          \* bound on the clock
    MaxReloads,       \* bound on the reloads
    MaxFailures       \* bound on the failed calls

ASSUME PipelineAssumption ==
    /\ NoTask \notin Consumers
    /\ 1 \in DOMAIN RuleFiles /\ ValidFile(RuleFiles[1])
    /\ \A f \in DOMAIN RuleFiles :
        IsSequence(RuleFiles[f]) /\ \A i \in DOMAIN RuleFiles[f] : IsRule(RuleFiles[f][i])
    /\ BaselineWindow \in Nat
    /\ {MaxEvents, MaxTime, MaxReloads, MaxFailures} \subseteq Nat

VARIABLES
    now,         \* time.time(), in seconds
    engine,      \* the rule file behind the global rule_engine
    windows,     \* the global _window_counter
    baseline,    \* baseline_tracker: times of each source's events
    running,     \* the task whose code runs, or NoTask
    stage,       \* each task: idle, enrich, rules, actions, dns, or emit
    event,       \* the event in hand
    number,      \* the number of that event, 0 before the first
    using,       \* the rule file its generator goes through
    rule,        \* the generator's place in that file
    action,      \* the place in the actions of a matching rule
    begun,       \* number of events begun
    reloads,     \* reloads so far
    failures,    \* failed calls so far
    evaluated,   \* history: the rules matched against each event
    matched,     \* history: those of them that matched
    attempted,   \* history: <<rule, action>> dispatched for each event, in order
    files,       \* history: the rule files used for each event
    outcome,     \* history: running, done or raised, for each event
    evaluations  \* history: the thresholds evaluated

frame == <<event, number, using>>
shared == <<engine, windows, baseline>>
bounds == <<begun, reloads, failures>>
traces == <<evaluated, matched, files, evaluations>>
vars == <<now, shared, running, stage, frame, rule, action, bounds, traces,
          attempted, outcome>>

Sources == {e.source : e \in Events}
Rules == UNION {{RuleFiles[f][i] : i \in DOMAIN RuleFiles[f]} : f \in DOMAIN RuleFiles}
Thresholds == UNION {ThresholdsOf(r) : r \in Rules}
WindowKeys == {<<c.field, GetField(e, c.key_field)>> : c \in Thresholds, e \in Events}

\* The rules, the rule and the action that task c is at.
File(c) == RuleFiles[using[c]]
Rule(c) == File(c)[rule[c]]
Action(c) == Rule(c).actions[action[c]]

TypeOK ==
    /\ now \in Nat
    /\ engine \in DOMAIN RuleFiles
    /\ windows \in [WindowKeys -> Seq(0 .. now)]
    /\ baseline \in [Sources -> Seq(0 .. now)]
    /\ event \in [Consumers -> Events \cup {None}]
    /\ number \in [Consumers -> 0 .. begun]
    /\ using \in [Consumers -> DOMAIN RuleFiles]
    /\ stage \in [Consumers -> {"idle", "enrich", "rules", "actions", "dns", "emit"}]
    /\ {begun, reloads, failures} \subseteq Nat
    \* The code between two awaits is that of the running task.
    /\ running \in Consumers \cup {NoTask}
    /\ \A c \in Consumers : running = c <=> stage[c] \in {"rules", "actions"}
    /\ \A c \in Consumers :
        /\ stage[c] # "idle" => event[c] \in Events /\ number[c] # 0
        /\ stage[c] = "rules" => rule[c] \in 1 .. Len(File(c)) + 1
        /\ stage[c] = "actions" => action[c] \in 1 .. Len(Rule(c).actions) + 1
        /\ stage[c] = "dns" => Action(c).type = "deploy_honeypot"
        /\ stage[c] = "emit" => Action(c).type = "emit_alert"
    /\ \A n \in 1 .. MaxEvents : matched[n] \subseteq evaluated[n]
    /\ outcome \in [1 .. MaxEvents -> {"none", "running", "done", "raised"}]

Init ==
    /\ now = 0
    /\ engine = 1
    /\ windows = [k \in WindowKeys |-> <<>>]
    /\ baseline = [s \in Sources |-> <<>>]
    /\ running = NoTask
    /\ stage = [c \in Consumers |-> "idle"]
    /\ event = [c \in Consumers |-> None]
    /\ number = [c \in Consumers |-> 0]
    /\ using = [c \in Consumers |-> 1]
    /\ rule = [c \in Consumers |-> 1]
    /\ action = [c \in Consumers |-> 1]
    /\ begun = 0 /\ reloads = 0 /\ failures = 0
    /\ evaluated = [n \in 1 .. MaxEvents |-> {}]
    /\ matched = [n \in 1 .. MaxEvents |-> {}]
    /\ attempted = [n \in 1 .. MaxEvents |-> <<>>]
    /\ files = [n \in 1 .. MaxEvents |-> {}]
    /\ outcome = [n \in 1 .. MaxEvents |-> "none"]
    /\ evaluations = <<>>

-----------------------------------------------------------------------------
(* The steps of handle_event() are put together from these.                *)

\* Task c gives up the loop and waits at an await.
Wait(c, at) ==
    /\ stage' = [stage EXCEPT ![c] = at]
    /\ running' = NoTask

\* The handler is left, and its variables with it: it returned, or
\* _consume_bus logs what it raised.
End(c, result) ==
    /\ outcome' = [outcome EXCEPT ![number[c]] = result]
    /\ stage' = [stage EXCEPT ![c] = "idle"]
    /\ running' = NoTask
    /\ number' = [number EXCEPT ![c] = 0]
    /\ event' = [event EXCEPT ![c] = None]
    /\ using' = [using EXCEPT ![c] = 1]
    /\ rule' = [rule EXCEPT ![c] = 1]
    /\ action' = [action EXCEPT ![c] = 1]

\* A call that raises.
Fail ==
    /\ failures < MaxFailures
    /\ failures' = failures + 1
    /\ UNCHANGED <<begun, reloads>>

-----------------------------------------------------------------------------
(* Seeded faults.  Each operator is a plausible wrong form of the           *)
(* definition named in its comment; PROJECT.json names the property that    *)
(* must fail when it is put in that definition's place.                     *)

\* NextRule: the place in the actions is not reset.
NextRuleKeepsAction(c) ==
    /\ rule' = [rule EXCEPT ![c] = @ + 1]
    /\ stage' = [stage EXCEPT ![c] = "rules"]
    /\ UNCHANGED action

\* Resume: the task goes on without waiting for its turn.
ResumeAtOnce(c, from) ==
    /\ stage[c] = from
    /\ running' = c

\* GeneratorFile: the global engine is looked up for every rule.
GeneratorFileIsGlobal(c) == engine

\* EmitEnds: what the emitters raise is not caught.
EmitRaises(c) ==
    /\ running = NoTask
    /\ stage[c] = "emit"
    /\ End(c, "raised")
    /\ UNCHANGED <<now, shared, bounds, traces, attempted>>

-----------------------------------------------------------------------------
\* The await of task c is over and it is its turn.
Resume(c, from) ==
    /\ running = NoTask
    /\ stage[c] = from
    /\ running' = c

\* The file of the generator that task c draws from.
GeneratorFile(c) == using[c]

\* The generator goes on to the next rule.
NextRule(c) ==
    /\ rule' = [rule EXCEPT ![c] = @ + 1]
    /\ action' = [action EXCEPT ![c] = 1]
    /\ stage' = [stage EXCEPT ![c] = "rules"]

Tick ==
    /\ running = NoTask
    /\ now < MaxTime
    /\ now' = now + 1
    /\ UNCHANGED <<shared, running, stage, frame, rule, action, bounds, traces,
                   attempted, outcome>>

-----------------------------------------------------------------------------
(* The start of handle_event().                                            *)

LookedUp(e) == GetField(e, "src_ip") \in Routable

\* evaluate() of the engine in force.
MakeGenerator(c) ==
    /\ using' = [using EXCEPT ![c] = engine]
    /\ rule' = [rule EXCEPT ![c] = 1]
    /\ action' = [action EXCEPT ![c] = 1]

\* The baseline is updated; an event with a routable address is looked up.
Begin(c, e) ==
    /\ running = NoTask
    /\ stage[c] = "idle"
    /\ begun < MaxEvents
    /\ begun' = begun + 1
    /\ number' = [number EXCEPT ![c] = begun']
    /\ event' = [event EXCEPT ![c] = e]
    /\ outcome' = [outcome EXCEPT ![begun'] = "running"]
    /\ baseline' = [baseline EXCEPT ![e.source] = Recorded(@, now, BaselineWindow)]
    /\ IF LookedUp(e)
       THEN Wait(c, "enrich") /\ UNCHANGED <<using, rule, action>>
       ELSE /\ stage' = [stage EXCEPT ![c] = "rules"]
            /\ running' = c
            /\ MakeGenerator(c)
    /\ UNCHANGED <<now, engine, windows, reloads, failures, traces, attempted>>

\* The look-ups returned, failed or timed out, which makes no difference here.
EnrichmentEnds(c) ==
    /\ Resume(c, "enrich")
    /\ stage' = [stage EXCEPT ![c] = "rules"]
    /\ MakeGenerator(c)
    /\ UNCHANGED <<now, shared, event, number, bounds, traces, attempted, outcome>>

-----------------------------------------------------------------------------
(* evaluate(), one rule at a time.                                         *)

\* A rule that is disabled or not approved is passed over.
PassOver(c) ==
    /\ running = c
    /\ stage[c] = "rules"
    /\ rule[c] <= Len(File(c))
    /\ ~Active(Rule(c))
    /\ NextRule(c)
    /\ UNCHANGED <<now, shared, running, frame, bounds, traces,
                   attempted, outcome>>

\* A rule is matched against the event, and yielded if it matches.
EvalRule(c) ==
    /\ running = c
    /\ stage[c] = "rules"
    /\ rule[c] <= Len(RuleFiles[GeneratorFile(c)])
    /\ LET r == RuleFiles[GeneratorFile(c)][rule[c]]
           m == Match(r, event[c], now, windows)
           n == number[c]
       IN  /\ Active(r)
           /\ windows' = m.windows
           /\ evaluated' = [evaluated EXCEPT ![n] = @ \cup {rule[c]}]
           /\ files' = [files EXCEPT ![n] = @ \cup {GeneratorFile(c)}]
           /\ evaluations' = evaluations \o
                [i \in DOMAIN m.log |-> [threshold |-> m.log[i], n |-> n, at |-> now]]
           /\ matched' = [matched EXCEPT ![n] = IF m.holds /\ ~m.raised THEN @ \cup {rule[c]} ELSE @]
           /\ \/ m.raised /\ End(c, "raised")
              \/ /\ ~m.raised /\ m.holds
                 /\ stage' = [stage EXCEPT ![c] = "actions"]
                 /\ UNCHANGED <<frame, rule, action, running, outcome>>
              \/ /\ ~m.raised /\ ~m.holds
                 /\ NextRule(c)
                 /\ UNCHANGED <<frame, running, outcome>>
    /\ UNCHANGED <<now, engine, baseline, bounds, attempted>>

\* The generator is exhausted and handle_event() returns.
Return(c) ==
    /\ running = c
    /\ stage[c] = "rules"
    /\ rule[c] > Len(File(c))
    /\ End(c, "done")
    /\ UNCHANGED <<now, shared, bounds, traces, attempted>>

-----------------------------------------------------------------------------
(* _dispatch_action(), for the actions of a rule that matched.             *)

\* Task c dispatches the action it has come to.
Dispatch(c) ==
    /\ running = c
    /\ stage[c] = "actions"
    /\ action[c] <= Len(Rule(c).actions)
    /\ attempted' = [attempted EXCEPT ![number[c]] = Append(@, <<rule[c], action[c]>>)]

NextAction(c) ==
    /\ action' = [action EXCEPT ![c] = @ + 1]
    /\ stage' = [stage EXCEPT ![c] = "actions"]

PolicyAllows(a) == IsAllowed(a.subnet, AllowedSubnets, BlockedSubnets)

\* The policy blocks the lure, or nobody knows the type of the action.
Skip(c) ==
    /\ Dispatch(c)
    /\ LET a == Action(c)
       IN  CASE a.type = "deploy_honeypot" -> IsNetwork(a.subnet) /\ ~PolicyAllows(a)
             [] OTHER -> a.type # "emit_alert"
    /\ NextAction(c)
    /\ UNCHANGED <<now, shared, running, frame, rule, bounds, traces, outcome>>

\* The lure is deployed; if the action names a DNS record the task waits for it.
Deploy(c) ==
    /\ Dispatch(c)
    /\ LET a == Action(c)
       IN  /\ a.type = "deploy_honeypot" /\ IsNetwork(a.subnet) /\ PolicyAllows(a)
           /\ IF a.dns THEN Wait(c, "dns") /\ UNCHANGED action
                       ELSE NextAction(c) /\ UNCHANGED running
    /\ UNCHANGED <<now, shared, frame, rule, bounds, traces, outcome>>

\* The subnet is no network, or the orchestrator or the store raises.
DeployRaises(c) ==
    /\ Dispatch(c)
    /\ LET a == Action(c)
       IN  /\ a.type = "deploy_honeypot"
           /\ \/ ~IsNetwork(a.subnet) /\ UNCHANGED bounds
              \/ IsNetwork(a.subnet) /\ PolicyAllows(a) /\ Fail
    /\ End(c, "raised")
    /\ UNCHANGED <<now, shared, traces>>

\* The record was written.
DnsReturns(c) ==
    /\ Resume(c, "dns")
    /\ NextAction(c)
    /\ UNCHANGED <<now, shared, frame, rule, bounds, traces, attempted, outcome>>

\* The record was refused, or the call failed.
DnsRaises(c) ==
    /\ running = NoTask
    /\ stage[c] = "dns"
    /\ Fail
    /\ End(c, "raised")
    /\ UNCHANGED <<now, shared, traces, attempted>>

\* The alert is handed to the emitters and the task waits for them.
Emit(c) ==
    /\ Dispatch(c)
    /\ Action(c).type = "emit_alert"
    /\ Wait(c, "emit")
    /\ UNCHANGED <<now, shared, frame, rule, action, bounds, traces, outcome>>

\* The emitters are through, or raised: that is caught and logged.
EmitEnds(c) ==
    /\ Resume(c, "emit")
    /\ NextAction(c)
    /\ UNCHANGED <<now, shared, frame, rule, bounds, traces, attempted, outcome>>

\* All actions of the rule are through; the generator is asked for the next rule.
RuleDone(c) ==
    /\ running = c
    /\ stage[c] = "actions"
    /\ action[c] > Len(Rule(c).actions)
    /\ NextRule(c)
    /\ UNCHANGED <<now, shared, running, frame, bounds, traces,
                   attempted, outcome>>

-----------------------------------------------------------------------------
\* POST /rules/reload of a file that changed; one that is not valid raises and
\* leaves the engine as it is.
Reload(f) ==
    /\ running = NoTask
    /\ reloads < MaxReloads
    /\ f # engine
    /\ ValidFile(RuleFiles[f])
    /\ engine' = f
    /\ reloads' = reloads + 1
    /\ UNCHANGED <<now, windows, baseline, running, stage, frame, rule, action,
                   begun, failures, traces, attempted, outcome>>

\* The code of a running task.
Run(c) == PassOver(c) \/ EvalRule(c) \/ Return(c) \/ Skip(c) \/ Deploy(c) \/ Emit(c) \/ RuleDone(c)

\* The end of an await.
Awake(c) == EnrichmentEnds(c) \/ DnsReturns(c) \/ EmitEnds(c)

Next ==
    \/ \E c \in Consumers :
        \/ \E e \in Events : Begin(c, e)
        \/ Run(c) \/ Awake(c) \/ DeployRaises(c) \/ DnsRaises(c)
    \/ \E f \in DOMAIN RuleFiles : Reload(f)
    \/ Tick

Spec == Init /\ [][Next]_vars

-----------------------------------------------------------------------------
(* Properties.                                                             *)

\* handle_event() leaves nothing out and repeats nothing: when it returned,
\* every rule that is enabled and approved was matched against the event, and
\* every action of every matching rule was dispatched once, in the order of the
\* file, whatever was reloaded while it waited.
ActiveRules(f) == {i \in DOMAIN RuleFiles[f] : Active(RuleFiles[f][i])}
InFileOrder(p, q) == p[1] < q[1] \/ (p[1] = q[1] /\ p[2] < q[2])
NothingSkipped ==
    \A n \in 1 .. MaxEvents, f \in DOMAIN RuleFiles :
        outcome[n] = "done" /\ f \in files[n] =>
            LET done == attempted[n]
            IN  /\ evaluated[n] = ActiveRules(f)
                /\ {done[i] : i \in DOMAIN done} =
                     UNION {{i} \X DOMAIN RuleFiles[f][i].actions : i \in matched[n]}
                /\ \A i \in 2 .. Len(done) : InFileOrder(done[i - 1], done[i])

\* An event is judged by one rule file, although a reload may replace the
\* engine while its handler waits between two rules.
OneFilePerEvent == \A n \in 1 .. MaxEvents : Cardinality(files[n]) <= 1

\* Where an exception ends the handling of an event, the last thing it came to
\* was a lure or a rule with an operator that raises: what becomes of an alert
\* never keeps the rest of the rules from the event.
MayRaise(r) == \E c \in ConditionsOf(r) : c.op = "unknown" \/ (c.op = "compare" /\ c.raises # {})
AlertsEndNothing ==
    \A n \in 1 .. MaxEvents, f \in DOMAIN RuleFiles :
        outcome[n] = "raised" /\ f \in files[n] =>
            \/ \E i \in evaluated[n] \ matched[n] :
                 MayRaise(RuleFiles[f][i]) /\ \A j \in evaluated[n] : j <= i
            \/ LET done == attempted[n]
                   last == done[Len(done)]
               IN  /\ done # <<>>
                   /\ \A j \in evaluated[n] : j <= last[1]
                   /\ RuleFiles[f][last[1]].actions[last[2]].type = "deploy_honeypot"

\* How many events, up to evaluation i, brought its key to its threshold within
\* its window: what the threshold is meant to count.
Appearances(i) ==
    LET e == evaluations[i]
        t == e.threshold
        counted == {j \in 1 .. i :
            /\ evaluations[j].threshold.cond = t.cond
            /\ evaluations[j].threshold.key = t.key
            /\ evaluations[j].at >= e.at - t.cond.window}
    IN  Cardinality({evaluations[j].n : j \in counted})

Rivals(t) == {u \in Thresholds : u.field = t.field}

\* The thresholds that are no wider than any other one of their field.
NarrowThresholds == {t \in Thresholds : \A u \in Rivals(t) : t.window <= u.window}

\* The places where a condition stands in a rule file.
Places(f, t) ==
    UNION {{<<i, p>> : p \in {p \in PlacesOf(RuleFiles[f][i]) : ListOf(RuleFiles[f][i], p[1])[p[2]] = t}}
             : i \in DOMAIN RuleFiles[f]}

\* The thresholds that stand in one place of each rule file at most: twice in
\* a file, and one event is counted twice.
UniqueThresholds ==
    {t \in Thresholds : \A f \in DOMAIN RuleFiles : \A p, q \in Places(f, t) : p = q}

\* A threshold that shares its field with no other one fires exactly when its
\* key appeared often enough in its window, for all interleavings of the tasks
\* and across reloads.
UnsharedThresholdIsExact ==
    \A i \in DOMAIN evaluations :
        LET t == evaluations[i].threshold
        IN  Rivals(t.cond) = {t.cond} /\ t.cond \in UniqueThresholds =>
                (t.fires <=> Appearances(i) >= t.cond.count)

\* The others share their windows, which each prunes by its own width: only the
\* narrowest one is sure not to miss what it should fire on.
NarrowestNeverMisses ==
    \A i \in DOMAIN evaluations :
        LET t == evaluations[i].threshold
        IN  t.cond \in NarrowThresholds /\ Appearances(i) >= t.cond.count => t.fires

\* rules.py:149 says "Fires when key_field appears >= count times in
\* window_seconds." of every threshold.
FiresWhenReached ==
    \A i \in DOMAIN evaluations :
        Appearances(i) >= evaluations[i].threshold.cond.count => evaluations[i].threshold.fires
=============================================================================
