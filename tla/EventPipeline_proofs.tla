------------------------ MODULE EventPipeline_proofs ------------------------
(***************************************************************************)
(* What EventPipeline keeps, for all rule files, events and numbers of     *)
(* tasks.                                                                  *)
(*                                                                         *)
(* The invariant says of each task how far it is with the event it has in  *)
(* hand (Task), of each event what became of it (Event), and of the        *)
(* windows that they hold the evaluations they should (Windows).  Task and *)
(* Event speak of values, not of variables: a step of one task leaves the  *)
(* values of all others alone, and so what is said of them.                *)
(***************************************************************************)
EXTENDS EventPipeline, RuleEngine_proofs

-----------------------------------------------------------------------------
(* The invariant.                                                          *)

\* What is remembered of a threshold, and of its evaluation.
Entry == [cond : Thresholds, key : WindowKeys, fires : BOOLEAN]
Evaluation == [threshold : Entry, n : 1 .. MaxEvents, at : Int]

Stages == {"idle", "enrich", "rules", "actions", "dns", "emit"}

Types ==
    /\ now \in Nat
    /\ engine \in DOMAIN RuleFiles
    /\ windows \in [WindowKeys -> Seq(0 .. now)]
    /\ baseline \in [Sources -> Seq(0 .. now)]
    /\ event \in [Consumers -> Events \cup {None}]
    /\ number \in [Consumers -> 0 .. begun]
    /\ using \in [Consumers -> DOMAIN RuleFiles]
    /\ stage \in [Consumers -> Stages]
    /\ rule \in [Consumers -> Nat \ {0}]
    /\ action \in [Consumers -> Nat \ {0}]
    /\ begun \in Nat /\ reloads \in Nat /\ failures \in Nat /\ begun <= MaxEvents
    /\ running \in Consumers \cup {NoTask}
    /\ \A c \in Consumers : running = c <=> stage[c] \in {"rules", "actions"}
    /\ evaluated \in [1 .. MaxEvents -> SUBSET Nat]
    /\ matched \in [1 .. MaxEvents -> SUBSET Nat]
    /\ files \in [1 .. MaxEvents -> SUBSET DOMAIN RuleFiles]
    /\ attempted \in [1 .. MaxEvents -> Seq(Nat \X Nat)]
    /\ outcome \in [1 .. MaxEvents -> {"none", "running", "done", "raised"}]
    /\ evaluations \in Seq(Evaluation)

\* An event is in the hands of one task until it is over, and before it begins
\* nothing is remembered of it.
Untouched(fs, ev, ma, at) == fs = {} /\ ev = {} /\ ma = {} /\ at = <<>>

Numbers ==
    /\ \A c \in Consumers :
         stage[c] # "idle" => number[c] \in 1 .. begun /\ outcome[number[c]] = "running"
    /\ \A c, d \in Consumers :
         stage[c] # "idle" /\ stage[d] # "idle" /\ number[c] = number[d] => c = d
    /\ \A n \in 1 .. MaxEvents : n > begun =>
         outcome[n] = "none" /\ Untouched(files[n], evaluated[n], matched[n], attempted[n])

\* The actions of the rules ma of file f.
DueActions(f, ma) == UNION {{i} \X DOMAIN RuleFiles[f][i].actions : i \in ma}

Members(s) == {s[i] : i \in DOMAIN s}
Ordered(s) == \A i \in 2 .. Len(s) : InFileOrder(s[i - 1], s[i])

\* How many actions of its rule a task has dispatched.
Dispatched(st, a) ==
    IF st = "rules" THEN 0 ELSE IF st = "actions" THEN a - 1 ELSE a

\* The rules that a task in rule r has come to.
Passed(f, st, r) == {i \in ActiveRules(f) : i < r \/ (i = r /\ st # "rules")}

\* The first k actions of rule r, and all of the rules before it.
UpToAction(r, k) == {p \in Nat \X Nat : p[1] < r \/ (p[1] = r /\ p[2] <= k)}

\* A task in stage st, with event e, file f, rule r and action a, and what is
\* remembered of its event.
Busy(st, f, r, a, fs, ev, ma, at) ==
    /\ fs \subseteq {f}
    /\ ev = Passed(f, st, r)
    /\ ma \subseteq ev
    /\ Members(at) = DueActions(f, ma) \cap UpToAction(r, Dispatched(st, a))
    /\ Ordered(at)
    /\ st = "rules" => r \in 1 .. Len(RuleFiles[f]) + 1 /\ a = 1
    /\ st # "rules" => r \in ma
    /\ st = "actions" => a \in 1 .. Len(RuleFiles[f][r].actions) + 1
    /\ st \in {"dns", "emit"} => a \in DOMAIN RuleFiles[f][r].actions
    /\ st = "dns" => /\ RuleFiles[f][r].actions[a].type = "deploy_honeypot"
                     /\ at # <<>> /\ at[Len(at)] = <<r, a>>
    /\ st = "emit" => RuleFiles[f][r].actions[a].type = "emit_alert"

Task(st, e, f, r, a, fs, ev, ma, at) ==
    /\ st # "idle" => e \in Events
    /\ st = "enrich" => Untouched(fs, ev, ma, at)
    /\ st \in {"rules", "actions", "dns", "emit"} => Busy(st, f, r, a, fs, ev, ma, at)

TaskAt(c) ==
    Task(stage[c], event[c], using[c], rule[c], action[c], files[number[c]],
         evaluated[number[c]], matched[number[c]], attempted[number[c]])

\* NothingSkipped and AlertsEndNothing, of one event and file.
Completed(f, ev, ma, at) ==
    /\ ev = ActiveRules(f)
    /\ Members(at) = DueActions(f, ma)
    /\ Ordered(at)

EndedBy(f, ev, ma, at) ==
    \/ \E i \in ev \ ma : MayRaise(RuleFiles[f][i]) /\ \A j \in ev : j <= i
    \/ LET last == at[Len(at)]
       IN  /\ at # <<>>
           /\ \A j \in ev : j <= last[1]
           /\ RuleFiles[f][last[1]].actions[last[2]].type = "deploy_honeypot"

Event(out, fs, ev, ma, at) ==
    /\ ma \subseteq ev
    /\ \A f, g \in fs : f = g
    /\ \A f \in fs : out = "done" => Completed(f, ev, ma, at)
    /\ \A f \in fs : out = "raised" => EndedBy(f, ev, ma, at)

EventAt(n) == Event(outcome[n], files[n], evaluated[n], matched[n], attempted[n])

\* The evaluations, up to the i-th, that found key k at x or later.
Counted(E, k, x, i) == {j \in 1 .. i : E[j].threshold.key = k /\ E[j].at >= x}

\* As far back as the narrowest threshold of a field looks, its windows hold
\* one time for each evaluation.
WindowsExact(w, E, at) ==
    \A k \in WindowKeys, t \in NarrowThresholds, x \in Int :
        t.field = k[1] /\ x >= at - t.window =>
            Cardinality(Since(w[k], x)) = Cardinality(Counted(E, k, x, Len(E)))

FiresExact(E) ==
    \A i \in DOMAIN E :
        LET t == E[i].threshold
        IN  t.cond \in NarrowThresholds =>
              (t.fires <=> Cardinality(Counted(E, t.key, E[i].at - t.cond.window, i)) >= t.cond.count)

KeysFit(E) == \A i \in DOMAIN E : E[i].threshold.key[1] = E[i].threshold.cond.field

WindowsSorted(w) == \A k \in DOMAIN w : IsSorted(w[k])

\* What windows w and evaluations E are to each other.
Fitting(w, E, at) == WindowsSorted(w) /\ WindowsExact(w, E, at) /\ FiresExact(E) /\ KeysFit(E)

\* An event comes to each place of its file once.
Distinct ==
    \A i, j \in DOMAIN evaluations :
        /\ evaluations[i].threshold.cond = evaluations[j].threshold.cond
        /\ evaluations[i].threshold.cond \in UniqueThresholds
        /\ evaluations[i].n = evaluations[j].n
        => i = j

Traced ==
    \A i \in DOMAIN evaluations : \E f \in files[evaluations[i].n] :
        \E q \in Places(f, evaluations[i].threshold.cond) : q[1] \in evaluated[evaluations[i].n]

Windows ==
    /\ Fitting(windows, evaluations, now)
    /\ WindowsSorted(baseline)
    /\ Distinct
    /\ Traced

IInv ==
    /\ Types
    /\ Numbers
    /\ \A c \in Consumers : TaskAt(c)
    /\ \A n \in 1 .. MaxEvents : EventAt(n)
    /\ Windows

-----------------------------------------------------------------------------
(* The constants.                                                          *)

LEMMA ConstantFacts ==
    /\ BaselineWindow \in Nat /\ MaxEvents \in Nat /\ MaxTime \in Nat
    /\ MaxReloads \in Nat /\ MaxFailures \in Nat
    /\ NoTask \notin Consumers /\ 1 \in DOMAIN RuleFiles
  BY PipelineAssumption DEF PipelineAssumption

LEMMA FileFacts ==
    ASSUME NEW f \in DOMAIN RuleFiles
    PROVE  /\ Len(RuleFiles[f]) \in Nat
           /\ DOMAIN RuleFiles[f] = 1 .. Len(RuleFiles[f])
           /\ \A i \in DOMAIN RuleFiles[f] : IsRule(RuleFiles[f][i])
<1>1. IsSequence(RuleFiles[f]) /\ \A i \in DOMAIN RuleFiles[f] : IsRule(RuleFiles[f][i])
  BY PipelineAssumption DEF PipelineAssumption
<1> QED BY <1>1, SequenceFacts

LEMMA ActionFacts ==
    ASSUME NEW r, IsRule(r)
    PROVE  Len(r.actions) \in Nat /\ DOMAIN r.actions = 1 .. Len(r.actions)
  BY SequenceFacts DEF IsRule

LEMMA ThresholdFacts ==
    ASSUME NEW f \in DOMAIN RuleFiles, NEW i \in DOMAIN RuleFiles[f],
           NEW c \in ThresholdsOf(RuleFiles[f][i])
    PROVE  c \in Thresholds /\ c.window \in Int /\ c.count \in Int
<1>1. RuleFiles[f][i] \in Rules /\ IsRule(RuleFiles[f][i])
  BY FileFacts DEF Rules
<1> QED BY <1>1 DEF Thresholds, ThresholdsOf, IsRule, IsCondition

LEMMA ThresholdNumbers ==
    ASSUME NEW c \in Thresholds
    PROVE  c.window \in Int /\ c.count \in Int
<1>1. PICK r \in Rules : c \in ThresholdsOf(r)
  BY DEF Thresholds
<1>2. PICK f \in DOMAIN RuleFiles : \E i \in DOMAIN RuleFiles[f] : r = RuleFiles[f][i]
  BY DEF Rules
<1> QED BY <1>1, <1>2, ThresholdFacts
-----------------------------------------------------------------------------
(* How far a task is, from one step to the next.                           *)

LEMMA DueIsNumbered ==
    ASSUME NEW f \in DOMAIN RuleFiles, NEW ma \in SUBSET ActiveRules(f)
    PROVE  /\ ma \subseteq 1 .. Len(RuleFiles[f])
           /\ \A p : p \in DueActions(f, ma) <=>
                \E i \in ma : \E k \in 1 .. Len(RuleFiles[f][i].actions) : p = <<i, k>>
           /\ DueActions(f, ma) \subseteq Nat \X Nat
<1>1. ma \subseteq 1 .. Len(RuleFiles[f])
  BY FileFacts DEF ActiveRules
<1>2. \A i \in ma : DOMAIN RuleFiles[f][i].actions = 1 .. Len(RuleFiles[f][i].actions)
                 /\ Len(RuleFiles[f][i].actions) \in Nat
  BY <1>1, FileFacts, ActionFacts
<1>3. \A p : p \in DueActions(f, ma) <=>
        \E i \in ma : \E k \in 1 .. Len(RuleFiles[f][i].actions) : p = <<i, k>>
  BY <1>2 DEF DueActions
<1> QED BY <1>1, <1>2, <1>3

LEMMA PassedFacts ==
    ASSUME NEW f \in DOMAIN RuleFiles, NEW st, NEW r \in Nat \ {0}
    PROVE  /\ Passed(f, st, r) \subseteq ActiveRules(f)
           /\ ActiveRules(f) \subseteq 1 .. Len(RuleFiles[f]) /\ Len(RuleFiles[f]) \in Nat
           /\ \A i \in Passed(f, st, r) : i \in Nat /\ i <= r
           /\ \A i \in Passed(f, "rules", r) : i \in Nat /\ i < r
  BY FileFacts DEF Passed, ActiveRules

\* The start of a generator.
LEMMA BusyStarts ==
    ASSUME NEW f \in DOMAIN RuleFiles
    PROVE  Busy("rules", f, 1, 1, {}, {}, {}, <<>>)
<1>1. Passed(f, "rules", 1) = {}
  BY PassedFacts
<1>2. DueActions(f, {}) = {} /\ Members(<<>>) = {} /\ Ordered(<<>>)
  BY DEF DueActions, Members, Ordered
<1>3. 1 \in 1 .. Len(RuleFiles[f]) + 1
  BY FileFacts
<1> QED BY <1>1, <1>2, <1>3 DEF Busy

\* The rule that a task has come to is not among those it passed.
AtRule(f, r, ev, ma, at) ==
    /\ \A i \in ev : i \in Nat /\ i < r
    /\ ma \subseteq ActiveRules(f)
    /\ Members(at) = DueActions(f, ma)

LEMMA BusyAtRule ==
    ASSUME NEW f \in DOMAIN RuleFiles, NEW r \in Nat \ {0}, NEW a \in Nat \ {0},
           NEW fs, NEW ev, NEW ma, NEW at, Busy("rules", f, r, a, fs, ev, ma, at)
    PROVE  AtRule(f, r, ev, ma, at)
<1>1. \A i \in ev : i \in Nat /\ i < r
  BY PassedFacts DEF Busy
<1>2. ma \subseteq ActiveRules(f)
  BY PassedFacts DEF Busy
<1>3. DueActions(f, ma) \subseteq UpToAction(r, 0)
  <2>1. \A i \in ma : i < r
    BY <1>1 DEF Busy
  <2> QED BY <1>2, <2>1, DueIsNumbered DEF UpToAction
<1>4. Dispatched("rules", a) = 0
  BY DEF Dispatched
<1> QED BY <1>1, <1>2, <1>3, <1>4 DEF Busy, AtRule

LEMMA BusyNextRule ==
    ASSUME NEW f \in DOMAIN RuleFiles, NEW r \in 1 .. Len(RuleFiles[f]),
           NEW fs \in SUBSET {f}, NEW ma, NEW at,
           ma \subseteq Passed(f, "rules", r + 1), Members(at) = DueActions(f, ma), Ordered(at)
    PROVE  Busy("rules", f, r + 1, 1, fs, Passed(f, "rules", r + 1), ma, at)
<1>1. r \in Nat /\ r + 1 \in Nat \ {0} /\ r + 1 \in 1 .. Len(RuleFiles[f]) + 1
  BY FileFacts
<1>2. ma \subseteq ActiveRules(f) /\ \A i \in ma : i < r + 1
  BY <1>1, PassedFacts
<1>3. DueActions(f, ma) \subseteq UpToAction(r + 1, 0)
  BY <1>1, <1>2, DueIsNumbered DEF UpToAction
<1>4. Dispatched("rules", 1) = 0
  BY DEF Dispatched
<1> QED BY <1>1, <1>3, <1>4 DEF Busy

LEMMA BusyPassesOver ==
    ASSUME NEW f \in DOMAIN RuleFiles, NEW r \in 1 .. Len(RuleFiles[f]), NEW a \in Nat \ {0},
           NEW fs, NEW ev, NEW ma, NEW at, Busy("rules", f, r, a, fs, ev, ma, at),
           ~Active(RuleFiles[f][r])
    PROVE  Busy("rules", f, r + 1, 1, fs, ev, ma, at)
<1>1. r \in Nat \ {0}
  BY FileFacts
<1>2. Passed(f, "rules", r + 1) = Passed(f, "rules", r)
  BY <1>1, FileFacts DEF Passed, ActiveRules
<1>3. ev = Passed(f, "rules", r + 1) /\ ma \subseteq ev /\ fs \in SUBSET {f} /\ Ordered(at)
  BY <1>2 DEF Busy
<1>4. Members(at) = DueActions(f, ma)
  <2>1. AtRule(f, r, ev, ma, at)
    BY <1>1, BusyAtRule
  <2> QED BY <2>1 DEF AtRule
<1> QED BY <1>3, <1>4, BusyNextRule

LEMMA EvaluatedAdds ==
    ASSUME NEW f \in DOMAIN RuleFiles, NEW r \in 1 .. Len(RuleFiles[f]), Active(RuleFiles[f][r])
    PROVE  /\ Passed(f, "rules", r + 1) = Passed(f, "rules", r) \cup {r}
           /\ Passed(f, "actions", r) = Passed(f, "rules", r) \cup {r}
  BY FileFacts DEF Passed, ActiveRules

LEMMA BusyMisses ==
    ASSUME NEW f \in DOMAIN RuleFiles, NEW r \in 1 .. Len(RuleFiles[f]), NEW a \in Nat \ {0},
           NEW fs, NEW ev, NEW ma, NEW at, Busy("rules", f, r, a, fs, ev, ma, at),
           Active(RuleFiles[f][r])
    PROVE  Busy("rules", f, r + 1, 1, fs \cup {f}, ev \cup {r}, ma, at)
<1>1. r \in Nat \ {0}
  BY FileFacts
<1>2. /\ ev \cup {r} = Passed(f, "rules", r + 1) /\ ma \subseteq ev \cup {r}
      /\ fs \cup {f} \in SUBSET {f} /\ Ordered(at)
  BY EvaluatedAdds DEF Busy
<1>3. Members(at) = DueActions(f, ma)
  <2>1. AtRule(f, r, ev, ma, at)
    BY <1>1, BusyAtRule
  <2> QED BY <2>1 DEF AtRule
<1>4. Busy("rules", f, r + 1, 1, fs \cup {f}, Passed(f, "rules", r + 1), ma, at)
  BY <1>2, <1>3, BusyNextRule
<1> QED BY <1>2, <1>4

LEMMA BusyMatches ==
    ASSUME NEW f \in DOMAIN RuleFiles, NEW r \in 1 .. Len(RuleFiles[f]), NEW a \in Nat \ {0},
           NEW fs, NEW ev, NEW ma, NEW at, Busy("rules", f, r, a, fs, ev, ma, at),
           Active(RuleFiles[f][r])
    PROVE  a = 1 /\ Busy("actions", f, r, a, fs \cup {f}, ev \cup {r}, ma \cup {r}, at)
<1>1. r \in Nat \ {0} /\ a = 1
  BY FileFacts DEF Busy
<1>2. /\ ev \cup {r} = Passed(f, "actions", r) /\ ma \cup {r} \subseteq ev \cup {r}
      /\ fs \cup {f} \in SUBSET {f} /\ Ordered(at)
  BY EvaluatedAdds DEF Busy
<1>3. Members(at) = DueActions(f, ma) /\ ma \subseteq ActiveRules(f) /\ \A i \in ma : i < r
  <2>1. AtRule(f, r, ev, ma, at)
    BY <1>1, BusyAtRule
  <2> QED BY <2>1 DEF AtRule, Busy
<1>4. r \in ActiveRules(f) /\ ma \cup {r} \subseteq ActiveRules(f)
  BY <1>3, FileFacts DEF ActiveRules
<1>5. DueActions(f, ma \cup {r}) \cap UpToAction(r, 0) = DueActions(f, ma)
  <2>1. \A p \in DueActions(f, ma) : p \in Nat \X Nat /\ p[1] < r
    BY <1>1, <1>3, DueIsNumbered
  <2>2. \A p : p \in DueActions(f, ma \cup {r}) /\ p \notin DueActions(f, ma) =>
          p[1] = r /\ p[2] \in Nat \ {0}
    <3>1. \A p : p \in DueActions(f, ma \cup {r}) =>
            \E i \in ma \cup {r} : \E k \in 1 .. Len(RuleFiles[f][i].actions) : p = <<i, k>>
      BY <1>4, DueIsNumbered
    <3>2. \A p : (\E i \in ma : \E k \in 1 .. Len(RuleFiles[f][i].actions) : p = <<i, k>>) =>
            p \in DueActions(f, ma)
      BY <1>3, DueIsNumbered
    <3> QED BY <3>1, <3>2
  <2>3. DueActions(f, ma) \subseteq DueActions(f, ma \cup {r})
    BY DEF DueActions
  <2>4. DueActions(f, ma) \subseteq UpToAction(r, 0)
    BY <2>1 DEF UpToAction
  <2>5. ASSUME NEW p \in UpToAction(r, 0), p \in DueActions(f, ma \cup {r})
        PROVE  p \in DueActions(f, ma)
    <3>1. p[1] < r \/ p[2] <= 0
      BY DEF UpToAction
    <3> QED BY <1>1, <2>2, <2>5, <3>1
  <2> QED BY <2>3, <2>4, <2>5
<1>6. Dispatched("actions", 1) = 0
  BY DEF Dispatched
<1>7. 1 \in 1 .. Len(RuleFiles[f][r].actions) + 1
  BY FileFacts, ActionFacts
<1> QED BY <1>1, <1>2, <1>3, <1>5, <1>6, <1>7 DEF Busy

\* A sequence in file order that goes on with something later.
LEMMA OrderedAppends ==
    ASSUME NEW at \in Seq(Nat \X Nat), Ordered(at), NEW p \in Nat \X Nat,
           \A q \in Members(at) : InFileOrder(q, p)
    PROVE  LET new == Append(at, p)
           IN  /\ new \in Seq(Nat \X Nat) /\ new # <<>> /\ new[Len(new)] = p
               /\ Ordered(new) /\ Members(new) = Members(at) \cup {p}
<1> DEFINE n == Len(at)
           new == Append(at, p)
<1>1. n \in Nat /\ DOMAIN at = 1 .. n
  BY LenProperties
<1>2. /\ new \in Seq(Nat \X Nat) /\ Len(new) = n + 1 /\ DOMAIN new = 1 .. n + 1
      /\ new[n + 1] = p /\ \A i \in 1 .. n : new[i] = at[i]
  OBVIOUS
<1> HIDE DEF n, new
<1>3. Members(new) = Members(at) \cup {p}
  <2>1. ASSUME NEW i \in 1 .. n + 1 PROVE new[i] \in Members(at) \cup {p}
    <3>1. CASE i = n + 1
      BY <1>2, <3>1
    <3>2. CASE i # n + 1
      <4>1. i \in 1 .. n
        BY <1>1, <3>2
      <4> QED BY <1>1, <1>2, <4>1 DEF Members
    <3> QED BY <3>1, <3>2
  <2>2. \A i \in 1 .. n : at[i] \in Members(new)
    <3> TAKE i \in 1 .. n
    <3>1. i \in 1 .. n + 1 /\ new[i] = at[i]
      BY <1>1, <1>2
    <3> QED BY <1>2, <3>1 DEF Members
  <2>3. p \in Members(new)
    <3>1. n + 1 \in 1 .. n + 1
      BY <1>1
    <3> QED BY <1>2, <3>1 DEF Members
  <2>4. Members(at) \subseteq Members(new)
    BY <1>1, <2>2 DEF Members
  <2>5. Members(new) \subseteq Members(at) \cup {p}
    <3>1. \A q \in Members(new) : \E i \in 1 .. n + 1 : q = new[i]
      BY <1>2 DEF Members
    <3> QED BY <2>1, <3>1
  <2> QED BY <2>3, <2>4, <2>5
<1>4. Ordered(new)
  <2> SUFFICES ASSUME NEW i \in 2 .. n + 1 PROVE InFileOrder(new[i - 1], new[i])
    BY <1>2 DEF Ordered
  <2>1. CASE i = n + 1
    <3>1. n \in DOMAIN at /\ i - 1 = n /\ new[i - 1] = at[n]
      BY <1>1, <1>2, <2>1
    <3>2. at[n] \in Members(at)
      BY <3>1 DEF Members
    <3> QED BY <1>2, <2>1, <3>1, <3>2
  <2>2. CASE i # n + 1
    <3>1. i \in 2 .. n /\ i - 1 \in 1 .. n
      BY <1>1, <2>2
    <3>2. InFileOrder(at[i - 1], at[i])
      BY <3>1 DEF Ordered, n
    <3> QED BY <1>2, <3>1, <3>2
  <2> QED BY <2>1, <2>2
<1>5. new # <<>>
  BY <1>1, <1>2
<1> QED BY <1>2, <1>3, <1>4, <1>5 DEF new

\* What is remembered once action a of rule r is dispatched.
ComesTo(f, r, a, ma, at) ==
    /\ at \in Seq(Nat \X Nat) /\ at # <<>> /\ at[Len(at)] = <<r, a>>
    /\ Ordered(at)
    /\ Members(at) = DueActions(f, ma) \cap UpToAction(r, a)
    /\ r \in ActiveRules(f) /\ r \in ma
    /\ a \in DOMAIN RuleFiles[f][r].actions
    /\ a + 1 \in 1 .. Len(RuleFiles[f][r].actions) + 1

LEMMA BusyDispatches ==
    ASSUME NEW f \in DOMAIN RuleFiles, NEW r \in Nat \ {0}, NEW a \in Nat \ {0},
           NEW fs, NEW ev, NEW ma, NEW at \in Seq(Nat \X Nat),
           Busy("actions", f, r, a, fs, ev, ma, at), a <= Len(RuleFiles[f][r].actions)
    PROVE  ComesTo(f, r, a, ma, Append(at, <<r, a>>))
<1>1. /\ r \in ma /\ ma \subseteq ActiveRules(f) /\ Ordered(at)
      /\ Members(at) = DueActions(f, ma) \cap UpToAction(r, a - 1)
  BY PassedFacts DEF Busy, Dispatched
<1>2. /\ Len(RuleFiles[f][r].actions) \in Nat
      /\ DOMAIN RuleFiles[f][r].actions = 1 .. Len(RuleFiles[f][r].actions)
  BY <1>1, FileFacts, ActionFacts DEF ActiveRules
<1>3. <<r, a>> \in DueActions(f, ma)
  BY <1>1, <1>2, DueIsNumbered
<1>4. \A q \in Members(at) : InFileOrder(q, <<r, a>>)
  BY <1>1 DEF UpToAction, InFileOrder
<1>5. LET new == Append(at, <<r, a>>)
      IN  /\ new \in Seq(Nat \X Nat) /\ new # <<>> /\ new[Len(new)] = <<r, a>>
          /\ Ordered(new) /\ Members(new) = Members(at) \cup {<<r, a>>}
  <2>1. <<r, a>> \in Nat \X Nat
    OBVIOUS
  <2> QED BY <1>1, <1>4, <2>1, OrderedAppends
<1>6. (DueActions(f, ma) \cap UpToAction(r, a - 1)) \cup {<<r, a>>} = DueActions(f, ma) \cap UpToAction(r, a)
  <2>1. UpToAction(r, a) = UpToAction(r, a - 1) \cup {<<r, a>>}
    <3>1. \A p \in Nat \X Nat : p[1] = r /\ p[2] = a => p = <<r, a>>
      OBVIOUS
    <3>2. \A k \in Nat : k <= a <=> k <= a - 1 \/ k = a
      OBVIOUS
    <3> QED BY <3>1, <3>2 DEF UpToAction
  <2> QED BY <1>3, <2>1
<1>7. Members(Append(at, <<r, a>>)) = DueActions(f, ma) \cap UpToAction(r, a)
  BY <1>1, <1>5, <1>6
<1>8. a \in DOMAIN RuleFiles[f][r].actions /\ a + 1 \in 1 .. Len(RuleFiles[f][r].actions) + 1
  BY <1>2
<1> QED BY <1>1, <1>5, <1>7, <1>8 DEF ComesTo

LEMMA BusySkips ==
    ASSUME NEW f \in DOMAIN RuleFiles, NEW r \in Nat \ {0}, NEW a \in Nat \ {0},
           NEW fs, NEW ev, NEW ma, NEW at \in Seq(Nat \X Nat),
           Busy("actions", f, r, a, fs, ev, ma, at), a <= Len(RuleFiles[f][r].actions)
    PROVE  Busy("actions", f, r, a + 1, fs, ev, ma, Append(at, <<r, a>>))
<1>1. Passed(f, "actions", r) = ev /\ fs \subseteq {f} /\ ma \subseteq ev
  BY DEF Busy
<1>2. Dispatched("actions", a + 1) = a
  BY DEF Dispatched
<1>3. ComesTo(f, r, a, ma, Append(at, <<r, a>>))
  BY BusyDispatches
<1> QED BY <1>1, <1>2, <1>3 DEF Busy, ComesTo

LEMMA BusyWaits ==
    ASSUME NEW f \in DOMAIN RuleFiles, NEW r \in Nat \ {0}, NEW a \in Nat \ {0},
           NEW fs, NEW ev, NEW ma, NEW at \in Seq(Nat \X Nat),
           Busy("actions", f, r, a, fs, ev, ma, at), a <= Len(RuleFiles[f][r].actions),
           NEW st, \/ st = "dns" /\ RuleFiles[f][r].actions[a].type = "deploy_honeypot"
                   \/ st = "emit" /\ RuleFiles[f][r].actions[a].type = "emit_alert"
    PROVE  Busy(st, f, r, a, fs, ev, ma, Append(at, <<r, a>>))
<1>1. Passed(f, st, r) = ev /\ fs \subseteq {f} /\ ma \subseteq ev
  BY DEF Busy, Passed
<1>2. Dispatched(st, a) = a
  BY DEF Dispatched
<1>3. ComesTo(f, r, a, ma, Append(at, <<r, a>>))
  BY BusyDispatches, Zenon
<1> QED BY <1>1, <1>2, <1>3 DEF Busy, ComesTo

LEMMA BusyResumes ==
    ASSUME NEW f \in DOMAIN RuleFiles, NEW r \in Nat \ {0}, NEW a \in Nat \ {0},
           NEW fs, NEW ev, NEW ma, NEW at, NEW st \in {"dns", "emit"},
           Busy(st, f, r, a, fs, ev, ma, at)
    PROVE  Busy("actions", f, r, a + 1, fs, ev, ma, at)
<1>1. Passed(f, "actions", r) = Passed(f, st, r) /\ Dispatched("actions", a + 1) = Dispatched(st, a)
  BY DEF Passed, Dispatched
<1>2. r \in ActiveRules(f)
  BY PassedFacts DEF Busy
<1>3. DOMAIN RuleFiles[f][r].actions = 1 .. Len(RuleFiles[f][r].actions)
      /\ Len(RuleFiles[f][r].actions) \in Nat
  BY <1>2, FileFacts, ActionFacts DEF ActiveRules
<1> QED BY <1>1, <1>3 DEF Busy

LEMMA BusyEndsRule ==
    ASSUME NEW f \in DOMAIN RuleFiles, NEW r \in Nat \ {0}, NEW a \in Nat \ {0},
           NEW fs, NEW ev, NEW ma, NEW at,
           Busy("actions", f, r, a, fs, ev, ma, at), a > Len(RuleFiles[f][r].actions)
    PROVE  Busy("rules", f, r + 1, 1, fs, ev, ma, at)
<1>1. r \in ActiveRules(f) /\ ma \subseteq ActiveRules(f) /\ \A i \in ma : i <= r
  BY PassedFacts DEF Busy
<1>2. r \in 1 .. Len(RuleFiles[f]) /\ Active(RuleFiles[f][r]) /\ Len(RuleFiles[f][r].actions) \in Nat
  BY <1>1, FileFacts, ActionFacts DEF ActiveRules
<1>3. ev = Passed(f, "rules", r + 1)
  BY <1>2, EvaluatedAdds DEF Busy
<1>4. DueActions(f, ma) \subseteq UpToAction(r, a - 1)
  <2> SUFFICES ASSUME NEW p \in DueActions(f, ma) PROVE p \in UpToAction(r, a - 1)
    OBVIOUS
  <2>1. PICK i \in ma : \E k \in 1 .. Len(RuleFiles[f][i].actions) : p = <<i, k>>
    BY <1>1, DueIsNumbered
  <2>2. PICK k \in 1 .. Len(RuleFiles[f][i].actions) : p = <<i, k>>
    BY <2>1
  <2>3. p \in Nat \X Nat /\ i <= r /\ p[1] = i /\ p[2] = k
    BY <1>1, <2>2, DueIsNumbered
  <2>4. i = r => k <= a - 1
    BY <1>2
  <2> QED BY <2>3, <2>4 DEF UpToAction
<1>5. fs \in SUBSET {f} /\ ma \subseteq Passed(f, "rules", r + 1) /\ Ordered(at)
  BY <1>3 DEF Busy
<1>6. Members(at) = DueActions(f, ma)
  BY <1>4 DEF Busy, Dispatched
<1> QED BY <1>2, <1>3, <1>5, <1>6, BusyNextRule

\* The ends of a handler.
LEMMA BusyCompletes ==
    ASSUME NEW f \in DOMAIN RuleFiles, NEW r \in Nat \ {0}, NEW a \in Nat \ {0},
           NEW fs, NEW ev, NEW ma, NEW at, Busy("rules", f, r, a, fs, ev, ma, at),
           r > Len(RuleFiles[f])
    PROVE  Completed(f, ev, ma, at)
<1>1. ev = ActiveRules(f)
  <2>1. Passed(f, "rules", r) = ActiveRules(f)
    BY FileFacts DEF Passed, ActiveRules
  <2> QED BY <2>1 DEF Busy
<1>2. Members(at) = DueActions(f, ma)
  <2>1. AtRule(f, r, ev, ma, at)
    BY BusyAtRule
  <2> QED BY <2>1 DEF AtRule
<1> QED BY <1>1, <1>2 DEF Completed, Busy

LEMMA BusyRaises ==
    ASSUME NEW f \in DOMAIN RuleFiles, NEW r \in 1 .. Len(RuleFiles[f]), NEW a \in Nat \ {0},
           NEW fs, NEW ev, NEW ma, NEW at, Busy("rules", f, r, a, fs, ev, ma, at),
           MayRaise(RuleFiles[f][r])
    PROVE  EndedBy(f, ev \cup {r}, ma, at)
<1>1. r \in Nat \ {0}
  BY FileFacts
<1>2. \A i \in ev : i \in Nat /\ i < r
  <2>1. AtRule(f, r, ev, ma, at)
    BY <1>1, BusyAtRule
  <2> QED BY <2>1 DEF AtRule
<1>3. ma \subseteq ev
  BY DEF Busy
<1>4. r \in (ev \cup {r}) \ ma /\ \A j \in ev \cup {r} : j <= r
  BY <1>1, <1>2, <1>3
<1> QED BY <1>4 DEF EndedBy

LEMMA BusyDeployRaises ==
    ASSUME NEW f \in DOMAIN RuleFiles, NEW r \in Nat \ {0}, NEW a \in Nat \ {0},
           NEW fs, NEW ev, NEW ma, NEW at \in Seq(Nat \X Nat),
           Busy("actions", f, r, a, fs, ev, ma, at), a <= Len(RuleFiles[f][r].actions),
           RuleFiles[f][r].actions[a].type = "deploy_honeypot"
    PROVE  EndedBy(f, ev, ma, Append(at, <<r, a>>))
<1> DEFINE new == Append(at, <<r, a>>)
<1>1. new # <<>> /\ new[Len(new)] = <<r, a>>
  <2>1. ComesTo(f, r, a, ma, new)
    BY BusyDispatches
  <2> HIDE DEF new
  <2> QED BY <2>1 DEF ComesTo
<1>2. \A j \in ev : j <= r
  BY PassedFacts DEF Busy
<1> HIDE DEF new
<1>3. \A j \in ev : j <= new[Len(new)][1]
  BY <1>1, <1>2
<1> QED BY <1>1, <1>3 DEF EndedBy, new

LEMMA BusyDnsRaises ==
    ASSUME NEW f \in DOMAIN RuleFiles, NEW r \in Nat \ {0}, NEW a \in Nat \ {0},
           NEW fs, NEW ev, NEW ma, NEW at, Busy("dns", f, r, a, fs, ev, ma, at)
    PROVE  EndedBy(f, ev, ma, at)
<1>1. /\ at # <<>> /\ at[Len(at)] = <<r, a>>
      /\ RuleFiles[f][r].actions[a].type = "deploy_honeypot"
  BY DEF Busy
<1>2. \A j \in ev : j <= r
  BY PassedFacts DEF Busy
<1> QED BY <1>1, <1>2 DEF EndedBy

-----------------------------------------------------------------------------
(* The steps.                                                              *)

LEMMA InitInv == Init => IInv
<1> SUFFICES ASSUME Init PROVE IInv
  OBVIOUS
<1>1. Types
  BY ConstantFacts DEF Init, Types, Stages
<1>2. Numbers
  BY ConstantFacts DEF Init, Numbers, Untouched
<1>3. \A c \in Consumers : TaskAt(c)
  BY DEF Init, TaskAt, Task
<1>4. \A n \in 1 .. MaxEvents : EventAt(n)
  BY DEF Init, EventAt, Event
<1>5. Windows
  <2>1. WindowsSorted(windows) /\ WindowsSorted(baseline)
    BY DEF Init, WindowsSorted, IsSorted
  <2>2. WindowsExact(windows, evaluations, now)
    <3>1. \A x : Since(<<>>, x) = {}
      BY DEF Since
    <3>2. \A k, x : Counted(<<>>, k, x, 0) = {}
      BY DEF Counted
    <3> QED BY <3>1, <3>2 DEF Init, WindowsExact
  <2>3. FiresExact(evaluations) /\ KeysFit(evaluations) /\ Distinct /\ Traced
    BY DEF Init, FiresExact, KeysFit, Distinct, Traced
  <2> QED BY <2>1, <2>2, <2>3 DEF Windows, Fitting
<1> QED BY <1>1, <1>2, <1>3, <1>4, <1>5 DEF IInv

\* What is known of a task with an event in its hands.
LEMMA TaskFacts ==
    ASSUME IInv, NEW c \in Consumers, stage[c] # "idle"
    PROVE  /\ number[c] \in 1 .. begun /\ number[c] \in 1 .. MaxEvents
           /\ outcome[number[c]] = "running"
           /\ event[c] \in Events
           /\ using[c] \in DOMAIN RuleFiles /\ rule[c] \in Nat \ {0} /\ action[c] \in Nat \ {0}
           /\ attempted[number[c]] \in Seq(Nat \X Nat)
           /\ EventAt(number[c])
           /\ stage[c] = "enrich" => Untouched(files[number[c]], evaluated[number[c]],
                                               matched[number[c]], attempted[number[c]])
           /\ stage[c] # "enrich" => Busy(stage[c], using[c], rule[c], action[c],
                                          files[number[c]], evaluated[number[c]],
                                          matched[number[c]], attempted[number[c]])
<1>1. number[c] \in 1 .. begun /\ outcome[number[c]] = "running"
  BY DEF IInv, Numbers
<1>2. begun \in Nat /\ begun <= MaxEvents /\ MaxEvents \in Nat
  BY ConstantFacts DEF IInv, Types
<1>3. number[c] \in 1 .. MaxEvents
  BY <1>1, <1>2
<1>4. TaskAt(c) /\ EventAt(number[c])
  BY <1>3 DEF IInv
<1>5. stage[c] \in Stages \ {"idle"}
  BY DEF IInv, Types
<1> QED BY <1>1, <1>3, <1>4, <1>5 DEF TaskAt, Task, IInv, Types, Stages

\* A step of task c alone, and of its event.
Alone(c) ==
    /\ \A d \in Consumers \ {c} :
         /\ stage'[d] = stage[d] /\ event'[d] = event[d] /\ number'[d] = number[d]
         /\ using'[d] = using[d] /\ rule'[d] = rule[d] /\ action'[d] = action[d]
    /\ \A n \in 1 .. MaxEvents : n # number[c] =>
         /\ files'[n] = files[n] /\ evaluated'[n] = evaluated[n] /\ matched'[n] = matched[n]
         /\ attempted'[n] = attempted[n] /\ outcome'[n] = outcome[n]
    /\ begun' = begun

LEMMA AloneKeeps ==
    ASSUME IInv, NEW c \in Consumers, stage[c] # "idle", Alone(c),
           \/ stage'[c] = "idle"
           \/ stage'[c] # "idle" /\ number'[c] = number[c] /\ outcome'[number[c]] = "running",
           TaskAt(c)', NEW n \in 1 .. MaxEvents, n = number[c], EventAt(n)'
    PROVE  /\ Numbers'
           /\ \A d \in Consumers : TaskAt(d)'
           /\ \A m \in 1 .. MaxEvents : EventAt(m)'
<1>1. \A d \in Consumers : stage[d] # "idle" =>
        number[d] \in 1 .. begun /\ number[d] \in 1 .. MaxEvents /\ outcome[number[d]] = "running"
  BY TaskFacts
<1>2. \A d \in Consumers \ {c} : stage[d] # "idle" => number[d] # number[c]
  BY DEF IInv, Numbers
<1>3. Numbers'
  <2>1. ASSUME NEW d \in Consumers, stage'[d] # "idle"
        PROVE  /\ stage[d] # "idle" /\ number'[d] = number[d]
               /\ number'[d] \in 1 .. begun' /\ outcome'[number'[d]] = "running"
    <3>1. CASE d = c
      BY <1>1, <2>1, <3>1 DEF Alone
    <3>2. CASE d # c
      BY <1>1, <1>2, <2>1, <3>2 DEF Alone
    <3> QED BY <3>1, <3>2
  <2>2. \A d, e \in Consumers :
          stage'[d] # "idle" /\ stage'[e] # "idle" /\ number'[d] = number'[e] => d = e
    BY <2>1 DEF IInv, Numbers
  <2>3. ASSUME NEW m \in 1 .. MaxEvents, m > begun'
        PROVE  outcome'[m] = "none" /\ Untouched(files'[m], evaluated'[m], matched'[m], attempted'[m])
    <3>1. m # number[c] /\ m > begun
      BY <1>1, <2>3 DEF Alone, IInv, Types
    <3> QED BY <3>1 DEF Alone, IInv, Numbers
  <2> QED BY <2>1, <2>2, <2>3 DEF Numbers
<1>4. \A d \in Consumers : TaskAt(d)'
  <2>1. ASSUME NEW d \in Consumers \ {c} PROVE TaskAt(d)'
    <3>1. TaskAt(d)
      BY DEF IInv
    <3>2. CASE stage[d] = "idle"
      BY <3>2 DEF Alone, TaskAt, Task
    <3>3. CASE stage[d] # "idle"
      BY <1>1, <1>2, <3>1, <3>3 DEF Alone, TaskAt
    <3> QED BY <3>2, <3>3
  <2> QED BY <2>1
<1>5. ASSUME NEW m \in 1 .. MaxEvents PROVE EventAt(m)'
  <2>1. CASE m = n
    BY <2>1
  <2>2. CASE m # n
    BY <2>2 DEF Alone, EventAt, IInv
  <2> QED BY <2>1, <2>2
<1> QED BY <1>3, <1>4, <1>5

\* Where nothing is evaluated and the clock stands, the windows stay.
LEMMA WindowsRest ==
    ASSUME IInv, UNCHANGED <<now, windows, baseline, evaluations, evaluated, files>>
    PROVE  Windows'
  BY DEF IInv, Windows, Distinct, Traced, Fitting

\* The end of a handler, and an action that is dispatched, keep the types.
LEMMA EndTypes ==
    ASSUME Types, NEW c \in Consumers, running \in {c, NoTask},
           NEW result \in {"done", "raised"}, End(c, result), begun' = begun
    PROVE  /\ event' \in [Consumers -> Events \cup {None}]
           /\ number' \in [Consumers -> 0 .. begun']
           /\ using' \in [Consumers -> DOMAIN RuleFiles]
           /\ stage' \in [Consumers -> Stages]
           /\ rule' \in [Consumers -> Nat \ {0}]
           /\ action' \in [Consumers -> Nat \ {0}]
           /\ running' \in Consumers \cup {NoTask}
           /\ \A d \in Consumers : running' = d <=> stage'[d] \in {"rules", "actions"}
           /\ outcome' \in [1 .. MaxEvents -> {"none", "running", "done", "raised"}]
<1>1. /\ event' \in [Consumers -> Events \cup {None}]
      /\ number' \in [Consumers -> 0 .. begun']
      /\ using' \in [Consumers -> DOMAIN RuleFiles]
      /\ stage' \in [Consumers -> Stages]
      /\ rule' \in [Consumers -> Nat \ {0}]
      /\ action' \in [Consumers -> Nat \ {0}]
      /\ running' \in Consumers \cup {NoTask}
  BY ConstantFacts DEF End, Types, Stages
<1>2. ASSUME NEW d \in Consumers PROVE running' = d <=> stage'[d] \in {"rules", "actions"}
  <2>1. running' # d
    BY ConstantFacts DEF End
  <2>2. CASE d = c
    BY <2>1, <2>2 DEF End, Types
  <2>3. CASE d # c
    <3>1. stage'[d] = stage[d] /\ running # d
      BY <2>3, ConstantFacts DEF End, Types
    <3> QED BY <2>1, <3>1 DEF Types
  <2> QED BY <2>2, <2>3
<1>3. outcome' \in [1 .. MaxEvents -> {"none", "running", "done", "raised"}]
  BY DEF End, Types
<1> QED BY <1>1, <1>2, <1>3

LEMMA NextActionTypes ==
    ASSUME Types, NEW c \in Consumers, running = c, NextAction(c), running' = running
    PROVE  /\ stage' \in [Consumers -> Stages]
           /\ action' \in [Consumers -> Nat \ {0}]
           /\ \A d \in Consumers : running' = d <=> stage'[d] \in {"rules", "actions"}
<1>1. stage' \in [Consumers -> Stages] /\ action' \in [Consumers -> Nat \ {0}]
  BY DEF NextAction, Types, Stages
<1>2. ASSUME NEW d \in Consumers PROVE running' = d <=> stage'[d] \in {"rules", "actions"}
  <2>1. CASE d = c
    BY <2>1 DEF NextAction, Types
  <2>2. CASE d # c
    BY <2>2 DEF NextAction, Types
  <2> QED BY <2>1, <2>2
<1> QED BY <1>1, <1>2

LEMMA AttemptedType ==
    ASSUME Types, NEW c \in Consumers, NEW n \in 1 .. MaxEvents, NEW new \in Seq(Nat \X Nat),
           attempted' = [attempted EXCEPT ![n] = new]
    PROVE  attempted' \in [1 .. MaxEvents -> Seq(Nat \X Nat)]
  BY DEF Types

LEMMA PassOverInv ==
    ASSUME IInv, NEW c \in Consumers, PassOver(c)
    PROVE  IInv'
<1> USE DEF File, Rule
<1>1. PICK n : n = number[c]
  OBVIOUS
<1>2. stage[c] = "rules" /\ running = c /\ rule[c] <= Len(RuleFiles[using[c]])
      /\ ~Active(RuleFiles[using[c]][rule[c]])
  BY DEF PassOver
<1>3. /\ n \in 1 .. MaxEvents /\ outcome[n] = "running" /\ event[c] \in Events
      /\ using[c] \in DOMAIN RuleFiles /\ rule[c] \in Nat \ {0} /\ action[c] \in Nat \ {0}
      /\ Busy("rules", using[c], rule[c], action[c], files[n], evaluated[n], matched[n], attempted[n])
  BY <1>1, <1>2, TaskFacts
<1>4. rule[c] \in 1 .. Len(RuleFiles[using[c]])
  BY <1>2, <1>3, FileFacts
<1>5. Types'
  <2>1. /\ Types /\ NextRule(c)
        /\ UNCHANGED <<now, shared, running, frame, bounds, traces, attempted, outcome>>
    BY DEF IInv, PassOver
  <2>2. /\ stage' \in [Consumers -> Stages] /\ rule' \in [Consumers -> Nat \ {0}]
        /\ action' \in [Consumers -> Nat \ {0}]
    <3>1. stage' \in [Consumers -> Stages]
      BY <2>1 DEF Types, NextRule, Stages
    <3>2. rule' \in [Consumers -> Nat \ {0}]
      BY <2>1 DEF Types, NextRule
    <3>3. action' \in [Consumers -> Nat \ {0}]
      BY <2>1 DEF Types, NextRule
    <3> QED BY <3>1, <3>2, <3>3
  <2>3. \A d \in Consumers : running' = d <=> stage'[d] \in {"rules", "actions"}
    BY <1>2, <2>1 DEF Types, NextRule
  <2> QED BY <2>1, <2>2, <2>3 DEF Types, shared, frame, bounds, traces
<1>6. /\ stage'[c] = "rules" /\ rule'[c] = rule[c] + 1 /\ action'[c] = 1
      /\ UNCHANGED <<event, number, using, files, evaluated, matched, attempted, outcome, begun>>
      /\ Alone(c)
  BY DEF IInv, Types, PassOver, NextRule, shared, frame, bounds, traces, Alone
<1>7. TaskAt(c)'
  <2>1. Busy("rules", using[c], rule[c] + 1, 1, files[n], evaluated[n], matched[n], attempted[n])
    BY <1>2, <1>3, <1>4, BusyPassesOver
  <2> QED BY <1>1, <1>3, <1>6, <2>1 DEF TaskAt, Task
<1>8. EventAt(n)'
  BY <1>3, <1>6 DEF IInv, EventAt
<1>9. Numbers' /\ (\A d \in Consumers : TaskAt(d)') /\ \A m \in 1 .. MaxEvents : EventAt(m)'
  BY <1>1, <1>2, <1>3, <1>6, <1>7, <1>8, AloneKeeps
<1>10. Windows'
  BY WindowsRest DEF PassOver, shared, traces
<1> QED BY <1>5, <1>9, <1>10 DEF IInv

LEMMA RuleDoneInv ==
    ASSUME IInv, NEW c \in Consumers, RuleDone(c)
    PROVE  IInv'
<1> USE DEF File, Rule
<1>1. PICK n : n = number[c]
  OBVIOUS
<1>2. stage[c] = "actions" /\ running = c
      /\ action[c] > Len(RuleFiles[using[c]][rule[c]].actions)
  BY DEF RuleDone
<1>3. /\ n \in 1 .. MaxEvents /\ outcome[n] = "running" /\ event[c] \in Events
      /\ using[c] \in DOMAIN RuleFiles /\ rule[c] \in Nat \ {0} /\ action[c] \in Nat \ {0}
      /\ attempted[n] \in Seq(Nat \X Nat) /\ EventAt(n)
      /\ Busy("actions", using[c], rule[c], action[c], files[n], evaluated[n], matched[n], attempted[n])
  BY <1>1, <1>2, TaskFacts
<1>5. Types'
  <2>1. /\ Types /\ NextRule(c)
        /\ UNCHANGED <<now, shared, running, frame, bounds, traces, attempted, outcome>>
    BY DEF IInv, RuleDone
  <2>2. stage' \in [Consumers -> Stages] /\ rule' \in [Consumers -> Nat \ {0}]
        /\ action' \in [Consumers -> Nat \ {0}]
    <3>1. stage' \in [Consumers -> Stages]
      BY <2>1 DEF Types, NextRule, Stages
    <3>2. rule' \in [Consumers -> Nat \ {0}]
      BY <2>1 DEF Types, NextRule
    <3>3. action' \in [Consumers -> Nat \ {0}]
      BY <2>1 DEF Types, NextRule
    <3> QED BY <3>1, <3>2, <3>3
  <2>3. \A d \in Consumers : running' = d <=> stage'[d] \in {"rules", "actions"}
    BY <1>2, <2>1 DEF Types, NextRule
  <2> QED BY <2>1, <2>2, <2>3 DEF Types, shared, frame, bounds, traces
<1>6. /\ stage'[c] = "rules" /\ rule'[c] = rule[c] + 1 /\ action'[c] = 1
      /\ UNCHANGED <<event, number, using, files, evaluated, matched, attempted, outcome, begun>>
      /\ Alone(c)
  BY DEF IInv, Types, RuleDone, NextRule, shared, frame, bounds, traces, Alone
<1>7. TaskAt(c)'
  <2>1. Busy("rules", using[c], rule[c] + 1, 1, files[n], evaluated[n], matched[n], attempted[n])
    BY <1>2, <1>3, BusyEndsRule
  <2> QED BY <1>1, <1>3, <1>6, <2>1 DEF TaskAt, Task
<1>8. EventAt(n)'
  BY <1>3, <1>6 DEF EventAt
<1>9. Numbers' /\ (\A d \in Consumers : TaskAt(d)') /\ \A m \in 1 .. MaxEvents : EventAt(m)'
  BY <1>1, <1>2, <1>3, <1>6, <1>7, <1>8, AloneKeeps
<1>10. Windows'
  BY WindowsRest DEF RuleDone, shared, traces
<1> QED BY <1>5, <1>9, <1>10 DEF IInv

LEMMA ReturnInv ==
    ASSUME IInv, NEW c \in Consumers, Return(c)
    PROVE  IInv'
<1> USE DEF File
<1>1. PICK n : n = number[c]
  OBVIOUS
<1>2. stage[c] = "rules" /\ running = c /\ rule[c] > Len(RuleFiles[using[c]])
  BY DEF Return
<1>3. /\ n \in 1 .. MaxEvents /\ outcome[n] = "running" /\ event[c] \in Events
      /\ using[c] \in DOMAIN RuleFiles /\ rule[c] \in Nat \ {0} /\ action[c] \in Nat \ {0}
      /\ attempted[n] \in Seq(Nat \X Nat) /\ EventAt(n)
      /\ Busy("rules", using[c], rule[c], action[c], files[n], evaluated[n], matched[n], attempted[n])
  BY <1>1, <1>2, TaskFacts
<1>5. Types'
  <2>1. Types /\ running \in {c, NoTask} /\ End(c, "done") /\ begun' = begun
    BY <1>2 DEF Return, IInv, bounds
  <2> QED BY <2>1, EndTypes DEF Types, Return, shared, bounds, traces
<1>6. /\ stage'[c] = "idle" /\ outcome'[n] = "done"
      /\ UNCHANGED <<files, evaluated, matched, attempted, begun>>
      /\ Alone(c)
  BY <1>1, <1>3 DEF IInv, Types, Return, End, shared, bounds, traces, Alone
<1>7. TaskAt(c)'
  BY <1>6 DEF TaskAt, Task
<1>8. EventAt(n)'
  <2>1. Completed(using[c], evaluated[n], matched[n], attempted[n])
    BY <1>2, <1>3, BusyCompletes
  <2>2. files[n] \subseteq {using[c]}
    BY <1>3 DEF Busy
  <2> QED BY <1>3, <1>6, <2>1, <2>2 DEF EventAt, Event
<1>9. Numbers' /\ (\A d \in Consumers : TaskAt(d)') /\ \A m \in 1 .. MaxEvents : EventAt(m)'
  BY <1>1, <1>2, <1>3, <1>6, <1>7, <1>8, AloneKeeps
<1>10. Windows'
  BY WindowsRest DEF Return, shared, traces
<1> QED BY <1>5, <1>9, <1>10 DEF IInv

LEMMA SkipInv ==
    ASSUME IInv, NEW c \in Consumers, Skip(c)
    PROVE  IInv'
<1> USE DEF File, Rule, Action
<1>1. PICK n : n = number[c]
  OBVIOUS
<1>2. /\ stage[c] = "actions" /\ running = c
      /\ action[c] <= Len(RuleFiles[using[c]][rule[c]].actions)
      /\ attempted' = [attempted EXCEPT ![number[c]] = Append(@, <<rule[c], action[c]>>)]
  BY DEF Skip, Dispatch
<1>3. /\ n \in 1 .. MaxEvents /\ outcome[n] = "running" /\ event[c] \in Events
      /\ using[c] \in DOMAIN RuleFiles /\ rule[c] \in Nat \ {0} /\ action[c] \in Nat \ {0}
      /\ attempted[n] \in Seq(Nat \X Nat) /\ EventAt(n)
      /\ Busy("actions", using[c], rule[c], action[c], files[n], evaluated[n], matched[n], attempted[n])
  BY <1>1, <1>2, TaskFacts
<1>4. Append(attempted[n], <<rule[c], action[c]>>) \in Seq(Nat \X Nat)
  BY <1>3
<1>5. Types'
  <2>1. attempted' \in [1 .. MaxEvents -> Seq(Nat \X Nat)]
    BY <1>1, <1>2, <1>3, <1>4, AttemptedType DEF IInv
  <2>2. Types /\ running = c /\ running' = running /\ NextAction(c)
    BY <1>2 DEF IInv, Skip
  <2>3. UNCHANGED <<now, shared, running, frame, rule, bounds, traces, outcome>>
    BY DEF Skip
  <2> QED BY <2>1, <2>2, <2>3, NextActionTypes DEF Types, shared, frame, bounds, traces
<1>6. /\ stage'[c] = "actions" /\ action'[c] = action[c] + 1
      /\ attempted'[n] = Append(attempted[n], <<rule[c], action[c]>>)
      /\ UNCHANGED <<event, number, using, rule, files, evaluated, matched, outcome, begun>>
      /\ Alone(c)
  BY <1>1, <1>2, <1>3 DEF IInv, Types, Skip, NextAction, shared, frame, bounds, traces, Alone
<1>7. TaskAt(c)'
  <2>1. Busy("actions", using[c], rule[c], action[c] + 1, files[n], evaluated[n], matched[n],
             Append(attempted[n], <<rule[c], action[c]>>))
    BY <1>2, <1>3, BusySkips
  <2> QED BY <1>1, <1>3, <1>6, <2>1 DEF TaskAt, Task
<1>8. EventAt(n)'
  BY <1>3, <1>6 DEF EventAt, Event
<1>9. Numbers' /\ (\A d \in Consumers : TaskAt(d)') /\ \A m \in 1 .. MaxEvents : EventAt(m)'
  BY <1>1, <1>2, <1>3, <1>6, <1>7, <1>8, AloneKeeps
<1>10. Windows'
  BY WindowsRest DEF Skip, shared, traces
<1> QED BY <1>5, <1>9, <1>10 DEF IInv

LEMMA DeployInv ==
    ASSUME IInv, NEW c \in Consumers, Deploy(c)
    PROVE  IInv'
<1> USE DEF File, Rule, Action
<1>1. PICK n : n = number[c]
  OBVIOUS
<1>2. /\ stage[c] = "actions" /\ running = c
      /\ action[c] <= Len(RuleFiles[using[c]][rule[c]].actions)
      /\ attempted' = [attempted EXCEPT ![number[c]] = Append(@, <<rule[c], action[c]>>)]
      /\ RuleFiles[using[c]][rule[c]].actions[action[c]].type = "deploy_honeypot"
  BY DEF Deploy, Dispatch
<1>3. /\ n \in 1 .. MaxEvents /\ outcome[n] = "running" /\ event[c] \in Events
      /\ using[c] \in DOMAIN RuleFiles /\ rule[c] \in Nat \ {0} /\ action[c] \in Nat \ {0}
      /\ attempted[n] \in Seq(Nat \X Nat) /\ EventAt(n)
      /\ Busy("actions", using[c], rule[c], action[c], files[n], evaluated[n], matched[n], attempted[n])
  BY <1>1, <1>2, TaskFacts
<1>4. Append(attempted[n], <<rule[c], action[c]>>) \in Seq(Nat \X Nat)
  BY <1>3
<1>5. Types'
  <2>1. attempted' \in [1 .. MaxEvents -> Seq(Nat \X Nat)]
    BY <1>1, <1>2, <1>3, <1>4, AttemptedType DEF IInv
  <2>2. CASE Wait(c, "dns") /\ UNCHANGED action
    BY <1>2, <2>1, <2>2, ConstantFacts
       DEF IInv, Types, Deploy, Wait, shared, frame, bounds, traces, Stages
  <2>3. CASE NextAction(c) /\ UNCHANGED running
    <3>1. Types /\ running = c /\ running' = running
      BY <1>2, <2>3 DEF IInv
    <3> QED BY <2>1, <2>3, <3>1, NextActionTypes DEF Types, Deploy, shared, frame, bounds, traces
  <2> QED BY <2>2, <2>3 DEF Deploy
<1>6. /\ \/ stage'[c] = "actions" /\ action'[c] = action[c] + 1
         \/ stage'[c] = "dns" /\ action'[c] = action[c]
      /\ attempted'[n] = Append(attempted[n], <<rule[c], action[c]>>)
      /\ UNCHANGED <<event, number, using, rule, files, evaluated, matched, outcome, begun>>
      /\ Alone(c)
  <2>1. /\ UNCHANGED <<event, number, using, rule, files, evaluated, matched, outcome, begun>>
        /\ \/ stage' = [stage EXCEPT ![c] = "actions"] /\ action' = [action EXCEPT ![c] = @ + 1]
           \/ stage' = [stage EXCEPT ![c] = "dns"] /\ action' = action
    BY DEF Deploy, Wait, NextAction, frame, bounds, traces
  <2>2. /\ stage \in [Consumers -> Stages] /\ action \in [Consumers -> Nat \ {0}]
        /\ attempted \in [1 .. MaxEvents -> Seq(Nat \X Nat)]
    BY DEF IInv, Types
  <2>3. /\ attempted'[n] = Append(attempted[n], <<rule[c], action[c]>>)
        /\ \A m \in 1 .. MaxEvents : m # n => attempted'[m] = attempted[m]
    BY <1>1, <1>2, <1>3, <2>2
  <2>4. /\ \/ stage'[c] = "actions" /\ action'[c] = action[c] + 1
           \/ stage'[c] = "dns" /\ action'[c] = action[c]
        /\ \A d \in Consumers \ {c} : stage'[d] = stage[d] /\ action'[d] = action[d]
    BY <2>1, <2>2
  <2> QED BY <1>1, <2>1, <2>3, <2>4 DEF Alone
<1>7. TaskAt(c)'
  <2>1. Busy("actions", using[c], rule[c], action[c] + 1, files[n], evaluated[n], matched[n],
             Append(attempted[n], <<rule[c], action[c]>>))
    BY <1>2, <1>3, BusySkips
  <2>2. Busy("dns", using[c], rule[c], action[c], files[n], evaluated[n], matched[n],
             Append(attempted[n], <<rule[c], action[c]>>))
    BY <1>2, <1>3, BusyWaits
  <2> QED BY <1>1, <1>3, <1>6, <2>1, <2>2 DEF TaskAt, Task
<1>8. EventAt(n)'
  BY <1>3, <1>6 DEF EventAt, Event
<1>9. Numbers' /\ (\A d \in Consumers : TaskAt(d)') /\ \A m \in 1 .. MaxEvents : EventAt(m)'
  BY <1>1, <1>2, <1>3, <1>6, <1>7, <1>8, AloneKeeps
<1>10. Windows'
  BY WindowsRest DEF Deploy, shared, traces
<1> QED BY <1>5, <1>9, <1>10 DEF IInv

LEMMA EmitInv ==
    ASSUME IInv, NEW c \in Consumers, Emit(c)
    PROVE  IInv'
<1> USE DEF File, Rule, Action
<1>1. PICK n : n = number[c]
  OBVIOUS
<1>2. /\ stage[c] = "actions" /\ running = c
      /\ action[c] <= Len(RuleFiles[using[c]][rule[c]].actions)
      /\ attempted' = [attempted EXCEPT ![number[c]] = Append(@, <<rule[c], action[c]>>)]
      /\ RuleFiles[using[c]][rule[c]].actions[action[c]].type = "emit_alert"
  BY DEF Emit, Dispatch
<1>3. /\ n \in 1 .. MaxEvents /\ outcome[n] = "running" /\ event[c] \in Events
      /\ using[c] \in DOMAIN RuleFiles /\ rule[c] \in Nat \ {0} /\ action[c] \in Nat \ {0}
      /\ attempted[n] \in Seq(Nat \X Nat) /\ EventAt(n)
      /\ Busy("actions", using[c], rule[c], action[c], files[n], evaluated[n], matched[n], attempted[n])
  BY <1>1, <1>2, TaskFacts
<1>4. Append(attempted[n], <<rule[c], action[c]>>) \in Seq(Nat \X Nat)
  BY <1>3
<1>5. Types'
  BY <1>1, <1>2, <1>3, <1>4, ConstantFacts
     DEF IInv, Types, Emit, Wait, shared, frame, bounds, traces, Stages
<1>6. /\ stage'[c] = "emit"
      /\ attempted'[n] = Append(attempted[n], <<rule[c], action[c]>>)
      /\ UNCHANGED <<event, number, using, rule, action, files, evaluated, matched, outcome, begun>>
      /\ Alone(c)
  BY <1>1, <1>2, <1>3 DEF IInv, Types, Emit, Wait, shared, frame, bounds, traces, Alone
<1>7. TaskAt(c)'
  <2>1. Busy("emit", using[c], rule[c], action[c], files[n], evaluated[n], matched[n],
             Append(attempted[n], <<rule[c], action[c]>>))
    BY <1>2, <1>3, BusyWaits
  <2> QED BY <1>1, <1>3, <1>6, <2>1 DEF TaskAt, Task
<1>8. EventAt(n)'
  BY <1>3, <1>6 DEF EventAt, Event
<1>9. Numbers' /\ (\A d \in Consumers : TaskAt(d)') /\ \A m \in 1 .. MaxEvents : EventAt(m)'
  BY <1>1, <1>2, <1>3, <1>6, <1>7, <1>8, AloneKeeps
<1>10. Windows'
  BY WindowsRest DEF Emit, shared, traces
<1> QED BY <1>5, <1>9, <1>10 DEF IInv

LEMMA DeployRaisesInv ==
    ASSUME IInv, NEW c \in Consumers, DeployRaises(c)
    PROVE  IInv'
<1> USE DEF File, Rule, Action
<1>1. PICK n : n = number[c]
  OBVIOUS
<1>2. /\ stage[c] = "actions" /\ running = c
      /\ action[c] <= Len(RuleFiles[using[c]][rule[c]].actions)
      /\ attempted' = [attempted EXCEPT ![number[c]] = Append(@, <<rule[c], action[c]>>)]
      /\ RuleFiles[using[c]][rule[c]].actions[action[c]].type = "deploy_honeypot"
  BY DEF DeployRaises, Dispatch
<1>3. /\ n \in 1 .. MaxEvents /\ outcome[n] = "running" /\ event[c] \in Events
      /\ using[c] \in DOMAIN RuleFiles /\ rule[c] \in Nat \ {0} /\ action[c] \in Nat \ {0}
      /\ attempted[n] \in Seq(Nat \X Nat) /\ EventAt(n)
      /\ Busy("actions", using[c], rule[c], action[c], files[n], evaluated[n], matched[n], attempted[n])
  BY <1>1, <1>2, TaskFacts
<1>4. Append(attempted[n], <<rule[c], action[c]>>) \in Seq(Nat \X Nat)
  BY <1>3
<1>5. Types'
  <2>1. Types /\ running \in {c, NoTask} /\ End(c, "raised") /\ begun' = begun
    BY <1>2 DEF DeployRaises, Fail, IInv, bounds
  <2>2. reloads' \in Nat /\ failures' \in Nat
    BY <2>1 DEF DeployRaises, Fail, bounds, Types
  <2>3. attempted' \in [1 .. MaxEvents -> Seq(Nat \X Nat)]
    BY <1>1, <1>2, <1>3, <1>4, <2>1, AttemptedType
  <2> QED BY <2>1, <2>2, <2>3, EndTypes DEF Types, DeployRaises, shared, traces
<1>6. /\ stage'[c] = "idle" /\ outcome'[n] = "raised"
      /\ attempted'[n] = Append(attempted[n], <<rule[c], action[c]>>)
      /\ UNCHANGED <<files, evaluated, matched, begun>>
      /\ Alone(c)
  BY <1>1, <1>2, <1>3 DEF IInv, Types, DeployRaises, Fail, End, shared, bounds, traces, Alone
<1>7. TaskAt(c)'
  BY <1>6 DEF TaskAt, Task
<1>8. EventAt(n)'
  <2>1. EndedBy(using[c], evaluated[n], matched[n], Append(attempted[n], <<rule[c], action[c]>>))
    BY <1>2, <1>3, BusyDeployRaises
  <2>2. files[n] \subseteq {using[c]}
    BY <1>3 DEF Busy
  <2> QED BY <1>3, <1>6, <2>1, <2>2 DEF EventAt, Event
<1>9. Numbers' /\ (\A d \in Consumers : TaskAt(d)') /\ \A m \in 1 .. MaxEvents : EventAt(m)'
  BY <1>1, <1>2, <1>3, <1>6, <1>7, <1>8, AloneKeeps
<1>10. Windows'
  BY WindowsRest DEF DeployRaises, shared, traces
<1> QED BY <1>5, <1>9, <1>10 DEF IInv

LEMMA DnsRaisesInv ==
    ASSUME IInv, NEW c \in Consumers, DnsRaises(c)
    PROVE  IInv'
<1> USE DEF Fail
<1>1. PICK n : n = number[c]
  OBVIOUS
<1>2. stage[c] = "dns" /\ running = NoTask
  BY DEF DnsRaises
<1>3. /\ n \in 1 .. MaxEvents /\ outcome[n] = "running" /\ event[c] \in Events
      /\ using[c] \in DOMAIN RuleFiles /\ rule[c] \in Nat \ {0} /\ action[c] \in Nat \ {0}
      /\ attempted[n] \in Seq(Nat \X Nat) /\ EventAt(n)
      /\ Busy("dns", using[c], rule[c], action[c], files[n], evaluated[n], matched[n], attempted[n])
  BY <1>1, <1>2, TaskFacts
<1>5. Types'
  <2>1. Types /\ running \in {c, NoTask} /\ End(c, "raised") /\ begun' = begun
    BY <1>2 DEF DnsRaises, IInv
  <2>2. reloads' \in Nat /\ failures' \in Nat
    BY <2>1 DEF DnsRaises, Types
  <2> QED BY <2>1, <2>2, EndTypes DEF Types, DnsRaises, shared, traces
<1>6. /\ stage'[c] = "idle" /\ outcome'[n] = "raised"
      /\ UNCHANGED <<files, evaluated, matched, attempted, begun>>
      /\ Alone(c)
  BY <1>1, <1>3 DEF IInv, Types, DnsRaises, End, shared, bounds, traces, Alone
<1>7. TaskAt(c)'
  BY <1>6 DEF TaskAt, Task
<1>8. EventAt(n)'
  <2>1. EndedBy(using[c], evaluated[n], matched[n], attempted[n])
    BY <1>3, BusyDnsRaises, Zenon
  <2>2. files[n] \subseteq {using[c]}
    BY <1>3 DEF Busy
  <2> QED BY <1>3, <1>6, <2>1, <2>2 DEF EventAt, Event
<1>9. Numbers' /\ (\A d \in Consumers : TaskAt(d)') /\ \A m \in 1 .. MaxEvents : EventAt(m)'
  BY <1>1, <1>2, <1>3, <1>6, <1>7, <1>8, AloneKeeps
<1>10. Windows'
  BY WindowsRest DEF DnsRaises, shared, traces
<1> QED BY <1>5, <1>9, <1>10 DEF IInv

LEMMA DnsReturnsInv ==
    ASSUME IInv, NEW c \in Consumers, DnsReturns(c)
    PROVE  IInv'
<1> USE DEF Resume
<1>1. PICK n : n = number[c]
  OBVIOUS
<1>2. stage[c] = "dns" /\ running = NoTask
  BY DEF DnsReturns
<1>3. /\ n \in 1 .. MaxEvents /\ outcome[n] = "running" /\ event[c] \in Events
      /\ using[c] \in DOMAIN RuleFiles /\ rule[c] \in Nat \ {0} /\ action[c] \in Nat \ {0}
      /\ attempted[n] \in Seq(Nat \X Nat) /\ EventAt(n)
      /\ Busy("dns", using[c], rule[c], action[c], files[n], evaluated[n], matched[n], attempted[n])
  BY <1>1, <1>2, TaskFacts
<1>5. Types'
  <2>1. /\ Types /\ NextAction(c) /\ running' = c
        /\ UNCHANGED <<now, shared, frame, rule, bounds, traces, attempted, outcome>>
    BY DEF IInv, DnsReturns
  <2>2. stage' \in [Consumers -> Stages] /\ action' \in [Consumers -> Nat \ {0}]
    <3>1. stage' \in [Consumers -> Stages]
      BY <2>1 DEF Types, NextAction, Stages
    <3>2. action' \in [Consumers -> Nat \ {0}]
      BY <2>1 DEF Types, NextAction
    <3> QED BY <3>1, <3>2
  <2>3. \A d \in Consumers : running' = d <=> stage'[d] \in {"rules", "actions"}
    BY <1>2, <2>1, ConstantFacts DEF Types, NextAction
  <2> QED BY <2>1, <2>2, <2>3 DEF Types, shared, frame, bounds, traces
<1>6. /\ stage'[c] = "actions" /\ action'[c] = action[c] + 1
      /\ UNCHANGED <<event, number, using, rule, files, evaluated, matched, attempted, outcome, begun>>
      /\ Alone(c)
  BY DEF IInv, Types, DnsReturns, NextAction, shared, frame, bounds, traces, Alone
<1>7. TaskAt(c)'
  <2>1. Busy("actions", using[c], rule[c], action[c] + 1, files[n], evaluated[n], matched[n], attempted[n])
    BY <1>3, BusyResumes
  <2> QED BY <1>1, <1>3, <1>6, <2>1 DEF TaskAt, Task
<1>8. EventAt(n)'
  BY <1>3, <1>6 DEF EventAt
<1>9. Numbers' /\ (\A d \in Consumers : TaskAt(d)') /\ \A m \in 1 .. MaxEvents : EventAt(m)'
  BY <1>1, <1>2, <1>3, <1>6, <1>7, <1>8, AloneKeeps
<1>10. Windows'
  BY WindowsRest DEF DnsReturns, shared, traces
<1> QED BY <1>5, <1>9, <1>10 DEF IInv

LEMMA EmitEndsInv ==
    ASSUME IInv, NEW c \in Consumers, EmitEnds(c)
    PROVE  IInv'
<1> USE DEF Resume
<1>1. PICK n : n = number[c]
  OBVIOUS
<1>2. stage[c] = "emit" /\ running = NoTask
  BY DEF EmitEnds
<1>3. /\ n \in 1 .. MaxEvents /\ outcome[n] = "running" /\ event[c] \in Events
      /\ using[c] \in DOMAIN RuleFiles /\ rule[c] \in Nat \ {0} /\ action[c] \in Nat \ {0}
      /\ attempted[n] \in Seq(Nat \X Nat) /\ EventAt(n)
      /\ Busy("emit", using[c], rule[c], action[c], files[n], evaluated[n], matched[n], attempted[n])
  BY <1>1, <1>2, TaskFacts
<1>5. Types'
  <2>1. /\ Types /\ NextAction(c) /\ running' = c
        /\ UNCHANGED <<now, shared, frame, rule, bounds, traces, attempted, outcome>>
    BY DEF IInv, EmitEnds
  <2>2. stage' \in [Consumers -> Stages] /\ action' \in [Consumers -> Nat \ {0}]
    <3>1. stage' \in [Consumers -> Stages]
      BY <2>1 DEF Types, NextAction, Stages
    <3>2. action' \in [Consumers -> Nat \ {0}]
      BY <2>1 DEF Types, NextAction
    <3> QED BY <3>1, <3>2
  <2>3. \A d \in Consumers : running' = d <=> stage'[d] \in {"rules", "actions"}
    BY <1>2, <2>1, ConstantFacts DEF Types, NextAction
  <2> QED BY <2>1, <2>2, <2>3 DEF Types, shared, frame, bounds, traces
<1>6. /\ stage'[c] = "actions" /\ action'[c] = action[c] + 1
      /\ UNCHANGED <<event, number, using, rule, files, evaluated, matched, attempted, outcome, begun>>
      /\ Alone(c)
  BY DEF IInv, Types, EmitEnds, NextAction, shared, frame, bounds, traces, Alone
<1>7. TaskAt(c)'
  <2>1. Busy("actions", using[c], rule[c], action[c] + 1, files[n], evaluated[n], matched[n], attempted[n])
    BY <1>3, BusyResumes
  <2> QED BY <1>1, <1>3, <1>6, <2>1 DEF TaskAt, Task
<1>8. EventAt(n)'
  BY <1>3, <1>6 DEF EventAt
<1>9. Numbers' /\ (\A d \in Consumers : TaskAt(d)') /\ \A m \in 1 .. MaxEvents : EventAt(m)'
  BY <1>1, <1>2, <1>3, <1>6, <1>7, <1>8, AloneKeeps
<1>10. Windows'
  BY WindowsRest DEF EmitEnds, shared, traces
<1> QED BY <1>5, <1>9, <1>10 DEF IInv

LEMMA EnrichmentEndsInv ==
    ASSUME IInv, NEW c \in Consumers, EnrichmentEnds(c)
    PROVE  IInv'
<1> USE DEF Resume
<1>1. PICK n : n = number[c]
  OBVIOUS
<1>2. stage[c] = "enrich" /\ running = NoTask
  BY DEF EnrichmentEnds
<1>3. /\ n \in 1 .. MaxEvents /\ outcome[n] = "running" /\ event[c] \in Events
      /\ Untouched(files[n], evaluated[n], matched[n], attempted[n]) /\ EventAt(n)
      /\ engine \in DOMAIN RuleFiles
  BY <1>1, <1>2, TaskFacts DEF IInv, Types
<1>5. Types'
  BY <1>2, ConstantFacts DEF IInv, Types, EnrichmentEnds, MakeGenerator, shared, bounds, traces, Stages
<1>6. /\ stage'[c] = "rules" /\ using'[c] = engine /\ rule'[c] = 1 /\ action'[c] = 1
      /\ UNCHANGED <<event, number, files, evaluated, matched, attempted, outcome, begun>>
      /\ Alone(c)
  BY DEF IInv, Types, EnrichmentEnds, MakeGenerator, shared, bounds, traces, Alone
<1>7. TaskAt(c)'
  <2>1. Busy("rules", engine, 1, 1, files[n], evaluated[n], matched[n], attempted[n])
    BY <1>3, BusyStarts DEF Untouched
  <2> QED BY <1>1, <1>3, <1>6, <2>1 DEF TaskAt, Task
<1>8. EventAt(n)'
  BY <1>3, <1>6 DEF EventAt
<1>9. Numbers' /\ (\A d \in Consumers : TaskAt(d)') /\ \A m \in 1 .. MaxEvents : EventAt(m)'
  BY <1>1, <1>2, <1>3, <1>6, <1>7, <1>8, AloneKeeps
<1>10. Windows'
  BY WindowsRest DEF EnrichmentEnds, shared, traces
<1> QED BY <1>5, <1>9, <1>10 DEF IInv

LEMMA ReloadInv ==
    ASSUME IInv, NEW f \in DOMAIN RuleFiles, Reload(f)
    PROVE  IInv'
<1>1. Types'
  BY DEF IInv, Types, Reload, frame, traces
<1>2. Numbers'
  BY DEF IInv, Numbers, Reload, frame, traces
<1>3. \A c \in Consumers : TaskAt(c)'
  BY DEF IInv, TaskAt, Reload, frame, traces
<1>4. \A n \in 1 .. MaxEvents : EventAt(n)'
  BY DEF IInv, EventAt, Reload, frame, traces
<1>5. Windows'
  BY WindowsRest DEF Reload, traces
<1> QED BY <1>1, <1>2, <1>3, <1>4, <1>5 DEF IInv

LEMMA TickInv == IInv /\ Tick => IInv'
<1> SUFFICES ASSUME IInv, Tick PROVE IInv'
  OBVIOUS
<1> USE DEF shared, frame, bounds, traces
<1>1. Types'
  <2>1. now \in Nat /\ now' = now + 1 /\ 0 .. now \subseteq 0 .. now'
    BY DEF IInv, Types, Tick
  <2>2. \A times \in Seq(0 .. now) : times \in Seq(0 .. now')
    BY <2>1, SeqMonotonic
  <2>3. windows' \in [WindowKeys -> Seq(0 .. now')] /\ baseline' \in [Sources -> Seq(0 .. now')]
    BY <2>2 DEF IInv, Types, Tick
  <2> QED BY <2>1, <2>3 DEF IInv, Types, Tick
<1>2. Numbers'
  BY DEF IInv, Numbers, Tick
<1>3. \A c \in Consumers : TaskAt(c)'
  BY DEF IInv, TaskAt, Tick
<1>4. \A n \in 1 .. MaxEvents : EventAt(n)'
  BY DEF IInv, EventAt, Tick
<1>5. Windows'
  <2>1. WindowsExact(windows', evaluations', now')
    <3> SUFFICES ASSUME NEW k \in WindowKeys, NEW t \in NarrowThresholds, NEW x \in Int,
                        t.field = k[1], x >= now' - t.window
                 PROVE  Cardinality(Since(windows[k], x)) =
                          Cardinality(Counted(evaluations, k, x, Len(evaluations)))
      BY DEF WindowsExact, Tick
    <3>1. t.window \in Int
      BY ThresholdNumbers DEF NarrowThresholds
    <3>2. x >= now - t.window
      BY <3>1 DEF IInv, Types, Tick
    <3> QED BY <3>2 DEF IInv, Windows, Fitting, WindowsExact
  <2> QED BY <2>1 DEF IInv, Windows, Fitting, Distinct, Traced, Tick
<1> QED BY <1>1, <1>2, <1>3, <1>4, <1>5 DEF IInv

LEMMA BaselineKeeps ==
    ASSUME IInv, NEW e \in Events,
           baseline' = [baseline EXCEPT ![e.source] = Recorded(@, now, BaselineWindow)]
    PROVE  baseline' \in [Sources -> Seq(0 .. now)] /\ WindowsSorted(baseline')
<1> DEFINE times == baseline[e.source]
           new == Recorded(times, now, BaselineWindow)
<1>1. e.source \in Sources /\ now \in Nat /\ baseline \in [Sources -> Seq(0 .. now)]
  BY DEF Sources, IInv, Types
<1>2. times \in Seq(0 .. now) /\ IsSorted(times)
  BY <1>1 DEF IInv, Windows, WindowsSorted
<1>3. new \in Seq(0 .. now) /\ IsSorted(new)
  <2>1. 0 .. now \in SUBSET Int /\ now \in 0 .. now /\ BaselineWindow \in Int
    BY <1>1, ConstantFacts
  <2>2. \A i \in DOMAIN times : times[i] <= now
    <3>1. DOMAIN times = 1 .. Len(times) /\ \A i \in 1 .. Len(times) : times[i] \in 0 .. now
      BY <1>2, <2>1, SequenceOfNumbers
    <3> QED BY <1>1, <3>1
  <2> HIDE DEF times
  <2> QED BY <1>2, <2>1, <2>2, RecordedKeeps
<1> HIDE DEF new
<1>4. baseline' = [baseline EXCEPT ![e.source] = new]
  BY DEF new
<1> QED BY <1>1, <1>3, <1>4 DEF IInv, Windows, WindowsSorted

LEMMA BeginInv ==
    ASSUME IInv, NEW c \in Consumers, NEW e \in Events, Begin(c, e)
    PROVE  IInv'
<1>1. PICK n : n = begun + 1
  OBVIOUS
<1>2. /\ running = NoTask /\ stage[c] = "idle" /\ begun' = n /\ begun \in Nat
      /\ n \in 1 .. MaxEvents
  BY <1>1, ConstantFacts DEF Begin, IInv, Types
<1>3. baseline' \in [Sources -> Seq(0 .. now)] /\ WindowsSorted(baseline')
  BY BaselineKeeps DEF Begin
<1>4. /\ number' = [number EXCEPT ![c] = n] /\ event' = [event EXCEPT ![c] = e]
      /\ outcome' = [outcome EXCEPT ![n] = "running"]
      /\ UNCHANGED <<now, engine, windows, reloads, failures, traces, attempted>>
  BY <1>2 DEF Begin
<1>5. \/ /\ stage' = [stage EXCEPT ![c] = "enrich"] /\ running' = NoTask
         /\ UNCHANGED <<using, rule, action>>
      \/ /\ stage' = [stage EXCEPT ![c] = "rules"] /\ running' = c
         /\ using' = [using EXCEPT ![c] = engine] /\ rule' = [rule EXCEPT ![c] = 1]
         /\ action' = [action EXCEPT ![c] = 1]
  BY DEF Begin, Wait, MakeGenerator
<1>6. Types'
  <2>1. /\ stage' \in [Consumers -> Stages] /\ running' \in Consumers \cup {NoTask}
        /\ using' \in [Consumers -> DOMAIN RuleFiles]
        /\ rule' \in [Consumers -> Nat \ {0}] /\ action' \in [Consumers -> Nat \ {0}]
    <3>1. stage' \in [Consumers -> Stages]
      BY <1>5 DEF IInv, Types, Stages
    <3>2. running' \in Consumers \cup {NoTask}
      BY <1>5
    <3>3. /\ using \in [Consumers -> DOMAIN RuleFiles] /\ engine \in DOMAIN RuleFiles
          /\ rule \in [Consumers -> Nat \ {0}] /\ action \in [Consumers -> Nat \ {0}]
      BY DEF IInv, Types
    <3>4. using' \in [Consumers -> DOMAIN RuleFiles]
      BY <1>5, <3>3
    <3>5. rule' \in [Consumers -> Nat \ {0}] /\ action' \in [Consumers -> Nat \ {0}]
      BY <1>5, <3>3
    <3> QED BY <3>1, <3>2, <3>4, <3>5
  <2>2. ASSUME NEW d \in Consumers PROVE running' = d <=> stage'[d] \in {"rules", "actions"}
    <3>1. stage[d] \notin {"rules", "actions"} /\ d # NoTask
      BY <1>2, ConstantFacts DEF IInv, Types
    <3>2. CASE d = c
      BY <1>5, <3>1, <3>2 DEF IInv, Types
    <3>3. CASE d # c
      BY <1>5, <3>1, <3>3 DEF IInv, Types
    <3> QED BY <3>2, <3>3
  <2>3. number' \in [Consumers -> 0 .. begun'] /\ event' \in [Consumers -> Events \cup {None}]
    BY <1>1, <1>2, <1>4 DEF IInv, Types
  <2>4. begun' \in Nat /\ begun' <= MaxEvents
    BY <1>2
  <2> QED BY <1>2, <1>3, <1>4, <2>1, <2>2, <2>3, <2>4 DEF IInv, Types, traces
<1>7. /\ outcome[n] = "none" /\ Untouched(files[n], evaluated[n], matched[n], attempted[n])
      /\ \A d \in Consumers : stage[d] # "idle" => number[d] # n
  BY <1>1, <1>2 DEF IInv, Numbers
<1>8. \A d \in Consumers \ {c} : /\ stage'[d] = stage[d] /\ number'[d] = number[d]
                                /\ event'[d] = event[d] /\ using'[d] = using[d]
                                /\ rule'[d] = rule[d] /\ action'[d] = action[d]
  BY <1>4, <1>5 DEF IInv, Types
<1>9. /\ number'[c] = n /\ event'[c] = e
      /\ \/ stage'[c] = "enrich"
         \/ stage'[c] = "rules" /\ using'[c] = engine /\ rule'[c] = 1 /\ action'[c] = 1
      /\ outcome'[n] = "running" /\ \A m \in 1 .. MaxEvents : m # n => outcome'[m] = outcome[m]
  BY <1>2, <1>4, <1>5 DEF IInv, Types
<1>10. Numbers'
  <2>1. ASSUME NEW d \in Consumers, stage'[d] # "idle"
        PROVE  number'[d] \in 1 .. begun' /\ outcome'[number'[d]] = "running"
    <3>1. CASE d = c
      BY <1>2, <1>9, <3>1
    <3>2. CASE d # c
      <4>1. number[d] \in 1 .. begun /\ number[d] \in 1 .. MaxEvents /\ outcome[number[d]] = "running"
        BY <1>8, <2>1, <3>2, TaskFacts
      <4> QED BY <1>1, <1>2, <1>7, <1>8, <1>9, <2>1, <3>2, <4>1
    <3> QED BY <3>1, <3>2
  <2>2. \A d, g \in Consumers :
          stage'[d] # "idle" /\ stage'[g] # "idle" /\ number'[d] = number'[g] => d = g
    BY <1>7, <1>8, <1>9 DEF IInv, Numbers
  <2>3. \A m \in 1 .. MaxEvents : m > begun' =>
          outcome'[m] = "none" /\ Untouched(files'[m], evaluated'[m], matched'[m], attempted'[m])
    BY <1>1, <1>2, <1>4, <1>9 DEF IInv, Numbers, traces
  <2> QED BY <2>1, <2>2, <2>3 DEF Numbers
<1>11. ASSUME NEW d \in Consumers PROVE TaskAt(d)'
  <2>1. CASE d = c
    <3>1. engine \in DOMAIN RuleFiles
      BY DEF IInv, Types
    <3>2. Busy("rules", engine, 1, 1, files[n], evaluated[n], matched[n], attempted[n])
      BY <1>7, <3>1, BusyStarts DEF Untouched
    <3> QED BY <1>4, <1>7, <1>9, <2>1, <3>2 DEF TaskAt, Task, traces
  <2>2. CASE d # c
    BY <1>4, <1>8, <2>2 DEF IInv, TaskAt, traces
  <2> QED BY <2>1, <2>2
<1>12. ASSUME NEW m \in 1 .. MaxEvents PROVE EventAt(m)'
  <2>1. CASE m = n
    BY <1>4, <1>7, <1>9, <2>1 DEF EventAt, Event, Untouched, traces
  <2>2. CASE m # n
    BY <1>4, <1>9, <2>2 DEF IInv, EventAt, traces
  <2> QED BY <2>1, <2>2
<1>13. Windows'
  BY <1>3, <1>4 DEF IInv, Windows, Fitting, Distinct, Traced, traces
<1> QED BY <1>6, <1>10, <1>11, <1>12, <1>13 DEF IInv

-----------------------------------------------------------------------------
(* The thresholds.                                                         *)

\* One more evaluation.
LEMMA CountedAppends ==
    ASSUME NEW E \in Seq(Evaluation), NEW new \in Evaluation, NEW k, NEW x \in Int
    PROVE  LET F == Append(E, new)
               c == Cardinality(Counted(E, k, x, Len(E)))
           IN  /\ c \in Nat
               /\ \A i \in DOMAIN E : F[i] = E[i] /\ Counted(F, k, x, i) = Counted(E, k, x, i)
               /\ Cardinality(Counted(F, k, x, Len(F))) =
                    IF new.threshold.key = k /\ new.at >= x THEN c + 1 ELSE c
<1> DEFINE n == Len(E)
           F == Append(E, new)
<1>1. /\ n \in Nat /\ DOMAIN E = 1 .. n /\ Len(F) = n + 1 /\ F[n + 1] = new
      /\ \A i \in 1 .. n : F[i] = E[i]
  BY LenProperties
<1> HIDE DEF n, F
<1>2. \A i \in 1 .. n : Counted(F, k, x, i) = Counted(E, k, x, i)
  BY <1>1 DEF Counted
<1>3. IsFiniteSet(Counted(E, k, x, n)) /\ n + 1 \notin Counted(E, k, x, n)
  <2>1. IsFiniteSet(1 .. n) /\ Counted(E, k, x, n) \in SUBSET (1 .. n)
    BY <1>1, FS_Interval DEF Counted
  <2> QED BY <1>1, <2>1, FS_Subset
<1>4. Cardinality(Counted(E, k, x, n)) \in Nat
  BY <1>3, FS_CardinalityType
<1>5. CASE new.threshold.key = k /\ new.at >= x
  <2>1. Counted(F, k, x, n + 1) = Counted(E, k, x, n) \cup {n + 1}
    BY <1>1, <1>5 DEF Counted
  <2>2. Cardinality(Counted(E, k, x, n) \cup {n + 1}) = Cardinality(Counted(E, k, x, n)) + 1
    BY <1>3, FS_AddElement
  <2> QED BY <1>1, <1>2, <1>4, <1>5, <2>1, <2>2 DEF n, F
<1>6. CASE ~(new.threshold.key = k /\ new.at >= x)
  <2>1. Counted(F, k, x, n + 1) = Counted(E, k, x, n)
    BY <1>1, <1>6 DEF Counted
  <2> QED BY <1>1, <1>2, <1>4, <1>6, <2>1 DEF n, F
<1> QED BY <1>5, <1>6

LEMMA ThresholdFits ==
    ASSUME NEW t0 \in Nat, NEW w \in [WindowKeys -> Seq(0 .. t0)], NEW E \in Seq(Evaluation),
           Fitting(w, E, t0), NEW c \in Thresholds, NEW k \in WindowKeys, k[1] = c.field,
           NEW n \in 1 .. MaxEvents
    PROVE  LET times == Recorded(w[k], t0, c.window)
               fires == Len(times) >= c.count
               new == [threshold |-> [cond |-> c, key |-> k, fires |-> fires], n |-> n, at |-> t0]
           IN  /\ times \in Seq(0 .. t0)
               /\ new \in Evaluation
               /\ Fitting([w EXCEPT ![k] = times], Append(E, new), t0)
<1> DEFINE times == Recorded(w[k], t0, c.window)
           fires == Len(times) >= c.count
           new == [threshold |-> [cond |-> c, key |-> k, fires |-> fires], n |-> n, at |-> t0]
           v == [w EXCEPT ![k] = times]
           F == Append(E, new)
           plus(x) == IF t0 >= x THEN 1 ELSE 0
<1>1. c.window \in Int /\ c.count \in Int /\ t0 - c.window \in Int
  BY ThresholdNumbers
<1>2. /\ times \in Seq(0 .. t0) /\ IsSorted(times)
      /\ Len(times) = Cardinality(Since(w[k], t0 - c.window)) + plus(t0 - c.window)
      /\ \A x \in Int : x >= t0 - c.window =>
           Cardinality(Since(times, x)) = Cardinality(Since(w[k], x)) + plus(x)
  <2> DEFINE old == w[k]
  <2>1. old \in Seq(0 .. t0) /\ IsSorted(old)
    BY DEF Fitting, WindowsSorted
  <2>2. 0 .. t0 \in SUBSET Int /\ t0 \in 0 .. t0
    OBVIOUS
  <2>3. \A i \in DOMAIN old : old[i] <= t0
    <3> HIDE DEF old
    <3>1. DOMAIN old = 1 .. Len(old) /\ \A i \in 1 .. Len(old) : old[i] \in 0 .. t0
      BY <2>1, <2>2, SequenceOfNumbers
    <3> QED BY <3>1
  <2> HIDE DEF old
  <2>4. /\ Recorded(old, t0, c.window) \in Seq(0 .. t0) /\ IsSorted(Recorded(old, t0, c.window))
        /\ CountsWindow(Recorded(old, t0, c.window), old, t0, c.window)
    BY <1>1, <2>1, <2>2, <2>3, RecordedKeeps
  <2> QED BY <2>4 DEF old, CountsWindow, Newer
<1>3. new \in Evaluation
  BY DEF Evaluation, Entry
<1>4. /\ new.threshold.key = k /\ new.threshold.cond = c /\ new.at = t0
      /\ new.threshold.fires = fires
  OBVIOUS
<1> HIDE DEF times, new
<1>5. v[k] = times /\ \A l \in WindowKeys : l # k => v[l] = w[l]
  OBVIOUS
<1>6. DOMAIN v = WindowKeys
  OBVIOUS
<1> HIDE DEF v, F
<1>7. /\ Len(E) \in Nat /\ DOMAIN E = 1 .. Len(E) /\ DOMAIN F = 1 .. Len(E) + 1
      /\ Len(F) = Len(E) + 1 /\ F[Len(E) + 1] = new
  BY <1>3, LenProperties DEF F
<1>8. ASSUME NEW l, NEW x \in Int
      PROVE  /\ Cardinality(Counted(E, l, x, Len(E))) \in Nat
             /\ \A i \in DOMAIN E : F[i] = E[i] /\ Counted(F, l, x, i) = Counted(E, l, x, i)
             /\ Cardinality(Counted(F, l, x, Len(F))) =
                  Cardinality(Counted(E, l, x, Len(E))) + (IF l = k THEN plus(x) ELSE 0)
  <2>1. LET c0 == Cardinality(Counted(E, l, x, Len(E)))
        IN  /\ c0 \in Nat
            /\ \A i \in DOMAIN E : F[i] = E[i] /\ Counted(F, l, x, i) = Counted(E, l, x, i)
            /\ Cardinality(Counted(F, l, x, Len(F))) =
                 IF new.threshold.key = l /\ new.at >= x THEN c0 + 1 ELSE c0
    BY <1>3, CountedAppends DEF F
  <2> QED BY <1>4, <2>1
<1>9. WindowsSorted(v)
  BY <1>2, <1>5, <1>6 DEF Fitting, WindowsSorted
<1>10. WindowsExact(v, F, t0)
  <2> SUFFICES ASSUME NEW l \in WindowKeys, NEW t \in NarrowThresholds, NEW x \in Int,
                      t.field = l[1], x >= t0 - t.window
               PROVE  Cardinality(Since(v[l], x)) = Cardinality(Counted(F, l, x, Len(F)))
    BY DEF WindowsExact
  <2>1. Cardinality(Since(w[l], x)) = Cardinality(Counted(E, l, x, Len(E)))
    BY DEF Fitting, WindowsExact
  <2>2. CASE l = k
    <3>1. t.window <= c.window /\ t.window \in Int
      BY <2>2, ThresholdNumbers DEF NarrowThresholds, Rivals
    <3>2. x >= t0 - c.window
      BY <1>1, <3>1
    <3>3. Cardinality(Since(times, x)) = Cardinality(Since(w[k], x)) + plus(x)
      BY <1>2, <3>2
    <3> QED BY <1>5, <1>8, <2>1, <2>2, <3>3
  <2>3. CASE l # k
    BY <1>5, <1>8, <2>1, <2>3
  <2> QED BY <2>2, <2>3
<1>11. FiresExact(F)
  <2> SUFFICES ASSUME NEW i \in DOMAIN F, F[i].threshold.cond \in NarrowThresholds
               PROVE  F[i].threshold.fires <=>
                        Cardinality(Counted(F, F[i].threshold.key, F[i].at - F[i].threshold.cond.window, i))
                          >= F[i].threshold.cond.count
    BY DEF FiresExact
  <2>1. CASE i \in DOMAIN E
    <3> DEFINE x == E[i].at - E[i].threshold.cond.window
    <3>1. F[i] = E[i]
      <4>1. 0 \in Int
        OBVIOUS
      <4> QED BY <1>8, <2>1, <4>1
    <3>2. E[i] \in Evaluation
      BY <1>7, <2>1, LenProperties
    <3>3. x \in Int
      <4>1. E[i].at \in Int /\ E[i].threshold.cond \in Thresholds
        BY <3>2 DEF Evaluation, Entry
      <4> QED BY <4>1, ThresholdNumbers
    <3> HIDE DEF x
    <3>4. Counted(F, E[i].threshold.key, x, i) = Counted(E, E[i].threshold.key, x, i)
      BY <1>8, <2>1, <3>3
    <3>5. E[i].threshold.fires <=>
            Cardinality(Counted(E, E[i].threshold.key, x, i)) >= E[i].threshold.cond.count
      BY <2>1, <3>1 DEF Fitting, FiresExact, x
    <3> QED BY <3>1, <3>4, <3>5 DEF x
  <2>2. CASE i \notin DOMAIN E
    <3>1. i = Len(E) + 1 /\ i = Len(F) /\ F[i] = new
      BY <1>7, <2>2
    <3>2. c \in NarrowThresholds
      BY <1>4, <3>1
    <3>3. Cardinality(Since(w[k], t0 - c.window)) = Cardinality(Counted(E, k, t0 - c.window, Len(E)))
      BY <1>1, <3>2 DEF Fitting, WindowsExact
    <3>4. Cardinality(Counted(F, k, t0 - c.window, Len(F))) = Len(times)
      BY <1>1, <1>2, <1>8, <3>3
    <3>5. fires <=> Cardinality(Counted(F, k, t0 - c.window, Len(F))) >= c.count
      BY <3>4
    <3> QED BY <1>4, <3>1, <3>5
  <2> QED BY <2>1, <2>2
<1>12. KeysFit(F)
  <2> SUFFICES ASSUME NEW i \in DOMAIN F PROVE F[i].threshold.key[1] = F[i].threshold.cond.field
    BY DEF KeysFit
  <2>1. CASE i \in DOMAIN E
    <3>1. F[i] = E[i]
      <4>1. 0 \in Int
        OBVIOUS
      <4> QED BY <1>8, <2>1, <4>1
    <3> QED BY <2>1, <3>1 DEF Fitting, KeysFit
  <2>2. CASE i \notin DOMAIN E
    <3>1. F[i] = new
      BY <1>7, <2>2
    <3> QED BY <1>4, <3>1
  <2> QED BY <2>1, <2>2
<1>13. Fitting(v, F, t0)
  BY <1>9, <1>10, <1>11, <1>12 DEF Fitting
<1> QED BY <1>2, <1>3, <1>13 DEF times, new, v, F

\* The evaluations that a log of event n at time t0 stands for.
Stamped(log, n, t0) == [i \in DOMAIN log |-> [threshold |-> log[i], n |-> n, at |-> t0]]

LEMMA StampedFacts ==
    ASSUME NEW log \in Seq(Entry), NEW n \in 1 .. MaxEvents, NEW t0 \in Nat
    PROVE  /\ Len(log) \in Nat /\ DOMAIN log = 1 .. Len(log)
           /\ Stamped(log, n, t0) \in Seq(Evaluation) /\ Len(Stamped(log, n, t0)) = Len(log)
           /\ \A i \in 1 .. Len(log) : /\ log[i] \in Entry
                                       /\ Stamped(log, n, t0)[i].threshold = log[i]
                                       /\ Stamped(log, n, t0)[i].n = n
<1>1. Len(log) \in Nat /\ DOMAIN log = 1 .. Len(log) /\ \A i \in 1 .. Len(log) : log[i] \in Entry
  BY LenProperties
<1>2. \A i \in 1 .. Len(log) : [threshold |-> log[i], n |-> n, at |-> t0] \in Evaluation
  BY <1>1 DEF Evaluation
<1> QED BY <1>1, <1>2 DEF Stamped

LEMMA StampedAppends ==
    ASSUME NEW E \in Seq(Evaluation), NEW log \in Seq(Entry), NEW l \in Entry,
           NEW n \in 1 .. MaxEvents, NEW t0 \in Nat
    PROVE  E \o Stamped(Append(log, l), n, t0) =
             Append(E \o Stamped(log, n, t0), [threshold |-> l, n |-> n, at |-> t0])
<1> DEFINE new == [threshold |-> l, n |-> n, at |-> t0]
           old == Stamped(log, n, t0)
           longer == Append(log, l)
<1>1. new \in Evaluation
  BY DEF Evaluation
<1>2. /\ Len(log) \in Nat /\ DOMAIN log = 1 .. Len(log)
      /\ old \in Seq(Evaluation) /\ Len(old) = Len(log)
      /\ \A i \in 1 .. Len(log) : old[i] = [threshold |-> log[i], n |-> n, at |-> t0]
  BY StampedFacts DEF Stamped
<1>3. /\ longer \in Seq(Entry) /\ Len(longer) = Len(log) + 1 /\ DOMAIN longer = 1 .. Len(log) + 1
      /\ longer[Len(log) + 1] = l /\ \A i \in 1 .. Len(log) : longer[i] = log[i]
  BY <1>2
<1> HIDE DEF longer
<1>4. /\ Stamped(longer, n, t0) \in Seq(Evaluation)
      /\ Len(Stamped(longer, n, t0)) = Len(log) + 1
      /\ \A i \in 1 .. Len(log) + 1 :
           Stamped(longer, n, t0)[i] = [threshold |-> longer[i], n |-> n, at |-> t0]
  <2>1. /\ Stamped(longer, n, t0) \in Seq(Evaluation)
        /\ Len(Stamped(longer, n, t0)) = Len(longer)
    <3> HIDE DEF Stamped
    <3> QED BY <1>3, StampedFacts
  <2>2. \A i \in DOMAIN longer : Stamped(longer, n, t0)[i] = [threshold |-> longer[i], n |-> n, at |-> t0]
    BY DEF Stamped
  <2> QED BY <1>3, <2>1, <2>2
<1>5. Stamped(longer, n, t0) = Append(old, new)
  <2> HIDE DEF old, new
  <2>1. /\ Append(old, new) \in Seq(Evaluation) /\ Len(Append(old, new)) = Len(log) + 1
        /\ Append(old, new)[Len(log) + 1] = new
        /\ \A i \in 1 .. Len(log) : Append(old, new)[i] = old[i]
    BY <1>1, <1>2
  <2>2. \A i \in 1 .. Len(log) + 1 : Stamped(longer, n, t0)[i] = Append(old, new)[i]
    <3> TAKE i \in 1 .. Len(log) + 1
    <3>1. CASE i = Len(log) + 1
      BY <1>3, <1>4, <2>1, <3>1 DEF new
    <3>2. CASE i # Len(log) + 1
      <4>1. i \in 1 .. Len(log)
        BY <1>2, <3>2
      <4> QED BY <1>2, <1>3, <1>4, <2>1, <4>1
    <3> QED BY <3>1, <3>2
  <2> HIDE DEF Stamped
  <2> QED BY <1>4, <2>1, <2>2, SeqEqual
<1>6. E \o Append(old, new) = Append(E \o old, new)
  <2> HIDE DEF old, new
  <2> QED BY <1>1, <1>2
<1> QED BY <1>5, <1>6 DEF longer

\* The results that may stand after places A of rule r: they fit the windows, the
\* thresholds in the log stand in those places, and only the rule makes it raise.
Result(t0) == [holds : BOOLEAN, raised : BOOLEAN,
               windows : [WindowKeys -> Seq(0 .. t0)], log : Seq(Entry)]

LoggedAt(r, log, A) ==
    /\ \A i \in DOMAIN log : \E p \in A : ListOf(r, p[1])[p[2]] = log[i].cond
    /\ \A i, j \in DOMAIN log :
         log[i].cond = log[j].cond /\ log[i].cond \in UniqueThresholds => i = j

Good(r, E, n, t0, A) ==
    {s \in Result(t0) :
        /\ s.raised => MayRaise(r)
        /\ Fitting(s.windows, E \o Stamped(s.log, n, t0), t0)
        /\ LoggedAt(r, s.log, A)}

LEMMA LogAppends ==
    ASSUME NEW f \in DOMAIN RuleFiles, NEW i \in DOMAIN RuleFiles[f],
           NEW A \in SUBSET PlacesOf(RuleFiles[f][i]), NEW p \in PlacesOf(RuleFiles[f][i]), p \notin A,
           NEW log \in Seq(Entry), LoggedAt(RuleFiles[f][i], log, A),
           NEW l \in Entry, l.cond = ListOf(RuleFiles[f][i], p[1])[p[2]]
    PROVE  LoggedAt(RuleFiles[f][i], Append(log, l), A \cup {p})
<1> DEFINE r == RuleFiles[f][i]
           longer == Append(log, l)
           m == Len(log)
<1>1. /\ m \in Nat /\ DOMAIN log = 1 .. m /\ DOMAIN longer = 1 .. m + 1
      /\ longer[m + 1] = l /\ \A j \in 1 .. m : longer[j] = log[j]
  BY LenProperties
<1> HIDE DEF longer, m
<1>2. \A j \in DOMAIN longer : \E q \in A \cup {p} : ListOf(r, q[1])[q[2]] = longer[j].cond
  <2> TAKE j \in DOMAIN longer
  <2>1. CASE j = m + 1
    BY <1>1, <2>1
  <2>2. CASE j # m + 1
    <3>1. j \in 1 .. m
      BY <1>1, <2>2
    <3> QED BY <1>1, <3>1 DEF LoggedAt
  <2> QED BY <2>1, <2>2
<1>3. ASSUME NEW j \in 1 .. m, log[j].cond = l.cond
      PROVE  l.cond \notin UniqueThresholds
  <2>1. PICK q \in A : ListOf(r, q[1])[q[2]] = log[j].cond
    BY <1>1 DEF LoggedAt
  <2>2. q \in PlacesOf(r) /\ q # p
    OBVIOUS
  <2>3. <<i, q>> \in Places(f, l.cond) /\ <<i, p>> \in Places(f, l.cond)
    BY <1>3, <2>1, <2>2 DEF Places
  <2> QED BY <2>2, <2>3 DEF UniqueThresholds
<1>4. ASSUME NEW j \in 1 .. m + 1, NEW k \in 1 .. m + 1,
             longer[j].cond = longer[k].cond, longer[j].cond \in UniqueThresholds
      PROVE  j = k
  <2>1. j \in 1 .. m \/ j = m + 1
    BY <1>1
  <2>2. k \in 1 .. m \/ k = m + 1
    BY <1>1
  <2>3. j \in 1 .. m /\ k \in 1 .. m => j = k
    BY <1>1, <1>4 DEF LoggedAt
  <2> QED BY <1>1, <1>3, <1>4, <2>1, <2>2, <2>3
<1> QED BY <1>1, <1>2, <1>4 DEF LoggedAt, longer

LEMMA GoodHolds ==
    ASSUME NEW r, NEW E, NEW n, NEW t0, NEW A, NEW s \in Good(r, E, n, t0, A), NEW h \in BOOLEAN
    PROVE  Holding(s, h) \in Good(r, E, n, t0, A)
<1>1. s \in Result(t0)
  BY DEF Good
<1>2. /\ Holding(s, h) \in Result(t0) /\ Holding(s, h).raised = s.raised
      /\ Holding(s, h).windows = s.windows /\ Holding(s, h).log = s.log
  BY <1>1 DEF Holding, Result
<1> QED BY <1>2 DEF Good

LEMMA GoodGrows ==
    ASSUME NEW r, NEW E, NEW n, NEW t0, NEW A, NEW B, A \subseteq B
    PROVE  Good(r, E, n, t0, A) \subseteq Good(r, E, n, t0, B)
<1>1. \A log : LoggedAt(r, log, A) => LoggedAt(r, log, B)
  BY DEF LoggedAt
<1> QED BY <1>1 DEF Good

LEMMA CompareIsGood ==
    ASSUME NEW r, NEW E, NEW n, NEW t0, NEW A, NEW s \in Good(r, E, n, t0, A),
           NEW e, NEW c, c \in ConditionsOf(r), c.op = "compare"
    PROVE  EvalCompare(c, e, s) \in Good(r, E, n, t0, A)
<1> DEFINE value == GetField(e, c.field)
           new == EvalCompare(c, e, s)
<1>1. s \in Result(t0)
  BY DEF Good
<1>2. /\ new \in Result(t0) /\ new.raised = (value \in c.raises)
      /\ new.windows = s.windows /\ new.log = s.log
  <2>1. ASSUME NEW h \in BOOLEAN, NEW x \in BOOLEAN
        PROVE  LET t == [s EXCEPT !.holds = h, !.raised = x]
               IN  t \in Result(t0) /\ t.raised = x /\ t.windows = s.windows /\ t.log = s.log
    BY <1>1 DEF Result
  <2>2. (value \in c.accepts) \in BOOLEAN /\ (value \in c.raises) \in BOOLEAN
    OBVIOUS
  <2>3. new = [s EXCEPT !.holds = value \in c.accepts, !.raised = value \in c.raises]
    BY DEF EvalCompare
  <2> HIDE DEF value, new
  <2> QED BY <2>1, <2>2, <2>3
<1>3. new.raised => MayRaise(r)
  BY <1>2 DEF MayRaise
<1> HIDE DEF new
<1> QED BY <1>2, <1>3 DEF Good, new

LEMMA UnknownIsGood ==
    ASSUME NEW r, NEW E, NEW n, NEW t0, NEW A, NEW s \in Good(r, E, n, t0, A),
           NEW c, c \in ConditionsOf(r), c.op = "unknown"
    PROVE  [s EXCEPT !.raised = TRUE] \in Good(r, E, n, t0, A)
<1> DEFINE new == [s EXCEPT !.raised = TRUE]
<1>1. s \in Result(t0)
  BY DEF Good
<1>2. new \in Result(t0) /\ new.windows = s.windows /\ new.log = s.log
  BY <1>1 DEF Result
<1>3. MayRaise(r)
  BY DEF MayRaise
<1> HIDE DEF new
<1> QED BY <1>2, <1>3 DEF Good, new

LEMMA ThresholdIsGood ==
    ASSUME NEW f \in DOMAIN RuleFiles, NEW i \in DOMAIN RuleFiles[f], NEW e \in Events,
           NEW E \in Seq(Evaluation), NEW n \in 1 .. MaxEvents, NEW t0 \in Nat,
           NEW A \in SUBSET PlacesOf(RuleFiles[f][i]), NEW p \in PlacesOf(RuleFiles[f][i]), p \notin A,
           NEW s \in Good(RuleFiles[f][i], E, n, t0, A),
           NEW c, c = ListOf(RuleFiles[f][i], p[1])[p[2]], c.op = "threshold"
    PROVE  EvalThreshold(c, e, t0, s) \in Good(RuleFiles[f][i], E, n, t0, A \cup {p})
<1> DEFINE r == RuleFiles[f][i]
           key == <<c.field, GetField(e, c.key_field)>>
           times == Recorded(s.windows[key], t0, c.window)
           fires == Len(times) >= c.count
           entry == [cond |-> c, key |-> key, fires |-> fires]
           new == EvalThreshold(c, e, t0, s)
           v == [s.windows EXCEPT ![key] = times]
           longer == Append(s.log, entry)
<1>1. /\ s \in Result(t0) /\ s.windows \in [WindowKeys -> Seq(0 .. t0)] /\ s.log \in Seq(Entry)
      /\ s.raised => MayRaise(r)
      /\ Fitting(s.windows, E \o Stamped(s.log, n, t0), t0)
      /\ LoggedAt(r, s.log, A)
  BY DEF Good, Result
<1>2. c \in Thresholds
  <2>1. c \in ThresholdsOf(r)
    BY DEF ThresholdsOf, ConditionsOf
  <2> QED BY <2>1, ThresholdFacts
<1>3. key \in WindowKeys /\ key[1] = c.field
  BY <1>2 DEF WindowKeys
<1>4. Stamped(s.log, n, t0) \in Seq(Evaluation) /\ E \o Stamped(s.log, n, t0) \in Seq(Evaluation)
  <2>1. Stamped(s.log, n, t0) \in Seq(Evaluation)
    BY <1>1, StampedFacts
  <2> QED BY <2>1, ConcatProperties
<1>5. /\ times \in Seq(0 .. t0)
      /\ [threshold |-> entry, n |-> n, at |-> t0] \in Evaluation
      /\ Fitting(v, Append(E \o Stamped(s.log, n, t0), [threshold |-> entry, n |-> n, at |-> t0]), t0)
  <2> HIDE DEF key
  <2> QED BY <1>1, <1>2, <1>3, <1>4, ThresholdFits
<1>6. entry \in Entry /\ entry.cond = c
  BY <1>2, <1>3 DEF Entry
<1>7. E \o Stamped(longer, n, t0) = Append(E \o Stamped(s.log, n, t0), [threshold |-> entry, n |-> n, at |-> t0])
  <2> HIDE DEF entry
  <2> QED BY <1>1, <1>6, StampedAppends
<1>8. LoggedAt(r, longer, A \cup {p})
  <2> HIDE DEF entry
  <2> QED BY <1>1, <1>6, LogAppends
<1>9. new = [s EXCEPT !.holds = fires, !.windows = v, !.log = longer]
  BY <1>1 DEF EvalThreshold, Result
<1>10. longer \in Seq(Entry) /\ v \in [WindowKeys -> Seq(0 .. t0)] /\ fires \in BOOLEAN
  <2> HIDE DEF entry, times, key
  <2>1. longer \in Seq(Entry)
    BY <1>1, <1>6, AppendProperties
  <2>2. v \in [WindowKeys -> Seq(0 .. t0)]
    BY <1>1, <1>5
  <2> QED BY <2>1, <2>2
<1> HIDE DEF longer, v, fires, new
<1>11. /\ new \in Result(t0) /\ new.raised = s.raised /\ new.windows = v /\ new.log = longer
  BY <1>1, <1>9, <1>10 DEF Result
<1>12. Fitting(v, E \o Stamped(longer, n, t0), t0)
  BY <1>5, <1>7
<1>13. new \in Good(r, E, n, t0, A \cup {p})
  BY <1>1, <1>8, <1>11, <1>12 DEF Good
<1> QED BY <1>13 DEF new

LEMMA GoodIsInvariant ==
    ASSUME NEW f \in DOMAIN RuleFiles, NEW i \in DOMAIN RuleFiles[f], NEW e \in Events,
           NEW E \in Seq(Evaluation), NEW n \in 1 .. MaxEvents, NEW t0 \in Nat
    PROVE  IsInvariant(RuleFiles[f][i], e, t0,
                       [A \in SUBSET PlacesOf(RuleFiles[f][i]) |-> Good(RuleFiles[f][i], E, n, t0, A)])
<1> DEFINE r == RuleFiles[f][i]
           G(A) == Good(r, E, n, t0, A)
<1>1. ASSUME NEW A \in SUBSET PlacesOf(r), NEW s \in G(A), NEW h \in BOOLEAN
      PROVE  Holding(s, h) \in G(A)
  BY GoodHolds
<1>2. ASSUME NEW A \in SUBSET PlacesOf(r), NEW B \in SUBSET PlacesOf(r), A \subseteq B
      PROVE  G(A) \subseteq G(B)
  BY <1>2, GoodGrows
<1>3. ASSUME NEW A \in SUBSET PlacesOf(r), NEW p \in PlacesOf(r), p \notin A, NEW s \in G(A)
      PROVE  EvalCondition(ListOf(r, p[1])[p[2]], e, t0, s) \in G(A \cup {p})
  <2>1. PICK c : c = ListOf(r, p[1])[p[2]]
    OBVIOUS
  <2>2. c \in ConditionsOf(r) /\ c.op \in {"compare", "threshold", "unknown"}
    <3>1. IsRule(r)
      BY FileFacts
    <3>2. c \in ConditionsOf(r)
      BY <2>1 DEF ConditionsOf
    <3> QED BY <3>1, <3>2 DEF IsRule, IsCondition
  <2>3. G(A) \subseteq G(A \cup {p})
    BY GoodGrows
  <2>4. CASE c.op = "compare"
    <3>1. EvalCondition(c, e, t0, s) = EvalCompare(c, e, s)
      BY <2>4 DEF EvalCondition
    <3> QED BY <2>1, <2>2, <2>3, <2>4, <3>1, CompareIsGood
  <2>5. CASE c.op = "threshold"
    <3>1. EvalCondition(c, e, t0, s) = EvalThreshold(c, e, t0, s)
      BY <2>5 DEF EvalCondition
    <3>2. EvalThreshold(c, e, t0, s) \in G(A \cup {p})
      BY <1>3, <2>1, <2>5, ThresholdIsGood
    <3> QED BY <2>1, <3>1, <3>2
  <2>6. CASE c.op = "unknown"
    <3>1. EvalCondition(c, e, t0, s) = [s EXCEPT !.raised = TRUE]
      BY <2>6 DEF EvalCondition
    <3> QED BY <2>1, <2>2, <2>3, <2>6, <3>1, UnknownIsGood
  <2> QED BY <2>2, <2>4, <2>5, <2>6
<1> HIDE DEF G
<1>4. \A A, B \in SUBSET PlacesOf(r) : A \subseteq B => G(A) \subseteq G(B)
  BY <1>2
<1>5. \A A \in SUBSET PlacesOf(r), p \in PlacesOf(r) : A \cup {p} \in SUBSET PlacesOf(r)
  OBVIOUS
<1> QED BY <1>1, <1>4, <1>3, <1>5 DEF IsInvariant, G

\* What matching a rule comes to.
LEMMA MatchIsGood ==
    ASSUME NEW f \in DOMAIN RuleFiles, NEW i \in DOMAIN RuleFiles[f], NEW e \in Events,
           NEW E \in Seq(Evaluation), NEW n \in 1 .. MaxEvents, NEW t0 \in Nat,
           NEW w \in [WindowKeys -> Seq(0 .. t0)], Fitting(w, E, t0)
    PROVE  Match(RuleFiles[f][i], e, t0, w)
             \in Good(RuleFiles[f][i], E, n, t0, PlacesOf(RuleFiles[f][i]))
<1> DEFINE r == RuleFiles[f][i]
           Q == [A \in SUBSET PlacesOf(r) |-> Good(r, E, n, t0, A)]
<1>1. IsInvariant(r, e, t0, Q)
  BY GoodIsInvariant
<1>2. Fresh(w) \in Good(r, E, n, t0, {})
  <2>1. <<>> \in Seq(Entry) /\ Stamped(<<>>, n, t0) = <<>>
    BY DEF Stamped
  <2>2. E \o Stamped(<<>>, n, t0) = E
    BY <2>1, ConcatEmptySeq
  <2>3. LoggedAt(r, <<>>, {})
    BY DEF LoggedAt
  <2> QED BY <2>1, <2>2, <2>3 DEF Fresh, Good, Result
<1>3. Fresh(w) \in Q[{}]
  BY <1>2
<1>4. IsRule(r)
  BY FileFacts
<1>5. Match(r, e, t0, w) \in Q[PlacesOf(r)]
  <2> HIDE DEF Q, r
  <2> QED BY <1>1, <1>3, <1>4, MatchStays
<1> QED BY <1>5

-----------------------------------------------------------------------------
(* A rule is matched.                                                      *)

\* Task c matches rule i of file f against event n, which comes to m.
Evaluates(c, f, i, n, m) ==
    /\ stage[c] = "rules" /\ running = c /\ event[c] \in Events /\ outcome[n] = "running"
    /\ n = number[c] /\ f = using[c] /\ i = rule[c] /\ action[c] \in Nat \ {0}
    /\ Active(RuleFiles[f][i])
    /\ Busy("rules", f, i, action[c], files[n], evaluated[n], matched[n], attempted[n])
    /\ windows' = m.windows
    /\ evaluated' = [evaluated EXCEPT ![n] = @ \cup {i}]
    /\ files' = [files EXCEPT ![n] = @ \cup {f}]
    /\ evaluations' = evaluations \o Stamped(m.log, n, now)
    /\ matched' = [matched EXCEPT ![n] = IF m.holds /\ ~m.raised THEN @ \cup {i} ELSE @]
    /\ \/ m.raised /\ End(c, "raised")
       \/ /\ ~m.raised /\ m.holds
          /\ stage' = [stage EXCEPT ![c] = "actions"]
          /\ UNCHANGED <<frame, rule, action, running, outcome>>
       \/ /\ ~m.raised /\ ~m.holds
          /\ NextRule(c)
          /\ UNCHANGED <<frame, running, outcome>>
    /\ UNCHANGED <<now, engine, baseline, bounds, attempted>>

LEMMA EvalRuleEvaluates ==
    ASSUME IInv, NEW c \in Consumers, EvalRule(c)
    PROVE  \E f \in DOMAIN RuleFiles : \E i \in DOMAIN RuleFiles[f], n \in 1 .. MaxEvents :
             \E m \in Good(RuleFiles[f][i], evaluations, n, now, PlacesOf(RuleFiles[f][i])) :
               Evaluates(c, f, i, n, m)
<1>1. PICK f : f = using[c]
  OBVIOUS
<1>2. PICK i : i = rule[c]
  OBVIOUS
<1>3. PICK n : n = number[c]
  OBVIOUS
<1>4. PICK m : m = Match(RuleFiles[f][i], event[c], now, windows)
  OBVIOUS
<1>5. stage[c] = "rules" /\ running = c /\ i <= Len(RuleFiles[f]) /\ Active(RuleFiles[f][i])
  BY <1>1, <1>2 DEF EvalRule, GeneratorFile
<1>6. /\ n \in 1 .. MaxEvents /\ outcome[n] = "running" /\ event[c] \in Events
      /\ f \in DOMAIN RuleFiles /\ i \in Nat \ {0} /\ action[c] \in Nat \ {0}
      /\ Busy("rules", f, i, action[c], files[n], evaluated[n], matched[n], attempted[n])
  BY <1>1, <1>2, <1>3, <1>5, TaskFacts
<1>7. i \in DOMAIN RuleFiles[f]
  BY <1>5, <1>6, FileFacts
<1>8. m \in Good(RuleFiles[f][i], evaluations, n, now, PlacesOf(RuleFiles[f][i]))
  <2>1. /\ now \in Nat /\ windows \in [WindowKeys -> Seq(0 .. now)] /\ evaluations \in Seq(Evaluation)
        /\ Fitting(windows, evaluations, now)
    BY DEF IInv, Types, Windows
  <2> QED BY <1>4, <1>6, <1>7, <2>1, MatchIsGood
<1>9. Evaluates(c, f, i, n, m)
  BY <1>1, <1>2, <1>3, <1>4, <1>5, <1>6 DEF EvalRule, GeneratorFile, Evaluates, Stamped
<1> QED BY <1>6, <1>7, <1>8, <1>9

LEMMA EvaluatesWindows ==
    ASSUME IInv, NEW c \in Consumers, NEW f \in DOMAIN RuleFiles, NEW i \in DOMAIN RuleFiles[f],
           NEW n \in 1 .. MaxEvents,
           NEW m \in Good(RuleFiles[f][i], evaluations, n, now, PlacesOf(RuleFiles[f][i])),
           Evaluates(c, f, i, n, m)
    PROVE  /\ windows' \in [WindowKeys -> Seq(0 .. now)]
           /\ evaluations' \in Seq(Evaluation)
           /\ Windows'
<1> DEFINE r == RuleFiles[f][i]
           E == evaluations
           S == Stamped(m.log, n, now)
           k == Len(evaluations)
           l == Len(m.log)
<1>1. /\ m \in Result(now) /\ m.windows \in [WindowKeys -> Seq(0 .. now)] /\ m.log \in Seq(Entry)
      /\ Fitting(m.windows, E \o S, now)
      /\ LoggedAt(r, m.log, PlacesOf(r))
  BY DEF Good, Result
<1>2. now \in Nat /\ E \in Seq(Evaluation)
  BY DEF IInv, Types
<1>3. /\ l \in Nat /\ DOMAIN m.log = 1 .. l /\ S \in Seq(Evaluation) /\ Len(S) = l
      /\ \A j \in 1 .. l : S[j].threshold = m.log[j] /\ S[j].n = n
  BY <1>1, <1>2, StampedFacts
<1>4. /\ windows' = m.windows /\ evaluations' = E \o S /\ now' = now /\ baseline' = baseline
      /\ evaluated' = [evaluated EXCEPT ![n] = @ \cup {i}]
      /\ files' = [files EXCEPT ![n] = @ \cup {f}]
  BY DEF Evaluates
<1> HIDE DEF S, l
<1>5. E \o S \in Seq(Evaluation)
  BY <1>2, <1>3, ConcatProperties
<1>6. /\ k \in Nat /\ DOMAIN E = 1 .. k /\ DOMAIN (E \o S) = 1 .. k + l
      /\ \A j \in 1 .. k : (E \o S)[j] = E[j]
      /\ \A j \in 1 .. l : (E \o S)[k + j] = S[j]
  <2>1. k \in Nat /\ DOMAIN E = 1 .. k
    BY <1>2, LenProperties
  <2>2. /\ E \o S \in Seq(Evaluation) /\ Len(E \o S) = k + l
        /\ \A j \in 1 .. k + l : (E \o S)[j] = IF j <= k THEN E[j] ELSE S[j - k]
    BY <1>2, <1>3, ConcatProperties
  <2>3. DOMAIN (E \o S) = 1 .. k + l
    BY <2>2, LenProperties
  <2> HIDE DEF E, k
  <2>4. \A j \in 1 .. k : (E \o S)[j] = E[j]
    BY <1>3, <2>1, <2>2
  <2>5. ASSUME NEW j \in 1 .. l PROVE (E \o S)[k + j] = S[j]
    <3>1. k + j \in 1 .. k + l /\ ~(k + j <= k) /\ (k + j) - k = j
      BY <1>3, <2>1
    <3> QED BY <2>2, <3>1
  <2> QED BY <2>1, <2>3, <2>4, <2>5
<1>7. \A j \in 1 .. k + l : j \in 1 .. k \/ \E h \in 1 .. l : j = k + h
  <2> TAKE j \in 1 .. k + l
  <2>1. CASE j <= k
    BY <1>6, <2>1
  <2>2. CASE j > k
    <3>1. j - k \in 1 .. l /\ j = k + (j - k)
      BY <1>3, <1>6, <2>2
    <3> QED BY <3>1
  <2> QED BY <1>3, <1>6, <2>1, <2>2
\* An older evaluation of the event was of another rule of the file.
<1>8. ASSUME NEW j \in 1 .. k, E[j].n = n, E[j].threshold.cond \in UniqueThresholds,
             NEW h \in 1 .. l, m.log[h].cond = E[j].threshold.cond
      PROVE  FALSE
  <2> DEFINE t == E[j].threshold.cond
  <2>1. PICK g \in files[n] : \E q \in Places(g, t) : q[1] \in evaluated[n]
    BY <1>6, <1>8 DEF IInv, Windows, Traced
  <2>2. g = f /\ \A x \in evaluated[n] : x < i
    <3>1. /\ files[n] \subseteq {f} /\ i \in 1 .. Len(RuleFiles[f]) /\ i \in Nat \ {0}
          /\ action[c] \in Nat \ {0}
          /\ Busy("rules", f, i, action[c], files[n], evaluated[n], matched[n], attempted[n])
      BY FileFacts DEF Evaluates, Busy
    <3>2. \A x \in evaluated[n] : x \in Nat /\ x < i
      <4>1. AtRule(f, i, evaluated[n], matched[n], attempted[n])
        BY <3>1, BusyAtRule
      <4> QED BY <4>1 DEF AtRule
    <3> QED BY <3>1, <3>2
  <2>3. PICK q \in Places(f, t) : q[1] < i
    BY <2>1, <2>2
  <2>4. PICK p \in PlacesOf(r) : ListOf(r, p[1])[p[2]] = t
    <3>1. \E p \in PlacesOf(r) : ListOf(r, p[1])[p[2]] = m.log[h].cond
      BY <1>1, <1>3 DEF LoggedAt
    <3>2. m.log[h].cond = t
      BY <1>8
    <3> HIDE DEF t
    <3> QED BY <3>1, <3>2
  <2>5. <<i, p>> \in Places(f, t)
    BY <2>4 DEF Places
  <2>6. q = <<i, p>>
    BY <1>8, <2>3, <2>5 DEF UniqueThresholds
  <2>7. i \in Int
    BY FileFacts
  <2> QED BY <2>3, <2>6, <2>7
<1>9. Distinct'
  <2> SUFFICES ASSUME NEW a \in 1 .. k + l, NEW b \in 1 .. k + l,
                      (E \o S)[a].threshold.cond = (E \o S)[b].threshold.cond,
                      (E \o S)[a].threshold.cond \in UniqueThresholds,
                      (E \o S)[a].n = (E \o S)[b].n
               PROVE  a = b
    BY <1>4, <1>6 DEF Distinct
  <2>1. CASE a \in 1 .. k /\ b \in 1 .. k
    BY <1>6, <2>1 DEF IInv, Windows, Distinct
  <2>2. ASSUME a \in 1 .. k, NEW h \in 1 .. l, b = k + h
        PROVE  FALSE
    BY <1>3, <1>6, <1>8, <2>2
  <2>3. ASSUME b \in 1 .. k, NEW h \in 1 .. l, a = k + h
        PROVE  FALSE
    BY <1>3, <1>6, <1>8, <2>3
  <2>4. ASSUME NEW g \in 1 .. l, NEW h \in 1 .. l, a = k + g, b = k + h
        PROVE  a = b
    <3>1. m.log[g].cond = m.log[h].cond /\ m.log[g].cond \in UniqueThresholds
      BY <1>3, <1>6, <2>4
    <3>2. g = h
      BY <1>1, <1>3, <3>1 DEF LoggedAt
    <3> QED BY <2>4, <3>2
  <2> QED BY <1>7, <2>1, <2>2, <2>3, <2>4
<1>10. Traced'
  <2> SUFFICES ASSUME NEW j \in 1 .. k + l
               PROVE  \E g \in files'[(E \o S)[j].n] :
                        \E q \in Places(g, (E \o S)[j].threshold.cond) :
                          q[1] \in evaluated'[(E \o S)[j].n]
    BY <1>4, <1>6 DEF Traced
  <2>1. /\ files'[n] = files[n] \cup {f} /\ evaluated'[n] = evaluated[n] \cup {i}
        /\ \A x \in 1 .. MaxEvents : files[x] \subseteq files'[x] /\ evaluated[x] \subseteq evaluated'[x]
    BY <1>4 DEF IInv, Types
  <2>2. CASE j \in 1 .. k
    <3>1. (E \o S)[j] = E[j] /\ E[j] \in Evaluation
      BY <1>2, <1>6, <2>2
    <3>2. E[j].n \in 1 .. MaxEvents
      BY <3>1 DEF Evaluation
    <3>3. \E g \in files[E[j].n] : \E q \in Places(g, E[j].threshold.cond) : q[1] \in evaluated[E[j].n]
      BY <1>6, <2>2 DEF IInv, Windows, Traced
    <3> QED BY <2>1, <3>1, <3>2, <3>3
  <2>3. ASSUME NEW h \in 1 .. l, j = k + h
        PROVE  \E g \in files'[(E \o S)[j].n] :
                        \E q \in Places(g, (E \o S)[j].threshold.cond) :
                          q[1] \in evaluated'[(E \o S)[j].n]
    <3>1. (E \o S)[j].n = n /\ (E \o S)[j].threshold = m.log[h]
      BY <1>3, <1>6, <2>3
    <3>2. PICK p \in PlacesOf(r) : ListOf(r, p[1])[p[2]] = m.log[h].cond
      BY <1>1, <1>3 DEF LoggedAt
    <3>3. <<i, p>> \in Places(f, m.log[h].cond)
      BY <3>2 DEF Places
    <3>4. f \in files'[n] /\ <<i, p>>[1] \in evaluated'[n]
      BY <2>1
    <3> QED BY <3>1, <3>3, <3>4
  <2> QED BY <1>7, <2>2, <2>3
<1>11. Fitting(windows, evaluations, now)' /\ WindowsSorted(baseline)'
  BY <1>1, <1>4 DEF IInv, Windows, S
<1> QED BY <1>1, <1>4, <1>5, <1>9, <1>10, <1>11 DEF Windows

LEMMA EvalRuleInv ==
    ASSUME IInv, NEW c \in Consumers, EvalRule(c)
    PROVE  IInv'
<1>1. PICK f \in DOMAIN RuleFiles : \E i \in DOMAIN RuleFiles[f], n \in 1 .. MaxEvents :
        \E m \in Good(RuleFiles[f][i], evaluations, n, now, PlacesOf(RuleFiles[f][i])) :
          Evaluates(c, f, i, n, m)
  BY EvalRuleEvaluates
<1> PICK i \in DOMAIN RuleFiles[f], n \in 1 .. MaxEvents :
        \E m \in Good(RuleFiles[f][i], evaluations, n, now, PlacesOf(RuleFiles[f][i])) :
          Evaluates(c, f, i, n, m)
  BY <1>1
<1>2. PICK m \in Good(RuleFiles[f][i], evaluations, n, now, PlacesOf(RuleFiles[f][i])) :
        Evaluates(c, f, i, n, m)
  OBVIOUS
<1>3. /\ stage[c] = "rules" /\ running = c /\ event[c] \in Events /\ outcome[n] = "running"
      /\ n = number[c] /\ f = using[c] /\ i = rule[c] /\ action[c] \in Nat \ {0}
      /\ Active(RuleFiles[f][i])
      /\ Busy("rules", f, i, action[c], files[n], evaluated[n], matched[n], attempted[n])
      /\ i \in 1 .. Len(RuleFiles[f]) /\ i \in Nat \ {0}
  BY <1>2, FileFacts DEF Evaluates
<1>4. /\ evaluated' = [evaluated EXCEPT ![n] = @ \cup {i}]
      /\ files' = [files EXCEPT ![n] = @ \cup {f}]
      /\ matched' = [matched EXCEPT ![n] = IF m.holds /\ ~m.raised THEN @ \cup {i} ELSE @]
      /\ UNCHANGED <<now, engine, baseline, bounds, attempted>>
  BY <1>2 DEF Evaluates
<1>5. \/ m.raised /\ End(c, "raised")
      \/ /\ ~m.raised /\ m.holds
         /\ stage' = [stage EXCEPT ![c] = "actions"]
         /\ UNCHANGED <<frame, rule, action, running, outcome>>
      \/ /\ ~m.raised /\ ~m.holds
         /\ NextRule(c)
         /\ UNCHANGED <<frame, running, outcome>>
  BY <1>2 DEF Evaluates
<1>6. /\ windows' \in [WindowKeys -> Seq(0 .. now)]
      /\ evaluations' \in Seq(Evaluation)
      /\ Windows'
  BY <1>2, EvaluatesWindows
<1>7. m.raised => MayRaise(RuleFiles[f][i])
  BY <1>2 DEF Good
<1>8. Types /\ EventAt(n)
  BY DEF IInv
\* What the step leaves alone, and what is remembered of the event.
<1>9. /\ files'[n] = files[n] \cup {f} /\ evaluated'[n] = evaluated[n] \cup {i}
      /\ matched'[n] = IF m.holds /\ ~m.raised THEN matched[n] \cup {i} ELSE matched[n]
      /\ attempted'[n] = attempted[n]
      /\ \A b \in 1 .. MaxEvents : b # n =>
           /\ files'[b] = files[b] /\ evaluated'[b] = evaluated[b] /\ matched'[b] = matched[b]
           /\ attempted'[b] = attempted[b]
      /\ begun' = begun
  BY <1>4, <1>8 DEF Types, bounds
<1>10. /\ evaluated' \in [1 .. MaxEvents -> SUBSET Nat]
       /\ matched' \in [1 .. MaxEvents -> SUBSET Nat]
       /\ files' \in [1 .. MaxEvents -> SUBSET DOMAIN RuleFiles]
  BY <1>3, <1>4, <1>8 DEF Types
<1>11. files'[n] = {f} /\ matched[n] \subseteq evaluated[n]
  BY <1>3, <1>9 DEF Busy
<1>12. CASE m.raised /\ End(c, "raised")
  <2>1. running \in {c, NoTask} /\ begun' = begun
    BY <1>3, <1>9
  <2>2. Types'
    BY <1>4, <1>6, <1>8, <1>10, <1>12, <2>1, EndTypes DEF Types, bounds
  <2>3. stage'[c] = "idle" /\ outcome'[n] = "raised" /\ matched'[n] = matched[n] /\ Alone(c)
    BY <1>3, <1>8, <1>9, <1>12 DEF Types, End, Alone
  <2>4. TaskAt(c)'
    BY <2>3 DEF TaskAt, Task
  <2>5. EventAt(n)'
    <3>1. EndedBy(f, evaluated[n] \cup {i}, matched[n], attempted[n])
      BY <1>3, <1>7, <1>12, BusyRaises
    <3>2. matched'[n] \subseteq evaluated'[n]
      BY <1>9, <1>11, <2>3
    <3> QED BY <1>9, <1>11, <2>3, <3>1, <3>2 DEF EventAt, Event
  <2>6. Numbers' /\ (\A d \in Consumers : TaskAt(d)') /\ \A b \in 1 .. MaxEvents : EventAt(b)'
    BY <1>3, <2>3, <2>4, <2>5, AloneKeeps
  <2> QED BY <1>6, <2>2, <2>6 DEF IInv
<1>13. CASE /\ ~m.raised /\ m.holds
            /\ stage' = [stage EXCEPT ![c] = "actions"]
            /\ UNCHANGED <<frame, rule, action, running, outcome>>
  <2>1. Types'
    <3>1. stage' \in [Consumers -> Stages]
      BY <1>8, <1>13 DEF Types, Stages
    <3>2. \A d \in Consumers : running' = d <=> stage'[d] \in {"rules", "actions"}
      BY <1>3, <1>8, <1>13 DEF Types
    <3> QED BY <1>4, <1>6, <1>8, <1>10, <1>13, <3>1, <3>2 DEF Types, bounds, frame
  <2>2. stage'[c] = "actions" /\ matched'[n] = matched[n] \cup {i} /\ Alone(c)
    BY <1>3, <1>8, <1>9, <1>13 DEF Types, Alone, frame
  <2>3. TaskAt(c)'
    <3>1. Busy("actions", f, i, action[c], files[n] \cup {f}, evaluated[n] \cup {i},
               matched[n] \cup {i}, attempted[n])
      BY <1>3, BusyMatches
    <3> QED BY <1>3, <1>9, <1>13, <2>2, <3>1 DEF TaskAt, Task, frame
  <2>4. EventAt(n)'
    <3>1. matched'[n] \subseteq evaluated'[n] /\ outcome'[n] = "running"
      BY <1>3, <1>9, <1>11, <1>13, <2>2
    <3> QED BY <1>9, <1>11, <3>1 DEF EventAt, Event
  <2>5. Numbers' /\ (\A d \in Consumers : TaskAt(d)') /\ \A b \in 1 .. MaxEvents : EventAt(b)'
    BY <1>3, <1>13, <2>2, <2>3, <2>4, AloneKeeps DEF frame
  <2> QED BY <1>6, <2>1, <2>5 DEF IInv
<1>14. CASE /\ ~m.raised /\ ~m.holds
            /\ NextRule(c)
            /\ UNCHANGED <<frame, running, outcome>>
  <2>1. Types'
    <3>1. /\ stage' \in [Consumers -> Stages] /\ rule' \in [Consumers -> Nat \ {0}]
          /\ action' \in [Consumers -> Nat \ {0}]
      <4>1. /\ stage \in [Consumers -> Stages] /\ rule \in [Consumers -> Nat \ {0}]
            /\ action \in [Consumers -> Nat \ {0}]
        BY <1>8 DEF Types
      <4>2. stage' \in [Consumers -> Stages]
        BY <1>14, <4>1 DEF NextRule, Stages
      <4>3. rule' \in [Consumers -> Nat \ {0}]
        BY <1>14, <4>1 DEF NextRule
      <4>4. action' \in [Consumers -> Nat \ {0}]
        BY <1>14, <4>1 DEF NextRule
      <4> QED BY <4>2, <4>3, <4>4
    <3>2. \A d \in Consumers : running' = d <=> stage'[d] \in {"rules", "actions"}
      BY <1>3, <1>8, <1>14 DEF Types, NextRule
    <3> QED BY <1>4, <1>6, <1>8, <1>10, <1>14, <3>1, <3>2 DEF Types, bounds, frame
  <2>2. /\ stage'[c] = "rules" /\ rule'[c] = i + 1 /\ action'[c] = 1
        /\ matched'[n] = matched[n] /\ Alone(c)
    BY <1>3, <1>8, <1>9, <1>14 DEF Types, Alone, frame, NextRule
  <2>3. TaskAt(c)'
    <3>1. Busy("rules", f, i + 1, 1, files[n] \cup {f}, evaluated[n] \cup {i},
               matched[n], attempted[n])
      BY <1>3, BusyMisses
    <3> QED BY <1>3, <1>9, <1>14, <2>2, <3>1 DEF TaskAt, Task, frame
  <2>4. EventAt(n)'
    <3>1. matched'[n] \subseteq evaluated'[n] /\ outcome'[n] = "running"
      BY <1>3, <1>9, <1>11, <1>14, <2>2
    <3> QED BY <1>9, <1>11, <3>1 DEF EventAt, Event
  <2>5. Numbers' /\ (\A d \in Consumers : TaskAt(d)') /\ \A b \in 1 .. MaxEvents : EventAt(b)'
    BY <1>3, <1>14, <2>2, <2>3, <2>4, AloneKeeps DEF frame
  <2> QED BY <1>6, <2>1, <2>5 DEF IInv
<1> QED BY <1>5, <1>12, <1>13, <1>14

-----------------------------------------------------------------------------
(* The specification.                                                      *)

LEMMA StepInv == IInv /\ [Next]_vars => IInv'
<1> SUFFICES ASSUME IInv, [Next]_vars PROVE IInv'
  OBVIOUS
<1>1. ASSUME NEW c \in Consumers, Run(c) PROVE IInv'
  BY <1>1, PassOverInv, EvalRuleInv, ReturnInv, SkipInv, DeployInv, EmitInv, RuleDoneInv DEF Run
<1>2. ASSUME NEW c \in Consumers, Awake(c) PROVE IInv'
  BY <1>2, EnrichmentEndsInv, DnsReturnsInv, EmitEndsInv DEF Awake
<1>3. ASSUME NEW c \in Consumers, NEW e \in Events, Begin(c, e) PROVE IInv'
  BY <1>3, BeginInv
<1>4. ASSUME NEW c \in Consumers, DeployRaises(c) \/ DnsRaises(c) PROVE IInv'
  BY <1>4, DeployRaisesInv, DnsRaisesInv
<1>5. ASSUME NEW f \in DOMAIN RuleFiles, Reload(f) PROVE IInv'
  BY <1>5, ReloadInv
<1>6. CASE Tick
  BY <1>6, TickInv
<1>7. CASE UNCHANGED vars
  <2>1. Types'
    BY <1>7 DEF IInv, Types, vars, shared, frame, bounds, traces
  <2>2. Numbers'
    BY <1>7 DEF IInv, Numbers, vars, shared, frame, bounds, traces
  <2>3. \A c \in Consumers : TaskAt(c)'
    BY <1>7 DEF IInv, TaskAt, vars, frame, traces
  <2>4. \A n \in 1 .. MaxEvents : EventAt(n)'
    BY <1>7 DEF IInv, EventAt, vars, traces
  <2>5. Windows'
    BY <1>7, WindowsRest DEF vars, shared, traces
  <2> QED BY <2>1, <2>2, <2>3, <2>4, <2>5 DEF IInv
<1> QED BY <1>1, <1>2, <1>3, <1>4, <1>5, <1>6, <1>7 DEF Next

LEMMA Invariance == Spec => []IInv
<1>1. Init => IInv
  BY InitInv
<1>2. IInv /\ [Next]_vars => IInv'
  BY StepInv
<1> QED BY <1>1, <1>2, PTL DEF Spec

\* handle_event() and the windows keep their types: the generator of a task is
\* in its file or at its end, a task that waits for a record or for the
\* emitters came from such an action, and only the running task is between two
\* awaits.
THEOREM TypeCorrect == Spec => []TypeOK
<1>1. IInv => TypeOK
  <2> SUFFICES ASSUME IInv PROVE TypeOK
    OBVIOUS
  <2>1. ASSUME NEW c \in Consumers
        PROVE  /\ stage[c] # "idle" => event[c] \in Events /\ number[c] # 0
               /\ stage[c] = "rules" => rule[c] \in 1 .. Len(File(c)) + 1
               /\ stage[c] = "actions" => action[c] \in 1 .. Len(Rule(c).actions) + 1
               /\ stage[c] = "dns" => Action(c).type = "deploy_honeypot"
               /\ stage[c] = "emit" => Action(c).type = "emit_alert"
    <3>1. stage[c] # "idle" => event[c] \in Events /\ number[c] \in 1 .. MaxEvents
      BY TaskFacts
    <3>2. stage[c] \in {"rules", "actions", "dns", "emit"} =>
            Busy(stage[c], using[c], rule[c], action[c], files[number[c]],
                 evaluated[number[c]], matched[number[c]], attempted[number[c]])
      BY TaskFacts
    <3>3. stage[c] = "rules" => rule[c] \in 1 .. Len(File(c)) + 1
      BY <3>2 DEF Busy, File
    <3>4. stage[c] = "actions" => action[c] \in 1 .. Len(Rule(c).actions) + 1
      BY <3>2 DEF Busy, File, Rule
    <3>5. /\ stage[c] = "dns" => Action(c).type = "deploy_honeypot"
          /\ stage[c] = "emit" => Action(c).type = "emit_alert"
      BY <3>2 DEF Busy, File, Rule, Action
    <3> QED BY <3>1, <3>3, <3>4, <3>5
  <2>2. \A n \in 1 .. MaxEvents : matched[n] \subseteq evaluated[n]
    BY DEF IInv, EventAt, Event
  <2> QED BY <2>1, <2>2 DEF TypeOK, IInv, Types, Stages
<1> QED BY <1>1, Invariance, PTL

\* When handle_event() returned, every active rule of the file was matched and
\* every action of every matching rule dispatched once, in the order of the
\* file, whatever the other tasks and a reload did in its awaits.
THEOREM HandlerSkipsNothing == Spec => []NothingSkipped
<1>1. IInv => NothingSkipped
  BY DEF IInv, EventAt, Event, Completed, NothingSkipped, Members, DueActions, Ordered
<1> QED BY <1>1, Invariance, PTL

\* The rules that judge an event are those of one file: the generator keeps its
\* engine, and a reload does not reach it.
THEOREM HandlerUsesOneFile == Spec => []OneFilePerEvent
<1>1. IInv => OneFilePerEvent
  <2> SUFFICES ASSUME IInv, NEW n \in 1 .. MaxEvents PROVE Cardinality(files[n]) <= 1
    BY DEF OneFilePerEvent
  <2>1. \A f, g \in files[n] : f = g
    BY DEF IInv, EventAt, Event
  <2>2. CASE files[n] = {}
    BY <2>2, FS_EmptySet
  <2>3. ASSUME NEW f \in files[n] PROVE Cardinality(files[n]) <= 1
    <3>1. files[n] = {f}
      BY <2>1
    <3>2. Cardinality({f}) = 1
      BY FS_Singleton
    <3> QED BY <3>1, <3>2
  <2> QED BY <2>2, <2>3
<1> QED BY <1>1, Invariance, PTL

\* An exception that ends handle_event() comes from a lure or from a rule with
\* an operator that raises: what an emitter raises ends nothing.
THEOREM AlertsNeverEndAHandler == Spec => []AlertsEndNothing
<1>1. IInv => AlertsEndNothing
  BY DEF IInv, EventAt, Event, EndedBy, AlertsEndNothing
<1> QED BY <1>1, Invariance, PTL

\* The evaluations of condition c with key k from x on, up to the i-th, and
\* the events they were of.
Brought(c, k, x, i) ==
    {j \in 1 .. i : /\ evaluations[j].threshold.cond = c
                    /\ evaluations[j].threshold.key = k
                    /\ evaluations[j].at >= x}
EventsOf(js) == {evaluations[j].n : j \in js}

LEMMA BroughtFacts ==
    ASSUME IInv, NEW i \in DOMAIN evaluations, NEW c \in Thresholds, NEW k, NEW x
    PROVE  /\ IsFiniteSet(Counted(evaluations, k, x, i))
           /\ Cardinality(Counted(evaluations, k, x, i)) \in Nat
           /\ Cardinality(EventsOf(Brought(c, k, x, i))) \in Nat
           /\ Cardinality(EventsOf(Brought(c, k, x, i))) <= Cardinality(Counted(evaluations, k, x, i))
           /\ Brought(c, k, x, i) = Counted(evaluations, k, x, i) /\ c \in UniqueThresholds =>
                Cardinality(EventsOf(Brought(c, k, x, i))) = Cardinality(Counted(evaluations, k, x, i))
<1> DEFINE B == Brought(c, k, x, i)
           C == Counted(evaluations, k, x, i)
           N == EventsOf(B)
           g == [j \in B |-> evaluations[j].n]
<1>1. i \in Nat /\ 1 .. i \subseteq DOMAIN evaluations
  <2>1. Len(evaluations) \in Nat /\ DOMAIN evaluations = 1 .. Len(evaluations)
    BY LenProperties DEF IInv, Types
  <2> QED BY <2>1
<1>2. B \subseteq C /\ C \subseteq 1 .. i
  BY DEF Brought, Counted
<1>3. IsFiniteSet(C) /\ IsFiniteSet(B) /\ Cardinality(B) <= Cardinality(C)
      /\ Cardinality(C) \in Nat /\ Cardinality(B) \in Nat
  <2>1. IsFiniteSet(1 .. i)
    BY <1>1, FS_Interval
  <2>2. IsFiniteSet(C)
    BY <1>2, <2>1, FS_Subset
  <2>3. IsFiniteSet(B) /\ Cardinality(B) <= Cardinality(C)
    BY <1>2, <2>2, FS_Subset
  <2> QED BY <2>2, <2>3, FS_CardinalityType
<1>4. g \in Surjection(B, N)
  BY DEF Surjection, EventsOf
<1>5. /\ IsFiniteSet(N) /\ Cardinality(N) <= Cardinality(B)
      /\ g \in Injection(B, N) => Cardinality(N) = Cardinality(B)
  BY <1>3, <1>4, FS_Surjection
<1>6. Cardinality(N) \in Nat
  BY <1>5, FS_CardinalityType
<1>7. c \in UniqueThresholds => g \in Injection(B, N)
  <2> SUFFICES ASSUME c \in UniqueThresholds, NEW a \in B, NEW b \in B, g[a] = g[b]
               PROVE  a = b
    BY <1>4 DEF Injection, IsInjective, Surjection
  <2>1. /\ a \in DOMAIN evaluations /\ b \in DOMAIN evaluations
        /\ evaluations[a].threshold.cond = c /\ evaluations[b].threshold.cond = c
        /\ evaluations[a].n = evaluations[b].n
    BY <1>1 DEF Brought
  <2> QED BY <2>1 DEF IInv, Windows, Distinct
<1> HIDE DEF B, C, N, g
<1>8. Cardinality(N) <= Cardinality(C)
  BY <1>3, <1>5, <1>6
<1>9. B = C /\ c \in UniqueThresholds => Cardinality(N) = Cardinality(C)
  BY <1>5, <1>7
<1> QED BY <1>3, <1>6, <1>8, <1>9 DEF B, C, N

\* Evaluation i, with what its threshold is to count.
LEMMA EvaluationFacts ==
    ASSUME IInv, NEW i \in DOMAIN evaluations
    PROVE  /\ evaluations[i].threshold.cond \in Thresholds
           /\ evaluations[i].threshold.key[1] = evaluations[i].threshold.cond.field
           /\ evaluations[i].threshold.cond.count \in Int
           /\ evaluations[i].threshold.fires \in BOOLEAN
           /\ Appearances(i) =
                Cardinality(EventsOf(Brought(evaluations[i].threshold.cond, evaluations[i].threshold.key,
                                             evaluations[i].at - evaluations[i].threshold.cond.window, i)))
<1>1. evaluations[i] \in Evaluation
  BY LenProperties DEF IInv, Types
<1>2. /\ evaluations[i].threshold.cond \in Thresholds
      /\ evaluations[i].threshold.fires \in BOOLEAN
  BY <1>1 DEF Evaluation, Entry
<1>3. evaluations[i].threshold.key[1] = evaluations[i].threshold.cond.field
  BY DEF IInv, Windows, Fitting, KeysFit
<1> QED BY <1>2, <1>3, ThresholdNumbers DEF Appearances, EventsOf, Brought

\* The narrowest threshold of a field fires whenever its key appeared often
\* enough in its window: whoever shares the window never prunes what it needs.
THEOREM NarrowestFires == Spec => []NarrowestNeverMisses
<1>1. IInv => NarrowestNeverMisses
  <2> SUFFICES ASSUME IInv, NEW i \in DOMAIN evaluations,
                      evaluations[i].threshold.cond \in NarrowThresholds,
                      Appearances(i) >= evaluations[i].threshold.cond.count
               PROVE  evaluations[i].threshold.fires
    BY DEF NarrowestNeverMisses
  <2> DEFINE t == evaluations[i].threshold
             x == evaluations[i].at - t.cond.window
  <2>1. t.fires <=> Cardinality(Counted(evaluations, t.key, x, i)) >= t.cond.count
    BY DEF IInv, Windows, Fitting, FiresExact
  <2>2. /\ t.cond \in Thresholds /\ t.cond.count \in Int
        /\ Appearances(i) = Cardinality(EventsOf(Brought(t.cond, t.key, x, i)))
    BY EvaluationFacts
  <2> HIDE DEF t, x
  <2>3. /\ Cardinality(Counted(evaluations, t.key, x, i)) \in Nat
        /\ Cardinality(EventsOf(Brought(t.cond, t.key, x, i))) \in Nat
        /\ Cardinality(EventsOf(Brought(t.cond, t.key, x, i)))
             <= Cardinality(Counted(evaluations, t.key, x, i))
    BY <2>2, BroughtFacts
  <2>4. Appearances(i) >= t.cond.count
    BY DEF t
  <2>5. t.fires
    BY <2>1, <2>2, <2>3, <2>4
  <2> QED BY <2>5 DEF t
<1> QED BY <1>1, Invariance, PTL

\* A threshold alone on its field fires exactly when it should, for all
\* interleavings of the tasks and across reloads.
THEOREM UnsharedFiresExactly == Spec => []UnsharedThresholdIsExact
<1>1. IInv => UnsharedThresholdIsExact
  <2> SUFFICES ASSUME IInv, NEW i \in DOMAIN evaluations,
                      Rivals(evaluations[i].threshold.cond) = {evaluations[i].threshold.cond},
                      evaluations[i].threshold.cond \in UniqueThresholds
               PROVE  evaluations[i].threshold.fires <=>
                        Appearances(i) >= evaluations[i].threshold.cond.count
    BY DEF UnsharedThresholdIsExact
  <2> DEFINE t == evaluations[i].threshold
             x == evaluations[i].at - t.cond.window
  <2>1. /\ t.cond \in Thresholds /\ t.cond.count \in Int /\ t.key[1] = t.cond.field
        /\ Appearances(i) = Cardinality(EventsOf(Brought(t.cond, t.key, x, i)))
    BY EvaluationFacts
  <2>2. t.cond \in NarrowThresholds
    BY <2>1, ThresholdNumbers DEF NarrowThresholds
  <2>3. t.fires <=> Cardinality(Counted(evaluations, t.key, x, i)) >= t.cond.count
    BY <2>2 DEF IInv, Windows, Fitting, FiresExact
  <2>4. ASSUME NEW j \in 1 .. i, evaluations[j].threshold.key = t.key
        PROVE  evaluations[j].threshold.cond = t.cond
    <3>1. j \in DOMAIN evaluations
      <4>1. Len(evaluations) \in Nat /\ DOMAIN evaluations = 1 .. Len(evaluations)
        BY LenProperties DEF IInv, Types
      <4> QED BY <4>1
    <3>2. /\ evaluations[j].threshold.cond \in Thresholds
          /\ evaluations[j].threshold.cond.field = t.cond.field
      BY <2>1, <2>4, <3>1, EvaluationFacts
    <3> QED BY <3>2 DEF Rivals
  <2>5. Brought(t.cond, t.key, x, i) = Counted(evaluations, t.key, x, i)
    <3> HIDE DEF x
    <3> QED BY <2>4 DEF Brought, Counted
  <2>6. t.cond \in UniqueThresholds
    OBVIOUS
  <2> HIDE DEF t, x
  <2>7. Appearances(i) = Cardinality(Counted(evaluations, t.key, x, i))
    BY <2>1, <2>5, <2>6, BroughtFacts
  <2>8. t.fires <=> Appearances(i) >= t.cond.count
    BY <2>3, <2>7
  <2> QED BY <2>8 DEF t
<1> QED BY <1>1, Invariance, PTL
=============================================================================
