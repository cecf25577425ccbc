------------------------------ MODULE RuleEngine ------------------------------
(***************************************************************************)
(* The rule engine of the controller (controller/app/rules.py): conditions,*)
(* condition groups, rules, and the sliding windows behind the threshold   *)
(* operator.                                                               *)
(*                                                                         *)
(* An event maps the fields it has to values.  A condition is one of       *)
(*   [op |-> "compare", field, accepts, raises]: an operator of the table  *)
(*     stands for the values it accepts and those it raises on ("gt" of a  *)
(*     string and a number);                                               *)
(*   [op |-> "threshold", field, key_field, count, window];                *)
(*   [op |-> "unknown"]: an operator the table does not have.              *)
(* A rule has the fields of models.Rule; a rule file is a sequence of them.*)
(*                                                                         *)
(* The result of an evaluation says whether the condition holds or raised, *)
(* and has the windows it leaves behind and a log of the thresholds it     *)
(* came to.  A window is named by a field and the value of the key; the    *)
(* code joins the two by a colon, which no field of a rule contains.       *)
(***************************************************************************)
EXTENDS Integers, Sequences, FiniteSets

CONSTANTS
    Approvers,   \* settings.approvers
    None         \* the value of a missing field

GetField(event, field) == IF field \in DOMAIN event THEN event[field] ELSE None

Holding(so, holds) == [so EXCEPT !.holds = holds]

\* What an evaluation starts from.
Fresh(windows) ==
    [holds |-> TRUE, raised |-> FALSE, windows |-> windows, log |-> <<>>]

-----------------------------------------------------------------------------
(* Seeded faults.  Each operator is a plausible wrong form of the           *)
(* definition named in its comment; PROJECT.json names the property that    *)
(* must fail when it is put in that definition's place.                     *)

\* PopOlder: off by one at the cutoff.
PopOlderInclusive(times, cutoff) == SelectSeq(times, LAMBDA t : t > cutoff)

\* PopOlder: an event no longer in the window stops nothing and stays.
PopOlderOne(times, cutoff) ==
    IF Len(times) > 0 /\ Head(times) < cutoff THEN Tail(times) ELSE times

-----------------------------------------------------------------------------
(* _WindowCounter: the times of a key, oldest first.                       *)

\* Pops the times before cutoff from the left.
PopOlder(times, cutoff) ==
    LET kept == {i \in DOMAIN times : \E j \in 1 .. i : times[j] >= cutoff}
    IN  SubSeq(times, Len(times) - Cardinality(kept) + 1, Len(times))

\* record(), then count_in_window().
Recorded(times, now, window) == PopOlder(Append(times, now), now - window)

-----------------------------------------------------------------------------
(* Conditions.  so is the result of what was evaluated before.             *)

EvalCompare(c, event, so) ==
    LET value == GetField(event, c.field)
    IN  [so EXCEPT !.holds = value \in c.accepts, !.raised = value \in c.raises]

EvalThreshold(c, event, now, so) ==
    LET key == <<c.field, GetField(event, c.key_field)>>
        times == Recorded(so.windows[key], now, c.window)
        fires == Len(times) >= c.count
    IN  [so EXCEPT !.holds = fires,
                   !.windows[key] = times,
                   !.log = Append(@, [cond |-> c, key |-> key, fires |-> fires])]

EvalCondition(c, event, now, so) ==
    CASE c.op = "compare"   -> EvalCompare(c, event, so)
      [] c.op = "threshold" -> EvalThreshold(c, event, now, so)
      [] c.op = "unknown"   -> [so EXCEPT !.raised = TRUE]

\* all() over a generator: nothing is evaluated past the first that fails.
EvalNext(c, event, now, so) ==
    IF so.holds /\ ~so.raised THEN EvalCondition(c, event, now, so) ELSE so

EvalAll(conditions, event, now, so) ==
    LET after[i \in 0 .. Len(conditions)] ==
          IF i = 0 THEN Holding(so, TRUE)
                   ELSE EvalNext(conditions[i], event, now, after[i - 1])
    IN  after[Len(conditions)]

\* A group is evaluated to its end; only an exception leaves it early.
EvalJoined(c, logic, event, now, so) ==
    LET result == EvalCondition(c, event, now, so)
    IN  IF so.raised THEN so
        ELSE Holding(result, IF logic = "or" THEN so.holds \/ result.holds
                                             ELSE so.holds /\ result.holds)

EvalGroup(group, event, now, so) ==
    LET after[i \in 0 .. Len(group.conditions)] ==
          IF i = 0 THEN Holding(so, group.logic # "or")
                   ELSE EvalJoined(group.conditions[i], group.logic, event, now, after[i - 1])
    IN  after[Len(group.conditions)]

\* The groups, up to the first that does not pass.
EvalNextGroup(group, event, now, so) ==
    IF so.holds /\ ~so.raised THEN EvalGroup(group, event, now, so) ELSE so

EvalGroups(groups, event, now, so) ==
    LET after[g \in 0 .. Len(groups)] ==
          IF g = 0 THEN so ELSE EvalNextGroup(groups[g], event, now, after[g - 1])
    IN  after[Len(groups)]

\* _match(): `when` only in a rule without groups.
Match(rule, event, now, windows) ==
    IF rule.condition_groups = <<>>
    THEN EvalAll(rule.when, event, now, Fresh(windows))
    ELSE EvalGroups(rule.condition_groups, event, now, Fresh(windows))

-----------------------------------------------------------------------------
(* Rules.                                                                  *)

Approved(rule) == Approvers = {} \/ rule.approved_by \in Approvers

\* Whether evaluate() comes to match the rule.
Active(rule) == rule.enabled /\ Approved(rule)

\* _validate_schema(): the operators of `when`, not those of the groups.
ValidFile(file) ==
    \A i \in DOMAIN file : \A j \in DOMAIN file[i].when : file[i].when[j].op # "unknown"

\* The lists of conditions in a rule: `when`, and one for each group.
ListOf(rule, g) == IF g = 0 THEN rule.when ELSE rule.condition_groups[g].conditions

\* The places of conditions in a rule.
PlacesOf(rule) ==
    UNION {{g} \X DOMAIN ListOf(rule, g) : g \in 0 .. Len(rule.condition_groups)}

ConditionsOf(rule) == {ListOf(rule, p[1])[p[2]] : p \in PlacesOf(rule)}

ThresholdsOf(rule) == {c \in ConditionsOf(rule) : c.op = "threshold"}

\* What the model of a rule is, where the operators above rely on it.
IsSequence(s) == s \in Seq({s[i] : i \in DOMAIN s})

IsCondition(c) ==
    /\ c.op \in {"compare", "threshold", "unknown"}
    /\ c.op = "threshold" => c.count \in Int /\ c.window \in Int

IsRule(rule) ==
    /\ IsSequence(rule.when) /\ IsSequence(rule.condition_groups) /\ IsSequence(rule.actions)
    /\ \A g \in DOMAIN rule.condition_groups : IsSequence(rule.condition_groups[g].conditions)
    /\ \A c \in ConditionsOf(rule) : IsCondition(c)
=============================================================================
