---------------------------- MODULE AlertContent ----------------------------
(***************************************************************************)
(* What an alert says: build_alert (controller/app/alerts.py) with the     *)
(* kill-chain table (kill_chain.py) and the redaction (redaction.py).      *)
(*                                                                         *)
(* Rows of the table are alike if they name the same stage, so a technique *)
(* is the stage its row names, or "unlisted".  A value of event.data is a  *)
(* dict, a list or a leaf; of a text leaf only matters whether one of the  *)
(* value patterns finds something in it.  A dict is the sequence of its    *)
(* items <<name, value>>, as the code goes through them.  Of an event, rest *)
(* is what it holds beside data: source, request_id and every other name   *)
(* that was posted (models.py allows extras).  Alerts have nothing to do   *)
(* with each other, so one is built.                                       *)
(***************************************************************************)
EXTENDS Naturals, Sequences

CONSTANTS
    Scalars,          \* the texts, numbers, ... that a dict or a list may hold
    MaxDepth,         \* how deep dicts and lists are nested at most
    RuleTechniques,   \* the mitre lists rules may have
    Events,           \* the events a rule may fire for
    Enrichments       \* what the enrichers may have found out

VARIABLES
    alertOf,   \* the mitre list, the event and the enrichment it was built from
    alert      \* the alert; <<>> before it is built

contentVars == <<alertOf, alert>>

KillChainOrder ==
    <<"reconnaissance", "weaponization", "delivery", "exploitation", "installation",
      "command_and_control", "actions_on_objectives">>

\* TECHNIQUE_MAP.  No technique of the table is in the stage weaponization.
TechniqueMap ==
    [t \in {"reconnaissance", "delivery", "exploitation", "installation",
            "command_and_control", "actions_on_objectives"} |-> t]

Sensitive(key) == key \in {"password", "api_key"}
Redacted == [kind |-> "text", secret |-> FALSE, text |-> "[REDACTED]"]

\* The dicts and lists of values from a set, and the values that are nested n
\* deep at most.
Containers(values) ==
    [kind : {"dict"}, items : Seq(STRING \X values)] \cup [kind : {"list"}, items : Seq(values)]

DataTo[n \in 0 .. MaxDepth] ==
    IF n = 0 THEN Scalars ELSE Scalars \cup Containers(DataTo[n - 1])

Data == DataTo[MaxDepth]

ASSUME ScalarsAssumption ==
    /\ Redacted \in Scalars
    /\ \A value \in Scalars : value.kind \in {"text", "number"}
    /\ \A value \in Scalars : value.kind = "text" => value.secret \in BOOLEAN

ASSUME ContentAssumption ==
    /\ MaxDepth \in Nat
    /\ RuleTechniques \subseteq Seq(STRING)
    /\ Events \subseteq [data : Data, rest : Data]
    /\ Enrichments \subseteq Data

-----------------------------------------------------------------------------
(* Seeded fault *)

\* RedactDict: lists are left alone.
RedactSkipsLists[value \in Data] ==
    CASE value.kind = "dict" ->
           [value EXCEPT !.items = [i \in DOMAIN @ |->
              <<@[i][1], IF Sensitive(@[i][1]) THEN Redacted ELSE RedactSkipsLists[@[i][2]]>>]]
      [] value.kind = "text" /\ value.secret -> Redacted
      [] OTHER -> value

RedactDictSkipsLists(payload) == RedactSkipsLists[payload]

-----------------------------------------------------------------------------
\* The stages of the techniques, in the order of the kill chain.
KillChainFor(techniques) ==
    LET seen == {TechniqueMap[t] : t \in {techniques[i] : i \in DOMAIN techniques} \cap DOMAIN TechniqueMap}
        upTo[n \in 0 .. Len(KillChainOrder)] ==
          IF n = 0 THEN <<>>
          ELSE IF KillChainOrder[n] \in seen THEN Append(upTo[n - 1], KillChainOrder[n])
               ELSE upTo[n - 1]
    IN  upTo[Len(KillChainOrder)]

EnrichTechniques(techniques) ==
    [i \in DOMAIN techniques |->
       [technique |-> techniques[i],
        kill_chain |-> IF techniques[i] \in DOMAIN TechniqueMap
                         THEN TechniqueMap[techniques[i]] ELSE "unknown"]]

\* _redact: a sensitive name hides whatever it names, a sensitive text is
\* hidden wherever it stands.
Redact[value \in Data] ==
    CASE value.kind = "dict" ->
           [value EXCEPT !.items = [i \in DOMAIN @ |->
              <<@[i][1], IF Sensitive(@[i][1]) THEN Redacted ELSE Redact[@[i][2]]>>]]
      [] value.kind = "list" ->
           [value EXCEPT !.items = [i \in DOMAIN @ |-> Redact[@[i]]]]
      [] value.kind = "text" /\ value.secret -> Redacted
      [] OTHER -> value

RedactDict(payload) == Redact[payload]

ContentInit == alertOf = <<>> /\ alert = <<>>

\* The alert carries the whole event.  Only its data is redacted.
BuildAlert(techniques, event, enrichment) ==
    /\ alert = <<>>
    /\ alertOf' = <<techniques, event, enrichment>>
    /\ alert' = [event |-> [event EXCEPT !.data = RedactDict(@)], mitre |-> techniques,
                 kill_chain |-> KillChainFor(techniques),
                 techniques |-> EnrichTechniques(techniques), enrichment |-> enrichment]

ContentNext ==
    \E techniques \in RuleTechniques, event \in Events, enrichment \in Enrichments :
      BuildAlert(techniques, event, enrichment)

ContentSpec == ContentInit /\ [][ContentNext]_contentVars

-----------------------------------------------------------------------------
KillChainStages == {KillChainOrder[n] : n \in DOMAIN KillChainOrder}

\* The alert is of the type build_alert gives it, and its data nests no deeper
\* than that of an event.
ContentTypeOK ==
    alert # <<>> =>
      /\ alertOf \in RuleTechniques \X Events \X Enrichments
      /\ alert \in [event : [data : Data, rest : Data], mitre : RuleTechniques,
                    kill_chain : Seq(KillChainStages),
                    techniques : Seq([technique : STRING, kill_chain : KillChainStages \cup {"unknown"}]),
                    enrichment : Enrichments]

\* The leaves of a value, each with the path of names and places to it.  An
\* empty dict or list is a leaf.
StepTo(value, i) == IF value.kind = "dict" THEN <<"name", value.items[i][1]>> ELSE <<"place", i>>
Part(value, i) == IF value.kind = "dict" THEN value.items[i][2] ELSE value.items[i]
Below(step, leaf) == <<<<step>> \o leaf[1], leaf[2]>>

Leaves[value \in Data] ==
    IF value \in Scalars \/ value.items = <<>>
      THEN {<<<<>>, value>>}
      ELSE UNION {{Below(StepTo(value, i), leaf) : leaf \in Leaves[Part(value, i)]} :
                    i \in DOMAIN value.items}

UnderSensitive(path) == \E i \in DOMAIN path : path[i][1] = "name" /\ Sensitive(path[i][2])

\* A leaf that must be hidden.
Hidden(leaf) == UnderSensitive(leaf[1]) \/ (leaf[2].kind = "text" /\ leaf[2].secret)

\* The leaf covers whatever was at its path or below.
Covers(leaf, hidden) ==
    /\ leaf[2] = Redacted
    /\ Len(leaf[1]) <= Len(hidden[1])
    /\ \A i \in DOMAIN leaf[1] : leaf[1][i] = hidden[1][i]

\* What is under a sensitive name or is a sensitive text is hidden, at any
\* depth, and everything else is at its place as it was.
RedactionIsExact(from, to) ==
    LET hidden == {leaf \in Leaves[from] : Hidden(leaf)}
        kept   == Leaves[from] \ hidden
    IN /\ kept \subseteq Leaves[to]
       /\ \A h \in hidden : \E leaf \in Leaves[to] : Covers(leaf, h)
       /\ \A leaf \in Leaves[to] \ kept : \E h \in hidden : Covers(leaf, h)

Place(stage) == CHOOSE n \in DOMAIN KillChainOrder : KillChainOrder[n] = stage

\* An alert carries no part of event.data that is under a sensitive name or is a
\* sensitive text, through dicts and lists alike, and nothing that is neither is lost;
\* its kill chain goes forward, naming every stage its techniques are known to be in and
\* no other (alerts.py:11-29).  What of the rest of the event is redacted is left open:
\* docs/security.md:92 says the entire payload is scanned, alerts.py:19 scans event.data.
AlertIsFaithful ==
    alert # <<>> =>
      /\ RedactionIsExact(alertOf[2].data, alert.event.data)
      /\ \A leaf \in Leaves[alertOf[2].rest] : Hidden(leaf) \/ leaf \in Leaves[alert.event.rest]
      /\ \A m, n \in DOMAIN alert.kill_chain :
           m < n => Place(alert.kill_chain[m]) < Place(alert.kill_chain[n])
      /\ {alert.kill_chain[n] : n \in DOMAIN alert.kill_chain}
           = {alert.techniques[i].kill_chain : i \in DOMAIN alert.mitre} \ {"unknown"}
=============================================================================
