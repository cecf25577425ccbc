---------------------------- MODULE SoarPlaybooks ----------------------------
(***************************************************************************)
(* The SOAR service (soar-playbooks/app: main.py, playbook_engine.py,      *)
(* responses.py, drivers/): one alert and the playbooks that answer it.    *)
(* Alerts share nothing but log files that are appended to.                *)
(*                                                                         *)
(* A handler is the sequence of what it does to the outside:               *)
(*   append      a line in one of the log files                            *)
(*   send        a request whose status nobody looks at                    *)
(*   post        a request whose error status raises                       *)
(*   find        a query that may find nothing, which ends the driver      *)
(*   modify      an LDAP change whose result nobody looks at               *)
(* Each may raise; each that raises may have had its effect nevertheless.  *)
(*                                                                         *)
(* A playbook of the file may have a trigger, here the severities it is    *)
(* for.  The model Playbook leaves it out, as Alert does the severity of   *)
(* what the controller sends: only properties look at the two.             *)
(*                                                                         *)
(* soarTaken and soarDone are history.                                     *)
(***************************************************************************)
EXTENDS Naturals, Sequences

CONSTANTS
    PlaybookFiles,   \* the playbooks a file may hold
    Alerts,          \* alerts: severity, whether source_ip is set, and a user name
    Configured       \* the sets of outside services that may be configured

PlaybookStep == [action : STRING, account : BOOLEAN, ip : BOOLEAN, waf : BOOLEAN]
PlaybookRecord ==
    [name : STRING, on_alert : BOOLEAN, steps : Seq(PlaybookStep), trigger : SUBSET STRING]

ASSUME SoarAssumption ==
    /\ PlaybookFiles \subseteq Seq(PlaybookRecord)
    /\ Alerts \subseteq [severity : STRING, source_ip : BOOLEAN, username : BOOLEAN]

VARIABLES
    soarPlaybooks,   \* engine.playbooks; <<>> before the start
    soarAlert,       \* the alert in hand
    soarServices,    \* the outside services configured
    soarPc,          \* "start", "ready", "steps", "handler", "processed"
    soarAt,          \* the places of the playbook and of the step
    soarLeft,        \* what the handler still does
    soarResults,     \* results: outcome by <<playbook, action>>
    soarTaken,       \* history: the steps executed, with their outcomes
    soarDone         \* history: <<playbook, step, deed>> carried out

soarConfig == <<soarPlaybooks, soarAlert, soarServices>>
soarVars == <<soarPlaybooks, soarAlert, soarServices, soarPc, soarAt, soarLeft, soarResults,
              soarTaken, soarDone>>

Deeds == {"append", "send", "post", "find", "modify"}
Outcomes == {"ok", "missing_config", "unknown_action", "error"}

SoarTypeOK ==
    /\ soarPc \in {"start", "ready", "steps", "handler", "processed"}
    /\ soarLeft \in Seq(Deeds)
    /\ soarAt[1] \in 1 .. Len(soarPlaybooks) + 1
    /\ soarPc = "handler" => soarAt[2] \in DOMAIN soarPlaybooks[soarAt[1]].steps
    /\ \A key \in DOMAIN soarResults : soarResults[key] \in Outcomes

SoarInit ==
    /\ soarPlaybooks = <<>> /\ soarAlert = <<>> /\ soarServices = {}
    /\ soarPc = "start"
    /\ soarAt = <<1, 1>>
    /\ soarLeft = <<>>
    /\ soarResults = <<>>
    /\ soarTaken = <<>> /\ soarDone = {}

\* What a handler needs before it does anything, and what it then does.
Handler(ready, deeds) == [ready |-> ready, deeds |-> deeds]
Evidence == Handler(TRUE, <<"append">>)
Isolate(service, driver) ==
    Handler(service \in soarServices /\ soarAlert.source_ip, driver \o <<"append">>)
DefenderDriver == <<"send">>
CrowdstrikeDriver == <<"send">>
SentinelOneDriver == <<"find", "post">>
IseQuarantine == Handler("ise" \in soarServices /\ soarAlert.source_ip, <<"send">>)
NotifySlack == Handler("slack" \in soarServices, <<"post">>)
PageOncall == Handler("pagerduty" \in soarServices, <<"post">>)
CreateJiraTicket == Handler("jira" \in soarServices, <<"post">>)
DisableAdAccount(step) ==
    Handler("ad" \in soarServices /\ (step.account \/ soarAlert.username), <<"modify", "append">>)
BlockIp(step) ==
    Handler(soarAlert.source_ip \/ step.ip, <<"append">> \o IF step.waf THEN <<"send">> ELSE <<>>)

HandlerNames ==
    {"quarantine_host", "snapshot_honeypot", "extract_iocs", "defender_isolate",
     "crowdstrike_isolate", "sentinelone_isolate", "ise_quarantine", "notify_slack",
     "page_oncall", "create_jira_ticket", "disable_ad_account", "block_ip_firewall"}

HandlerOf(step) ==
    CASE step.action \in {"quarantine_host", "snapshot_honeypot", "extract_iocs"} -> Evidence
      [] step.action = "defender_isolate"    -> Isolate("defender", DefenderDriver)
      [] step.action = "crowdstrike_isolate" -> Isolate("crowdstrike", CrowdstrikeDriver)
      [] step.action = "sentinelone_isolate" -> Isolate("sentinelone", SentinelOneDriver)
      [] step.action = "ise_quarantine"      -> IseQuarantine
      [] step.action = "notify_slack"        -> NotifySlack
      [] step.action = "page_oncall"         -> PageOncall
      [] step.action = "create_jira_ticket"  -> CreateJiraTicket
      [] step.action = "disable_ad_account"  -> DisableAdAccount(step)
      [] step.action = "block_ip_firewall"   -> BlockIp(step)

Playbook == soarPlaybooks[soarAt[1]]
Step == Playbook.steps[soarAt[2]]

\* results[f"{playbook.name}:{step.action}"] = result, and on to the next step.
StepReturns(outcome) ==
    LET key == <<Playbook.name, Step.action>>
    IN /\ soarResults' = [k \in DOMAIN soarResults \cup {key} |->
                            IF k = key THEN outcome ELSE soarResults[k]]
       /\ soarTaken' = Append(soarTaken, <<soarAt, outcome>>)
       /\ soarAt' = <<soarAt[1], soarAt[2] + 1>>
       /\ soarPc' = "steps"
       /\ soarLeft' = <<>>

-----------------------------------------------------------------------------
(* Seeded faults *)

\* DeedRaises: the exception leaves handle_alert.
DeedRaisesThrough ==
    /\ soarPc = "handler" /\ soarLeft # <<>>
    /\ soarDone' \in {soarDone, soarDone \cup {<<soarAt, Head(soarLeft)>>}}
    /\ soarPc' = "processed"
    /\ UNCHANGED <<soarConfig, soarAt, soarLeft, soarResults, soarTaken>>

-----------------------------------------------------------------------------
\* Startup: the services that have a URL, a token and so on, and the playbooks.
StartEngine(playbooks, services) ==
    /\ soarPc = "start"
    /\ soarPlaybooks' = playbooks /\ soarServices' = services
    /\ soarPc' = "ready"
    /\ UNCHANGED <<soarAlert, soarAt, soarLeft, soarResults, soarTaken, soarDone>>

\* POST /alerts
IngestAlert(alert) ==
    /\ soarPc = "ready"
    /\ soarAlert' = alert
    /\ soarPc' = "steps"
    /\ UNCHANGED <<soarPlaybooks, soarServices, soarAt, soarLeft, soarResults, soarTaken, soarDone>>

\* handle_alert: a playbook that is off, or whose steps are over.
NextPlaybook ==
    /\ soarPc = "steps" /\ soarAt[1] <= Len(soarPlaybooks)
    /\ ~Playbook.on_alert \/ soarAt[2] > Len(Playbook.steps)
    /\ soarAt' = <<soarAt[1] + 1, 1>>
    /\ UNCHANGED <<soarConfig, soarPc, soarLeft, soarResults, soarTaken, soarDone>>

StepIsDue ==
    /\ soarPc = "steps" /\ soarAt[1] <= Len(soarPlaybooks)
    /\ Playbook.on_alert /\ soarAt[2] <= Len(Playbook.steps)

\* execute: an action nobody handles, or one that is not configured.
StepRefused ==
    /\ StepIsDue
    /\ \/ Step.action \notin HandlerNames /\ StepReturns("unknown_action")
       \/ /\ Step.action \in HandlerNames /\ ~HandlerOf(Step).ready
          /\ StepReturns("missing_config")
    /\ UNCHANGED <<soarConfig, soarDone>>

StepBegins ==
    /\ StepIsDue /\ Step.action \in HandlerNames /\ HandlerOf(Step).ready
    /\ soarLeft' = HandlerOf(Step).deeds
    /\ soarPc' = "handler"
    /\ UNCHANGED <<soarConfig, soarAt, soarResults, soarTaken, soarDone>>

\* The next thing is done, as far as the handler can tell.  What "find" does
\* not find is not disconnected, and logged as requested all the same.
DeedDone ==
    /\ soarPc = "handler" /\ soarLeft # <<>>
    /\ soarDone' = soarDone \cup {<<soarAt, Head(soarLeft)>>}
    /\ \/ soarLeft' = Tail(soarLeft)
       \/ Head(soarLeft) = "find" /\ soarLeft' = Tail(Tail(soarLeft))
    /\ UNCHANGED <<soarConfig, soarPc, soarAt, soarResults, soarTaken>>

\* execute catches every exception.
DeedRaises ==
    /\ soarPc = "handler" /\ soarLeft # <<>>
    /\ soarDone' \in {soarDone, soarDone \cup {<<soarAt, Head(soarLeft)>>}}
    /\ StepReturns("error")
    /\ UNCHANGED soarConfig

HandlerReturns ==
    /\ soarPc = "handler" /\ soarLeft = <<>>
    /\ StepReturns("ok")
    /\ UNCHANGED <<soarConfig, soarDone>>

AlertProcessed ==
    /\ soarPc = "steps" /\ soarAt[1] > Len(soarPlaybooks)
    /\ soarPc' = "processed"
    /\ UNCHANGED <<soarConfig, soarAt, soarLeft, soarResults, soarTaken, soarDone>>

SoarNext ==
    \/ \E p \in PlaybookFiles, s \in Configured : StartEngine(p, s)
    \/ \E a \in Alerts : IngestAlert(a)
    \/ NextPlaybook \/ StepRefused \/ StepBegins \/ DeedDone \/ DeedRaises \/ HandlerReturns
    \/ AlertProcessed

SoarSpec == SoarInit /\ [][SoarNext]_soarVars

-----------------------------------------------------------------------------
\* The place of a step of a playbook that is on, and which of two comes first.
IsDue(at) ==
    /\ at[1] \in DOMAIN soarPlaybooks /\ soarPlaybooks[at[1]].on_alert
    /\ at[2] \in DOMAIN soarPlaybooks[at[1]].steps
Due ==
    {at \in UNION {{p} \X DOMAIN soarPlaybooks[p].steps : p \in DOMAIN soarPlaybooks} : IsDue(at)}
Before(at, other) == at[1] < other[1] \/ (at[1] = other[1] /\ at[2] < other[2])

StepAt(at) == soarPlaybooks[at[1]].steps[at[2]]
KeyOf(at) == <<soarPlaybooks[at[1]].name, StepAt(at).action>>
Takes(n, at) == soarTaken[n][1] = at
Logs(deeds) == \E k \in DOMAIN deeds : deeds[k] = "append"

\* What the file says of the alert.
Triggered(at) == soarAlert.severity \in soarPlaybooks[at[1]].trigger

\* Steps that are due are taken, in order, none without all the triggered ones that
\* come before it; when the alert is "processed" all the triggered ones were taken.
TakenInOrder ==
    /\ \A n \in DOMAIN soarTaken : IsDue(soarTaken[n][1])
    /\ \A m, n \in DOMAIN soarTaken : m < n => ~Before(soarTaken[n][1], soarTaken[m][1])
    /\ \A n \in DOMAIN soarTaken : \A at \in Due :
         Triggered(at) /\ Before(at, soarTaken[n][1]) => \E m \in DOMAIN soarTaken : Takes(m, at)
    /\ soarPc = "processed" =>
         \A at \in Due : Triggered(at) => \E n \in DOMAIN soarTaken : Takes(n, at)

\* The last step with a key.
LastOfKey(n) ==
    \A m \in DOMAIN soarTaken : KeyOf(soarTaken[m][1]) = KeyOf(soarTaken[n][1]) => m <= n
ResultsAreLast ==
    /\ DOMAIN soarResults = {KeyOf(soarTaken[n][1]) : n \in DOMAIN soarTaken}
    /\ \A n \in DOMAIN soarTaken :
         LastOfKey(n) => soarResults[KeyOf(soarTaken[n][1])] = soarTaken[n][2]

OkIsLogged ==
    \A n \in DOMAIN soarTaken :
        soarTaken[n][2] = "ok" /\ Logs(HandlerOf(StepAt(soarTaken[n][1])).deeds)
            => <<soarTaken[n][1], "append">> \in soarDone

\* Whatever raises, the steps of the playbooks that are on are executed in order, and
\* when the alert is "processed" all of them were whose trigger the alert meets.  The
\* results hold, under each key, the outcome of the last step with that key; and a step
\* that ended "ok" has appended the line of its log, if its handler has one.  Whether a
\* step is executed that is not triggered, and whether one that failed is executed
\* again, is left open: docs/data-flow.md:109 says alerts are matched against triggers
\* and each action is retried, the code does neither (playbook_engine.py:22-31,
\* responses.py:73-96).
EveryStepAttempted == TakenInOrder /\ ResultsAreLast /\ OkIsLogged
=============================================================================
