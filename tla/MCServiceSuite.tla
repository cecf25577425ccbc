--------------------------- MODULE MCServiceSuite ---------------------------
(***************************************************************************)
(* ServiceSuite for TLC.                                                   *)
(***************************************************************************)
EXTENDS ServiceSuite, MCAlertDelivery

CONSTANTS a1, u1   \* an administrator's token and a user's

\* Mitre lists: out of order, repeated, unlisted.
MCRuleTechniques ==
    UNION {[1 .. n -> {"installation", "reconnaissance", "delivery", "unlisted"}] : n \in 0 .. 3}

Text(secret) == [kind |-> "text", secret |-> secret, text |-> "t"]
Number == [kind |-> "number"]
Dict(items) == [kind |-> "dict", items |-> items]
List(items) == [kind |-> "list", items |-> items]

\* Values two levels deep, under a sensitive and another name; a text may be
\* what the redaction puts in.
MCScalars == {Text(TRUE), Text(FALSE), Number, Redacted}
Flat == MCScalars \cup {Dict(<<>>), List(<<>>)}
Nested ==
    Flat \cup {Dict(<<<<"user", v>>, <<"password", w>>>>) : v, w \in {Text(TRUE), Number}}
         \cup {List(<<v, w>>) : v, w \in {Text(TRUE), Text(FALSE), Dict(<<<<"api_key", Number>>>>)}}
MCEventData ==
    {Dict(<<>>)} \cup {Dict(<<<<"user", v>>, <<"password", w>>>>) : v \in Nested, w \in Flat}

\* Events as they should be, with all under data, and as the honeypots send them.
MCEvents ==
    [data : MCEventData, rest : {Dict(<<<<"source", Text(FALSE)>>>>)}]
      \cup [data : {Dict(<<>>)},
            rest : {Dict(<<<<"source", Text(FALSE)>>, <<"password", v>>>>) : v \in Flat}]
MCEnrichments == {Dict(<<>>), Dict(<<<<"asn", Number>>>>)}

MCTokenExp == [t \in {a1, u1} |-> IF t = a1 THEN 3 ELSE 2]

MCTypeLists == {<<"aws_key">>, <<"ssh_key", "aws_key">>, <<"ssh_key", "no_type", "aws_key">>}
MCBundleTypes == <<"aws_key">>

\* The first step of a playbook names an address and a WAF, the fourth no account.
Steps(actions) ==
    [n \in DOMAIN actions |-> [action |-> actions[n], waf |-> n = 1, ip |-> n = 1, account |-> FALSE]]
Book(name, on, trigger, actions) ==
    [name |-> name, on_alert |-> on, steps |-> Steps(actions), trigger |-> trigger]

\* The default playbook; every kind of handler, one of them twice and one
\* unknown; and a playbook that is off between two of the same name.
MCPlaybookFiles ==
    {<<Book("default", TRUE, {"low", "high"}, <<"quarantine_host", "snapshot_honeypot", "extract_iocs">>)>>,
     <<Book("contain", TRUE, {"high"},
            <<"block_ip_firewall", "sentinelone_isolate", "defender_isolate",
              "crowdstrike_isolate", "ise_quarantine", "no_action">>)>>,
     <<Book("notify", TRUE, {"low", "high"},
            <<"notify_slack", "page_oncall", "create_jira_ticket",
              "disable_ad_account", "notify_slack">>),
       Book("off", FALSE, {"low"}, <<"quarantine_host">>),
       Book("notify", TRUE, {"low"}, <<"notify_slack", "block_ip_firewall">>)>>}

MCAlerts == [severity : {"low", "high"}, source_ip : BOOLEAN, username : BOOLEAN]
MCConfigured ==
    {{}, {"defender", "crowdstrike", "sentinelone", "ise", "slack", "pagerduty", "jira", "ad"}}
=============================================================================
