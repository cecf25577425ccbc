--------------------------- MODULE MCEventPipeline ---------------------------
(***************************************************************************)
(* EventPipeline for TLC: two kinds of events and three rule files.      *)
(* Addresses of networks are two bits wide.                                *)
(***************************************************************************)
EXTENDS EventPipeline, TLC

CONSTANTS Narrow, Wide   \* windows of the thresholds

ConsumerSymmetry == Permutations(Consumers)

MCEvents ==
    {[source |-> "farm", kind |-> "auth", src_ip |-> "far"],
     [source |-> "farm", kind |-> "scan"]}

Kind(k) == [op |-> "compare", field |-> "kind", accepts |-> {k}, raises |-> {}]
Unknown == [op |-> "unknown", field |-> "kind"]
Threshold(field, count, window) ==
    [op |-> "threshold", field |-> field, key_field |-> "src_ip",
     count |-> count, window |-> window]

Net(addr, prefix) == [family |-> 4, addr |-> addr, prefix |-> prefix]
Lure(subnet, dns) == [type |-> "deploy_honeypot", subnet |-> subnet, dns |-> dns]
Alert == [type |-> "emit_alert"]

RuleOf(enabled, by, when, groups, actions) ==
    [enabled |-> enabled, approved_by |-> by, when |-> when,
     condition_groups |-> groups, actions |-> actions]

\* A brute-force rule with a threshold of its own, and one with a group.
Brute == RuleOf(TRUE, "alice", <<Kind("auth"), Threshold("login", 2, Narrow)>>, <<>>,
                <<Lure(Net(2, 1), TRUE), Alert>>)
Scan == RuleOf(TRUE, "alice", <<>>,
               <<[logic |-> "or", conditions |-> <<Kind("auth"), Threshold("probe", 2, Narrow)>>]>>,
               <<Alert>>)
\* The same probes, counted over a longer time.
SlowScan == RuleOf(TRUE, "alice", <<Threshold("probe", 3, Wide)>>, <<>>,
                   <<Lure(Net(0, 2), FALSE), [type |-> "unheard_of"], Lure(Net(1, 2), FALSE)>>)
Unapproved == RuleOf(TRUE, "mallory", <<>>, <<>>, <<Alert>>)
Disabled == RuleOf(FALSE, "alice", <<>>, <<>>, <<Alert>>)
\* An operator nobody knows, reached when the first group passed.
Broken == RuleOf(TRUE, "alice", <<>>,
                 <<[logic |-> "and", conditions |-> <<Kind("auth")>>],
                   [logic |-> "and", conditions |-> <<Unknown>>]>>, <<Alert>>)
BadSubnet == RuleOf(TRUE, "alice", <<Kind("scan")>>, <<>>, <<Lure(Net(1, 1), FALSE)>>)
Refused == RuleOf(TRUE, "alice", <<Unknown>>, <<>>, <<>>)

MCRuleFiles ==
    <<<<Brute, Unapproved, Scan, SlowScan>>,
      <<Disabled, Brute, Broken, BadSubnet>>,
      <<Refused>>>>

MCAllowedSubnets == {Net(0, 1), Net(2, 1)}
MCBlockedSubnets == {Net(0, 2)}
=============================================================================
