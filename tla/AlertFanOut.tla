---------------------------- MODULE AlertFanOut ----------------------------
(***************************************************************************)
(* What the SIEM side of the controller promises for one alert: every      *)
(* configured target is served on its own, none gets more copies than      *)
(* there are tries, a target counts as served only if a copy arrived, the  *)
(* alert is reported as failed only if no target was served, and the       *)
(* emission comes to an end.                                               *)
(*                                                                         *)
(* The number of a target is its place in the list of the configuration.   *)
(***************************************************************************)
EXTENDS Naturals

CONSTANTS
    MaxTargets,   \* bound on the number of targets
    MaxTries      \* how many copies a target may get at most

VARIABLES
    phase,     \* "new", "open", and how it was reported: "emitted", "failed"
    copies,    \* how many copies of the alert each target got
    outcome    \* "pending", "served" or "failed"

fanOutVars == <<phase, copies, outcome>>

Targets == DOMAIN outcome

Init ==
    /\ phase = "new"
    /\ copies = <<>>
    /\ outcome = <<>>

Open ==
    /\ phase = "new"
    /\ phase' = "open"
    /\ \E n \in 1 .. MaxTargets :
         /\ copies' = [t \in 1 .. n |-> 0]
         /\ outcome' = [t \in 1 .. n |-> "pending"]

Arrive(t) ==
    /\ phase = "open" /\ outcome[t] = "pending"
    /\ copies[t] < MaxTries
    /\ copies' = [copies EXCEPT ![t] = @ + 1]
    /\ UNCHANGED <<phase, outcome>>

\* Whether a target is served depends on what arrived there, and on no
\* other target.
Settle(t) ==
    /\ phase = "open" /\ outcome[t] = "pending"
    /\ \E o \in {"served", "failed"} :
         /\ o = "served" => copies[t] > 0
         /\ outcome' = [outcome EXCEPT ![t] = o]
    /\ UNCHANGED <<phase, copies>>

Close ==
    /\ phase = "open"
    /\ \A t \in Targets : outcome[t] # "pending"
    /\ phase' \in {"emitted", "failed"}
    /\ phase' = "failed" => \A t \in Targets : outcome[t] = "failed"
    /\ UNCHANGED <<copies, outcome>>

SettleSome == \E t \in Targets : Settle(t)

Next == Open \/ (\E t \in Targets : Arrive(t)) \/ SettleSome \/ Close

Spec == Init /\ [][Next]_fanOutVars /\ WF_fanOutVars(SettleSome) /\ WF_fanOutVars(Close)
=============================================================================
