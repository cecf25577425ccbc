---------------------------- MODULE ServiceSuite ----------------------------
(***************************************************************************)
(* The parts around the event pipeline that share no state with each       *)
(* other: the alert's content and its way to the SIEM targets, the DNS     *)
(* records, access and revocation, the token engine, the SOAR playbooks    *)
(* and the pcap forwarder.                                                 *)
(*                                                                         *)
(* They run side by side in separate processes, or in separate tasks.  As  *)
(* no variable belongs to two of them, a behaviour of all of them is one   *)
(* of each, interleaved, and what holds of each alone holds of all.  So a  *)
(* behaviour of this module follows one of them, part, and lets the others *)
(* stand still.                                                            *)
(***************************************************************************)
EXTENDS AlertContent, AlertDelivery, DnsRecords, Revocation, TokenEngine, SoarPlaybooks,
        PcapForwarder

VARIABLE part   \* the part that is followed

SuiteParts == {"content", "siem", "dns", "auth", "tokens", "soar", "pcap"}

suiteVars == <<part, contentVars, siemVars, dnsVars, authVars, tokVars, soarVars, pcapVars>>

SuiteTypeOK ==
    /\ part \in SuiteParts
    /\ ContentTypeOK
    /\ SiemTypeOK
    /\ DnsTypeOK
    /\ AuthTypeOK
    /\ TokTypeOK
    /\ SoarTypeOK
    /\ PcapTypeOK

SuiteInit ==
    /\ part \in SuiteParts
    /\ ContentInit /\ SiemInit /\ DnsInit /\ AuthInit /\ TokInit /\ SoarInit /\ PcapInit

\* A step of one part; the others stand still.
ContentStep ==
    /\ part = "content" /\ ContentNext
    /\ UNCHANGED <<part, siemVars, dnsVars, authVars, tokVars, soarVars, pcapVars>>
SiemStep ==
    /\ part = "siem" /\ SiemNext
    /\ UNCHANGED <<part, contentVars, dnsVars, authVars, tokVars, soarVars, pcapVars>>
DnsStep ==
    /\ part = "dns" /\ DnsNext
    /\ UNCHANGED <<part, contentVars, siemVars, authVars, tokVars, soarVars, pcapVars>>
AuthStep ==
    /\ part = "auth" /\ AuthNext
    /\ UNCHANGED <<part, contentVars, siemVars, dnsVars, tokVars, soarVars, pcapVars>>
TokStep ==
    /\ part = "tokens" /\ TokNext
    /\ UNCHANGED <<part, contentVars, siemVars, dnsVars, authVars, soarVars, pcapVars>>
SoarStep ==
    /\ part = "soar" /\ SoarNext
    /\ UNCHANGED <<part, contentVars, siemVars, dnsVars, authVars, tokVars, pcapVars>>
PcapStep ==
    /\ part = "pcap" /\ PcapNext
    /\ UNCHANGED <<part, contentVars, siemVars, dnsVars, authVars, tokVars, soarVars>>

SuiteNext ==
    ContentStep \/ SiemStep \/ DnsStep \/ AuthStep \/ TokStep \/ SoarStep \/ PcapStep

\* An emission goes on while the controller runs: each of its calls has a
\* timeout, and a backoff is a sleep.
SuiteSpec == SuiteInit /\ [][SuiteNext]_suiteVars /\ WF_suiteVars(SiemStep)
=============================================================================
