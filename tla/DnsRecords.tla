----------------------------- MODULE DnsRecords -----------------------------
(***************************************************************************)
(* The DNS records of lures: DNSUpdater.upsert_record and the providers    *)
(* behind it (controller/app/dns.py and dns_providers.py).  Nothing calls  *)
(* delete_record.                                                          *)
(*                                                                         *)
(* Upserts of one name and type, by the consumer tasks of one or several   *)
(* replicas.  PowerDNS, RFC 2136 and Route 53 replace the whole record set *)
(* in one request.  Cloudflare is asked for the record first; then the     *)
(* record it named is overwritten, or a new one is made.  An upsert is     *)
(* under way until its last request is carried out or lost, even when who  *)
(* made it no longer waits for the answer.                                 *)
(*                                                                         *)
(* dnsMost and dnsAlone are history.                                       *)
(***************************************************************************)
EXTENDS Naturals, Sequences, FiniteSets

CONSTANTS
    Upserts,   \* upserts that may be under way at one time
    Values     \* the values a record may get

ASSUME DnsAssumption == IsFiniteSet(Upserts) /\ Values # {}

VARIABLES
    dnsProvider,   \* the provider; "none" before the start
    dnsRecords,    \* the values of the records, oldest first
    dnsStage,      \* of each upsert: idle, find, write
    dnsValue,      \* the value it writes
    dnsFound,      \* the record _find_record returned; 0 for none
    dnsMost,       \* history: the most upserts under way at one time
    dnsAlone       \* history: each upsert has been alone since it began

dnsVars == <<dnsProvider, dnsRecords, dnsStage, dnsValue, dnsFound, dnsMost, dnsAlone>>

OneRequest == {"powerdns", "rfc2136", "route53"}
UnderWay == {u \in Upserts : dnsStage[u] # "idle"}

DnsTypeOK ==
    /\ dnsProvider \in OneRequest \cup {"none", "cloudflare"}
    /\ dnsRecords \in Seq(Values)
    /\ dnsStage \in [Upserts -> {"idle", "find", "write"}]
    /\ dnsValue \in [Upserts -> Values]
    /\ dnsFound \in [Upserts -> 0 .. Len(dnsRecords)]
    /\ dnsMost \in 0 .. Cardinality(Upserts)
    /\ dnsAlone \in [Upserts -> BOOLEAN]

DnsInit ==
    /\ dnsProvider = "none"
    /\ dnsRecords = <<>>
    /\ dnsStage = [u \in Upserts |-> "idle"]
    /\ dnsValue = [u \in Upserts |-> CHOOSE v \in Values : TRUE]
    /\ dnsFound = [u \in Upserts |-> 0]
    /\ dnsMost = 0
    /\ dnsAlone = [u \in Upserts |-> FALSE]

\* An upsert is over.
Over(u) ==
    /\ dnsStage' = [dnsStage EXCEPT ![u] = "idle"]
    /\ dnsFound' = [dnsFound EXCEPT ![u] = 0]
    /\ UNCHANGED <<dnsProvider, dnsValue, dnsMost, dnsAlone>>

-----------------------------------------------------------------------------
(* Seeded faults *)

\* FindRecord: the query matches nothing.
FindRecordNever(u) ==
    /\ dnsStage[u] = "find"
    /\ dnsFound' = [dnsFound EXCEPT ![u] = 0]
    /\ dnsStage' = [dnsStage EXCEPT ![u] = "write"]
    /\ UNCHANGED <<dnsProvider, dnsRecords, dnsValue, dnsMost, dnsAlone>>

-----------------------------------------------------------------------------
\* Startup: the provider of the configuration.
ChooseProvider(p) ==
    /\ dnsProvider = "none"
    /\ dnsProvider' = p
    /\ UNCHANGED <<dnsRecords, dnsStage, dnsValue, dnsFound, dnsMost, dnsAlone>>

\* upsert_record: a name or a value that _sanitise refuses raises at once and
\* is not seen here.
BeginUpsert(u, value) ==
    /\ dnsProvider # "none" /\ dnsStage[u] = "idle"
    /\ dnsStage' = [dnsStage EXCEPT ![u] = IF dnsProvider = "cloudflare" THEN "find" ELSE "write"]
    /\ dnsValue' = [dnsValue EXCEPT ![u] = value]
    /\ dnsMost' = IF Cardinality(UnderWay) >= dnsMost THEN Cardinality(UnderWay) + 1 ELSE dnsMost
    /\ dnsAlone' = [w \in Upserts |-> w = u /\ UnderWay = {}]
    /\ UNCHANGED <<dnsProvider, dnsRecords, dnsFound>>

\* _find_record: records[0] of the answer, in whatever order it is, or none.
FindRecord(u) ==
    /\ dnsStage[u] = "find"
    /\ \E r \in IF dnsRecords = <<>> THEN {0} ELSE DOMAIN dnsRecords :
         dnsFound' = [dnsFound EXCEPT ![u] = r]
    /\ dnsStage' = [dnsStage EXCEPT ![u] = "write"]
    /\ UNCHANGED <<dnsProvider, dnsRecords, dnsValue, dnsMost, dnsAlone>>

\* PATCH with REPLACE, an update with replace(), or a change of kind UPSERT:
\* the record set becomes the new value alone.
Replace(u, provider) ==
    /\ dnsStage[u] = "write" /\ dnsProvider = provider
    /\ dnsRecords' = <<dnsValue[u]>>
    /\ Over(u)

PowerDnsReplaces(u) == Replace(u, "powerdns")
Rfc2136Replaces(u) == Replace(u, "rfc2136")
Route53Upserts(u) == Replace(u, "route53")

\* Cloudflare: PUT if a record was found, POST if none was.
CloudflareWrites(u) ==
    /\ dnsStage[u] = "write" /\ dnsProvider = "cloudflare"
    /\ dnsRecords' = IF dnsFound[u] # 0
                       THEN [dnsRecords EXCEPT ![dnsFound[u]] = dnsValue[u]]
                       ELSE Append(dnsRecords, dnsValue[u])
    /\ Over(u)

\* A request fails and is not carried out; the replica crashes; or the RFC
\* 2136 server refuses, which dns.query.tcp returns like success.
UpsertLost(u) ==
    /\ dnsStage[u] # "idle"
    /\ Over(u)
    /\ UNCHANGED dnsRecords

DnsNext ==
    \/ \E p \in OneRequest \cup {"cloudflare"} : ChooseProvider(p)
    \/ \E u \in Upserts :
         \/ \E value \in Values : BeginUpsert(u, value)
         \/ FindRecord(u)
         \/ PowerDnsReplaces(u) \/ Rfc2136Replaces(u) \/ Route53Upserts(u)
         \/ CloudflareWrites(u) \/ UpsertLost(u)
DnsSpec == DnsInit /\ [][DnsNext]_dnsVars

-----------------------------------------------------------------------------
\* A name has two records only if upserts of it raced at Cloudflare, and never
\* more records than upserts that were under way at one time.  An upsert that
\* is carried out and was alone leaves its value and no other, unless an
\* earlier race left more than one record.
ExtraRecordsNeedRace ==
    [][/\ Len(dnsRecords') <= IF dnsProvider = "cloudflare" THEN dnsMost ELSE 1
       /\ \A u \in Upserts :
            (/\ dnsStage[u] = "write" /\ dnsAlone[u] /\ Len(dnsRecords) <= 1
             /\ dnsRecords' # dnsRecords) => dnsRecords' = <<dnsValue[u]>>]_dnsVars
=============================================================================
