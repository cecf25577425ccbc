--------------------------- MODULE AlertDelivery ---------------------------
(***************************************************************************)
(* The way of one alert to the SIEM targets (controller/app/siem.py, and   *)
(* the emit_alert branch of _dispatch_action in controller/app/main.py).   *)
(* Two emissions share no state, so one alert is enough.                   *)
(*                                                                         *)
(* build_siem_emitter makes one emitter per comma-separated mode.  Each    *)
(* emitter's call goes through the stages                                  *)
(*   trying -> sent -> stored -> returned                                  *)
(* or, when the try fails, to waiting (the backoff) or raised.             *)
(* What is sent may arrive although the emitter sees a failure: the answer *)
(* is lost, or it is an error status.                                      *)
(***************************************************************************)
EXTENDS Naturals, Sequences

CONSTANTS
    SiemModes,    \* the values SIEM_MODE may have, as sequences of modes
    MaxRetries,   \* _MAX_RETRIES, the length of _RETRY_BACKOFF
    MaxEmitters   \* bound on the modes of one SIEM_MODE

ASSUME SiemAssumption ==
    /\ MaxRetries \in Nat \ {0}
    /\ MaxEmitters \in Nat
    /\ \A m \in SiemModes : m \in Seq(STRING) /\ m # <<>> /\ Len(m) <= MaxEmitters

VARIABLES
    siemEmitters,   \* the emitters built at startup; <<>> before it
    siemPhase,      \* "new", "open", then "emitted" or "failed" as logged
    siemCalls       \* of each emitter: stage, tries begun, copies stored

siemVars == <<siemEmitters, siemPhase, siemCalls>>

Stages == {"trying", "sent", "stored", "waiting", "returned", "raised"}

\* build_siem_emitter: every mode it does not know is a webhook.
BuildOne(mode) ==
    IF mode \in {"splunk", "elastic", "sentinel", "sumologic", "datadog"}
      THEN mode ELSE "webhook"

\* How often each emitter may try.  Sentinel posts without _post_with_retry.
SentinelTries == 1
Tries(e) == IF e = "sentinel" THEN SentinelTries ELSE MaxRetries

\* Does the body reach httpx as text or as a dict of JSON values?  A dumped
\* alert holds its event's ts as a datetime.  Sentinel and Datadog dump it
\* with default=str; the others pass it to the parameter json of httpx, which
\* raises a TypeError before anything is sent, and which the loop of
\* _post_with_retry does not catch.
WebhookEncodes == FALSE
SplunkEncodes == FALSE
ElasticEncodes == FALSE
SumoLogicEncodes == FALSE
SentinelEncodes == TRUE
DatadogEncodes == TRUE
Encodes(e) ==
    CASE e = "webhook"   -> WebhookEncodes
      [] e = "splunk"    -> SplunkEncodes
      [] e = "elastic"   -> ElasticEncodes
      [] e = "sumologic" -> SumoLogicEncodes
      [] e = "sentinel"  -> SentinelEncodes
      [] e = "datadog"   -> DatadogEncodes

SiemTypeOK ==
    /\ siemEmitters \in {<<>>} \cup {[i \in DOMAIN m |-> BuildOne(m[i])] : m \in SiemModes}
    /\ siemPhase \in {"new", "open", "emitted", "failed"}
    /\ DOMAIN siemCalls = IF siemPhase = "new" THEN {} ELSE DOMAIN siemEmitters
    /\ \A i \in DOMAIN siemCalls :
         /\ siemCalls[i] \in [stage : Stages, tries : 1 .. MaxRetries, copies : 0 .. MaxRetries]
         /\ siemCalls[i].tries <= Tries(siemEmitters[i])

SiemInit ==
    /\ siemEmitters = <<>>
    /\ siemPhase = "new"
    /\ siemCalls = <<>>

At(i, stage) == i \in DOMAIN siemCalls /\ siemCalls[i].stage = stage
Moves(i, stage) == siemCalls' = [siemCalls EXCEPT ![i].stage = stage]

-----------------------------------------------------------------------------
(* Seeded faults *)

\* TryFails: one try too many.
TryFailsLate(i) ==
    /\ IF siemCalls[i].tries > Tries(siemEmitters[i]) THEN Moves(i, "raised") ELSE Moves(i, "waiting")
    /\ UNCHANGED <<siemEmitters, siemPhase>>

\* Report: gather without return_exceptions, so one that raised fails them all.
ReportFirstFailure ==
    /\ siemPhase = "open"
    /\ \E i \in DOMAIN siemCalls : At(i, "raised")
    /\ siemPhase' = "failed"
    /\ UNCHANGED <<siemEmitters, siemCalls>>

-----------------------------------------------------------------------------
\* Startup: build_siem_emitter splits the mode.
BuildEmitters(mode) ==
    /\ siemEmitters = <<>>
    /\ siemEmitters' = [i \in DOMAIN mode |-> BuildOne(mode[i])]
    /\ UNCHANGED <<siemPhase, siemCalls>>

\* emit: a lone emitter is awaited, several are gathered; all of them start.
StartEmission ==
    /\ siemEmitters # <<>> /\ siemPhase = "new"
    /\ siemPhase' = "open"
    /\ siemCalls' = [i \in DOMAIN siemEmitters |-> [stage |-> "trying", tries |-> 1, copies |-> 0]]
    /\ UNCHANGED siemEmitters

\* The body cannot be encoded: TypeError, not one of the errors caught.
EncodingRaises(i) ==
    /\ At(i, "trying") /\ ~Encodes(siemEmitters[i])
    /\ Moves(i, "raised")
    /\ UNCHANGED <<siemEmitters, siemPhase>>

SendAlert(i) ==
    /\ At(i, "trying") /\ Encodes(siemEmitters[i])
    /\ Moves(i, "sent")
    /\ UNCHANGED <<siemEmitters, siemPhase>>

\* The target stores what it was sent.
TargetStores(i) ==
    /\ At(i, "sent")
    /\ siemCalls' = [siemCalls EXCEPT ![i].stage = "stored", ![i].copies = @ + 1]
    /\ UNCHANGED <<siemEmitters, siemPhase>>

TargetConfirms(i) ==
    /\ At(i, "stored")
    /\ Moves(i, "returned")
    /\ UNCHANGED <<siemEmitters, siemPhase>>

\* A refused connection, a timeout or an error status: wait, or raise when
\* it was the last try.
TryFails(i) ==
    /\ IF siemCalls[i].tries = Tries(siemEmitters[i]) THEN Moves(i, "raised") ELSE Moves(i, "waiting")
    /\ UNCHANGED <<siemEmitters, siemPhase>>

\* It fails before anything arrived, or after.
AlertIsLost(i) == At(i, "sent") /\ TryFails(i)
AnswerIsLost(i) == At(i, "stored") /\ TryFails(i)

\* The backoff of 1, 3 or 7 seconds is over.
RetryBegins(i) ==
    /\ At(i, "waiting")
    /\ siemCalls' = [siemCalls EXCEPT ![i].stage = "trying", ![i].tries = @ + 1]
    /\ UNCHANGED <<siemEmitters, siemPhase>>

\* MultiEmitter only logs what its emitters raised; _dispatch_action then
\* logs alert_emitted.  What a lone emitter raises is alert_emit_failed.
Report ==
    /\ siemPhase = "open"
    /\ \A i \in DOMAIN siemCalls : At(i, "returned") \/ At(i, "raised")
    /\ siemPhase' = IF Len(siemEmitters) = 1 /\ At(1, "raised") THEN "failed" ELSE "emitted"
    /\ UNCHANGED <<siemEmitters, siemCalls>>

SiemNext ==
    \/ \E m \in SiemModes : BuildEmitters(m)
    \/ StartEmission
    \/ \E i \in DOMAIN siemCalls :
         \/ EncodingRaises(i) \/ SendAlert(i) \/ TargetStores(i) \/ TargetConfirms(i)
         \/ AlertIsLost(i) \/ AnswerIsLost(i) \/ RetryBegins(i)
    \/ Report

SiemSpec == SiemInit /\ [][SiemNext]_siemVars /\ WF_siemVars(SiemNext)

-----------------------------------------------------------------------------
FanOutOutcome ==
    [i \in DOMAIN siemCalls |->
       IF At(i, "returned") THEN "served" ELSE IF At(i, "raised") THEN "failed" ELSE "pending"]

FanOut == INSTANCE AlertFanOut WITH
    MaxTargets <- MaxEmitters, MaxTries <- MaxRetries,
    phase <- siemPhase,
    copies <- [i \in DOMAIN siemCalls |-> siemCalls[i].copies], outcome <- FanOutOutcome

\* The emitters implement the fan-out: whatever is lost and however the targets'
\* tries interleave, no target gets more copies than there are retries, a target that
\* failed neither ends nor delays for ever the others, alert_emit_failed is logged only
\* if nobody was served, and every emission ends.  How soon an emitter may give up is
\* not said here (siem.py:22-39, 194-199, main.py:244-250).
RefinesFanOut == FanOut!Spec

\* "fires all configured emitters in parallel" (docs/data-flow.md:96), "Multi-emitter
\* fan-out with exponential retry: webhook, Splunk HEC, Elasticsearch, ..." (README.md:45):
\* no emitter gives up before it has sent the alert.  Those that leave the encoding to
\* httpx do so each time (siem.py:31, 34).
EveryEmitterSends ==
    [][\A i \in DOMAIN siemCalls : At(i, "trying") => ~At(i, "raised")']_siemVars
=============================================================================
