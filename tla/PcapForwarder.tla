--------------------------- MODULE PcapForwarder ---------------------------
(***************************************************************************)
(* The pcap forwarder (honeypot-farm/pcap-forwarder/forwarder.py): one     *)
(* process that scans a directory, sends each new capture to Kafka as one  *)
(* message and keeps the names it is done with in the file .forwarded.     *)
(*                                                                         *)
(* The size of a capture is one of three: 1 fits a Kafka message, 2 does   *)
(* not but is within MAX_FILE_SIZE_MB, 3 is beyond it.  tcpdump writes a   *)
(* capture of one fixed name, which grows and which a restarted tcpdump    *)
(* begins anew (infra/k8s/honeypots); retention deletes old ones.  The     *)
(* size is read before the content, which may have changed meanwhile.      *)
(*                                                                         *)
(* Kafka and the buffer of the producer are external.  A send that failed  *)
(* says nothing of its message: it was dropped, it arrived, or it is still *)
(* in the buffer after flush(timeout=30) and may arrive beside its retry.  *)
(*                                                                         *)
(* pcapArrived, pcapTroubled and pcapSkipped are history.                  *)
(***************************************************************************)
EXTENDS Naturals

CONSTANTS
    Captures,      \* the names of captures, in the order of sorted(): 1, 2, ...
    SendTries,     \* MAX_RETRIES
    MaxCrashes     \* bound on the crashes of the forwarder

ASSUME PcapAssumption ==
    /\ Captures \subseteq Nat
    /\ SendTries \in Nat \ {0}
    /\ MaxCrashes \in Nat

VARIABLES
    pcapSize,        \* 0: no such capture yet; Gone: deleted
    pcapSaved,       \* the names in .forwarded
    pcapSeen,        \* seen, the set in memory
    pcapPc,          \* what the forwarder does next
    pcapScan,        \* the names left of the scan; the least is in hand
    pcapContent,     \* the size of the content read
    pcapTry,         \* attempts begun in _send_with_retry
    pcapCrashes,     \* crashes so far
    pcapBuffered,    \* captures a message of which is left in the producer's buffer
    pcapArrived,     \* history: messages of each capture Kafka stored; 2 for more
    pcapTroubled,    \* history: captures a send of which did not go through at once
    pcapSkipped      \* history: the captures found too large

pcapDisk == <<pcapSize, pcapSaved>>
pcapKafka == <<pcapBuffered, pcapArrived, pcapTroubled>>
pcapVars == <<pcapDisk, pcapSeen, pcapPc, pcapScan, pcapContent, pcapTry, pcapCrashes,
              pcapKafka, pcapSkipped>>

Gone == 4
\* for p in sorted(...)
Hand == CHOOSE c \in pcapScan : \A d \in pcapScan : c <= d
Rest == pcapScan \ {Hand}

PcapTypeOK ==
    /\ pcapSize \in [Captures -> 0 .. Gone]
    /\ pcapSaved \subseteq Captures /\ pcapSeen \subseteq Captures
    /\ pcapPc \in {"down", "connect", "idle", "stat", "read", "send", "wait", "mark", "save"}
    /\ pcapScan \subseteq Captures
    /\ pcapPc \in {"read", "send", "wait", "mark", "save"} => pcapScan # {}
    /\ pcapContent \in 0 .. 3 /\ pcapTry \in 0 .. SendTries
    /\ pcapArrived \in [Captures -> 0 .. 2]
    /\ \A names \in {pcapBuffered, pcapTroubled, pcapSkipped} : names \subseteq Captures
    /\ pcapCrashes \in 0 .. MaxCrashes

PcapInit ==
    /\ pcapSize = [c \in Captures |-> 0]
    /\ pcapSaved = {} /\ pcapSeen = {}
    /\ pcapPc = "down"
    /\ pcapScan = {}
    /\ pcapContent = 0 /\ pcapTry = 0
    /\ pcapBuffered = {}
    /\ pcapArrived = [c \in Captures |-> 0]
    /\ pcapTroubled = {}
    /\ pcapCrashes = 0
    /\ pcapSkipped = {}

-----------------------------------------------------------------------------
(* Seeded fault *)

\* SendFails: the loop ends and the file counts as forwarded.
SendFailsSilently ==
    /\ pcapPc = "send"
    /\ pcapPc' = IF pcapTry = SendTries THEN "mark" ELSE "wait"
    /\ pcapTroubled' = pcapTroubled \cup {Hand}
    /\ UNCHANGED <<pcapDisk, pcapSeen, pcapScan, pcapContent, pcapTry, pcapCrashes, pcapBuffered,
                   pcapArrived, pcapSkipped>>

-----------------------------------------------------------------------------
\* Kafka stores a message of capture c.
Arrives(c) == pcapArrived' = [pcapArrived EXCEPT ![c] = IF @ = 2 THEN 2 ELSE @ + 1]

\* _load_seen, and the start of the process.
LoadSeen ==
    /\ pcapPc = "down"
    /\ pcapSeen' = pcapSaved
    /\ pcapPc' = "connect"
    /\ UNCHANGED <<pcapDisk, pcapScan, pcapContent, pcapTry, pcapCrashes, pcapKafka, pcapSkipped>>

\* _build_producer: connected, or given up after ten attempts, which ends the
\* process; it is started again.
Connect ==
    /\ pcapPc = "connect"
    /\ pcapPc' \in {"idle", "down"}
    /\ UNCHANGED <<pcapDisk, pcapSeen, pcapScan, pcapContent, pcapTry, pcapCrashes, pcapKafka,
                   pcapSkipped>>

\* main: a scan is a sorted snapshot of the names; the ones in seen are skipped.
Scan ==
    /\ pcapPc = "idle"
    /\ pcapScan' = {c \in Captures : pcapSize[c] \in 1 .. 3} \ pcapSeen
    /\ pcapPc' = "stat"
    /\ UNCHANGED <<pcapDisk, pcapSeen, pcapContent, pcapTry, pcapCrashes, pcapKafka, pcapSkipped>>

\* _process_file: a capture beyond the limit counts as done.
Stat ==
    /\ pcapPc = "stat" /\ pcapScan # {} /\ pcapSize[Hand] # Gone
    /\ IF pcapSize[Hand] = 3
         THEN pcapPc' = "mark" /\ pcapSkipped' = pcapSkipped \cup {Hand}
         ELSE pcapPc' = "read" /\ UNCHANGED pcapSkipped
    /\ UNCHANGED <<pcapDisk, pcapSeen, pcapScan, pcapContent, pcapTry, pcapCrashes, pcapKafka>>

\* The content is read in full, as large as it has become.
Read ==
    /\ pcapPc = "read" /\ pcapSize[Hand] # Gone
    /\ pcapContent' = pcapSize[Hand]
    /\ pcapTry' = 1
    /\ pcapPc' = "send"
    /\ UNCHANGED <<pcapDisk, pcapSeen, pcapScan, pcapCrashes, pcapKafka, pcapSkipped>>

\* The capture has been deleted: the OSError ends the scan, not the loop.
FileGone ==
    /\ pcapPc \in {"stat", "read"} /\ pcapScan # {} /\ pcapSize[Hand] = Gone
    /\ pcapScan' = {}
    /\ pcapPc' = "idle"
    /\ UNCHANGED <<pcapDisk, pcapSeen, pcapContent, pcapTry, pcapCrashes, pcapKafka, pcapSkipped>>

\* _send_with_retry: the future is resolved, all replicas have the message.  If
\* the producer had to repeat its request (retries=5), they may have it twice.
SendConfirmed ==
    /\ pcapPc = "send" /\ pcapContent = 1
    /\ \/ Arrives(Hand) /\ UNCHANGED pcapTroubled
       \/ /\ pcapArrived' = [pcapArrived EXCEPT ![Hand] = 2]
          /\ pcapTroubled' = pcapTroubled \cup {Hand}
    /\ pcapPc' = "mark"
    /\ UNCHANGED <<pcapDisk, pcapSeen, pcapScan, pcapContent, pcapTry, pcapCrashes, pcapBuffered,
                   pcapSkipped>>

\* What may have become of a message whose send failed; one that is too large
\* was refused.
MessageIsLeft ==
    \/ UNCHANGED <<pcapArrived, pcapBuffered>>
    \/ pcapContent = 1 /\ Arrives(Hand) /\ UNCHANGED pcapBuffered
    \/ pcapContent = 1 /\ pcapBuffered' = pcapBuffered \cup {Hand} /\ UNCHANGED pcapArrived

\* An error; always one if the message is too large.  After the last attempt the
\* capture is left for the next scan.
SendFails ==
    /\ pcapPc = "send"
    /\ MessageIsLeft
    /\ pcapTroubled' = pcapTroubled \cup {Hand}
    /\ IF pcapTry = SendTries
         THEN pcapPc' = "stat" /\ pcapScan' = Rest
         ELSE pcapPc' = "wait" /\ UNCHANGED pcapScan
    /\ UNCHANGED <<pcapDisk, pcapSeen, pcapContent, pcapTry, pcapCrashes, pcapSkipped>>

SendAgain ==
    /\ pcapPc = "wait"
    /\ pcapTry' = pcapTry + 1
    /\ pcapPc' = "send"
    /\ UNCHANGED <<pcapDisk, pcapSeen, pcapScan, pcapContent, pcapCrashes, pcapKafka, pcapSkipped>>

\* The producer gets rid of a message left in its buffer, to Kafka or for good.
\* More of the same capture may be left.
LateArrival(c) ==
    /\ c \in pcapBuffered
    /\ Arrives(c) \/ UNCHANGED pcapArrived
    /\ pcapBuffered' \in {pcapBuffered, pcapBuffered \ {c}}
    /\ UNCHANGED <<pcapDisk, pcapSeen, pcapPc, pcapScan, pcapContent, pcapTry, pcapCrashes,
                   pcapTroubled, pcapSkipped>>

\* seen.add, and _save_seen opens the file: write_text truncates it.
MarkSeen ==
    /\ pcapPc = "mark"
    /\ pcapSeen' = pcapSeen \cup {Hand}
    /\ pcapSaved' = {}
    /\ pcapPc' = "save"
    /\ UNCHANGED <<pcapSize, pcapScan, pcapContent, pcapTry, pcapCrashes, pcapKafka, pcapSkipped>>

WriteSaved ==
    /\ pcapPc = "save"
    /\ pcapSaved' = pcapSeen
    /\ pcapScan' = Rest
    /\ pcapPc' = "stat"
    /\ UNCHANGED <<pcapSize, pcapSeen, pcapContent, pcapTry, pcapCrashes, pcapKafka, pcapSkipped>>

\* The file cannot be opened, or not be written to: the OSError ends the scan.
SaveFails ==
    /\ \/ pcapPc = "mark" /\ pcapSeen' = pcapSeen \cup {Hand}
       \/ pcapPc = "save" /\ UNCHANGED pcapSeen
    /\ pcapScan' = {}
    /\ pcapPc' = "idle"
    /\ UNCHANGED <<pcapDisk, pcapContent, pcapTry, pcapCrashes, pcapKafka, pcapSkipped>>

\* The scan is over; POLL_INTERVAL seconds later comes the next.
ScanEnds ==
    /\ pcapPc = "stat" /\ pcapScan = {}
    /\ pcapPc' = "idle"
    /\ UNCHANGED <<pcapDisk, pcapSeen, pcapScan, pcapContent, pcapTry, pcapCrashes, pcapKafka,
                   pcapSkipped>>

\* The buffer of the producer goes with the process.  What it was sending may
\* have arrived.
ForwarderCrash ==
    /\ pcapPc # "down" /\ pcapCrashes < MaxCrashes
    /\ pcapCrashes' = pcapCrashes + 1
    /\ pcapPc' = "down"
    /\ pcapSeen' = {} /\ pcapScan' = {}
    /\ pcapBuffered' = {}
    /\ \/ UNCHANGED <<pcapArrived, pcapTroubled>>
       \/ /\ pcapPc = "send" /\ pcapContent = 1
          /\ Arrives(Hand) /\ pcapTroubled' = pcapTroubled \cup {Hand}
    /\ UNCHANGED <<pcapDisk, pcapContent, pcapTry, pcapSkipped>>

\* tcpdump creates the capture or writes on, a restarted tcpdump begins it anew,
\* retention deletes it.
CaptureBecomes(c, size) ==
    /\ pcapSize' = [pcapSize EXCEPT ![c] = size]
    /\ UNCHANGED <<pcapSaved, pcapSeen, pcapPc, pcapScan, pcapContent, pcapTry, pcapCrashes,
                   pcapKafka, pcapSkipped>>

CaptureGrows(c) == pcapSize[c] < 3 /\ CaptureBecomes(c, pcapSize[c] + 1)
CaptureRestarts(c) == pcapSize[c] # 0 /\ CaptureBecomes(c, 1)
CaptureExpires(c) == pcapSize[c] \in 1 .. 3 /\ CaptureBecomes(c, Gone)

ForwarderStep ==
    \/ LoadSeen \/ Connect \/ Scan \/ Stat \/ Read \/ FileGone \/ SendConfirmed
    \/ SendFails \/ SendAgain \/ MarkSeen \/ WriteSaved \/ SaveFails
    \/ ScanEnds

PcapNext ==
    \/ ForwarderStep
    \/ ForwarderCrash
    \/ \E c \in Captures :
         LateArrival(c) \/ CaptureGrows(c) \/ CaptureRestarts(c) \/ CaptureExpires(c)
PcapSpec == PcapInit /\ [][PcapNext]_pcapVars

-----------------------------------------------------------------------------
\* What is in .forwarded, or in seen, arrived at Kafka or was found too large: no
\* failed send, crash or deleted file makes the forwarder pass over a name it has not
\* delivered.  And Kafka has a name twice only if a send of it ran into trouble, which
\* may leave a message in the producer's buffer beside its retry, or if the forwarder
\* crashed between the send and the end of the save (forwarder.py:36-43, 65-80, 117-128),
\* although honeypot-farm/README.md:58 says that the file prevents it.
ForwardedOnce ==
    /\ \A c \in pcapSaved \cup pcapSeen : pcapArrived[c] > 0 \/ c \in pcapSkipped
    /\ \A c \in Captures : pcapArrived[c] = 2 => c \in pcapTroubled \/ pcapCrashes > 0
=============================================================================
