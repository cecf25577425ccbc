----------------------------- MODULE LossyFifo -----------------------------
(***************************************************************************)
(* What an in-memory event bus promises its subscribers: events arrive in  *)
(* the order they were published, none of them twice, and an event may be  *)
(* passed over only when at least Capacity younger events had already been *)
(* published -- the bus sheds load, and only its oldest load.              *)
(*                                                                         *)
(* The n-th published event is the number n.                               *)
(***************************************************************************)
EXTENDS Naturals, Sequences

CONSTANT Capacity   \* a positive number

VARIABLES
    sent,       \* number of events published so far
    received    \* the events handed to subscribers, in order

fifoVars == <<sent, received>>

\* The youngest event handed out so far.
Newest == IF received = <<>> THEN 0 ELSE received[Len(received)]

Init ==
    /\ sent = 0
    /\ received = <<>>

Send ==
    /\ sent' = sent + 1
    /\ UNCHANGED received

\* Hand out an event younger than every earlier one.  Whatever is skipped
\* has been overrun by Capacity younger events.
Receive ==
    \E e \in Newest + 1 .. sent :
        /\ \A skipped \in Newest + 1 .. e - 1 : skipped + Capacity <= sent
        /\ received' = Append(received, e)
        /\ UNCHANGED sent

Next == Send \/ Receive

Spec == Init /\ [][Next]_fifoVars
=============================================================================
