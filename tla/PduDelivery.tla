----------------------------- MODULE PduDelivery -----------------------------
(***************************************************************************)
(* What federation promises for the PDUs sent to one server, without       *)
(* queues, transactions, retries or caches.                                *)
(*                                                                         *)
(* PDUs wait in the order they were queued; a batch is sent at a time and  *)
(* takes the oldest ones; a batch ends acknowledged or dropped.  The peer  *)
(* may take in a PDU only once its batch was sent, each PDU at most once,  *)
(* and possibly after its batch was dropped.  An acknowledged batch was    *)
(* taken in or refused in full.                                            *)
(***************************************************************************)
EXTENDS Naturals, Sequences

CONSTANTS Pdu, MaxBatch

VARIABLES
    waiting,  \* PDUs not yet sent, oldest first
    sending,  \* the PDUs of the batch being sent
    acked,    \* PDUs of acknowledged batches
    dropped,  \* PDUs of dropped batches and PDUs lost before they were sent
    taken,    \* PDUs the peer took in
    refused   \* PDUs the peer refused, or took for another event

deliveryVars == <<waiting, sending, acked, dropped, taken, refused>>

Listed(s) == {s[i] : i \in 1 .. Len(s)}

(* PDUs the peer can have seen. *)
Sent == sending \cup acked \cup dropped

Init ==
    /\ waiting = << >>
    /\ sending = {} /\ acked = {} /\ dropped = {}
    /\ taken = {} /\ refused = {}

Queue(p) ==
    /\ p \notin Listed(waiting) \cup Sent
    /\ waiting' = Append(waiting, p)
    /\ UNCHANGED <<sending, acked, dropped, taken, refused>>

Send(n) ==
    /\ sending = {}
    /\ n \in 1 .. Len(waiting)
    /\ sending' = Listed(SubSeq(waiting, 1, n))
    /\ waiting' = SubSeq(waiting, n + 1, Len(waiting))
    /\ UNCHANGED <<acked, dropped, taken, refused>>

TakeIn(p) ==
    /\ p \in Sent \ taken
    /\ taken' = taken \cup {p}
    /\ UNCHANGED <<waiting, sending, acked, dropped, refused>>

Refuse(p) ==
    /\ p \in Sent
    /\ refused' = refused \cup {p}
    /\ UNCHANGED <<waiting, sending, acked, dropped, taken>>

Acknowledge ==
    /\ sending # {}
    /\ sending \subseteq taken \cup refused
    /\ acked' = acked \cup sending
    /\ sending' = {}
    /\ UNCHANGED <<waiting, dropped, taken, refused>>

Drop ==
    /\ sending # {}
    /\ dropped' = dropped \cup sending
    /\ sending' = {}
    /\ UNCHANGED <<waiting, acked, taken, refused>>

(* The sending server restarts: its queues were in memory. *)
Lose ==
    /\ dropped' = dropped \cup sending \cup Listed(waiting)
    /\ sending' = {}
    /\ waiting' = << >>
    /\ UNCHANGED <<acked, taken, refused>>

Next ==
    \/ \E p \in Pdu : Queue(p) \/ TakeIn(p) \/ Refuse(p)
    \/ \E n \in 1 .. MaxBatch : Send(n)
    \/ Acknowledge
    \/ Drop
    \/ Lose

Spec == Init /\ [][Next]_deliveryVars
=============================================================================
