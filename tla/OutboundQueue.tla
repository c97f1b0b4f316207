---------------------------- MODULE OutboundQueue ----------------------------
(***************************************************************************)
(* The outbound federation queue: OutboundTransactionQueue of              *)
(* packages/server/src/federation/outbound_queue.rs.                       *)
(*                                                                         *)
(* Request handlers put events on an unbounded channel.  One task owns     *)
(* everything else and runs a loop: it waits in tokio::select! for an      *)
(* event or for a 100 ms sleep, files the event in a queue of its          *)
(* destination, and sends a destination's queues as one transaction when a *)
(* queue is full or when the sleep ends.  Sending is awaited inside the    *)
(* loop, retries and back-off included.                                    *)
(*                                                                         *)
(* pc says where the task is suspended:                                    *)
(*   "select"  in tokio::select! of run()                                  *)
(*   "flush"   between two destinations of a flush                         *)
(*   "send"    awaiting federation_client.send_transaction()               *)
(*   "sleep"   awaiting the back-off before the next attempt               *)
(*                                                                         *)
(* What the destination answers is left open here (AttemptOk,              *)
(* AttemptRetryable, AttemptFatal); module FederationLink connects the     *)
(* task to a network and a receiver.                                       *)
(***************************************************************************)
EXTENDS Naturals, Sequences, FiniteSets

CONSTANTS
    Dest,        \* destination server names
    Pdu,         \* persistent events that can be queued
    Edu,         \* ephemeral events that can be queued
    TxnId,       \* transaction ids, "txn_" followed by a fresh UUID
    MaxPdus,     \* max_pdus_per_txn, 50 in the code
    MaxEdus,     \* max_edus_per_txn, 100 in the code
    MaxRetries,  \* max_retries, 5 in the code
    BackoffCap,  \* 30 s, in units of the first back-off (100 ms): 300
    FlushTicks,  \* length of the select! sleep, in clock ticks
    MaxChan      \* bound: events waiting in the (unbounded) channel

ASSUME LimitsAssumption ==
    /\ MaxPdus \in Nat \ {0}
    /\ MaxEdus \in Nat \ {0}
    /\ MaxRetries \in Nat
    /\ BackoffCap \in Nat \ {0}
    /\ FlushTicks \in Nat \ {0}
    /\ MaxChan \in Nat

ASSUME KindsAssumption == Pdu \cap Edu = {}

VARIABLES
    chan,      \* event_rx: the channel's contents, oldest first
    pduQ,      \* pdu_queues
    eduQ,      \* edu_queues
    inFlight,  \* the keys of in_flight_transactions
    pc,        \* where the task is suspended
    todo,      \* destinations the flush still has to visit
    txn,       \* the transaction last built by flush_queue
    retries,   \* retry_count of send_transaction_with_retry
    backoff,   \* its backoff, in units of 100 ms
    clock      \* ticks since the current select! began

queueVars == <<pduQ, eduQ>>
sendVars == <<inFlight, txn, retries, backoff>>
vars == <<chan, pduQ, eduQ, inFlight, pc, todo, txn, retries, backoff, clock>>

Event == [dest : Dest, item : Pdu \cup Edu]

Transaction == [dest : Dest, id : TxnId, pdus : Seq(Pdu), edus : Seq(Edu)]

(* Before the first flush no transaction has been built. *)
NoTxn == [dest |-> "none"]

-----------------------------------------------------------------------------
(* Helpers.                                                                *)

AtMost(m, n) == IF m <= n THEN m ELSE n

(* (0..n).filter_map(|_| q.pop_front()): what is taken, what is left. *)
Taken(q, n) == SubSeq(q, 1, AtMost(n, Len(q)))
(* Mutant: the batch is cloned, not popped. *)
LeftCloned(q, n) == q
Left(q, n) == SubSeq(q, AtMost(n, Len(q)) + 1, Len(q))

(* flush_queue goes on to send: nothing in flight, something queued. *)
MayStart(d) ==
    /\ d \notin inFlight
    /\ pduQ[d] # << >> \/ eduQ[d] # << >>

(* d's queues are both short of a batch. *)
HasRoom(d) == Len(pduQ[d]) < MaxPdus /\ Len(eduQ[d]) < MaxEdus

TypeOK ==
    /\ chan \in Seq(Event)
    /\ pduQ \in [Dest -> Seq(Pdu)]
    /\ eduQ \in [Dest -> Seq(Edu)]
    /\ inFlight \in SUBSET Dest
    /\ pc \in {"select", "flush", "send", "sleep"}
    /\ todo \in SUBSET Dest
    /\ txn \in Transaction \cup {NoTxn}
    /\ retries \in 0 .. MaxRetries
    /\ backoff \in 1 .. BackoffCap
    /\ clock \in 0 .. FlushTicks

(* new(), then the first turn of run(). *)
Init ==
    /\ chan = << >>
    /\ pduQ = [d \in Dest |-> << >>]
    /\ eduQ = [d \in Dest |-> << >>]
    /\ inFlight = {}
    /\ pc = "select"
    /\ todo = {}
    /\ txn = NoTxn
    /\ retries = 0
    /\ backoff = 1
    /\ clock = 0

-----------------------------------------------------------------------------
(* The request handlers: outbound_tx.send(event).                          *)

Produce(e) ==
    /\ Len(chan) < MaxChan
    /\ chan' = Append(chan, e)
    /\ UNCHANGED <<queueVars, sendVars, pc, todo, clock>>

-----------------------------------------------------------------------------
(* The loop of run().                                                      *)

(* Mutant: a full queue waits for the sleep. *)
AfterQueueingLazy(d, full) == UNCHANGED <<pc, todo>>

(* queue_event flushes at once when the queue it appended to is full; the  *)
(* flush visits that one destination.                                      *)
AfterQueueing(d, full) ==
    IF full
    THEN /\ pc' = "flush"
         /\ todo' = {d}
    ELSE UNCHANGED <<pc, todo>>

(* recv() won the select!: queue_event.  The next turn of the loop creates *)
(* a new sleep.                                                            *)
QueuePdu ==
    /\ pc = "select"
    /\ chan # << >>
    /\ Head(chan).item \in Pdu
    /\ LET d == Head(chan).dest
           q == Append(pduQ[d], Head(chan).item)
       IN  /\ pduQ' = [pduQ EXCEPT ![d] = q]
           /\ AfterQueueing(d, Len(q) >= MaxPdus)
    /\ chan' = Tail(chan)
    /\ clock' = 0
    /\ UNCHANGED <<eduQ, sendVars>>

QueueEdu ==
    /\ pc = "select"
    /\ chan # << >>
    /\ Head(chan).item \in Edu
    /\ LET d == Head(chan).dest
           q == Append(eduQ[d], Head(chan).item)
       IN  /\ eduQ' = [eduQ EXCEPT ![d] = q]
           /\ AfterQueueing(d, Len(q) >= MaxEdus)
    /\ chan' = Tail(chan)
    /\ clock' = 0
    /\ UNCHANGED <<pduQ, sendVars>>

(* Time passes in select! only while recv() has nothing to return. *)
Tick ==
    /\ pc = "select"
    /\ chan = << >>
    /\ clock < FlushTicks
    /\ clock' = clock + 1
    /\ UNCHANGED <<chan, queueVars, sendVars, pc, todo>>

(* Mutant: the destinations are collected from one of the two maps. *)
TimerFiresEdusOnly ==
    /\ pc = "select"
    /\ clock = FlushTicks
    /\ pc' = "flush"
    /\ todo' = {d \in Dest : eduQ[d] # << >>}
    /\ UNCHANGED <<chan, queueVars, sendVars, clock>>

(* The sleep won the select!: flush_all_queues.  A destination without     *)
(* entries in the maps has nothing to flush, so todo may name every one.   *)
TimerFires ==
    /\ pc = "select"
    /\ clock = FlushTicks
    /\ pc' = "flush"
    /\ todo' = Dest
    /\ UNCHANGED <<chan, queueVars, sendVars, clock>>

(* Mutant: one sleep made before the loop, and never renewed. *)
FlushDoneOneSleep ==
    /\ pc = "flush"
    /\ todo = {}
    /\ pc' = "select"
    /\ UNCHANGED <<chan, queueVars, sendVars, todo, clock>>

(* The flush has visited every destination: back to select!. *)
FlushDone ==
    /\ pc = "flush"
    /\ todo = {}
    /\ pc' = "select"
    /\ clock' = 0
    /\ UNCHANGED <<chan, queueVars, sendVars, todo>>

-----------------------------------------------------------------------------
(* flush_queue(d).                                                         *)

(* The early returns: a transaction in flight, or nothing to send. *)
SkipFlush(d) ==
    /\ pc = "flush"
    /\ d \in todo
    /\ ~MayStart(d)
    /\ todo' = todo \ {d}
    /\ UNCHANGED <<chan, queueVars, sendVars, pc, clock>>

(* Pop a batch from both queues, build the transaction under id u, mark it *)
(* in flight and start the first attempt.                                  *)
StartTxn(d, u) ==
    /\ pc = "flush"
    /\ d \in todo
    /\ MayStart(d)
    /\ txn' = [dest |-> d, id |-> u,
               pdus |-> Taken(pduQ[d], MaxPdus),
               edus |-> Taken(eduQ[d], MaxEdus)]
    /\ pduQ' = [pduQ EXCEPT ![d] = Left(pduQ[d], MaxPdus)]
    /\ eduQ' = [eduQ EXCEPT ![d] = Left(eduQ[d], MaxEdus)]
    /\ inFlight' = inFlight \cup {d}
    /\ pc' = "send"
    /\ retries' = 0
    /\ backoff' = 1
    /\ UNCHANGED <<chan, todo, clock>>

(* Mutant: the mark is removed only on the path without an error. *)
FinishTxnLeaksMark ==
    /\ pc = "send"
    /\ inFlight' = IF retries = 0 THEN inFlight \ {txn.dest} ELSE inFlight
    /\ todo' = todo \ {txn.dest}
    /\ pc' = "flush"
    /\ UNCHANGED <<chan, queueVars, txn, retries, backoff, clock>>

(* send_transaction_with_retry returned: flush_queue removes the in-flight *)
(* mark.  Its caller logs an error and visits the next destination.        *)
FinishTxn ==
    /\ pc = "send"
    /\ inFlight' = inFlight \ {txn.dest}
    /\ todo' = todo \ {txn.dest}
    /\ pc' = "flush"
    /\ UNCHANGED <<chan, queueVars, txn, retries, backoff, clock>>

(* 200 with a body that parses. *)
AttemptOk == FinishTxn

(* Mutant: one retry more than max_retries. *)
AttemptRetryableOneMore ==
    /\ pc = "send"
    /\ retries <= MaxRetries
    /\ retries' = retries + 1
    /\ pc' = "sleep"
    /\ UNCHANGED <<chan, queueVars, inFlight, txn, backoff, todo, clock>>

(* Mutant: retries are not counted. *)
AttemptRetryableForever ==
    /\ pc = "send"
    /\ retries < MaxRetries
    /\ pc' = "sleep"
    /\ UNCHANGED <<chan, queueVars, inFlight, txn, retries, backoff, todo, clock>>

(* HttpError or Timeout with retries left: sleep, double the back-off. *)
AttemptRetryable ==
    /\ pc = "send"
    /\ retries < MaxRetries
    /\ retries' = retries + 1
    /\ pc' = "sleep"
    /\ UNCHANGED <<chan, queueVars, inFlight, txn, backoff, todo, clock>>

Wake ==
    /\ pc = "sleep"
    /\ pc' = "send"
    /\ backoff' = AtMost(backoff * 2, BackoffCap)
    /\ UNCHANGED <<chan, queueVars, inFlight, txn, retries, todo, clock>>

(* HttpError or Timeout with no retry left: the transaction is given up. *)
AttemptExhausted ==
    /\ retries = MaxRetries
    /\ FinishTxn

(* Any other error (a status that is not 2xx, a signing failure): the      *)
(* transaction is given up at once.                                        *)
AttemptFatal == FinishTxn

-----------------------------------------------------------------------------
(* Where a queued item is. *)
Items(s) == {s[i] : i \in 1 .. Len(s)}
InChan == {chan[i].item : i \in 1 .. Len(chan)}
InQueue(d) == Items(pduQ[d]) \cup Items(eduQ[d])
InTxn == IF pc \in {"send", "sleep"}
         THEN Items(txn.pdus) \cup Items(txn.edus)
         ELSE {}
InSystem == InChan \cup InTxn \cup UNION {InQueue(d) : d \in Dest}

(* The attempt's answer: request_timeout bounds how long it can be missing. *)
Answer == AttemptOk \/ AttemptRetryable \/ AttemptExhausted \/ AttemptFatal

(* The task's own steps, the clock's and the answers. *)
LoopStep ==
    \/ QueuePdu
    \/ QueueEdu
    \/ Tick
    \/ TimerFires
    \/ FlushDone
    \/ \E d \in Dest : SkipFlush(d)
    \/ \E d \in Dest, u \in TxnId : StartTxn(d, u)
    \/ Wake
    \/ Answer

(* An event is a new one: it is nowhere in the sender yet. *)
Next ==
    \/ \E e \in Event : e.item \notin InSystem /\ Produce(e)
    \/ LoopStep

Spec == Init /\ [][Next]_vars /\ WF_vars(LoopStep)

-----------------------------------------------------------------------------
(* Properties.                                                             *)

(* The in-flight map names exactly the transaction being sent: every way   *)
(* out of send_transaction_with_retry removes the mark, so the "already in *)
(* flight" return of flush_queue never leaves a destination behind.        *)
InFlightExact ==
    inFlight = IF pc \in {"send", "sleep"} THEN {txn.dest} ELSE {}

(* While the task waits in select!, every queue is short of one batch: the *)
(* flush in queue_event happens at the right length, and no failed or      *)
(* skipped flush lets a queue grow beyond what one transaction may carry.  *)
BelowLimit ==
    \A d \in Dest :
        /\ Len(pduQ[d]) <= MaxPdus
        /\ Len(eduQ[d]) <= MaxEdus
        /\ pc = "select" => HasRoom(d)

(* A transaction takes everything its destination had queued, so no event  *)
(* for that destination is left behind the ones being sent.                *)
FlushEmpties ==
    pc \in {"send", "sleep"} =>
        pduQ[txn.dest] = << >> /\ eduQ[txn.dest] = << >>

(* An event is in one place only: popping a batch, retrying it and giving  *)
(* it up never leave a copy in the channel or in a queue.                  *)
NoCopies ==
    /\ \A i, j \in 1 .. Len(chan) : chan[i].item = chan[j].item => i = j
    /\ InChan \cap InTxn = {}
    /\ \A d \in Dest :
          /\ Cardinality(InQueue(d)) = Len(pduQ[d]) + Len(eduQ[d])
          /\ InQueue(d) \cap (InChan \cup InTxn) = {}
          /\ \A c \in Dest \ {d} : InQueue(c) \cap InQueue(d) = {}

(* A flush ends: retries are bounded and each destination is visited once, *)
(* so the loop comes back to select! whatever the destinations answer.     *)
FlushEnds == pc # "select" ~> pc = "select"

(* Every event put on the channel is taken from it: the sleep branch and a *)
(* slow destination delay the recv branch but never starve it.             *)
ChannelDrains ==
    \A i \in Pdu \cup Edu : i \in InChan ~> i \notin InChan

(* Once producers pause, everything handed to the task is delivered or     *)
(* given up: no full or partly filled queue, no in-flight mark and no      *)
(* other destination's retries leave an event behind in its queue.         *)
QueuesDrain ==
    <>[](chan = << >>) => <>[](\A d \in Dest : InQueue(d) = {})
=============================================================================
