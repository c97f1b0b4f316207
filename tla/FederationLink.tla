--------------------------- MODULE FederationLink ---------------------------
(***************************************************************************)
(* Two matryx servers and the network between them: the outbound queue of  *)
(* one (OutboundQueue), the transaction handler of the other               *)
(* (InboundTransaction), HTTP requests that can be lost or arrive after    *)
(* the sender stopped waiting, responses that can be lost, and restarts of *)
(* either server.                                                          *)
(*                                                                         *)
(* An attempt of send_transaction_with_retry is one request; its id is the *)
(* transaction id and the retry count.  request_timeout is not a clock     *)
(* here: an attempt may fail with HttpError at any moment, whatever the    *)
(* peer is doing with the request.                                         *)
(***************************************************************************)
EXTENDS OutboundQueue

CONSTANTS
    Peer,        \* the receiving server
    Twins,       \* see InboundTransaction
    DbFaults,    \* see InboundTransaction
    MaxRestarts  \* bound: restarts of the two servers together

ASSUME LinkAssumption == Dest = {Peer} /\ MaxRestarts \in Nat

VARIABLES
    events, eduLog, cache, handlers, replies, arrived,  \* the peer's state
    wire,      \* requests on their way to the peer
    order,     \* history: the events queued for the peer, in order
    acked,     \* history: transactions a 200 was read for
    givenUp,   \* history: transactions flush_queue returned an error for
    lost,      \* history: PDUs in memory when the sender restarted
    refused,   \* history: the PDUs the peer refused or took for another one
    restarts   \* how many restarts there were

peerVars == <<events, eduLog, cache, handlers, replies, arrived>>
history == <<order, acked, givenUp, lost, refused>>
linkVars == <<vars, peerVars, wire, history, restarts>>

RequestId == TxnId \X (0 .. MaxRetries)

(* The EDU struct serialises as {"ephemeral_event", "non_persistent"}: no  *)
(* EDU that a matryx server sends has a member "type".                     *)
TypedEdu == {}

R == INSTANCE InboundTransaction WITH Sent <- {}

Body(t) == [id |-> t.id, pdus |-> t.pdus, edus |-> t.edus]
PdusOf(txns) == UNION {Items(t.pdus) : t \in txns}

(* The request of the attempt under way. *)
ThisAttempt == <<txn.id, retries>>
ThisRequest == [rid |-> ThisAttempt, txn |-> Body(txn)]

UsedIds == {t.id : t \in acked \cup givenUp}

LinkInit ==
    /\ Init
    /\ R!InboundInit
    /\ wire = {}
    /\ order = << >>
    /\ acked = {} /\ givenUp = {} /\ lost = {} /\ refused = {}
    /\ restarts = 0

-----------------------------------------------------------------------------
(* The sender.                                                             *)

QueueItem(i) ==
    /\ i \notin Items(order)
    /\ Produce([dest |-> Peer, item |-> i])
    /\ order' = Append(order, i)
    /\ UNCHANGED <<peerVars, wire, acked, givenUp, lost, refused, restarts>>

(* Steps that put nothing on the network. *)
SenderLocal ==
    /\ \/ QueuePdu
       \/ QueueEdu
       \/ Tick
       \/ TimerFires
       \/ FlushDone
       \/ SkipFlush(Peer)
    /\ UNCHANGED <<peerVars, wire, history, restarts>>

(* Mutant: ids are drawn again after a restart. *)
SendFirstReusesIds(u) ==
    /\ StartTxn(Peer, u)
    /\ wire' = wire \cup {[rid |-> <<u, 0>>, txn |-> Body(txn')]}
    /\ UNCHANGED <<peerVars, history, restarts>>

(* A new transaction has a new UUID; its first attempt leaves. *)
SendFirst(u) ==
    /\ u \notin UsedIds
    /\ StartTxn(Peer, u)
    /\ wire' = wire \cup {[rid |-> <<u, 0>>, txn |-> Body(txn')]}
    /\ UNCHANGED <<peerVars, history, restarts>>

(* The back-off is over: the same transaction again. *)
SendAgain ==
    /\ Wake
    /\ wire' = wire \cup {ThisRequest}
    /\ UNCHANGED <<peerVars, history, restarts>>

ReadOk ==
    /\ pc = "send"
    /\ \E r \in replies : r.rid = ThisAttempt /\ r.status = "ok"
    /\ AttemptOk
    /\ acked' = acked \cup {txn}
    /\ UNCHANGED <<peerVars, wire, order, givenUp, lost, refused, restarts>>

(* Mutant: the status is not looked at. *)
ReadFailureAcks ==
    /\ pc = "send"
    /\ \E r \in replies : r.rid = ThisAttempt /\ r.status = "failed"
    /\ AttemptFatal
    /\ acked' = acked \cup {txn}
    /\ UNCHANGED <<peerVars, wire, order, givenUp, lost, refused, restarts>>

(* A status that is not 2xx becomes ServerError, which is not retried. *)
ReadFailure ==
    /\ pc = "send"
    /\ \E r \in replies : r.rid = ThisAttempt /\ r.status = "failed"
    /\ AttemptFatal
    /\ givenUp' = givenUp \cup {txn}
    /\ UNCHANGED <<peerVars, wire, order, acked, lost, refused, restarts>>

(* The request could not be signed: it never left. *)
SigningFails ==
    /\ pc = "send"
    /\ ThisRequest \in wire
    /\ AttemptFatal
    /\ wire' = wire \ {ThisRequest}
    /\ givenUp' = givenUp \cup {txn}
    /\ UNCHANGED <<peerVars, order, acked, lost, refused, restarts>>

(* No answer in time, a broken connection, or a body that does not parse. *)
GetsNoAnswer ==
    /\ \/ AttemptRetryable /\ UNCHANGED givenUp
       \/ AttemptExhausted /\ givenUp' = givenUp \cup {txn}
    /\ UNCHANGED <<peerVars, wire, order, acked, lost, refused, restarts>>

(* The queue task starts again from new(). *)
SenderRestart ==
    /\ restarts < MaxRestarts
    /\ restarts' = restarts + 1
    /\ lost' = lost \cup (InSystem \cap Pdu)
    /\ givenUp' = IF pc \in {"send", "sleep"} THEN givenUp \cup {txn} ELSE givenUp
    /\ chan' = << >>
    /\ pduQ' = [d \in Dest |-> << >>]
    /\ eduQ' = [d \in Dest |-> << >>]
    /\ inFlight' = {} /\ pc' = "select" /\ todo' = {} /\ txn' = NoTxn
    /\ retries' = 0 /\ backoff' = 1 /\ clock' = 0
    /\ UNCHANGED <<peerVars, wire, order, acked, refused>>

-----------------------------------------------------------------------------
(* The network and the peer.                                               *)

(* A request that stays on the wire for ever is a lost one. *)
RequestArrives(m) ==
    /\ m \in wire
    /\ wire' = wire \ {m}
    /\ R!ArriveCached(m.rid, m.txn) \/ R!ArriveNew(m.rid, m.txn)
    /\ UNCHANGED <<vars, history, restarts>>

(* A step of put(), with what it means for the PDU at hand. *)
PeerHandles(h) ==
    /\ \/ /\ R!RejectPdu(h)
          /\ refused' = refused \cup {R!ThisPdu(h)}
       \/ /\ R!StorePdu(h) \/ R!StorePduFails(h)
          /\ refused' = refused \cup ({R!ThisPdu(h)} \ events')
       \/ /\ \/ R!Verify(h)
             \/ R!VerifyFails(h)
             \/ R!ValidatePdu(h)
             \/ R!SkipEdu(h)
             \/ R!CacheAndReply(h)
          /\ UNCHANGED refused
    /\ UNCHANGED <<vars, wire, order, acked, givenUp, lost, restarts>>

PeerRestart ==
    /\ restarts < MaxRestarts
    /\ restarts' = restarts + 1
    /\ R!ReceiverRestart
    /\ UNCHANGED <<vars, wire, history>>

-----------------------------------------------------------------------------
SenderStep ==
    \/ SenderLocal
    \/ \E u \in TxnId : SendFirst(u)
    \/ SendAgain
    \/ ReadOk
    \/ ReadFailure
    \/ SigningFails
    \/ GetsNoAnswer

LinkNext ==
    \/ \E i \in Pdu \cup Edu : QueueItem(i)
    \/ SenderStep
    \/ \E m \in wire : RequestArrives(m)
    \/ \E h \in handlers : PeerHandles(h)
    \/ SenderRestart
    \/ PeerRestart

(* tokio runs the queue task, and request_timeout ends every attempt. *)
LinkSpec == LinkInit /\ [][LinkNext]_linkVars /\ WF_linkVars(SenderStep)

-----------------------------------------------------------------------------
(* Properties.                                                             *)

(* When the sender reads a 200, the peer is done with the transaction: each *)
(* of its PDUs is stored or was refused, whichever attempt the 200 answers *)
(* and whatever late attempts, restarts and cache rows there are.          *)
AckedHandled ==
    \A t \in acked : Items(t.pdus) \subseteq events \cup refused

(* The peer stores no PDU while one queued before it still waits at the    *)
(* sender, and what it stores was queued for it.                           *)
NoOvertaking ==
    \A j \in 1 .. Len(order) : order[j] \in events =>
        \A i \in 1 .. j : order[i] \notin InChan \cup InQueue(Peer)

(* Each transaction id stands for one body: a cached response is the       *)
(* response to what the request carries.                                   *)
OneBodyPerId ==
    \A m \in wire \cup handlers \cup replies : \A t \in acked \cup givenUp :
        m.txn.id = t.id => m.txn = Body(t)

-----------------------------------------------------------------------------
(* Refinement.  PDUs in the queue and in the channel are the ones waiting, *)
(* in that order of age.                                                   *)

(* The places of the channel that hold a PDU, and how many up to place i. *)
PduPlaces(s) == {i \in 1 .. Len(s) : s[i].item \in Pdu}
PdusUpTo(s, i) == Cardinality({j \in PduPlaces(s) : j <= i})

(* Its PDUs in order: the k-th is at the place with k PDUs up to it. *)
PdusIn(s) ==
    [k \in 1 .. Cardinality(PduPlaces(s)) |->
        s[CHOOSE i \in PduPlaces(s) : PdusUpTo(s, i) = k].item]

Waiting == pduQ[Peer] \o PdusIn(chan)
Sending == IF pc \in {"send", "sleep"} THEN Items(txn.pdus) ELSE {}

Delivery == INSTANCE PduDelivery WITH
    MaxBatch <- MaxPdus,
    waiting <- Waiting,
    sending <- Sending,
    acked <- PdusOf(acked),
    dropped <- PdusOf(givenUp) \cup lost,
    taken <- events,
    refused <- refused

(* Queue, transactions, retries, cache and restarts together deliver PDUs  *)
(* as PduDelivery describes: at most once, oldest first, acknowledged only *)
(* when the peer has dealt with them.                                      *)
ImplementsDelivery == Delivery!Spec
=============================================================================
