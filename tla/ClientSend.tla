----------------------------- MODULE ClientSend -----------------------------
(***************************************************************************)
(* A client sends a message: PUT /rooms/{roomId}/send/{eventType}/{txnId}  *)
(* of packages/server/src/_matrix/client/v3/rooms/by_room_id/send/         *)
(* by_event_type/by_txn_id.rs, with EventRepository::create_complete_event *)
(* of packages/surrealdb/src/repository/event.rs.                          *)
(*                                                                         *)
(* One room and one user.  Requests run concurrently and a client repeats  *)
(* the ones it has no 200 for.  A handler is split where it awaits a       *)
(* statement whose outcome other requests can change; stage names the next *)
(* one.                                                                    *)
(***************************************************************************)
EXTENDS Naturals, FiniteSets

CONSTANTS
    EventId,        \* event ids, "$" followed by a fresh UUID
    TxnId,          \* transaction ids the client uses
    RequestId,      \* one per HTTP request
    First,          \* the event the room has before the first message
    MaxPrev         \* at most this many prev_events, 20 in the code

ASSUME SendAssumption ==
    /\ First \in EventId
    /\ MaxPrev \in Nat \ {0}

VARIABLES
    ids,       \* the events in the event table
    event,     \* their rows
    mapping,   \* the rows of transaction_mapping
    reqs,      \* the running activations of put()
    replies,   \* the answers
    seen,      \* the requests that have arrived
    generated, \* every event id ever generated
    queued     \* the events put on outbound_tx

sendTables == <<ids, event, mapping>>
sendVars == <<ids, event, mapping, reqs, replies, seen, generated, queued>>

NoTxn == "none"

EventRow == [txn : TxnId \cup {NoTxn}, prev : SUBSET EventId, depth : Nat \ {0},
             signed : BOOLEAN]

MappingRow == [txn : TxnId, id : EventId]

Request == [rid : RequestId, txn : TxnId, id : EventId,
            stage : {"recheck", "dag", "create", "map", "sign"},
            prev : SUBSET EventId, depth : Nat \ {0}]

SendReply == [rid : RequestId, txn : TxnId, status : {"ok", "failed"}, id : EventId]

SendTypeOK ==
    /\ ids \subseteq EventId
    /\ event \in [ids -> EventRow]
    /\ mapping \subseteq MappingRow
    /\ reqs \subseteq Request
    /\ replies \subseteq SendReply
    /\ seen \subseteq RequestId
    /\ generated \subseteq EventId
    /\ queued \subseteq EventId

SendInit ==
    /\ ids = {First}
    /\ event = [e \in ids |-> [txn |-> NoTxn, prev |-> {}, depth |-> 1, signed |-> TRUE]]
    /\ mapping = {}
    /\ reqs = {}
    /\ replies = {}
    /\ seen = {}
    /\ generated = {First}
    /\ queued = {}

-----------------------------------------------------------------------------
(* Helpers.                                                                *)

(* get_prev_events: the events no other event refers to. *)
Extremities == {e \in ids : \A f \in ids : e \notin event[f].prev}

(* Mutant: the depth of the deepest one itself. *)
DepthAfterSame(P, d) ==
    \/ P = {} /\ d = 1
    \/ \E e \in P : d = event[e].depth /\ \A f \in P : event[f].depth <= event[e].depth

(* calculate_event_depth for the prev_events P; 1 without any. *)
DepthAfter(P, d) ==
    \/ P = {} /\ d = 1
    \/ \E e \in P : d = event[e].depth + 1 /\ \A f \in P : event[f].depth <= event[e].depth

Mapped(t) == {m \in mapping : m.txn = t}

Step(r, s) == reqs' = (reqs \ {r}) \cup {s}

Reply(r, status) ==
    /\ replies' = replies \cup
         {[rid |-> r.rid, txn |-> r.txn, status |-> status, id |-> r.id]}
    /\ reqs' = reqs \ {r}

-----------------------------------------------------------------------------
(* The steps of put().                                                     *)

(* The transaction id was used before: the answer is the first row found.  *)
(* Record ids are random and nothing orders the rows, so a row stored      *)
(* later may come first.                                                   *)
ArriveKnown(rid, t) ==
    \E m \in Mapped(t) :
        /\ rid \notin seen
        /\ seen' = seen \cup {rid}
        /\ replies' = replies \cup
             {[rid |-> rid, txn |-> t, status |-> "ok", id |-> m.id]}
        /\ UNCHANGED <<sendTables, reqs, generated, queued>>

(* It was not.  The id the event will have is a fresh UUID. *)
Arrive(rid, t, i) ==
    /\ rid \notin seen
    /\ seen' = seen \cup {rid}
    /\ Mapped(t) = {}
    /\ i \notin generated
    /\ generated' = generated \cup {i}
    /\ reqs' = reqs \cup {[rid |-> rid, txn |-> t, id |-> i, stage |-> "recheck",
                           prev |-> {}, depth |-> 1]}
    /\ UNCHANGED <<sendTables, replies, queued>>

(* Room, membership, event type, power levels or replacement are refused,  *)
(* or one of these lookups fails.                                          *)
Refuse(r) ==
    /\ r.stage = "recheck"
    /\ Reply(r, "failed")
    /\ UNCHANGED <<sendTables, seen, generated, queued>>

(* create_complete_event looks again: an event that was mapped meanwhile   *)
(* is taken over.                                                          *)
Recheck(r) ==
    /\ r.stage = "recheck"
    /\ IF \E m \in Mapped(r.txn) : m.id \in ids
       THEN \E m \in Mapped(r.txn) :
               m.id \in ids /\ Step(r, [r EXCEPT !.stage = "sign", !.id = m.id])
       ELSE Step(r, [r EXCEPT !.stage = "dag"])
    /\ UNCHANGED <<sendTables, replies, seen, generated, queued>>

(* get_prev_events, get_auth_events and calculate_event_depth.  Rows do    *)
(* not change, so the depth read is the depth at this moment.              *)
ReadDag(r) ==
    /\ r.stage = "dag"
    /\ \E P \in SUBSET Extremities :
          /\ P = Extremities \/ Cardinality(P) = MaxPrev
          /\ Cardinality(P) <= MaxPrev
          /\ \E d \in {1} \cup {event[e].depth + 1 : e \in P} :
                /\ DepthAfter(P, d)
                /\ Step(r, [r EXCEPT !.stage = "create", !.prev = P, !.depth = d])
    /\ UNCHANGED <<sendTables, replies, seen, generated, queued>>

(* create(): the event without hashes and signatures. *)
CreateEvent(r) ==
    /\ r.stage = "create"
    /\ ids' = ids \cup {r.id}
    /\ event' = [e \in ids' |->
                   IF e = r.id
                   THEN [txn |-> r.txn, prev |-> r.prev, depth |-> r.depth, signed |-> FALSE]
                   ELSE event[e]]
    /\ Step(r, [r EXCEPT !.stage = "map"])
    /\ UNCHANGED <<mapping, replies, seen, generated, queued>>

(* Mutant: the two ids are swapped. *)
StoreMappingSwapped(r) ==
    /\ r.stage = "map"
    /\ mapping' = mapping \cup {[txn |-> r.id, id |-> r.txn]}
    /\ Step(r, [r EXCEPT !.stage = "sign"])
    /\ UNCHANGED <<ids, event, replies, seen, generated, queued>>

(* store_transaction_mapping: a row under a new record id.  The unique     *)
(* index of migration 116 is not there, as the server applies none.        *)
StoreMapping(r) ==
    /\ r.stage = "map"
    /\ mapping' = mapping \cup {[txn |-> r.txn, id |-> r.id]}
    /\ Step(r, [r EXCEPT !.stage = "sign"])
    /\ UNCHANGED <<ids, event, replies, seen, generated, queued>>

(* Hashes and signatures, then create() once more.  A CREATE under an id   *)
(* that exists fails, and put() returns 500; otherwise the event is stored *)
(* signed, queued for the other servers of the room, and answered.         *)
SignAndStore(r) ==
    /\ r.stage = "sign"
    /\ IF r.id \in ids
       THEN /\ Reply(r, "failed")
            /\ UNCHANGED <<ids, event, queued>>
       ELSE /\ ids' = ids \cup {r.id}
            /\ event' = [e \in ids' |->
                           IF e = r.id
                           THEN [txn |-> r.txn, prev |-> r.prev, depth |-> r.depth,
                                 signed |-> TRUE]
                           ELSE event[e]]
            /\ queued' = queued \cup {r.id}
            /\ Reply(r, "ok")
    /\ UNCHANGED <<mapping, seen, generated>>

(* Mutant: the mapping of a failed attempt is written first. *)
AbortMapped(r) ==
    /\ reqs' = reqs \ {r}
    /\ mapping' = mapping \cup {[txn |-> r.txn, id |-> r.id]}
    /\ UNCHANGED <<ids, event, replies, seen, generated, queued>>

(* A statement fails, the server stops, or the client goes away: the       *)
(* activation ends without an answer the client can use.                   *)
AbortSend(r) ==
    /\ reqs' = reqs \ {r}
    /\ UNCHANGED <<sendTables, replies, seen, generated, queued>>

SendStep(r) ==
    \/ Refuse(r)
    \/ Recheck(r)
    \/ ReadDag(r)
    \/ CreateEvent(r)
    \/ StoreMapping(r)
    \/ SignAndStore(r)
    \/ AbortSend(r)

SendNext ==
    \/ \E rid \in RequestId, t \in TxnId : ArriveKnown(rid, t)
    \/ \E rid \in RequestId, t \in TxnId, i \in EventId : Arrive(rid, t, i)
    \/ \E r \in reqs : SendStep(r)

SendSpec == SendInit /\ [][SendNext]_sendVars

-----------------------------------------------------------------------------
(* Properties.                                                             *)

(* The room's events form a DAG whatever sends run at the same time: the   *)
(* prev_events of an event are in the table, and it is deeper than each of *)
(* them, by one for the deepest.                                           *)
DagSound ==
    \A e \in ids :
        /\ event[e].prev \subseteq ids
        /\ \A p \in event[e].prev : event[p].depth < event[e].depth
        /\ event[e].depth = 1 \/ \E p \in event[e].prev : event[e].depth = event[p].depth + 1

(* A transaction id never leads to an event that is not there or belongs   *)
(* to another transaction, wherever an attempt was cut short.              *)
MappingNamesEvent ==
    \A m \in mapping \cup {a \in replies : a.status = "ok"} :
        m.id \in ids /\ event[m.id].txn = m.txn

(* "Check if transaction ID has been used before (idempotency)": the       *)
(* requests of one transaction id that are answered name one event,        *)
(* however they overlap.                                                   *)
SameAnswer ==
    \A a, b \in replies :
        a.status = "ok" /\ b.status = "ok" /\ a.txn = b.txn => a.id = b.id

(* "Update the event in database with hashes and signatures": when no      *)
(* attempt is under way any more, the event a client was told of is signed *)
(* and on its way to the other servers.                                    *)
AnsweredIsSigned ==
    \A a \in replies :
        a.status = "ok" /\ (\A r \in reqs : r.txn # a.txn) =>
            event[a.id].signed /\ a.id \in queued
=============================================================================
