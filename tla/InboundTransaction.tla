------------------------- MODULE InboundTransaction -------------------------
(***************************************************************************)
(* The receiving side of federation: PUT /_matrix/federation/v1/send/{txn} *)
(* in packages/server/src/_matrix/federation/v1/send/by_txn_id.rs, with    *)
(* PduValidator::validate_pdu and the repositories it writes to.           *)
(*                                                                         *)
(* Each request is one activation of put(), and axum runs any number of    *)
(* them concurrently.  A handler is split where put() awaits the database: *)
(* the cache lookup, the verification of the request, one validation and   *)
(* one insertion per PDU, one handler per EDU, and the write of the cache. *)
(* stage names the await a handler will perform next.                      *)
(***************************************************************************)
EXTENDS Naturals, Sequences, FiniteSets

CONSTANTS
    Pdu,       \* PDUs, identified by event_id
    Edu,       \* EDUs
    TypedEdu,  \* the EDUs with a member "type" that put() knows, and "content"
    Twins,     \* pairs of PDUs check_event_deduplication takes for one event
    TxnId,     \* transaction ids of the one origin server modelled
    RequestId, \* one per HTTP request that reaches the server
    Sent,      \* the transactions the origin server sends, each any number
               \* of times
    DbFaults   \* whether a database statement may fail

(* A request's body and the transaction id of its path. *)
InTxn == [id : TxnId, pdus : Seq(Pdu), edus : Seq(Edu)]

ASSUME InboundAssumption ==
    /\ TypedEdu \subseteq Edu
    /\ Twins \subseteq Pdu \X Pdu
    /\ \A x \in Twins : x[1] # x[2] /\ <<x[2], x[1]>> \in Twins
    /\ DbFaults \in BOOLEAN
    /\ Sent \subseteq InTxn
    /\ \A s, t \in Sent : s.id = t.id => s = t

VARIABLES
    events,    \* the event table
    eduLog,    \* the EDUs the process_*_edu functions wrote, in order
    cache,     \* the federation_transactions table
    handlers,  \* the running activations of put()
    replies,   \* the responses that were produced
    arrived    \* the requests that have reached the server

tables == <<events, eduLog, cache>>
inboundVars == <<events, eduLog, cache, handlers, replies, arrived>>

(* pdu_results: an event id has no entry, {} or {"error": ...}. *)
Results == [Pdu -> {"none", "ok", "error"}]
NoResults == [p \in Pdu |-> "none"]

(* next counts the PDUs, then the EDUs, that are done; found is the event  *)
(* validate_pdu returned for the PDU at hand.                              *)
Handler == [rid : RequestId, txn : InTxn,
            stage : {"verify", "validate", "store", "edus"},
            next : Nat, found : Pdu \cup {"none"}, results : Results]

Reply == [rid : RequestId, txn : InTxn, status : {"ok", "failed"}, results : Results]

CacheRow == [key : TxnId, results : Results]

InboundTypeOK ==
    /\ events \subseteq Pdu
    /\ eduLog \in Seq(Edu)
    /\ cache \subseteq CacheRow
    /\ handlers \subseteq Handler
    /\ replies \subseteq Reply
    /\ arrived \subseteq RequestId

InboundInit ==
    /\ events = {}
    /\ eduLog = << >>
    /\ cache = {}
    /\ handlers = {}
    /\ replies = {}
    /\ arrived = {}

-----------------------------------------------------------------------------
(* Helpers.                                                                *)

(* What check_event_deduplication finds for p: the event with its id, or   *)
(* else an event with the same sender, type and content (by content hash,  *)
(* by state key, or sent within a second of it).  An error of the lookup   *)
(* by id counts as not found.                                              *)
Duplicates(p) ==
    ({p} \cap events) \cup {q \in events : <<p, q>> \in Twins /\ (DbFaults \/ p \notin events)}

Become(h, g) == handlers' = (handlers \ {h}) \cup {g}

(* put() returns. *)
Respond(h, status) ==
    /\ replies' = replies \cup
         {[rid |-> h.rid, txn |-> h.txn, status |-> status,
           results |-> IF status = "ok" THEN h.results ELSE NoResults]}
    /\ handlers' = handlers \ {h}

(* The loop over the PDUs goes on, or the loop over the EDUs starts. *)
AfterPdu(h, results) ==
    Become(h, IF h.next + 1 < Len(h.txn.pdus)
              THEN [h EXCEPT !.stage = "validate", !.next = @ + 1,
                             !.found = "none", !.results = results]
              ELSE [h EXCEPT !.stage = "edus", !.next = 0,
                             !.found = "none", !.results = results])

ThisPdu(h) == h.txn.pdus[h.next + 1]
ThisEdu(h) == h.txn.edus[h.next + 1]

-----------------------------------------------------------------------------
(* The steps of put().                                                     *)

(* check_transaction_cache finds a row: its result is the response. *)
ArriveCached(rid, t) ==
    \E row \in cache :
        /\ rid \notin arrived
        /\ arrived' = arrived \cup {rid}
        /\ row.key = t.id
        /\ replies' = replies \cup
             {[rid |-> rid, txn |-> t, status |-> "ok", results |-> row.results]}
        /\ UNCHANGED <<events, eduLog, cache, handlers>>

(* It finds no row, or the lookup fails, which put() takes for no row. *)
ArriveNew(rid, t) ==
    /\ rid \notin arrived
    /\ arrived' = arrived \cup {rid}
    /\ DbFaults \/ \A row \in cache : row.key # t.id
    /\ handlers' = handlers \cup
         {[rid |-> rid, txn |-> t, stage |-> "verify", next |-> 0,
           found |-> "none", results |-> NoResults]}
    /\ UNCHANGED <<events, eduLog, cache, replies>>

(* Mutant: the transaction is recorded as seen before it is processed. *)
VerifyRecords(h) ==
    /\ h.stage = "verify"
    /\ Become(h, [h EXCEPT !.stage = IF h.txn.pdus = << >> THEN "edus" ELSE "validate"])
    /\ cache' = cache \cup {[key |-> h.txn.id, results |-> NoResults]}
    /\ UNCHANGED <<events, eduLog, replies, arrived>>

(* verify_server_signature, create_server_session and the size limits. *)
Verify(h) ==
    /\ h.stage = "verify"
    /\ Become(h, [h EXCEPT !.stage = IF h.txn.pdus = << >> THEN "edus" ELSE "validate"])
    /\ UNCHANGED <<tables, replies, arrived>>

(* Each of them can refuse the request (401, 500, 400): keys of the origin *)
(* that cannot be fetched are enough.                                      *)
VerifyFails(h) ==
    /\ h.stage = "verify"
    /\ Respond(h, "failed")
    /\ UNCHANGED <<tables, arrived>>

(* validate_pdu returns Valid or SoftFailed: the event it found in the     *)
(* table, or the new one.                                                  *)
ValidatePdu(h) ==
    /\ h.stage = "validate"
    /\ \E q \in IF Duplicates(ThisPdu(h)) = {} THEN {ThisPdu(h)}
                                               ELSE Duplicates(ThisPdu(h)) :
          Become(h, [h EXCEPT !.stage = "store", !.found = q])
    /\ UNCHANGED <<tables, replies, arrived>>

(* validate_pdu returns Rejected or an error: the transaction goes on.  A  *)
(* stored event is found before any check that could reject it.            *)
RejectPdu(h) ==
    /\ h.stage = "validate"
    /\ DbFaults \/ ThisPdu(h) \notin events
    /\ AfterPdu(h, [h.results EXCEPT ![ThisPdu(h)] = "error"])
    /\ UNCHANGED <<tables, replies, arrived>>

(* Mutant: the row is written whether or not it exists (UPSERT). *)
StorePduUpsert(h) ==
    /\ h.stage = "store"
    /\ events' = events \cup {h.found}
    /\ AfterPdu(h, [h.results EXCEPT ![h.found] = "ok"])
    /\ UNCHANGED <<eduLog, cache, replies, arrived>>

(* event_repo.create(): a CREATE under the event's id, which fails when    *)
(* the row exists.                                                         *)
StorePdu(h) ==
    /\ h.stage = "store"
    /\ h.found \notin events
    /\ events' = events \cup {h.found}
    /\ AfterPdu(h, [h.results EXCEPT ![h.found] = "ok"])
    /\ UNCHANGED <<eduLog, cache, replies, arrived>>

(* Mutant: a failed insertion is only logged. *)
StorePduFailsSilently(h) ==
    /\ h.stage = "store"
    /\ h.found \in events \/ DbFaults
    /\ AfterPdu(h, h.results)
    /\ UNCHANGED <<tables, replies, arrived>>

StorePduFails(h) ==
    /\ h.stage = "store"
    /\ h.found \in events \/ DbFaults
    /\ AfterPdu(h, [h.results EXCEPT ![h.found] = "error"])
    /\ UNCHANGED <<tables, replies, arrived>>

(* Mutant: the transaction's list is applied in place of its element. *)
ApplyEduList(h) ==
    /\ h.stage = "edus"
    /\ h.next < Len(h.txn.edus)
    /\ ThisEdu(h) \in TypedEdu
    /\ eduLog' = Append(eduLog, h.txn.edus)
    /\ Become(h, [h EXCEPT !.next = @ + 1])
    /\ UNCHANGED <<events, cache, replies, arrived>>

(* An EDU with a "type": one of the process_*_edu functions. *)
ApplyEdu(h) ==
    /\ h.stage = "edus"
    /\ h.next < Len(h.txn.edus)
    /\ ThisEdu(h) \in TypedEdu
    /\ eduLog' = Append(eduLog, ThisEdu(h))
    /\ Become(h, [h EXCEPT !.next = @ + 1])
    /\ UNCHANGED <<events, cache, replies, arrived>>

(* Mutant: the response is cached on the error path too. *)
ApplyEduFailsCached(h) ==
    /\ h.stage = "edus"
    /\ h.next < Len(h.txn.edus)
    /\ ThisEdu(h) \in TypedEdu
    /\ cache' = cache \cup {[key |-> h.txn.id, results |-> h.results]}
    /\ Respond(h, "failed")
    /\ UNCHANGED <<events, eduLog, arrived>>

(* That function fails, before or after its writes: 500, with the PDUs     *)
(* stored and nothing cached.                                              *)
ApplyEduFails(h) ==
    /\ h.stage = "edus"
    /\ h.next < Len(h.txn.edus)
    /\ ThisEdu(h) \in TypedEdu
    /\ eduLog' \in {eduLog, Append(eduLog, ThisEdu(h))}
    /\ Respond(h, "failed")
    /\ UNCHANGED <<events, cache, arrived>>

(* Mutant: the loop's counter stays put when an EDU is passed over. *)
SkipEduStays(h) ==
    /\ h.stage = "edus"
    /\ h.next < Len(h.txn.edus)
    /\ ThisEdu(h) \notin TypedEdu
    /\ Become(h, h)
    /\ UNCHANGED <<tables, replies, arrived>>

(* Any other EDU is passed over. *)
SkipEdu(h) ==
    /\ h.stage = "edus"
    /\ h.next < Len(h.txn.edus)
    /\ ThisEdu(h) \notin TypedEdu
    /\ Become(h, [h EXCEPT !.next = @ + 1])
    /\ UNCHANGED <<tables, replies, arrived>>

(* cache_transaction_result, then the response; an error of the write is   *)
(* logged and ignored.                                                     *)
CacheAndReply(h) ==
    /\ h.stage = "edus"
    /\ h.next = Len(h.txn.edus)
    /\ \/ cache' = cache \cup {[key |-> h.txn.id, results |-> h.results]}
       \/ DbFaults /\ UNCHANGED cache
    /\ Respond(h, "ok")
    /\ UNCHANGED <<events, eduLog, arrived>>

(* A row is 24 hours old: lookups no longer see it and                     *)
(* cleanup_expired_cache deletes it.                                       *)
Expire(row) ==
    /\ row \in cache
    /\ cache' = cache \ {row}
    /\ UNCHANGED <<events, eduLog, handlers, replies, arrived>>

(* The server stops and starts again: the tables stay, the activations of  *)
(* put() are gone.                                                         *)
ReceiverRestart ==
    /\ handlers # {}
    /\ handlers' = {}
    /\ UNCHANGED <<tables, replies, arrived>>

HandlerStep(h) ==
    \/ Verify(h)
    \/ VerifyFails(h)
    \/ ValidatePdu(h)
    \/ RejectPdu(h)
    \/ StorePdu(h)
    \/ StorePduFails(h)
    \/ ApplyEdu(h)
    \/ ApplyEduFails(h)
    \/ SkipEdu(h)
    \/ CacheAndReply(h)

-----------------------------------------------------------------------------
(* The server by itself, with an origin that repeats what it sends.        *)

InboundNext ==
    \/ \E rid \in RequestId, t \in Sent : ArriveCached(rid, t)
    \/ \E rid \in RequestId, t \in Sent : ArriveNew(rid, t)
    \/ \E h \in handlers : HandlerStep(h)
    \/ \E row \in cache : Expire(row)
    \/ ReceiverRestart

(* axum polls every activation until it returns. *)
InboundSpec ==
    /\ InboundInit
    /\ [][InboundNext]_inboundVars
    /\ \A rid \in RequestId :
          WF_inboundVars(\E h \in handlers : h.rid = rid /\ HandlerStep(h))

-----------------------------------------------------------------------------
(* Properties.                                                             *)

Elements(s) == {s[i] : i \in 1 .. Len(s)}

(* An event the server stored in p's stead. *)
TwinStored(p) == \E q \in events : <<p, q>> \in Twins

(* A 200 accounts for the whole transaction: whatever other requests,      *)
(* restarts and failed statements came between, each of its PDUs is in the *)
(* event table, is reported with an error, or was taken for an event that  *)
(* is in the table; and no PDU is reported as accepted that is not stored. *)
AckAccounts ==
    \A r \in replies : r.status = "ok" =>
        /\ \A p \in Elements(r.txn.pdus) :
              p \in events \/ r.results[p] = "error" \/ TwinStored(p)
        /\ \A p \in Pdu : r.results[p] = "ok" => p \in events

(* A cached response is never that of a transaction cut short: a restart   *)
(* or an EDU that fails leaves nothing in the cache, so the origin's retry *)
(* is processed and not answered from a partial result.                    *)
CachedIsComplete ==
    \A row \in cache : \A t \in Sent : t.id = row.key =>
        /\ \A p \in Elements(t.pdus) :
              p \in events \/ row.results[p] = "error" \/ TwinStored(p)
        /\ Elements(t.edus) \cap TypedEdu \subseteq Elements(eduLog)

(* However many requests carry a PDU at the same time, one of them stores  *)
(* it and reports it accepted: two that both validated it as new do not    *)
(* both insert it, and none does once a cached response says it was.       *)
AcceptedOnce ==
    \A p \in Pdu : \A h \in handlers : h.results[p] = "ok" =>
        /\ \A g \in handlers : g.results[p] = "ok" => g = h
        /\ \A row \in cache : row.results[p] # "ok"

(* Every request the server started on is answered, unless it restarts. *)
RequestsEnd ==
    \A rid \in RequestId :
        (\E h \in handlers : h.rid = rid) ~> ~(\E h \in handlers : h.rid = rid)
=============================================================================
