---------------------- MODULE InboundTransactionProofs ----------------------
(***************************************************************************)
(* Theorems about InboundTransaction: what a 200 and a cached response say *)
(* holds for any number of requests, transactions, PDUs and EDUs, whatever *)
(* statements fail and whenever the server restarts.                       *)
(*                                                                         *)
(* A response is only as good as the progress of the activation that makes *)
(* it, so the invariant follows every activation: where its loops stand    *)
(* (Placed), that the PDUs and EDUs behind them are accounted for          *)
(* (Progress), and that only a PDU in the table is reported as accepted    *)
(* (Progress, CacheTrue).                                                  *)
(***************************************************************************)
EXTENDS InboundTransaction, TLAPS

(* What put() has done about PDU p, given what it will report. *)
Settled(results, p) == p \in events \/ results[p] = "error" \/ TwinStored(p)

(* The PDUs the loop has passed. *)
PdusDone(h) == IF h.stage = "edus" THEN Len(h.txn.pdus) ELSE h.next

(* Where an activation stands: its counter is within the list at hand, and *)
(* the event validate_pdu found is the PDU itself or a stored twin of it.  *)
Placed(h) ==
    /\ h.txn \in Sent
    /\ h.stage = "verify" => h.next = 0
    /\ h.stage \in {"validate", "store"} => h.next < Len(h.txn.pdus)
    /\ h.stage = "edus" => h.next <= Len(h.txn.edus)
    /\ h.stage = "store" =>
         \/ h.found = ThisPdu(h)
         \/ <<ThisPdu(h), h.found>> \in Twins /\ h.found \in events

(* What it has done: the PDUs and the EDUs behind its counter. *)
Progress(h) ==
    /\ \A i \in 1 .. PdusDone(h) : Settled(h.results, h.txn.pdus[i])
    /\ h.stage = "edus" =>
         \A i \in 1 .. h.next : h.txn.edus[i] \in TypedEdu
                                   => h.txn.edus[i] \in Elements(eduLog)
    /\ \A p \in Pdu : h.results[p] = "ok" => p \in events

(* A cached response reports only stored PDUs as accepted. *)
CacheTrue == \A row \in cache : \A p \in Pdu : row.results[p] = "ok" => p \in events

InboundInv ==
    /\ InboundTypeOK
    /\ \A h \in handlers : Placed(h) /\ Progress(h)
    /\ CacheTrue
    /\ AckAccounts
    /\ CachedIsComplete
    /\ AcceptedOnce

-----------------------------------------------------------------------------
(* What holds of the tables stays true as they grow.                       *)

(* The tables only gain events and EDUs. *)
Grow ==
    /\ events \subseteq events'
    /\ Elements(eduLog) \subseteq Elements(eduLog')

LEMMA SettledStays ==
    ASSUME Grow, NEW results, NEW p, Settled(results, p)
    PROVE  Settled(results, p)'
BY DEF Grow, Settled, TwinStored

LEMMA PlaceStays ==
    ASSUME Grow, NEW h, Placed(h), Progress(h)
    PROVE  Placed(h)' /\ Progress(h)'
<1>1. Placed(h)'
  BY DEF Grow, Placed, ThisPdu
<1>2. \A i \in 1 .. PdusDone(h) : Settled(h.results, h.txn.pdus[i])'
  BY SettledStays DEF Progress
<1>3. PdusDone(h)' = PdusDone(h)
  BY DEF PdusDone
<1> QED BY <1>1, <1>2, <1>3 DEF Grow, Progress

LEMMA RepliesStay ==
    ASSUME Grow, AckAccounts, InboundTypeOK
    PROVE  \A r \in replies : r.status = "ok" =>
              /\ \A p \in Elements(r.txn.pdus) :
                    (p \in events \/ r.results[p] = "error" \/ TwinStored(p))'
              /\ \A p \in Pdu : r.results[p] = "ok" => p \in events'
BY DEF Grow, AckAccounts, TwinStored

LEMMA CacheStays ==
    ASSUME Grow, CachedIsComplete, CacheTrue
    PROVE  /\ \A row \in cache : \A t \in Sent : t.id = row.key =>
                /\ \A p \in Elements(t.pdus) :
                      (p \in events \/ row.results[p] = "error" \/ TwinStored(p))'
                /\ Elements(t.edus) \cap TypedEdu \subseteq Elements(eduLog')
           /\ \A row \in cache : \A p \in Pdu : row.results[p] = "ok" => p \in events'
<1>1. \A row \in cache : \A t \in Sent : t.id = row.key =>
                /\ \A p \in Elements(t.pdus) :
                      (p \in events \/ row.results[p] = "error" \/ TwinStored(p))'
  BY DEF Grow, CachedIsComplete, TwinStored
<1>2. \A row \in cache : \A t \in Sent : t.id = row.key =>
                Elements(t.edus) \cap TypedEdu \subseteq Elements(eduLog')
  BY DEF Grow, CachedIsComplete
<1> QED BY <1>1, <1>2 DEF Grow, CacheTrue

-----------------------------------------------------------------------------
(* The ways an activation moves on.                                        *)

(* It becomes g: g must be placed, and may report as accepted only what h  *)
(* did or what nobody had stored.                                          *)
LEMMA BecomeStep ==
    ASSUME InboundInv, NEW h \in handlers, NEW g \in Handler, Become(h, g),
           Grow, events' \subseteq Pdu, eduLog' \in Seq(Edu),
           UNCHANGED <<cache, replies, arrived>>,
           Placed(g)', Progress(g)',
           \A p \in Pdu : g.results[p] = "ok" => h.results[p] = "ok" \/ p \notin events
    PROVE  InboundInv'
<1>1. InboundTypeOK'
  BY DEF InboundInv, InboundTypeOK, Become
<1>2. \A k \in handlers' : Placed(k)' /\ Progress(k)'
  BY PlaceStays DEF InboundInv, Become
<1>3. CacheTrue' /\ CachedIsComplete'
  BY CacheStays DEF InboundInv, CacheTrue, CachedIsComplete
<1>4. AckAccounts'
  BY RepliesStay DEF InboundInv, AckAccounts
<1>5. AcceptedOnce'
  <2> SUFFICES ASSUME NEW p \in Pdu, NEW k \in handlers', k.results[p] = "ok"
               PROVE  /\ \A j \in handlers' : j.results[p] = "ok" => j = k
                      /\ \A row \in cache : row.results[p] # "ok"
    BY DEF AcceptedOnce
  <2>1. \A j \in handlers : j.results[p] = "ok" => p \in events
    BY DEF InboundInv, Progress
  <2>2. \A row \in cache : row.results[p] = "ok" => p \in events
    BY DEF InboundInv, CacheTrue
  <2>3. \A i, j \in handlers : i.results[p] = "ok" /\ j.results[p] = "ok" => i = j
    BY DEF InboundInv, AcceptedOnce
  <2>4. \A i \in handlers, row \in cache : i.results[p] = "ok" => row.results[p] # "ok"
    BY DEF InboundInv, AcceptedOnce
  <2> QED BY <2>1, <2>2, <2>3, <2>4 DEF Become
<1> QED BY <1>1, <1>2, <1>3, <1>4, <1>5 DEF InboundInv

(* It returns an error: it vanishes and a response without results stays. *)
LEMMA FailStep ==
    ASSUME InboundInv, NEW h \in handlers, Respond(h, "failed"),
           Grow, events' \subseteq Pdu, eduLog' \in Seq(Edu), UNCHANGED <<cache, arrived>>
    PROVE  InboundInv'
<1> DEFINE r == [rid |-> h.rid, txn |-> h.txn, status |-> "failed", results |-> NoResults]
<1>1. replies' = replies \cup {r} /\ handlers' = handlers \ {h}
  BY DEF Respond
<1>2. r \in Reply /\ r.status # "ok"
  BY DEF InboundInv, InboundTypeOK, Handler, Reply, Results, NoResults
<1> HIDE DEF r
<1>3. InboundTypeOK'
  BY <1>1, <1>2 DEF InboundInv, InboundTypeOK
<1>4. \A k \in handlers' : Placed(k)' /\ Progress(k)'
  BY <1>1, PlaceStays DEF InboundInv
<1>5. CacheTrue' /\ CachedIsComplete'
  BY CacheStays DEF InboundInv, CacheTrue, CachedIsComplete
<1>6. AckAccounts'
  BY <1>1, <1>2, RepliesStay DEF InboundInv, AckAccounts
<1>7. AcceptedOnce'
  BY <1>1 DEF InboundInv, AcceptedOnce
<1> QED BY <1>3, <1>4, <1>5, <1>6, <1>7 DEF InboundInv

(* It is done: what it reports holds, and is cached or not. *)
LEMMA ReplyStep ==
    ASSUME InboundInv, NEW h \in handlers, CacheAndReply(h)
    PROVE  InboundInv'
<1> DEFINE r == [rid |-> h.rid, txn |-> h.txn, status |-> "ok", results |-> h.results]
           w == [key |-> h.txn.id, results |-> h.results]
<1>1. replies' = replies \cup {r} /\ handlers' = handlers \ {h}
  BY DEF CacheAndReply, Respond
<1>2. cache' \subseteq cache \cup {w} /\ UNCHANGED <<events, eduLog, arrived>>
  BY DEF CacheAndReply
<1>3. h \in Handler /\ Placed(h) /\ Progress(h)
  BY DEF InboundInv, InboundTypeOK
<1>4. r \in Reply /\ w \in CacheRow
  BY <1>3 DEF Handler, Reply, CacheRow, InTxn
<1>5. h.txn \in Sent /\ h.stage = "edus" /\ h.next = Len(h.txn.edus)
  BY <1>3 DEF CacheAndReply, Placed
<1>6. \A p \in Elements(h.txn.pdus) : Settled(h.results, p)
  BY <1>3, <1>5 DEF Progress, PdusDone, Elements
<1>7. Elements(h.txn.edus) \cap TypedEdu \subseteq Elements(eduLog)
  BY <1>3, <1>5 DEF Progress, Elements
<1>8. \A p \in Pdu : h.results[p] = "ok" => p \in events
  BY <1>3 DEF Progress
<1>9. \A t \in Sent : t.id = h.txn.id => t = h.txn
  BY <1>5, InboundAssumption
<1>10. Grow
  BY <1>2 DEF Grow
<1>11. /\ r.txn = h.txn /\ r.results = h.results
       /\ w.key = h.txn.id /\ w.results = h.results
  OBVIOUS
<1> HIDE DEF r, w
<1>12. InboundTypeOK'
  BY <1>1, <1>2, <1>4 DEF InboundInv, InboundTypeOK
<1>13. \A k \in handlers' : Placed(k)' /\ Progress(k)'
  BY <1>1, <1>10, PlaceStays DEF InboundInv
<1>14. CacheTrue'
  BY <1>2, <1>8, <1>11 DEF InboundInv, CacheTrue
<1>15. CachedIsComplete'
  <2> SUFFICES ASSUME NEW row \in cache', NEW t \in Sent, t.id = row.key
               PROVE  /\ \A p \in Elements(t.pdus) :
                            p \in events \/ row.results[p] = "error" \/ TwinStored(p)
                      /\ Elements(t.edus) \cap TypedEdu \subseteq Elements(eduLog)
    BY <1>2 DEF CachedIsComplete, TwinStored
  <2>1. CASE row \in cache
    BY <2>1 DEF InboundInv, CachedIsComplete
  <2>2. CASE row = w
    BY <2>2, <1>6, <1>7, <1>9, <1>11 DEF Settled
  <2> QED BY <1>2, <2>1, <2>2
<1>16. AckAccounts'
  <2> SUFFICES ASSUME NEW q \in replies', q.status = "ok"
               PROVE  /\ \A p \in Elements(q.txn.pdus) :
                            p \in events \/ q.results[p] = "error" \/ TwinStored(p)
                      /\ \A p \in Pdu : q.results[p] = "ok" => p \in events
    BY <1>2 DEF AckAccounts, TwinStored
  <2>1. CASE q \in replies
    BY <2>1 DEF InboundInv, AckAccounts
  <2>2. CASE q = r
    BY <2>2, <1>6, <1>8, <1>11 DEF Settled
  <2> QED BY <1>1, <2>1, <2>2
<1>17. AcceptedOnce'
  BY <1>1, <1>2, <1>11 DEF InboundInv, AcceptedOnce
<1> QED BY <1>12, <1>13, <1>14, <1>15, <1>16, <1>17 DEF InboundInv

-----------------------------------------------------------------------------
(* The loop over the PDUs.                                                 *)

(* It goes on to the next PDU or to the EDUs when the one at hand is       *)
(* settled and the new results keep what the old ones said.                *)
LEMMA AfterPduStep ==
    ASSUME InboundInv, NEW h \in handlers, NEW results \in Results,
           h.stage \in {"validate", "store"}, AfterPdu(h, results),
           Grow, events' \subseteq Pdu, UNCHANGED <<eduLog, cache, replies, arrived>>,
           Settled(results, ThisPdu(h))',
           \A p \in Pdu : Settled(h.results, p) => Settled(results, p)',
           \A p \in Pdu : results[p] = "ok" => p \in events',
           \A p \in Pdu : results[p] = "ok" => h.results[p] = "ok" \/ p \notin events
    PROVE  InboundInv'
<1>1. h \in Handler /\ Placed(h) /\ Progress(h)
  BY DEF InboundInv, InboundTypeOK
<1>2. /\ h.txn \in Sent /\ h.txn.pdus \in Seq(Pdu) /\ h.txn.edus \in Seq(Edu)
      /\ h.next \in Nat /\ h.next < Len(h.txn.pdus)
  BY <1>1 DEF Handler, InTxn, Placed
<1>3. eduLog' \in Seq(Edu)
  BY DEF InboundInv, InboundTypeOK
<1>4. \A i \in 1 .. h.next + 1 : Settled(results, h.txn.pdus[i])'
  <2> SUFFICES ASSUME NEW i \in 1 .. h.next + 1 PROVE Settled(results, h.txn.pdus[i])'
    OBVIOUS
  <2>1. CASE i = h.next + 1
    BY <2>1 DEF ThisPdu
  <2>2. CASE i \in 1 .. h.next
    <3>1. Settled(h.results, h.txn.pdus[i])
      BY <2>2, <1>1 DEF Progress, PdusDone
    <3>2. h.txn.pdus[i] \in Pdu
      BY <2>2, <1>2
    <3> QED BY <3>1, <3>2
  <2> QED BY <2>1, <2>2, <1>2
<1>5. CASE h.next + 1 < Len(h.txn.pdus)
  <2> DEFINE g == [h EXCEPT !.stage = "validate", !.next = h.next + 1,
                            !.found = "none", !.results = results]
  <2>1. Become(h, g)
    BY <1>5 DEF AfterPdu
  <2>2. g \in Handler
    <3>1. h.next + 1 \in Nat
      BY <1>2
    <3>2. h \in Handler
      BY <1>1
    <3> QED BY <3>1, <3>2 DEF Handler
  <2>3. /\ g.txn = h.txn /\ g.stage = "validate" /\ g.next = h.next + 1
        /\ g.results = results
    BY <1>1 DEF Handler
  <2> HIDE DEF g
  <2>4. Placed(g)'
    BY <2>3, <1>2, <1>5 DEF Placed
  <2>5. PdusDone(g)' = h.next + 1
    BY <2>3 DEF PdusDone
  <2>6. Progress(g)'
    BY <2>3, <2>5, <1>4 DEF Progress
  <2> QED BY <2>1, <2>2, <2>3, <2>4, <2>6, <1>3, BecomeStep
<1>6. CASE ~(h.next + 1 < Len(h.txn.pdus))
  <2> DEFINE g == [h EXCEPT !.stage = "edus", !.next = 0,
                            !.found = "none", !.results = results]
  <2>1. Become(h, g)
    BY <1>6 DEF AfterPdu
  <2>2. g \in Handler
    BY <1>1 DEF Handler
  <2>3. /\ g.txn = h.txn /\ g.stage = "edus" /\ g.next = 0
        /\ g.results = results
    BY <1>1 DEF Handler
  <2> HIDE DEF g
  <2>4. Placed(g)'
    BY <2>3, <1>2 DEF Placed
  <2>5. PdusDone(g)' = h.next + 1
    BY <2>3, <1>2, <1>6 DEF PdusDone
  <2>6. Progress(g)'
    BY <2>3, <2>5, <1>4 DEF Progress
  <2> QED BY <2>1, <2>2, <2>3, <2>4, <2>6, <1>3, BecomeStep
<1> QED BY <1>5, <1>6

LEMMA ValidateStep ==
    ASSUME InboundInv, NEW h \in handlers, ValidatePdu(h)
    PROVE  InboundInv'
<1>1. h \in Handler /\ Placed(h) /\ Progress(h) /\ h.stage = "validate"
  BY DEF InboundInv, InboundTypeOK, ValidatePdu
<1>2. ThisPdu(h) \in Pdu
  BY <1>1 DEF Handler, InTxn, Placed, ThisPdu
<1>3. PICK q \in IF Duplicates(ThisPdu(h)) = {} THEN {ThisPdu(h)}
                                                 ELSE Duplicates(ThisPdu(h)) :
         Become(h, [h EXCEPT !.stage = "store", !.found = q])
  BY DEF ValidatePdu
<1>4. q = ThisPdu(h) \/ (<<ThisPdu(h), q>> \in Twins /\ q \in events)
  BY <1>3 DEF Duplicates
<1>5. q \in Pdu
  BY <1>2, <1>4 DEF InboundInv, InboundTypeOK
<1> DEFINE g == [h EXCEPT !.stage = "store", !.found = q]
<1>6. g \in Handler
  BY <1>1, <1>5 DEF Handler
<1>7. /\ g.txn = h.txn /\ g.stage = "store" /\ g.next = h.next
      /\ g.found = q /\ g.results = h.results
  BY <1>1 DEF Handler
<1>8. Become(h, g)
  BY <1>3
<1> HIDE DEF g
<1>9. UNCHANGED <<events, eduLog, cache, replies, arrived>>
  BY DEF ValidatePdu, tables
<1>10. Grow /\ events' \subseteq Pdu /\ eduLog' \in Seq(Edu)
  BY <1>9 DEF Grow, InboundInv, InboundTypeOK
<1>11. Placed(g)'
  BY <1>1, <1>4, <1>7, <1>9 DEF Placed, ThisPdu
<1>12. Progress(h)'
  BY <1>1, <1>10, PlaceStays
<1>13. Progress(g)'
  BY <1>1, <1>7, <1>12 DEF Progress, PdusDone, Settled, TwinStored
<1>14. \A p \in Pdu : g.results[p] = "ok" => h.results[p] = "ok" \/ p \notin events
  BY <1>7
<1> QED BY <1>6, <1>8, <1>9, <1>10, <1>11, <1>13, <1>14, BecomeStep

LEMMA RejectStep ==
    ASSUME InboundInv, NEW h \in handlers, RejectPdu(h)
    PROVE  InboundInv'
<1>1. h \in Handler /\ Placed(h) /\ Progress(h) /\ h.stage = "validate"
  BY DEF InboundInv, InboundTypeOK, RejectPdu
<1>2. ThisPdu(h) \in Pdu /\ h.results \in Results
  BY <1>1 DEF Handler, InTxn, Placed, ThisPdu
<1> DEFINE results == [h.results EXCEPT ![ThisPdu(h)] = "error"]
<1>3. results \in Results /\ AfterPdu(h, results)
  BY <1>2 DEF RejectPdu, Results
<1>4. results[ThisPdu(h)] = "error"
  BY <1>2 DEF Results
<1>5. \A p \in Pdu : results[p] = IF p = ThisPdu(h) THEN "error" ELSE h.results[p]
  BY <1>2 DEF Results
<1> HIDE DEF results
<1>6. UNCHANGED <<events, eduLog, cache, replies, arrived>>
  BY DEF RejectPdu, tables
<1>7. Grow /\ events' \subseteq Pdu
  BY <1>6 DEF Grow, InboundInv, InboundTypeOK
<1>8. Settled(results, ThisPdu(h))'
  BY <1>4 DEF Settled, ThisPdu
<1>9. \A p \in Pdu : Settled(h.results, p) => Settled(results, p)'
  BY <1>5, <1>6 DEF Settled, TwinStored
<1>10. \A p \in Pdu : results[p] = "ok" => p \in events' /\ h.results[p] = "ok"
  BY <1>1, <1>5, <1>6 DEF Progress
<1> QED BY <1>1, <1>3, <1>6, <1>7, <1>8, <1>9, <1>10, AfterPduStep

LEMMA StoreStep ==
    ASSUME InboundInv, NEW h \in handlers, StorePdu(h)
    PROVE  InboundInv'
<1>1. h \in Handler /\ Placed(h) /\ Progress(h) /\ h.stage = "store"
  BY DEF InboundInv, InboundTypeOK, StorePdu
<1>2. ThisPdu(h) \in Pdu /\ h.results \in Results
  BY <1>1 DEF Handler, InTxn, Placed, ThisPdu
<1>3. h.found = ThisPdu(h) /\ h.found \notin events
  BY <1>1 DEF Placed, StorePdu
<1> DEFINE results == [h.results EXCEPT ![h.found] = "ok"]
<1>4. results \in Results /\ AfterPdu(h, results)
  BY <1>2, <1>3 DEF StorePdu, Results
<1>5. \A p \in Pdu : results[p] = IF p = h.found THEN "ok" ELSE h.results[p]
  BY <1>2, <1>3 DEF Results
<1> HIDE DEF results
<1>6. events' = events \cup {h.found} /\ UNCHANGED <<eduLog, cache, replies, arrived>>
  BY DEF StorePdu
<1>7. Grow /\ events' \subseteq Pdu
  BY <1>2, <1>3, <1>6 DEF Grow, InboundInv, InboundTypeOK
<1>8. Settled(results, ThisPdu(h))'
  BY <1>3, <1>6 DEF Settled, ThisPdu
<1>9. \A p \in Pdu : Settled(h.results, p) => Settled(results, p)'
  BY <1>5, <1>6 DEF Settled, TwinStored
<1>10. \A p \in Pdu : results[p] = "ok" => p \in events'
  BY <1>1, <1>5, <1>6 DEF Progress
<1>11. \A p \in Pdu : results[p] = "ok" => h.results[p] = "ok" \/ p \notin events
  BY <1>3, <1>5
<1> QED BY <1>1, <1>4, <1>6, <1>7, <1>8, <1>9, <1>10, <1>11, AfterPduStep

LEMMA StoreFailsStep ==
    ASSUME InboundInv, NEW h \in handlers, StorePduFails(h)
    PROVE  InboundInv'
<1>1. h \in Handler /\ Placed(h) /\ Progress(h) /\ h.stage = "store"
  BY DEF InboundInv, InboundTypeOK, StorePduFails
<1>2. ThisPdu(h) \in Pdu /\ h.results \in Results /\ h.found \in Pdu
  <2>1. ThisPdu(h) \in Pdu /\ h.results \in Results
    BY <1>1 DEF Handler, InTxn, Placed, ThisPdu
  <2> QED BY <1>1, <2>1 DEF Placed, InboundInv, InboundTypeOK
<1> DEFINE results == [h.results EXCEPT ![h.found] = "error"]
<1>3. results \in Results /\ AfterPdu(h, results)
  BY <1>2 DEF StorePduFails, Results
<1>4. \A p \in Pdu : results[p] = IF p = h.found THEN "error" ELSE h.results[p]
  BY <1>2 DEF Results
<1> HIDE DEF results
<1>5. UNCHANGED <<events, eduLog, cache, replies, arrived>>
  BY DEF StorePduFails, tables
<1>6. Grow /\ events' \subseteq Pdu
  BY <1>5 DEF Grow, InboundInv, InboundTypeOK
<1>7. Settled(results, ThisPdu(h))'
  <2>1. CASE h.found = ThisPdu(h)
    BY <2>1, <1>2, <1>4 DEF Settled, ThisPdu
  <2>2. CASE <<ThisPdu(h), h.found>> \in Twins /\ h.found \in events
    BY <2>2, <1>5 DEF Settled, TwinStored, ThisPdu
  <2> QED BY <1>1, <2>1, <2>2 DEF Placed
<1>8. \A p \in Pdu : Settled(h.results, p) => Settled(results, p)'
  BY <1>4, <1>5 DEF Settled, TwinStored
<1>9. \A p \in Pdu : results[p] = "ok" => p \in events' /\ h.results[p] = "ok"
  BY <1>1, <1>4, <1>5 DEF Progress
<1> QED BY <1>1, <1>3, <1>5, <1>6, <1>7, <1>8, <1>9, AfterPduStep

-----------------------------------------------------------------------------
(* The loop over the EDUs.                                                 *)

(* Appending to the log keeps what is in it. *)
LEMMA LogGrows ==
    ASSUME NEW log \in Seq(Edu), NEW e \in Edu
    PROVE  /\ Append(log, e) \in Seq(Edu)
           /\ Elements(log) \subseteq Elements(Append(log, e))
           /\ e \in Elements(Append(log, e))
<1>1. /\ Append(log, e) \in Seq(Edu) /\ Len(Append(log, e)) = Len(log) + 1
      /\ \A i \in 1 .. Len(log) : Append(log, e)[i] = log[i]
      /\ Append(log, e)[Len(log) + 1] = e
      /\ Len(log) \in Nat
  OBVIOUS
<1> QED BY <1>1 DEF Elements

(* The counter moves past an EDU that is in the log or is of no known type. *)
LEMMA NextEduStep ==
    ASSUME InboundInv, NEW h \in handlers,
           h.stage = "edus", h.next < Len(h.txn.edus),
           Become(h, [h EXCEPT !.next = h.next + 1]),
           Grow, eduLog' \in Seq(Edu), UNCHANGED <<events, cache, replies, arrived>>,
           ThisEdu(h) \in TypedEdu => ThisEdu(h) \in Elements(eduLog')
    PROVE  InboundInv'
<1>1. h \in Handler /\ Placed(h) /\ Progress(h)
  BY DEF InboundInv, InboundTypeOK
<1>2. h.txn \in Sent /\ h.txn.edus \in Seq(Edu) /\ h.next \in Nat
  BY <1>1 DEF Handler, InTxn, Placed
<1> DEFINE g == [h EXCEPT !.next = h.next + 1]
<1>3. g \in Handler
  <2>1. h.next + 1 \in Nat
    BY <1>2
  <2> QED BY <1>1, <2>1 DEF Handler
<1>4. /\ g.txn = h.txn /\ g.stage = "edus" /\ g.next = h.next + 1
      /\ g.results = h.results
  BY <1>1 DEF Handler
<1>5. Become(h, g)
  OBVIOUS
<1> HIDE DEF g
<1>6. events' \subseteq Pdu
  BY DEF InboundInv, InboundTypeOK
<1>7. Placed(g)'
  BY <1>2, <1>4 DEF Placed
<1>8. Progress(h)'
  BY <1>1, PlaceStays
<1>9. Progress(g)'
  <2>1. PdusDone(g)' = PdusDone(h)' /\ g.results = h.results /\ g.txn = h.txn
    BY <1>4 DEF PdusDone
  <2>2. \A i \in 1 .. PdusDone(g)' : Settled(g.results, g.txn.pdus[i])'
    BY <2>1, <1>8 DEF Progress, Settled, TwinStored
  <2>3. \A p \in Pdu : g.results[p] = "ok" => p \in events'
    BY <1>4, <1>8 DEF Progress
  <2>4. ASSUME NEW i \in 1 .. g.next, g.txn.edus[i] \in TypedEdu
        PROVE  g.txn.edus[i] \in Elements(eduLog')
    <3>1. CASE i = h.next + 1
      BY <2>4, <3>1, <1>4 DEF ThisEdu
    <3>2. CASE i \in 1 .. h.next
      BY <2>4, <3>2, <1>4, <1>8 DEF Progress
    <3> QED BY <3>1, <3>2, <1>2, <1>4
  <2> QED BY <2>2, <2>3, <2>4 DEF Progress
<1> QED BY <1>3, <1>4, <1>5, <1>6, <1>7, <1>9, BecomeStep

LEMMA EduStep ==
    ASSUME InboundInv, NEW h \in handlers,
           ApplyEdu(h) \/ ApplyEduFails(h) \/ SkipEdu(h)
    PROVE  InboundInv'
<1>1. h \in Handler /\ eduLog \in Seq(Edu) /\ events \subseteq Pdu
  BY DEF InboundInv, InboundTypeOK
<1>2. h.stage = "edus" /\ h.next < Len(h.txn.edus)
  BY DEF ApplyEdu, ApplyEduFails, SkipEdu
<1>3. ThisEdu(h) \in Edu
  BY <1>1, <1>2 DEF Handler, InTxn, ThisEdu
<1>4. /\ Append(eduLog, ThisEdu(h)) \in Seq(Edu)
      /\ Elements(eduLog) \subseteq Elements(Append(eduLog, ThisEdu(h)))
      /\ ThisEdu(h) \in Elements(Append(eduLog, ThisEdu(h)))
  BY <1>1, <1>3, LogGrows
<1>5. CASE ApplyEdu(h)
  <2>1. /\ eduLog' = Append(eduLog, ThisEdu(h))
        /\ Become(h, [h EXCEPT !.next = h.next + 1])
        /\ UNCHANGED <<events, cache, replies, arrived>>
    BY <1>5 DEF ApplyEdu
  <2>2. Grow
    BY <2>1, <1>4 DEF Grow
  <2>3. eduLog' \in Seq(Edu) /\ ThisEdu(h) \in Elements(eduLog')
    BY <2>1, <1>4
  <2> QED BY <2>1, <2>2, <2>3, <1>2, NextEduStep
<1>6. CASE ApplyEduFails(h)
  <2>1. /\ eduLog' \in {eduLog, Append(eduLog, ThisEdu(h))}
        /\ Respond(h, "failed")
        /\ UNCHANGED <<events, cache, arrived>>
    BY <1>6 DEF ApplyEduFails
  <2>2. Grow /\ eduLog' \in Seq(Edu) /\ events' \subseteq Pdu
    BY <2>1, <1>1, <1>4 DEF Grow
  <2> QED BY <2>1, <2>2, FailStep
<1>7. CASE SkipEdu(h)
  <2>1. /\ ThisEdu(h) \notin TypedEdu
        /\ Become(h, [h EXCEPT !.next = h.next + 1])
        /\ UNCHANGED <<events, eduLog, cache, replies, arrived>>
    BY <1>7 DEF SkipEdu, tables
  <2>2. Grow /\ eduLog' \in Seq(Edu)
    BY <2>1, <1>1 DEF Grow
  <2> QED BY <2>1, <2>2, <1>2, NextEduStep
<1> QED BY <1>5, <1>6, <1>7

-----------------------------------------------------------------------------
(* The other steps.                                                        *)

LEMMA VerifyStep ==
    ASSUME InboundInv, NEW h \in handlers, Verify(h)
    PROVE  InboundInv'
<1> DEFINE next == IF h.txn.pdus = << >> THEN "edus" ELSE "validate"
           g == [h EXCEPT !.stage = next]
<1>1. h \in Handler /\ Placed(h) /\ Progress(h) /\ h.stage = "verify" /\ Become(h, g)
  BY DEF InboundInv, InboundTypeOK, Verify
<1>2. /\ h.txn \in Sent /\ h.txn.pdus \in Seq(Pdu) /\ h.txn.edus \in Seq(Edu)
      /\ h.next = 0
  BY <1>1 DEF Handler, InTxn, Placed
<1>3. g \in Handler
  BY <1>1 DEF Handler
<1>4. /\ g.txn = h.txn /\ g.stage = next /\ g.next = 0 /\ g.results = h.results
  BY <1>1, <1>2 DEF Handler
<1> HIDE DEF g
<1>5. UNCHANGED <<events, eduLog, cache, replies, arrived>>
  BY DEF Verify, tables
<1>6. Grow /\ events' \subseteq Pdu /\ eduLog' \in Seq(Edu)
  BY <1>5 DEF Grow, InboundInv, InboundTypeOK
<1>7. Placed(g)'
  BY <1>2, <1>4 DEF Placed
<1>8. PdusDone(g)' = 0
  BY <1>2, <1>4 DEF PdusDone
<1>9. Progress(g)'
  BY <1>1, <1>4, <1>5, <1>8 DEF Progress
<1> QED BY <1>1, <1>3, <1>4, <1>5, <1>6, <1>7, <1>9, BecomeStep

LEMMA ArriveCachedStep ==
    ASSUME InboundInv, NEW rid \in RequestId, NEW t \in Sent, ArriveCached(rid, t)
    PROVE  InboundInv'
<1>1. PICK row \in cache :
        /\ row.key = t.id
        /\ arrived' = arrived \cup {rid}
        /\ replies' = replies \cup
             {[rid |-> rid, txn |-> t, status |-> "ok", results |-> row.results]}
        /\ UNCHANGED <<events, eduLog, cache, handlers>>
  BY DEF ArriveCached
<1> DEFINE r == [rid |-> rid, txn |-> t, status |-> "ok", results |-> row.results]
<1>2. row \in CacheRow /\ t \in InTxn
  BY InboundAssumption DEF InboundInv, InboundTypeOK
<1>3. r \in Reply /\ r.txn = t /\ r.results = row.results
  BY <1>2 DEF CacheRow, Reply
<1>4. replies' = replies \cup {r}
  BY <1>1
<1> HIDE DEF r
<1>5. Grow
  BY <1>1 DEF Grow
<1>6. InboundTypeOK'
  BY <1>1, <1>3, <1>4 DEF InboundInv, InboundTypeOK
<1>7. \A h \in handlers' : Placed(h)' /\ Progress(h)'
  BY <1>1, <1>5, PlaceStays DEF InboundInv
<1>8. CacheTrue' /\ CachedIsComplete'
  BY <1>1, <1>5, CacheStays DEF InboundInv, CacheTrue, CachedIsComplete
<1>9. AckAccounts'
  <2> SUFFICES ASSUME NEW q \in replies', q.status = "ok"
               PROVE  /\ \A p \in Elements(q.txn.pdus) :
                            p \in events \/ q.results[p] = "error" \/ TwinStored(p)
                      /\ \A p \in Pdu : q.results[p] = "ok" => p \in events
    BY <1>1 DEF AckAccounts, TwinStored
  <2>1. CASE q \in replies
    BY <2>1 DEF InboundInv, AckAccounts
  <2>2. CASE q = r
    <3>1. \A p \in Elements(t.pdus) :
             p \in events \/ row.results[p] = "error" \/ TwinStored(p)
      BY <1>1 DEF InboundInv, CachedIsComplete
    <3>2. \A p \in Pdu : row.results[p] = "ok" => p \in events
      BY DEF InboundInv, CacheTrue
    <3> QED BY <2>2, <3>1, <3>2, <1>3
  <2> QED BY <1>4, <2>1, <2>2
<1>10. AcceptedOnce'
  BY <1>1 DEF InboundInv, AcceptedOnce
<1> QED BY <1>6, <1>7, <1>8, <1>9, <1>10 DEF InboundInv

LEMMA ArriveNewStep ==
    ASSUME InboundInv, NEW rid \in RequestId, NEW t \in Sent, ArriveNew(rid, t)
    PROVE  InboundInv'
<1> DEFINE g == [rid |-> rid, txn |-> t, stage |-> "verify", next |-> 0,
                 found |-> "none", results |-> NoResults]
<1>1. /\ handlers' = handlers \cup {g} /\ arrived' = arrived \cup {rid}
      /\ UNCHANGED <<events, eduLog, cache, replies>>
  BY DEF ArriveNew
<1>2. g \in Handler
  BY InboundAssumption DEF Handler, Results, NoResults
<1>3. g.txn = t /\ g.stage = "verify" /\ g.next = 0 /\ \A p \in Pdu : g.results[p] # "ok"
  BY DEF NoResults
<1> HIDE DEF g
<1>4. Grow
  BY <1>1 DEF Grow
<1>5. InboundTypeOK'
  BY <1>1, <1>2 DEF InboundInv, InboundTypeOK
<1>6. Placed(g)' /\ Progress(g)'
  BY <1>3 DEF Placed, Progress, PdusDone
<1>7. \A h \in handlers' : Placed(h)' /\ Progress(h)'
  BY <1>1, <1>4, <1>6, PlaceStays DEF InboundInv
<1>8. CacheTrue' /\ CachedIsComplete'
  BY <1>1, <1>4, CacheStays DEF InboundInv, CacheTrue, CachedIsComplete
<1>9. AckAccounts'
  BY <1>1, <1>4, RepliesStay DEF InboundInv, AckAccounts
<1>10. AcceptedOnce'
  BY <1>1, <1>3 DEF InboundInv, AcceptedOnce
<1> QED BY <1>5, <1>7, <1>8, <1>9, <1>10 DEF InboundInv

(* Rows and activations may vanish: expiry and a restart. *)
LEMMA ShrinkStep ==
    ASSUME InboundInv, handlers' \subseteq handlers, cache' \subseteq cache,
           UNCHANGED <<events, eduLog, replies, arrived>>
    PROVE  InboundInv'
<1>1. Grow
  BY DEF Grow
<1>2. InboundTypeOK'
  BY DEF InboundInv, InboundTypeOK
<1>3. \A h \in handlers' : Placed(h)' /\ Progress(h)'
  BY <1>1, PlaceStays DEF InboundInv
<1>4. CacheTrue' /\ CachedIsComplete'
  BY <1>1, CacheStays DEF InboundInv, CacheTrue, CachedIsComplete
<1>5. AckAccounts'
  BY <1>1, RepliesStay DEF InboundInv, AckAccounts
<1>6. AcceptedOnce'
  BY DEF InboundInv, AcceptedOnce
<1> QED BY <1>2, <1>3, <1>4, <1>5, <1>6 DEF InboundInv

-----------------------------------------------------------------------------
(* The theorems.                                                           *)

(* The progress of every activation is exact and what is reported or       *)
(* cached follows from it: an invariant of put() under any interleaving.   *)
THEOREM InboundInvariance == InboundSpec => []InboundInv
<1>1. InboundInit => InboundInv
  BY DEF InboundInit, InboundInv, InboundTypeOK, CacheTrue, AckAccounts, CachedIsComplete,
         AcceptedOnce
<1>2. InboundInv /\ [InboundNext]_inboundVars => InboundInv'
  <2> SUFFICES ASSUME InboundInv, [InboundNext]_inboundVars PROVE InboundInv'
    OBVIOUS
  <2>1. ASSUME NEW h \in handlers, HandlerStep(h) PROVE InboundInv'
    <3>1. CASE VerifyFails(h)
      <4>1. Respond(h, "failed") /\ UNCHANGED <<events, eduLog, cache, arrived>>
        BY <3>1 DEF VerifyFails, tables
      <4>2. Grow /\ events' \subseteq Pdu /\ eduLog' \in Seq(Edu)
        BY <4>1 DEF Grow, InboundInv, InboundTypeOK
      <4> QED BY <4>1, <4>2, FailStep
    <3> QED BY <2>1, <3>1, VerifyStep, ValidateStep, RejectStep, StoreStep, StoreFailsStep,
               EduStep, ReplyStep DEF HandlerStep
  <2>2. ASSUME NEW row \in cache, Expire(row) PROVE InboundInv'
    BY <2>2, ShrinkStep DEF Expire
  <2>3. CASE ReceiverRestart
    BY <2>3, ShrinkStep DEF ReceiverRestart, tables
  <2>4. CASE UNCHANGED inboundVars
    BY <2>4, ShrinkStep DEF inboundVars
  <2> QED BY <2>1, <2>2, <2>3, <2>4, ArriveCachedStep, ArriveNewStep DEF InboundNext
<1> QED BY <1>1, <1>2, PTL DEF InboundSpec

(* The tables, the activations of put() and the responses keep their types. *)
THEOREM InboundTypes == InboundSpec => []InboundTypeOK
<1>1. InboundInv => InboundTypeOK
  BY DEF InboundInv
<1> QED BY <1>1, InboundInvariance, PTL

(* A 200 of put() accounts for every PDU of its transaction. *)
THEOREM AcksAccount == InboundSpec => []AckAccounts
<1>1. InboundInv => AckAccounts
  BY DEF InboundInv
<1> QED BY <1>1, InboundInvariance, PTL

(* No response of a transaction that was cut short is in the cache. *)
THEOREM CacheIsComplete == InboundSpec => []CachedIsComplete
<1>1. InboundInv => CachedIsComplete
  BY DEF InboundInv
<1> QED BY <1>1, InboundInvariance, PTL

(* Of all requests that carry a PDU, one stores it and reports so. *)
THEOREM PdusAcceptedOnce == InboundSpec => []AcceptedOnce
<1>1. InboundInv => AcceptedOnce
  BY DEF InboundInv
<1> QED BY <1>1, InboundInvariance, PTL

-----------------------------------------------------------------------------
(* Why a request ends.                                                     *)

(* How many awaits an activation of put() may still come to. *)
WorkLeft(h) ==
    CASE h.stage = "verify" -> 2 * Len(h.txn.pdus) + Len(h.txn.edus) + 2
      [] h.stage = "validate" -> 2 * (Len(h.txn.pdus) - h.next) + Len(h.txn.edus) + 1
      [] h.stage = "store" -> 2 * (Len(h.txn.pdus) - h.next) + Len(h.txn.edus)
      [] OTHER -> Len(h.txn.edus) - h.next

(* A request has one activation at a time. *)
OneActivation ==
    /\ \A h \in handlers : h.rid \in arrived
    /\ \A g, h \in handlers : g.rid = h.rid => g = h

(* Every step of a request's activation ends it or leaves it with less     *)
(* work, on the same transaction; the steps of other requests leave it     *)
(* alone.  Its loops never turn back, whatever is stored or fails.         *)
RequestsAdvance ==
    [][\A h \in handlers, g \in handlers' : g.rid = h.rid =>
          \/ g = h /\ ~HandlerStep(h)
          \/ g.txn = h.txn /\ WorkLeft(g) \in 0 .. WorkLeft(h) - 1]_inboundVars

(* One step of one activation. *)
LEMMA StepLowersWork ==
    ASSUME InboundInv, NEW h \in handlers, HandlerStep(h)
    PROVE  /\ arrived' = arrived
           /\ \/ handlers' = handlers \ {h}
              \/ \E g : /\ handlers' = (handlers \ {h}) \cup {g}
                       /\ g.rid = h.rid /\ g.txn = h.txn
                       /\ WorkLeft(g) \in 0 .. WorkLeft(h) - 1
<1> DEFINE P == Len(h.txn.pdus)
           E == Len(h.txn.edus)
<1>1. /\ h \in Handler /\ Placed(h) /\ P \in Nat /\ E \in Nat /\ h.next \in Nat
  BY DEF InboundInv, InboundTypeOK, Handler, InTxn
<1>2. arrived' = arrived
  BY DEF HandlerStep, Verify, VerifyFails, ValidatePdu, RejectPdu, StorePdu, StorePduFails,
         ApplyEdu, ApplyEduFails, SkipEdu, CacheAndReply
<1>3. ASSUME NEW g, Become(h, g), g.rid = h.rid, g.txn = h.txn,
             WorkLeft(g) \in 0 .. WorkLeft(h) - 1
      PROVE  \E k : /\ handlers' = (handlers \ {h}) \cup {k}
                    /\ k.rid = h.rid /\ k.txn = h.txn
                    /\ WorkLeft(k) \in 0 .. WorkLeft(h) - 1
  BY <1>3 DEF Become
<1>4. CASE Verify(h)
  <2> DEFINE s == IF h.txn.pdus = << >> THEN "edus" ELSE "validate"
             g == [h EXCEPT !.stage = s]
  <2>1. Become(h, g) /\ h.stage = "verify" /\ h.next = 0
    BY <1>1, <1>4 DEF Verify, Placed
  <2>2. g.rid = h.rid /\ g.txn = h.txn /\ g.stage \in {"edus", "validate"} /\ g.next = 0
    BY <1>1, <2>1 DEF Handler
  <2> HIDE DEF g
  <2>3. WorkLeft(h) = 2 * P + E + 2
    BY <2>1 DEF WorkLeft
  <2>4. WorkLeft(g) = 2 * (P - 0) + E + 1 \/ WorkLeft(g) = E - 0
    BY <2>2 DEF WorkLeft
  <2> HIDE DEF P, E
  <2>5. WorkLeft(g) \in 0 .. WorkLeft(h) - 1
    BY <2>3, <2>4, <1>1
  <2> QED BY <2>1, <2>2, <2>5, <1>2, <1>3
<1>5. CASE ValidatePdu(h)
  <2>1. PICK q : Become(h, [h EXCEPT !.stage = "store", !.found = q])
    BY <1>5 DEF ValidatePdu
  <2>2. h.stage = "validate" /\ h.next < P
    BY <1>1, <1>5 DEF ValidatePdu, Placed
  <2> DEFINE g == [h EXCEPT !.stage = "store", !.found = q]
  <2>3. g.rid = h.rid /\ g.txn = h.txn /\ g.stage = "store" /\ g.next = h.next
    BY <1>1 DEF Handler
  <2>4. Become(h, g)
    BY <2>1
  <2> HIDE DEF g
  <2>5. /\ WorkLeft(h) = 2 * (P - h.next) + E + 1
        /\ WorkLeft(g) = 2 * (P - h.next) + E
    BY <2>2, <2>3 DEF WorkLeft
  <2> HIDE DEF P, E
  <2>6. WorkLeft(g) \in 0 .. WorkLeft(h) - 1
    BY <2>2, <2>5, <1>1
  <2> QED BY <2>3, <2>4, <2>6, <1>2, <1>3
<1>6. CASE RejectPdu(h) \/ StorePdu(h) \/ StorePduFails(h)
  <2>1. PICK results : AfterPdu(h, results)
    BY <1>6 DEF RejectPdu, StorePdu, StorePduFails
  <2>2. h.stage \in {"validate", "store"} /\ h.next < P
    BY <1>1, <1>6 DEF RejectPdu, StorePdu, StorePduFails, Placed
  <2>3. \/ WorkLeft(h) = 2 * (P - h.next) + E + 1
        \/ WorkLeft(h) = 2 * (P - h.next) + E
    BY <2>2 DEF WorkLeft
  <2>4. CASE h.next + 1 < P
    <3> DEFINE g == [h EXCEPT !.stage = "validate", !.next = h.next + 1,
                              !.found = "none", !.results = results]
    <3>1. Become(h, g)
      BY <2>1, <2>4 DEF AfterPdu
    <3>2. /\ g.rid = h.rid /\ g.txn = h.txn /\ g.stage = "validate"
          /\ g.next = h.next + 1
      BY <1>1 DEF Handler
    <3> HIDE DEF g
    <3>3. WorkLeft(g) = 2 * (P - (h.next + 1)) + E + 1
      BY <3>2 DEF WorkLeft
    <3> HIDE DEF P, E
    <3>4. WorkLeft(g) \in 0 .. WorkLeft(h) - 1
      BY <2>3, <2>4, <3>3, <1>1
    <3> QED BY <3>1, <3>2, <3>4, <1>2, <1>3
  <2>5. CASE ~(h.next + 1 < P)
    <3> DEFINE g == [h EXCEPT !.stage = "edus", !.next = 0,
                              !.found = "none", !.results = results]
    <3>1. Become(h, g)
      BY <2>1, <2>5 DEF AfterPdu
    <3>2. g.rid = h.rid /\ g.txn = h.txn /\ g.stage = "edus" /\ g.next = 0
      BY <1>1 DEF Handler
    <3> HIDE DEF g
    <3>3. WorkLeft(g) = E - 0
      BY <3>2 DEF WorkLeft
    <3> HIDE DEF P, E
    <3>4. WorkLeft(g) \in 0 .. WorkLeft(h) - 1
      BY <2>2, <2>3, <3>3, <1>1
    <3> QED BY <3>1, <3>2, <3>4, <1>2, <1>3
  <2> QED BY <2>4, <2>5
<1>7. CASE ApplyEdu(h) \/ SkipEdu(h)
  <2> DEFINE g == [h EXCEPT !.next = h.next + 1]
  <2>1. Become(h, g) /\ h.stage = "edus" /\ h.next < E
    BY <1>7 DEF ApplyEdu, SkipEdu
  <2>2. g.rid = h.rid /\ g.txn = h.txn /\ g.stage = "edus" /\ g.next = h.next + 1
    BY <1>1, <2>1 DEF Handler
  <2> HIDE DEF g
  <2>3. WorkLeft(h) = E - h.next /\ WorkLeft(g) = E - (h.next + 1)
    BY <2>1, <2>2 DEF WorkLeft
  <2> HIDE DEF P, E
  <2>4. WorkLeft(g) \in 0 .. WorkLeft(h) - 1
    BY <2>1, <2>3, <1>1
  <2> QED BY <2>1, <2>2, <2>4, <1>2, <1>3
<1>8. CASE VerifyFails(h) \/ ApplyEduFails(h) \/ CacheAndReply(h)
  BY <1>2, <1>8 DEF VerifyFails, ApplyEduFails, CacheAndReply, Respond
<1> QED BY <1>4, <1>5, <1>6, <1>7, <1>8 DEF HandlerStep

(* Every request makes progress to its response: RequestsAdvance, for any  *)
(* transactions and any number of requests at once.                        *)
THEOREM RequestsDoAdvance == InboundSpec => RequestsAdvance
<1> DEFINE Adv == [\A h \in handlers, g \in handlers' : g.rid = h.rid =>
                     \/ g = h /\ ~HandlerStep(h)
                     \/ g.txn = h.txn /\ WorkLeft(g) \in 0 .. WorkLeft(h) - 1]_inboundVars
<1>1. InboundInit => OneActivation
  BY DEF InboundInit, OneActivation
<1>2. ASSUME InboundInv, OneActivation, [InboundNext]_inboundVars
      PROVE  OneActivation' /\ Adv
  <2>1. ASSUME NEW h \in handlers, HandlerStep(h), NEW g \in handlers', g.rid = h.rid
        PROVE  g.txn = h.txn /\ WorkLeft(g) \in 0 .. WorkLeft(h) - 1
    BY <1>2, <2>1, StepLowersWork DEF OneActivation
  <2>2. ASSUME NEW k \in handlers, HandlerStep(k)
        PROVE  /\ OneActivation'
               /\ \A h \in handlers, g \in handlers' :
                     g.rid = h.rid => g = h \/ HandlerStep(h)
    <3>1. arrived' = arrived
      BY <1>2, <2>2, StepLowersWork
    <3>2. CASE handlers' = handlers \ {k}
      BY <1>2, <3>1, <3>2 DEF OneActivation
    <3>3. ASSUME NEW j, handlers' = (handlers \ {k}) \cup {j}, j.rid = k.rid
          PROVE  /\ OneActivation'
                 /\ \A h \in handlers, g \in handlers' :
                       g.rid = h.rid => g = h \/ HandlerStep(h)
      BY <1>2, <2>2, <3>1, <3>3 DEF OneActivation
    <3> QED BY <1>2, <2>2, <3>2, <3>3, StepLowersWork
  <2>3. ASSUME NEW r \in RequestId, NEW t \in Sent, ArriveNew(r, t)
        PROVE  /\ OneActivation'
               /\ \A h \in handlers, g \in handlers' : g.rid = h.rid => g = h
    <3>1. PICK j : j.rid = r /\ handlers' = handlers \cup {j}
      BY <2>3 DEF ArriveNew
    <3>2. r \notin arrived /\ arrived' = arrived \cup {r}
      BY <2>3 DEF ArriveNew
    <3> QED BY <1>2, <3>1, <3>2 DEF OneActivation
  <2>4. \/ \E r \in RequestId, t \in Sent : ArriveNew(r, t)
        \/ \E k \in handlers : HandlerStep(k)
        \/ handlers' \in {handlers, {}} /\ arrived \subseteq arrived'
    BY <1>2 DEF InboundNext, ArriveCached, Expire, ReceiverRestart, inboundVars
  <2>5. /\ OneActivation'
        /\ \A h \in handlers, g \in handlers' :
              g.rid = h.rid => g = h \/ HandlerStep(h)
    <3>1. CASE handlers' \in {handlers, {}} /\ arrived \subseteq arrived'
      BY <1>2, <3>1 DEF OneActivation
    <3> QED BY <2>2, <2>3, <2>4, <3>1
  <2> QED BY <2>1, <2>5
<1> QED BY <1>1, <1>2, InboundInvariance, PTL DEF InboundSpec, RequestsAdvance
=============================================================================
