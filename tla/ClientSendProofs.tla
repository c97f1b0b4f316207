-------------------------- MODULE ClientSendProofs --------------------------
(***************************************************************************)
(* Proofs about ClientSend for any number of events, transactions and      *)
(* concurrent requests.                                                    *)
(*                                                                         *)
(* DagSound and MappingNamesEvent speak of the tables only.  That the next *)
(* row keeps them rests on what the running requests carry: an id nobody   *)
(* else has (Carried, OwnId) and prev_events and a depth that are still    *)
(* right when the row is written, because rows never change (Carried).     *)
(***************************************************************************)
EXTENDS ClientSend, TLAPS

Early == {"recheck", "dag", "create"}

(* What a request carries from one await to the next. *)
Carried ==
    \A r \in reqs :
        /\ r.stage \in Early => r.id \in generated \ ids
        /\ r.stage = "create" => r.prev \subseteq ids /\ DepthAfter(r.prev, r.depth)
        /\ r.stage \in {"map", "sign"} => r.id \in ids /\ event[r.id].txn = r.txn

(* Two requests that will each create an event create different ones. *)
OwnId ==
    \A r, s \in reqs : r.stage \in Early /\ s.stage \in Early /\ r.id = s.id => r = s

(* Answers come from the mapping. *)
AnswersMapped ==
    \A a \in replies : a.status = "ok" => [txn |-> a.txn, id |-> a.id] \in mapping

SendInv ==
    /\ SendTypeOK
    /\ ids \subseteq generated
    /\ Carried
    /\ OwnId
    /\ DagSound
    /\ \A m \in mapping : m.id \in ids /\ event[m.id].txn = m.txn
    /\ AnswersMapped

-----------------------------------------------------------------------------
(* A step that keeps the tables keeps what is said of them alone.          *)
LEMMA TablesKept ==
    ASSUME SendInv, UNCHANGED sendTables
    PROVE  /\ DagSound'
           /\ \A m \in mapping' : m.id \in ids' /\ event'[m.id].txn = m.txn
           /\ \A P, d : DepthAfter(P, d)' = DepthAfter(P, d)
BY DEF SendInv, sendTables, DagSound, DepthAfter

(* A request ends with a failure or without an answer. *)
LEMMA RequestEnds ==
    ASSUME SendInv, NEW r \in reqs, reqs' = reqs \ {r},
           UNCHANGED <<sendTables, seen, generated, queued>>,
           replies' \subseteq SendReply,
           \A a \in replies' : a.status = "ok" => a \in replies
    PROVE  SendInv'
<1> USE DEF SendInv, sendTables
<1>1. SendTypeOK' /\ ids' \subseteq generated'
  BY DEF SendTypeOK
<1>2. Carried'
  BY TablesKept DEF Carried
<1>3. OwnId'
  BY DEF OwnId
<1>4. AnswersMapped'
  BY DEF AnswersMapped
<1> QED BY <1>1, <1>2, <1>3, <1>4, TablesKept

LEMMA FailedReply ==
    ASSUME SendInv, NEW r \in reqs, Reply(r, "failed"),
           UNCHANGED <<sendTables, seen, generated, queued>>
    PROVE  SendInv'
<1> DEFINE a == [rid |-> r.rid, txn |-> r.txn, status |-> "failed", id |-> r.id]
<1>1. r \in Request
  BY DEF SendInv, SendTypeOK
<1>2. a \in SendReply
  BY <1>1 DEF Request, SendReply
<1>3. replies' = replies \cup {a} /\ reqs' = reqs \ {r}
  BY DEF Reply
<1>4. replies' \subseteq SendReply
  BY <1>2, <1>3 DEF SendInv, SendTypeOK
<1>5. \A b \in replies' : b.status = "ok" => b \in replies
  BY <1>3
<1> QED BY <1>3, <1>4, <1>5, RequestEnds

(* A request moves on and the tables stay as they are. *)
LEMMA RequestMoves ==
    ASSUME SendInv, NEW r \in reqs, NEW s \in Request, Step(r, s),
           UNCHANGED <<sendTables, replies, seen, generated, queued>>,
           r.stage \in Early,
           s.stage \in Early => s.id = r.id,
           s.stage = "create" => s.prev \subseteq ids /\ DepthAfter(s.prev, s.depth),
           s.stage \in {"map", "sign"} => s.id \in ids /\ event[s.id].txn = s.txn
    PROVE  SendInv'
<1> USE DEF SendInv, sendTables, Step
<1>1. SendTypeOK' /\ ids' \subseteq generated'
  BY DEF SendTypeOK
<1>2. Carried'
  BY TablesKept DEF Carried
<1>3. OwnId'
  BY DEF OwnId
<1>4. AnswersMapped'
  BY DEF AnswersMapped
<1> QED BY <1>1, <1>2, <1>3, <1>4, TablesKept

-----------------------------------------------------------------------------
(* The actions.                                                            *)

LEMMA ArriveKnownStep ==
    ASSUME SendInv, NEW rid \in RequestId, NEW t \in TxnId, ArriveKnown(rid, t)
    PROVE  SendInv'
<1> USE DEF SendInv
<1>1. PICK m \in Mapped(t) :
        replies' = replies \cup {[rid |-> rid, txn |-> t, status |-> "ok", id |-> m.id]}
  BY DEF ArriveKnown
<1>2. /\ UNCHANGED <<ids, event, mapping, reqs, generated, queued>>
      /\ seen' = seen \cup {rid}
  BY DEF ArriveKnown, sendTables
<1>3. m \in mapping /\ m \in MappingRow /\ m.txn = t
  BY DEF Mapped, SendTypeOK
<1> DEFINE a == [rid |-> rid, txn |-> t, status |-> "ok", id |-> m.id]
<1>4. a \in SendReply /\ [txn |-> a.txn, id |-> a.id] = m
  BY <1>3 DEF SendReply, MappingRow
<1>5. SendTypeOK' /\ ids' \subseteq generated'
  BY <1>1, <1>2, <1>4 DEF SendTypeOK
<1>6. Carried' /\ OwnId'
  BY <1>2, TablesKept DEF Carried, OwnId, sendTables
<1>7. AnswersMapped'
  BY <1>1, <1>2, <1>3, <1>4 DEF AnswersMapped
<1> QED BY <1>2, <1>5, <1>6, <1>7, TablesKept DEF sendTables

LEMMA ArriveStep ==
    ASSUME SendInv, NEW rid \in RequestId, NEW t \in TxnId, NEW i \in EventId,
           Arrive(rid, t, i)
    PROVE  SendInv'
<1> USE DEF SendInv
<1> DEFINE r == [rid |-> rid, txn |-> t, id |-> i, stage |-> "recheck",
                 prev |-> {}, depth |-> 1]
<1>1. /\ UNCHANGED <<ids, event, mapping, replies, queued>>
      /\ seen' = seen \cup {rid}
      /\ generated' = generated \cup {i}
      /\ reqs' = reqs \cup {r}
      /\ i \notin generated
  BY DEF Arrive, sendTables
<1>2. r \in Request
  BY DEF Request
<1>3. r.id = i /\ r.stage = "recheck"
  OBVIOUS
<1> HIDE DEF r
<1>4. SendTypeOK' /\ ids' \subseteq generated'
  BY <1>1, <1>2 DEF SendTypeOK
<1>5. Carried'
  BY <1>1, <1>3, TablesKept DEF Carried, sendTables, Early, SendTypeOK
<1>6. OwnId'
  BY <1>1, <1>3 DEF OwnId, Carried
<1>7. AnswersMapped'
  BY <1>1 DEF AnswersMapped
<1> QED BY <1>1, <1>4, <1>5, <1>6, <1>7, TablesKept DEF sendTables

LEMMA RecheckStep ==
    ASSUME SendInv, NEW r \in reqs, Recheck(r)
    PROVE  SendInv'
<1>1. r \in Request /\ r.stage = "recheck" /\ r.stage \in Early
  BY DEF SendInv, SendTypeOK, Recheck, Early
<1>2. CASE \E m \in Mapped(r.txn) : m.id \in ids
  <2>1. PICK m \in Mapped(r.txn) :
          m.id \in ids /\ Step(r, [r EXCEPT !.stage = "sign", !.id = m.id])
    BY <1>2 DEF Recheck
  <2> DEFINE s == [r EXCEPT !.stage = "sign", !.id = m.id]
  <2>2. m \in mapping /\ m \in MappingRow /\ m.txn = r.txn /\ event[m.id].txn = m.txn
    BY DEF Mapped, SendInv, SendTypeOK
  <2>3. s \in Request /\ s.stage = "sign" /\ s.id = m.id /\ s.txn = r.txn
    BY <1>1, <2>2 DEF Request, MappingRow
  <2>4. Step(r, s)
    BY <2>1
  <2> HIDE DEF s
  <2> QED BY <1>1, <2>1, <2>2, <2>3, <2>4, RequestMoves DEF Recheck, Early
<1>3. CASE ~(\E m \in Mapped(r.txn) : m.id \in ids)
  <2> DEFINE s == [r EXCEPT !.stage = "dag"]
  <2>1. s \in Request /\ s.stage = "dag" /\ s.id = r.id
    BY <1>1 DEF Request
  <2>2. Step(r, s)
    BY <1>3 DEF Recheck
  <2> HIDE DEF s
  <2> QED BY <1>1, <2>1, <2>2, RequestMoves DEF Recheck, Early
<1> QED BY <1>2, <1>3

LEMMA ReadDagStep ==
    ASSUME SendInv, NEW r \in reqs, ReadDag(r)
    PROVE  SendInv'
<1>1. r \in Request /\ r.stage = "dag" /\ r.stage \in Early
  BY DEF SendInv, SendTypeOK, ReadDag, Early
<1>2. PICK P \in SUBSET Extremities : \E d \in {1} \cup {event[e].depth + 1 : e \in P} :
          /\ DepthAfter(P, d)
          /\ Step(r, [r EXCEPT !.stage = "create", !.prev = P, !.depth = d])
  BY DEF ReadDag
<1>3. PICK d \in {1} \cup {event[e].depth + 1 : e \in P} :
          /\ DepthAfter(P, d)
          /\ Step(r, [r EXCEPT !.stage = "create", !.prev = P, !.depth = d])
  BY <1>2
<1>4. P \subseteq ids /\ P \subseteq EventId
  BY DEF Extremities, SendInv, SendTypeOK
<1>5. \A e \in P : event[e] \in EventRow
  BY <1>4 DEF SendInv, SendTypeOK
<1>6. d \in Nat \ {0}
  BY <1>5 DEF EventRow
<1> DEFINE s == [r EXCEPT !.stage = "create", !.prev = P, !.depth = d]
<1>7. s \in Request /\ s.stage = "create" /\ s.id = r.id /\ s.prev = P /\ s.depth = d
  BY <1>1, <1>4, <1>6 DEF Request
<1>8. Step(r, s)
  BY <1>3
<1> HIDE DEF s
<1> QED BY <1>1, <1>3, <1>4, <1>7, <1>8, RequestMoves DEF ReadDag, Early

LEMMA CreateEventStep ==
    ASSUME SendInv, NEW r \in reqs, CreateEvent(r)
    PROVE  SendInv'
<1> USE DEF SendInv
<1> DEFINE w == [txn |-> r.txn, prev |-> r.prev, depth |-> r.depth, signed |-> FALSE]
           s == [r EXCEPT !.stage = "map"]
<1>1. /\ r \in Request
      /\ r.stage = "create" /\ r.stage \in Early
      /\ r.id \in generated /\ r.id \notin ids
      /\ r.prev \subseteq ids /\ DepthAfter(r.prev, r.depth)
  BY DEF SendTypeOK, CreateEvent, Early, Carried
<1>2. /\ ids' = ids \cup {r.id}
      /\ event' = [e \in ids' |-> IF e = r.id THEN w ELSE event[e]]
      /\ reqs' = (reqs \ {r}) \cup {s}
      /\ UNCHANGED <<mapping, replies, seen, generated, queued>>
  BY DEF CreateEvent, Step
<1>3. w \in EventRow /\ w.txn = r.txn /\ w.prev = r.prev /\ w.depth = r.depth
  BY <1>1 DEF EventRow, Request
<1>4. s \in Request /\ s.stage = "map" /\ s.id = r.id /\ s.txn = r.txn
  BY <1>1 DEF Request
<1>5. event'[r.id] = w /\ \A e \in ids : event'[e] = event[e]
  BY <1>1, <1>2
<1> HIDE DEF w, s
<1>6. SendTypeOK' /\ ids' \subseteq generated'
  <2>1. event' \in [ids' -> EventRow]
    BY <1>2, <1>3 DEF SendTypeOK
  <2>2. r.id \in EventId
    BY <1>1 DEF Request
  <2> QED BY <2>1, <2>2, <1>1, <1>2, <1>4 DEF SendTypeOK
<1>7. \A P, d : P \subseteq ids => (DepthAfter(P, d) => DepthAfter(P, d)')
  BY <1>5 DEF DepthAfter
<1>8. Carried'
  <2>1. ASSUME NEW q \in reqs \ {r}
        PROVE  /\ q.stage \in Early => q.id \in generated' \ ids'
               /\ q.stage = "create" => q.prev \subseteq ids' /\ DepthAfter(q.prev, q.depth)'
               /\ q.stage \in {"map", "sign"} => q.id \in ids' /\ event'[q.id].txn = q.txn
    BY <1>1, <1>2, <1>5, <1>7 DEF Carried, OwnId
  <2>2. s.stage \notin Early /\ s.id \in ids' /\ event'[s.id].txn = s.txn
    BY <1>2, <1>3, <1>4, <1>5 DEF Early
  <2> QED BY <2>1, <2>2, <1>2, <1>4 DEF Carried
<1>9. OwnId'
  BY <1>2, <1>4 DEF OwnId, Early
<1>10. DagSound'
  <2>1. ASSUME NEW e \in ids
        PROVE  /\ event'[e].prev \subseteq ids'
               /\ \A p \in event'[e].prev : event'[p].depth < event'[e].depth
               /\ \/ event'[e].depth = 1
                  \/ \E p \in event'[e].prev : event'[e].depth = event'[p].depth + 1
    <3>1. event[e].prev \subseteq ids
      BY DEF DagSound
    <3> QED BY <3>1, <1>2, <1>5 DEF DagSound
  <2>2. /\ r.prev \subseteq ids'
        /\ \A p \in r.prev : event'[p].depth < r.depth
        /\ r.depth = 1 \/ \E p \in r.prev : r.depth = event'[p].depth + 1
    <3>1. \A p \in r.prev : event'[p].depth = event[p].depth /\ event[p].depth \in Nat
      BY <1>1, <1>5 DEF SendTypeOK, EventRow
    <3>2. CASE r.prev = {}
      BY <3>2, <1>1, <1>2 DEF DepthAfter
    <3>3. CASE r.prev # {}
      <4>1. PICK e \in r.prev : /\ r.depth = event[e].depth + 1
                               /\ \A p \in r.prev : event[p].depth <= event[e].depth
        BY <3>3, <1>1 DEF DepthAfter
      <4>2. event[e].depth \in Nat /\ event'[e].depth = event[e].depth
        BY <4>1, <3>1
      <4>3. ASSUME NEW p \in r.prev PROVE event'[p].depth < r.depth
        BY <4>1, <4>2, <3>1
      <4>4. \E p \in r.prev : r.depth = event'[p].depth + 1
        BY <4>1, <4>2
      <4>5. r.prev \subseteq ids'
        BY <1>1, <1>2
      <4> QED BY <4>3, <4>4, <4>5
    <3> QED BY <3>2, <3>3
  <2>3. event'[r.id].prev = r.prev /\ event'[r.id].depth = r.depth
    BY <1>3, <1>5
  <2>4. ASSUME NEW e \in ids'
        PROVE  /\ event'[e].prev \subseteq ids'
               /\ \A p \in event'[e].prev : event'[p].depth < event'[e].depth
               /\ \/ event'[e].depth = 1
                  \/ \E p \in event'[e].prev : event'[e].depth = event'[p].depth + 1
    <3>1. CASE e \in ids
      BY <3>1, <2>1
    <3>2. CASE e = r.id
      BY <3>2, <2>2, <2>3
    <3> QED BY <3>1, <3>2, <1>2
  <2> QED BY <2>4 DEF DagSound
<1>11. \A m \in mapping' : m.id \in ids' /\ event'[m.id].txn = m.txn
  BY <1>2, <1>5
<1>12. AnswersMapped'
  BY <1>2 DEF AnswersMapped
<1> QED BY <1>6, <1>8, <1>9, <1>10, <1>11, <1>12

LEMMA StoreMappingStep ==
    ASSUME SendInv, NEW r \in reqs, StoreMapping(r)
    PROVE  SendInv'
<1> USE DEF SendInv
<1> DEFINE s == [r EXCEPT !.stage = "sign"]
           m == [txn |-> r.txn, id |-> r.id]
<1>1. /\ r \in Request
      /\ r.stage = "map"
      /\ r.id \in ids /\ event[r.id].txn = r.txn
  BY DEF SendTypeOK, StoreMapping, Carried
<1>2. /\ UNCHANGED <<ids, event, replies, seen, generated, queued>>
      /\ mapping' = mapping \cup {m}
      /\ reqs' = (reqs \ {r}) \cup {s}
  BY DEF StoreMapping, Step
<1>3. s \in Request /\ s.stage = "sign" /\ s.id = r.id /\ s.txn = r.txn
  BY <1>1 DEF Request
<1>4. m \in MappingRow /\ m.txn = r.txn /\ m.id = r.id
  BY <1>1 DEF MappingRow, Request
<1> HIDE DEF s, m
<1>5. SendTypeOK' /\ ids' \subseteq generated'
  BY <1>2, <1>3, <1>4 DEF SendTypeOK
<1>6. Carried'
  BY <1>1, <1>2, <1>3 DEF Carried, Early, DepthAfter
<1>7. OwnId'
  BY <1>2, <1>3 DEF OwnId, Early
<1>8. DagSound'
  BY <1>2 DEF DagSound
<1>9. \A k \in mapping' : k.id \in ids' /\ event'[k.id].txn = k.txn
  BY <1>1, <1>2, <1>4
<1>10. AnswersMapped'
  BY <1>2, <1>4 DEF AnswersMapped
<1> QED BY <1>5, <1>6, <1>7, <1>8, <1>9, <1>10

(* The second create() always finds the row of the first.                  *)
LEMMA SignAndStoreStep ==
    ASSUME SendInv, NEW r \in reqs, SignAndStore(r)
    PROVE  SendInv'
<1>1. r.id \in ids
  BY DEF SendInv, Carried, SignAndStore
<1>2. Reply(r, "failed") /\ UNCHANGED <<sendTables, seen, generated, queued>>
  BY <1>1 DEF SignAndStore, sendTables
<1> QED BY <1>2, FailedReply

-----------------------------------------------------------------------------
(* SendInv holds always, whatever requests run concurrently and wherever   *)
(* they are cut short.                                                     *)
THEOREM SendInvariance == SendSpec => []SendInv
<1>1. SendInit => SendInv
  <2> SUFFICES ASSUME SendInit PROVE SendInv
    OBVIOUS
  <2> DEFINE w == [txn |-> NoTxn, prev |-> {}, depth |-> 1, signed |-> TRUE]
  <2>1. w \in EventRow /\ w.prev = {} /\ w.depth = 1
    BY DEF EventRow
  <2>2. event = [e \in ids |-> w] /\ ids = {First} /\ event[First] = w
    BY DEF SendInit
  <2> HIDE DEF w
  <2>3. SendTypeOK /\ ids \subseteq generated
    BY <2>1, <2>2, SendAssumption DEF SendInit, SendTypeOK
  <2>4. DagSound
    BY <2>1, <2>2 DEF DagSound
  <2>5. Carried /\ OwnId /\ AnswersMapped
    BY DEF SendInit, Carried, OwnId, AnswersMapped
  <2> QED BY <2>3, <2>4, <2>5 DEF SendInv, SendInit
<1>2. SendInv /\ [SendNext]_sendVars => SendInv'
  <2> SUFFICES ASSUME SendInv, [SendNext]_sendVars PROVE SendInv'
    OBVIOUS
  <2>1. ASSUME NEW r \in reqs, SendStep(r) PROVE SendInv'
    <3>1. CASE Refuse(r)
      BY <3>1, FailedReply DEF Refuse
    <3>2. CASE AbortSend(r)
      BY <3>2, RequestEnds DEF AbortSend, SendInv, SendTypeOK
    <3> QED BY <2>1, <3>1, <3>2, RecheckStep, ReadDagStep, CreateEventStep,
               StoreMappingStep, SignAndStoreStep DEF SendStep
  <2>2. CASE UNCHANGED sendVars
    <3>1. SendTypeOK' /\ Carried' /\ OwnId' /\ AnswersMapped' /\ ids' \subseteq generated'
      BY <2>2, TablesKept DEF sendVars, sendTables, SendInv, SendTypeOK, Carried, OwnId,
                              AnswersMapped
    <3> QED BY <3>1, <2>2, TablesKept DEF SendInv, sendVars, sendTables
  <2> QED BY <2>1, <2>2, ArriveKnownStep, ArriveStep DEF SendNext
<1> QED BY <1>1, <1>2, PTL DEF SendSpec

(* Concurrent sends keep the room's events a DAG with exact depths. *)
THEOREM DagIsSound == SendSpec => []DagSound
<1>1. SendInv => DagSound
  BY DEF SendInv
<1> QED BY <1>1, SendInvariance, PTL

(* A transaction id leads to a stored event of that transaction. *)
THEOREM MappingsNameEvents == SendSpec => []MappingNamesEvent
<1>1. SendInv => MappingNamesEvent
  BY DEF SendInv, MappingNamesEvent, AnswersMapped
<1> QED BY <1>1, SendInvariance, PTL

(* The event table, the mapping and the requests keep their types. *)
THEOREM SendTypes == SendSpec => []SendTypeOK
<1>1. SendInv => SendTypeOK
  BY DEF SendInv
<1> QED BY <1>1, SendInvariance, PTL
=============================================================================
