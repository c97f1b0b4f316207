------------------------ MODULE FederationLinkProofs ------------------------
(***************************************************************************)
(* Proofs about OutboundQueue, and about FederationLink built on it, for   *)
(* every set of destinations, events and transaction ids and every limit.  *)
(*                                                                         *)
(* First the queue alone.  BelowLimit is not inductive.  It needs to know  *)
(* that the in-flight map never stops the flush of a full queue            *)
(* (InFlightExact), that a full queue's destination is still to be visited *)
(* by the flush under way (FullIsDue), and that the transaction being sent *)
(* belongs to the destination being visited and emptied its queues         *)
(* (SendingDue, FlushEmpties).  That no item is ever in two places         *)
(* (NoCopies) is proved on top of it: a batch that is popped is the whole  *)
(* of both queues.                                                         *)
(*                                                                         *)
(* Then the link.  Every step of its sender is a step of the queue, so the *)
(* queue's invariants carry over.  SenderInv adds how what waits lies in   *)
(* the order of queueing, and that an id is drawn once.  PeerInv says that *)
(* every message, activation of put() and cached response is about a       *)
(* transaction the sender built, and how far the peer is with its PDUs.    *)
(* LinkInv is the two together with AckedHandled; from it follow the       *)
(* link's safety properties and, step by step, the refinement of           *)
(* PduDelivery.                                                            *)
(***************************************************************************)
EXTENDS FederationLink, SequenceTheorems, FiniteSetTheorems, TLAPS

(* Only a destination the flush still has to visit can have a full queue. *)
FullIsDue ==
    /\ pc = "select" => todo = {}
    /\ \A d \in Dest : d \notin todo => HasRoom(d)

(* The transaction being sent is one of the flush under way. *)
SendingDue ==
    pc \in {"send", "sleep"} => txn \in Transaction /\ txn.dest \in todo

IndInv ==
    /\ TypeOK
    /\ InFlightExact
    /\ BelowLimit
    /\ FlushEmpties
    /\ FullIsDue
    /\ SendingDue

-----------------------------------------------------------------------------
(* What popping a batch returns and leaves.                                *)

LEMMA BatchFacts ==
    ASSUME NEW S, NEW q \in Seq(S), NEW n \in Nat \ {0}
    PROVE  /\ Taken(q, n) \in Seq(S)
           /\ Left(q, n) \in Seq(S)
           /\ Len(q) <= n => Left(q, n) = << >>
<1>1. Len(q) \in Nat /\ \A i \in 1 .. Len(q) : q[i] \in S
  BY LenProperties, ElementOfSeq
<1>2. AtMost(n, Len(q)) \in 0 .. Len(q) /\ (Len(q) <= n => AtMost(n, Len(q)) = Len(q))
  BY <1>1 DEF AtMost
<1> DEFINE m == AtMost(n, Len(q))
<1>3. SubSeq(q, 1, m) \in Seq(S)
  <2>1. \A i \in 1 .. m : q[i] \in S
    BY <1>1, <1>2
  <2> QED BY <2>1, <1>2, SubSeqProperties
<1>4. SubSeq(q, m + 1, Len(q)) \in Seq(S)
  <2>1. \A i \in m + 1 .. Len(q) : q[i] \in S
    BY <1>1, <1>2
  <2>2. m + 1 \in Int /\ Len(q) \in Int
    BY <1>1, <1>2
  <2> QED BY <2>1, <2>2, SubSeqProperties
<1>5. Len(q) <= n => SubSeq(q, m + 1, Len(q)) = << >>
  <2>1. ASSUME Len(q) <= n PROVE m + 1 \in Int /\ Len(q) \in Int /\ Len(q) < m + 1
    BY <1>1, <1>2, <2>1
  <2> QED BY <2>1, SubSeqEmpty
<1> QED BY <1>3, <1>4, <1>5 DEF Taken, Left

(* Queueing one event lengthens one queue by one. *)
LEMMA AppendFacts ==
    ASSUME NEW S, NEW q \in Seq(S), NEW x \in S
    PROVE  Append(q, x) \in Seq(S) /\ Len(Append(q, x)) = Len(q) + 1
OBVIOUS

-----------------------------------------------------------------------------
(* The new queue of an event's destination is full exactly when the flush  *)
(* of that destination is scheduled.                                       *)
LEMMA QueuePduStep ==
    ASSUME IndInv, QueuePdu
    PROVE  IndInv'
<1> USE LimitsAssumption
<1> DEFINE d == Head(chan).dest
           q == Append(pduQ[d], Head(chan).item)
<1>1. /\ Head(chan) \in Event
      /\ Tail(chan) \in Seq(Event)
  BY HeadTailProperties DEF QueuePdu, IndInv, TypeOK
<1>2. /\ d \in Dest
      /\ q \in Seq(Pdu)
      /\ Len(q) = Len(pduQ[d]) + 1
      /\ Len(pduQ[d]) \in Nat
      /\ Len(pduQ[d]) < MaxPdus
      /\ Len(eduQ[d]) < MaxEdus
  BY <1>1 DEF QueuePdu, IndInv, TypeOK, Event, BelowLimit, HasRoom
<1>3. /\ pduQ' = [pduQ EXCEPT ![d] = q]
      /\ eduQ' = eduQ
      /\ inFlight' = inFlight
      /\ txn' = txn
      /\ retries' = retries
      /\ backoff' = backoff
      /\ chan' = Tail(chan)
      /\ clock' = 0
      /\ pc = "select"
      /\ IF Len(q) >= MaxPdus
         THEN pc' = "flush" /\ todo' = {d}
         ELSE pc' = pc /\ todo' = todo
  BY DEF QueuePdu, AfterQueueing, sendVars
<1>4. TypeOK'
  BY <1>1, <1>2, <1>3 DEF IndInv, TypeOK
<1>5. \A c \in Dest : /\ c # d => pduQ'[c] = pduQ[c] /\ HasRoom(c)
                      /\ c = d => pduQ'[c] = q
  BY <1>2, <1>3 DEF IndInv, TypeOK, BelowLimit
<1>6. BelowLimit' /\ FullIsDue'
  BY <1>2, <1>3, <1>4, <1>5 DEF IndInv, TypeOK, BelowLimit, HasRoom, FullIsDue
<1>7. InFlightExact' /\ FlushEmpties' /\ SendingDue'
  BY <1>3 DEF IndInv, InFlightExact, FlushEmpties, SendingDue
<1> QED BY <1>4, <1>6, <1>7 DEF IndInv

LEMMA QueueEduStep ==
    ASSUME IndInv, QueueEdu
    PROVE  IndInv'
<1> USE LimitsAssumption
<1> DEFINE d == Head(chan).dest
           q == Append(eduQ[d], Head(chan).item)
<1>1. /\ Head(chan) \in Event
      /\ Tail(chan) \in Seq(Event)
  BY HeadTailProperties DEF QueueEdu, IndInv, TypeOK
<1>2. /\ d \in Dest
      /\ q \in Seq(Edu)
      /\ Len(q) = Len(eduQ[d]) + 1
      /\ Len(eduQ[d]) \in Nat
      /\ Len(pduQ[d]) < MaxPdus
      /\ Len(eduQ[d]) < MaxEdus
  BY <1>1 DEF QueueEdu, IndInv, TypeOK, Event, BelowLimit, HasRoom
<1>3. /\ eduQ' = [eduQ EXCEPT ![d] = q]
      /\ pduQ' = pduQ
      /\ inFlight' = inFlight
      /\ txn' = txn
      /\ retries' = retries
      /\ backoff' = backoff
      /\ chan' = Tail(chan)
      /\ clock' = 0
      /\ pc = "select"
      /\ IF Len(q) >= MaxEdus
         THEN pc' = "flush" /\ todo' = {d}
         ELSE pc' = pc /\ todo' = todo
  BY DEF QueueEdu, AfterQueueing, sendVars
<1>4. TypeOK'
  BY <1>1, <1>2, <1>3 DEF IndInv, TypeOK
<1>5. \A c \in Dest : /\ c # d => eduQ'[c] = eduQ[c] /\ HasRoom(c)
                      /\ c = d => eduQ'[c] = q
  BY <1>2, <1>3 DEF IndInv, TypeOK, BelowLimit
<1>6. BelowLimit' /\ FullIsDue'
  BY <1>2, <1>3, <1>4, <1>5 DEF IndInv, TypeOK, BelowLimit, HasRoom, FullIsDue
<1>7. InFlightExact' /\ FlushEmpties' /\ SendingDue'
  BY <1>3 DEF IndInv, InFlightExact, FlushEmpties, SendingDue
<1> QED BY <1>4, <1>6, <1>7 DEF IndInv

(* A new transaction empties its destination's queues: they held no more   *)
(* than one batch.                                                         *)
LEMMA StartTxnStep ==
    ASSUME IndInv, NEW d \in Dest, NEW u \in TxnId, StartTxn(d, u)
    PROVE  IndInv'
<1> USE LimitsAssumption
<1>1. /\ Taken(pduQ[d], MaxPdus) \in Seq(Pdu)
      /\ Left(pduQ[d], MaxPdus) = << >>
      /\ Taken(eduQ[d], MaxEdus) \in Seq(Edu)
      /\ Left(eduQ[d], MaxEdus) = << >>
  BY BatchFacts DEF IndInv, TypeOK, BelowLimit
<1>2. /\ pduQ' = [pduQ EXCEPT ![d] = << >>]
      /\ eduQ' = [eduQ EXCEPT ![d] = << >>]
      /\ inFlight = {} /\ inFlight' = {d}
      /\ pc' = "send" /\ d \in todo /\ todo' = todo
      /\ chan' = chan /\ clock' = clock /\ retries' = 0 /\ backoff' = 1
  BY <1>1 DEF StartTxn, IndInv, InFlightExact
<1>3. txn' \in Transaction /\ txn'.dest = d
  BY <1>1 DEF StartTxn, Transaction
<1>4. TypeOK'
  BY <1>2, <1>3 DEF IndInv, TypeOK
<1>5. \A c \in Dest : /\ c # d => pduQ'[c] = pduQ[c] /\ eduQ'[c] = eduQ[c]
                      /\ c = d => pduQ'[c] = << >> /\ eduQ'[c] = << >>
  BY <1>2 DEF IndInv, TypeOK
<1>6. BelowLimit' /\ FullIsDue'
  BY <1>2, <1>5 DEF IndInv, BelowLimit, HasRoom, FullIsDue
<1>7. InFlightExact' /\ FlushEmpties' /\ SendingDue'
  BY <1>2, <1>3, <1>5 DEF InFlightExact, FlushEmpties, SendingDue
<1> QED BY <1>4, <1>6, <1>7 DEF IndInv

(* The end of a transaction, however it ends: the destination is done, its *)
(* queues are empty.                                                       *)
LEMMA FinishTxnStep ==
    ASSUME IndInv, FinishTxn
    PROVE  IndInv'
<1> USE LimitsAssumption
<1>1. /\ txn.dest \in Dest
      /\ pduQ[txn.dest] = << >> /\ eduQ[txn.dest] = << >>
      /\ inFlight' = {} /\ todo' = todo \ {txn.dest} /\ pc' = "flush"
      /\ chan' = chan /\ pduQ' = pduQ /\ eduQ' = eduQ /\ txn' = txn
      /\ retries' = retries /\ backoff' = backoff /\ clock' = clock
  BY DEF FinishTxn, IndInv, InFlightExact, FlushEmpties, SendingDue, Transaction,
         queueVars
<1>2. TypeOK'
  BY <1>1 DEF IndInv, TypeOK
<1>3. BelowLimit' /\ FullIsDue'
  BY <1>1 DEF IndInv, BelowLimit, HasRoom, FullIsDue
<1>4. InFlightExact' /\ FlushEmpties' /\ SendingDue'
  BY <1>1 DEF InFlightExact, FlushEmpties, SendingDue
<1> QED BY <1>2, <1>3, <1>4 DEF IndInv

LEMMA InitInd == Init => IndInv
BY LimitsAssumption
DEF Init, IndInv, TypeOK, InFlightExact, BelowLimit, HasRoom, FlushEmpties,
    FullIsDue, SendingDue

LEMMA NextInd == IndInv /\ [Next]_vars => IndInv'
<1> SUFFICES ASSUME IndInv, [Next]_vars PROVE IndInv'
  OBVIOUS
<1> USE LimitsAssumption
<1>1. ASSUME NEW e \in Event, Produce(e) PROVE IndInv'
  BY <1>1, AppendFacts
  DEF Produce, queueVars, sendVars, IndInv, TypeOK, InFlightExact, BelowLimit,
      HasRoom, FlushEmpties, FullIsDue, SendingDue
<1>2. CASE QueuePdu
  BY <1>2, QueuePduStep
<1>3. CASE QueueEdu
  BY <1>3, QueueEduStep
<1>4. CASE Tick
  BY <1>4
  DEF Tick, queueVars, sendVars, IndInv, TypeOK, InFlightExact, BelowLimit,
      HasRoom, FlushEmpties, FullIsDue, SendingDue
<1>5. CASE TimerFires
  BY <1>5
  DEF TimerFires, queueVars, sendVars, IndInv, TypeOK, InFlightExact, BelowLimit,
      HasRoom, FlushEmpties, FullIsDue, SendingDue
<1>6. CASE FlushDone
  BY <1>6
  DEF FlushDone, queueVars, sendVars, IndInv, TypeOK, InFlightExact, BelowLimit,
      HasRoom, FlushEmpties, FullIsDue, SendingDue
<1>7. ASSUME NEW d \in Dest, SkipFlush(d) PROVE IndInv'
  <2>1. HasRoom(d)
    BY <1>7 DEF SkipFlush, MayStart, IndInv, InFlightExact, HasRoom, TypeOK
  <2> QED BY <1>7, <2>1
          DEF SkipFlush, queueVars, sendVars, IndInv, TypeOK, InFlightExact,
              BelowLimit, HasRoom, FlushEmpties, FullIsDue, SendingDue
<1>8. ASSUME NEW d \in Dest, NEW u \in TxnId, StartTxn(d, u) PROVE IndInv'
  BY <1>8, StartTxnStep
<1>9. CASE Wake
  <2>1. backoff' \in 1 .. BackoffCap
    BY <1>9 DEF Wake, IndInv, TypeOK, AtMost
  <2> QED BY <1>9, <2>1
          DEF Wake, queueVars, IndInv, TypeOK, InFlightExact, BelowLimit,
              HasRoom, FlushEmpties, FullIsDue, SendingDue
<1>10. CASE AttemptRetryable
  BY <1>10
  DEF AttemptRetryable, queueVars, IndInv, TypeOK, InFlightExact, BelowLimit,
      HasRoom, FlushEmpties, FullIsDue, SendingDue
<1>11. CASE FinishTxn
  BY <1>11, FinishTxnStep
<1>12. CASE UNCHANGED vars
  BY <1>12
  DEF vars, IndInv, TypeOK, InFlightExact, BelowLimit, HasRoom, FlushEmpties,
      FullIsDue, SendingDue
<1> QED BY <1>1, <1>2, <1>3, <1>4, <1>5, <1>6, <1>7, <1>8, <1>9, <1>10, <1>11, <1>12
        DEF Next, LoopStep, Answer, AttemptOk, AttemptExhausted, AttemptFatal

-----------------------------------------------------------------------------
(* Every reachable state satisfies the inductive invariant. *)
THEOREM Invariance == Spec => []IndInv
BY InitInd, NextInd, PTL DEF Spec

(* The queue task's state is always well typed: TypeOK. *)
THEOREM TypeCorrect == Spec => []TypeOK
<1>1. IndInv => TypeOK
  BY DEF IndInv
<1> QED BY <1>1, Invariance, PTL

(* run() never waits with a queue that could fill a transaction, and no    *)
(* queue ever holds more than one transaction may carry: BelowLimit, for   *)
(* every limit, whatever the destinations answer.                          *)
THEOREM QueuesBelowLimit == Spec => []BelowLimit
<1>1. IndInv => BelowLimit
  BY DEF IndInv
<1> QED BY <1>1, Invariance, PTL

(* The in-flight map is exactly the transaction being sent: the early      *)
(* return of flush_queue is never taken for it.                            *)
THEOREM InFlightIsExact == Spec => []InFlightExact
<1>1. IndInv => InFlightExact
  BY DEF IndInv
<1> QED BY <1>1, Invariance, PTL

(* A transaction always carries everything its destination had queued. *)
THEOREM FlushTakesAll == Spec => []FlushEmpties
<1>1. IndInv => FlushEmpties
  BY DEF IndInv
<1> QED BY <1>1, Invariance, PTL

-----------------------------------------------------------------------------
(* Why a flush ends.                                                       *)

(* How many steps the visit of one destination may still take. *)
VisitLeft ==
    CASE pc = "flush" -> 2 * MaxRetries + 3
      [] pc = "sleep" -> 2 * (MaxRetries - retries) + 3
      [] pc = "send" -> 2 * (MaxRetries - retries) + 2
      [] OTHER -> 0

(* Once a flush has begun, every step of the task brings its end closer:   *)
(* run() is back in select!, flush_queue is done with a destination for    *)
(* good, or less is left of its visit, whatever the destinations answer.   *)
(* The request handlers, which may queue events meanwhile, delay nothing.  *)
FlushAdvances ==
    [][pc # "select" =>
          \/ pc' = "select" /\ todo = {}
          \/ todo' \subseteq todo /\ todo' # todo
          \/ todo' = todo /\ VisitLeft' \in 0 .. VisitLeft - 1
          \/ (\E e \in Event : Produce(e)) /\ UNCHANGED <<pc, todo, VisitLeft>>]_vars

(* Every flush makes progress to its end: FlushAdvances, for any number of *)
(* retries and destinations.                                               *)
THEOREM FlushesAdvance == Spec => FlushAdvances
<1> DEFINE Adv ==
        [pc # "select" =>
            \/ pc' = "select" /\ todo = {}
            \/ todo' \subseteq todo /\ todo' # todo
            \/ todo' = todo /\ VisitLeft' \in 0 .. VisitLeft - 1
            \/ (\E e \in Event : Produce(e)) /\ UNCHANGED <<pc, todo, VisitLeft>>]_vars
<1>1. ASSUME IndInv, [Next]_vars PROVE Adv
  <2>1. retries \in 0 .. MaxRetries /\ MaxRetries \in Nat
    BY <1>1, LimitsAssumption DEF IndInv, TypeOK
  <2>2. ASSUME NEW e \in Event, Produce(e) PROVE Adv
    <3>1. UNCHANGED <<pc, todo, VisitLeft>>
      BY <2>2 DEF Produce, sendVars, VisitLeft
    <3> QED BY <2>2, <3>1
  <2>3. CASE pc = "select"
    BY <2>3
  <2>4. CASE FlushDone
    BY <2>4 DEF FlushDone
  <2>5. ASSUME NEW d \in Dest, SkipFlush(d) PROVE Adv
    <3>1. todo' = todo \ {d} /\ d \in todo
      BY <2>5 DEF SkipFlush
    <3> QED BY <3>1
  <2>6. ASSUME NEW d \in Dest, NEW u \in TxnId, StartTxn(d, u) PROVE Adv
    <3>1. todo' = todo /\ pc = "flush" /\ pc' = "send" /\ retries' = 0
      BY <2>6 DEF StartTxn
    <3>2. VisitLeft = 2 * MaxRetries + 3 /\ VisitLeft' = 2 * MaxRetries + 2
      BY <3>1, <2>1 DEF VisitLeft
    <3> QED BY <3>1, <3>2, <2>1
  <2>7. CASE Wake
    <3>1. todo' = todo /\ pc = "sleep" /\ pc' = "send" /\ retries' = retries
      BY <2>7 DEF Wake
    <3>2. /\ VisitLeft = 2 * (MaxRetries - retries) + 3
          /\ VisitLeft' = 2 * (MaxRetries - retries) + 2
      BY <3>1 DEF VisitLeft
    <3> QED BY <3>1, <3>2, <2>1
  <2>8. CASE AttemptRetryable
    <3>1. /\ todo' = todo /\ pc = "send" /\ pc' = "sleep" /\ retries' = retries + 1
          /\ retries < MaxRetries
      BY <2>8 DEF AttemptRetryable
    <3>2. /\ VisitLeft = 2 * (MaxRetries - retries) + 2
          /\ VisitLeft' = 2 * (MaxRetries - (retries + 1)) + 3
      BY <3>1 DEF VisitLeft
    <3> QED BY <3>1, <3>2, <2>1
  <2>9. CASE FinishTxn
    <3>1. todo' = todo \ {txn.dest} /\ txn.dest \in todo
      BY <1>1, <2>9 DEF FinishTxn, IndInv, SendingDue
    <3> QED BY <3>1
  <2>10. CASE UNCHANGED vars
    BY <2>10
  <2> HIDE DEF Adv
  <2>11. QueuePdu \/ QueueEdu \/ Tick \/ TimerFires => pc = "select"
    BY DEF QueuePdu, QueueEdu, Tick, TimerFires
  <2> QED BY <1>1, <2>2, <2>3, <2>4, <2>5, <2>6, <2>7, <2>8, <2>9, <2>10, <2>11
          DEF Next, LoopStep, Answer, AttemptOk, AttemptExhausted, AttemptFatal
<1> QED BY <1>1, Invariance, PTL DEF Spec, FlushAdvances

-----------------------------------------------------------------------------
(* No copies.                                                              *)

Distinct(s) == \A i, j \in 1 .. Len(s) : s[i].item = s[j].item => i = j
ItemsOf(s) == {s[i].item : i \in 1 .. Len(s)}

(* NoCopies with what its counting needs. *)
OnePlace == NoCopies /\ \A d \in Dest : IsFiniteSet(InQueue(d))

(* The disjointness that NoCopies states, element by element. *)
Apart ==
    /\ \A y \in InTxn : y \notin InChan
    /\ \A d \in Dest : \A y \in InQueue(d) :
          /\ y \notin InChan /\ y \notin InTxn
          /\ \A c \in Dest : c # d => y \notin InQueue(c)

(* Every item of a queue is counted once. *)
Counted ==
    \A d \in Dest : /\ IsFiniteSet(InQueue(d))
                    /\ Cardinality(InQueue(d)) = Len(pduQ[d]) + Len(eduQ[d])

LEMMA OnePlaceParts == OnePlace <=> Distinct(chan) /\ Apart /\ Counted
<1>1. OnePlace => Distinct(chan) /\ Counted
  BY DEF OnePlace, NoCopies, Distinct, Counted
<1>2. OnePlace => Apart
  BY Zenon DEF OnePlace, NoCopies, Apart
<1>3. ASSUME Distinct(chan), Apart, Counted PROVE OnePlace
  <2>1. InChan \cap InTxn = {}
    BY <1>3 DEF Apart
  <2>2. ASSUME NEW d \in Dest
        PROVE  /\ InQueue(d) \cap (InChan \cup InTxn) = {}
               /\ \A c \in Dest \ {d} : InQueue(c) \cap InQueue(d) = {}
    BY <1>3, <2>2 DEF Apart
  <2> QED BY <1>3, <2>1, <2>2 DEF OnePlace, NoCopies, Distinct, Counted
<1> QED BY <1>1, <1>2, <1>3

LEMMA ItemsFacts ==
    ASSUME NEW S, NEW q \in Seq(S), NEW x \in S, NEW n \in Nat \ {0}
    PROVE  /\ Items(Append(q, x)) = Items(q) \cup {x}
           /\ Len(q) <= n => Items(Taken(q, n)) = Items(q)
           /\ Items(<< >>) = {}
<1>1. Len(q) \in Nat
  OBVIOUS
<1>2. Items(Append(q, x)) = Items(q) \cup {x}
  <2>1. /\ Len(Append(q, x)) = Len(q) + 1
        /\ \A i \in 1 .. Len(q) : Append(q, x)[i] = q[i]
        /\ Append(q, x)[Len(q) + 1] = x
    OBVIOUS
  <2>2. 1 .. Len(q) + 1 = (1 .. Len(q)) \cup {Len(q) + 1}
    BY <1>1
  <2> QED BY <2>1, <2>2 DEF Items
<1>3. ASSUME Len(q) <= n PROVE Items(Taken(q, n)) = Items(q)
  <2>1. Taken(q, n) = SubSeq(q, 1, Len(q))
    BY <1>1, <1>3 DEF Taken, AtMost
  <2>2. Len(SubSeq(q, 1, Len(q))) = Len(q)
        /\ \A i \in 1 .. Len(q) : SubSeq(q, 1, Len(q))[i] = q[i]
    BY <1>1
  <2> QED BY <2>1, <2>2 DEF Items
<1>4. Items(<< >>) = {}
  BY DEF Items
<1> QED BY <1>2, <1>3, <1>4

LEMMA ChannelGains ==
    ASSUME NEW s \in Seq(Event), NEW e \in Event, Distinct(s), e.item \notin ItemsOf(s)
    PROVE  Distinct(Append(s, e)) /\ ItemsOf(Append(s, e)) = ItemsOf(s) \cup {e.item}
<1>1. /\ Len(s) \in Nat /\ Len(Append(s, e)) = Len(s) + 1
      /\ \A i \in 1 .. Len(s) : Append(s, e)[i] = s[i]
      /\ Append(s, e)[Len(s) + 1] = e
  OBVIOUS
<1>2. 1 .. Len(s) + 1 = (1 .. Len(s)) \cup {Len(s) + 1}
  BY <1>1
<1>3. ItemsOf(Append(s, e)) = ItemsOf(s) \cup {e.item}
  BY <1>1, <1>2 DEF ItemsOf
<1>4. \A i \in 1 .. Len(s) : s[i].item # e.item
  BY DEF ItemsOf
<1>5. Distinct(Append(s, e))
  BY <1>1, <1>2, <1>4 DEF Distinct
<1> QED BY <1>3, <1>5

LEMMA ChannelLoses ==
    ASSUME NEW s \in Seq(Event), s # << >>, Distinct(s)
    PROVE  Distinct(Tail(s)) /\ ItemsOf(Tail(s)) = ItemsOf(s) \ {Head(s).item}
<1>1. /\ Len(s) \in Nat \ {0} /\ Len(Tail(s)) = Len(s) - 1 /\ Head(s) = s[1]
      /\ \A i \in 1 .. Len(s) - 1 : Tail(s)[i] = s[i + 1]
  OBVIOUS
<1>2. Distinct(Tail(s))
  BY <1>1 DEF Distinct
<1>3. ItemsOf(Tail(s)) \subseteq ItemsOf(s) \ {Head(s).item}
  BY <1>1 DEF ItemsOf, Distinct
<1>4. ItemsOf(s) \ {Head(s).item} \subseteq ItemsOf(Tail(s))
  <2> SUFFICES ASSUME NEW i \in 1 .. Len(s), s[i].item # Head(s).item
               PROVE  s[i].item \in ItemsOf(Tail(s))
    BY DEF ItemsOf
  <2>1. i - 1 \in 1 .. Len(s) - 1 /\ s[i] = Tail(s)[i - 1]
    BY <1>1
  <2> QED BY <2>1, <1>1 DEF ItemsOf
<1> QED BY <1>2, <1>3, <1>4

(* The head of the channel moves to the end of one queue of d. *)
LEMMA MoveStep ==
    ASSUME IndInv, OnePlace, NEW d \in Dest, NEW x,
           chan # << >>, x = Head(chan).item, chan' = Tail(chan),
           InQueue(d)' = InQueue(d) \cup {x},
           Len(pduQ'[d]) + Len(eduQ'[d]) = Len(pduQ[d]) + Len(eduQ[d]) + 1,
           \A c \in Dest \ {d} : pduQ'[c] = pduQ[c] /\ eduQ'[c] = eduQ[c],
           pc = "select", pc' \in {"select", "flush"}
    PROVE  OnePlace'
<1>0. Distinct(chan) /\ Apart /\ Counted
  BY OnePlaceParts
<1>1. chan \in Seq(Event)
  BY DEF IndInv, TypeOK
<1>2. InChan = ItemsOf(chan) /\ InChan' = ItemsOf(chan')
  BY DEF InChan, ItemsOf
<1>3. Distinct(chan') /\ InChan' = InChan \ {x}
  BY <1>0, <1>1, <1>2, ChannelLoses
<1>4. x \in InChan
  BY <1>1 DEF InChan
<1>5. InTxn = {} /\ InTxn' = {}
  BY DEF InTxn
<1>6. \A c \in Dest : c # d => InQueue(c)' = InQueue(c)
  BY DEF InQueue
<1>7. /\ IsFiniteSet(InQueue(d)) /\ x \notin InQueue(d)
      /\ Cardinality(InQueue(d)) = Len(pduQ[d]) + Len(eduQ[d])
  BY <1>0, <1>4 DEF Apart, Counted
<1>8. /\ IsFiniteSet(InQueue(d) \cup {x})
      /\ Cardinality(InQueue(d) \cup {x}) = Cardinality(InQueue(d)) + 1
  BY <1>7, FS_AddElement
<1>9. Counted'
  BY <1>0, <1>6, <1>7, <1>8 DEF Counted
<1>10. Apart'
  BY <1>0, <1>3, <1>4, <1>5, <1>6 DEF Apart
<1>11. Distinct(chan)'
  BY <1>3 DEF Distinct
<1> QED BY <1>9, <1>10, <1>11, OnePlaceParts, PTL

LEMMA QueuePduMoves == ASSUME IndInv, OnePlace, QueuePdu PROVE OnePlace'
<1>1. chan # << >> /\ Head(chan) \in Event /\ Head(chan).item \in Pdu
  BY HeadTailProperties DEF QueuePdu, IndInv, TypeOK
<1>2. PICK d \in Dest, x \in Pdu : d = Head(chan).dest /\ x = Head(chan).item
  BY <1>1 DEF Event
<1>3. /\ pduQ' = [pduQ EXCEPT ![d] = Append(pduQ[d], x)] /\ eduQ' = eduQ
      /\ chan' = Tail(chan) /\ pc = "select" /\ pc' \in {"select", "flush"}
  BY <1>2 DEF QueuePdu, AfterQueueing
<1>4. pduQ \in [Dest -> Seq(Pdu)] /\ eduQ \in [Dest -> Seq(Edu)]
  BY DEF IndInv, TypeOK
<1>5. /\ pduQ'[d] = Append(pduQ[d], x)
      /\ \A c \in Dest \ {d} : pduQ'[c] = pduQ[c] /\ eduQ'[c] = eduQ[c]
  BY <1>3, <1>4
<1>6. Items(pduQ'[d]) = Items(pduQ[d]) \cup {x}
  BY <1>4, <1>5, ItemsFacts, LimitsAssumption
<1>7. InQueue(d)' = InQueue(d) \cup {x}
  BY <1>3, <1>6 DEF InQueue
<1>8. Len(pduQ'[d]) + Len(eduQ'[d]) = Len(pduQ[d]) + Len(eduQ[d]) + 1
  BY <1>3, <1>4, <1>5
<1> QED BY <1>1, <1>2, <1>3, <1>5, <1>7, <1>8, MoveStep

LEMMA QueueEduMoves == ASSUME IndInv, OnePlace, QueueEdu PROVE OnePlace'
<1>1. chan # << >> /\ Head(chan) \in Event /\ Head(chan).item \in Edu
  BY HeadTailProperties DEF QueueEdu, IndInv, TypeOK
<1>2. PICK d \in Dest, x \in Edu : d = Head(chan).dest /\ x = Head(chan).item
  BY <1>1 DEF Event
<1>3. /\ eduQ' = [eduQ EXCEPT ![d] = Append(eduQ[d], x)] /\ pduQ' = pduQ
      /\ chan' = Tail(chan) /\ pc = "select" /\ pc' \in {"select", "flush"}
  BY <1>2 DEF QueueEdu, AfterQueueing
<1>4. pduQ \in [Dest -> Seq(Pdu)] /\ eduQ \in [Dest -> Seq(Edu)]
  BY DEF IndInv, TypeOK
<1>5. /\ eduQ'[d] = Append(eduQ[d], x)
      /\ \A c \in Dest \ {d} : pduQ'[c] = pduQ[c] /\ eduQ'[c] = eduQ[c]
  BY <1>3, <1>4
<1>6. Items(eduQ'[d]) = Items(eduQ[d]) \cup {x}
  BY <1>4, <1>5, ItemsFacts, LimitsAssumption
<1>7. InQueue(d)' = InQueue(d) \cup {x}
  BY <1>3, <1>6 DEF InQueue
<1>8. Len(pduQ'[d]) + Len(eduQ'[d]) = Len(pduQ[d]) + Len(eduQ[d]) + 1
  BY <1>3, <1>4, <1>5
<1> QED BY <1>1, <1>2, <1>3, <1>5, <1>7, <1>8, MoveStep

(* The batch is all that was queued for d: its queues hold nothing after. *)
LEMMA StartTxnFacts ==
    ASSUME IndInv, NEW d \in Dest, NEW u \in TxnId, StartTxn(d, u)
    PROVE  /\ pc = "flush" /\ pc' = "send" /\ chan' = chan
           /\ pduQ'[d] = << >> /\ eduQ'[d] = << >>
           /\ \A c \in Dest \ {d} : pduQ'[c] = pduQ[c] /\ eduQ'[c] = eduQ[c]
           /\ Items(txn'.pdus) = Items(pduQ[d]) /\ Items(txn'.edus) = Items(eduQ[d])
           /\ InTxn' = InQueue(d) /\ InQueue(d)' = {}
<1> USE LimitsAssumption
<1>1. pduQ \in [Dest -> Seq(Pdu)] /\ eduQ \in [Dest -> Seq(Edu)]
  BY DEF IndInv, TypeOK
<1>2. Len(pduQ[d]) <= MaxPdus /\ Len(eduQ[d]) <= MaxEdus
  BY DEF IndInv, BelowLimit
<1>3. Left(pduQ[d], MaxPdus) = << >> /\ Left(eduQ[d], MaxEdus) = << >>
  BY <1>1, <1>2, BatchFacts
<1>4. /\ pduQ' = [pduQ EXCEPT ![d] = << >>] /\ eduQ' = [eduQ EXCEPT ![d] = << >>]
      /\ chan' = chan /\ pc = "flush" /\ pc' = "send"
      /\ txn'.pdus = Taken(pduQ[d], MaxPdus) /\ txn'.edus = Taken(eduQ[d], MaxEdus)
  BY <1>3 DEF StartTxn
<1>5. Items(txn'.pdus) = Items(pduQ[d])
  <2>1. CASE pduQ[d] = << >>
    BY <2>1, <1>4 DEF Taken, AtMost, Items
  <2>2. CASE pduQ[d] # << >>
    <3>1. PICK x \in Pdu : TRUE
      BY <2>2, <1>1
    <3> QED BY <3>1, <1>1, <1>2, <1>4, ItemsFacts
  <2> QED BY <2>1, <2>2
<1>6. Items(txn'.edus) = Items(eduQ[d])
  <2>1. CASE eduQ[d] = << >>
    BY <2>1, <1>4 DEF Taken, AtMost, Items
  <2>2. CASE eduQ[d] # << >>
    <3>1. PICK x \in Edu : TRUE
      BY <2>2, <1>1
    <3> QED BY <3>1, <1>1, <1>2, <1>4, ItemsFacts
  <2> QED BY <2>1, <2>2
<1>7. InTxn' = InQueue(d)
  BY <1>4, <1>5, <1>6 DEF InTxn, InQueue
<1>8. pduQ'[d] = << >> /\ eduQ'[d] = << >> /\ InQueue(d)' = {}
  BY <1>1, <1>4 DEF InQueue, Items
<1>9. \A c \in Dest \ {d} : pduQ'[c] = pduQ[c] /\ eduQ'[c] = eduQ[c]
  BY <1>1, <1>4
<1> QED BY <1>4, <1>5, <1>6, <1>7, <1>8, <1>9

LEMMA StartTxnMoves ==
    ASSUME IndInv, OnePlace, NEW d \in Dest, NEW u \in TxnId, StartTxn(d, u)
    PROVE  OnePlace'
<1>1. /\ InTxn' = InQueue(d) /\ InQueue(d)' = {} /\ chan' = chan
      /\ pduQ'[d] = << >> /\ eduQ'[d] = << >>
      /\ \A c \in Dest \ {d} : pduQ'[c] = pduQ[c] /\ eduQ'[c] = eduQ[c]
  BY StartTxnFacts
<1>2. InChan' = InChan /\ \A c \in Dest \ {d} : InQueue(c)' = InQueue(c)
  BY <1>1 DEF InChan, InQueue
<1>3. Distinct(chan) /\ Apart /\ Counted
  BY OnePlaceParts
<1>4. Counted'
  <2>1. Cardinality(InQueue(d)') = 0 /\ Len(pduQ'[d]) + Len(eduQ'[d]) = 0
    BY <1>1, FS_EmptySet
  <2> QED BY <2>1, <1>1, <1>2, <1>3, FS_EmptySet DEF Counted
<1>5. Apart'
  BY <1>1, <1>2, <1>3 DEF Apart
<1>6. Distinct(chan)'
  BY <1>1, <1>3 DEF Distinct
<1> QED BY <1>4, <1>5, <1>6, OnePlaceParts, PTL

(* Steps that move nothing, and the end of a transaction. *)
LEMMA StayStep ==
    ASSUME OnePlace, UNCHANGED <<chan, pduQ, eduQ>>, InTxn' \subseteq InTxn
    PROVE  OnePlace'
<1>1. InChan' = InChan /\ \A d \in Dest : InQueue(d)' = InQueue(d)
  BY DEF InChan, InQueue
<1> QED BY <1>1 DEF OnePlace, NoCopies

LEMMA ProduceAdds ==
    ASSUME IndInv, OnePlace, NEW e \in Event, e.item \notin InSystem, Produce(e)
    PROVE  OnePlace'
<1>1. /\ chan \in Seq(Event) /\ chan' = Append(chan, e)
      /\ Distinct(chan) /\ Apart /\ Counted
  BY OnePlaceParts DEF IndInv, TypeOK, Produce
<1>2. InChan = ItemsOf(chan) /\ InChan' = ItemsOf(chan')
  BY DEF InChan, ItemsOf
<1>3. /\ e.item \notin InChan /\ e.item \notin InTxn
      /\ \A d \in Dest : e.item \notin InQueue(d)
  BY DEF InSystem
<1>4. Distinct(chan') /\ InChan' = InChan \cup {e.item}
  BY <1>1, <1>2, <1>3, ChannelGains
<1>5. UNCHANGED <<pduQ, eduQ, pc, txn>>
  BY DEF Produce, queueVars, sendVars
<1>6. InTxn' = InTxn /\ \A d \in Dest : InQueue(d)' = InQueue(d)
  BY <1>5 DEF InTxn, InQueue
<1>7. Apart'
  BY <1>1, <1>3, <1>4, <1>6 DEF Apart
<1>8. Counted'
  BY <1>1, <1>5, <1>6 DEF Counted
<1>9. Distinct(chan)'
  BY <1>4 DEF Distinct
<1> QED BY <1>7, <1>8, <1>9, OnePlaceParts, PTL

LEMMA InitOnePlace == Init => OnePlace
<1> SUFFICES ASSUME Init PROVE OnePlace
  OBVIOUS
<1>1. InChan = {} /\ InTxn = {} /\ \A d \in Dest : InQueue(d) = {}
  BY DEF Init, InChan, InTxn, InQueue, Items
<1>2. \A d \in Dest : Len(pduQ[d]) + Len(eduQ[d]) = 0
  BY DEF Init
<1>3. chan = << >>
  BY DEF Init
<1>4. Distinct(chan)
  BY <1>3 DEF Distinct
<1>5. Apart
  BY <1>1 DEF Apart
<1>6. Counted
  BY <1>1, <1>2, FS_EmptySet DEF Counted
<1> QED BY <1>4, <1>5, <1>6, OnePlaceParts

LEMMA NextOnePlace == IndInv /\ OnePlace /\ [Next]_vars => OnePlace'
<1> SUFFICES ASSUME IndInv, OnePlace, [Next]_vars PROVE OnePlace'
  OBVIOUS
<1>1. CASE Tick \/ TimerFires \/ FlushDone \/ \E d \in Dest : SkipFlush(d)
  <2>1. UNCHANGED <<chan, pduQ, eduQ, txn>> /\ pc' \in {"select", "flush"}
    BY <1>1 DEF Tick, TimerFires, FlushDone, SkipFlush, queueVars, sendVars
  <2> QED BY <2>1, StayStep DEF InTxn
<1>2. CASE Wake \/ AttemptRetryable
  <2>1. UNCHANGED <<chan, pduQ, eduQ, txn>> /\ pc \in {"send", "sleep"}
    BY <1>2 DEF Wake, AttemptRetryable, queueVars
  <2> QED BY <2>1, StayStep DEF InTxn
<1>3. CASE FinishTxn
  <2>1. UNCHANGED <<chan, pduQ, eduQ, txn>> /\ pc' = "flush"
    BY <1>3 DEF FinishTxn, queueVars
  <2> QED BY <2>1, StayStep DEF InTxn
<1>4. CASE UNCHANGED vars
  BY <1>4, StayStep DEF vars, InTxn
<1> QED BY <1>1, <1>2, <1>3, <1>4, QueuePduMoves, QueueEduMoves, StartTxnMoves, ProduceAdds
        DEF Next, LoopStep, Answer, AttemptOk, AttemptExhausted, AttemptFatal

(* An event queued for federation is in one place at a time: NoCopies. *)
THEOREM EventsHaveOnePlace == Spec => []NoCopies
<1>1. OnePlace => NoCopies
  BY DEF OnePlace
<1> QED BY <1>1, InitOnePlace, NextOnePlace, Invariance, PTL DEF Spec

-----------------------------------------------------------------------------
(* The link: the inductive invariant.                                      *)

(* The transactions built so far. *)
Made == acked \cup givenUp \cup (IF pc \in {"send", "sleep"} THEN {txn} ELSE {})

(* The items for the peer that are in no transaction yet. *)
Unsent == InChan \cup InQueue(Peer)

(* The types of the histories. *)
HistoryTypeOK ==
    /\ order \in Seq(Pdu \cup Edu)
    /\ acked \subseteq Transaction /\ givenUp \subseteq Transaction
    /\ lost \subseteq Pdu

(* order records each item once, and everything the sender has. *)
OrderExact ==
    /\ \A i, j \in 1 .. Len(order) : order[i] = order[j] => i = j
    /\ InSystem \subseteq Items(order)
    /\ \A t \in Made : Items(t.pdus) \subseteq Items(order)
    /\ lost \subseteq Items(order)

(* The channel is the end of what was queued. *)
ChanIsEnd ==
    /\ Len(chan) <= Len(order)
    /\ \A k \in 1 .. Len(chan) : chan[k].item = order[Len(order) - Len(chan) + k]

(* What waits at the sender was queued after all that does not. *)
UnsentIsEnd ==
    \A i, j \in 1 .. Len(order) : i <= j /\ order[i] \in Unsent => order[j] \in Unsent

(* No PDU of a transaction still waits. *)
SentIsGone == \A t \in Made : \A p \in Items(t.pdus) : p \notin Unsent

(* A transaction id is drawn once. *)
IdsUnique == \A s, t \in Made : s.id = t.id => s = t

(* The sender's half of the invariant: the queue's own, and the order. *)
OrderInv ==
    /\ HistoryTypeOK
    /\ OrderExact
    /\ ChanIsEnd
    /\ UnsentIsEnd
    /\ SentIsGone
    /\ IdsUnique

SenderInv == IndInv /\ OnePlace /\ OrderInv

(* The PDUs the peer is done with. *)
Dealt == events \cup refused

(* The types of the peer's state and of the wire. *)
PeerTypeOK ==
    /\ R!InboundTypeOK
    /\ wire \subseteq [rid : RequestId, txn : R!InTxn]
    /\ refused \subseteq Pdu

(* m carries a transaction the sender built, under its id. *)
Carries(m) == m.rid[1] = m.txn.id /\ \E t \in Made : m.txn = Body(t)

(* How many PDUs of its transaction an activation of put() is done with. *)
PdusPassed(h) == IF h.stage = "edus" THEN Len(h.txn.pdus) ELSE h.next

(* Its position fits its stage, and what validate_pdu found for the PDU at *)
(* hand is that PDU or an event of the table.                              *)
Placed(h) ==
    /\ h.stage = "verify" => h.next = 0
    /\ h.stage \in {"validate", "store"} => h.next < Len(h.txn.pdus)
    /\ h.stage = "store" => h.found = R!ThisPdu(h) \/ h.found \in events

(* The PDUs it is done with are dealt with. *)
Progress(h) == \A i \in 1 .. PdusPassed(h) : h.txn.pdus[i] \in Dealt

(* A 200 was produced for a transaction the peer is done with ... *)
OkDealt == \A r \in replies : r.status = "ok" => Items(r.txn.pdus) \subseteq Dealt

(* ... and so was a row of the cache, for each transaction under its key. *)
CacheDealt ==
    \A row \in cache :
        /\ \E t \in Made : t.id = row.key
        /\ \A t \in Made : t.id = row.key => Items(t.pdus) \subseteq Dealt

(* The peer's half of the invariant. *)
PeerInv ==
    /\ PeerTypeOK
    /\ \A m \in wire \cup handlers \cup replies : Carries(m)
    /\ \A h \in handlers : Placed(h) /\ Progress(h)
    /\ OkDealt
    /\ CacheDealt
    /\ Dealt \subseteq PdusOf(Made)

(* The inductive invariant of the link. *)
LinkInv == SenderInv /\ PeerInv /\ AckedHandled

-----------------------------------------------------------------------------
(* The PDUs of the channel.                                                *)

(* Ranks grow along the channel and do not exceed the number of its PDUs. *)
LEMMA PlacesFacts ==
    ASSUME NEW s \in Seq(Event)
    PROVE  /\ IsFiniteSet(PduPlaces(s)) /\ Cardinality(PduPlaces(s)) \in Nat
           /\ \A i \in PduPlaces(s) : PdusUpTo(s, i) \in 1 .. Cardinality(PduPlaces(s))
           /\ \A i, j \in PduPlaces(s) : i < j => PdusUpTo(s, i) < PdusUpTo(s, j)
<1> DEFINE P == PduPlaces(s)
           B(i) == {j \in P : j <= i}
<1>1. Len(s) \in Nat /\ P \subseteq 1 .. Len(s)
  BY DEF PduPlaces
<1>2. IsFiniteSet(P) /\ Cardinality(P) \in Nat
  <2>1. IsFiniteSet(1 .. Len(s))
    BY <1>1, FS_Interval
  <2>2. IsFiniteSet(P)
    BY <2>1, <1>1, FS_Subset
  <2> QED BY <2>2, FS_CardinalityType
<1>3. ASSUME NEW i \in P
      PROVE  /\ B(i) \in SUBSET P /\ IsFiniteSet(B(i)) /\ Cardinality(B(i)) \in Nat
             /\ Cardinality(B(i)) <= Cardinality(P) /\ Cardinality(B(i)) # 0
  <2>1. B(i) \in SUBSET P /\ i \in B(i)
    BY <1>1
  <2>2. IsFiniteSet(B(i)) /\ Cardinality(B(i)) <= Cardinality(P)
    BY <2>1, <1>2, FS_Subset
  <2> QED BY <2>1, <2>2, FS_CardinalityType, FS_EmptySet
<1>4. ASSUME NEW i \in P, NEW j \in P, i < j
      PROVE  Cardinality(B(i)) < Cardinality(B(j))
  <2>1. B(i) \in SUBSET B(j) /\ j \in B(j) /\ j \notin B(i)
    BY <1>1, <1>4
  <2>2. Cardinality(B(i)) <= Cardinality(B(j)) /\ Cardinality(B(j)) # Cardinality(B(i))
    BY <2>1, <1>3, FS_Subset
  <2>3. Cardinality(B(i)) \in Nat /\ Cardinality(B(j)) \in Nat
    BY <1>3
  <2> HIDE DEF B
  <2> QED BY <2>2, <2>3
<1>5. \A i \in P : PdusUpTo(s, i) = Cardinality(B(i))
  BY DEF PdusUpTo
<1> HIDE DEF B
<1> QED BY <1>2, <1>3, <1>4, <1>5

(* Every PDU of the channel has a rank, and every rank has one PDU. *)
LEMMA RankFacts ==
    ASSUME NEW s \in Seq(Event), NEW k \in 1 .. Cardinality(PduPlaces(s))
    PROVE  \E i \in PduPlaces(s) :
              /\ PdusUpTo(s, i) = k
              /\ \A j \in PduPlaces(s) : PdusUpTo(s, j) = k => j = i
<1> DEFINE P == PduPlaces(s)
           n == Cardinality(P)
           f == [i \in P |-> PdusUpTo(s, i)]
<1>1. IsFiniteSet(P) /\ n \in Nat /\ f \in [P -> 1 .. n]
  BY PlacesFacts
<1>2. P \subseteq Nat
  BY DEF PduPlaces
<1>3. \A i, j \in P : f[i] = f[j] => i = j
  <2> SUFFICES ASSUME NEW i \in P, NEW j \in P, f[i] = f[j] PROVE i = j
    OBVIOUS
  <2>1. f[i] \in Nat /\ (i < j => f[i] < f[j]) /\ (j < i => f[j] < f[i])
    BY PlacesFacts, <1>1
  <2> QED BY <2>1, <1>2
<1>4. f \in Injection(P, 1 .. n)
  BY <1>1, <1>3 DEF Injection, IsInjective
<1>5. IsFiniteSet(1 .. n) /\ Cardinality(1 .. n) = n
  BY <1>1, FS_Interval
<1>6. f \in Surjection(P, 1 .. n)
  BY <1>4, <1>5, FS_Injection
<1>7. PICK i \in P : f[i] = k
  BY <1>6 DEF Surjection
<1> QED BY <1>7, <1>3

(* PdusIn lists the PDUs of the channel, each at its rank. *)
LEMMA PdusInFacts ==
    ASSUME NEW s \in Seq(Event)
    PROVE  /\ PdusIn(s) \in Seq(Pdu)
           /\ Len(PdusIn(s)) = Cardinality(PduPlaces(s))
           /\ \A i \in PduPlaces(s) : PdusIn(s)[PdusUpTo(s, i)] = s[i].item
           /\ Items(PdusIn(s)) = ItemsOf(s) \cap Pdu
<1> DEFINE n == Cardinality(PduPlaces(s))
<1>1. n \in Nat
  BY PlacesFacts
<1>2. ASSUME NEW i \in PduPlaces(s)
      PROVE  PdusUpTo(s, i) \in 1 .. n /\ PdusIn(s)[PdusUpTo(s, i)] = s[i].item
  <2> DEFINE k == PdusUpTo(s, i)
  <2>1. k \in 1 .. n
    BY PlacesFacts
  <2>2. (CHOOSE j \in PduPlaces(s) : PdusUpTo(s, j) = k) = i
    BY <2>1, RankFacts
  <2> QED BY <2>1, <2>2 DEF PdusIn
<1>3. ASSUME NEW k \in 1 .. n
      PROVE  \E i \in PduPlaces(s) : PdusUpTo(s, i) = k /\ PdusIn(s)[k] = s[i].item
  BY <1>2, RankFacts
<1>4. \A k \in 1 .. n : PdusIn(s)[k] \in Pdu
  BY <1>3 DEF PduPlaces
<1>5. PdusIn(s) \in [1 .. n -> Pdu]
  <2>1. PdusIn(s) = [k \in 1 .. n |-> PdusIn(s)[k]]
    BY DEF PdusIn
  <2> QED BY <2>1, <1>4
<1>6. PdusIn(s) \in Seq(Pdu) /\ Len(PdusIn(s)) = n
  BY <1>1, <1>5
<1>7. Items(PdusIn(s)) \subseteq ItemsOf(s) \cap Pdu
  BY <1>3, <1>4, <1>6 DEF Items, ItemsOf, PduPlaces
<1>8. ItemsOf(s) \cap Pdu \subseteq Items(PdusIn(s))
  <2> SUFFICES ASSUME NEW i \in 1 .. Len(s), s[i].item \in Pdu
               PROVE  s[i].item \in Items(PdusIn(s))
    BY DEF ItemsOf
  <2>1. i \in PduPlaces(s)
    BY DEF PduPlaces
  <2> QED BY <2>1, <1>2, <1>6 DEF Items
<1> QED BY <1>2, <1>6, <1>7, <1>8

(* Moving a set of places by one keeps its size. *)
LEMMA ShiftFacts ==
    ASSUME NEW S, S \subseteq Int, IsFiniteSet(S), NEW T, T = {i - 1 : i \in S}
    PROVE  IsFiniteSet(T) /\ Cardinality(T) = Cardinality(S)
<1> DEFINE f == [i \in S |-> i - 1]
<1>1. f \in [S -> T] /\ \A x, y \in S : f[x] = f[y] => x = y
  OBVIOUS
<1>2. \A y \in T : \E x \in S : f[x] = y
  OBVIOUS
<1>3. f \in Bijection(S, T)
  BY <1>1, <1>2 DEF Bijection, Injection, Surjection, IsInjective
<1> QED BY <1>3, FS_Bijection DEF ExistsBijection

(* An event that enters the channel is the last of its PDUs, if it is one. *)
LEMMA PdusInAppend ==
    ASSUME NEW s \in Seq(Event), NEW e \in Event
    PROVE  PdusIn(Append(s, e)) = IF e.item \in Pdu THEN Append(PdusIn(s), e.item)
                                                    ELSE PdusIn(s)
<1> DEFINE t == Append(s, e)
           n == Len(s)
           c == Cardinality(PduPlaces(s))
<1>1. /\ t \in Seq(Event) /\ n \in Nat /\ Len(t) = n + 1
      /\ \A i \in 1 .. n : t[i] = s[i]
      /\ t[n + 1] = e
  OBVIOUS
<1> HIDE DEF t
<1>2. PduPlaces(t) = IF e.item \in Pdu THEN PduPlaces(s) \cup {n + 1} ELSE PduPlaces(s)
  <2>1. 1 .. n + 1 = (1 .. n) \cup {n + 1}
    BY <1>1
  <2> QED BY <1>1, <2>1 DEF PduPlaces
<1>3. ASSUME NEW i \in PduPlaces(s)
      PROVE  i \in PduPlaces(t) /\ PdusUpTo(t, i) = PdusUpTo(s, i) /\ t[i] = s[i]
  <2>1. i \in 1 .. n
    BY DEF PduPlaces
  <2>2. {j \in PduPlaces(t) : j <= i} = {j \in PduPlaces(s) : j <= i}
    BY <1>1, <1>2, <2>1 DEF PduPlaces
  <2> QED BY <1>1, <1>2, <2>1, <2>2 DEF PdusUpTo
<1>4. /\ PdusIn(s) \in Seq(Pdu) /\ Len(PdusIn(s)) = c /\ c \in Nat
      /\ PdusIn(t) \in Seq(Pdu) /\ Len(PdusIn(t)) = Cardinality(PduPlaces(t))
  BY <1>1, PdusInFacts, PlacesFacts
<1>5. ASSUME NEW k \in 1 .. c PROVE PdusIn(t)[k] = PdusIn(s)[k]
  <2>1. PICK i \in PduPlaces(s) : PdusUpTo(s, i) = k
    BY RankFacts
  <2>2. PdusIn(s)[k] = s[i].item
    BY <2>1, PdusInFacts
  <2>3. PdusIn(t)[k] = t[i].item
    BY <2>1, <1>1, <1>3, PdusInFacts
  <2> QED BY <2>2, <2>3, <1>3
<1>6. CASE e.item \notin Pdu
  <2>1. Len(PdusIn(t)) = Len(PdusIn(s))
    BY <1>2, <1>4, <1>6
  <2>2. \A k \in 1 .. Len(PdusIn(t)) : PdusIn(t)[k] = PdusIn(s)[k]
    BY <2>1, <1>4, <1>5
  <2>3. PdusIn(t) = PdusIn(s)
    BY <2>1, <2>2, <1>4, SeqEqual
  <2> QED BY <2>3, <1>6 DEF t
<1>7. CASE e.item \in Pdu
  <2>1. Cardinality(PduPlaces(t)) = c + 1
    <3>1. n + 1 \notin PduPlaces(s)
      BY <1>1 DEF PduPlaces
    <3> QED BY <3>1, <1>2, <1>7, PlacesFacts, FS_AddElement
  <2>2. PdusUpTo(t, n + 1) = c + 1
    <3>1. {j \in PduPlaces(t) : j <= n + 1} = PduPlaces(t)
      BY <1>1 DEF PduPlaces
    <3> QED BY <3>1, <2>1 DEF PdusUpTo
  <2>3. PdusIn(t)[c + 1] = e.item
    <3>1. n + 1 \in PduPlaces(t)
      BY <1>2, <1>7
    <3> QED BY <3>1, <2>2, <1>1, PdusInFacts
  <2> DEFINE w == Append(PdusIn(s), e.item)
  <2>4. /\ w \in Seq(Pdu) /\ Len(w) = c + 1 /\ w[c + 1] = e.item
        /\ \A k \in 1 .. c : w[k] = PdusIn(s)[k]
    BY <1>4, <1>7, AppendProperties
  <2> HIDE DEF w
  <2>5. \A k \in 1 .. c + 1 : PdusIn(t)[k] = w[k]
    BY <2>3, <2>4, <1>4, <1>5
  <2>6. PdusIn(t) = w
    BY <2>1, <2>4, <2>5, <1>4, SeqEqual
  <2> QED BY <2>6, <1>7 DEF t, w
<1> QED BY <1>6, <1>7

(* The event that leaves the channel is the first of its PDUs, if it is one. *)
LEMMA PdusInTail ==
    ASSUME NEW s \in Seq(Event), s # << >>
    PROVE  /\ Head(s).item \in Pdu =>
                /\ PdusIn(s) # << >>
                /\ Head(PdusIn(s)) = Head(s).item
                /\ PdusIn(Tail(s)) = Tail(PdusIn(s))
           /\ Head(s).item \notin Pdu => PdusIn(Tail(s)) = PdusIn(s)
<1> DEFINE t == Tail(s)
           n == Len(s)
           A == PduPlaces(s) \ {1}
           a == IF Head(s).item \in Pdu THEN 1 ELSE 0
           c == Cardinality(PduPlaces(s))
<1>1. /\ t \in Seq(Event) /\ n \in Nat \ {0} /\ Len(t) = n - 1 /\ Head(s) = s[1]
      /\ \A i \in 1 .. n - 1 : t[i] = s[i + 1]
  BY HeadTailProperties
<1> HIDE DEF t
<1>2. PduPlaces(s) = IF Head(s).item \in Pdu THEN A \cup {1} ELSE A
  BY <1>1 DEF PduPlaces
<1>3. A \subseteq 2 .. n /\ 1 \notin A
  BY <1>1 DEF PduPlaces
<1>4. PduPlaces(t) = {i - 1 : i \in A}
  <2>1. ASSUME NEW j \in PduPlaces(t) PROVE j + 1 \in A /\ j = (j + 1) - 1
    BY <1>1 DEF PduPlaces
  <2>2. ASSUME NEW i \in A PROVE i - 1 \in PduPlaces(t)
    <3>1. i \in 2 .. n /\ i - 1 \in 1 .. n - 1 /\ (i - 1) + 1 = i
      BY <1>3
    <3> QED BY <3>1, <1>1 DEF PduPlaces
  <2> QED BY <2>1, <2>2
<1>5. IsFiniteSet(A) /\ c \in Nat
  BY PlacesFacts, FS_RemoveElement
<1>6. c = Cardinality(PduPlaces(t)) + a
  <2>1. Cardinality(PduPlaces(t)) = Cardinality(A)
    <3>1. A \subseteq Int
      BY <1>3
    <3> QED BY <3>1, <1>4, <1>5, ShiftFacts
  <2>2. Cardinality(A) \in Nat /\ Cardinality(A \cup {1}) = Cardinality(A) + 1
    BY <1>3, <1>5, FS_AddElement, FS_CardinalityType
  <2>3. CASE Head(s).item \in Pdu
    <3>1. PduPlaces(s) = A \cup {1} /\ a = 1
      BY <2>3, <1>2
    <3> HIDE DEF A, a
    <3> QED BY <3>1, <2>1, <2>2
  <2>4. CASE Head(s).item \notin Pdu
    <3>1. PduPlaces(s) = A /\ a = 0
      BY <2>4, <1>2
    <3> HIDE DEF A, a
    <3> QED BY <3>1, <2>1, <2>2
  <2> QED BY <2>3, <2>4
<1>7. ASSUME NEW i \in A
      PROVE  PdusUpTo(t, i - 1) + a = PdusUpTo(s, i)
  <2> DEFINE B == {j \in A : j <= i}
  <2>1. B \subseteq Int /\ IsFiniteSet(B) /\ 1 \notin B
    <3>1. B \subseteq A
      OBVIOUS
    <3> QED BY <3>1, <1>3, <1>5, FS_Subset
  <2>2. {j \in PduPlaces(t) : j <= i - 1} = {j - 1 : j \in B}
    <3>1. i \in Int /\ A \subseteq Int
      BY <1>3
    <3> QED BY <3>1, <1>4
  <2>3. {j \in PduPlaces(s) : j <= i} = IF Head(s).item \in Pdu THEN B \cup {1} ELSE B
    BY <1>2, <1>3
  <2> HIDE DEF B
  <2>4. PdusUpTo(t, i - 1) = Cardinality(B)
    BY <2>1, <2>2, ShiftFacts DEF PdusUpTo
  <2>5. PdusUpTo(s, i) = Cardinality(B) + a
    <3>1. Cardinality(B) \in Nat /\ Cardinality(B \cup {1}) = Cardinality(B) + 1
      BY <2>1, FS_AddElement, FS_CardinalityType
    <3>2. CASE Head(s).item \in Pdu
      <4>1. PdusUpTo(s, i) = Cardinality(B \cup {1}) /\ a = 1
        BY <3>2, <2>3 DEF PdusUpTo
      <4> QED BY <4>1, <3>1
    <3>3. CASE Head(s).item \notin Pdu
      <4>1. PdusUpTo(s, i) = Cardinality(B) /\ a = 0
        BY <3>3, <2>3 DEF PdusUpTo
      <4> HIDE DEF a
      <4> QED BY <4>1, <3>1
    <3> QED BY <3>2, <3>3
  <2> QED BY <2>4, <2>5
<1>8. /\ PdusIn(s) \in Seq(Pdu) /\ Len(PdusIn(s)) = c
      /\ PdusIn(t) \in Seq(Pdu) /\ Len(PdusIn(t)) = Cardinality(PduPlaces(t))
      /\ Cardinality(PduPlaces(t)) \in Nat
  BY <1>1, PdusInFacts, PlacesFacts
<1>9. ASSUME NEW k \in 1 .. Len(PdusIn(t)) PROVE PdusIn(t)[k] = PdusIn(s)[k + a]
  <2>1. PICK j \in PduPlaces(t) : PdusUpTo(t, j) = k
    BY <1>1, <1>8, RankFacts
  <2>2. PICK i \in A : j = i - 1
    BY <1>4
  <2>3. PdusUpTo(s, i) = k + a
    BY <2>1, <2>2, <1>7
  <2>4. PdusIn(s)[k + a] = s[i].item
    BY <2>3, PdusInFacts
  <2>5. PdusIn(t)[k] = t[j].item
    BY <2>1, <1>1, PdusInFacts
  <2>6. t[j] = s[i]
    BY <2>2, <1>1, <1>3
  <2> QED BY <2>4, <2>5, <2>6
<1>10. CASE Head(s).item \notin Pdu
  <2>1. a = 0
    BY <1>10
  <2>2. Len(PdusIn(t)) = Len(PdusIn(s)) /\ \A k \in 1 .. Len(PdusIn(t)) : k + a = k
    BY <2>1, <1>6, <1>8
  <2>3. PdusIn(t) = PdusIn(s)
    BY <2>2, <1>8, <1>9, SeqEqual
  <2> QED BY <2>3, <1>10 DEF t
<1>11. CASE Head(s).item \in Pdu
  <2>1. Len(PdusIn(t)) = Len(PdusIn(s)) - 1 /\ PdusIn(s) # << >> /\ a = 1
    BY <1>6, <1>8, <1>11
  <2>2. PdusUpTo(s, 1) = 1
    <3>1. {j \in PduPlaces(s) : j <= 1} = {1}
      BY <1>2, <1>3, <1>11
    <3> QED BY <3>1, FS_Singleton DEF PdusUpTo
  <2>3. PdusIn(s)[1] = Head(s).item
    <3>1. 1 \in PduPlaces(s)
      BY <1>2, <1>11
    <3> QED BY <3>1, <2>2, <1>1, PdusInFacts
  <2>4. Head(PdusIn(s)) = Head(s).item
    BY <2>1, <2>3, <1>8
  <2> DEFINE w == Tail(PdusIn(s))
  <2>5. /\ w \in Seq(Pdu) /\ Len(w) = Len(PdusIn(s)) - 1
        /\ \A k \in 1 .. Len(w) : w[k] = PdusIn(s)[k + 1]
    BY <2>1, <1>8, HeadTailProperties
  <2> HIDE DEF w
  <2>6. PdusIn(t) = w
    BY <2>1, <2>5, <1>8, <1>9, SeqEqual
  <2> QED BY <2>1, <2>4, <2>6, <1>11 DEF t, w
<1> QED BY <1>10, <1>11

-----------------------------------------------------------------------------
(* The sender's half of the invariant.                                     *)

(* All destinations are the one peer. *)
LEMMA SystemFacts == InSystem = Unsent \cup InTxn
BY LinkAssumption DEF InSystem, Unsent

(* The steps that queue, send and lose nothing. *)
LEMMA OrderKept ==
    ASSUME OrderInv, UNCHANGED <<chan, order, lost>>, Made' = Made, Unsent' = Unsent,
           InSystem' \subseteq InSystem,
           acked' \subseteq Transaction, givenUp' \subseteq Transaction
    PROVE  OrderInv'
<1>1. HistoryTypeOK' /\ OrderExact'
  BY DEF OrderInv, HistoryTypeOK, OrderExact
<1>2. ChanIsEnd' /\ UnsentIsEnd'
  BY DEF OrderInv, ChanIsEnd, UnsentIsEnd
<1>3. SentIsGone' /\ IdsUnique'
  BY DEF OrderInv, SentIsGone, IdsUnique
<1> QED BY <1>1, <1>2, <1>3 DEF OrderInv

(* A queued item is new: it is nowhere in the sender. *)
LEMMA QueueItemIsNext ==
    ASSUME OrderInv, NEW i \in Pdu \cup Edu, QueueItem(i)
    PROVE  Next
<1>1. [dest |-> Peer, item |-> i] \in Event /\ i \notin InSystem
  BY LinkAssumption DEF Event, QueueItem, OrderInv, OrderExact
<1> QED BY <1>1 DEF QueueItem, Next

(* A new item goes to the end of the order and of the channel. *)
LEMMA QueueItemOrder ==
    ASSUME IndInv, OnePlace, OrderInv, NEW i \in Pdu \cup Edu, QueueItem(i)
    PROVE  OrderInv'
<1> DEFINE e == [dest |-> Peer, item |-> i]
<1>1. /\ chan' = Append(chan, e) /\ order' = Append(order, i)
      /\ UNCHANGED <<pduQ, eduQ, pc, txn, acked, givenUp, lost>>
      /\ i \notin Items(order) /\ e \in Event /\ e.item = i
  BY LinkAssumption DEF QueueItem, Produce, queueVars, sendVars, Event
<1> HIDE DEF e
<1>2. chan \in Seq(Event) /\ order \in Seq(Pdu \cup Edu) /\ Distinct(chan)
  BY OnePlaceParts DEF IndInv, TypeOK, OrderInv, HistoryTypeOK
<1>3. InSystem = Unsent \cup InTxn /\ InSystem' = Unsent' \cup InTxn'
  BY SystemFacts, LinkAssumption DEF InSystem, Unsent
<1>4. InChan = ItemsOf(chan) /\ InChan' = ItemsOf(chan')
  BY DEF InChan, ItemsOf
<1>5. i \notin InSystem /\ i \notin InChan
  BY <1>1, <1>3 DEF OrderInv, OrderExact, Unsent
<1>6. InChan' = InChan \cup {i}
  BY <1>1, <1>2, <1>4, <1>5, ChannelGains
<1>7. Unsent' = Unsent \cup {i} /\ InTxn' = InTxn /\ Made' = Made
  BY <1>1, <1>6 DEF Unsent, InQueue, InTxn, Made
<1>8. /\ order' \in Seq(Pdu \cup Edu) /\ Len(order) \in Nat /\ Len(order') = Len(order) + 1
      /\ \A j \in 1 .. Len(order) : order'[j] = order[j] /\ order[j] # i
      /\ order'[Len(order) + 1] = i
  BY <1>1, <1>2 DEF Items
<1>9. Items(order') = Items(order) \cup {i}
  BY <1>1, <1>2, ItemsFacts, LimitsAssumption
<1>10. HistoryTypeOK'
  BY <1>1, <1>8 DEF OrderInv, HistoryTypeOK
<1>11. OrderExact'
  <2>1. ASSUME NEW j \in 1 .. Len(order'), NEW k \in 1 .. Len(order'), order'[j] = order'[k]
        PROVE  j = k
    BY <2>1, <1>8 DEF OrderInv, OrderExact
  <2>2. InSystem' \subseteq Items(order')
    BY <1>3, <1>7, <1>9 DEF OrderInv, OrderExact
  <2>3. \A t \in Made' : Items(t.pdus) \subseteq Items(order')
    BY <1>7, <1>9 DEF OrderInv, OrderExact
  <2>4. lost' \subseteq Items(order')
    BY <1>1, <1>9 DEF OrderInv, OrderExact
  <2> QED BY <2>1, <2>2, <2>3, <2>4 DEF OrderExact
<1>12. ChanIsEnd'
  <2>1. /\ Len(chan) \in Nat /\ Len(chan') = Len(chan) + 1
        /\ \A k \in 1 .. Len(chan) : chan'[k] = chan[k]
        /\ chan'[Len(chan) + 1] = e
    BY <1>1, <1>2
  <2>2. Len(chan) <= Len(order)
    BY DEF OrderInv, ChanIsEnd
  <2>3. ASSUME NEW k \in 1 .. Len(chan')
        PROVE  chan'[k].item = order'[Len(order') - Len(chan') + k]
    <3>1. Len(order') - Len(chan') + k = Len(order) - Len(chan) + k
      BY <1>8, <2>1
    <3>2. CASE k = Len(chan) + 1
      BY <3>1, <3>2, <1>1, <1>8, <2>1
    <3>3. CASE k \in 1 .. Len(chan)
      <4>1. Len(order) - Len(chan) + k \in 1 .. Len(order)
        BY <3>3, <1>8, <2>1, <2>2
      <4> QED BY <3>1, <3>3, <4>1, <1>8, <2>1 DEF OrderInv, ChanIsEnd
    <3> QED BY <3>2, <3>3, <2>1
  <2> QED BY <2>1, <2>2, <2>3, <1>8 DEF ChanIsEnd
<1>13. UnsentIsEnd'
  <2> SUFFICES ASSUME NEW j \in 1 .. Len(order'), NEW k \in 1 .. Len(order'),
                      j <= k, order'[j] \in Unsent'
               PROVE  order'[k] \in Unsent'
    BY DEF UnsentIsEnd
  <2>1. CASE k = Len(order) + 1
    BY <2>1, <1>7, <1>8
  <2>2. CASE k \in 1 .. Len(order)
    BY <2>2, <1>7, <1>8 DEF OrderInv, UnsentIsEnd
  <2> QED BY <2>1, <2>2, <1>8
<1>14. SentIsGone'
  <2> SUFFICES ASSUME NEW t \in Made', NEW p \in Items(t.pdus) PROVE p \notin Unsent'
    BY DEF SentIsGone
  <2>1. p \in Items(order) /\ p \notin Unsent
    BY <1>7 DEF OrderInv, OrderExact, SentIsGone
  <2> QED BY <2>1, <1>1, <1>7
<1>15. IdsUnique'
  BY <1>7 DEF OrderInv, IdsUnique
<1> QED BY <1>10, <1>11, <1>12, <1>13, <1>14, <1>15 DEF OrderInv

(* An event moves from the channel to a queue. *)
LEMMA QueueOrder ==
    ASSUME IndInv, OnePlace, OrderInv, QueuePdu \/ QueueEdu,
           UNCHANGED <<order, acked, givenUp, lost>>
    PROVE  OrderInv' /\ Unsent' = Unsent /\ Made' = Made
<1>1. /\ chan \in Seq(Event) /\ chan # << >> /\ chan' = Tail(chan)
      /\ pc = "select" /\ pc' \in {"select", "flush"}
      /\ pduQ \in [Dest -> Seq(Pdu)] /\ eduQ \in [Dest -> Seq(Edu)]
  BY DEF IndInv, TypeOK, QueuePdu, QueueEdu, AfterQueueing
<1> DEFINE x == Head(chan).item
<1>2. Head(chan) \in Event /\ Head(chan).dest = Peer
  <2>1. Head(chan) \in Event
    BY <1>1, HeadTailProperties
  <2> QED BY <2>1, LinkAssumption DEF Event
<1>3. InQueue(Peer)' = InQueue(Peer) \cup {x}
  <2>1. Peer \in Dest
    BY LinkAssumption
  <2>2. CASE QueuePdu
    <3>1. pduQ'[Peer] = Append(pduQ[Peer], x) /\ eduQ' = eduQ /\ x \in Pdu
      BY <2>1, <2>2, <1>1, <1>2 DEF QueuePdu
    <3>2. Items(pduQ'[Peer]) = Items(pduQ[Peer]) \cup {x}
      BY <2>1, <3>1, <1>1, ItemsFacts, LimitsAssumption
    <3> QED BY <3>1, <3>2 DEF InQueue
  <2>3. CASE QueueEdu
    <3>1. eduQ'[Peer] = Append(eduQ[Peer], x) /\ pduQ' = pduQ /\ x \in Edu
      BY <2>1, <2>3, <1>1, <1>2 DEF QueueEdu
    <3>2. Items(eduQ'[Peer]) = Items(eduQ[Peer]) \cup {x}
      BY <2>1, <3>1, <1>1, ItemsFacts, LimitsAssumption
    <3> QED BY <3>1, <3>2 DEF InQueue
  <2> QED BY <2>2, <2>3
<1>4. InChan' = InChan \ {x} /\ x \in InChan
  <2>1. InChan = ItemsOf(chan) /\ InChan' = ItemsOf(chan') /\ Distinct(chan)
    BY OnePlaceParts DEF InChan, ItemsOf
  <2>2. x \in ItemsOf(chan)
    BY <1>1 DEF ItemsOf
  <2> QED BY <2>1, <2>2, <1>1, ChannelLoses
<1>5. Unsent' = Unsent /\ Made' = Made
  BY <1>1, <1>3, <1>4 DEF Unsent, Made
<1>6. InSystem' = InSystem
  <2>1. InTxn = {} /\ InTxn' = {}
    BY <1>1 DEF InTxn
  <2> QED BY <2>1, <1>5, SystemFacts, LinkAssumption DEF InSystem, Unsent
<1>7. ChanIsEnd'
  <2>1. /\ Len(chan) \in Nat \ {0} /\ Len(chan') = Len(chan) - 1
        /\ \A k \in 1 .. Len(chan) - 1 : chan'[k] = chan[k + 1]
    BY <1>1, HeadTailProperties
  <2>2. Len(order) \in Nat /\ Len(chan) <= Len(order) /\ order' = order
    BY DEF OrderInv, HistoryTypeOK, ChanIsEnd
  <2>3. ASSUME NEW k \in 1 .. Len(chan')
        PROVE  chan'[k].item = order'[Len(order') - Len(chan') + k]
    <3>1. k + 1 \in 1 .. Len(chan)
          /\ Len(order') - Len(chan') + k = Len(order) - Len(chan) + (k + 1)
      BY <2>1, <2>2
    <3> QED BY <3>1, <2>1, <2>2 DEF OrderInv, ChanIsEnd
  <2> QED BY <2>1, <2>2, <2>3 DEF ChanIsEnd
<1>8. HistoryTypeOK' /\ OrderExact'
  BY <1>5, <1>6 DEF OrderInv, HistoryTypeOK, OrderExact
<1>9. UnsentIsEnd' /\ SentIsGone' /\ IdsUnique'
  BY <1>5 DEF OrderInv, UnsentIsEnd, SentIsGone, IdsUnique
<1> QED BY <1>5, <1>7, <1>8, <1>9 DEF OrderInv

(* A batch leaves: what stays is the channel, the end of what was queued. *)
LEMMA SendFirstOrder ==
    ASSUME IndInv, OnePlace, OrderInv, NEW u \in TxnId, SendFirst(u)
    PROVE  /\ OrderInv'
           /\ Made' = Made \cup {txn'} /\ txn'.id = u /\ \A t \in Made : t.id # u
<1>1. Peer \in Dest /\ StartTxn(Peer, u) /\ UNCHANGED <<order, acked, givenUp, lost>>
  BY LinkAssumption DEF SendFirst, history
<1>2. /\ pc = "flush" /\ pc' = "send" /\ chan' = chan
      /\ Items(txn'.pdus) = Items(pduQ[Peer])
      /\ InTxn' = InQueue(Peer) /\ InQueue(Peer)' = {}
  BY <1>1, StartTxnFacts
<1>3. Made = acked \cup givenUp /\ Made' = Made \cup {txn'}
  BY <1>1, <1>2 DEF Made
<1>4. txn'.id = u /\ \A t \in Made : t.id # u
  BY <1>1, <1>3 DEF SendFirst, UsedIds, StartTxn
<1>5. Unsent' = InChan /\ Unsent' \subseteq Unsent
  BY <1>2 DEF Unsent, InChan
<1>6. InSystem' = InSystem
  <2>1. InTxn = {}
    BY <1>2 DEF InTxn
  <2> QED BY <2>1, <1>2, <1>5, LinkAssumption DEF InSystem, Unsent
<1>7. Items(txn'.pdus) \subseteq InSystem /\ \A p \in Items(txn'.pdus) : p \notin InChan
  <2>1. Items(txn'.pdus) \subseteq InQueue(Peer)
    BY <1>2 DEF InQueue
  <2>2. \A p \in InQueue(Peer) : p \notin InChan
    BY <1>1, OnePlaceParts DEF Apart
  <2> QED BY <2>1, <2>2, SystemFacts DEF Unsent
<1>8. HistoryTypeOK' /\ OrderExact'
  <2>1. Items(txn'.pdus) \subseteq Items(order)
    BY <1>7 DEF OrderInv, OrderExact
  <2>2. \A t \in Made' : Items(t.pdus) \subseteq Items(order')
    BY <2>1, <1>1, <1>3 DEF OrderInv, OrderExact
  <2> QED BY <2>2, <1>1, <1>6 DEF OrderInv, HistoryTypeOK, OrderExact
<1>9. ChanIsEnd'
  BY <1>1, <1>2 DEF OrderInv, ChanIsEnd
<1>10. UnsentIsEnd'
  <2> DEFINE o == Len(order) - Len(chan)
  <2>1. /\ Len(order) \in Nat /\ Len(chan) \in Nat /\ o \in Nat
        /\ \A k \in 1 .. Len(chan) : chan[k].item = order[o + k]
    BY DEF OrderInv, HistoryTypeOK, ChanIsEnd, IndInv, TypeOK
  <2> SUFFICES ASSUME NEW i \in 1 .. Len(order), NEW j \in 1 .. Len(order),
                      i <= j, order[i] \in InChan
               PROVE  order[j] \in InChan
    BY <1>1, <1>5 DEF UnsentIsEnd
  <2>2. PICK k \in 1 .. Len(chan) : order[i] = chan[k].item
    BY DEF InChan
  <2>3. o + k \in 1 .. Len(order) /\ order[i] = order[o + k]
    BY <2>1, <2>2
  <2>4. i = o + k
    BY <2>3 DEF OrderInv, OrderExact
  <2>5. j - o \in 1 .. Len(chan) /\ o + (j - o) = j
    BY <2>1, <2>4
  <2>6. chan[j - o].item = order[o + (j - o)]
    BY <2>1, <2>5
  <2> HIDE DEF o
  <2> QED BY <2>5, <2>6 DEF InChan
<1>11. SentIsGone'
  BY <1>3, <1>5, <1>7 DEF OrderInv, SentIsGone
<1>12. IdsUnique'
  BY <1>3, <1>4 DEF OrderInv, IdsUnique
<1> QED BY <1>3, <1>4, <1>8, <1>9, <1>10, <1>11, <1>12 DEF OrderInv

(* A restart of the sender empties it. *)
LEMMA RestartOrder ==
    ASSUME IndInv, OrderInv, SenderRestart
    PROVE  IndInv' /\ OnePlace' /\ OrderInv' /\ Made' = Made /\ Unsent' = {}
<1>1. Init'
  BY DEF SenderRestart, Init
<1>2. IndInv' /\ OnePlace'
  BY <1>1, InitInd, InitOnePlace, PTL
<1>3. chan' = << >> /\ InTxn' = {} /\ Unsent' = {}
  <2>1. Peer \in Dest
    BY LinkAssumption
  <2> QED BY <1>1, <2>1 DEF Init, Unsent, InChan, InQueue, Items, InTxn
<1>4. InSystem' = {}
  BY <1>3, LinkAssumption DEF InSystem, Unsent
<1>5. Made' = Made /\ order' = order
  BY DEF SenderRestart, Made
<1>6. pc \in {"send", "sleep"} => txn \in Transaction
  BY DEF IndInv, SendingDue
<1>7. HistoryTypeOK'
  BY <1>6 DEF SenderRestart, OrderInv, HistoryTypeOK
<1>8. OrderExact'
  <2>1. lost' \subseteq Items(order)
    BY DEF SenderRestart, OrderInv, OrderExact
  <2> QED BY <2>1, <1>4, <1>5 DEF OrderInv, OrderExact
<1>9. ChanIsEnd' /\ UnsentIsEnd' /\ SentIsGone' /\ IdsUnique'
  <2>1. Len(chan') = 0 /\ Len(order) \in Nat
    BY <1>3 DEF OrderInv, HistoryTypeOK
  <2>2. ChanIsEnd'
    BY <2>1, <1>5 DEF ChanIsEnd
  <2> QED BY <2>2, <1>3, <1>5 DEF OrderInv, UnsentIsEnd, SentIsGone, IdsUnique
<1> QED BY <1>2, <1>3, <1>5, <1>7, <1>8, <1>9 DEF OrderInv

-----------------------------------------------------------------------------
(* The peer's half of the invariant, under the sender's steps.             *)

(* A request that leaves carries a transaction that was built; a new       *)
(* transaction has an id no cached response can be for.                    *)
LEMMA PeerKept ==
    ASSUME PeerInv, UNCHANGED <<peerVars, refused>>, Made \subseteq Made',
           \A t \in Made' \ Made : \A s \in Made : s.id # t.id,
           \A m \in wire' \ wire : m \in [rid : RequestId, txn : R!InTxn] /\ Carries(m)'
    PROVE  PeerInv'
<1>1. UNCHANGED <<events, eduLog, cache, handlers, replies, arrived, refused>>
  BY DEF peerVars
<1>2. Dealt' = Dealt
  BY <1>1 DEF Dealt
<1>3. PeerTypeOK'
  BY <1>1 DEF PeerInv, PeerTypeOK, R!InboundTypeOK
<1>4. \A m \in wire' \cup handlers' \cup replies' : Carries(m)'
  <2>1. ASSUME NEW m, Carries(m) PROVE Carries(m)'
    BY <2>1 DEF Carries
  <2>2. \A m \in wire \cup handlers \cup replies : Carries(m)'
    BY <2>1 DEF PeerInv
  <2> QED BY <1>1, <2>2
<1>5. \A h \in handlers' : Placed(h)' /\ Progress(h)'
  BY <1>1, <1>2 DEF PeerInv, Placed, Progress, PdusPassed, R!ThisPdu
<1>6. OkDealt'
  BY <1>1, <1>2 DEF PeerInv, OkDealt
<1>7. CacheDealt'
  <2> SUFFICES ASSUME NEW row \in cache
               PROVE  /\ \E t \in Made' : t.id = row.key
                      /\ \A t \in Made' : t.id = row.key => Items(t.pdus) \subseteq Dealt
    BY <1>1, <1>2 DEF CacheDealt
  <2>1. PICK s \in Made : s.id = row.key
    BY DEF PeerInv, CacheDealt
  <2>2. \A t \in Made : t.id = row.key => Items(t.pdus) \subseteq Dealt
    BY DEF PeerInv, CacheDealt
  <2> QED BY <2>1, <2>2
<1>8. Dealt' \subseteq PdusOf(Made)'
  BY <1>2 DEF PeerInv, PdusOf
<1> QED BY <1>3, <1>4, <1>5, <1>6, <1>7, <1>8 DEF PeerInv

(* The request of the attempt under way carries the transaction being sent. *)
LEMMA SendingFacts ==
    ASSUME SenderInv, pc \in {"send", "sleep"}
    PROVE  /\ txn \in Transaction /\ txn \in Made
           /\ ThisRequest \in [rid : RequestId, txn : R!InTxn]
           /\ ThisRequest.rid[1] = ThisRequest.txn.id /\ ThisRequest.txn = Body(txn)
<1>1. txn \in Transaction /\ retries \in 0 .. MaxRetries
  BY DEF SenderInv, IndInv, SendingDue, TypeOK
<1>2. txn \in Made
  BY DEF Made
<1>3. Body(txn) \in R!InTxn /\ ThisAttempt \in RequestId
  BY <1>1 DEF Transaction, Body, R!InTxn, ThisAttempt, RequestId
<1>4. ThisRequest \in [rid : RequestId, txn : R!InTxn]
  BY <1>3 DEF ThisRequest
<1>5. ThisRequest.rid[1] = ThisRequest.txn.id /\ ThisRequest.txn = Body(txn)
  BY DEF ThisRequest, ThisAttempt, Body
<1> QED BY <1>1, <1>2, <1>4, <1>5

(* The sender's steps that keep its queues. *)
LEMMA SenderKept ==
    ASSUME SenderInv, [Next]_vars, UNCHANGED <<chan, pduQ, eduQ, order, lost>>,
           Made' = Made, InTxn' \subseteq InTxn,
           acked' \subseteq Transaction, givenUp' \subseteq Transaction
    PROVE  SenderInv'
<1>1. IndInv' /\ OnePlace'
  BY NextInd, NextOnePlace DEF SenderInv
<1>2. Unsent' = Unsent
  BY DEF Unsent, InChan, InQueue
<1>3. InSystem' \subseteq InSystem
  BY <1>2, SystemFacts, LinkAssumption DEF InSystem, Unsent
<1> QED BY <1>1, <1>2, <1>3, OrderKept DEF SenderInv

(* What the peer is done with stays done. *)
LEMMA AckedKept ==
    ASSUME AckedHandled, acked' = acked, Dealt \subseteq Dealt'
    PROVE  AckedHandled'
BY DEF AckedHandled, Dealt

-----------------------------------------------------------------------------
(* The sender's steps, one by one.                                         *)

LEMMA QueueItemLink ==
    ASSUME LinkInv, NEW i \in Pdu \cup Edu, QueueItem(i)
    PROVE  LinkInv'
<1>1. IndInv /\ OnePlace /\ OrderInv /\ PeerInv /\ AckedHandled
  BY DEF LinkInv, SenderInv
<1>2. IndInv' /\ OnePlace' /\ OrderInv'
  BY <1>1, QueueItemIsNext, NextInd, NextOnePlace, QueueItemOrder
<1>3. UNCHANGED <<peerVars, wire, refused, acked, givenUp, pc, txn>>
  BY DEF QueueItem, Produce, sendVars
<1>4. Made' = Made /\ Dealt' = Dealt
  BY <1>3 DEF Made, Dealt, peerVars
<1>5. PeerInv'
  BY <1>1, <1>3, <1>4, PeerKept
<1> QED BY <1>1, <1>2, <1>3, <1>4, <1>5, AckedKept DEF LinkInv, SenderInv

LEMMA LocalLink ==
    ASSUME LinkInv, SenderLocal
    PROVE  LinkInv'
<1>1. SenderInv /\ IndInv /\ OnePlace /\ OrderInv /\ PeerInv /\ AckedHandled
  BY DEF LinkInv, SenderInv
<1>2. UNCHANGED <<peerVars, wire, refused, order, acked, givenUp, lost>>
  BY DEF SenderLocal, history
<1>3. [Next]_vars
  BY LinkAssumption DEF SenderLocal, Next, LoopStep
<1>4. SenderInv' /\ Made' = Made
  <2>1. CASE QueuePdu \/ QueueEdu
    BY <2>1, <1>1, <1>2, <1>3, NextInd, NextOnePlace, QueueOrder DEF SenderInv
  <2>2. CASE Tick \/ TimerFires \/ FlushDone \/ SkipFlush(Peer)
    <3>1. /\ UNCHANGED <<chan, pduQ, eduQ, txn>>
          /\ pc \in {"select", "flush"} /\ pc' \in {"select", "flush"}
      BY <2>2 DEF Tick, TimerFires, FlushDone, SkipFlush, queueVars, sendVars
    <3>2. InTxn' \subseteq InTxn /\ Made' = Made
      BY <3>1, <1>2 DEF InTxn, Made
    <3>3. acked' \subseteq Transaction /\ givenUp' \subseteq Transaction
      BY <1>1, <1>2 DEF OrderInv, HistoryTypeOK
    <3> QED BY <3>1, <3>2, <3>3, <1>1, <1>2, <1>3, SenderKept
  <2> QED BY <2>1, <2>2 DEF SenderLocal
<1>5. PeerInv'
  BY <1>1, <1>2, <1>4, PeerKept
<1>6. Dealt' = Dealt
  BY <1>2 DEF Dealt, peerVars
<1> QED BY <1>1, <1>2, <1>4, <1>5, <1>6, AckedKept DEF LinkInv

LEMMA SendFirstLink ==
    ASSUME LinkInv, NEW u \in TxnId, SendFirst(u)
    PROVE  LinkInv'
<1>1. SenderInv /\ IndInv /\ OnePlace /\ OrderInv /\ PeerInv /\ AckedHandled
  BY DEF LinkInv, SenderInv
<1>2. StartTxn(Peer, u) /\ UNCHANGED <<peerVars, refused, acked>>
  BY DEF SendFirst, history
<1>3. /\ OrderInv' /\ Made' = Made \cup {txn'} /\ txn'.id = u
      /\ \A t \in Made : t.id # u
  BY <1>1, SendFirstOrder
<1>4. IndInv' /\ OnePlace'
  BY <1>1, <1>2, LinkAssumption, NextInd, NextOnePlace DEF Next, LoopStep
<1>5. PICK m : m = [rid |-> <<u, 0>>, txn |-> Body(txn')] /\ wire' = wire \cup {m}
  BY DEF SendFirst
<1>6. m \in [rid : RequestId, txn : R!InTxn] /\ m.rid[1] = m.txn.id /\ m.txn = Body(txn)'
  <2>1. txn' \in Transaction
    BY <1>2, <1>4 DEF IndInv, SendingDue, StartTxn
  <2>2. Body(txn') \in R!InTxn /\ <<u, 0>> \in RequestId /\ Body(txn').id = u
    BY <2>1, <1>3, LimitsAssumption DEF Transaction, Body, R!InTxn, RequestId
  <2>3. Body(txn)' = Body(txn')
    BY DEF Body
  <2> QED BY <2>2, <2>3, <1>5
<1>7. Carries(m)'
  BY <1>3, <1>6 DEF Carries, Body
<1>8. PeerInv'
  BY <1>1, <1>2, <1>3, <1>5, <1>6, <1>7, PeerKept
<1>9. Dealt' = Dealt
  BY <1>2 DEF Dealt, peerVars
<1> QED BY <1>1, <1>2, <1>3, <1>4, <1>8, <1>9, AckedKept DEF LinkInv, SenderInv

(* The steps of an attempt: the transaction stays, or it is recorded as    *)
(* acknowledged or given up.                                               *)
LEMMA AttemptLink ==
    ASSUME LinkInv,
           SendAgain \/ ReadFailure \/ SigningFails \/ GetsNoAnswer \/ ReadOk
    PROVE  SenderInv' /\ PeerInv' /\ Made' = Made
<1>1. SenderInv /\ IndInv /\ OrderInv /\ PeerInv
  BY DEF LinkInv, SenderInv
<1>2. /\ pc \in {"send", "sleep"} /\ UNCHANGED <<chan, pduQ, eduQ, txn>>
      /\ UNCHANGED <<peerVars, refused, order, lost>>
  BY DEF SendAgain, ReadFailure, SigningFails, GetsNoAnswer, ReadOk, Wake, AttemptOk,
         AttemptFatal, AttemptRetryable, AttemptExhausted, FinishTxn, queueVars, history
<1>3. [Next]_vars
  BY DEF SendAgain, ReadFailure, SigningFails, GetsNoAnswer, ReadOk, Next, LoopStep, Answer
<1>4. txn \in Transaction /\ txn \in Made
  BY <1>1, <1>2, SendingFacts
<1>5. /\ Made' = Made
      /\ acked' \subseteq acked \cup {txn} /\ givenUp' \subseteq givenUp \cup {txn}
  <2>1. CASE SendAgain
    BY <2>1 DEF SendAgain, Wake, history, Made
  <2>2. CASE ReadFailure \/ SigningFails
    BY <2>2 DEF ReadFailure, SigningFails, AttemptFatal, FinishTxn, Made
  <2>3. CASE GetsNoAnswer
    BY <2>3 DEF GetsNoAnswer, AttemptRetryable, AttemptExhausted, FinishTxn, Made
  <2>4. CASE ReadOk
    BY <2>4 DEF ReadOk, AttemptOk, FinishTxn, Made
  <2> QED BY <2>1, <2>2, <2>3, <2>4
<1>6. acked' \subseteq Transaction /\ givenUp' \subseteq Transaction
  BY <1>1, <1>4, <1>5 DEF OrderInv, HistoryTypeOK
<1>7. InTxn' \subseteq InTxn
  BY <1>2 DEF InTxn
<1>8. SenderInv'
  BY <1>1, <1>2, <1>3, <1>5, <1>6, <1>7, SenderKept
<1>9. wire' \subseteq wire \cup {ThisRequest}
  BY DEF SendAgain, ReadFailure, SigningFails, GetsNoAnswer, ReadOk
<1>10. /\ ThisRequest \in [rid : RequestId, txn : R!InTxn]
       /\ Carries(ThisRequest)
  BY <1>1, <1>2, SendingFacts DEF Carries
<1>11. \A m \in wire' \ wire : m \in [rid : RequestId, txn : R!InTxn] /\ Carries(m)'
  BY <1>5, <1>9, <1>10 DEF Carries
<1>12. PeerInv'
  BY <1>1, <1>2, <1>5, <1>11, PeerKept
<1> QED BY <1>5, <1>8, <1>12

(* A 200 for the attempt is one for the transaction: its id was drawn once. *)
LEMMA OkMeansDealt ==
    ASSUME LinkInv, ReadOk
    PROVE  Items(txn.pdus) \subseteq Dealt
<1>1. OrderInv /\ PeerInv
  BY DEF LinkInv, SenderInv
<1>2. PICK r \in replies : r.rid = ThisAttempt /\ r.status = "ok"
  BY DEF ReadOk
<1>3. PICK t \in Made : r.txn = Body(t) /\ r.rid[1] = r.txn.id
  BY <1>1 DEF PeerInv, Carries
<1>4. t.id = txn.id /\ r.txn.pdus = t.pdus
  BY <1>2, <1>3 DEF ThisAttempt, Body
<1>5. txn \in Made
  BY DEF ReadOk, Made
<1>6. t = txn
  BY <1>1, <1>4, <1>5 DEF OrderInv, IdsUnique
<1> QED BY <1>1, <1>2, <1>4, <1>6 DEF PeerInv, OkDealt

LEMMA ReadOkLink ==
    ASSUME LinkInv, ReadOk
    PROVE  LinkInv'
<1>1. SenderInv' /\ PeerInv' /\ AckedHandled
  BY AttemptLink DEF LinkInv
<1>2. Items(txn.pdus) \subseteq Dealt
  BY OkMeansDealt
<1>3. acked' = acked \cup {txn} /\ UNCHANGED <<events, refused>>
  BY DEF ReadOk, peerVars
<1>4. AckedHandled'
  BY <1>1, <1>2, <1>3 DEF AckedHandled, Dealt
<1> QED BY <1>1, <1>4 DEF LinkInv

(* The other ends of an attempt acknowledge nothing. *)
LEMMA GiveUpLink ==
    ASSUME LinkInv, SendAgain \/ ReadFailure \/ SigningFails \/ GetsNoAnswer
    PROVE  LinkInv'
<1>1. SenderInv' /\ PeerInv' /\ AckedHandled
  BY AttemptLink DEF LinkInv
<1>2. UNCHANGED <<acked, events, refused>>
  BY DEF SendAgain, ReadFailure, SigningFails, GetsNoAnswer, peerVars, history
<1>3. AckedHandled'
  BY <1>1, <1>2 DEF AckedHandled
<1> QED BY <1>1, <1>3 DEF LinkInv

(* A transaction being sent at a restart counts as given up. *)
LEMMA SenderRestartLink ==
    ASSUME LinkInv, SenderRestart
    PROVE  LinkInv'
<1>1. IndInv /\ OrderInv /\ PeerInv /\ AckedHandled
  BY DEF LinkInv, SenderInv
<1>2. IndInv' /\ OnePlace' /\ OrderInv' /\ Made' = Made
  BY <1>1, RestartOrder
<1>3. UNCHANGED <<peerVars, wire, refused, acked>>
  BY DEF SenderRestart
<1>4. PeerInv'
  BY <1>1, <1>2, <1>3, PeerKept
<1>5. Dealt' = Dealt
  BY <1>3 DEF Dealt, peerVars
<1> QED BY <1>1, <1>2, <1>3, <1>4, <1>5, AckedKept DEF LinkInv, SenderInv

-----------------------------------------------------------------------------
(* The peer's steps.                                                       *)

(* What a step of the peer leaves alone, and what only grows. *)
PeerOnly ==
    /\ UNCHANGED <<vars, order, acked, givenUp, lost>>
    /\ events \subseteq events' /\ refused \subseteq refused'

(* Such a step keeps every part of the invariant but what it is about. *)
LEMMA PeerOnlyFacts ==
    ASSUME LinkInv, PeerOnly
    PROVE  /\ SenderInv' /\ Made' = Made /\ AckedHandled'
           /\ Dealt \subseteq Dealt' /\ PdusOf(Made)' = PdusOf(Made)
           /\ \A m : Carries(m) => Carries(m)'
           /\ \A h : Placed(h) => Placed(h)'
           /\ \A h : Progress(h) => Progress(h)'
           /\ \A row \in cache : /\ \E t \in Made : t.id = row.key
                                 /\ \A t \in Made : t.id = row.key
                                                      => Items(t.pdus) \subseteq Dealt'
           /\ \A r \in replies : r.status = "ok" => Items(r.txn.pdus) \subseteq Dealt'
<1>1. UNCHANGED <<chan, pduQ, eduQ, pc, txn, order, acked, givenUp, lost>> /\ [Next]_vars
  BY DEF PeerOnly, vars
<1>2. Made' = Made /\ InTxn' \subseteq InTxn
  BY <1>1 DEF Made, InTxn
<1>3. acked' \subseteq Transaction /\ givenUp' \subseteq Transaction
  BY <1>1 DEF LinkInv, SenderInv, OrderInv, HistoryTypeOK
<1>4. SenderInv'
  BY <1>1, <1>2, <1>3, SenderKept DEF LinkInv
<1>5. Dealt \subseteq Dealt'
  BY DEF PeerOnly, Dealt
<1>6. AckedHandled'
  BY <1>1, <1>5, AckedKept DEF LinkInv
<1>7. PdusOf(Made)' = PdusOf(Made)
  BY <1>2 DEF PdusOf
<1>8. \A m : Carries(m) => Carries(m)'
  BY <1>2 DEF Carries
<1>9. \A h : Placed(h) => Placed(h)'
  BY DEF PeerOnly, Placed, R!ThisPdu
<1>10. \A h : Progress(h) => Progress(h)'
  BY <1>5 DEF Progress, PdusPassed
<1>11. \A row \in cache : /\ \E t \in Made : t.id = row.key
                          /\ \A t \in Made : t.id = row.key => Items(t.pdus) \subseteq Dealt'
  BY <1>5 DEF LinkInv, PeerInv, CacheDealt
<1>12. \A r \in replies : r.status = "ok" => Items(r.txn.pdus) \subseteq Dealt'
  BY <1>5 DEF LinkInv, PeerInv, OkDealt
<1> QED BY <1>2, <1>4, <1>5, <1>6, <1>7, <1>8, <1>9, <1>10, <1>11, <1>12

(* Every activation works on a transaction that was built. *)
LEMMA HandlerFacts ==
    ASSUME LinkInv, NEW h \in handlers
    PROVE  /\ h \in R!Handler /\ Carries(h) /\ Placed(h) /\ Progress(h)
           /\ h.txn.pdus \in Seq(Pdu) /\ h.txn.edus \in Seq(Edu) /\ h.next \in Nat
           /\ Items(h.txn.pdus) \subseteq PdusOf(Made)
<1>1. h \in R!Handler /\ Carries(h) /\ Placed(h) /\ Progress(h)
  BY DEF LinkInv, PeerInv, PeerTypeOK, R!InboundTypeOK
<1>2. h.txn.pdus \in Seq(Pdu) /\ h.txn.edus \in Seq(Edu) /\ h.next \in Nat
  BY <1>1 DEF R!Handler, R!InTxn
<1>3. PICK t \in Made : h.txn = Body(t)
  BY <1>1 DEF Carries
<1>4. h.txn.pdus = t.pdus
  BY <1>3 DEF Body
<1> QED BY <1>1, <1>2, <1>4 DEF PdusOf

(* An activation goes on as g. *)
LEMMA BecomeLink ==
    ASSUME LinkInv, PeerOnly, NEW h \in handlers, NEW g \in R!Handler, R!Become(h, g),
           g.rid = h.rid, g.txn = h.txn,
           Placed(g)', Progress(g)',
           Dealt' \subseteq PdusOf(Made),
           UNCHANGED <<wire, eduLog, cache, replies, arrived>>
    PROVE  LinkInv'
<1>1. Dealt' \subseteq Pdu
  <2>1. \A t \in Made : Items(t.pdus) \subseteq Pdu
    <3>1. ASSUME NEW t \in Transaction PROVE Items(t.pdus) \subseteq Pdu
      BY DEF Transaction, Items
    <3>2. Made \subseteq Transaction
      BY DEF LinkInv, SenderInv, OrderInv, HistoryTypeOK, IndInv, SendingDue, Made
    <3> QED BY <3>1, <3>2
  <2> QED BY <2>1 DEF PdusOf
<1>2. PeerTypeOK'
  BY <1>1 DEF LinkInv, PeerInv, PeerTypeOK, R!InboundTypeOK, R!Become, Dealt
<1>3. Carries(g)'
  <2>1. Carries(h)'
    BY HandlerFacts, PeerOnlyFacts
  <2> QED BY <2>1 DEF Carries
<1>4. \A m \in wire' \cup handlers' \cup replies' : Carries(m)'
  BY <1>3, PeerOnlyFacts DEF LinkInv, PeerInv, R!Become
<1>5. \A k \in handlers' : Placed(k)' /\ Progress(k)'
  BY PeerOnlyFacts DEF LinkInv, PeerInv, R!Become
<1>6. OkDealt' /\ CacheDealt'
  BY PeerOnlyFacts DEF OkDealt, CacheDealt
<1>7. SenderInv' /\ AckedHandled' /\ PdusOf(Made)' = PdusOf(Made)
  BY PeerOnlyFacts
<1> QED BY <1>2, <1>4, <1>5, <1>6, <1>7 DEF LinkInv, PeerInv

(* An activation is done with a PDU that was stored or refused. *)
LEMMA AfterPduLink ==
    ASSUME LinkInv, PeerOnly, NEW h \in handlers, NEW results \in R!Results,
           h.stage \in {"validate", "store"}, R!AfterPdu(h, results),
           R!ThisPdu(h) \in Dealt', Dealt' \subseteq Dealt \cup {R!ThisPdu(h)},
           UNCHANGED <<wire, eduLog, cache, replies, arrived>>
    PROVE  LinkInv'
<1>1. /\ h \in R!Handler /\ Placed(h) /\ Progress(h)
      /\ h.txn.pdus \in Seq(Pdu) /\ h.next \in Nat
      /\ Items(h.txn.pdus) \subseteq PdusOf(Made)
  BY HandlerFacts
<1>2. h.next < Len(h.txn.pdus) /\ Len(h.txn.pdus) \in Nat
  BY <1>1 DEF Placed
<1>3. Dealt' \subseteq PdusOf(Made)
  <2>1. R!ThisPdu(h) \in Items(h.txn.pdus)
    BY <1>1, <1>2 DEF R!ThisPdu, Items
  <2>2. Dealt \subseteq PdusOf(Made)
    BY DEF LinkInv, PeerInv
  <2> QED BY <2>1, <2>2, <1>1
<1>4. \A i \in 1 .. h.next + 1 : h.txn.pdus[i] \in Dealt'
  <2> SUFFICES ASSUME NEW i \in 1 .. h.next + 1 PROVE h.txn.pdus[i] \in Dealt'
    OBVIOUS
  <2>1. CASE i = h.next + 1
    BY <2>1 DEF R!ThisPdu
  <2>2. CASE i \in 1 .. h.next
    BY <2>2, <1>1, PeerOnlyFacts DEF Progress, PdusPassed
  <2> QED BY <2>1, <2>2, <1>1
<1>5. CASE h.next + 1 < Len(h.txn.pdus)
  <2> DEFINE g == [h EXCEPT !.stage = "validate", !.next = h.next + 1,
                            !.found = "none", !.results = results]
  <2>1. R!Become(h, g)
    BY <1>5 DEF R!AfterPdu
  <2>2. g \in R!Handler
    <3>1. h.next + 1 \in Nat
      BY <1>1
    <3> QED BY <3>1, <1>1 DEF R!Handler
  <2>3. /\ g.rid = h.rid /\ g.txn = h.txn /\ g.stage = "validate" /\ g.next = h.next + 1
    BY <1>1 DEF R!Handler
  <2> HIDE DEF g
  <2>4. Placed(g)'
    BY <2>3, <1>5 DEF Placed
  <2>5. Progress(g)'
    BY <2>3, <1>4 DEF Progress, PdusPassed
  <2> QED BY <2>1, <2>2, <2>3, <2>4, <2>5, <1>3, BecomeLink
<1>6. CASE ~(h.next + 1 < Len(h.txn.pdus))
  <2> DEFINE g == [h EXCEPT !.stage = "edus", !.next = 0,
                            !.found = "none", !.results = results]
  <2>1. R!Become(h, g)
    BY <1>6 DEF R!AfterPdu
  <2>2. g \in R!Handler
    BY <1>1 DEF R!Handler
  <2>3. g.rid = h.rid /\ g.txn = h.txn /\ g.stage = "edus"
    BY <1>1 DEF R!Handler
  <2> HIDE DEF g
  <2>4. Placed(g)'
    BY <2>3 DEF Placed
  <2>5. Len(h.txn.pdus) = h.next + 1
    BY <1>1, <1>2, <1>6
  <2>6. Progress(g)'
    BY <2>3, <2>5, <1>4 DEF Progress, PdusPassed
  <2> QED BY <2>1, <2>2, <2>3, <2>4, <2>6, <1>3, BecomeLink
<1> QED BY <1>5, <1>6

(* The steps of put() that settle the PDU at hand, and the others. *)
SettlesPdu(h) ==
    \/ /\ R!RejectPdu(h)
       /\ refused' = refused \cup {R!ThisPdu(h)}
    \/ /\ R!StorePdu(h) \/ R!StorePduFails(h)
       /\ refused' = refused \cup ({R!ThisPdu(h)} \ events')

SettlesNone(h) ==
    /\ \/ R!Verify(h)
       \/ R!VerifyFails(h)
       \/ R!ValidatePdu(h)
       \/ R!SkipEdu(h)
       \/ R!CacheAndReply(h)
    /\ UNCHANGED refused

(* A PDU that is settled is stored, by the first to store it, or refused. *)
LEMMA PduLink ==
    ASSUME LinkInv, NEW h \in handlers, PeerHandles(h), SettlesPdu(h)
    PROVE  /\ LinkInv' /\ PeerOnly /\ R!ThisPdu(h) \in PdusOf(Made)
           /\ \/ events' = events /\ refused' \in {refused, refused \cup {R!ThisPdu(h)}}
              \/ /\ R!ThisPdu(h) \notin events /\ events' = events \cup {R!ThisPdu(h)}
                 /\ refused' = refused
<1> DEFINE p == R!ThisPdu(h)
<1>1. /\ h \in R!Handler /\ Placed(h) /\ h.txn.pdus \in Seq(Pdu) /\ h.next \in Nat
      /\ Items(h.txn.pdus) \subseteq PdusOf(Made)
  BY HandlerFacts
<1>2. UNCHANGED <<vars, wire, order, acked, givenUp, lost>>
  BY DEF PeerHandles
<1>3. h.stage \in {"validate", "store"} /\ UNCHANGED <<eduLog, cache, replies, arrived>>
  BY DEF SettlesPdu, R!RejectPdu, R!StorePdu, R!StorePduFails, R!tables
<1>4. p \in Items(h.txn.pdus) /\ p \in Pdu
  BY <1>1, <1>3 DEF Placed, Items, R!ThisPdu
<1>5. /\ p \in Dealt'
      /\ \/ events' = events /\ refused' \in {refused, refused \cup {p}}
         \/ p \notin events /\ events' = events \cup {p} /\ refused' = refused
  <2>1. CASE R!RejectPdu(h) /\ refused' = refused \cup {p}
    BY <2>1 DEF R!RejectPdu, R!tables, Dealt
  <2>2. CASE R!StorePduFails(h) /\ refused' = refused \cup ({p} \ events')
    BY <2>2 DEF R!StorePduFails, R!tables, Dealt
  <2>3. CASE R!StorePdu(h) /\ refused' = refused \cup ({p} \ events')
    <3>1. h.found = p
      BY <2>3, <1>1 DEF R!StorePdu, Placed
    <3> QED BY <2>3, <3>1 DEF R!StorePdu, Dealt
  <2> QED BY <2>1, <2>2, <2>3 DEF SettlesPdu
<1>6. PeerOnly
  BY <1>2, <1>5 DEF PeerOnly
<1>7. \E results \in R!Results : R!AfterPdu(h, results)
  <2>1. h.results \in R!Results /\ h.found \in Pdu \cup {"none"}
    BY <1>1 DEF R!Handler
  <2>2. \A q \in Pdu \cup {"none"}, v \in {"none", "ok", "error"} :
           [h.results EXCEPT ![q] = v] \in R!Results
    BY <2>1 DEF R!Results
  <2> QED BY <2>1, <2>2, <1>4 DEF SettlesPdu, R!RejectPdu, R!StorePdu, R!StorePduFails
<1>8. Dealt' \subseteq Dealt \cup {p}
  BY <1>5 DEF Dealt
<1>9. LinkInv'
  BY <1>2, <1>3, <1>5, <1>6, <1>7, <1>8, AfterPduLink
<1> QED BY <1>1, <1>4, <1>5, <1>6, <1>9

(* Steps that settle no PDU and produce no response. *)
LEMMA AdvanceLink ==
    ASSUME LinkInv, NEW h \in handlers, PeerOnly, UNCHANGED <<events, refused, wire>>,
           R!Verify(h) \/ R!ValidatePdu(h) \/ R!SkipEdu(h)
    PROVE  LinkInv'
<1>1. /\ h \in R!Handler /\ Placed(h) /\ Progress(h)
      /\ h.txn.pdus \in Seq(Pdu) /\ h.txn.edus \in Seq(Edu) /\ h.next \in Nat
  BY HandlerFacts
<1>2. UNCHANGED <<eduLog, cache, replies, arrived>>
  BY DEF R!Verify, R!ValidatePdu, R!SkipEdu, R!tables
<1>3. Dealt' = Dealt /\ Dealt \subseteq PdusOf(Made)
  BY DEF Dealt, LinkInv, PeerInv
<1>4. CASE R!Verify(h)
  <2> DEFINE next == IF h.txn.pdus = << >> THEN "edus" ELSE "validate"
             g == [h EXCEPT !.stage = next]
  <2>1. R!Become(h, g) /\ h.stage = "verify"
    BY <1>4 DEF R!Verify
  <2>2. g \in R!Handler
    BY <1>1 DEF R!Handler
  <2>3. g.rid = h.rid /\ g.txn = h.txn /\ g.stage = next /\ g.next = 0
    BY <1>1, <2>1 DEF R!Handler, Placed
  <2> HIDE DEF g
  <2>4. Placed(g)'
    BY <2>3, <1>1 DEF Placed
  <2>5. PdusPassed(g)' = 0
    BY <2>3, <1>1 DEF PdusPassed
  <2>6. Progress(g)'
    BY <2>5 DEF Progress
  <2> QED BY <2>1, <2>2, <2>3, <2>4, <2>6, <1>2, <1>3, BecomeLink
<1>5. CASE R!ValidatePdu(h)
  <2>1. PICK q \in IF R!Duplicates(R!ThisPdu(h)) = {} THEN {R!ThisPdu(h)}
                                                      ELSE R!Duplicates(R!ThisPdu(h)) :
           R!Become(h, [h EXCEPT !.stage = "store", !.found = q])
    BY <1>5 DEF R!ValidatePdu
  <2>2. h.stage = "validate" /\ h.next < Len(h.txn.pdus)
    BY <1>1, <1>5 DEF R!ValidatePdu, Placed
  <2>3. R!ThisPdu(h) \in Pdu
    BY <2>2, <1>1 DEF R!ThisPdu
  <2>4. q = R!ThisPdu(h) \/ q \in events
    BY <2>1 DEF R!Duplicates
  <2>5. q \in Pdu
    BY <2>3, <2>4 DEF LinkInv, PeerInv, PeerTypeOK, R!InboundTypeOK
  <2> DEFINE g == [h EXCEPT !.stage = "store", !.found = q]
  <2>6. g \in R!Handler
    BY <2>5, <1>1 DEF R!Handler
  <2>7. /\ g.rid = h.rid /\ g.txn = h.txn /\ g.stage = "store" /\ g.next = h.next
        /\ g.found = q
    BY <1>1 DEF R!Handler
  <2>8. R!Become(h, g)
    BY <2>1
  <2> HIDE DEF g
  <2>9. Placed(g)'
    BY <2>2, <2>4, <2>7 DEF Placed, R!ThisPdu
  <2>10. PdusPassed(g)' = h.next /\ PdusPassed(h) = h.next
    BY <2>2, <2>7 DEF PdusPassed
  <2>11. Progress(g)'
    BY <2>7, <2>10, <1>1, <1>3 DEF Progress
  <2> QED BY <2>6, <2>7, <2>8, <2>9, <2>11, <1>2, <1>3, BecomeLink
<1>6. CASE R!SkipEdu(h)
  <2> DEFINE g == [h EXCEPT !.next = h.next + 1]
  <2>1. R!Become(h, g) /\ h.stage = "edus"
    BY <1>6 DEF R!SkipEdu
  <2>2. g \in R!Handler
    <3>1. h.next + 1 \in Nat
      BY <1>1
    <3> QED BY <3>1, <1>1 DEF R!Handler
  <2>3. g.rid = h.rid /\ g.txn = h.txn /\ g.stage = "edus"
    BY <1>1, <2>1 DEF R!Handler
  <2> HIDE DEF g
  <2>4. Placed(g)'
    BY <2>3 DEF Placed
  <2>5. PdusPassed(g)' = PdusPassed(h)
    BY <2>1, <2>3 DEF PdusPassed
  <2>6. Progress(g)'
    BY <2>3, <2>5, <1>1, <1>3 DEF Progress
  <2> QED BY <2>1, <2>2, <2>3, <2>4, <2>6, <1>2, <1>3, BecomeLink
<1> QED BY <1>4, <1>5, <1>6

(* Steps that produce a response, start an activation or end some: what    *)
(* the new ones say must hold.                                             *)
LEMMA ExchangeLink ==
    ASSUME LinkInv, PeerOnly, UNCHANGED <<events, refused, eduLog>>,
           wire' \subseteq wire, arrived' \subseteq RequestId,
           \A h \in handlers' \ handlers :
              h \in R!Handler /\ Carries(h) /\ Placed(h) /\ Progress(h),
           \A r \in replies' \ replies :
              /\ r \in R!Reply /\ Carries(r)
              /\ r.status = "ok" => Items(r.txn.pdus) \subseteq Dealt,
           \A row \in cache' \ cache :
              /\ row \in R!CacheRow
              /\ \E t \in Made : t.id = row.key
              /\ \A t \in Made : t.id = row.key => Items(t.pdus) \subseteq Dealt
    PROVE  LinkInv'
<1>1. Dealt' = Dealt
  BY DEF Dealt
<1>2. PeerTypeOK'
  BY DEF LinkInv, PeerInv, PeerTypeOK, R!InboundTypeOK
<1>3. \A m \in wire' \cup handlers' \cup replies' : Carries(m)
  BY DEF LinkInv, PeerInv
<1>4. \A m \in wire' \cup handlers' \cup replies' : Carries(m)'
  BY <1>3, PeerOnlyFacts
<1>5. \A h \in handlers' : Placed(h) /\ Progress(h)
  BY DEF LinkInv, PeerInv
<1>6. \A h \in handlers' : Placed(h)' /\ Progress(h)'
  BY <1>5, PeerOnlyFacts
<1>7. OkDealt'
  BY <1>1 DEF LinkInv, PeerInv, OkDealt
<1>8. CacheDealt'
  <2>1. Made' = Made
    BY PeerOnlyFacts
  <2> QED BY <2>1, <1>1 DEF LinkInv, PeerInv, CacheDealt
<1>9. Dealt' \subseteq PdusOf(Made)'
  BY <1>1, PeerOnlyFacts DEF LinkInv, PeerInv
<1>10. SenderInv' /\ AckedHandled'
  BY PeerOnlyFacts
<1> QED BY <1>2, <1>4, <1>6, <1>7, <1>8, <1>9, <1>10 DEF LinkInv, PeerInv

(* put() returns: a 200 only with every PDU of the transaction behind it. *)
LEMMA RespondLink ==
    ASSUME LinkInv, NEW h \in handlers, PeerOnly, UNCHANGED <<events, refused, wire>>,
           R!VerifyFails(h) \/ R!CacheAndReply(h)
    PROVE  LinkInv'
<1>1. /\ h \in R!Handler /\ Carries(h) /\ Progress(h)
      /\ h.txn.pdus \in Seq(Pdu)
  BY HandlerFacts
<1> DEFINE ok == R!CacheAndReply(h)
           r == [rid |-> h.rid, txn |-> h.txn, status |-> IF ok THEN "ok" ELSE "failed",
                 results |-> IF ok THEN h.results ELSE R!NoResults]
           w == [key |-> h.txn.id, results |-> h.results]
<1>2. ok => h.stage = "edus" /\ Items(h.txn.pdus) \subseteq Dealt
  <2> HAVE ok
  <2>1. h.stage = "edus"
    BY DEF R!CacheAndReply
  <2> QED BY <2>1, <1>1 DEF Progress, PdusPassed, Items
<1>3. ~ok => h.stage = "verify"
  BY DEF R!VerifyFails
<1>4. /\ handlers' \subseteq handlers /\ replies' = replies \cup {r}
      /\ cache' \subseteq cache \cup {w} /\ (~ok => cache' = cache)
      /\ UNCHANGED <<eduLog, arrived>>
  <2>1. CASE ok
    <3>1. /\ R!Respond(h, "ok") /\ UNCHANGED <<eduLog, arrived>>
          /\ cache' \subseteq cache \cup {w}
      BY <2>1 DEF R!CacheAndReply
    <3> QED BY <2>1, <3>1 DEF R!Respond
  <2>2. CASE ~ok
    <3>1. R!Respond(h, "failed") /\ UNCHANGED <<eduLog, arrived, cache>>
      BY <2>2 DEF R!VerifyFails, R!tables
    <3> QED BY <2>2, <3>1 DEF R!Respond
  <2> QED BY <2>1, <2>2
<1>5. /\ r \in R!Reply /\ r.rid = h.rid /\ r.txn = h.txn /\ (r.status = "ok" => ok)
      /\ w \in R!CacheRow /\ w.key = h.txn.id
  <2>1. R!NoResults \in R!Results /\ h.results \in R!Results
    BY <1>1 DEF R!NoResults, R!Results, R!Handler
  <2>2. h.rid \in RequestId /\ h.txn \in R!InTxn /\ h.txn.id \in TxnId
    BY <1>1 DEF R!Handler, R!InTxn
  <2> QED BY <2>1, <2>2 DEF R!Reply, R!CacheRow
<1> HIDE DEF r, w, ok
<1>6. Carries(r)
  BY <1>1, <1>5 DEF Carries
<1>7. \A row \in cache' \ cache :
         /\ row \in R!CacheRow
         /\ \E t \in Made : t.id = row.key
         /\ \A t \in Made : t.id = row.key => Items(t.pdus) \subseteq Dealt
  <2> SUFFICES ASSUME NEW row \in cache' \ cache
               PROVE  /\ row \in R!CacheRow
                      /\ \E t \in Made : t.id = row.key
                      /\ \A t \in Made : t.id = row.key => Items(t.pdus) \subseteq Dealt
    OBVIOUS
  <2>1. row = w /\ ok
    BY <1>4
  <2>2. PICK t \in Made : h.txn = Body(t)
    BY <1>1 DEF Carries
  <2>3. t.id = row.key /\ t.pdus = h.txn.pdus
    BY <2>1, <2>2, <1>5 DEF Body
  <2>4. \A s \in Made : s.id = row.key => s = t
    BY <2>3 DEF LinkInv, SenderInv, OrderInv, IdsUnique
  <2> QED BY <2>1, <2>3, <2>4, <1>2, <1>5
<1>8. arrived' \subseteq RequestId
  BY <1>4 DEF LinkInv, PeerInv, PeerTypeOK, R!InboundTypeOK
<1> QED BY <1>2, <1>4, <1>5, <1>6, <1>7, <1>8, ExchangeLink

(* A request is answered from the cache or starts an activation. *)
LEMMA ArriveLink ==
    ASSUME LinkInv, NEW m \in wire, RequestArrives(m)
    PROVE  LinkInv' /\ PeerOnly
<1>1. /\ UNCHANGED <<vars, order, acked, givenUp, lost, refused>>
      /\ wire' \subseteq wire
  BY DEF RequestArrives, history
<1>2. m.rid \in RequestId /\ m.txn \in R!InTxn /\ Carries(m)
  BY DEF LinkInv, PeerInv, PeerTypeOK
<1>3. CASE R!ArriveCached(m.rid, m.txn)
  <2>1. PICK row \in cache :
          /\ row.key = m.txn.id
          /\ arrived' = arrived \cup {m.rid}
          /\ replies' = replies \cup
               {[rid |-> m.rid, txn |-> m.txn, status |-> "ok", results |-> row.results]}
          /\ UNCHANGED <<events, eduLog, cache, handlers>>
    BY <1>3 DEF R!ArriveCached
  <2> DEFINE r == [rid |-> m.rid, txn |-> m.txn, status |-> "ok", results |-> row.results]
  <2>2. row \in R!CacheRow /\ arrived' \subseteq RequestId
    BY <2>1, <1>2 DEF LinkInv, PeerInv, PeerTypeOK, R!InboundTypeOK
  <2>3. r \in R!Reply /\ r.rid = m.rid /\ r.txn = m.txn
    BY <2>2, <1>2 DEF R!CacheRow, R!Reply
  <2>4. replies' = replies \cup {r}
    BY <2>1
  <2> HIDE DEF r
  <2>5. Carries(r)
    BY <2>3, <1>2 DEF Carries
  <2>6. Items(r.txn.pdus) \subseteq Dealt
    <3>1. PICK t \in Made : m.txn = Body(t)
      BY <1>2 DEF Carries
    <3>2. t.id = row.key /\ t.pdus = m.txn.pdus
      BY <2>1, <3>1 DEF Body
    <3> QED BY <2>3, <3>2 DEF LinkInv, PeerInv, CacheDealt
  <2>7. PeerOnly
    BY <1>1, <2>1 DEF PeerOnly
  <2>8. LinkInv'
    BY <1>1, <2>1, <2>2, <2>3, <2>4, <2>5, <2>6, <2>7, ExchangeLink
  <2> QED BY <2>7, <2>8
<1>4. CASE R!ArriveNew(m.rid, m.txn)
  <2> DEFINE g == [rid |-> m.rid, txn |-> m.txn, stage |-> "verify", next |-> 0,
                   found |-> "none", results |-> R!NoResults]
  <2>1. /\ handlers' = handlers \cup {g} /\ arrived' = arrived \cup {m.rid}
        /\ UNCHANGED <<events, eduLog, cache, replies>>
    BY <1>4 DEF R!ArriveNew
  <2>2. g \in R!Handler
    BY <1>2 DEF R!Handler, R!Results, R!NoResults
  <2>3. g.rid = m.rid /\ g.txn = m.txn /\ g.stage = "verify" /\ g.next = 0
    OBVIOUS
  <2> HIDE DEF g
  <2>4. Carries(g) /\ Placed(g) /\ Progress(g)
    BY <2>3, <1>2 DEF Carries, Placed, Progress, PdusPassed
  <2>5. arrived' \subseteq RequestId
    BY <2>1, <1>2 DEF LinkInv, PeerInv, PeerTypeOK, R!InboundTypeOK
  <2>6. PeerOnly
    BY <1>1, <2>1 DEF PeerOnly
  <2>7. LinkInv'
    BY <1>1, <2>1, <2>2, <2>4, <2>5, <2>6, ExchangeLink
  <2> QED BY <2>6, <2>7
<1> QED BY <1>3, <1>4 DEF RequestArrives

(* A restart of the peer ends its activations and keeps its tables. *)
LEMMA PeerRestartLink ==
    ASSUME LinkInv, PeerRestart
    PROVE  LinkInv' /\ PeerOnly
<1>1. /\ UNCHANGED <<vars, wire, order, acked, givenUp, lost, refused>>
      /\ handlers' = {} /\ UNCHANGED <<events, eduLog, cache, replies, arrived>>
  BY DEF PeerRestart, history, R!ReceiverRestart, R!tables
<1>2. PeerOnly
  BY <1>1 DEF PeerOnly
<1>3. arrived' \subseteq RequestId
  BY <1>1 DEF LinkInv, PeerInv, PeerTypeOK, R!InboundTypeOK
<1>4. LinkInv'
  BY <1>1, <1>2, <1>3, ExchangeLink
<1> QED BY <1>2, <1>4

(* The steps of put() that settle no PDU. *)
LEMMA QuietLink ==
    ASSUME LinkInv, NEW h \in handlers, PeerHandles(h), SettlesNone(h)
    PROVE  LinkInv' /\ UNCHANGED <<events, refused, vars, acked, givenUp, lost>>
<1>1. UNCHANGED <<vars, wire, order, acked, givenUp, lost, refused>>
  BY DEF PeerHandles, SettlesNone
<1>2. events' = events
  BY DEF SettlesNone, R!Verify, R!VerifyFails, R!ValidatePdu, R!SkipEdu, R!CacheAndReply,
         R!tables
<1>3. PeerOnly
  BY <1>1, <1>2 DEF PeerOnly
<1> QED BY <1>1, <1>2, <1>3, AdvanceLink, RespondLink DEF SettlesNone

-----------------------------------------------------------------------------
(* The invariant holds.                                                    *)

LEMMA InitLink == LinkInit => LinkInv
<1> SUFFICES ASSUME LinkInit PROVE LinkInv
  OBVIOUS
<1>1. /\ Init /\ order = << >> /\ acked = {} /\ givenUp = {} /\ lost = {} /\ refused = {}
      /\ wire = {} /\ R!InboundInit
  BY DEF LinkInit
<1>2. IndInv /\ OnePlace
  BY <1>1, InitInd, InitOnePlace
<1>3. Peer \in Dest
  BY LinkAssumption
<1>4. chan = << >> /\ InTxn = {} /\ Unsent = {} /\ Made = {}
  BY <1>1, <1>3 DEF Init, Unsent, InChan, InQueue, Items, InTxn, Made
<1>5. InSystem = {}
  BY <1>4, SystemFacts
<1>6. OrderInv
  BY <1>1, <1>4, <1>5
  DEF OrderInv, HistoryTypeOK, OrderExact, ChanIsEnd, UnsentIsEnd, SentIsGone, IdsUnique
<1>7. PeerInv
  BY <1>1 DEF R!InboundInit, PeerInv, PeerTypeOK, R!InboundTypeOK, OkDealt, CacheDealt, Dealt
<1>8. AckedHandled
  BY <1>1 DEF AckedHandled
<1> QED BY <1>2, <1>6, <1>7, <1>8 DEF LinkInv, SenderInv

LEMMA NextLink == LinkInv /\ [LinkNext]_linkVars => LinkInv'
<1> SUFFICES ASSUME LinkInv, [LinkNext]_linkVars PROVE LinkInv'
  OBVIOUS
<1>1. ASSUME NEW i \in Pdu \cup Edu, QueueItem(i) PROVE LinkInv'
  BY <1>1, QueueItemLink
<1>2. CASE SenderStep
  BY <1>2, LocalLink, SendFirstLink, ReadOkLink, GiveUpLink DEF SenderStep
<1>3. ASSUME NEW m \in wire, RequestArrives(m) PROVE LinkInv'
  BY <1>3, ArriveLink
<1>4. ASSUME NEW h \in handlers, PeerHandles(h) PROVE LinkInv'
  <2>1. SettlesPdu(h) \/ SettlesNone(h)
    BY <1>4 DEF PeerHandles, SettlesPdu, SettlesNone
  <2> QED BY <1>4, <2>1, PduLink, QuietLink
<1>5. CASE SenderRestart
  BY <1>5, SenderRestartLink
<1>6. CASE PeerRestart
  BY <1>6, PeerRestartLink
<1>7. CASE UNCHANGED linkVars
  <2>1. /\ UNCHANGED <<vars, wire, order, acked, givenUp, lost, refused>>
        /\ UNCHANGED <<events, eduLog, cache, handlers, replies, arrived>>
    BY <1>7 DEF linkVars, peerVars, history
  <2>2. PeerOnly
    BY <2>1 DEF PeerOnly
  <2>3. arrived' \subseteq RequestId
    BY <2>1 DEF LinkInv, PeerInv, PeerTypeOK, R!InboundTypeOK
  <2> QED BY <2>1, <2>2, <2>3, ExchangeLink
<1> QED BY <1>1, <1>2, <1>3, <1>4, <1>5, <1>6, <1>7 DEF LinkNext

(* Every reachable state of two servers and their network satisfies the    *)
(* invariant.                                                              *)
THEOREM LinkInvariance == LinkSpec => []LinkInv
BY InitLink, NextLink, PTL DEF LinkSpec

(* A 200 that the sender reads means that the peer stored or refused every *)
(* PDU of the transaction: AckedHandled.                                   *)
THEOREM AcksAreHandled == LinkSpec => []AckedHandled
<1>1. LinkInv => AckedHandled
  BY DEF LinkInv
<1> QED BY <1>1, LinkInvariance, PTL

(* A transaction id stands for one body, whatever restarts and retries     *)
(* there are: OneBodyPerId.                                                *)
THEOREM IdsHaveOneBody == LinkSpec => []OneBodyPerId
<1>1. LinkInv => OneBodyPerId
  <2> SUFFICES ASSUME LinkInv, NEW m \in wire \cup handlers \cup replies,
                      NEW t \in acked \cup givenUp, m.txn.id = t.id
               PROVE  m.txn = Body(t)
    BY DEF OneBodyPerId
  <2>1. PICK s \in Made : m.txn = Body(s)
    BY DEF LinkInv, PeerInv, Carries
  <2>2. s.id = t.id /\ t \in Made
    BY <2>1 DEF Body, Made
  <2>3. s = t
    BY <2>2 DEF LinkInv, SenderInv, OrderInv, IdsUnique
  <2> QED BY <2>1, <2>3
<1> QED BY <1>1, LinkInvariance, PTL

(* No PDU arrives at the peer before one that was queued earlier has left  *)
(* the sender: NoOvertaking.                                               *)
THEOREM NoneOvertakes == LinkSpec => []NoOvertaking
<1>1. LinkInv => NoOvertaking
  <2> SUFFICES ASSUME LinkInv, NEW j \in 1 .. Len(order), order[j] \in events,
                      NEW i \in 1 .. j
               PROVE  order[i] \notin Unsent
    BY DEF NoOvertaking, Unsent
  <2>1. order[j] \in PdusOf(Made)
    BY DEF LinkInv, PeerInv, Dealt
  <2>2. order[j] \notin Unsent
    BY <2>1 DEF LinkInv, SenderInv, OrderInv, SentIsGone, PdusOf
  <2>3. i \in 1 .. Len(order) /\ i <= j
    BY DEF LinkInv, SenderInv, OrderInv, HistoryTypeOK
  <2> QED BY <2>2, <2>3 DEF LinkInv, SenderInv, OrderInv, UnsentIsEnd
<1> QED BY <1>1, LinkInvariance, PTL

-----------------------------------------------------------------------------
(* The refinement.                                                         *)

(* Two sequences one after the other. *)
LEMMA ConcatItems ==
    ASSUME NEW S, NEW q \in Seq(S), NEW c \in Seq(S)
    PROVE  q \o c \in Seq(S) /\ Items(q \o c) = Items(q) \cup Items(c)
<1>1. /\ q \o c \in Seq(S) /\ Len(q \o c) = Len(q) + Len(c)
      /\ Len(q) \in Nat /\ Len(c) \in Nat
      /\ \A i \in 1 .. Len(q) : (q \o c)[i] = q[i]
      /\ \A i \in 1 .. Len(c) : (q \o c)[Len(q) + i] = c[i]
  BY ConcatProperties, LenProperties
<1>2. ASSUME NEW i \in 1 .. Len(q \o c) PROVE (q \o c)[i] \in Items(q) \cup Items(c)
  <2>1. CASE i \in 1 .. Len(q)
    BY <2>1, <1>1 DEF Items
  <2>2. CASE i - Len(q) \in 1 .. Len(c)
    <3>1. i = Len(q) + (i - Len(q))
      BY <1>1
    <3> QED BY <3>1, <2>2, <1>1 DEF Items
  <2> QED BY <2>1, <2>2, <1>1
<1>3. ASSUME NEW i \in 1 .. Len(q) PROVE q[i] \in Items(q \o c)
  BY <1>1 DEF Items
<1>4. ASSUME NEW i \in 1 .. Len(c) PROVE c[i] \in Items(q \o c)
  <2>1. Len(q) + i \in 1 .. Len(q \o c)
    BY <1>1
  <2> QED BY <2>1, <1>1 DEF Items
<1>5. Items(q \o c) = Items(q) \cup Items(c)
  BY <1>2, <1>3, <1>4 DEF Items
<1> QED BY <1>1, <1>5

(* Taking from the front, adding at the end and moving across the border. *)
LEMMA ConcatFacts ==
    ASSUME NEW S, NEW q \in Seq(S), NEW c \in Seq(S)
    PROVE  /\ q \o c \in Seq(S) /\ Len(q \o c) = Len(q) + Len(c)
           /\ \A x \in S : q \o Append(c, x) = Append(q \o c, x)
           /\ c # << >> => Append(q, Head(c)) \o Tail(c) = q \o c
           /\ q # << >> => SubSeq(q \o c, 1, Len(q)) = q
           /\ SubSeq(q \o c, Len(q) + 1, Len(q \o c)) = c
<1>1. /\ q \o c \in Seq(S) /\ Len(q \o c) = Len(q) + Len(c)
      /\ Len(q) \in Nat /\ Len(c) \in Nat
      /\ \A i \in 1 .. Len(q) : (q \o c)[i] = q[i]
      /\ \A i \in 1 .. Len(c) : (q \o c)[Len(q) + i] = c[i]
  BY ConcatProperties, LenProperties
<1>2. ASSUME NEW x \in S PROVE q \o Append(c, x) = Append(q \o c, x)
  <2>1. <<x>> \in Seq(S)
    OBVIOUS
  <2> QED BY <2>1, <1>1, AppendIsConcat, ConcatAssociative
<1>3. ASSUME c # << >> PROVE Append(q, Head(c)) \o Tail(c) = q \o c
  <2>1. Head(c) \in S /\ Tail(c) \in Seq(S) /\ <<Head(c)>> \in Seq(S)
    BY <1>3, HeadTailProperties
  <2>2. <<Head(c)>> \o Tail(c) = c
    BY <1>3
  <2>3. Append(q, Head(c)) = q \o <<Head(c)>>
    BY <2>1, AppendIsConcat
  <2> QED BY <2>1, <2>2, <2>3, ConcatAssociative
<1>4. ASSUME q # << >> PROVE SubSeq(q \o c, 1, Len(q)) = q
  <2>1. 1 \in 1 .. Len(q) /\ Len(q) \in 1 .. Len(q)
    BY <1>1, <1>4, EmptySeq
  <2>2. SubSeq(q \o c, 1, Len(q)) = SubSeq(q, 1, Len(q))
    BY <2>1, SubSeqOfConcat1
  <2> QED BY <2>2, SubSeqFull
<1>5. SubSeq(q \o c, Len(q) + 1, Len(q \o c)) = c
  <2>1. CASE c = << >>
    <3>1. Len(q \o c) < Len(q) + 1 /\ Len(q \o c) \in Int /\ Len(q) + 1 \in Int
      BY <2>1, <1>1
    <3> QED BY <2>1, <3>1, SubSeqEmpty
  <2>2. CASE c # << >>
    <3>1. /\ Len(q) + 1 \in Len(q) + 1 .. Len(q) + Len(c)
          /\ Len(q) + Len(c) \in Len(q) + 1 .. Len(q) + Len(c)
          /\ (Len(q) + 1) - Len(q) = 1 /\ (Len(q) + Len(c)) - Len(q) = Len(c)
      BY <2>2, <1>1, EmptySeq
    <3>2. SubSeq(q \o c, Len(q) + 1, Len(q) + Len(c)) = SubSeq(c, 1, Len(c))
      BY <3>1, SubSeqOfConcat2
    <3> QED BY <3>2, <1>1, SubSeqFull
  <2> QED BY <2>1, <2>2
<1> QED BY <1>1, <1>2, <1>3, <1>4, <1>5

(* What waits, what is being sent and what was sent, in the state of the   *)
(* link.                                                                   *)
LEMMA MappedFacts ==
    ASSUME LinkInv
    PROVE  /\ pduQ[Peer] \in Seq(Pdu) /\ PdusIn(chan) \in Seq(Pdu) /\ Waiting \in Seq(Pdu)
           /\ Items(Waiting) = Unsent \cap Pdu
           /\ InSystem \cap Pdu = Items(Waiting) \cup Sending
           /\ PdusOf(Made) = Sending \cup PdusOf(acked) \cup PdusOf(givenUp)
           /\ PdusOf(Made) \subseteq Pdu
<1>1. /\ Peer \in Dest /\ chan \in Seq(Event)
      /\ pduQ[Peer] \in Seq(Pdu) /\ eduQ[Peer] \in Seq(Edu)
  BY LinkAssumption DEF LinkInv, SenderInv, IndInv, TypeOK
<1>2. PdusIn(chan) \in Seq(Pdu) /\ Items(PdusIn(chan)) = InChan \cap Pdu
  BY <1>1, PdusInFacts DEF InChan, ItemsOf
<1>3. Waiting \in Seq(Pdu) /\ Items(Waiting) = Items(pduQ[Peer]) \cup (InChan \cap Pdu)
  <2> DEFINE q == pduQ[Peer]
             c == PdusIn(chan)
  <2>1. q \in Seq(Pdu) /\ c \in Seq(Pdu) /\ Items(c) = InChan \cap Pdu /\ Waiting = q \o c
    BY <1>1, <1>2 DEF Waiting
  <2> HIDE DEF q, c
  <2>2. Waiting \in Seq(Pdu) /\ Items(Waiting) = Items(q) \cup Items(c)
    BY <2>1, ConcatItems
  <2> QED BY <2>1, <2>2 DEF q
<1>4. Items(pduQ[Peer]) \subseteq Pdu /\ Items(eduQ[Peer]) \cap Pdu = {}
  <2>1. Items(pduQ[Peer]) \subseteq Pdu /\ Items(eduQ[Peer]) \subseteq Edu
    BY <1>1 DEF Items
  <2> QED BY <2>1, KindsAssumption
<1>5. Items(Waiting) = Unsent \cap Pdu
  BY <1>3, <1>4 DEF Unsent, InQueue
<1>6. InTxn \cap Pdu = Sending
  <2>1. CASE pc \in {"send", "sleep"}
    <3>1. txn \in Transaction
      BY <2>1 DEF LinkInv, SenderInv, IndInv, SendingDue
    <3>2. Items(txn.pdus) \subseteq Pdu /\ Items(txn.edus) \subseteq Edu
      BY <3>1 DEF Transaction, Items
    <3> QED BY <2>1, <3>2, KindsAssumption DEF InTxn, Sending
  <2>2. CASE pc \notin {"send", "sleep"}
    BY <2>2 DEF InTxn, Sending
  <2> QED BY <2>1, <2>2
<1>7. InSystem \cap Pdu = Items(Waiting) \cup Sending
  BY <1>5, <1>6, SystemFacts
<1>8. PdusOf(Made) = Sending \cup PdusOf(acked) \cup PdusOf(givenUp)
  BY DEF PdusOf, Made, Sending
<1>9. PdusOf(Made) \subseteq Pdu
  <2>1. ASSUME NEW t \in Transaction PROVE Items(t.pdus) \subseteq Pdu
    BY DEF Transaction, Items
  <2>2. Made \subseteq Transaction
    BY DEF LinkInv, SenderInv, OrderInv, HistoryTypeOK, IndInv, SendingDue, Made
  <2> QED BY <2>1, <2>2 DEF PdusOf
<1> QED BY <1>1, <1>2, <1>3, <1>5, <1>7, <1>8, <1>9

(* A sender with nothing queued for the peer. *)
NoneWaits == Waiting = << >>

LEMMA EmptyWaiting == Init => NoneWaits
<1>1. PduPlaces(<< >>) = {}
  BY DEF PduPlaces
<1>2. PdusIn(<< >>) = << >>
  <2>1. << >> \in Seq(Event)
    BY EmptySeq
  <2>2. PdusIn(<< >>) \in Seq(Pdu) /\ Len(PdusIn(<< >>)) = 0
    BY <1>1, <2>1, PdusInFacts, FS_EmptySet
  <2> QED BY <2>2, EmptySeq
<1>3. Init => chan = << >> /\ pduQ[Peer] = << >>
  BY LinkAssumption DEF Init
<1> QED BY <1>2, <1>3 DEF NoneWaits, Waiting

(* A step of PduDelivery, or none. *)
DeliveryStep == [Delivery!Next]_(Delivery!deliveryVars)

(* PduDelivery's name for the elements of a sequence. *)
LEMMA ListedIsItems == \A s : Delivery!Listed(s) = Items(s)
BY DEF Delivery!Listed, Items

(* Queueing a PDU is Queue; an EDU does not show. *)
LEMMA QueueItemDelivers ==
    ASSUME LinkInv, NEW i \in Pdu \cup Edu, QueueItem(i)
    PROVE  DeliveryStep
<1> DEFINE e == [dest |-> Peer, item |-> i]
<1>1. /\ chan' = Append(chan, e) /\ e \in Event /\ e.item = i /\ i \notin Items(order)
      /\ UNCHANGED <<pduQ, pc, txn, acked, givenUp, lost, events, refused>>
  BY LinkAssumption DEF QueueItem, Produce, queueVars, sendVars, Event, peerVars
<1> HIDE DEF e
<1>2. UNCHANGED <<Sending, PdusOf(acked), PdusOf(givenUp) \cup lost, events, refused>>
  BY <1>1 DEF Sending, PdusOf
<1>3. chan \in Seq(Event)
  BY DEF LinkInv, SenderInv, IndInv, TypeOK
<1>4. CASE i \in Pdu
  <2>1. Waiting' = Append(Waiting, i)
    <3> DEFINE q == pduQ[Peer]
               c == PdusIn(chan)
    <3>1. PdusIn(chan') = Append(c, i)
      BY <1>1, <1>3, <1>4, PdusInAppend
    <3>2. Waiting' = q \o PdusIn(chan') /\ Waiting = q \o c
      BY <1>1 DEF Waiting
    <3>3. q \in Seq(Pdu) /\ c \in Seq(Pdu)
      BY MappedFacts
    <3> HIDE DEF q, c
    <3> QED BY <3>1, <3>2, <3>3, <1>4, ConcatFacts
  <2>2. i \notin Items(Waiting) \cup Sending \cup PdusOf(acked) \cup PdusOf(givenUp) \cup lost
    <3>1. i \notin InSystem /\ i \notin lost /\ i \notin PdusOf(Made)
      BY <1>1 DEF LinkInv, SenderInv, OrderInv, OrderExact, PdusOf
    <3> QED BY <3>1, <1>4, MappedFacts
  <2>3. Delivery!Queue(i)
    BY <2>1, <2>2, <1>2, ListedIsItems DEF Delivery!Queue, Delivery!Sent
  <2> QED BY <2>3, <1>4 DEF DeliveryStep, Delivery!Next
<1>5. CASE i \notin Pdu
  <2>1. PdusIn(chan') = PdusIn(chan)
    BY <1>1, <1>3, <1>5, PdusInAppend
  <2>2. Waiting' = Waiting
    BY <2>1, <1>1 DEF Waiting
  <2> QED BY <2>2, <1>2 DEF DeliveryStep, Delivery!deliveryVars
<1> QED BY <1>4, <1>5

(* A PDU that moves from the channel to its queue keeps its place. *)
LEMMA LocalDelivers ==
    ASSUME LinkInv, SenderLocal
    PROVE  UNCHANGED Delivery!deliveryVars
<1>1. UNCHANGED <<acked, givenUp, lost, events, refused>>
  BY DEF SenderLocal, history, peerVars
<1>2. /\ Peer \in Dest /\ chan \in Seq(Event) /\ pduQ \in [Dest -> Seq(Pdu)]
  BY LinkAssumption DEF LinkInv, SenderInv, IndInv, TypeOK
<1>3. pc \in {"select", "flush"} /\ pc' \in {"select", "flush"}
  BY DEF SenderLocal, QueuePdu, QueueEdu, AfterQueueing, Tick, TimerFires, FlushDone, SkipFlush
<1>4. Sending' = Sending
  BY <1>3 DEF Sending
<1>5. Waiting' = Waiting
  <2>1. CASE QueuePdu
    <3>1. /\ chan # << >> /\ chan' = Tail(chan) /\ Head(chan).item \in Pdu
          /\ pduQ' = [pduQ EXCEPT ![Head(chan).dest] =
                          Append(pduQ[Head(chan).dest], Head(chan).item)]
      BY <2>1 DEF QueuePdu
    <3>2. Head(chan).dest = Peer
      <4>1. Head(chan) \in Event
        BY <3>1, <1>2, HeadTailProperties
      <4> QED BY <4>1, LinkAssumption DEF Event
    <3>3. pduQ'[Peer] = Append(pduQ[Peer], Head(chan).item)
      BY <3>1, <3>2, <1>2
    <3>4. /\ PdusIn(chan) # << >> /\ Head(PdusIn(chan)) = Head(chan).item
          /\ PdusIn(chan') = Tail(PdusIn(chan))
      BY <3>1, <1>2, PdusInTail
    <3>5. Waiting' = pduQ'[Peer] \o PdusIn(chan')
      BY DEF Waiting
    <3> QED BY <3>3, <3>4, <3>5, MappedFacts, ConcatFacts DEF Waiting
  <2>2. CASE QueueEdu
    <3>1. chan # << >> /\ chan' = Tail(chan) /\ Head(chan).item \in Edu /\ pduQ' = pduQ
      BY <2>2 DEF QueueEdu
    <3>2. Head(chan).item \notin Pdu
      BY <3>1, KindsAssumption
    <3>3. PdusIn(chan') = PdusIn(chan)
      BY <3>1, <3>2, <1>2, PdusInTail
    <3> QED BY <3>1, <3>3 DEF Waiting
  <2>3. CASE Tick \/ TimerFires \/ FlushDone \/ SkipFlush(Peer)
    BY <2>3 DEF Tick, TimerFires, FlushDone, SkipFlush, queueVars, Waiting
  <2> QED BY <2>1, <2>2, <2>3 DEF SenderLocal
<1> QED BY <1>1, <1>4, <1>5 DEF Delivery!deliveryVars, PdusOf

(* A new transaction is a batch of the oldest waiting PDUs. *)
LEMMA SendFirstDelivers ==
    ASSUME LinkInv, NEW u \in TxnId, SendFirst(u)
    PROVE  DeliveryStep
<1>1. UNCHANGED <<acked, givenUp, lost, events, refused>> /\ StartTxn(Peer, u)
  BY DEF SendFirst, history, peerVars
<1>2. UNCHANGED <<PdusOf(acked), PdusOf(givenUp) \cup lost, events, refused>>
  BY <1>1 DEF PdusOf
<1>3. Peer \in Dest /\ IndInv
  BY LinkAssumption DEF LinkInv, SenderInv
<1>4. /\ pc = "flush" /\ pc' = "send" /\ chan' = chan /\ pduQ'[Peer] = << >>
      /\ Items(txn'.pdus) = Items(pduQ[Peer])
  BY <1>1, <1>3, StartTxnFacts
<1> DEFINE q == pduQ[Peer]
           c == PdusIn(chan)
<1>5. q \in Seq(Pdu) /\ c \in Seq(Pdu) /\ Waiting = q \o c
  BY MappedFacts DEF Waiting
<1>6. Waiting' = c
  <2>1. Waiting' = << >> \o c
    BY <1>4 DEF Waiting
  <2> QED BY <2>1, <1>5, ConcatEmptySeq
<1>7. Sending = {} /\ Sending' = Items(q)
  BY <1>4 DEF Sending
<1>8. Len(q) \in Nat /\ Len(q) <= MaxPdus /\ MaxPdus \in Nat
  BY <1>3, <1>5, LimitsAssumption DEF IndInv, BelowLimit
<1> HIDE DEF q, c
<1>9. CASE q = << >>
  <2>1. Waiting' = Waiting
    BY <1>5, <1>6, <1>9, ConcatEmptySeq
  <2>2. Sending' = Sending
    BY <1>7, <1>9 DEF Items
  <2> QED BY <2>1, <2>2, <1>2 DEF DeliveryStep, Delivery!deliveryVars
<1>10. CASE q # << >>
  <2>1. Len(q) \in 1 .. MaxPdus /\ Len(q) \in 1 .. Len(Waiting)
    <3>1. Len(q) # 0 /\ Len(Waiting) = Len(q) + Len(c) /\ Len(c) \in Nat
      BY <1>5, <1>10, EmptySeq, ConcatFacts, LenProperties
    <3> QED BY <3>1, <1>8
  <2>2. SubSeq(Waiting, 1, Len(q)) = q /\ SubSeq(Waiting, Len(q) + 1, Len(Waiting)) = c
    BY <1>5, <1>10, ConcatFacts
  <2>3. Delivery!Send(Len(q))
    BY <2>1, <2>2, <1>2, <1>6, <1>7, ListedIsItems DEF Delivery!Send
  <2> QED BY <2>1, <2>3 DEF DeliveryStep, Delivery!Next
<1> QED BY <1>9, <1>10

(* The end of an attempt.  A 200 was for a transaction whose PDUs the peer *)
(* has dealt with.                                                         *)
LEMMA AttemptDelivers ==
    ASSUME LinkInv, SendAgain \/ ReadFailure \/ SigningFails \/ GetsNoAnswer \/ ReadOk
    PROVE  DeliveryStep
<1>1. pc \in {"send", "sleep"} /\ UNCHANGED <<chan, pduQ, txn, lost, events, refused>>
  BY DEF SendAgain, ReadFailure, SigningFails, GetsNoAnswer, ReadOk, Wake, AttemptOk,
         AttemptFatal, AttemptRetryable, AttemptExhausted, FinishTxn, queueVars, history,
         peerVars
<1>2. Waiting' = Waiting /\ Sending = Items(txn.pdus)
  BY <1>1 DEF Waiting, Sending
<1>3. CASE UNCHANGED <<acked, givenUp>> /\ pc' \in {"send", "sleep"}
  <2>1. Sending' = Sending
    BY <1>1, <1>3 DEF Sending
  <2> QED BY <2>1, <1>1, <1>2, <1>3 DEF DeliveryStep, Delivery!deliveryVars, PdusOf
<1>4. CASE pc' = "flush" /\ acked' = acked /\ givenUp' = givenUp \cup {txn}
  <2>1. Sending' = {} /\ PdusOf(acked)' = PdusOf(acked)
    BY <1>4 DEF Sending, PdusOf
  <2>2. (PdusOf(givenUp) \cup lost)' = (PdusOf(givenUp) \cup lost) \cup Sending
    BY <1>1, <1>2, <1>4 DEF PdusOf
  <2>3. CASE Sending = {}
    BY <2>1, <2>2, <2>3, <1>1, <1>2 DEF DeliveryStep, Delivery!deliveryVars
  <2>4. CASE Sending # {}
    <3>1. Delivery!Drop
      BY <2>1, <2>2, <2>4, <1>1, <1>2 DEF Delivery!Drop
    <3> QED BY <3>1 DEF DeliveryStep, Delivery!Next
  <2> QED BY <2>3, <2>4
<1>5. CASE ReadOk
  <2>1. pc' = "flush" /\ givenUp' = givenUp /\ acked' = acked \cup {txn}
    BY <1>5 DEF ReadOk, AttemptOk, FinishTxn
  <2>2. Sending' = {} /\ (PdusOf(givenUp) \cup lost)' = PdusOf(givenUp) \cup lost
    BY <2>1, <1>1 DEF Sending, PdusOf
  <2>3. PdusOf(acked)' = PdusOf(acked) \cup Sending
    BY <2>1, <1>2 DEF PdusOf
  <2>4. Sending \subseteq events \cup refused
    BY <1>2, <1>5, OkMeansDealt DEF Dealt
  <2>5. CASE Sending = {}
    BY <2>2, <2>3, <2>5, <1>1, <1>2 DEF DeliveryStep, Delivery!deliveryVars
  <2>6. CASE Sending # {}
    <3>1. Delivery!Acknowledge
      BY <2>2, <2>3, <2>4, <2>6, <1>1, <1>2 DEF Delivery!Acknowledge
    <3> QED BY <3>1 DEF DeliveryStep, Delivery!Next
  <2> QED BY <2>5, <2>6
<1>6. CASE SendAgain
  <2>1. UNCHANGED <<acked, givenUp>> /\ pc' \in {"send", "sleep"}
    BY <1>6 DEF SendAgain, Wake, history
  <2> QED BY <2>1, <1>3
<1>7. CASE ReadFailure \/ SigningFails
  <2>1. pc' = "flush" /\ acked' = acked /\ givenUp' = givenUp \cup {txn}
    BY <1>7 DEF ReadFailure, SigningFails, AttemptFatal, FinishTxn
  <2> QED BY <2>1, <1>4
<1>8. CASE GetsNoAnswer
  <2>1. \/ UNCHANGED <<acked, givenUp>> /\ pc' \in {"send", "sleep"}
        \/ pc' = "flush" /\ acked' = acked /\ givenUp' = givenUp \cup {txn}
    BY <1>8 DEF GetsNoAnswer, AttemptRetryable, AttemptExhausted, FinishTxn
  <2> QED BY <2>1, <1>3, <1>4
<1> QED BY <1>5, <1>6, <1>7, <1>8

(* A restart of the sender is Lose. *)
LEMMA SenderRestartDelivers ==
    ASSUME LinkInv, SenderRestart
    PROVE  DeliveryStep
<1>1. /\ pc' = "select"
      /\ lost' = lost \cup (InSystem \cap Pdu)
      /\ givenUp' = IF pc \in {"send", "sleep"} THEN givenUp \cup {txn} ELSE givenUp
      /\ UNCHANGED <<acked, events, refused>>
  BY DEF SenderRestart, peerVars
<1>2. Sending' = {} /\ PdusOf(acked)' = PdusOf(acked)
  BY <1>1 DEF Sending, PdusOf
<1>3. Waiting' = << >>
  <2>1. Init'
    BY DEF SenderRestart, Init
  <2>2. NoneWaits'
    BY <2>1, EmptyWaiting, PTL
  <2> QED BY <2>2 DEF NoneWaits
<1>4. (PdusOf(givenUp) \cup lost)' =
         (PdusOf(givenUp) \cup lost) \cup Sending \cup Items(Waiting)
  <2>1. lost' = lost \cup (Items(Waiting) \cup Sending)
    BY <1>1, MappedFacts
  <2>2. CASE pc \in {"send", "sleep"}
    <3>1. PdusOf(givenUp)' = PdusOf(givenUp) \cup Sending
      BY <2>2, <1>1 DEF PdusOf, Sending
    <3> QED BY <2>1, <3>1
  <2>3. CASE pc \notin {"send", "sleep"}
    <3>1. PdusOf(givenUp)' = PdusOf(givenUp)
      BY <2>3, <1>1 DEF PdusOf
    <3> QED BY <2>1, <3>1
  <2> QED BY <2>2, <2>3
<1>5. Delivery!Lose
  BY <1>1, <1>2, <1>3, <1>4, ListedIsItems DEF Delivery!Lose
<1> QED BY <1>5 DEF DeliveryStep, Delivery!Next

(* The peer's steps leave the sender's PDUs where they are. *)
LEMMA PeerOnlyDelivers ==
    ASSUME UNCHANGED <<vars, acked, givenUp, lost>>
    PROVE  UNCHANGED <<Waiting, Sending, PdusOf(acked), PdusOf(givenUp) \cup lost>>
BY DEF vars, Waiting, Sending, PdusOf

(* The PDU an activation settles is taken in for the first time or refused. *)
LEMMA PduDelivers ==
    ASSUME LinkInv, NEW h \in handlers, PeerHandles(h), SettlesPdu(h)
    PROVE  DeliveryStep
<1> DEFINE p == R!ThisPdu(h)
<1>1. /\ p \in PdusOf(Made)
      /\ \/ events' = events /\ refused' \in {refused, refused \cup {p}}
         \/ p \notin events /\ events' = events \cup {p} /\ refused' = refused
  BY PduLink
<1>2. UNCHANGED <<vars, acked, givenUp, lost>>
  BY DEF PeerHandles
<1>3. UNCHANGED <<Waiting, Sending, PdusOf(acked), PdusOf(givenUp) \cup lost>>
  BY <1>2, PeerOnlyDelivers
<1>4. p \in Pdu /\ p \in Delivery!Sent
  BY <1>1, MappedFacts DEF Delivery!Sent
<1> HIDE DEF p
<1>5. CASE events' = events /\ refused' = refused
  BY <1>3, <1>5 DEF DeliveryStep, Delivery!deliveryVars
<1>6. CASE events' = events /\ refused' = refused \cup {p}
  <2>1. Delivery!Refuse(p)
    BY <1>3, <1>4, <1>6 DEF Delivery!Refuse
  <2> QED BY <2>1, <1>4 DEF DeliveryStep, Delivery!Next
<1>7. CASE p \notin events /\ events' = events \cup {p} /\ refused' = refused
  <2>1. Delivery!TakeIn(p)
    BY <1>3, <1>4, <1>7 DEF Delivery!TakeIn
  <2> QED BY <2>1, <1>4 DEF DeliveryStep, Delivery!Next
<1> QED BY <1>1, <1>5, <1>6, <1>7

(* Steps that deliver nothing. *)
LEMMA NothingDelivers ==
    ASSUME UNCHANGED <<vars, acked, givenUp, lost, events, refused>>
    PROVE  DeliveryStep
BY PeerOnlyDelivers DEF DeliveryStep, Delivery!deliveryVars

(* Every step of the link is one of PduDelivery, or none. *)
LEMMA NextDelivers == LinkInv /\ [LinkNext]_linkVars => DeliveryStep
<1> SUFFICES ASSUME LinkInv, [LinkNext]_linkVars PROVE DeliveryStep
  OBVIOUS
<1>1. ASSUME NEW i \in Pdu \cup Edu, QueueItem(i) PROVE DeliveryStep
  BY <1>1, QueueItemDelivers
<1>2. CASE SenderStep
  <2>1. CASE SenderLocal
    BY <2>1, LocalDelivers DEF DeliveryStep
  <2> QED BY <1>2, <2>1, SendFirstDelivers, AttemptDelivers DEF SenderStep
<1>3. ASSUME NEW m \in wire, RequestArrives(m) PROVE DeliveryStep
  <2>1. UNCHANGED <<vars, acked, givenUp, lost, events, refused>>
    BY <1>3 DEF RequestArrives, history, R!ArriveCached, R!ArriveNew
  <2> QED BY <2>1, NothingDelivers
<1>4. ASSUME NEW h \in handlers, PeerHandles(h) PROVE DeliveryStep
  <2>1. SettlesPdu(h) \/ SettlesNone(h)
    BY <1>4 DEF PeerHandles, SettlesPdu, SettlesNone
  <2> QED BY <1>4, <2>1, PduDelivers, QuietLink, NothingDelivers
<1>5. CASE SenderRestart
  BY <1>5, SenderRestartDelivers
<1>6. CASE PeerRestart
  <2>1. UNCHANGED <<vars, acked, givenUp, lost, events, refused>>
    BY <1>6 DEF PeerRestart, history, R!ReceiverRestart, R!tables
  <2> QED BY <2>1, NothingDelivers
<1>7. CASE UNCHANGED linkVars
  BY <1>7, NothingDelivers DEF linkVars, peerVars, history
<1> QED BY <1>1, <1>2, <1>3, <1>4, <1>5, <1>6, <1>7 DEF LinkNext

LEMMA InitDelivers == LinkInit => Delivery!Init
<1> SUFFICES ASSUME LinkInit PROVE Delivery!Init
  OBVIOUS
<1>1. /\ Init /\ pc = "select"
      /\ acked = {} /\ givenUp = {} /\ lost = {} /\ refused = {} /\ events = {}
  BY DEF LinkInit, Init, R!InboundInit
<1>2. Waiting = << >>
  BY <1>1, EmptyWaiting DEF NoneWaits
<1> QED BY <1>1, <1>2 DEF Delivery!Init, Sending, PdusOf

(* The link delivers PDUs as PduDelivery describes, whatever is lost,      *)
(* repeated, late or restarted: ImplementsDelivery.                        *)
THEOREM LinkImplementsDelivery == LinkSpec => ImplementsDelivery
<1>1. LinkInv /\ [LinkNext]_linkVars => [Delivery!Next]_(Delivery!deliveryVars)
  BY NextDelivers DEF DeliveryStep
<1> QED BY <1>1, InitDelivers, LinkInvariance, PTL
        DEF LinkSpec, ImplementsDelivery, Delivery!Spec
=============================================================================
