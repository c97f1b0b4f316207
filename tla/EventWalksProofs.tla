-------------------------- MODULE EventWalksProofs --------------------------
(***************************************************************************)
(* Proofs about EventWalks: whatever graph, requests and storing of events *)
(* in between, a result contains only what was asked for, and a result     *)
(* that was not cut leaves out nothing that was stored when its walk       *)
(* began.                                                                  *)
(*                                                                         *)
(* The argument is that of a search in a growing graph.  Everything met    *)
(* hangs together with the starts (Hangs); everything met that was stored  *)
(* before is in the result or still to be read (Kept); and what an event   *)
(* lists that is no longer to be read has been met (Followed).  When       *)
(* nothing is left to read, the last two say that the result is complete.  *)
(***************************************************************************)
EXTENDS EventWalks, FiniteSetTheorems, TLAPS

(* What the phase of a handler says about its request and its walk. *)
Stage ==
    /\ phase = "idle" => req = NoRequest /\ found = {} /\ count = 0
                         /\ visited = {} /\ todo = {} /\ queue = {}
    /\ phase # "idle" => req \in Request /\ req.starts \subseteq before
    /\ req.kind # "missing" => req.earliest = {}
    /\ phase = "seed" => /\ req.kind \in {"missing", "state_ids"}
                         /\ visited = IF req.kind = "missing" THEN req.starts ELSE {}
                         /\ found = {} /\ count = 0 /\ todo = {} /\ queue = {}
    /\ phase = "gather" => req.kind \in {"state", "send_join"}
    /\ req.kind = "send_join" => phase \in {"gather", "done"}
    /\ req.kind = "event_auth" => todo = {}
    /\ req.kind # "event_auth" => queue = {}
    /\ (phase \in {"walk", "gather"} /\ req.kind \in Chains) => found = {} /\ count = 0
    /\ (phase \in {"gather", "done"} /\ HasSpace) => todo = {} /\ queue = {}

(* What is to be read is not in the result, and may be put there. *)
Ahead ==
    /\ req.kind \in Limited => found \cap todo = {}
    /\ req.kind = "missing" => /\ req.starts \subseteq visited
                               /\ todo \cap (req.starts \cup req.earliest) = {}

Connected(e) ==
    \/ req.kind = "backfill" /\ e \in req.starts
    \/ \E p \in found \cup req.starts : e \in links[p]

(* Everything met hangs together with the starts. *)
Hangs ==
    /\ (req.kind \in Limited /\ HasSpace) => \A e \in todo : Connected(e)
    /\ \A p, e \in Id : <<p, e>> \in queue => p \in found \cup req.starts /\ e \in links[p]
    /\ req.kind \in Chains \cup {"send_join"} =>
          \A e \in visited : \E p \in (visited \cap stored) \cup req.starts : e \in links[p]

(* The walks that are complete, once they have their first ids. *)
Complete == phase \in {"walk", "gather", "done"} /\ HasSpace /\ req.kind # "send_join"

(* What was met and stored before is in the result or to be read.  The     *)
(* auth chains put everything into the result at their end.                *)
Kept ==
    (Complete /\ (req.kind \in Chains => phase = "done")) =>
        \A e \in visited \cap before : Wanted(e) => e \in found \cup todo

(* What an event lists that has been read has been met. *)
Followed ==
    Complete =>
        \A p \in ((req.starts \cup visited) \cap before) \ todo :
            Selected(p) => \A e \in links[p] :
                               \/ e \in visited \cup req.earliest
                               \/ <<p, e>> \in queue

WalkInv ==
    /\ WalkTypeOK
    /\ AnsweredWasAsked
    /\ Stage
    /\ Ahead
    /\ Hangs
    /\ Kept
    /\ Followed

-----------------------------------------------------------------------------
(* Facts about the operators.                                              *)

(* The listed ids are ids. *)
LEMMA LinksType ==
  ASSUME links \in Graphs
  PROVE  /\ \A e \in Id : links[e] \subseteq Id
         /\ \A S \in SUBSET Id : Links(S) \subseteq Id
BY WalkAssumption DEF Links

(* Sets of ids are finite. *)
LEMMA IdsFinite ==
  ASSUME NEW S \in SUBSET Id
  PROVE  IsFiniteSet(S) /\ Cardinality(S) \in Nat
BY WalkAssumption, FS_Subset, FS_CardinalityType

(* The parts of a request. *)
LEMMA RequestType ==
  ASSUME NEW r \in Request
  PROVE  /\ r.limit \in Nat /\ r.kind \in Kind
         /\ r.starts \subseteq Id /\ r.earliest \subseteq Id
<1>1. /\ r.limit \in Limits \cup {0} /\ r.kind \in Kind
      /\ r.starts \in SUBSET Id /\ r.earliest \in SUBSET Id
  BY DEF Request
<1>2. Limits \cup {0} \subseteq Nat
  BY WalkAssumption
<1> QED
  BY <1>1, <1>2

(* What a request says about an event does not change during its walk. *)
LEMMA SameRequest ==
  ASSUME UNCHANGED <<dagVars, req>>
  PROVE  /\ \A e : Selected(e)' <=> Selected(e)
         /\ \A e : Wanted(e)' <=> Wanted(e)
BY DEF dagVars, Selected, Wanted

(* The first rows are all of them when there is space for more. *)
LEMMA FirstOfAll ==
  ASSUME NEW rows \in SUBSET Id, NEW n \in Nat, NEW taken, FirstOf(rows, n, taken)
  PROVE  /\ taken \subseteq rows
         /\ Cardinality(taken) \in Nat /\ Cardinality(taken) <= n
         /\ Cardinality(taken) < n => taken = rows
<1>1. taken \subseteq rows /\ taken \in SUBSET Id
  BY DEF FirstOf
<1>2. IsFiniteSet(rows) /\ Cardinality(rows) \in Nat /\ Cardinality(taken) \in Nat
  BY <1>1, IdsFinite
<1>3. Cardinality(taken) = Cardinality(rows) => taken = rows
  BY <1>1, <1>2, FS_Subset
<1> QED
  BY <1>1, <1>2, <1>3 DEF FirstOf

(* A batch that was not in the result adds to its length what it has. *)
LEMMA CountOfUnion ==
  ASSUME NEW S \in SUBSET Id, NEW T \in SUBSET Id, S \cap T = {}
  PROVE  Cardinality(S \cup T) = Cardinality(S) + Cardinality(T)
<1>1. IsFiniteSet(S) /\ IsFiniteSet(T) /\ Cardinality(S) \in Nat /\ Cardinality(T) \in Nat
  BY IdsFinite
<1>2. Cardinality(S \cap T) = 0
  BY FS_EmptySet
<1>3. Cardinality(S \cup T) = Cardinality(S) + Cardinality(T) - Cardinality(S \cap T)
  BY <1>1, FS_Union
<1> QED
  BY <1>1, <1>2, <1>3

-----------------------------------------------------------------------------
(* The steps.                                                              *)

(* One batch of get_missing_events or backfill: rows F are followed, of    *)
(* which taken go to the result.                                           *)
LEMMA BatchStep ==
  ASSUME WalkInv, phase = "walk", req.kind \in Limited, HasSpace,
         NEW taken, NEW F, taken \subseteq F, F \subseteq Rows(todo),
         FirstOf(Rows(todo), req.limit - count, taken),
         Follow(F),
         found' = found \cup taken,
         count' = count + Cardinality(taken),
         UNCHANGED <<dagVars, stored, before, req, phase, queue>>
  PROVE  WalkInv'
<1> DEFINE new == Links(F) \ (visited \cup req.earliest)
<1>1. visited' = visited \cup new /\ todo' = new
  BY DEF Follow
<1>2. /\ links' = links /\ depth' = depth /\ inRoom' = inRoom /\ stored' = stored
      /\ before' = before /\ req' = req /\ phase' = phase /\ queue' = queue
  BY DEF dagVars
<1>3. /\ F \subseteq todo /\ F \subseteq stored /\ todo \subseteq visited /\ visited \subseteq Id
      /\ found \subseteq visited /\ \A e \in F : Selected(e)
  BY DEF Rows, WalkInv, WalkTypeOK
<1>4. new \subseteq Id /\ new \cap visited = {} /\ new \cap req.earliest = {}
  BY <1>3, LinksType DEF WalkInv, WalkTypeOK
<1>5. /\ req \in Request /\ req.limit \in Nat /\ count \in Nat /\ count < req.limit
      /\ req.starts \subseteq before
  <2>1. req \in Request /\ req.starts \subseteq before /\ count \in Nat
    BY DEF WalkInv, Stage, WalkTypeOK
  <2>2. req.limit \in Nat
    BY <2>1, RequestType
  <2>3. count < req.limit
    BY DEF HasSpace
  <2> QED
    BY <2>1, <2>2, <2>3
<1>6. /\ Cardinality(taken) \in Nat /\ Cardinality(taken) <= req.limit - count
      /\ Cardinality(taken) < req.limit - count => taken = Rows(todo)
  <2>1. Rows(todo) \in SUBSET Id /\ req.limit - count \in Nat
    BY <1>3, <1>5 DEF Rows
  <2> DEFINE rows == Rows(todo)
             n == req.limit - count
  <2>2. FirstOf(rows, n, taken) /\ rows \in SUBSET Id /\ n \in Nat
    BY <2>1
  <2> HIDE DEF rows, n
  <2>3. /\ Cardinality(taken) \in Nat /\ Cardinality(taken) <= n
        /\ Cardinality(taken) < n => taken = rows
    BY <2>2, FirstOfAll
  <2> QED
    BY <2>3 DEF rows, n
<1>7. HasSpace' => taken = Rows(todo) /\ F = taken
  <2> SUFFICES ASSUME count' < req.limit PROVE taken = Rows(todo) /\ F = taken
    BY <1>2 DEF HasSpace
  <2>1. Cardinality(taken) < req.limit - count
    BY <1>5, <1>6
  <2> QED
    BY <2>1, <1>6
<1>8. found \cap taken = {}
  BY <1>3 DEF WalkInv, Ahead
<1>9. count' = Cardinality(found')
  <2>1. count = Cardinality(found)
    BY DEF WalkInv, AnsweredWasAsked
  <2> QED
    BY <2>1, <1>3, <1>8, CountOfUnion
<1>10. WalkTypeOK'
  BY <1>1, <1>2, <1>3, <1>4, <1>5, <1>6 DEF WalkInv, WalkTypeOK
<1>11. /\ \A e : Selected(e)' <=> Selected(e)
       /\ \A e : Wanted(e)' <=> Wanted(e)
  BY SameRequest
<1> HIDE DEF new
<1>12. AnsweredWasAsked'
  <2>1. count' <= req'.limit
    BY <1>2, <1>5, <1>6
  <2>2. ASSUME NEW e \in found'
        PROVE  Wanted(e)' /\ Connected(e)'
    <3>1. CASE e \in found
      BY <3>1, <1>2, <1>11 DEF WalkInv, AnsweredWasAsked, Connected
    <3>2. CASE e \in taken
      <4>1. e \in todo /\ Selected(e)
        BY <3>2, <1>3
      <4>2. Wanted(e) /\ Connected(e)
        BY <4>1 DEF WalkInv, Ahead, Hangs, Wanted
      <4> QED
        BY <4>2, <1>2, <1>11 DEF Connected
    <3> QED
      BY <3>1, <3>2
  <2> QED
    BY <2>1, <2>2, <1>9 DEF AnsweredWasAsked, Connected
<1>13. Stage'
  BY <1>1, <1>2 DEF WalkInv, Stage, Limited, Chains
<1>14. Ahead'
  BY <1>1, <1>2, <1>3, <1>4 DEF WalkInv, Ahead
<1>15. Hangs'
  <2>1. ASSUME HasSpace', NEW e \in new PROVE Connected(e)'
    <3>1. PICK p \in F : e \in links[p]
      BY DEF new, Links
    <3> QED
      BY <3>1, <2>1, <1>2, <1>7 DEF Connected
  <2>2. req.kind \notin Chains \cup {"send_join"}
    BY DEF Limited, Chains
  <2> QED
    BY <2>1, <2>2, <1>1, <1>2 DEF WalkInv, Hangs
<1>16. Kept'
  <2> SUFFICES ASSUME HasSpace', NEW e \in visited' \cap before', Wanted(e)'
               PROVE  e \in found' \cup todo'
    BY DEF Kept, Complete
  <2>1. CASE e \in new
    BY <2>1, <1>1
  <2>2. CASE e \in visited
    <3>1. e \in before /\ Wanted(e) /\ Selected(e)
      BY <1>2, <1>11 DEF Wanted
    <3>2. e \in found \cup todo
      BY <2>2, <3>1 DEF WalkInv, Kept, Complete, Limited, Chains
    <3>3. e \in todo => e \in Rows(todo)
      BY <3>1 DEF Rows, WalkInv, WalkTypeOK
    <3> QED
      BY <3>2, <3>3, <1>7
  <2> QED
    BY <2>1, <2>2, <1>1
<1>17. Followed'
  <2> SUFFICES ASSUME HasSpace', NEW p \in ((req.starts \cup visited') \cap before) \ new,
                      Selected(p), NEW e \in links[p], e \notin req.earliest
               PROVE  e \in visited' \/ <<p, e>> \in queue'
    BY <1>1, <1>2, <1>11 DEF Followed, Complete
  <2>1. p \in req.starts \cup visited /\ p \in before
    BY <1>1
  <2>2. CASE p \notin todo
    BY <2>1, <2>2, <1>1, <1>2 DEF WalkInv, Followed, Complete, Limited
  <2>3. CASE p \in todo
    <3>1. p \in F
      BY <2>1, <2>3, <1>7 DEF Rows, WalkInv, WalkTypeOK
    <3>2. e \in Links(F)
      BY <3>1 DEF Links
    <3> QED
      BY <3>2, <1>1 DEF new
  <2> QED
    BY <2>2, <2>3
<1> QED
  BY <1>10, <1>12, <1>13, <1>14, <1>15, <1>16, <1>17 DEF WalkInv

LEMMA MissingBatchStep ==
  ASSUME WalkInv, NEW taken, MissingBatch(taken)
  PROVE  WalkInv'
<1>1. taken \subseteq Rows(todo)
  BY DEF MissingBatch, FirstOf
<1>2. req.kind \in Limited
  BY DEF MissingBatch, Limited
<1> QED
  BY <1>1, <1>2, BatchStep DEF MissingBatch

LEMMA BackfillBatchStep ==
  ASSUME WalkInv, NEW taken, BackfillBatch(taken)
  PROVE  WalkInv'
<1>1. taken \subseteq Rows(todo)
  BY DEF BackfillBatch, FirstOf
<1>2. req.kind \in Limited
  BY DEF BackfillBatch, Limited
<1> QED
  BY <1>1, <1>2, BatchStep DEF BackfillBatch

(* The first ids of get_missing_events and state_ids. *)
LEMMA SeedStep ==
  ASSUME WalkInv, Seed
  PROVE  WalkInv'
<1> DEFINE F == Rows(req.starts)
           new == Links(F) \ (visited \cup req.earliest)
<1>1. visited' = visited \cup new /\ todo' = new
  BY DEF Seed, Follow
<1>2. /\ links' = links /\ depth' = depth /\ inRoom' = inRoom /\ stored' = stored
      /\ before' = before /\ req' = req /\ phase' = "walk" /\ queue' = queue
      /\ found' = found /\ count' = count
  BY DEF Seed, dagVars
<1>3. /\ req \in Request /\ req.starts \subseteq before /\ before \subseteq stored
      /\ req.kind \in {"missing", "state_ids"}
      /\ visited = IF req.kind = "missing" THEN req.starts ELSE {}
      /\ found = {} /\ count = 0 /\ todo = {} /\ queue = {}
  BY DEF WalkInv, WalkTypeOK, Stage, Seed
<1>4. F \subseteq req.starts /\ F \subseteq stored /\ req.starts \subseteq Id
  BY <1>3, RequestType DEF Rows
<1>5. new \subseteq Id /\ new \cap visited = {} /\ new \cap req.earliest = {}
  BY <1>4, LinksType DEF WalkInv, WalkTypeOK
<1>6. \A e \in new : \E p \in F : e \in links[p]
  BY DEF Links
<1>7. \A p \in F : \A e \in links[p] : e \in visited' \cup req.earliest
  BY <1>1 DEF Links
<1>8. /\ \A e : Selected(e)' <=> Selected(e)
      /\ \A e : Wanted(e)' <=> Wanted(e)
  BY SameRequest DEF Seed
<1>9. \A p \in req.starts : Selected(p) => p \in F
  BY <1>3 DEF Rows
<1> HIDE DEF F, new
<1>10. WalkTypeOK'
  BY <1>1, <1>2, <1>3, <1>5 DEF WalkInv, WalkTypeOK
<1>11. AnsweredWasAsked'
  BY <1>2, <1>3 DEF WalkInv, AnsweredWasAsked
<1>12. Stage'
  BY <1>2, <1>3 DEF WalkInv, Stage, Chains
<1>13. Ahead'
  BY <1>1, <1>2, <1>3, <1>5 DEF Ahead
<1>14. Hangs'
  <2>1. \A e \in new : Connected(e)'
    BY <1>2, <1>4, <1>6 DEF Connected
  <2>2. req.kind \in Chains \cup {"send_join"} =>
          \A e \in visited' : \E p \in req.starts : e \in links[p]
    BY <1>1, <1>3, <1>4, <1>6 DEF Chains
  <2> QED
    BY <2>1, <2>2, <1>1, <1>2, <1>3 DEF Hangs
<1>15. Kept'
  <2> SUFFICES ASSUME req.kind \notin Chains, NEW e \in visited', Wanted(e)
               PROVE  e \in todo'
    BY <1>2, <1>8 DEF Kept
  <2> QED
    BY <1>1, <1>3 DEF Wanted, Chains
<1>16. Followed'
  <2> SUFFICES ASSUME NEW p \in (req.starts \cup visited') \ new, Selected(p)
               PROVE  \A e \in links[p] : e \in visited' \cup req.earliest
    BY <1>1, <1>2, <1>8 DEF Followed
  <2>1. p \in req.starts
    BY <1>1, <1>3
  <2> QED
    BY <2>1, <1>7, <1>9
<1> QED
  BY <1>10, <1>11, <1>12, <1>13, <1>14, <1>15, <1>16 DEF WalkInv

(* One batch of state or state_ids. *)
LEMMA ChainBatchStep ==
  ASSUME WalkInv, ChainBatch
  PROVE  WalkInv'
<1> DEFINE F == Rows(todo)
           new == Links(F) \ (visited \cup req.earliest)
<1>1. visited' = visited \cup new /\ todo' = new
  BY DEF ChainBatch, Follow
<1>2. /\ links' = links /\ depth' = depth /\ inRoom' = inRoom /\ stored' = stored
      /\ before' = before /\ req' = req /\ phase' = phase /\ queue' = queue
      /\ found' = found /\ count' = count
  BY DEF ChainBatch, dagVars
<1>3. /\ req \in Request /\ before \subseteq stored
      /\ phase = "walk" /\ req.kind \in {"state", "state_ids"}
      /\ found = {} /\ count = 0 /\ queue = {}
  BY DEF WalkInv, WalkTypeOK, Stage, ChainBatch, Chains
<1>4. F \subseteq visited \cap stored /\ visited \subseteq Id
  BY DEF Rows, WalkInv, WalkTypeOK
<1>5. new \subseteq Id /\ new \cap visited = {}
  BY <1>4, LinksType DEF WalkInv, WalkTypeOK
<1>6. \A e \in new : \E p \in F : e \in links[p]
  BY DEF Links
<1>7. \A p \in F : \A e \in links[p] : e \in visited' \cup req.earliest
  BY <1>1 DEF Links
<1>8. \A e : Selected(e)' <=> Selected(e)
  BY SameRequest DEF ChainBatch
<1>9. \A p \in todo \cap before : Selected(p) => p \in F
  BY <1>3 DEF Rows
<1> HIDE DEF F, new
<1>10. WalkTypeOK'
  BY <1>1, <1>2, <1>3, <1>5 DEF WalkInv, WalkTypeOK
<1>11. AnsweredWasAsked'
  BY <1>2, <1>3 DEF WalkInv, AnsweredWasAsked
<1>12. Stage'
  BY <1>2, <1>3 DEF WalkInv, Stage, Chains
<1>13. Ahead'
  BY <1>2, <1>3 DEF Ahead, Limited
<1>14. Hangs'
  <2>1. ASSUME NEW e \in visited'
        PROVE  \E p \in (visited' \cap stored) \cup req.starts : e \in links[p]
    <3>1. CASE e \in new
      BY <3>1, <1>1, <1>4, <1>6
    <3>2. CASE e \in visited
      BY <3>2, <1>1, <1>3 DEF WalkInv, Hangs, Chains
    <3> QED
      BY <3>1, <3>2, <1>1
  <2> QED
    BY <2>1, <1>2, <1>3 DEF Hangs, Limited
<1>15. Kept'
  BY <1>2, <1>3 DEF Kept, Chains
<1>16. Followed'
  <2> SUFFICES ASSUME NEW p \in ((req.starts \cup visited') \cap before) \ new, Selected(p)
               PROVE  \A e \in links[p] : e \in visited' \cup req.earliest
    BY <1>1, <1>2, <1>8 DEF Followed
  <2>1. CASE p \in todo
    BY <2>1, <1>7, <1>9
  <2>2. CASE p \notin todo
    <3>1. p \in ((req.starts \cup visited) \cap before) \ todo
      BY <2>2, <1>1
    <3>2. Complete
      BY <1>3 DEF Complete, HasSpace, Limited
    <3> QED
      BY <3>1, <3>2, <1>1, <1>3 DEF WalkInv, Followed
  <2> QED
    BY <2>1, <2>2
<1> QED
  BY <1>10, <1>11, <1>12, <1>13, <1>14, <1>15, <1>16 DEF WalkInv

(* One id of event_auth's queue. *)
LEMMA VisitStep ==
  ASSUME WalkInv, NEW p \in Id, NEW e \in Id, Visit(p, e)
  PROVE  WalkInv'
<1> DEFINE rows == IF e \in visited THEN {} ELSE Rows({e})
           more == {w \in Entries(rows) : w[2] \notin visited'}
<1>1. /\ visited' = visited \cup {e}
      /\ queue' = (queue \ {<<p, e>>}) \cup more
      /\ found' = found \cup rows
      /\ count' = count + Cardinality(rows)
      /\ <<p, e>> \in queue
  BY DEF Visit
<1>2. /\ links' = links /\ depth' = depth /\ inRoom' = inRoom /\ stored' = stored
      /\ before' = before /\ req' = req /\ phase' = phase /\ todo' = todo
  BY DEF Visit, dagVars
<1>3. /\ req \in Request /\ before \subseteq stored
      /\ phase = "walk" /\ req.kind = "event_auth" /\ todo = {}
  BY <1>1 DEF WalkInv, WalkTypeOK, Stage, Visit
<1>4. /\ rows \subseteq {e} /\ rows \cap visited = {} /\ rows \subseteq visited'
      /\ (e \notin visited /\ e \in before) => rows = {e}
  BY <1>1, <1>3 DEF Rows, Selected, Limited
<1>5. /\ more \subseteq Id \X Id
      /\ \A q, l \in Id : <<q, l>> \in more <=> q \in rows /\ l \in links[q] \ visited'
  BY <1>4 DEF Entries
<1>6. /\ \A x : Selected(x)' <=> Selected(x)
      /\ \A x : Wanted(x)' <=> Wanted(x)
  BY SameRequest DEF Visit
<1>7. count' = Cardinality(found') /\ count' \in Nat
  <2>1. count = Cardinality(found) /\ count \in Nat
    BY DEF WalkInv, WalkTypeOK, AnsweredWasAsked
  <2>2. found \in SUBSET Id /\ rows \in SUBSET Id /\ found \cap rows = {}
    BY <1>4 DEF WalkInv, WalkTypeOK
  <2> QED
    BY <2>1, <2>2, <1>1, CountOfUnion, IdsFinite
<1> HIDE DEF rows, more
<1>8. WalkTypeOK'
  BY <1>1, <1>2, <1>4, <1>5, <1>7 DEF WalkInv, WalkTypeOK
<1>9. AnsweredWasAsked'
  <2>1. ASSUME NEW x \in found' PROVE Wanted(x)' /\ Connected(x)'
    <3>1. CASE x \in found
      BY <3>1, <1>1, <1>2, <1>6 DEF WalkInv, AnsweredWasAsked, Connected
    <3>2. CASE x \in rows
      <4>1. x = e /\ Wanted(x)
        BY <3>2, <1>3, <1>4 DEF Wanted, Selected, Limited
      <4>2. p \in found \cup req.starts /\ e \in links[p]
        BY <1>1 DEF WalkInv, Hangs
      <4> QED
        BY <4>1, <4>2, <1>1, <1>2, <1>6 DEF Connected
    <3> QED
      BY <3>1, <3>2, <1>1
  <2> QED
    BY <2>1, <1>2, <1>3, <1>7 DEF AnsweredWasAsked, Connected, Limited
<1>10. Stage'
  BY <1>2, <1>3 DEF WalkInv, Stage, Chains
<1>11. Ahead'
  BY <1>2, <1>3 DEF Ahead, Limited
<1>12. Hangs'
  <2>1. ASSUME NEW q \in Id, NEW l \in Id, <<q, l>> \in queue'
        PROVE  q \in found' \cup req.starts /\ l \in links[q]
    <3>1. CASE <<q, l>> \in queue
      BY <3>1, <1>1 DEF WalkInv, Hangs
    <3>2. CASE <<q, l>> \in more
      BY <3>2, <1>1, <1>5
    <3> QED
      BY <2>1, <3>1, <3>2, <1>1
  <2> QED
    BY <2>1, <1>2, <1>3 DEF Hangs, Limited, Chains
<1>13. Kept'
  <2> SUFFICES ASSUME NEW x \in visited' \cap before, Wanted(x) PROVE x \in found'
    BY <1>2, <1>6 DEF Kept
  <2>1. CASE x \in visited
    <3>1. Complete
      BY <1>3 DEF Complete, HasSpace, Limited
    <3> QED
      BY <2>1, <3>1, <1>1, <1>3 DEF WalkInv, Kept, Chains
  <2>2. CASE x \notin visited
    BY <2>2, <1>1, <1>4
  <2> QED
    BY <2>1, <2>2
<1>14. Followed'
  <2> SUFFICES ASSUME NEW q \in (req.starts \cup visited') \cap before, Selected(q),
                      NEW l \in links[q], l \notin visited'
               PROVE  <<q, l>> \in queue'
    BY <1>2, <1>3, <1>6 DEF Followed
  <2>0. q \in Id /\ l \in Id
    BY <1>2, <1>8, <1>3, RequestType, LinksType DEF WalkTypeOK
  <2>1. CASE q \in req.starts \cup visited
    <3>1. Complete /\ req.earliest = {}
      BY <1>3 DEF Complete, HasSpace, Limited, WalkInv, Stage
    <3>2. <<q, l>> \in queue
      BY <2>1, <3>1, <1>1, <1>3 DEF WalkInv, Followed
    <3>3. <<q, l>> # <<p, e>>
      BY <1>1
    <3> QED
      BY <3>2, <3>3, <1>1
  <2>2. CASE q \notin req.starts \cup visited
    <3>1. q \in rows
      BY <2>2, <1>1, <1>4
    <3> QED
      BY <2>0, <3>1, <1>1, <1>5
  <2> QED
    BY <2>1, <2>2
<1> QED
  BY <1>8, <1>9, <1>10, <1>11, <1>12, <1>13, <1>14 DEF WalkInv

(* The chain is met as a whole, so its parts hang together in the result. *)
LEMMA GatherStep ==
  ASSUME WalkInv, Gather
  PROVE  WalkInv'
<1>1. /\ found' = visited \cap stored /\ count' = Cardinality(found') /\ phase' = "done"
      /\ phase = "gather"
  BY DEF Gather, Answer
<1>2. /\ links' = links /\ depth' = depth /\ inRoom' = inRoom /\ stored' = stored
      /\ before' = before /\ req' = req /\ visited' = visited /\ todo' = todo
      /\ queue' = queue
  BY DEF Gather, dagVars
<1>3. /\ req \in Request /\ before \subseteq stored /\ visited \subseteq Id
      /\ req.kind \in {"state", "send_join"}
      /\ todo = {} /\ queue = {}
  BY <1>1 DEF WalkInv, WalkTypeOK, Stage, HasSpace, Limited
<1>4. /\ \A e : Selected(e)' <=> Selected(e)
      /\ \A e : Wanted(e)' <=> Wanted(e)
  BY SameRequest DEF Gather
<1>5. count' \in Nat
  BY <1>1, <1>3, IdsFinite
<1>6. WalkTypeOK'
  BY <1>1, <1>2, <1>5 DEF WalkInv, WalkTypeOK
<1>7. AnsweredWasAsked'
  <2>1. ASSUME NEW e \in found'
        PROVE  Wanted(e) /\ \E p \in found' \cup req.starts : e \in links[p]
    BY <1>1, <1>3 DEF WalkInv, Hangs, Wanted, Selected, Limited, Chains
  <2> QED
    BY <2>1, <1>1, <1>2, <1>3, <1>4 DEF AnsweredWasAsked, Limited
<1>8. Stage'
  BY <1>1, <1>2, <1>3 DEF WalkInv, Stage
<1>9. Ahead' /\ Hangs'
  BY <1>2, <1>3 DEF WalkInv, Ahead, Hangs, Limited
<1>10. Kept'
  BY <1>1, <1>2, <1>3 DEF Kept
<1>11. Followed'
  <2> SUFFICES ASSUME req.kind # "send_join" PROVE Followed'
    BY <1>2 DEF Followed, Complete
  <2>1. Complete
    BY <1>1, <1>3 DEF Complete, HasSpace, Limited
  <2> QED
    BY <2>1, <1>2, <1>4 DEF WalkInv, Followed
<1> QED
  BY <1>6, <1>7, <1>8, <1>9, <1>10, <1>11 DEF WalkInv

(* The loop ends. *)
LEMMA EndWalkStep ==
  ASSUME WalkInv, EndWalk
  PROVE  WalkInv'
<1>1. /\ links' = links /\ depth' = depth /\ inRoom' = inRoom /\ stored' = stored
      /\ before' = before /\ req' = req /\ visited' = visited /\ todo' = todo
      /\ queue' = queue /\ phase = "walk"
      /\ HasSpace => todo = {} /\ queue = {}
  BY DEF EndWalk, dagVars
<1>2. /\ req \in Request /\ visited \subseteq Id /\ before \subseteq stored
      /\ req.kind \in Chains => found = {} /\ count = 0
      /\ req.kind # "send_join"
  BY <1>1 DEF WalkInv, WalkTypeOK, Stage
<1>3. /\ \A e : Selected(e)' <=> Selected(e)
      /\ \A e : Wanted(e)' <=> Wanted(e)
  BY SameRequest DEF EndWalk
<1>4. CASE req.kind = "state_ids"
  <2>1. found' = visited /\ count' = Cardinality(visited) /\ phase' = "done" /\ HasSpace
    BY <1>4 DEF EndWalk, Answer, HasSpace, Limited
  <2>2. count' \in Nat
    BY <2>1, <1>2, IdsFinite
  <2>3. WalkTypeOK'
    BY <1>1, <2>1, <2>2 DEF WalkInv, WalkTypeOK
  <2>4. AnsweredWasAsked'
    <3>1. ASSUME NEW e \in found'
          PROVE  Wanted(e) /\ \E q \in found' \cup req.starts : e \in links[q]
      BY <1>4, <2>1 DEF WalkInv, Hangs, Wanted, Selected, Limited, Chains
    <3> QED
      BY <3>1, <1>1, <1>3, <1>4, <2>1 DEF AnsweredWasAsked, Limited
  <2>5. Stage'
    BY <1>1, <1>4, <2>1 DEF WalkInv, Stage
  <2>6. Ahead' /\ Hangs'
    BY <1>1, <1>4, <2>1 DEF WalkInv, Ahead, Hangs, Limited
  <2>7. Kept'
    BY <1>1, <2>1 DEF Kept
  <2>8. Followed'
    <3>1. Complete
      BY <1>1, <1>2, <2>1 DEF Complete
    <3> QED
      BY <3>1, <1>1, <1>3 DEF WalkInv, Followed
  <2> QED
    BY <2>3, <2>4, <2>5, <2>6, <2>7, <2>8 DEF WalkInv
<1>5. CASE req.kind # "state_ids"
  <2>1. /\ found' = found /\ count' = count
        /\ phase' = IF req.kind = "state" /\ visited # {} THEN "gather" ELSE "done"
    BY <1>5 DEF EndWalk
  <2>2. WalkTypeOK'
    BY <1>1, <2>1 DEF WalkInv, WalkTypeOK
  <2>3. AnsweredWasAsked'
    BY <1>1, <1>3, <2>1 DEF WalkInv, AnsweredWasAsked
  <2>4. HasSpace' <=> HasSpace
    BY <1>1, <2>1 DEF HasSpace
  <2>5. Stage'
    BY <1>1, <1>2, <2>1, <2>4 DEF WalkInv, Stage, Chains
  <2>6. Ahead' /\ Hangs'
    BY <1>1, <2>1, <2>4 DEF WalkInv, Ahead, Hangs, Connected
  <2>7. Kept'
    <3> SUFFICES ASSUME Complete', req.kind \in Chains => phase' = "done",
                        NEW e \in visited \cap before, Wanted(e)
                 PROVE  e \in found \cup todo
      BY <1>1, <1>3, <2>1 DEF Kept
    <3>1. req.kind \notin Chains
      BY <1>5, <2>1 DEF Chains
    <3>2. Complete
      BY <1>1, <1>2, <2>4 DEF Complete
    <3> QED
      BY <3>1, <3>2 DEF WalkInv, Kept
  <2>8. Followed'
    <3> SUFFICES ASSUME Complete' PROVE Followed'
      BY DEF Followed
    <3>1. Complete
      BY <1>1, <1>2, <2>4 DEF Complete
    <3> QED
      BY <3>1, <1>1, <1>3 DEF WalkInv, Followed
  <2> QED
    BY <2>2, <2>3, <2>5, <2>6, <2>7, <2>8 DEF WalkInv
<1> QED
  BY <1>4, <1>5

(* A handler that answers or fails leaves nothing of its walk. *)
LEMMA ResetStep ==
  ASSUME WalkInv, Reset
  PROVE  WalkInv'
<1>1. /\ links' = links /\ depth' = depth /\ inRoom' = inRoom /\ stored' = stored
      /\ phase' = "idle" /\ req' = NoRequest /\ before' = {} /\ visited' = {}
      /\ todo' = {} /\ queue' = {} /\ found' = {} /\ count' = 0
  BY DEF Reset, dagVars
<1>2. req'.kind = "none" /\ req'.starts = {} /\ req'.earliest = {}
  BY <1>1 DEF NoRequest
<1>3. WalkTypeOK'
  BY <1>1 DEF WalkInv, WalkTypeOK
<1>4. AnsweredWasAsked'
  BY <1>1, <1>2, FS_EmptySet DEF AnsweredWasAsked, Limited
<1>5. Stage'
  BY <1>1, <1>2 DEF Stage
<1>6. Ahead' /\ Hangs' /\ Kept' /\ Followed'
  BY <1>1, <1>2 DEF Ahead, Hangs, Kept, Followed, Complete, Limited, Chains
<1> QED
  BY <1>3, <1>4, <1>5, <1>6 DEF WalkInv

(* An event stored meanwhile disturbs no walk. *)
LEMMA StoreStep ==
  ASSUME WalkInv, NEW e \in Id, Store(e)
  PROVE  WalkInv'
<1>1. /\ links' = links /\ depth' = depth /\ inRoom' = inRoom /\ before' = before
      /\ req' = req /\ phase' = phase /\ visited' = visited /\ todo' = todo
      /\ queue' = queue /\ found' = found /\ count' = count
      /\ stored' = stored \cup {e}
  BY DEF Store, dagVars, walkState
<1>2. /\ \A x : Selected(x)' <=> Selected(x)
      /\ \A x : Wanted(x)' <=> Wanted(x)
  BY SameRequest, <1>1 DEF dagVars
<1>3. HasSpace' <=> HasSpace
  BY <1>1 DEF HasSpace
<1>4. WalkTypeOK' /\ Stage' /\ Ahead'
  BY <1>1, <1>3 DEF WalkInv, WalkTypeOK, Stage, Ahead
<1>5. AnsweredWasAsked'
  BY <1>1, <1>2 DEF WalkInv, AnsweredWasAsked
<1>6. Hangs'
  BY <1>1, <1>3 DEF WalkInv, Hangs, Connected
<1>7. Kept' /\ Followed'
  BY <1>1, <1>2, <1>3 DEF WalkInv, Kept, Followed, Complete
<1> QED
  BY <1>4, <1>5, <1>6, <1>7 DEF WalkInv

(* What every accepted request begins with. *)
LEMMA BeginFacts ==
  ASSUME WalkInv, NEW r \in Request, NEW first \in SUBSET Id,
         NEW next \in {"seed", "walk", "gather", "done"},
         Begin(r, first, next), r.kind \in Limited => r.limit # 0,
         todo' \subseteq first, queue' \subseteq Id \X Id
  PROVE  /\ WalkTypeOK' /\ AnsweredWasAsked' /\ HasSpace'
         /\ links' = links /\ before' = stored /\ stored' = stored /\ req' = r
         /\ phase' = next /\ visited' = first /\ found' = {} /\ count' = 0
<1>1. /\ links' = links /\ depth' = depth /\ inRoom' = inRoom /\ stored' = stored
      /\ before' = stored /\ req' = r /\ phase' = next /\ visited' = first
      /\ found' = {} /\ count' = 0
  BY DEF Begin, dagVars
<1>2. WalkTypeOK'
  BY <1>1 DEF WalkInv, WalkTypeOK
<1>3. r.limit \in Nat
  BY RequestType
<1>4. AnsweredWasAsked'
  BY <1>1, <1>3, FS_EmptySet DEF AnsweredWasAsked
<1>5. HasSpace'
  BY <1>1, <1>3 DEF HasSpace
<1> QED
  BY <1>1, <1>2, <1>4, <1>5

(* A walk that first reads its starts: get_missing_events and state_ids. *)
LEMMA BeginSeedStep ==
  ASSUME WalkInv, NEW r \in Request, BeginMissing(r) \/ BeginStateIds(r)
  PROVE  WalkInv'
<1> DEFINE first == IF r.kind = "missing" THEN r.starts ELSE {}
           next == IF r.kind = "state_ids" /\ r.starts = {} THEN "done" ELSE "seed"
<1>1. /\ r.kind \in {"missing", "state_ids"}
      /\ r.kind \in Limited => r.limit # 0
      /\ r.kind # "missing" => r.earliest = {}
      /\ r.starts \subseteq stored /\ Begin(r, first, next)
      /\ todo' = {} /\ queue' = {}
  BY DEF BeginMissing, BeginStateIds, Limited, Bare
<1>2. /\ first \in SUBSET Id /\ next \in {"seed", "done"}
      /\ next = "done" => r.kind = "state_ids" /\ r.starts = {}
      /\ r.kind = "missing" => first = r.starts
      /\ r.kind # "missing" => first = {}
  BY RequestType
<1> HIDE DEF first, next
<1>3. /\ WalkTypeOK' /\ AnsweredWasAsked' /\ HasSpace'
      /\ links' = links /\ before' = stored /\ stored' = stored /\ req' = r
      /\ phase' = next /\ visited' = first /\ found' = {} /\ count' = 0
  BY <1>1, <1>2, BeginFacts
<1>4. Stage'
  BY <1>1, <1>2, <1>3 DEF Stage, Chains
<1>5. Ahead' /\ Hangs'
  BY <1>1, <1>2, <1>3 DEF Ahead, Hangs, Chains
<1>6. Kept' /\ Followed'
  BY <1>1, <1>2, <1>3 DEF Kept, Followed, Complete
<1> QED
  BY <1>3, <1>4, <1>5, <1>6 DEF WalkInv

(* backfill: the starts are the first batch. *)
LEMMA BeginBackfillStep ==
  ASSUME WalkInv, NEW r \in Request, BeginBackfill(r)
  PROVE  WalkInv'
<1>1. /\ r.kind = "backfill" /\ r.limit # 0 /\ r.earliest = {}
      /\ r.starts \subseteq stored /\ Begin(r, r.starts, "walk")
      /\ todo' = r.starts /\ queue' = {}
  BY DEF BeginBackfill
<1>2. r.starts \in SUBSET Id
  BY RequestType
<1>3. /\ WalkTypeOK' /\ AnsweredWasAsked' /\ HasSpace'
      /\ links' = links /\ before' = stored /\ stored' = stored /\ req' = r
      /\ phase' = "walk" /\ visited' = r.starts /\ found' = {} /\ count' = 0
  BY <1>1, <1>2, BeginFacts
<1>4. Stage' /\ Ahead'
  BY <1>1, <1>3 DEF Stage, Ahead, Chains
<1>5. Hangs'
  BY <1>1, <1>3 DEF Hangs, Connected, Chains
<1>6. Kept' /\ Followed'
  BY <1>1, <1>3 DEF Kept, Followed
<1> QED
  BY <1>3, <1>4, <1>5, <1>6 DEF WalkInv

(* state and send_join: the rows of the starts are at hand. *)
LEMMA BeginRowsStep ==
  ASSUME WalkInv, NEW r \in Request, BeginState(r) \/ BeginSendJoin(r)
  PROVE  WalkInv'
<1> DEFINE first == Links(r.starts)
           next == IF r.kind = "state" THEN "walk"
                   ELSE IF first = {} THEN "done" ELSE "gather"
<1>1. /\ r.kind \in {"state", "send_join"} /\ r.earliest = {}
      /\ r.starts \subseteq stored /\ Begin(r, first, next)
      /\ todo' = IF r.kind = "state" THEN first ELSE {}
      /\ queue' = {}
  BY DEF BeginState, BeginSendJoin, Bare
<1>2. first \in SUBSET Id
  BY RequestType, LinksType DEF WalkInv, WalkTypeOK
<1>3. /\ next \in {"walk", "gather", "done"}
      /\ r.kind = "state" => next = "walk"
      /\ r.kind = "send_join" => next \in {"gather", "done"}
  BY <1>1
<1>4. /\ \A e \in first : \E p \in r.starts : e \in links[p]
      /\ \A p \in r.starts : links[p] \subseteq first
  BY DEF Links
<1> HIDE DEF first, next
<1>5. r.kind \notin Limited
  BY <1>1 DEF Limited
<1>6. /\ WalkTypeOK' /\ AnsweredWasAsked' /\ HasSpace'
      /\ links' = links /\ before' = stored /\ stored' = stored /\ req' = r
      /\ phase' = next /\ visited' = first /\ found' = {} /\ count' = 0
  <2>1. todo' \subseteq first /\ queue' \subseteq Id \X Id
    BY <1>1
  <2> QED
    BY <2>1, <1>1, <1>2, <1>3, <1>5, BeginFacts
<1>7. Stage'
  BY <1>1, <1>3, <1>6 DEF Stage, Chains
<1>8. Ahead' /\ Hangs'
  BY <1>1, <1>4, <1>5, <1>6 DEF Ahead, Hangs
<1>9. Kept' /\ Followed'
  BY <1>1, <1>3, <1>4, <1>6 DEF Kept, Followed, Complete, Chains
<1> QED
  BY <1>6, <1>7, <1>8, <1>9 DEF WalkInv

(* event_auth: what the event lists is queued. *)
LEMMA BeginEventAuthStep ==
  ASSUME WalkInv, NEW r \in Request, BeginEventAuth(r)
  PROVE  WalkInv'
<1>1. /\ r.kind = "event_auth" /\ r.earliest = {}
      /\ r.starts \subseteq stored /\ Begin(r, {}, "walk")
      /\ todo' = {} /\ queue' = Entries(r.starts)
  BY DEF BeginEventAuth, Bare
<1>2. /\ queue' \subseteq Id \X Id
      /\ \A p, e \in Id : <<p, e>> \in queue' <=> p \in r.starts /\ e \in links[p]
  BY <1>1, RequestType DEF Entries
<1>3. /\ WalkTypeOK' /\ AnsweredWasAsked' /\ HasSpace'
      /\ links' = links /\ before' = stored /\ stored' = stored /\ req' = r
      /\ phase' = "walk" /\ visited' = {} /\ found' = {} /\ count' = 0
  <2>1. r.kind \notin Limited
    BY <1>1 DEF Limited
  <2> QED
    BY <2>1, <1>1, <1>2, BeginFacts
<1>4. Stage' /\ Ahead'
  BY <1>1, <1>3 DEF Stage, Ahead, Chains, Limited
<1>5. Hangs'
  BY <1>1, <1>2, <1>3 DEF Hangs, Chains, Limited
<1>6. Kept'
  BY <1>3 DEF Kept
<1>7. Followed'
  <2>1. ASSUME NEW p \in r.starts, NEW e \in links[p] PROVE <<p, e>> \in queue'
    <3>1. p \in Id /\ e \in Id
      BY RequestType, LinksType DEF WalkInv, WalkTypeOK
    <3> QED
      BY <3>1, <1>2
  <2> QED
    BY <2>1, <1>1, <1>3 DEF Followed
<1> QED
  BY <1>3, <1>4, <1>5, <1>6, <1>7 DEF WalkInv

-----------------------------------------------------------------------------
(* The theorems.                                                           *)

(* The initial states satisfy the invariant: no handler is at work. *)
LEMMA WalkInitially == WalkInit => WalkInv
<1> SUFFICES ASSUME WalkInit PROVE WalkInv
  OBVIOUS
<1>1. req.kind = "none" /\ req.starts = {} /\ req.earliest = {}
  BY DEF WalkInit, NoRequest
<1>2. WalkTypeOK
  BY DEF WalkInit, WalkTypeOK
<1>3. AnsweredWasAsked
  BY <1>1, FS_EmptySet DEF WalkInit, AnsweredWasAsked, Limited
<1>4. Stage /\ Ahead /\ Hangs /\ Kept /\ Followed
  BY <1>1 DEF WalkInit, Stage, Ahead, Hangs, Kept, Followed, Complete, Limited, Chains
<1> QED
  BY <1>2, <1>3, <1>4 DEF WalkInv

(* Every step of a handler, and every event stored meanwhile, preserves    *)
(* the invariant.                                                          *)
LEMMA WalkStep == WalkInv /\ [WalkNext]_walkVars => WalkInv'
<1> SUFFICES ASSUME WalkInv, [WalkNext]_walkVars PROVE WalkInv'
  OBVIOUS
<1>1. CASE Accept
  <2>1. PICK r \in Request :
           \/ BeginMissing(r) \/ BeginBackfill(r) \/ BeginState(r)
           \/ BeginStateIds(r) \/ BeginSendJoin(r) \/ BeginEventAuth(r)
    BY <1>1 DEF Accept
  <2> QED
    BY <2>1, BeginSeedStep, BeginBackfillStep, BeginRowsStep, BeginEventAuthStep
<1>2. CASE Seed
  BY <1>2, SeedStep
<1>3. ASSUME NEW taken \in SUBSET todo, MissingBatch(taken) \/ BackfillBatch(taken)
      PROVE  WalkInv'
  BY <1>3, MissingBatchStep, BackfillBatchStep
<1>4. CASE ChainBatch
  BY <1>4, ChainBatchStep
<1>5. ASSUME NEW p \in Id, NEW e \in Id, Visit(p, e)
      PROVE  WalkInv'
  BY <1>5, VisitStep
<1>6. CASE EndWalk
  BY <1>6, EndWalkStep
<1>7. CASE Gather
  BY <1>7, GatherStep
<1>8. CASE Fail \/ Reply
  BY <1>8, ResetStep DEF Fail, Reply
<1>9. ASSUME NEW e \in Id, Store(e)
      PROVE  WalkInv'
  BY <1>9, StoreStep
<1>10. CASE UNCHANGED walkVars
  <2>1. /\ links' = links /\ depth' = depth /\ inRoom' = inRoom /\ stored' = stored
        /\ before' = before /\ req' = req /\ phase' = phase /\ visited' = visited
        /\ todo' = todo /\ queue' = queue /\ found' = found /\ count' = count
    BY <1>10 DEF walkVars, dagVars, walkState
  <2>2. /\ \A x : Selected(x)' <=> Selected(x)
        /\ \A x : Wanted(x)' <=> Wanted(x)
    BY <2>1, SameRequest DEF dagVars
  <2>3. WalkTypeOK' /\ AnsweredWasAsked'
    BY <2>1, <2>2 DEF WalkInv, WalkTypeOK, AnsweredWasAsked
  <2>4. Stage' /\ Ahead' /\ Hangs'
    BY <2>1 DEF WalkInv, Stage, Ahead, Hangs, Connected, HasSpace
  <2>5. Kept' /\ Followed'
    BY <2>1, <2>2 DEF WalkInv, Kept, Followed, Complete, HasSpace
  <2> QED
    BY <2>3, <2>4, <2>5 DEF WalkInv
<1> QED
  BY <1>1, <1>2, <1>3, <1>4, <1>5, <1>6, <1>7, <1>8, <1>9, <1>10 DEF WalkNext, Handle

(* The inductive invariant holds for the walks of every handler, over any  *)
(* graph and with any events stored between its queries.                   *)
THEOREM WalkInvariance == WalkSpec => []WalkInv
<1> QED
  BY WalkInitially, WalkStep, PTL DEF WalkSpec

(* The walks' variables have their types; what is to be read and what is   *)
(* in the result has been met.                                             *)
THEOREM WalkTypes == WalkSpec => []WalkTypeOK
<1>1. WalkInv => WalkTypeOK
  BY DEF WalkInv
<1> QED
  BY <1>1, WalkInvariance, PTL

(* Every event of a result was asked for and hangs together with the       *)
(* starts, and no result is longer than its limit.                         *)
THEOREM AnswersAreAsked == WalkSpec => []AnsweredWasAsked
<1>1. WalkInv => AnsweredWasAsked
  BY DEF WalkInv
<1> QED
  BY <1>1, WalkInvariance, PTL

(* A result that was not cut contains everything that was stored when the  *)
(* walk began and that one of these events lists.                          *)
THEOREM AnswersAreComplete == WalkSpec => []NothingMissed
<1>1. ASSUME WalkInv PROVE NothingMissed
  <2> SUFFICES ASSUME phase = "done", HasSpace, req.kind # "send_join",
                      NEW p \in (req.starts \cup found) \cap before, Selected(p),
                      NEW e \in links[p] \cap before, Wanted(e)
               PROVE  e \in found
    BY DEF NothingMissed
  <2>1. Complete /\ todo = {} /\ queue = {} /\ found \subseteq visited
    BY <1>1 DEF Complete, WalkInv, Stage, WalkTypeOK
  <2>2. e \in visited \cup req.earliest
    BY <1>1, <2>1 DEF WalkInv, Followed
  <2>3. e \notin req.earliest
    BY <1>1 DEF WalkInv, Stage, Wanted
  <2> QED
    BY <1>1, <2>1, <2>2, <2>3 DEF WalkInv, Kept
<1> QED
  BY <1>1, WalkInvariance, PTL

-----------------------------------------------------------------------------
(* Why a walk ends.                                                        *)

(* A walk is under way. *)
Walking == phase \in {"seed", "walk", "gather"}

(* A step after which less is left of a walk: its handler moves on to a    *)
(* later part of its work, or it meets an id it had not met, of which      *)
(* there are finitely many, or it reads of the ids it has met.             *)
Closer ==
    \/ phase = "seed" /\ phase' = "walk"
    \/ phase = "walk" /\ phase' = "gather"
    \/ phase' \in {"done", "idle"}
    \/ phase' = phase /\ visited \subseteq visited' /\ visited' # visited
    \/ /\ phase' = phase /\ visited' = visited
       /\ todo' \subseteq todo /\ queue' \subseteq queue
       /\ todo' # todo \/ queue' # queue

(* Every step of a walk's handler brings its end closer.  Neither a cycle  *)
(* of links nor the events that others store meanwhile gives it anything   *)
(* to read twice: what others store leaves the walk as it is.              *)
WalkAdvances ==
    [][Walking => Closer \/ (\E e \in Id : Store(e) /\ UNCHANGED walkState)]_walkVars

(* Every walk makes progress to its answer: WalkAdvances, for any graph of *)
(* events and any request.                                                 *)
THEOREM WalksAdvance == WalkSpec => WalkAdvances
<1>1. ASSUME WalkNext, Walking
      PROVE  Closer \/ (\E e \in Id : Store(e) /\ UNCHANGED walkState)
  <2>1. CASE Fail \/ Reply \/ Gather
    BY <2>1 DEF Fail, Reply, Reset, Gather, Answer, Closer
  <2>2. CASE Seed
    BY <2>2 DEF Seed, Closer
  <2>3. CASE EndWalk
    <3>1. phase = "walk" /\ phase' \in {"gather", "done"}
      BY <2>3 DEF EndWalk, Answer
    <3>2. QED
      BY <3>1 DEF Closer
  <2>4. ASSUME NEW rows, Follow(rows), todo # {}, UNCHANGED <<phase, queue>>
        PROVE  Closer
    <3> DEFINE new == Links(rows) \ (visited \cup req.earliest)
    <3>1. visited' = visited \cup new /\ todo' = new /\ new \cap visited = {}
      BY <2>4 DEF Follow
    <3> HIDE DEF new
    <3>2. CASE new = {}
      BY <2>4, <3>1, <3>2 DEF Closer
    <3>3. CASE new # {}
      BY <2>4, <3>1, <3>3 DEF Closer
    <3>4. QED
      BY <3>2, <3>3
  <2>5. CASE \/ \E taken \in SUBSET todo : MissingBatch(taken) \/ BackfillBatch(taken)
             \/ ChainBatch
    <3>1. \E rows : Follow(rows) /\ todo # {} /\ UNCHANGED <<phase, queue>>
      BY <2>5 DEF MissingBatch, BackfillBatch, ChainBatch
    <3>2. QED
      BY <2>4, <3>1
  <2>6. ASSUME NEW p \in Id, NEW e \in Id, Visit(p, e)
        PROVE  Closer
    <3>1. phase' = phase /\ todo' = todo /\ visited' = visited \cup {e} /\ <<p, e>> \in queue
      BY <2>6 DEF Visit
    <3>2. CASE e \in visited
      <4>1. Entries({}) = {}
        BY DEF Entries
      <4>2. queue' = queue \ {<<p, e>>}
        BY <2>6, <3>2, <4>1 DEF Visit
      <4>3. QED
        BY <3>1, <3>2, <4>2 DEF Closer
    <3>3. CASE e \notin visited
      BY <3>1, <3>3 DEF Closer
    <3>4. QED
      BY <3>2, <3>3
  <2>7. ASSUME NEW e \in Id, Store(e)
        PROVE  Store(e) /\ UNCHANGED walkState
    BY <2>7 DEF Store
  <2>8. ~Accept
    BY <1>1 DEF Accept, Walking
  <2>9. QED
    BY <1>1, <2>1, <2>2, <2>3, <2>5, <2>6, <2>7, <2>8 DEF WalkNext, Handle
<1>2. [WalkNext]_walkVars =>
        [Walking => Closer \/ (\E e \in Id : Store(e) /\ UNCHANGED walkState)]_walkVars
  BY <1>1
<1>3. QED
  BY <1>2, PTL DEF WalkSpec, WalkAdvances
=============================================================================
