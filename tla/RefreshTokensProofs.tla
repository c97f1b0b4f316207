------------------------- MODULE RefreshTokensProofs -------------------------
(***************************************************************************)
(* Proofs about RefreshTokens for every set of tokens and devices and any  *)
(* number of concurrent calls.                                             *)
(*                                                                         *)
(* UsedHasSuccessor is not inductive: that a token may be marked used      *)
(* rests on the call that marks it.  Its successor is in the table, cannot *)
(* be used up before the answer (CallsFresh), and is not deleted before    *)
(* the token itself (MarkReady).  Later, cleanup deletes a successor only  *)
(* together with its parent because of their ages (ChainOrdered).          *)
(***************************************************************************)
EXTENDS RefreshTokens, TLAPS

(* A successor is stored for a token a client held. *)
ParentsHeld ==
    \A t \in stored : row[t].parent \in held \cup {NoToken}

(* A call's new token is known to this call only. *)
CallsFresh ==
    \A c \in calls :
        /\ c.new \in issued
        /\ c.new \notin held
        /\ c.old \in held \cup {NoToken}
        /\ c.stage = "store" => c.new \notin stored
        /\ c.stage = "mark" => c.old # NoToken
        /\ \A d \in calls : c.new = d.new => c = d

(* What the call read of the old token is still so. *)
CallsMatch ==
    \A c \in calls : c.old \in stored =>
        /\ c.rotation = row[c.old].rotation + 1
        /\ c.device = row[c.old].device

(* A call about to mark a token used has stored its successor. *)
MarkReady ==
    \A c \in calls : c.stage = "mark" /\ c.old \in stored =>
        /\ c.new \in stored
        /\ row[c.new].parent = c.old
        /\ ~row[c.new].used
        /\ row[c.new].age <= row[c.old].age

RefreshInv ==
    /\ RefreshTypeOK
    /\ ParentsHeld
    /\ CallsFresh
    /\ CallsMatch
    /\ MarkReady
    /\ ChainOrdered
    /\ UsedHasSuccessor

-----------------------------------------------------------------------------
(* Steps that leave the calls alone and change no row but to revoke it or  *)
(* to let it age keep the invariant.                                       *)

LEMMA RowsOnly ==
    ASSUME RefreshInv,
           UNCHANGED <<stored, calls, issued, held>>,
           chases' \subseteq Chase,
           row' \in [stored -> Row],
           \A t \in stored :
              /\ row'[t].device = row[t].device
              /\ row'[t].rotation = row[t].rotation
              /\ row'[t].parent = row[t].parent
              /\ row'[t].used = row[t].used,
           \A s, t \in stored : row[s].age <= row[t].age => row'[s].age <= row'[t].age
    PROVE  RefreshInv'
<1> USE DEF RefreshInv
<1>1. RefreshTypeOK'
  BY DEF RefreshTypeOK
<1>2. ParentsHeld'
  BY DEF ParentsHeld
<1>3. CallsFresh'
  BY DEF CallsFresh
<1>4. CallsMatch'
  BY DEF CallsMatch
<1>5. MarkReady'
  BY DEF MarkReady
<1>6. ChainOrdered'
  BY DEF ChainOrdered
<1>7. UsedHasSuccessor'
  BY DEF UsedHasSuccessor
<1> QED BY <1>1, <1>2, <1>3, <1>4, <1>5, <1>6, <1>7

LEMMA RevokeRowsStep ==
    ASSUME RefreshInv, NEW S, RevokeRows(S),
           UNCHANGED <<stored, calls, issued, held>>,
           chases' \subseteq Chase
    PROVE  RefreshInv'
<1>1. \A t \in stored : row[t] \in Row
  BY DEF RefreshInv, RefreshTypeOK
<1>2. \A t \in stored : row'[t] = [row[t] EXCEPT !.revoked = @ \/ t \in S]
  BY DEF RevokeRows
<1>3. \A t \in stored : (row[t].revoked \/ t \in S) \in BOOLEAN
  OBVIOUS
<1>4. \A t \in stored : row'[t] \in Row
  BY <1>1, <1>2, <1>3 DEF Row
<1>5. row' \in [stored -> Row]
  BY <1>4 DEF RevokeRows
<1>6. \A t \in stored :
        /\ row'[t].device = row[t].device
        /\ row'[t].rotation = row[t].rotation
        /\ row'[t].parent = row[t].parent
        /\ row'[t].used = row[t].used
        /\ row'[t].age = row[t].age
  BY <1>1, <1>2 DEF Row
<1> QED BY <1>5, <1>6, RowsOnly

LEMMA ElapseStep ==
    ASSUME RefreshInv, Elapse
    PROVE  RefreshInv'
<1>1. \A t \in stored : row[t] \in Row
  BY DEF RefreshInv, RefreshTypeOK
<1>2. \A t \in stored : row'[t] = [row[t] EXCEPT !.age = IF @ < 2 THEN @ + 1 ELSE @]
  BY DEF Elapse
<1>3. row' \in [stored -> Row]
  BY <1>1, <1>2 DEF Elapse, Row
<1>4. \A t \in stored :
        /\ row'[t].device = row[t].device
        /\ row'[t].rotation = row[t].rotation
        /\ row'[t].parent = row[t].parent
        /\ row'[t].used = row[t].used
        /\ row'[t].age = IF row[t].age < 2 THEN row[t].age + 1 ELSE row[t].age
  BY <1>1, <1>2 DEF Row
<1>5. \A s, t \in stored : row[s].age <= row[t].age => row'[s].age <= row'[t].age
  BY <1>1, <1>4 DEF Row
<1>6. UNCHANGED <<stored, calls, issued, held>> /\ chases' \subseteq Chase
  BY DEF Elapse, RefreshInv, RefreshTypeOK
<1> QED BY <1>3, <1>4, <1>5, <1>6, RowsOnly

-----------------------------------------------------------------------------
(* A new call has a new token of its own.                                  *)

LEMMA NewCallStep ==
    ASSUME RefreshInv, NEW n \in Token, n \notin issued,
           NEW o \in held \cup {NoToken}, NEW d \in Device, NEW r \in 0 .. MaxRotation,
           o \in stored => r = row[o].rotation + 1 /\ d = row[o].device,
           issued' = issued \cup {n},
           calls' = calls \cup {[old |-> o, new |-> n, device |-> d,
                                 rotation |-> r, stage |-> "store"]},
           UNCHANGED <<stored, row, chases, held>>
    PROVE  RefreshInv'
<1> DEFINE k == [old |-> o, new |-> n, device |-> d, rotation |-> r, stage |-> "store"]
<1> USE DEF RefreshInv
<1>1. k \in Call
  BY DEF Call, RefreshTypeOK
<1>2. RefreshTypeOK'
  BY <1>1 DEF RefreshTypeOK
<1>3. ParentsHeld'
  BY DEF ParentsHeld
<1>4. CallsFresh'
  BY DEF CallsFresh, RefreshTypeOK
<1>5. CallsMatch'
  BY DEF CallsMatch
<1>6. MarkReady'
  BY DEF MarkReady
<1>7. ChainOrdered' /\ UsedHasSuccessor'
  BY DEF ChainOrdered, UsedHasSuccessor
<1> QED BY <1>2, <1>3, <1>4, <1>5, <1>6, <1>7

-----------------------------------------------------------------------------
(* The steps of a call.                                                    *)

LEMMA StoreNewStep ==
    ASSUME RefreshInv, NEW c \in calls, StoreNew(c)
    PROVE  RefreshInv'
<1> USE DEF RefreshInv
<1> DEFINE g == [c EXCEPT !.stage = IF c.old = NoToken THEN "answer" ELSE "mark"]
           r == [device |-> c.device, rotation |-> c.rotation, parent |-> c.old,
                 used |-> FALSE, revoked |-> FALSE, age |-> 0]
<1>1. /\ c \in Call
      /\ c.stage = "store"
      /\ c.new \notin stored
      /\ c.new \notin held
      /\ c.new \in issued
      /\ c.old \in held \cup {NoToken}
  BY DEF StoreNew, RefreshTypeOK, CallsFresh
<1>2. /\ stored' = stored \cup {c.new}
      /\ row' = [t \in stored' |-> IF t = c.new THEN r ELSE row[t]]
      /\ UNCHANGED <<chases, issued, held>>
      /\ calls' = (calls \ {c}) \cup {g}
  BY DEF StoreNew, Advance
<1>3. /\ g \in Call
      /\ g.old = c.old /\ g.new = c.new /\ g.device = c.device /\ g.rotation = c.rotation
      /\ g.stage = IF c.old = NoToken THEN "answer" ELSE "mark"
  BY <1>1 DEF Call
<1>4. r \in Row
  BY <1>1 DEF Row, Call
<1>5. /\ row'[c.new] = r
      /\ \A t \in stored : row'[t] = row[t]
  BY <1>1, <1>2
<1> HIDE DEF g
<1>6. RefreshTypeOK'
  <2>1. row' \in [stored' -> Row]
    BY <1>2, <1>4 DEF RefreshTypeOK
  <2> QED BY <2>1, <1>1, <1>2, <1>3 DEF RefreshTypeOK
<1>7. ParentsHeld'
  BY <1>1, <1>2, <1>5 DEF ParentsHeld
<1>8. CallsFresh'
  BY <1>1, <1>2, <1>3 DEF CallsFresh
<1>9. c.new # NoToken /\ \A d \in calls : d.old # c.new
  BY <1>1, RefreshAssumption DEF CallsFresh, RefreshTypeOK
<1>10. CallsMatch'
  BY <1>2, <1>3, <1>5, <1>9 DEF CallsMatch
<1>11. MarkReady'
  <2>1. ASSUME NEW d \in calls \ {c}, d.stage = "mark", d.old \in stored'
        PROVE  /\ d.new \in stored'
               /\ row'[d.new].parent = d.old
               /\ ~row'[d.new].used
               /\ row'[d.new].age <= row'[d.old].age
    BY <2>1, <1>2, <1>5, <1>9 DEF MarkReady
  <2>2. ASSUME g.old \in stored'
        PROVE  /\ g.new \in stored'
               /\ row'[g.new].parent = g.old
               /\ ~row'[g.new].used
               /\ row'[g.new].age <= row'[g.old].age
    <3>1. g.old \in stored /\ row[g.old] \in Row
      BY <2>2, <1>2, <1>3, <1>9 DEF RefreshTypeOK
    <3> QED BY <3>1, <1>2, <1>3, <1>5 DEF Row
  <2> QED BY <2>1, <2>2, <1>2 DEF MarkReady
<1>12. ChainOrdered'
  <2>1. ASSUME NEW t \in stored', row'[t].parent \in stored'
        PROVE  /\ row'[t].rotation = row'[row'[t].parent].rotation + 1
               /\ row'[t].device = row'[row'[t].parent].device
               /\ row'[t].age <= row'[row'[t].parent].age
    <3>1. CASE t = c.new
      <4>1. row'[t].parent = c.old /\ c.old \in stored /\ row[c.old] \in Row
        BY <3>1, <2>1, <1>2, <1>5, <1>9 DEF RefreshTypeOK
      <4> QED BY <4>1, <3>1, <1>5 DEF CallsMatch, Row
    <3>2. CASE t # c.new
      <4>1. t \in stored /\ row'[t] = row[t] /\ row[t].parent \in held \cup {NoToken}
        BY <3>2, <1>2, <1>5 DEF ParentsHeld
      <4>2. row[t].parent \in stored /\ row'[row[t].parent] = row[row[t].parent]
        BY <4>1, <2>1, <1>1, <1>2, <1>5, <1>9
      <4> QED BY <4>1, <4>2 DEF ChainOrdered
    <3> QED BY <3>1, <3>2
  <2> QED BY <2>1 DEF ChainOrdered
<1>13. UsedHasSuccessor'
  BY <1>2, <1>5 DEF UsedHasSuccessor
<1> QED BY <1>6, <1>7, <1>8, <1>10, <1>11, <1>12, <1>13

LEMMA MarkUsedStep ==
    ASSUME RefreshInv, NEW c \in calls, MarkUsed(c)
    PROVE  RefreshInv'
<1> USE DEF RefreshInv
<1> DEFINE g == [c EXCEPT !.stage = "answer"]
<1>1. /\ c \in Call
      /\ c.stage = "mark"
      /\ \A t \in stored : row[t] \in Row
  BY DEF MarkUsed, RefreshTypeOK
<1>2. /\ calls' = (calls \ {c}) \cup {g}
      /\ UNCHANGED <<stored, chases, issued, held>>
  BY DEF MarkUsed, Advance
<1>3. /\ g \in Call
      /\ g.old = c.old /\ g.new = c.new /\ g.device = c.device
      /\ g.rotation = c.rotation /\ g.stage = "answer"
  BY <1>1 DEF Call
<1> DEFINE b(t) == row[t].used \/ t = c.old
<1>4. \A t \in stored : /\ row'[t] = [row[t] EXCEPT !.used = b(t)]
                        /\ b(t) \in BOOLEAN
                        /\ t # c.old => b(t) = row[t].used
  BY <1>1 DEF MarkUsed, Row
<1> HIDE DEF g, b
<1>5. row' \in [stored -> Row]
  <2>1. \A t \in stored : row'[t] \in Row
    BY <1>1, <1>4 DEF Row
  <2> QED BY <2>1 DEF MarkUsed
<1>6. \A t \in stored :
        /\ row'[t].device = row[t].device
        /\ row'[t].rotation = row[t].rotation
        /\ row'[t].parent = row[t].parent
        /\ row'[t].age = row[t].age
        /\ t # c.old => row'[t].used = row[t].used
  BY <1>1, <1>4 DEF Row
<1>7. RefreshTypeOK'
  BY <1>2, <1>3, <1>5 DEF RefreshTypeOK
<1>8. ParentsHeld'
  BY <1>2, <1>6 DEF ParentsHeld
<1>9. CallsFresh'
  BY <1>2, <1>3 DEF CallsFresh
<1>10. CallsMatch'
  BY <1>2, <1>3, <1>6 DEF CallsMatch
<1>11. MarkReady'
  <2>1. \A d \in calls : d.new # c.old
    BY RefreshAssumption DEF CallsFresh, RefreshTypeOK
  <2> QED BY <2>1, <1>2, <1>3, <1>6 DEF MarkReady
<1>12. ChainOrdered'
  BY <1>2, <1>6 DEF ChainOrdered
<1>13. UsedHasSuccessor'
  <2>1. ASSUME NEW t \in stored, row'[t].used
        PROVE  \E s \in stored : row[s].parent = t
    <3>1. CASE t = c.old
      BY <3>1, <1>1 DEF MarkReady
    <3>2. CASE t # c.old
      BY <3>2, <2>1, <1>6 DEF UsedHasSuccessor
    <3> QED BY <3>1, <3>2
  <2> QED BY <2>1, <1>2, <1>6 DEF UsedHasSuccessor
<1> QED BY <1>7, <1>8, <1>9, <1>10, <1>11, <1>12, <1>13

LEMMA AnswerStep ==
    ASSUME RefreshInv, NEW c \in calls, Answer(c)
    PROVE  RefreshInv'
<1> USE DEF RefreshInv, Answer
<1>1. RefreshTypeOK'
  BY DEF RefreshTypeOK, CallsFresh
<1>2. ParentsHeld'
  BY DEF ParentsHeld
<1>3. CallsFresh'
  BY DEF CallsFresh
<1>4. CallsMatch' /\ MarkReady'
  BY DEF CallsMatch, MarkReady
<1>5. ChainOrdered' /\ UsedHasSuccessor'
  BY DEF ChainOrdered, UsedHasSuccessor
<1> QED BY <1>1, <1>2, <1>3, <1>4, <1>5

LEMMA AbortStep ==
    ASSUME RefreshInv, NEW c \in calls, Abort(c)
    PROVE  RefreshInv'
<1> USE DEF RefreshInv, Abort
<1>1. RefreshTypeOK' /\ ParentsHeld'
  BY DEF RefreshTypeOK, ParentsHeld
<1>2. CallsFresh' /\ CallsMatch' /\ MarkReady'
  BY DEF CallsFresh, CallsMatch, MarkReady
<1>3. ChainOrdered' /\ UsedHasSuccessor'
  BY DEF ChainOrdered, UsedHasSuccessor
<1> QED BY <1>1, <1>2, <1>3

-----------------------------------------------------------------------------
(* Revocations change no row before their last step.                       *)

LEMMA ChasesOnly ==
    ASSUME RefreshInv, UNCHANGED <<stored, row, calls, issued, held>>,
           chases' \subseteq Chase
    PROVE  RefreshInv'
<1> USE DEF RefreshInv
<1>1. RefreshTypeOK' /\ ParentsHeld'
  BY DEF RefreshTypeOK, ParentsHeld
<1>2. CallsFresh' /\ CallsMatch' /\ MarkReady'
  BY DEF CallsFresh, CallsMatch, MarkReady
<1>3. ChainOrdered' /\ UsedHasSuccessor'
  BY DEF ChainOrdered, UsedHasSuccessor
<1> QED BY <1>1, <1>2, <1>3

(* Deleting the stale rows deletes a parent with each successor.           *)
LEMMA CleanupStep ==
    ASSUME RefreshInv, Cleanup
    PROVE  RefreshInv'
<1> USE DEF RefreshInv
<1>1. /\ stored' \subseteq stored
      /\ \A t \in stored' : row'[t] = row[t]
      /\ \A t \in stored : row[t] \in Row
      /\ UNCHANGED <<calls, chases, issued, held>>
  BY DEF Cleanup, RefreshTypeOK
<1>2. RefreshTypeOK'
  <2>1. row' \in [stored' -> Row]
    BY <1>1 DEF Cleanup
  <2> QED BY <2>1, <1>1 DEF RefreshTypeOK
<1>3. ParentsHeld' /\ CallsFresh' /\ CallsMatch'
  BY <1>1 DEF ParentsHeld, CallsFresh, CallsMatch
<1>4. MarkReady'
  <2>1. ASSUME NEW c \in calls, c.stage = "mark", c.old \in stored'
        PROVE  c.new \in stored'
    <3>1. /\ c.new \in stored /\ ~row[c.new].used
          /\ row[c.new].age <= row[c.old].age
          /\ row[c.old].age # 2
      BY <2>1, <1>1 DEF MarkReady, Cleanup, Stale
    <3>2. row[c.new].age # 2
      BY <3>1, <2>1, <1>1 DEF Row
    <3> QED BY <3>1, <3>2 DEF Cleanup, Stale
  <2> QED BY <2>1, <1>1 DEF MarkReady
<1>5. ChainOrdered'
  BY <1>1 DEF ChainOrdered
<1>6. UsedHasSuccessor'
  <2>1. ASSUME NEW t \in stored', row[t].used
        PROVE  \E s \in stored' : row[s].parent = t
    <3>1. PICK s \in stored : row[s].parent = t
      BY <2>1, <1>1 DEF UsedHasSuccessor
    <3>2. row[t].age = 0 /\ row[s].age <= row[t].age
      BY <2>1, <3>1, <1>1 DEF ChainOrdered, Cleanup, Stale, Row
    <3>3. row[s].age = 0
      BY <3>1, <3>2, <1>1 DEF Row
    <3> QED BY <3>1, <3>3 DEF Cleanup, Stale
  <2> QED BY <2>1, <1>1 DEF UsedHasSuccessor
<1> QED BY <1>2, <1>3, <1>4, <1>5, <1>6

-----------------------------------------------------------------------------
(* RefreshInv holds always: no interleaving of the statements of           *)
(* refresh_tokens, the revocations and the cleanup breaks it.              *)
THEOREM RefreshInvariance == RefreshSpec => []RefreshInv
<1>1. RefreshInit => RefreshInv
  BY DEF RefreshInit, RefreshInv, RefreshTypeOK, ParentsHeld, CallsFresh, CallsMatch,
         MarkReady, ChainOrdered, UsedHasSuccessor
<1>2. RefreshInv /\ [RefreshNext]_refreshVars => RefreshInv'
  <2> SUFFICES ASSUME RefreshInv, [RefreshNext]_refreshVars PROVE RefreshInv'
    OBVIOUS
  <2>0. held \subseteq Token /\ \A t \in stored : row[t] \in Row /\ t \in Token
    BY DEF RefreshInv, RefreshTypeOK
  <2>1. ASSUME NEW d \in Device, NEW n \in Token, CreateInitial(d, n) PROVE RefreshInv'
    <3>1. NoToken \notin stored /\ 0 \in 0 .. MaxRotation
      BY <2>0, RefreshAssumption
    <3> QED BY <2>1, <3>1, NewCallStep DEF CreateInitial
  <2>2. ASSUME NEW t \in held, NEW n \in Token, Refresh(t, n) PROVE RefreshInv'
    <3>1. t \in stored /\ row[t] \in Row /\ row[t].rotation < MaxRotation
      BY <2>2, <2>0 DEF Refresh, Valid
    <3>2. row[t].rotation + 1 \in 0 .. MaxRotation /\ row[t].device \in Device
      BY <3>1, RefreshAssumption DEF Row
    <3> QED BY <2>2, <3>1, <3>2, NewCallStep DEF Refresh
  <2>3. ASSUME NEW t \in held, Revoke(t) PROVE RefreshInv'
    <3>1. [target |-> t, at |-> t, parent |-> row[t].parent] \in Chase
      BY <2>3, <2>0 DEF Revoke, Chase, Row
    <3> QED BY <2>3, <3>1, ChasesOnly DEF Revoke, RefreshInv, RefreshTypeOK
  <2>4. ASSUME NEW c \in calls, CallStep(c) PROVE RefreshInv'
    BY <2>4, StoreNewStep, MarkUsedStep, AnswerStep, AbortStep DEF CallStep
  <2>5. ASSUME NEW v \in chases, ChaseStep(v) PROVE RefreshInv'
    <3>1. CASE WalkUp(v)
      <4>1. v \in Chase /\ row[v.parent] \in Row
        BY <3>1, <2>0 DEF WalkUp, RefreshInv, RefreshTypeOK
      <4>2. [v EXCEPT !.at = v.parent, !.parent = row[v.parent].parent] \in Chase
        BY <3>1, <4>1, <2>0 DEF WalkUp, Chase, Row
      <4> QED BY <3>1, <4>2, ChasesOnly DEF WalkUp, RefreshInv, RefreshTypeOK
    <3>2. CASE RevokeFromRoot(v)
      <4>1. chases' \subseteq Chase
        BY <3>2 DEF RevokeFromRoot, RefreshInv, RefreshTypeOK, Chase
      <4> QED BY <3>2, <4>1, RevokeRowsStep DEF RevokeFromRoot
    <3>3. CASE AbortRevoke(v)
      BY <3>3, ChasesOnly DEF AbortRevoke, RefreshInv, RefreshTypeOK
    <3> QED BY <2>5, <3>1, <3>2, <3>3 DEF ChaseStep, RevokeStep
  <2>6. ASSUME NEW d \in Device, RevokeDevice(d) PROVE RefreshInv'
    BY <2>6, RevokeRowsStep DEF RevokeDevice, RefreshInv, RefreshTypeOK
  <2>7. ASSUME NEW u \in User, RevokeUser(u) PROVE RefreshInv'
    BY <2>7, RevokeRowsStep DEF RevokeUser, RefreshInv, RefreshTypeOK
  <2>8. CASE UNCHANGED refreshVars
    BY <2>8, ChasesOnly DEF refreshVars, RefreshInv, RefreshTypeOK
  <2> QED BY <2>1, <2>2, <2>3, <2>4, <2>5, <2>6, <2>7, <2>8, ElapseStep, CleanupStep
          DEF RefreshNext, RefreshAtLimit
<1> QED BY <1>1, <1>2, PTL DEF RefreshSpec

(* The rows' parents are older, of the same device, one rotation less. *)
THEOREM ChainsAreOrdered == RefreshSpec => []ChainOrdered
<1>1. RefreshInv => ChainOrdered
  BY DEF RefreshInv
<1> QED BY <1>1, RefreshInvariance, PTL

(* A token marked used always has a successor in the table. *)
THEOREM UsedTokensHaveSuccessors == RefreshSpec => []UsedHasSuccessor
<1>1. RefreshInv => UsedHasSuccessor
  BY DEF RefreshInv
<1> QED BY <1>1, RefreshInvariance, PTL

(* The token table and the running calls keep their types. *)
THEOREM RefreshTypes == RefreshSpec => []RefreshTypeOK
<1>1. RefreshInv => RefreshTypeOK
  BY DEF RefreshInv
<1> QED BY <1>1, RefreshInvariance, PTL
=============================================================================
