------------------------ MODULE ServerDiscoveryProofs ------------------------
(* Theorems about ServerDiscovery: what its caches promise for every *)
(* number of requests and all lifetimes.                             *)
EXTENDS ServerDiscovery, TLAPS

(* Only a request that has started can be behind a cached error, and one   *)
(* that passed the error cache is behind every error cached since.         *)
Quiet ==
    \A r \in Request :
        stage[r] \notin {"idle", "asked"} /\ errorLeft >= 0 => outrun[r]

(* The back-off is short and ends before the cached error. *)
Covered ==
    /\ backoff.left <= ErrorTtl
    /\ backoff.left > 0 =>
          errorLeft >= backoff.left \/ cut \/ \E r \in Request : stage[r] = "recorded"

(* What a request holds: fresh from the network, out of the client's cache *)
(* or out of the resolver's.                                               *)
HeldAged(r) ==
    /\ stage[r] = "insert" => held[r].age = 0
    /\ stage[r] = "store" => held[r].age < ClientTtl
    /\ held[r].age < ClientTtl + WellKnownTtl

(* An entry's age and what is left of its lifetime add up to what it may   *)
(* become; the resolver's may start with the age the client's had.         *)
Aged ==
    /\ \A r \in Request : HeldAged(r)
    /\ client.left > 0 => client.age + client.left <= ClientTtl
    /\ wellKnown.left >= 0 => wellKnown.age + wellKnown.left < ClientTtl + WellKnownTtl

DiscoveryInv == DiscoveryTypeOK /\ Quiet /\ Covered /\ Aged

-----------------------------------------------------------------------------
(* Types.                                                                  *)

(* What is left to try stays a suffix of the lookups for a host name. *)
LEMMA TodoTail == \A t \in Todo : Len(t) > 1 => Tail(t) \in Todo
<1>1. ~(Len(<<>>) > 1) /\ ~(Len(AddressOnly) > 1)
  BY DEF AddressOnly
<1>2. Tail(AllLookups) = <<"srv_legacy", "address">>
  BY DEF AllLookups
<1>3. Tail(<<"srv_legacy", "address">>) = AddressOnly
  BY DEF AddressOnly
<1> QED BY <1>1, <1>2, <1>3, Zenon DEF Todo

(* The lookups a request starts with are of the right type. *)
LEMMA LookUpType ==
    ASSUME DiscoveryTypeOK, NEW r \in Request, NEW n \in {"own", "delegate"},
           NEW t \in Todo, LookUp(r, n, t)
    PROVE  /\ stage' \in [Request -> Stage]
           /\ chain' \in [Request -> [of : {"own", "delegate"}, todo : Todo]]
  BY DEF LookUp, Go, DiscoveryTypeOK, Stage

(* Whatever the delegation, the request goes on with typed lookups. *)
LEMMA ProcessType ==
    ASSUME DiscoveryTypeOK, NEW r \in Request, NEW a, Process(r, a)
    PROVE  /\ stage' \in [Request -> Stage]
           /\ chain' \in [Request -> [of : {"own", "delegate"}, todo : Todo]]
           /\ stage'[r] \in {"resolved", "lookup"}
           /\ \A q \in Request : q # r => stage'[q] = stage[q]
<1>1. AllLookups \in Todo /\ AddressOnly \in Todo
  BY DEF Todo
<1>2. CASE Go(r, "resolved") /\ UNCHANGED chain
  BY <1>2 DEF Go, DiscoveryTypeOK, Stage
<1>3. ASSUME NEW n \in {"own", "delegate"}, NEW t \in Todo, LookUp(r, n, t)
      PROVE  /\ stage' \in [Request -> Stage]
             /\ chain' \in [Request -> [of : {"own", "delegate"}, todo : Todo]]
             /\ stage'[r] \in {"resolved", "lookup"}
             /\ \A q \in Request : q # r => stage'[q] = stage[q]
  BY <1>3 DEF LookUp, Go, DiscoveryTypeOK, Stage
<1> QED BY <1>1, <1>2, <1>3 DEF Process

(* A request that ends leaves nothing behind. *)
LEMMA FinishType ==
    ASSUME DiscoveryTypeOK, NEW r \in Request, Finish(r)
    PROVE  /\ stage' \in [Request -> Stage]
           /\ chain' \in [Request -> [of : {"own", "delegate"}, todo : Todo]]
           /\ held' \in [Request -> [answer : Answer, age : Nat, ttl : Nat]]
           /\ outrun' \in [Request -> BOOLEAN]
<1>1. NothingHeld \in [answer : Answer, age : Nat, ttl : Nat]
  BY DEF NothingHeld, Answer
<1>2. NoLookups \in [of : {"own", "delegate"}, todo : Todo]
  BY DEF NoLookups, Todo
<1>3. stage' \in [Request -> Stage]
  BY DEF Finish, Go, DiscoveryTypeOK, Stage
<1> QED BY <1>1, <1>2, <1>3 DEF Finish, DiscoveryTypeOK

(* Every step keeps the types. *)
LEMMA TypeStep ==
    ASSUME DiscoveryTypeOK, [DiscoveryNext]_discoveryVars
    PROVE  DiscoveryTypeOK'
<1> USE DiscoveryAssumption, DelayAssumption
<1>1. ASSUME NEW r \in Request, Ask(r) PROVE DiscoveryTypeOK'
  BY <1>1 DEF Ask, Go, DiscoveryTypeOK, Stage
<1>2. ASSUME NEW r \in Request, CheckError(r) PROVE DiscoveryTypeOK'
  <2>1. CASE Finish(r)
    BY <1>2, <2>1, FinishType DEF CheckError, DiscoveryTypeOK
  <2> QED BY <1>2, <2>1 DEF CheckError, Go, DiscoveryTypeOK, Stage
<1>3. ASSUME NEW r \in Request, CheckBackoff(r) PROVE DiscoveryTypeOK'
  <2>1. CASE backoff.left > 0
    BY <1>3, <2>1, FinishType DEF CheckBackoff, DiscoveryTypeOK
  <2>2. CASE ~(backoff.left > 0)
    <3>1. AddressOnly \in Todo
      BY DEF Todo
    <3>2. /\ stage' \in [Request -> Stage]
          /\ chain' \in [Request -> [of : {"own", "delegate"}, todo : Todo]]
      <4>1. CASE LookUp(r, "own", AddressOnly)
        BY <3>1, <4>1, LookUpType
      <4>2. CASE UNCHANGED chain /\ \E t \in Stage : Go(r, t)
        BY <4>2 DEF Go, DiscoveryTypeOK
      <4> QED BY <1>3, <2>2, <4>1, <4>2 DEF CheckBackoff, DiscoveryTypeOK, NameKind, Stage
    <3> QED BY <1>3, <2>2, <3>2 DEF CheckBackoff, DiscoveryTypeOK
  <2> QED BY <2>1, <2>2
<1>4. ASSUME NEW r \in Request, ReadWellKnown(r) PROVE DiscoveryTypeOK'
  <2>1. CASE wellKnown.left >= 0
    <3>1. /\ stage' \in [Request -> Stage]
          /\ chain' \in [Request -> [of : {"own", "delegate"}, todo : Todo]]
      BY <1>4, <2>1, ProcessType DEF ReadWellKnown
    <3>2. held' \in [Request -> [answer : Answer, age : Nat, ttl : Nat]]
      BY <1>4, <2>1 DEF ReadWellKnown, DiscoveryTypeOK
    <3> QED BY <1>4, <3>1, <3>2 DEF ReadWellKnown, DiscoveryTypeOK
  <2> QED BY <1>4, <2>1 DEF ReadWellKnown, Go, DiscoveryTypeOK, Stage
<1>5. ASSUME NEW r \in Request, ReadClient(r) PROVE DiscoveryTypeOK'
  <2>1. held' \in [Request -> [answer : Answer, age : Nat, ttl : Nat]]
    BY <1>5 DEF ReadClient, DiscoveryTypeOK
  <2> QED BY <1>5, <2>1 DEF ReadClient, Go, DiscoveryTypeOK, Stage
<1>6. ASSUME NEW r \in Request, Fetch(r) PROVE DiscoveryTypeOK'
  <2>1. PICK h \in [answer : Answer, age : Nat, ttl : Nat] : held' = [held EXCEPT ![r] = h]
    BY <1>6 DEF Fetch, Answer
  <2>2. held' \in [Request -> [answer : Answer, age : Nat, ttl : Nat]]
    BY <2>1 DEF DiscoveryTypeOK
  <2> QED BY <1>6, <2>2 DEF Fetch, Go, DiscoveryTypeOK, Stage
<1>7. ASSUME NEW r \in Request, InsertClient(r) PROVE DiscoveryTypeOK'
  <2>1. client' \in [answer : Answer, age : Nat, left : Nat]
    BY <1>7 DEF InsertClient, DiscoveryTypeOK
  <2>2. held' \in [Request -> [answer : Answer, age : Nat, ttl : Nat]]
    BY <1>7 DEF InsertClient, DiscoveryTypeOK
  <2> QED BY <1>7, <2>1, <2>2 DEF InsertClient, Go, DiscoveryTypeOK, Stage
<1>8. ASSUME NEW r \in Request, StoreWellKnown(r) PROVE DiscoveryTypeOK'
  <2>1. /\ stage' \in [Request -> Stage]
        /\ chain' \in [Request -> [of : {"own", "delegate"}, todo : Todo]]
    BY <1>8, ProcessType DEF StoreWellKnown
  <2> QED BY <1>8, <2>1 DEF StoreWellKnown, DiscoveryTypeOK
<1>9. ASSUME NEW r \in Request, LookupFound(r) PROVE DiscoveryTypeOK'
  BY <1>9 DEF LookupFound, Go, NoLookups, Todo, DiscoveryTypeOK, Stage
<1>10. ASSUME NEW r \in Request, LookupMissed(r) PROVE DiscoveryTypeOK'
  <2>1. /\ stage' \in [Request -> Stage]
        /\ chain' \in [Request -> [of : {"own", "delegate"}, todo : Todo]]
    <3>1. chain[r].todo \in Todo /\ chain[r].of \in {"own", "delegate"} /\ AllLookups \in Todo
      BY DEF DiscoveryTypeOK, Todo
    <3>2. CASE Len(chain[r].todo) > 1
      BY <1>10, <3>1, <3>2, TodoTail, LookUpType DEF LookupMissed
    <3>3. CASE ~(Len(chain[r].todo) > 1) /\ chain[r].of = "delegate"
      BY <1>10, <3>1, <3>3, LookUpType DEF LookupMissed
    <3>4. CASE ~(Len(chain[r].todo) > 1) /\ chain[r].of # "delegate"
      BY <1>10, <3>4 DEF LookupMissed, Go, DiscoveryTypeOK, Stage
    <3> QED BY <3>2, <3>3, <3>4
  <2> QED BY <1>10, <2>1 DEF LookupMissed, DiscoveryTypeOK
<1>11. ASSUME NEW r \in Request, Succeed(r) PROVE DiscoveryTypeOK'
  BY <1>11, FinishType DEF Succeed, NoBackoff, DiscoveryTypeOK
<1>12. ASSUME NEW r \in Request, RecordFailure(r) PROVE DiscoveryTypeOK'
  <2> DEFINE n == IF backoff.count < MaxExponent THEN backoff.count + 1 ELSE MaxExponent
  <2>1. n \in 1..MaxExponent
    BY DEF DiscoveryTypeOK
  <2>2. 2^n \in Int
    BY <2>1
  <2>3. backoff' = [count |-> n, left |-> 2^n]
    BY <1>12 DEF RecordFailure
  <2> HIDE DEF n
  <2>4. backoff' \in [count : 0..MaxExponent, left : Int]
    BY <2>1, <2>2, <2>3
  <2>5. cut' \in BOOLEAN
    BY <1>12 DEF RecordFailure
  <2> QED BY <1>12, <2>4, <2>5 DEF RecordFailure, Go, DiscoveryTypeOK, Stage
<1>13. ASSUME NEW r \in Request, CacheError(r) PROVE DiscoveryTypeOK'
  <2>1. cut' \in BOOLEAN
    BY <1>13 DEF CacheError
  <2> QED BY <1>13, <2>1 DEF CacheError, Go, NothingHeld, NoLookups, Todo, Answer,
                             DiscoveryTypeOK, Stage
<1>14. CASE Cleanup
  BY <1>14 DEF Cleanup, NoBackoff, askVars, DiscoveryTypeOK
<1>15. CASE Tick
  <2>1. errorLeft' \in -1..ErrorTtl /\ backoff' \in [count : 0..MaxExponent, left : Int]
    BY <1>15 DEF Tick, DiscoveryTypeOK
  <2>2. wellKnown' \in [answer : Answer, age : Nat, left : -1..WellKnownTtl]
    <3>1. CASE wellKnown.left > 0
      <4>1. wellKnown' = [answer |-> wellKnown.answer, age |-> wellKnown.age + 1,
                          left |-> wellKnown.left - 1]
        BY <1>15, <3>1 DEF Tick, DiscoveryTypeOK
      <4> QED BY <3>1, <4>1 DEF DiscoveryTypeOK
    <3> QED BY <1>15, <3>1 DEF Tick, DiscoveryTypeOK, NoWellKnown, Answer
  <2>3. client' \in [answer : Answer, age : Nat, left : Nat]
    <3>1. CASE client.left > 1
      <4>1. client' = [answer |-> client.answer, age |-> client.age + 1,
                       left |-> client.left - 1]
        BY <1>15, <3>1 DEF Tick, DiscoveryTypeOK
      <4> QED BY <3>1, <4>1 DEF DiscoveryTypeOK
    <3> QED BY <1>15, <3>1 DEF Tick, DiscoveryTypeOK, NoClient, Answer
  <2> QED BY <1>15, <2>1, <2>2, <2>3 DEF Tick, askVars, DiscoveryTypeOK
<1>16. CASE DnsChanges
  BY <1>16 DEF DnsChanges, askVars, DiscoveryTypeOK
<1>17. CASE UNCHANGED discoveryVars
  BY <1>17 DEF discoveryVars, askVars, DiscoveryTypeOK
<1>18. ASSUME NEW r \in Request, Drop(r) PROVE DiscoveryTypeOK'
  <2>1. cut' \in BOOLEAN
    BY <1>18 DEF Drop
  <2> QED BY <1>18, <2>1, FinishType DEF Drop, DiscoveryTypeOK
<1> QED
  BY <1>1, <1>2, <1>3, <1>4, <1>5, <1>6, <1>7, <1>8, <1>9, <1>10, <1>11, <1>12, <1>13,
     <1>14, <1>15, <1>16, <1>17, <1>18 DEF DiscoveryNext, ResolveStep

-----------------------------------------------------------------------------
(* What a step does to the stages, the flags and the ages.                 *)

(* A step of one request moves no other request. *)
LEMMA OthersStay ==
    ASSUME DiscoveryTypeOK, NEW r \in Request, Ask(r) \/ ResolveStep(r) \/ Drop(r)
    PROVE  \A q \in Request : q # r => stage'[q] = stage[q] /\ held'[q] = held[q]
<1>1. CASE ReadWellKnown(r)
  <2>1. CASE wellKnown.left >= 0
    BY <1>1, <2>1, ProcessType DEF ReadWellKnown, DiscoveryTypeOK
  <2> QED BY <1>1, <2>1 DEF ReadWellKnown, Go, DiscoveryTypeOK
<1>2. CASE StoreWellKnown(r)
  BY <1>2, ProcessType DEF StoreWellKnown, DiscoveryTypeOK
<1>3. CASE Ask(r) \/ CheckError(r) \/ CheckBackoff(r) \/ Succeed(r) \/ CacheError(r)
           \/ Drop(r)
  <2>1. CASE Finish(r)
    BY <2>1 DEF Finish, Go, DiscoveryTypeOK
  <2>2. CASE CacheError(r)
    BY <2>2 DEF CacheError, Go, DiscoveryTypeOK
  <2>3. CASE UNCHANGED held /\ \E t \in Stage : Go(r, t)
    BY <2>3 DEF Go, DiscoveryTypeOK
  <2>4. CASE Ask(r) \/ CheckError(r) \/ Succeed(r) \/ Drop(r)
    BY <2>1, <2>3, <2>4 DEF Ask, CheckError, Succeed, Drop, Stage
  <2>5. CASE CheckBackoff(r)
    BY <2>1, <2>3, <2>5 DEF CheckBackoff, LookUp, Stage, DiscoveryTypeOK, NameKind
  <2> QED BY <1>3, <2>2, <2>4, <2>5
<1>4. CASE ReadClient(r) \/ Fetch(r) \/ InsertClient(r) \/ RecordFailure(r)
  BY <1>4 DEF ReadClient, Fetch, InsertClient, RecordFailure, Go, DiscoveryTypeOK
<1>5. CASE LookupFound(r) \/ LookupMissed(r)
  BY <1>5 DEF LookupFound, LookupMissed, LookUp, Go, DiscoveryTypeOK
<1> QED BY <1>1, <1>2, <1>3, <1>4, <1>5 DEF ResolveStep

(* A request that has passed the error cache is behind each later error. *)
LEMMA QuietStep ==
    ASSUME DiscoveryTypeOK, Quiet, [DiscoveryNext]_discoveryVars
    PROVE  Quiet'
<1>1. ASSUME NEW r \in Request, Ask(r) PROVE Quiet'
  BY <1>1 DEF Ask, Go, Quiet, DiscoveryTypeOK
<1>2. ASSUME NEW r \in Request, CheckError(r) PROVE Quiet'
  BY <1>2 DEF CheckError, Finish, Go, Quiet, DiscoveryTypeOK
<1>3. ASSUME NEW r \in Request, CheckBackoff(r) PROVE Quiet'
  BY <1>3 DEF CheckBackoff, At, Finish, LookUp, Go, Quiet, DiscoveryTypeOK, NameKind
<1>4. ASSUME NEW r \in Request, CacheError(r) PROVE Quiet'
  BY <1>4 DEF CacheError, Go, Quiet, DiscoveryTypeOK
<1>5. ASSUME NEW r \in Request, Succeed(r) \/ Drop(r) PROVE Quiet'
  BY <1>5 DEF Succeed, Drop, Finish, Go, Quiet, DiscoveryTypeOK
<1>6. ASSUME NEW r \in Request,
             \/ ReadWellKnown(r) \/ ReadClient(r) \/ Fetch(r) \/ InsertClient(r)
             \/ StoreWellKnown(r) \/ LookupFound(r) \/ LookupMissed(r) \/ RecordFailure(r)
      PROVE Quiet'
  <2>1. stage[r] \notin {"idle", "asked"}
    BY <1>6 DEF At, ReadWellKnown, ReadClient, Fetch, InsertClient, StoreWellKnown,
                LookupFound, LookupMissed, RecordFailure
  <2>2. UNCHANGED <<errorLeft, outrun>>
    BY <1>6 DEF ReadWellKnown, ReadClient, Fetch, InsertClient, StoreWellKnown,
                LookupFound, LookupMissed, RecordFailure
  <2>3. \A q \in Request : q # r => stage'[q] = stage[q]
    BY <1>6, OthersStay DEF ResolveStep
  <2> QED BY <2>1, <2>2, <2>3 DEF Quiet
<1>7. CASE Cleanup \/ DnsChanges \/ UNCHANGED discoveryVars
  BY <1>7 DEF Cleanup, DnsChanges, discoveryVars, askVars, Quiet
<1>8. CASE Tick
  BY <1>8 DEF Tick, askVars, Quiet, DiscoveryTypeOK
<1> QED BY <1>1, <1>2, <1>3, <1>4, <1>5, <1>6, <1>7, <1>8 DEF DiscoveryNext, ResolveStep

(* The cached error outlives the back-off. *)
LEMMA CoveredStep ==
    ASSUME DiscoveryTypeOK, Covered, [DiscoveryNext]_discoveryVars
    PROVE  Covered'
<1> USE DiscoveryAssumption, DelayAssumption
<1>1. ASSUME NEW r \in Request, RecordFailure(r) PROVE Covered'
  <2> DEFINE n == IF backoff.count < MaxExponent THEN backoff.count + 1 ELSE MaxExponent
  <2>1. n \in 1..MaxExponent
    BY DEF DiscoveryTypeOK
  <2>2. backoff'.left = 2^n
    BY <1>1 DEF RecordFailure
  <2>3. backoff'.left <= ErrorTtl
    BY <2>1, <2>2
  <2>4. stage'[r] = "recorded"
    BY <1>1 DEF RecordFailure, Go, DiscoveryTypeOK
  <2> QED BY <2>3, <2>4 DEF Covered
<1>2. ASSUME NEW r \in Request, CacheError(r) PROVE Covered'
  BY <1>2 DEF CacheError, Covered, DiscoveryTypeOK
<1>3. ASSUME NEW r \in Request, Succeed(r) PROVE Covered'
  BY <1>3 DEF Succeed, NoBackoff, Covered
<1>4. ASSUME NEW r \in Request,
             \/ Ask(r) \/ CheckError(r) \/ CheckBackoff(r)
             \/ ReadWellKnown(r) \/ ReadClient(r) \/ Fetch(r) \/ InsertClient(r)
             \/ StoreWellKnown(r) \/ LookupFound(r) \/ LookupMissed(r)
      PROVE Covered'
  <2>1. stage[r] # "recorded"
    BY <1>4 DEF At, Ask, CheckError, CheckBackoff, ReadWellKnown, ReadClient, Fetch,
                InsertClient, StoreWellKnown, LookupFound, LookupMissed
  <2>2. UNCHANGED <<errorLeft, backoff, cut>>
    BY <1>4 DEF Ask, CheckError, CheckBackoff, ReadWellKnown, ReadClient, Fetch,
                InsertClient, StoreWellKnown, LookupFound, LookupMissed
  <2>3. \A q \in Request : q # r => stage'[q] = stage[q]
    BY <1>4, OthersStay DEF ResolveStep
  <2> QED BY <2>1, <2>2, <2>3 DEF Covered
<1>5. CASE Cleanup
  BY <1>5 DEF Cleanup, NoBackoff, Covered
<1>6. CASE Tick
  BY <1>6 DEF Tick, askVars, Covered, DiscoveryTypeOK
<1>7. CASE DnsChanges \/ UNCHANGED discoveryVars
  BY <1>7 DEF DnsChanges, discoveryVars, askVars, Covered
<1>8. ASSUME NEW r \in Request, Drop(r) PROVE Covered'
  <2>1. UNCHANGED <<errorLeft, backoff>> /\ cut' = (cut \/ stage[r] = "recorded")
    BY <1>8 DEF Drop
  <2>2. \A q \in Request : q # r => stage'[q] = stage[q]
    BY <1>8, OthersStay
  <2> QED BY <2>1, <2>2 DEF Covered
<1> QED BY <1>1, <1>2, <1>3, <1>4, <1>5, <1>6, <1>7, <1>8 DEF DiscoveryNext, ResolveStep

(* A request's own step keeps the ages of what the others hold. *)
LEMMA AgedFromOne ==
    ASSUME DiscoveryTypeOK, Aged, NEW r \in Request,
           Ask(r) \/ ResolveStep(r) \/ Drop(r), HeldAged(r)',
           client'.left > 0 => client'.age + client'.left <= ClientTtl,
           wellKnown'.left >= 0 => wellKnown'.age + wellKnown'.left < ClientTtl + WellKnownTtl
    PROVE  Aged'
<1>1. \A q \in Request : q # r => stage'[q] = stage[q] /\ held'[q] = held[q]
  BY OthersStay
<1>2. \A q \in Request : HeldAged(q)'
  BY <1>1 DEF Aged, HeldAged
<1> QED BY <1>2 DEF Aged

(* Only three steps write an age, and none makes one too old. *)
LEMMA AgedStep ==
    ASSUME DiscoveryTypeOK, Aged, [DiscoveryNext]_discoveryVars
    PROVE  Aged'
<1> USE DiscoveryAssumption
<1>1. ASSUME NEW r \in Request, Ask(r) \/ ResolveStep(r) \/ Drop(r),
             UNCHANGED <<wellKnown, client>>, HeldAged(r)'
      PROVE  Aged'
  BY <1>1, AgedFromOne DEF Aged
<1>2. ASSUME NEW r \in Request, ResolveStep(r) \/ Drop(r),
             Finish(r), UNCHANGED <<wellKnown, client>>
      PROVE  Aged'
  <2>1. stage'[r] = "idle" /\ held'[r].age = 0
    BY <1>2 DEF Finish, Go, NothingHeld, DiscoveryTypeOK
  <2>2. HeldAged(r)'
    BY <2>1 DEF HeldAged
  <2> QED BY <1>1, <1>2, <2>2
<1>3. ASSUME NEW r \in Request, Ask(r) \/ ResolveStep(r),
             UNCHANGED <<held, wellKnown, client>>, stage'[r] \notin {"insert", "store"}
      PROVE  Aged'
  <2>1. HeldAged(r)'
    BY <1>3 DEF Aged, HeldAged
  <2> QED BY <1>1, <1>3, <2>1
<1>4. ASSUME NEW r \in Request, Ask(r) PROVE Aged'
  BY <1>3, <1>4 DEF Ask, Go, DiscoveryTypeOK
<1>5. ASSUME NEW r \in Request, CheckError(r) PROVE Aged'
  BY <1>2, <1>3, <1>5 DEF CheckError, Go, ResolveStep, DiscoveryTypeOK
<1>6. ASSUME NEW r \in Request, CheckBackoff(r) PROVE Aged'
  <2>1. CASE Finish(r)
    BY <1>2, <1>6, <2>1 DEF CheckBackoff, ResolveStep
  <2>2. CASE ~Finish(r)
    <3>1. stage'[r] \in {"failed", "resolved", "lookup", "cache"}
      BY <1>6, <2>2 DEF CheckBackoff, LookUp, Go, DiscoveryTypeOK, NameKind
    <3> QED BY <1>3, <1>6, <2>2, <3>1 DEF CheckBackoff, ResolveStep
  <2> QED BY <2>1, <2>2
<1>7. ASSUME NEW r \in Request, ReadWellKnown(r) PROVE Aged'
  <2>1. CASE wellKnown.left >= 0
    <3>1. stage'[r] \in {"resolved", "lookup"}
      BY <1>7, <2>1, ProcessType DEF ReadWellKnown
    <3>2. held'[r].age = wellKnown.age /\ UNCHANGED <<wellKnown, client>>
      BY <1>7, <2>1 DEF ReadWellKnown, DiscoveryTypeOK
    <3>3. HeldAged(r)'
      BY <2>1, <3>1, <3>2 DEF Aged, HeldAged, DiscoveryTypeOK
    <3> QED BY <1>1, <1>7, <3>2, <3>3 DEF ResolveStep
  <2>2. CASE ~(wellKnown.left >= 0)
    BY <1>3, <1>7, <2>2 DEF ReadWellKnown, Go, ResolveStep, DiscoveryTypeOK
  <2> QED BY <2>1, <2>2
<1>8. ASSUME NEW r \in Request, ReadClient(r) PROVE Aged'
  <2>1. CASE client.left > 0
    <3>1. held'[r].age = client.age /\ UNCHANGED <<wellKnown, client>>
      BY <1>8, <2>1 DEF ReadClient, DiscoveryTypeOK
    <3>2. stage'[r] = "store"
      BY <1>8, <2>1 DEF ReadClient, Go, DiscoveryTypeOK
    <3>3. client.age < ClientTtl
      BY <2>1 DEF Aged, DiscoveryTypeOK
    <3>4. HeldAged(r)'
      BY <3>1, <3>2, <3>3 DEF HeldAged, DiscoveryTypeOK
    <3> QED BY <1>1, <1>8, <3>1, <3>4 DEF ResolveStep
  <2>2. CASE ~(client.left > 0)
    BY <1>3, <1>8, <2>2 DEF ReadClient, Go, ResolveStep, DiscoveryTypeOK
  <2> QED BY <2>1, <2>2
<1>9. ASSUME NEW r \in Request, Fetch(r) PROVE Aged'
  <2>1. stage'[r] = "insert" /\ held'[r].age = 0 /\ UNCHANGED <<wellKnown, client>>
    BY <1>9 DEF Fetch, Go, DiscoveryTypeOK
  <2>2. HeldAged(r)'
    BY <2>1 DEF HeldAged
  <2> QED BY <1>1, <1>9, <2>1, <2>2 DEF ResolveStep
<1>10. ASSUME NEW r \in Request, InsertClient(r) PROVE Aged'
  <2>1. /\ stage[r] = "insert" /\ stage'[r] = "store" /\ held'[r].age = held[r].age
        /\ client'.age = held[r].age /\ client'.left <= ClientTtl
        /\ client'.left \in Nat /\ UNCHANGED wellKnown
    BY <1>10 DEF InsertClient, At, Go, DiscoveryTypeOK
  <2>2. held[r].age = 0
    BY <2>1 DEF Aged, HeldAged
  <2>3. HeldAged(r)'
    BY <2>1, <2>2 DEF HeldAged
  <2>4. client'.age + client'.left <= ClientTtl
    BY <2>1, <2>2
  <2> QED BY <1>10, <2>1, <2>3, <2>4, AgedFromOne DEF Aged, ResolveStep
<1>11. ASSUME NEW r \in Request, StoreWellKnown(r) PROVE Aged'
  <2>1. stage'[r] \in {"resolved", "lookup"}
    BY <1>11, ProcessType DEF StoreWellKnown
  <2>2. /\ stage[r] = "store" /\ wellKnown'.age = held[r].age
        /\ wellKnown'.left = WellKnownTtl /\ UNCHANGED <<held, client>>
    BY <1>11 DEF StoreWellKnown, At
  <2>3. held[r].age \in Nat /\ held[r].age < ClientTtl
    BY <2>2 DEF Aged, HeldAged, DiscoveryTypeOK
  <2>4. HeldAged(r)'
    BY <2>1, <2>2, <2>3 DEF HeldAged
  <2>5. wellKnown'.age + wellKnown'.left < ClientTtl + WellKnownTtl
    BY <2>2, <2>3
  <2> QED BY <1>11, <2>2, <2>4, <2>5, AgedFromOne DEF Aged, ResolveStep
<1>12. ASSUME NEW r \in Request, LookupFound(r) \/ LookupMissed(r) \/ RecordFailure(r)
       PROVE Aged'
  <2>1. stage'[r] \in {"lookup", "resolved", "failed", "recorded"}
    BY <1>12 DEF LookupFound, LookupMissed, RecordFailure, LookUp, Go, DiscoveryTypeOK
  <2> QED BY <1>3, <1>12, <2>1 DEF LookupFound, LookupMissed, RecordFailure, ResolveStep
<1>13. ASSUME NEW r \in Request, Succeed(r) \/ Drop(r) PROVE Aged'
  BY <1>2, <1>13 DEF Succeed, Drop, ResolveStep
<1>14. ASSUME NEW r \in Request, CacheError(r) PROVE Aged'
  <2>1. stage'[r] = "idle" /\ held'[r].age = 0 /\ UNCHANGED <<wellKnown, client>>
    BY <1>14 DEF CacheError, Go, NothingHeld, DiscoveryTypeOK
  <2>2. HeldAged(r)'
    BY <2>1 DEF HeldAged
  <2> QED BY <1>1, <1>14, <2>1, <2>2 DEF ResolveStep
<1>15. CASE Tick
  <2>1. \A q \in Request : HeldAged(q)'
    BY <1>15 DEF Tick, askVars, Aged, HeldAged
  <2>2. wellKnown'.left >= 0 => wellKnown'.age + wellKnown'.left < ClientTtl + WellKnownTtl
    BY <1>15 DEF Tick, NoWellKnown, Aged, DiscoveryTypeOK
  <2>3. client'.left > 0 => client'.age + client'.left <= ClientTtl
    BY <1>15 DEF Tick, NoClient, Aged, DiscoveryTypeOK
  <2> QED BY <2>1, <2>2, <2>3 DEF Aged
<1>16. CASE Cleanup \/ DnsChanges \/ UNCHANGED discoveryVars
  BY <1>16 DEF Cleanup, DnsChanges, discoveryVars, askVars, Aged, HeldAged
<1> QED
  BY <1>4, <1>5, <1>6, <1>7, <1>8, <1>9, <1>10, <1>11, <1>12, <1>13, <1>14, <1>15, <1>16
  DEF DiscoveryNext, ResolveStep

-----------------------------------------------------------------------------
(* The theorems.                                                           *)

(* The inductive invariant of the resolver holds in every behaviour. *)
THEOREM DiscoveryInvariance == DiscoverySpec => []DiscoveryInv
<1>1. DiscoveryInit => DiscoveryInv
  <2> SUFFICES ASSUME DiscoveryInit PROVE DiscoveryInv
    OBVIOUS
  <2> USE DiscoveryAssumption DEF DiscoveryInit, NothingHeld, NoLookups, NoBackoff,
          NoWellKnown, NoClient
  <2>1. DiscoveryTypeOK
    <3>1. cut \in BOOLEAN
      OBVIOUS
    <3> QED BY <3>1 DEF DiscoveryTypeOK, Stage, Todo, Answer
  <2>2. Quiet /\ Covered
    BY DEF Quiet, Covered
  <2>3. Aged
    BY DEF Aged, HeldAged
  <2> QED BY <2>1, <2>2, <2>3 DEF DiscoveryInv
<1>2. DiscoveryInv /\ [DiscoveryNext]_discoveryVars => DiscoveryInv'
  BY TypeStep, QuietStep, CoveredStep, AgedStep DEF DiscoveryInv
<1> QED BY <1>1, <1>2, PTL DEF DiscoverySpec

(* The resolver's tables and requests keep their types. *)
THEOREM DiscoveryTypes == DiscoverySpec => []DiscoveryTypeOK
<1>1. DiscoveryInv => DiscoveryTypeOK
  BY DEF DiscoveryInv
<1> QED BY <1>1, DiscoveryInvariance, PTL

(* No request made after an error was cached contacts the server while     *)
(* that error is good.                                                     *)
THEOREM KnownFailureIsRespected == DiscoverySpec => []QuietAfterFailure
<1>1. DiscoveryInv => QuietAfterFailure
  BY DEF DiscoveryInv, Quiet, QuietAfterFailure
<1> QED BY <1>1, DiscoveryInvariance, PTL

(* The exponential back-off refuses nothing that the cached error would    *)
(* not, except between record_failure and cache_error or when a request    *)
(* was dropped there.                                                      *)
THEOREM BackoffIsCovered == DiscoverySpec => []BackoffOnlyInWindow
<1>1. DiscoveryInv => BackoffOnlyInWindow
  BY DEF DiscoveryInv, Covered, BackoffOnlyInWindow
<1> QED BY <1>1, DiscoveryInvariance, PTL

(* No delegation in use spent more than both lifetimes in the caches,      *)
(* whatever lifetime its headers gave, wherever requests were dropped and  *)
(* however long they took.                                                 *)
THEOREM DelegationsAreFresh == DiscoverySpec => []DelegationFresh
<1>1. DiscoveryInv => DelegationFresh
  BY DEF DiscoveryInv, Aged, HeldAged, DelegationFresh
<1> QED BY <1>1, DiscoveryInvariance, PTL
=============================================================================
