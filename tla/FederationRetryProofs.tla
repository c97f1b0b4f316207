------------------------ MODULE FederationRetryProofs ------------------------
(* Theorems about FederationRetry: the circuit breaker for any number of *)
(* concurrent handshakes, attempts, threshold and recovery time.         *)
EXTENDS FederationRetry, TLAPS

(* The requests a handshake may still send without asking the breaker. *)
Remaining(o) ==
    CASE phase[o] \in {"request", "wait"} -> left[o] + 1
      [] phase[o] = "record"              -> left[o]
      [] OTHER                            -> 0

(* While the breaker is open, what a handshake has sent and may still send *)
(* are the attempts of one request; otherwise nothing is counted.          *)
Leaks ==
    \A o \in Op :
        /\ state # "Open" => leak[o] = 0
        /\ leak[o] + Remaining(o) <= MaxRetries + 1

RetryInv == RetryTypeOK /\ BreakerConsistent /\ Leaks

-----------------------------------------------------------------------------

(* A handshake that ends has the types of one that has not begun. *)
LEMMA AbandonType ==
    ASSUME RetryTypeOK, NEW o \in Op, Abandon(o)
    PROVE  /\ step' \in [Op -> Step] /\ phase' \in [Op -> Phase]
           /\ left' \in [Op -> 0..MaxRetries] /\ out' \in [Op -> Outcome]
           /\ Remaining(o)' = 0
           /\ \A p \in Op : p # o => Remaining(p)' = Remaining(p)
<1> USE RetryAssumption DEF RetryTypeOK
<1>1. step' \in [Op -> Step] /\ out' \in [Op -> Outcome]
  BY DEF Abandon, Step, Outcome
<1>2. phase' \in [Op -> Phase] /\ left' \in [Op -> 0..MaxRetries]
  BY DEF Abandon, Go, Phase
<1>3. phase'[o] = "idle" /\ \A p \in Op : p # o => phase'[p] = phase[p] /\ left'[p] = left[p]
  BY DEF Abandon, Go
<1> QED BY <1>1, <1>2, <1>3 DEF Remaining

(* Every step keeps the types. *)
LEMMA RetryTypeStep ==
    ASSUME RetryTypeOK, [RetryNext]_retryVars
    PROVE  RetryTypeOK'
<1> USE RetryAssumption DEF RetryTypeOK
<1>1. ASSUME NEW o \in Op, BeginMake(o) \/ BeginInvite(o) PROVE RetryTypeOK'
  BY <1>1 DEF BeginMake, BeginInvite, Go, breakerVars, Step, Phase, Outcome
<1>2. ASSUME NEW o \in Op, Discover(o) PROVE RetryTypeOK'
  <2>1. CASE Abandon(o)
    BY <1>2, <2>1, AbandonType DEF Discover, breakerVars
  <2> QED BY <1>2, <2>1 DEF Discover, Go, breakerVars, Phase
<1>3. ASSUME NEW o \in Op, Admit(o) PROVE RetryTypeOK'
  BY <1>3 DEF Admit, Counted, Go, Phase
<1>4. ASSUME NEW o \in Op, Refuse(o) PROVE RetryTypeOK'
  BY <1>4, AbandonType DEF Refuse, breakerVars
<1>5. ASSUME NEW o \in Op, NEW a \in Outcome, Attempt(o, a) PROVE RetryTypeOK'
  BY <1>5 DEF Attempt, Go, breakerVars, Phase
<1>6. ASSUME NEW o \in Op, Answered(o) PROVE RetryTypeOK'
  BY <1>6 DEF Answered, RecordSuccess, Counted, Go, Phase
<1>7. ASSUME NEW o \in Op, Failed(o) PROVE RetryTypeOK'
  <2>1. /\ state' \in {"Closed", "Open", "HalfOpen"} /\ failures' \in 0..Threshold
        /\ elapsed' \in 0..(Recovery + 1) /\ leak' \in [Op -> Nat]
    BY <1>7 DEF Failed, RecordFailure, Counted
  <2>2. CASE Abandon(o)
    BY <1>7, <2>1, <2>2, AbandonType
  <2>3. CASE ~Abandon(o)
    BY <1>7, <2>1, <2>3 DEF Failed, Go, Phase
  <2> QED BY <2>2, <2>3
<1>8. ASSUME NEW o \in Op, Retry(o) PROVE RetryTypeOK'
  BY <1>8 DEF Retry, Go, breakerVars, Phase
<1>9. ASSUME NEW o \in Op, SignTemplate(o) \/ ReturnBody(o) PROVE RetryTypeOK'
  BY <1>9 DEF SignTemplate, ReturnBody, Go, breakerVars, Phase, Step, Outcome
<1>13. ASSUME NEW o \in Op, ParseFailed(o) PROVE RetryTypeOK'
  BY <1>13, AbandonType DEF ParseFailed, breakerVars
<1>10. CASE ResetBreaker
  BY <1>10 DEF ResetBreaker, Counted, opVars
<1>11. CASE Tick
  BY <1>11 DEF Tick, opVars
<1>12. CASE UNCHANGED retryVars
  BY <1>12 DEF retryVars, breakerVars, opVars
<1> QED
  BY <1>1, <1>2, <1>3, <1>4, <1>5, <1>6, <1>7, <1>8, <1>9, <1>10, <1>11, <1>12, <1>13
  DEF RetryNext, OpStep

(* Every step keeps the breaker's state and count in agreement. *)
LEMMA BreakerStep ==
    ASSUME RetryTypeOK, BreakerConsistent, [RetryNext]_retryVars
    PROVE  BreakerConsistent'
<1> USE RetryAssumption DEF RetryTypeOK, BreakerConsistent
<1>1. ASSUME NEW o \in Op, Admit(o) PROVE BreakerConsistent'
  BY <1>1 DEF Admit
<1>2. ASSUME NEW o \in Op, Answered(o) PROVE BreakerConsistent'
  BY <1>2 DEF Answered, RecordSuccess
<1>3. ASSUME NEW o \in Op, Failed(o) PROVE BreakerConsistent'
  BY <1>3 DEF Failed, RecordFailure
<1>4. CASE ResetBreaker
  BY <1>4 DEF ResetBreaker
<1>5. ASSUME UNCHANGED <<state, failures>> PROVE BreakerConsistent'
  BY <1>5
<1> QED
  BY <1>1, <1>2, <1>3, <1>4, <1>5
  DEF RetryNext, OpStep, BeginMake, BeginInvite, Discover, Refuse, Attempt, Retry,
      SignTemplate, ReturnBody, ParseFailed, Tick, retryVars, breakerVars

(* Every step keeps the bound on what passes an open breaker. *)
LEMMA LeaksStep ==
    ASSUME RetryTypeOK, RetryTypeOK', Leaks, [RetryNext]_retryVars
    PROVE  Leaks'
<1> USE RetryAssumption DEF RetryTypeOK
(* The count stays or is cleared, and nobody may send more than before. *)
<1>1. ASSUME Counted, \A p \in Op : Remaining(p)' <= MaxRetries + 1,
             state' = "Open" => \A p \in Op : Remaining(p)' <= Remaining(p)
      PROVE  Leaks'
  <2> SUFFICES ASSUME NEW p \in Op
               PROVE  /\ state' # "Open" => leak'[p] = 0
                      /\ leak'[p] + Remaining(p)' <= MaxRetries + 1
    BY DEF Leaks
  <2>1. Remaining(p) \in Nat /\ Remaining(p)' \in Nat
    BY DEF Remaining
  <2> QED BY <1>1, <2>1 DEF Counted, Leaks
<1>2. \A p \in Op : Remaining(p) \in Nat /\ Remaining(p) <= MaxRetries + 1
  BY DEF Remaining
<1>3. \A p \in Op : Remaining(p)' \in Nat /\ Remaining(p)' <= MaxRetries + 1
  BY DEF Remaining
<1>4. ASSUME UNCHANGED <<state, leak>>, \A p \in Op : Remaining(p)' <= Remaining(p)
      PROVE  Leaks'
  BY <1>2, <1>3, <1>4 DEF Leaks
<1>5. ASSUME NEW o \in Op, Abandon(o) PROVE \A p \in Op : Remaining(p)' <= Remaining(p)
  BY <1>2, <1>5, AbandonType
<1>6. ASSUME NEW o \in Op, BeginMake(o) \/ BeginInvite(o) PROVE Leaks'
  BY <1>4, <1>6 DEF BeginMake, BeginInvite, Go, Remaining, breakerVars
<1>7. ASSUME NEW o \in Op, Discover(o) PROVE Leaks'
  <2>1. CASE Abandon(o)
    BY <1>4, <1>5, <1>7, <2>1 DEF Discover, breakerVars
  <2> QED BY <1>4, <1>7, <2>1 DEF Discover, Go, Remaining, breakerVars
<1>8. ASSUME NEW o \in Op, Admit(o) PROVE Leaks'
  BY <1>1, <1>3, <1>8 DEF Admit
<1>9. ASSUME NEW o \in Op, Refuse(o) PROVE Leaks'
  BY <1>4, <1>5, <1>9 DEF Refuse, breakerVars
<1>10. ASSUME NEW o \in Op, NEW a \in Outcome, Attempt(o, a) PROVE Leaks'
  <2>1. Remaining(o) = left[o] + 1 /\ Remaining(o)' = left[o]
    BY <1>10 DEF Attempt, Go, Remaining
  <2>2. \A p \in Op : p # o => Remaining(p)' = Remaining(p)
    BY <1>10 DEF Attempt, Go, Remaining
  <2>3. UNCHANGED state /\ leak' = IF state = "Open" THEN [leak EXCEPT ![o] = @ + 1] ELSE leak
    BY <1>10 DEF Attempt, breakerVars
  <2> QED BY <1>2, <1>3, <2>1, <2>2, <2>3 DEF Leaks
<1>11. ASSUME NEW o \in Op, Answered(o) PROVE Leaks'
  BY <1>1, <1>3, <1>11 DEF Answered, RecordSuccess
<1>12. ASSUME NEW o \in Op, Failed(o) PROVE Leaks'
  <2>1. \A p \in Op : Remaining(p)' <= Remaining(p)
    <3>1. CASE Abandon(o)
      BY <1>5, <3>1
    <3>2. CASE ~Abandon(o)
      BY <1>12, <3>2 DEF Failed, Go, Remaining
    <3> QED BY <3>1, <3>2
  <2> QED BY <1>1, <1>3, <1>12, <2>1 DEF Failed
<1>13. ASSUME NEW o \in Op, Retry(o) PROVE Leaks'
  BY <1>4, <1>13 DEF Retry, Go, Remaining, breakerVars
<1>14. ASSUME NEW o \in Op, SignTemplate(o) \/ ReturnBody(o) PROVE Leaks'
  BY <1>4, <1>14 DEF SignTemplate, ReturnBody, Go, Remaining, breakerVars
<1>17. ASSUME NEW o \in Op, ParseFailed(o) PROVE Leaks'
  BY <1>4, <1>5, <1>17 DEF ParseFailed, breakerVars
<1>15. CASE ResetBreaker
  BY <1>1, <1>3, <1>15 DEF ResetBreaker
<1>16. CASE Tick \/ UNCHANGED retryVars
  BY <1>4, <1>16 DEF Tick, retryVars, breakerVars, opVars, Remaining
<1> QED
  BY <1>6, <1>7, <1>8, <1>9, <1>10, <1>11, <1>12, <1>13, <1>14, <1>15, <1>16, <1>17
  DEF RetryNext, OpStep

-----------------------------------------------------------------------------

(* The inductive invariant of the retry manager holds in every behaviour. *)
THEOREM RetryInvariance == RetrySpec => []RetryInv
<1>1. RetryInit => RetryInv
  BY RetryAssumption DEF RetryInit, RetryInv, RetryTypeOK, BreakerConsistent, Leaks, Remaining,
                         Step, Phase, Outcome
<1>2. RetryInv /\ [RetryNext]_retryVars => RetryInv'
  BY RetryTypeStep, BreakerStep, LeaksStep DEF RetryInv
<1> QED BY <1>1, <1>2, PTL DEF RetrySpec

(* The retry manager's variables keep their types. *)
THEOREM RetryTypes == RetrySpec => []RetryTypeOK
<1>1. RetryInv => RetryTypeOK
  BY DEF RetryInv
<1> QED BY <1>1, RetryInvariance, PTL

(* A closed breaker is below the threshold, any other one at it. *)
THEOREM BreakerIsConsistent == RetrySpec => []BreakerConsistent
<1>1. RetryInv => BreakerConsistent
  BY DEF RetryInv
<1> QED BY <1>1, RetryInvariance, PTL

(* Per handshake, at most the attempts of one request pass an open breaker. *)
THEOREM LeakIsBounded == RetrySpec => []LeakBounded
<1>1. RetryInv => LeakBounded
  <2> SUFFICES ASSUME RetryInv, NEW o \in Op PROVE leak[o] <= MaxRetries + 1
    BY DEF LeakBounded
  <2>1. leak[o] \in Nat /\ Remaining(o) \in Nat
    BY RetryAssumption DEF RetryInv, RetryTypeOK, Remaining
  <2>2. leak[o] + Remaining(o) <= MaxRetries + 1
    BY DEF RetryInv, Leaks
  <2> QED BY <2>1, <2>2, RetryAssumption
<1> QED BY <1>1, RetryInvariance, PTL
=============================================================================
