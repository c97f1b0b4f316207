--------------------------- MODULE FederationRetry ---------------------------
(***************************************************************************)
(* The membership handshakes with another server, their retries and the    *)
(* server's circuit breaker: FederationRetryManager of                     *)
(* packages/server/src/federation/membership_federation.rs.                *)
(*                                                                         *)
(* Breakers are kept per server, so one server is enough.  Handshakes with *)
(* it run concurrently.  A handshake is split where it awaits: discovery,  *)
(* the write lock of the breakers, the HTTP request, the sleep before the  *)
(* next attempt.                                                           *)
(***************************************************************************)
EXTENDS Naturals

CONSTANTS
    Op,          \* the handshakes that may run at once
    MaxRetries,  \* attempts after the first, 3 by default
    Threshold,   \* failures that open the breaker, 5 by default
    Recovery     \* units of time an open breaker refuses for, 60 s by default

ASSUME RetryAssumption ==
    MaxRetries \in Nat /\ Threshold \in Nat \ {0} /\ Recovery \in Nat

VARIABLES
    state,    \* CircuitBreaker.state
    failures, \* CircuitBreaker.failure_count; Threshold stands for more
    elapsed,  \* time since last_failure_time; Recovery + 1 stands for more
    step,     \* the request of the handshake under way
    phase,    \* what each handshake waits for
    left,     \* the attempts it has after this one
    out,      \* the outcome of its last request
    leak      \* the requests it sent since the breaker opened

breakerVars == <<state, failures, elapsed>>
opVars == <<step, phase, left, out>>
retryVars == <<breakerVars, opVars, leak>>

Step == {"make", "send", "invite"}

Phase == {"idle", "discover", "admit", "request", "record", "wait", "parse", "ok"}

(* A response, of whatever status, or none: nobody looks at the status. *)
Outcome == {"none", "response", "transport"}

RetryTypeOK ==
    /\ state \in {"Closed", "Open", "HalfOpen"}
    /\ failures \in 0..Threshold
    /\ elapsed \in 0..(Recovery + 1)
    /\ step \in [Op -> Step]
    /\ phase \in [Op -> Phase]
    /\ left \in [Op -> 0..MaxRetries]
    /\ out \in [Op -> Outcome]
    /\ leak \in [Op -> Nat]

RetryInit ==
    /\ state = "Closed"
    /\ failures = 0
    /\ elapsed = Recovery + 1
    /\ step = [o \in Op |-> "make"]
    /\ phase = [o \in Op |-> "idle"]
    /\ left = [o \in Op |-> 0]
    /\ out = [o \in Op |-> "none"]
    /\ leak = [o \in Op |-> 0]

-----------------------------------------------------------------------------
(* Helpers.                                                                *)

Go(o, p) == phase' = [phase EXCEPT ![o] = p]

(* The handshake returns an error. *)
Abandon(o) ==
    /\ Go(o, "idle")
    /\ out' = [out EXCEPT ![o] = "none"]
    /\ left' = [left EXCEPT ![o] = 0]
    /\ step' = [step EXCEPT ![o] = "make"]

(* send() gives an error only for a request without a response: a response *)
(* with an error status is Ok, as no request function calls                *)
(* error_for_status.  So categorize_error never sees a status and never    *)
(* answers Permanent.                                                      *)
IsError(o) == out[o] = "transport"

(* The requests sent while the breaker is open are counted. *)
Counted == leak' = IF state' = "Open" THEN leak ELSE [o \in Op |-> 0]

-----------------------------------------------------------------------------
(* The circuit breaker.                                                    *)

(* Mutant: the failures are not forgotten. *)
RecordSuccessKeepsCount ==
    /\ state' = "Closed"
    /\ UNCHANGED <<failures, elapsed>>

(* record_success *)
RecordSuccess ==
    /\ state' = "Closed"
    /\ failures' = 0
    /\ UNCHANGED elapsed

(* record_failure *)
RecordFailure ==
    /\ failures' = IF failures < Threshold THEN failures + 1 ELSE Threshold
    /\ elapsed' = 0
    /\ state' = IF failures + 1 >= Threshold THEN "Open" ELSE state

(* should_allow_request.  An open breaker has a last_failure_time. *)
Allowed == state # "Open" \/ elapsed > Recovery

-----------------------------------------------------------------------------
(* The handshakes.                                                         *)

(* federation_join_request and federation_leave_request: make_*, send_*. *)
BeginMake(o) ==
    /\ phase[o] \in {"idle", "ok"}
    /\ step' = [step EXCEPT ![o] = "make"]
    /\ out' = [out EXCEPT ![o] = "none"]
    /\ Go(o, "discover")
    /\ UNCHANGED <<breakerVars, left, leak>>

(* federation_invite_request: a single request. *)
BeginInvite(o) ==
    /\ phase[o] \in {"idle", "ok"}
    /\ step' = [step EXCEPT ![o] = "invite"]
    /\ out' = [out EXCEPT ![o] = "none"]
    /\ Go(o, "discover")
    /\ UNCHANGED <<breakerVars, left, leak>>

(* discover_server, and the Authorization header of the first request *)
Discover(o) ==
    /\ phase[o] = "discover"
    /\ \/ Go(o, "admit") /\ UNCHANGED <<step, left, out>>
       \/ Abandon(o)
    /\ UNCHANGED <<breakerVars, leak>>

(* retry_federation_request asks the breaker, once for all attempts. *)
Admit(o) ==
    /\ phase[o] = "admit"
    /\ Allowed
    /\ state' = IF state = "Open" THEN "HalfOpen" ELSE state
    /\ left' = [left EXCEPT ![o] = MaxRetries]
    /\ Go(o, "request")
    /\ Counted
    /\ UNCHANGED <<failures, elapsed, step, out>>

(* Mutant: a refused request counts as a failure. *)
RefuseAndRecord(o) ==
    /\ phase[o] = "admit"
    /\ ~Allowed
    /\ RecordFailure
    /\ Abandon(o)
    /\ UNCHANGED leak

(* "Circuit breaker open for server", M_UNAVAILABLE *)
Refuse(o) ==
    /\ phase[o] = "admit"
    /\ ~Allowed
    /\ Abandon(o)
    /\ UNCHANGED <<breakerVars, leak>>

(* request_fn().await *)
Attempt(o, a) ==
    /\ phase[o] = "request"
    /\ a \in Outcome \ {"none"}
    /\ out' = [out EXCEPT ![o] = a]
    /\ leak' = IF state = "Open" THEN [leak EXCEPT ![o] = @ + 1] ELSE leak
    /\ Go(o, "record")
    /\ UNCHANGED <<breakerVars, step, left>>

Answered(o) ==
    /\ phase[o] = "record"
    /\ ~IsError(o)
    /\ RecordSuccess
    /\ Counted
    /\ left' = [left EXCEPT ![o] = 0]
    /\ Go(o, "parse")
    /\ UNCHANGED <<step, out>>

(* Mutant: the attempts are not counted down. *)
FailedForever(o) ==
    /\ phase[o] = "record"
    /\ IsError(o)
    /\ RecordFailure
    /\ Counted
    /\ Go(o, "wait")
    /\ UNCHANGED <<step, left, out>>

(* Mutant: one attempt too many. *)
FailedOnceMore(o) ==
    /\ phase[o] = "record"
    /\ IsError(o)
    /\ RecordFailure
    /\ Counted
    /\ IF left[o] >= 0
       THEN /\ Go(o, "wait")
            /\ left' = [left EXCEPT ![o] = @ - 1]
            /\ UNCHANGED <<step, out>>
       ELSE Abandon(o)

(* A temporary error or a timeout: recorded, and tried again after         *)
(* calculate_backoff_delay while there are attempts left.                  *)
Failed(o) ==
    /\ phase[o] = "record"
    /\ IsError(o)
    /\ RecordFailure
    /\ Counted
    /\ IF left[o] > 0
       THEN /\ Go(o, "wait")
            /\ left' = [left EXCEPT ![o] = @ - 1]
            /\ UNCHANGED <<step, out>>
       ELSE Abandon(o)

(* sleep(delay) ends. *)
Retry(o) ==
    /\ phase[o] = "wait"
    /\ Go(o, "request")
    /\ UNCHANGED <<breakerVars, step, left, out, leak>>

(* The body of make_* becomes a signed event, which send_* delivers, also  *)
(* that of an error status when it has the shape of a template.            *)
SignTemplate(o) ==
    /\ phase[o] = "parse"
    /\ step[o] = "make"
    /\ step' = [step EXCEPT ![o] = "send"]
    /\ out' = [out EXCEPT ![o] = "none"]
    /\ Go(o, "admit")
    /\ UNCHANGED <<breakerVars, left, leak>>

(* The body of the last response is returned as it is. *)
ReturnBody(o) ==
    /\ phase[o] = "parse"
    /\ step[o] # "make"
    /\ Go(o, "ok")
    /\ UNCHANGED <<breakerVars, step, left, out, leak>>

(* The body is not JSON, or the template makes no event that can be signed. *)
ParseFailed(o) ==
    /\ phase[o] = "parse"
    /\ Abandon(o)
    /\ UNCHANGED <<breakerVars, leak>>

(* reset_circuit_breaker *)
ResetBreaker ==
    /\ state' = "Closed" /\ failures' = 0 /\ elapsed' = Recovery + 1
    /\ Counted
    /\ UNCHANGED opVars

Tick ==
    /\ elapsed <= Recovery
    /\ elapsed' = elapsed + 1
    /\ UNCHANGED <<state, failures, opVars, leak>>

OpStep(o) ==
    \/ Discover(o) \/ Admit(o) \/ Refuse(o)
    \/ \E a \in Outcome : Attempt(o, a)
    \/ Answered(o) \/ Failed(o) \/ Retry(o)
    \/ SignTemplate(o) \/ ReturnBody(o) \/ ParseFailed(o)

RetryNext ==
    \/ \E o \in Op : BeginMake(o) \/ BeginInvite(o) \/ OpStep(o)
    \/ ResetBreaker
    \/ Tick

RetrySpec == RetryInit /\ [][RetryNext]_retryVars

(* Requests time out and sleeps end, so a handshake goes on; time passes. *)
RetryFairSpec ==
    /\ RetrySpec
    /\ \A o \in Op : WF_retryVars(OpStep(o))
    /\ WF_retryVars(Tick)

-----------------------------------------------------------------------------
(* Properties.                                                             *)

(* The breaker's state and its count agree, whatever order the outcomes of *)
(* concurrent handshakes are recorded in: a closed breaker is below the    *)
(* threshold, and one that is open or half open has stayed at it, so that  *)
(* the first failure of a half-open breaker opens it again.                *)
BreakerConsistent ==
    /\ state = "Closed" => failures < Threshold
    /\ state # "Closed" => failures >= Threshold

(* The breaker is asked once per request, not per attempt, so a handshake  *)
(* that was admitted goes on while the breaker is open, but only with the  *)
(* attempts of that one request, and nothing else reaches the server.      *)
LeakBounded ==
    \A o \in Op : leak[o] <= MaxRetries + 1

(* An open breaker does not stay open for ever while handshakes are tried: *)
(* those it refuses do not prolong it, and those under way run out of      *)
(* attempts.                                                               *)
Recovers ==
    (\E o \in Op : []<>(phase[o] = "admit")) => (state = "Open" ~> state # "Open")
=============================================================================
