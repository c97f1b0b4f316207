--------------------------- MODULE ServerDiscovery ---------------------------
(***************************************************************************)
(* Finding the address of another homeserver: MatrixDnsResolver of         *)
(* packages/server/src/federation/dns_resolver.rs with its error cache,    *)
(* back-off and well-known cache, and WellKnownClient of                   *)
(* packages/server/src/federation/well_known_client.rs with its own cache. *)
(*                                                                         *)
(* All tables are keyed by the server's name and never read under another  *)
(* one, so one name is enough.  Requests for it run concurrently; a        *)
(* request is split at every await, and stage names what it does next.     *)
(*                                                                         *)
(* Time is counted down: a table holds how long its entry is still good    *)
(* for (expires_at - now), and Tick takes one unit off all of them.  A     *)
(* table that holds no entry reads as one that holds an expired entry.     *)
(***************************************************************************)
EXTENDS Integers, Sequences

CONSTANTS
    Request,        \* the requests that may run at once
    MaxExponent,    \* the delay doubles up to 2^MaxExponent, 2^10 s in the code
    ErrorTtl,       \* how long an error is cached, one hour
    WellKnownTtl,   \* how long the resolver caches an answer, 24 hours
    ClientTtl,      \* time_to_live of the client's cache, one hour
    HeaderTtl,      \* lifetimes that the answer's headers may give
    Delegation,     \* the kinds of names that servers delegate to
    Retention       \* cleanup_cache drops a back-off this long after its end

(* Names and delegated names: an unusable one, an IP literal, a host name  *)
(* with a port, a host name alone.                                         *)
NameKind == {"invalid", "ip", "port", "host"}

ASSUME DiscoveryAssumption ==
    /\ MaxExponent \in Nat \ {0}
    /\ ErrorTtl \in Nat /\ WellKnownTtl \in Nat /\ ClientTtl \in Nat \ {0}
    /\ HeaderTtl \subseteq Nat /\ HeaderTtl # {}
    /\ Delegation \subseteq NameKind
    /\ Retention \in Nat

(* 1024 seconds are less than one hour. *)
ASSUME DelayAssumption ==
    \A n \in 1..MaxExponent : 2^n \in Nat \ {0} /\ 2^n <= ErrorTtl

VARIABLES
    kind,      \* what parse_server_name makes of the name
    dns,       \* whether the server's own address can be looked up
    stage,     \* what each request does next
    chain,     \* the lookups it still has to try, and for which name
    held,      \* the well-known answer it works with, and how long the
               \* answer was in the caches
    outrun,    \* whether an error was cached since it was made
    cut,       \* whether one was dropped with its back-off recorded and its
               \* error not cached, and no failure was recorded since
    errorLeft, \* error_cache
    backoff,   \* backoff_state
    wellKnown, \* well_known_cache of the resolver
    client     \* cache of the well-known client

askVars == <<stage, chain, held, outrun>>
discoveryVars == <<kind, dns, askVars, cut, errorLeft, backoff, wellKnown, client>>

(* No delegation: the answer of a failed fetch as well. *)
None == "none"
Answer == Delegation \cup {None}

(* The lookups for a host name: two SRV services, then its own address. *)
AllLookups == <<"srv_fed", "srv_legacy", "address">>
AddressOnly == <<"address">>
Todo == {AllLookups, <<"srv_legacy", "address">>, AddressOnly, <<>>}

Stage == {"idle", "asked", "check", "cache", "client", "network", "insert", "store",
          "lookup", "resolved", "failed", "recorded"}

DiscoveryTypeOK ==
    /\ kind \in NameKind
    /\ dns \in {"up", "down"}
    /\ stage \in [Request -> Stage]
    /\ chain \in [Request -> [of : {"own", "delegate"}, todo : Todo]]
    /\ held \in [Request -> [answer : Answer, age : Nat, ttl : Nat]]
    /\ outrun \in [Request -> BOOLEAN]
    /\ cut \in BOOLEAN
    /\ errorLeft \in -1..ErrorTtl
    /\ backoff \in [count : 0..MaxExponent, left : Int]
    /\ wellKnown \in [answer : Answer, age : Nat, left : -1..WellKnownTtl]
    /\ client \in [answer : Answer, age : Nat, left : Nat]

NothingHeld == [answer |-> None, age |-> 0, ttl |-> 0]
NoLookups == [of |-> "own", todo |-> <<>>]
NoBackoff == [count |-> 0, left |-> 0]
NoWellKnown == [answer |-> None, age |-> 0, left |-> -1]
NoClient == [answer |-> None, age |-> 0, left |-> 0]

DiscoveryInit ==
    /\ kind \in NameKind
    /\ dns \in {"up", "down"}
    /\ stage = [r \in Request |-> "idle"]
    /\ chain = [r \in Request |-> NoLookups]
    /\ held = [r \in Request |-> NothingHeld]
    /\ outrun = [r \in Request |-> FALSE]
    /\ cut = FALSE
    /\ errorLeft = -1
    /\ backoff = NoBackoff
    /\ wellKnown = NoWellKnown
    /\ client = NoClient

-----------------------------------------------------------------------------
(* Helpers.                                                                *)

At(r, s) == stage[r] = s

Go(r, s) == stage' = [stage EXCEPT ![r] = s]

(* The request is over.  What it held is gone. *)
Finish(r) ==
    /\ Go(r, "idle")
    /\ held' = [held EXCEPT ![r] = NothingHeld]
    /\ chain' = [chain EXCEPT ![r] = NoLookups]
    /\ outrun' = [outrun EXCEPT ![r] = FALSE]

LookUp(r, name, todo) ==
    /\ Go(r, "lookup")
    /\ chain' = [chain EXCEPT ![r] = [of |-> name, todo |-> todo]]

(* process_well_known_response, and the SRV lookups for the name itself    *)
(* when there is no usable delegation.                                     *)
Process(r, answer) ==
    CASE answer = "ip"   -> Go(r, "resolved") /\ UNCHANGED chain
      [] answer = "port" -> LookUp(r, "delegate", AddressOnly)
      [] answer = "host" -> LookUp(r, "delegate", AllLookups)
      [] OTHER           -> LookUp(r, "own", AllLookups)

-----------------------------------------------------------------------------
(* resolve_server.                                                         *)

Ask(r) ==
    /\ At(r, "idle")
    /\ Go(r, "asked")
    /\ UNCHANGED <<kind, dns, cut, chain, held, outrun, errorLeft, backoff, wellKnown, client>>

(* Mutant: the error cache is not consulted. *)
CheckErrorSkipped(r) ==
    /\ At(r, "asked")
    /\ Go(r, "check")
    /\ UNCHANGED <<kind, dns, cut, chain, held, outrun,
                   errorLeft, backoff, wellKnown, client>>

(* Mutant: the error served from the cache is cached again. *)
CheckErrorAgain(r) ==
    /\ At(r, "asked")
    /\ IF errorLeft >= 0
       THEN Finish(r) /\ errorLeft' = ErrorTtl
       ELSE Go(r, "check") /\ UNCHANGED <<chain, held, outrun, errorLeft>>
    /\ UNCHANGED <<kind, dns, cut, backoff, wellKnown, client>>

(* get_cached_error: an entry is expired only after expires_at. *)
CheckError(r) ==
    /\ At(r, "asked")
    /\ IF errorLeft >= 0
       THEN Finish(r)
       ELSE Go(r, "check") /\ UNCHANGED <<chain, held, outrun>>
    /\ UNCHANGED <<kind, dns, cut, errorLeft, backoff, wellKnown, client>>

(* can_retry_server, then the first steps of resolve_server_internal. *)
CheckBackoff(r) ==
    /\ At(r, "check")
    /\ IF backoff.left > 0
       THEN Finish(r)
       ELSE /\ CASE kind = "invalid" -> Go(r, "failed") /\ UNCHANGED chain
                 [] kind = "ip"      -> Go(r, "resolved") /\ UNCHANGED chain
                 [] kind = "port"    -> LookUp(r, "own", AddressOnly)
                 [] kind = "host"    -> Go(r, "cache") /\ UNCHANGED chain
            /\ UNCHANGED <<held, outrun>>
    /\ UNCHANGED <<kind, dns, cut, errorLeft, backoff, wellKnown, client>>

(* get_cached_well_known *)
ReadWellKnown(r) ==
    /\ At(r, "cache")
    /\ IF wellKnown.left >= 0
       THEN /\ held' = [held EXCEPT ![r] = [answer |-> wellKnown.answer,
                                            age |-> wellKnown.age, ttl |-> 0]]
            /\ Process(r, wellKnown.answer)
       ELSE Go(r, "client") /\ UNCHANGED <<chain, held>>
    /\ UNCHANGED <<kind, dns, cut, outrun, errorLeft, backoff, wellKnown, client>>

(* get_well_known of the client: its cache first. *)
ReadClient(r) ==
    /\ At(r, "client")
    /\ IF client.left > 0
       THEN /\ held' = [held EXCEPT ![r] = [answer |-> client.answer,
                                            age |-> client.age, ttl |-> 0]]
            /\ Go(r, "store")
       ELSE Go(r, "network") /\ UNCHANGED held
    /\ UNCHANGED <<kind, dns, cut, chain, outrun,
                   errorLeft, backoff, wellKnown, client>>

(* fetch_well_known_from_network: a delegation with its lifetime, or an    *)
(* error after at most five redirects, which the client keeps for an hour. *)
Fetch(r) ==
    /\ At(r, "network")
    /\ \/ \E answer \in Delegation, ttl \in HeaderTtl :
             held' = [held EXCEPT ![r] = [answer |-> answer, age |-> 0, ttl |-> ttl]]
       \/ held' = [held EXCEPT ![r] = [answer |-> None, age |-> 0, ttl |-> ErrorTtl]]
    /\ Go(r, "insert")
    /\ UNCHANGED <<kind, dns, cut, chain, outrun,
                   errorLeft, backoff, wellKnown, client>>

(* Mutant: the client's cache has no time_to_live of its own. *)
InsertClientHeaderOnly(r) ==
    /\ At(r, "insert")
    /\ client' = [answer |-> held[r].answer, age |-> held[r].age, left |-> held[r].ttl]
    /\ Go(r, "store")
    /\ held' = [held EXCEPT ![r].ttl = 0]
    /\ UNCHANGED <<kind, dns, cut, chain, outrun,
                   errorLeft, backoff, wellKnown>>

(* The client caches the answer for the shorter of the two lifetimes. *)
InsertClient(r) ==
    /\ At(r, "insert")
    /\ client' = [answer |-> held[r].answer, age |-> held[r].age,
                  left |-> IF held[r].ttl < ClientTtl THEN held[r].ttl ELSE ClientTtl]
    /\ Go(r, "store")
    /\ held' = [held EXCEPT ![r].ttl = 0]
    /\ UNCHANGED <<kind, dns, cut, chain, outrun,
                   errorLeft, backoff, wellKnown>>

(* cache_well_known: delegation and failure alike, for 24 hours. *)
StoreWellKnown(r) ==
    /\ At(r, "store")
    /\ wellKnown' = [answer |-> held[r].answer, age |-> held[r].age, left |-> WellKnownTtl]
    /\ Process(r, held[r].answer)
    /\ UNCHANGED <<kind, dns, cut, held, outrun, errorLeft, backoff, client>>

(* One lookup of resolve_via_srv or resolve_hostname_to_ip succeeds. *)
LookupFound(r) ==
    /\ At(r, "lookup")
    /\ dns = "up"
    /\ Go(r, "resolved")
    /\ chain' = [chain EXCEPT ![r] = NoLookups]
    /\ UNCHANGED <<kind, dns, cut, held, outrun,
                   errorLeft, backoff, wellKnown, client>>

(* It finds no record, no target that resolves, or times out: the next one *)
(* is tried, and after those for the delegated name those for the name     *)
(* itself.                                                                 *)
LookupMissed(r) ==
    /\ At(r, "lookup")
    /\ ~(dns = "up" /\ chain[r] = [of |-> "own", todo |-> AddressOnly])
    /\ IF Len(chain[r].todo) > 1
       THEN LookUp(r, chain[r].of, Tail(chain[r].todo))
       ELSE IF chain[r].of = "delegate"
            THEN LookUp(r, "own", AllLookups)
            ELSE Go(r, "failed") /\ UNCHANGED chain
    /\ UNCHANGED <<kind, dns, cut, held, outrun,
                   errorLeft, backoff, wellKnown, client>>

(* reset_backoff_state; the error cache is left alone. *)
Succeed(r) ==
    /\ At(r, "resolved")
    /\ backoff' = NoBackoff
    /\ Finish(r)
    /\ UNCHANGED <<kind, dns, cut, errorLeft, wellKnown, client>>

(* Mutant: no cap on the exponent. *)
RecordFailureUncapped(r) ==
    /\ At(r, "failed")
    /\ backoff' = [count |-> backoff.count + 1, left |-> 2^(backoff.count + 1)]
    /\ cut' = FALSE
    /\ Go(r, "recorded")
    /\ UNCHANGED <<kind, dns, chain, held, outrun,
                   errorLeft, wellKnown, client>>

(* Mutant: the exponent is off by one. *)
RecordFailureLonger(r) ==
    /\ At(r, "failed")
    /\ LET n == IF backoff.count < MaxExponent THEN backoff.count + 1 ELSE MaxExponent
       IN backoff' = [count |-> n, left |-> 2^(n + 1)]
    /\ cut' = FALSE
    /\ Go(r, "recorded")
    /\ UNCHANGED <<kind, dns, chain, held, outrun,
                   errorLeft, wellKnown, client>>

(* record_failure.  A count above MaxExponent acts like MaxExponent. *)
RecordFailure(r) ==
    /\ At(r, "failed")
    /\ LET n == IF backoff.count < MaxExponent THEN backoff.count + 1 ELSE MaxExponent
       IN backoff' = [count |-> n, left |-> 2^n]
    /\ cut' = FALSE
    /\ Go(r, "recorded")
    /\ UNCHANGED <<kind, dns, chain, held, outrun,
                   errorLeft, wellKnown, client>>

(* cache_error *)
CacheError(r) ==
    /\ At(r, "recorded")
    /\ errorLeft' = ErrorTtl
    /\ cut' = FALSE
    /\ Go(r, "idle")
    /\ outrun' = [q \in Request |-> q # r /\ stage[q] # "idle"]
    /\ held' = [held EXCEPT ![r] = NothingHeld]
    /\ chain' = [chain EXCEPT ![r] = NoLookups]
    /\ UNCHANGED <<kind, dns, backoff, wellKnown, client>>

(* The handler that asked is dropped at an await, as its client went away. *)
(* What it has written stays.  Before its first writes this is as if the   *)
(* request had been refused.                                               *)
Drop(r) ==
    /\ stage[r] \notin {"idle", "asked", "check"}
    /\ Finish(r)
    /\ cut' = (cut \/ stage[r] = "recorded")
    /\ UNCHANGED <<kind, dns, errorLeft, backoff, wellKnown, client>>

(* cleanup_cache.  What it drops from the two caches reads as absent       *)
(* already; a dropped back-off starts again from zero.                     *)
Cleanup ==
    /\ backoff.left <= -Retention
    /\ backoff' = NoBackoff
    /\ UNCHANGED <<kind, dns, cut, askVars, errorLeft, wellKnown, client>>

-----------------------------------------------------------------------------
(* The environment.                                                        *)

(* A unit of time ends.  Any number of units may end while a request is    *)
(* under way: one lookup alone may take ten seconds.                       *)
Tick ==
    /\ errorLeft' = IF errorLeft >= 0 THEN errorLeft - 1 ELSE -1
    /\ backoff' = IF backoff.left > -Retention THEN [backoff EXCEPT !.left = @ - 1]
                  ELSE backoff
    /\ wellKnown' = IF wellKnown.left > 0
                    THEN [wellKnown EXCEPT !.left = @ - 1, !.age = @ + 1] ELSE NoWellKnown
    /\ client' = IF client.left > 1
                 THEN [client EXCEPT !.left = @ - 1, !.age = @ + 1] ELSE NoClient
    /\ UNCHANGED <<kind, dns, askVars, cut>>

DnsChanges ==
    /\ dns' = IF dns = "up" THEN "down" ELSE "up"
    /\ UNCHANGED <<kind, askVars, cut, errorLeft, backoff, wellKnown, client>>

ResolveStep(r) ==
    \/ CheckError(r) \/ CheckBackoff(r)
    \/ ReadWellKnown(r) \/ ReadClient(r) \/ Fetch(r) \/ InsertClient(r) \/ StoreWellKnown(r)
    \/ LookupFound(r) \/ LookupMissed(r)
    \/ Succeed(r) \/ RecordFailure(r) \/ CacheError(r)

DiscoveryNext ==
    \/ \E r \in Request : Ask(r) \/ ResolveStep(r) \/ Drop(r)
    \/ Cleanup
    \/ Tick
    \/ DnsChanges

DiscoverySpec == DiscoveryInit /\ [][DiscoveryNext]_discoveryVars

(* Timeouts bound every lookup, so a request goes on, and time passes. *)
DiscoveryFairSpec ==
    /\ DiscoverySpec
    /\ \A r \in Request : WF_discoveryVars(ResolveStep(r))
    /\ WF_discoveryVars(Tick)

-----------------------------------------------------------------------------
(* Properties.                                                             *)

(* A server that is known to be unreachable is left alone: a request that  *)
(* contacts it while an error is cached was made before that error was     *)
(* cached, however many requests overlap.                                  *)
QuietAfterFailure ==
    \A r \in Request :
        stage[r] \in {"network", "insert", "store", "lookup", "resolved", "failed", "recorded"}
          /\ errorLeft >= 0
            => outrun[r]

(* The exponential back-off never refuses a request on its own: it ends    *)
(* before the cached error of the failure that started it, so it is only   *)
(* seen while some request has recorded a failure and not yet cached it,   *)
(* or was dropped in between.                                              *)
BackoffOnlyInWindow ==
    backoff.left > 0 =>
        errorLeft >= backoff.left \/ cut \/ \E r \in Request : stage[r] = "recorded"

(* The two well-known caches are read one after the other, and their       *)
(* lifetimes may add up: when a request is dropped between the client's    *)
(* insert and the resolver's store, a later one passes the client's entry  *)
(* on as new.  They add up once and no further, and the headers cannot     *)
(* prolong them: apart from the time in which requests held it, a          *)
(* delegation that is followed is not older than both caches allow.        *)
DelegationFresh ==
    \A r \in Request : held[r].age < ClientTtl + WellKnownTtl

(* Once the server's address can be looked up again and stays so, and      *)
(* handlers are no longer dropped before they have an address, requests    *)
(* for it are answered with an address again: neither the cached error nor *)
(* the back-off nor a stale delegation shuts it out for ever.              *)
Heals ==
    /\ kind # "invalid"
    /\ <>[](dns = "up")
    /\ <>[][\A r \in Request : Drop(r) => stage[r] = "resolved"]_discoveryVars
    => \A r \in Request : []<>(stage[r] = "asked") => []<>(stage[r] = "resolved")
=============================================================================
