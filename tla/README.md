# matryx in TLA+

Specifications of the parts of the matryx homeserver (`src/packages/server`,
with its repositories in `src/packages/surrealdb`) whose correctness depends on
what happens concurrently, in which order, and what is left when a step fails:
the delivery of events between servers, the discovery of servers and the
handshakes with them, the rules that other servers' events meet, the walks over
the event graph that other servers ask for, the sending of a message by a
client, and the rotation of refresh tokens. TLC checks each on a small instance;
TLAPS proves the invariants of every module, and that the composed one implements
its abstract specification, for every value of the constants.

    tlc -config OutboundQueue.cfg MCOutboundQueue
    tlapm FederationLinkProofs.tla

`PROJECT.json` lists the components, the runs with their properties, the map
from definitions to source lines, the hazards, the disagreements found and the
theorems.

## 1. Inventory

matryx is an axum server. Each request is a task of its own; tasks share the
SurrealDB connection, a few in-memory caches and one channel to the outbound
federation queue. There are no database transactions: an operation is a
sequence of statements, and every `.await` between them is a point where other
requests run and where a crash leaves the first half done.

| Component | State | Operations | What is hard | Correct when |
|---|---|---|---|---|
| Outbound queue (`federation/outbound_queue.rs`) | channel, PDU and EDU queue per destination, in-flight marks | queue an event, flush on limit or timer, send with retries | one task serves all destinations, timer against traffic, back-off, giving up | batches stay within limits, nothing is duplicated, marks are released, every flush ends |
| Inbound transactions (`_matrix/federation/v1/send/by_txn_id.rs`) | event table, tables the EDUs write, transaction cache (24 h) | check cache, verify, validate and store PDUs, apply EDUs, cache the answer | the same transaction twice at once, failures and restarts half way | a 200 accounts for every PDU, only complete results are cached, a PDU is stored once |
| Federation client (`federation/client.rs`) | none | send a transaction; query devices, keys, profiles | which errors are retried, late requests | a 200 is read only for what the peer has dealt with |
| PDU validation (`federation/pdu_validator.rs`) | none of its own | six steps, duplicate detection | duplicates by content | an accepted PDU is the one that was sent |
| Sending a message (`rooms/.../send/.../by_txn_id.rs`, `repository/event.rs`) | event table, `transaction_mapping` | idempotency check, DAG, create, map, sign, queue | repeated and concurrent requests, two writes of one event | one answer per transaction id, a sound DAG, what is answered is signed |
| Refresh tokens (`auth/refresh_token.rs`, `repository/auth.rs`) | `refresh_tokens` | issue, rotate, revoke chain/device/user, clean up | two refreshes at once, crash between statements, walk along a chain that changes | chains are ordered, no device is stranded, a revoked chain is revoked |
| Transaction id middleware (`middleware/transaction_id.rs`) | cached responses | check, run, store | outermost layer, runs before authentication | a repeated request is answered from the cache |
| UIA (`auth/uia.rs`) | sessions with completed stages | start, complete a stage | two ids per session | completed stages accumulate |
| Event authorization (`federation/authorization.rs`, steps 5 and 6 of `pdu_validator.rs`) | the event table | authorize a PDU against its auth_events and against the stored state, store it | the sender chooses auth_events and time stamp; checks and insertion are apart | power comes from this server, members joined themselves, and in the room they speak in |
| Walks over the event graph (`get_missing_events`, `backfill`, `event_auth`, `state`, `state_ids`, `send_join`) | visited ids, what is to be read, the result | one query per batch or per event | events are stored while a walk runs; limits, cycles, ids without a row | a result has only what was asked for and leaves out nothing that was there |
| Client membership (`room/`) | room state | join, invite, leave, kick, ban, knock | many conditions, per room version | only permitted transitions |
| State resolution (`repository/state_resolution.rs`) | none | resolve conflicts | order independence | all servers get one result |
| Federated membership (`federation/membership_federation.rs`) | a circuit breaker per server | make/send join, leave, knock, with retries | half-open breaker | a failing server is probed, not flooded |
| Server discovery (`federation/dns_resolver.rs`) | answer and error caches, back-off | resolve | two clocks for one failure | retries happen when the back-off says |
| Device lists (`federation/device_management.rs`, `device_edu_handler.rs`) | devices, last stream id | update, delete | order of updates | the newest update wins |
| End-to-end keys (`repository/crypto.rs`, `crypto_keys.rs`) | device, one-time and cross-signing keys | upload, claim | select then update | a one-time key is given out once |
| Key backup, to-device, sync, caches, rate limits, push, media, login, OAuth 2 | own tables or caches | | see `PROJECT.json` | |

Every part, modelled or not, is in `components` of `PROJECT.json` with the reason.

## 2. Modules

| Module | Models | Extends / instantiates |
|---|---|---|
| `OutboundQueue` | the queue task | |
| `InboundTransaction`, `InboundTransactionProofs` | `put()` of `/send/{txnId}` | |
| `PduDelivery` | abstract: what federation promises for PDUs to one server | |
| `FederationLink` | sender, network and receiver composed | `OutboundQueue`; `InboundTransaction` and `PduDelivery` as instances |
| `FederationLinkProofs` | the inductive invariants and theorems of the queue and of the link, and the refinement | `FederationLink` |
| `RefreshTokens`, `RefreshTokensProofs` | refresh tokens | |
| `ClientSend`, `ClientSendProofs` | sending a message | |
| `ServerDiscovery`, `ServerDiscoveryProofs` | finding another server's address | |
| `FederationRetry`, `FederationRetryProofs` | membership handshakes, retries, circuit breaker | |
| `RoomEvents`, `RoomEventsProofs` | the event table: the rooms made here and the PDUs that may add to it | |
| `EventWalks`, `EventWalksProofs` | the walks over prev_events and auth_events | |
| `MC*` | model values, and the sets that cfg files cannot write | the module of the same name |

Definitions after a comment that begins `Mutant:` are not part of any
specification. Each is a plausible bug in the definition that follows it; put
in its place, it makes one property fail. `PROJECT.json` pairs them.

### OutboundQueue

`pc` is where the one task is suspended: in `select!`, between two destinations
of a flush, awaiting an attempt, or sleeping out a back-off. Everything between
two awaits is one action: `QueuePdu`/`QueueEdu` (the `recv` branch with
`queue_event`; when a limit is reached the flush it triggers begins), `Tick` and
`TimerFires` (the `sleep` branch and `flush_all_queues`), `SkipFlush`,
`StartTxn` (`flush_queue` up to the first attempt), `AttemptOk`,
`AttemptRetryable`, `AttemptExhausted`, `AttemptFatal` and `Wake`
(`send_transaction_with_retry`), `FlushDone`. A destination's visit that ends
with its transaction removes the in-flight mark in the same action
(`FinishTxn`), as `flush_queue` does. `backoff` counts units of 100 ms.
`clock` counts from the start of the current `select!`: the sleep is created
anew in each turn of the loop.

### InboundTransaction

A handler is a record in `handlers`; `stage` is its next await. Events are
their ids. `Twins` relates PDUs that `check_event_deduplication` takes for one
another although their ids differ. The checks of signatures, hashes, auth
events and state are a choice between `ValidatePdu` and `RejectPdu`. The
response names results under the id of the event that `validate_pdu` returned,
as the code does, which for a twin is not the id that was sent. What the six
`process_*_edu` functions write is one entry in `eduLog`; `ApplyEduFails` may
have written it before it failed.

### FederationLink and PduDelivery

The sender's half is `OutboundQueue` itself: each action of the link is one of
its actions together with what happens on the wire. A request that is never
received is lost; an answer that is never read is lost; `GetsNoAnswer` may
happen at any moment of an attempt, so the peer may still be at work on a
request whose retry, or whose successor, is under way. `PeerHandles` is a step
of `InboundTransaction`. Both servers may restart. The cache's expiry is left
out of the link: retries of a transaction end after about three minutes (six
attempts), rows expire after 24 hours.

`PduDelivery` says what that amounts to: PDUs wait in order, one batch at a
time is sent and takes the oldest, the peer takes in a PDU at most once and
only after its batch was sent (perhaps after it was dropped), and a batch is
acknowledged only when each PDU of it was taken in or refused.
`ImplementsDelivery` is the refinement under the mapping at the end of
`FederationLink`.

### RefreshTokens

One action per statement on `refresh_tokens`. `calls` are the running
`create_initial_tokens` and `refresh_tokens`, `chases` the running
`revoke_refresh_token` with the position of its walk. Time is `age`: 0 fresh,
1 older than 7 days, 2 expired. `Abort` is a failing statement, a crash and a
lost answer. `create_initial_tokens` is the only way tokens come into being; it
has no caller in the server at this commit, and the model assumes login calls
it as its documentation says. Access tokens are JWTs without server-side state.

### ClientSend

One room, one user; that the mapping's key has neither room nor event type
(`repository/event.rs:2197`) makes no difference there. `stage` is the handler's next await whose outcome others
can influence. `event[e].txn` and `event[e].signed` record for which
transaction id the row was made and whether it has signatures. All conditions
that refuse a request (room, membership, power levels, event type, replacement)
are `Refuse`. `SignAndStore` is everything after `create_complete_event`.
`transaction_id_middleware` is not in this path: it is layered outside
`auth_middleware` (`main.rs:348-350`), finds no `MatrixAuth` in the request and
passes it through.

### ServerDiscovery

One server name; requests for it run concurrently and are split at each await
of `resolve_server`: the error cache, the back-off, the resolver's well-known
cache, the client's cache, the fetch, the writes back, the lookups one after the
other. Lifetimes count down with `Tick`, which may happen any number of times
while a request is under way: one lookup alone may take ten seconds. `Drop` is
the request's future being dropped at an await, as axum does when a client goes
away; what it has written stays. DNS and HTTP are the environment. Three
history variables record what a property needs and the code does not keep: the
time the answer a request works with has spent in the caches (`held`), whether
an error was cached after the request had passed the error cache (`outrun`),
and whether a request was dropped between recording a failure and caching it
(`cut`).

### FederationRetry

One server and its breaker. `retry_federation_request` asks the breaker
once per request (`Admit`, `Refuse`) and then makes all attempts of that request
(`Attempt`, `Answered`, `Failed`, the sleep between them); a handshake is one
request (`invite`) or two (`make`, `send`). A response with an error status is
an answer, not a failure, as `send()` of reqwest has it, and the status is not
looked at later either: a body that has the shape of a template is signed and
sent. `leak` counts the
requests of a handshake since the breaker opened. The manager is part of the
application state; no handler of this commit calls it.

### RoomEvents

The event table is a sequence of rows of several rooms, of which `CreateRoom`
makes the first four of each one made here; `pending` are events that were
checked and are about to be stored, so that other rows can come between. A PDU
chooses its sender, its room, its `auth_events`, its time stamp and its content.
(The signature that is verified is that of the server that sent the transaction;
the sender's server is not compared with it.) `auth_events` are fetched by id,
and nothing compares their room with the event's, so `AuthLists` offers the rows
of all rooms. `Authorized` is `authorize_event` with its rules for power levels,
membership, join rules and redactions; step 5 applies it to the state made of
the PDU's auth events, step 6 to what `get_room_state` returns for the event's
room. An event that does not pass step 6 is soft-failed and stored; as a depth,
a missing room or a failing query do that too, any event may be. The creators'
own requests write state directly (`PutState`). The handlers that write only
member events (`send_join`, `send_leave`, `invite`, `knock`) are not modelled.

### EventWalks

`links` is what every event lists, whether or not it is stored: rows do not
change, the set of rows grows (`Store`). One walk runs; each step is one query
and what the code does with its rows. `before` is the table as it was when the
walk began. The kinds differ in where they start, in what marks an id as seen,
and in whether rows are taken as they are read or selected again at the end;
`send_join` takes one level.

## 3. The database

Statements are taken for what they say, on tables without constraints beyond
the record id: `db.create((table, id))` fails if the row exists,
`UPDATE ... WHERE` touches the rows that match, and a query sees all rows
written before it. The files under `migrations/` are not applied by the server
(only tests read `matryx.surql`), so schema-defined constraints are not assumed,
the unique index of `116_transaction_mapping` on `(user_id, txn_id)` included:
with it, `SameAnswer` (section 5) would hold.
Not modelled are statements that a particular SurrealDB version may refuse or
read differently: `unnest`, `datetime::now()`, `WHERE id = $token`, and the
`AND event_id != ...` that `get_room_current_state` appends after its `ORDER BY`
(`repository/event.rs:3227`), so that it filters nothing and may be refused,
which would end `send_join` with 500 after the join was stored. Nor are errors of
single statements that `.query(..).await?` does not report.

## 4. Runs

| Run | Shows | Bounds |
|---|---|---|
| `outbound_queue` | `InFlightExact`, `BelowLimit`, `NoCopies`; under fairness `FlushEnds`, `ChannelDrains`, `QueuesDrain` | 2 destinations, 3 PDUs, 1 EDU, limits 2 and 1, 2 retries, back-off capped at 3 so that the cap is reached, channel of 2 |
| `inbound` | `AckAccounts`, `CachedIsComplete`, `AcceptedOnce`; under fairness `RequestsEnd` | 2 transactions (2 PDUs and 2 EDUs; 1 PDU that is a twin), 3 requests, failing statements, restarts, expiry |
| `link` | `AckedHandled`, `NoOvertaking`, `OneBodyPerId`, `ImplementsDelivery` | 2 PDUs that are twins, 2 transaction ids, 1 retry, 1 restart |
| `refresh` | `ChainOrdered`, `UsedHasSuccessor` | 3 tokens, 2 rotations, failing statements |
| `client_send` | `DagSound`, `MappingNamesEvent` | 4 requests, 2 transaction ids, 3 new events, 1 prev event, so that an extremity is left out |
| `client_send_same` | violated: `SameAnswer`, "Check if transaction ID has been used before (idempotency)" | the same |
| `client_send_signed` | violated: `AnsweredIsSigned`, "Update the event in database with hashes and signatures" | the same |
| `discovery` | `QuietAfterFailure`, `BackoffOnlyInWindow`, `DelegationFresh`; under fairness `Heals` | 2 requests that may be dropped; errors are cached for 2 units, answers for 2 by the client and for the current unit by the resolver; a header lifetime beyond both; delegation to an IP literal or a host name |
| `retry` | `BreakerConsistent`, `LeakBounded`; under fairness `Recovers` | 2 handshakes, 2 retries, threshold 3, so that no handshake opens the breaker by itself except with all its attempts |
| `room_events` | `PowerComesFromHere`, `SpeakersJoined` with auth_events of any room | 2 users, 2 rooms, 2 events besides the first 4 of each room made, two power levels contents (an open room, and one that lists only the other user, above the creator), a time stamp before all local ones |
| `room_events_current` | violated: `ValidIsAllowedNow`, "this validates against the current room state" | 2 rooms, 3 events, a time stamp later than the local ones |
| `event_walks` | `AnsweredWasAsked`, `NothingMissed`; under fairness `WalkEnds` | 4 events: a chain, a diamond, a shared event at two distances, a cycle with a loop; limits 1, 2 and 4; an event without depth; an event of another room |

Why the bounds are enough: two of a kind are needed for every race (two
destinations, two transactions, two requests with one id, two refreshes of one
token, two handshakes) and a third for what comes after it (a third request that
meets what the race left, a third token that makes a chain of three levels).
Limits of 2 and 1 make batches both full and partly filled. Lifetimes keep the
order the code's have (the back-off ends before the cached error). Two events
besides the first of each room are what one decision needs: one that is cited
and one that cites it. Longer chains, such as a remote user who is let in, joins
and then speaks, rest on the theorems of section 6, whose induction has no bound
on events or rooms. Symmetry is used only in runs without liveness properties,
over sets whose members nothing tells apart.

Deadlock is not checked in `inbound`, `link`, `client_send*` and
`room_events*`: when all requests have been made and answered, or the table is
full, nothing is left to do. The other systems never stop.

The type invariants of the modules are checked in the same runs.

### Fairness

`Spec` of `OutboundQueue`: weak fairness of the task, its timer and the answers
together (`LoopStep`); tokio polls the one task, and `request_timeout` ends
each attempt. The producers are not fair. `InboundSpec`: weak fairness of each
request's handler; axum polls it until it returns. A restart removes handlers,
which ends them. `LinkSpec`: weak fairness of the sender only; nothing is
assumed of the network and the peer. `DiscoveryFairSpec`, `RetryFairSpec`: weak
fairness of each request's or handshake's own steps and of the clock; requests
have timeouts, so an attempt ends. That requests are made at all is an
hypothesis of `Heals` and `Recovers`, as are, in `Heals`, that the server's
address can be looked up again and that from some time on requests are not
dropped before they have it; `Drop` itself is not fair. `WalkFairSpec`: weak fairness of the handler;
events may be stored for ever or not at all.

## 5. What the disagreements are

Three are stated as properties and violated by a run.

* `AnsweredIsSigned`: the event is created twice under one id, the second time
  with its signatures. The second fails, so a send ends with 500, and its
  repetition is answered 200 from the mapping with an event that is unsigned
  and was queued to no server.
* `SameAnswer`: the look-up of a transaction id, its repetition before the event
  is made and the writing of the mapping are separate statements, and no row
  refuses a second one. Two overlapping sends of one id leave two events and two
  mappings, and later requests are answered with whichever is read first.
* `ValidIsAllowedNow`: `get_room_state` returns all state events of the room,
  latest first, and `build_auth_state` lets a later element of that list
  replace an earlier one. What step 6 calls the current state is the oldest
  event of each key.

Others are plain from a reading of the module; the hazards of `PROJECT.json`
give the lines.

* Each received event restarts the 100 ms sleep of the outbound queue, so steady
  traffic to one server holds back events for another whose queue is not full.
* A PDU with the sender, type and content of an event sent a moment before is
  taken for it: it is not stored, and the response carries an error under the
  other event's id.
* `put()` reads `type` of an EDU; the specification, and the peer, say
  `edu_type`. Such EDUs are passed over and the transaction is acknowledged.
* A transaction that is answered with an error, or not answered six times, is
  dropped and the next id is used.
* The statement that revokes a chain of refresh tokens reaches its root and the
  root's direct successors; a token further down stays valid.
* An error of discovery is cached for an hour, the back-off of at most 1024 s
  ends before: the exponential back-off is never what refuses a request
  (`BackoffOnlyInWindow` states what is true of it).
* A response with an error status closes the circuit breaker and is not retried,
  and its body may be taken for a template.
* The auth chain that `send_join` returns has one level.
* A PDU may name `auth_events` of another room, and is then judged by that
  room's power levels and membership: it can be stored, soft-failed, in a room
  its sender is not in. `SpeakersJoined` says what is left: without the
  soft-fail the join is one of the event's own room. `PowerComesFromHere` says
  that even so no level is given above one that a local user gave, in this room
  or in the other.

The models also show things that no run states: two concurrent deliveries apply
a transaction's EDUs twice; two concurrent refreshes of one token both succeed;
a refresh whose answer is lost cannot be repeated
(`spec/client/01_foundation_api.md:451` wants it to be); a half-open breaker admits every handshake; the auth chain of `state` is
selected again at its end, so it may contain an event stored meanwhile without
what that event lists.

## 6. Proofs

Each theorem holds for every value of the constants under the module's
`ASSUME`s, which say only that limits are natural numbers (positive where the
code's are) and the back-off shorter than the error cache, that kinds are disjoint,
that inputs have their types and a transaction id names one transaction, and
that every device has an owner.

* `FederationLinkProofs`, the queue: `TypeOK`, `BelowLimit`, `InFlightExact` and
  `FlushEmpties`. `BelowLimit` is not
  inductive: that a full queue is emptied before the task waits again depends
  on its destination being on the list of the flush under way (`FullIsDue`),
  on no stale in-flight mark turning the flush away (`InFlightExact`), and on
  the transaction being sent belonging to the flush (`SendingDue`) and having
  taken everything (`FlushEmpties`). Together they are `IndInv`. `NoCopies`
  follows in a second induction: because a batch is all that was queued, popping
  it leaves nothing behind to be sent again (`Distinct`, `Apart`, `Counted`).
* `FederationLinkProofs`, the link: `AckedHandled`, `NoOvertaking`,
  `OneBodyPerId` and the refinement `ImplementsDelivery`. Every step of the
  link's sender but its restart is a step of `OutboundQueue`, so `IndInv` and
  `NoCopies` carry over. `LinkInv` adds two halves. `SenderInv` ties the sender
  to the order of queueing: the channel is the end of it (`ChanIsEnd`), what is
  in no transaction yet is the end of it (`UnsentIsEnd`), no PDU of a
  transaction still waits (`SentIsGone`), and an id is drawn once
  (`IdsUnique`). `PeerInv` ties the peer to what the sender built: every
  request, activation and answer carries such a transaction under its id
  (`Carries`), the PDUs behind an activation's counter are stored or refused
  (`Placed`, `Progress`), and so are those of a 200 (`OkDealt`) and of whatever
  transaction has the key of a cached row (`CacheDealt`). `AckedHandled` needs
  all of it: the 200 may answer a late attempt, may come from the cache, and is
  matched by id only. In the refinement queueing is `Queue`, the first attempt
  `Send` of all that the queue holds, its outcome `Acknowledge` or `Drop`, a
  restart of the sender `Lose`, and a PDU that `put()` settles `TakeIn` or
  `Refuse`; every other step leaves the abstract state alone. That a PDU keeps
  its place when it moves from the channel, where EDUs are between PDUs, to its
  queue rests on the lemmas about `PdusIn`.
* `InboundTransactionProofs`: `InboundTypeOK`, `AckAccounts`,
  `CachedIsComplete`, `AcceptedOnce`. A response is only as good as the progress
  of the activation that makes it, so `InboundInv` follows each one: where its
  loops stand and what `validate_pdu` found (`Placed`), and that the PDUs and
  EDUs behind its counters are accounted for (`Progress`). A cached row reports
  only stored PDUs as accepted (`CacheTrue`), which is what an answer from the
  cache rests on.
* `RefreshTokensProofs`: `ChainOrdered` and `UsedHasSuccessor`. The second
  rests on the running calls: the one about to mark a token has stored a
  successor that nobody else knows yet (`CallsFresh`), that is unused and no
  older than the token (`MarkReady`). After that, cleanup cannot delete the
  successor without its parent because ages are ordered along the chain, and
  that the rows written agree with the ones read is `CallsMatch`. `ChainOrdered`
  also bounds the loop of `revoke_token_chain`: each turn lowers the rotation
  count by one.
* `ClientSendProofs`: `DagSound` and `MappingNamesEvent`. Rows never change, so what a request read before an
  await is still right when it writes (`Carried`), and ids under way are
  distinct (`OwnId`); successful answers are mapped ones (`AnswersMapped`).
* `ServerDiscoveryProofs`: `QuietAfterFailure`, `BackoffOnlyInWindow`,
  `DelegationFresh`. The last needs a bound on what each stage of a request holds
  (`HeldAged`) and that the age of a cached answer and what is left of its
  lifetime add up to no more than it may become (`Aged`): the resolver's entry
  may start at the age the client's had. It holds for every length of requests
  and every drop, because only the time in the caches counts.
* `FederationRetryProofs`: `BreakerConsistent` and `LeakBounded`; what a
  handshake has sent since the breaker opened and what it may still send without
  asking it add up to the attempts of one request (`Leaks`).
* `RoomEventsProofs`: `PowerComesFromHere` and `SpeakersJoined`, for any users,
  rooms, contents and time stamps. They rest on every join that another server
  sent being in the name of the one who joins (`JoinsAreOwn`), and hold although
  the sender chooses which of the stored events, of whatever room, judge it.
  Rows are only added, so what was once true of an event stays so (`RowsGrow`).
* `EventWalksProofs`: `AnsweredWasAsked` and `NothingMissed`, for any graph.
  Everything met hangs together with the starts (`Hangs`), what was met and
  stored before is in the result or still to be read (`Kept`), and what an event
  lists that has been read has been met (`Followed`).

The type invariant of each of these modules is a theorem too.

Three action properties are the ranking arguments behind liveness properties
that TLC checks. `FlushAdvances`: each step of a flush finishes a destination
or shortens its visit (`VisitLeft`). `RequestsAdvance`: each step of an
activation of `put()` ends it or leaves it fewer awaits (`WorkLeft`), and a
request has one activation (`OneActivation`). `WalkAdvances`: each step of a
walk moves to a later phase, meets a new one of the finitely many ids, or reads
one it has met. No other step gives any of them more to do, so the loops can be
endless only if they are no longer run.

Only model-checked: all liveness properties (`FlushEnds`, `ChannelDrains`,
`QueuesDrain`, `RequestsEnd`, `Heals`, `Recovers`, `WalkEnds`), because
fairness and `ENABLED` are outside the proof system's reach. For `FlushEnds`,
`RequestsEnd` and `WalkEnds` what is left to TLC is that the next step is
enabled and, under fairness, taken.

## 7. Not modelled, and what could follow

Every part has its entry in `components`; the reasons in short:

* Code that does nothing at this commit. `transaction_id_middleware` runs before
  the authentication it depends on. State resolution has no caller. The id of a
  UIA session given to the client is not the one stored. The client's membership
  endpoints read the membership table under one key and write it under others,
  so what they check does not depend on what they wrote. A model of these would
  be of something the program does not do.
* Single reads and writes: profiles, devices, key upload, key backup, account
  data, filters, media, push rules, sync.
* Cryptography, canonical JSON, parsing and identifiers: success or failure is a
  free choice wherever a module depends on them.
* Libraries: rate limiter (governor), caches (moka), HTTP (reqwest).
* The client library and the command line tools.

Two races are plain in the code and not modelled: a one-time key is selected and
marked in two statements (`repository/crypto.rs:174`), and so is an OAuth 2
authorization code (`repository/oauth2.rs:87`); two requests at once are both
given it.

Next steps worth taking: the membership endpoints, once they read what they
write; `RoomEvents` as the refinement of the choice between `ValidatePdu` and
`RejectPdu` in `InboundTransaction`.
