----------------------------- MODULE EventWalks -----------------------------
(***************************************************************************)
(* The federation endpoints that walk the graph of stored events:          *)
(* get_missing_events and backfill along prev_events, and event_auth,      *)
(* state, state_ids and send_join along auth_events                        *)
(* (packages/server/src/_matrix/federation/v1/*, and the queries in        *)
(* packages/surrealdb/src/repository/event.rs).                            *)
(*                                                                         *)
(* A walk awaits a query for every batch, or every event, it reads, and    *)
(* events are stored meanwhile.  What a row says never changes, so what    *)
(* the rows would say is fixed and only the set of stored rows grows.      *)
(*                                                                         *)
(* A request refused for its signature, its parameters, its room or its    *)
(* origin changes nothing and is left out.  get_missing_events drops the   *)
(* events the origin may not see from the result of its walk; that filter  *)
(* and the order the results are sorted in are left out.                   *)
(***************************************************************************)
EXTENDS Integers, FiniteSets

CONSTANTS
    Id,         \* event ids
    Graphs,     \* the lists an event may have: prev_events or auth_events
    Depths,     \* the depths events may have; NoDepth where there is none
    Limits,     \* the limits a request may give
    MinDepths,  \* the values of a request's min_depth
    Rooms,      \* the events the room of a request may have
    MaxStarts,  \* bound on the events a request starts from, 50 in the code
    MaxEarliest \* bound on earliest_events, 50 in the code

NoDepth == -1

ASSUME WalkAssumption ==
    /\ IsFiniteSet(Id)
    /\ Graphs \subseteq [Id -> SUBSET Id]
    /\ Rooms \subseteq SUBSET Id
    /\ Depths \subseteq [Id -> Nat \cup {NoDepth}]
    /\ Limits \subseteq Nat \ {0}
    /\ MinDepths \subseteq Nat

VARIABLES
    links,    \* what each event lists, whether or not it is stored
    depth,    \* the depth of each event
    inRoom,   \* the events of the room the request names
    stored,   \* the rows of the event table
    before,   \* the rows there were when the walk began
    req,      \* the request
    phase,    \* what its handler waits for
    visited,  \* the ids the walk has met
    todo,     \* those of them it has not read: to_visit, to_process
    queue,    \* build_auth_chain's queue: the ids, each with what listed it
    found,    \* the ids of the result
    count     \* the length of the result

dagVars == <<links, depth, inRoom>>
walkState == <<visited, todo, queue, found, count>>
walkVars == <<dagVars, stored, before, req, phase, walkState>>

(* The walks whose result has a limit, and those that use todo. *)
Limited == {"missing", "backfill"}
Chains == {"state", "state_ids"}
Kind == Limited \cup Chains \cup {"event_auth", "send_join"}

(* limit and min are 0 where the request has none. *)
Request == [kind : Kind, starts : SUBSET Id, earliest : SUBSET Id,
            limit : Limits \cup {0}, min : MinDepths \cup {0}]

NoRequest == [kind |-> "none", starts |-> {}, earliest |-> {}, limit |-> 0, min |-> 0]

(* A request that only names events. *)
Bare(r) == r.earliest = {} /\ r.limit = 0 /\ r.min = 0

WalkTypeOK ==
    /\ links \in Graphs
    /\ depth \in Depths
    /\ inRoom \in Rooms
    /\ before \subseteq stored /\ stored \subseteq Id
    /\ req \in Request \cup {NoRequest}
    /\ phase \in {"idle", "seed", "walk", "gather", "done"}
    /\ visited \subseteq Id
    /\ todo \subseteq visited
    /\ queue \subseteq Id \X Id
    /\ found \subseteq visited
    /\ count \in Nat

WalkInit ==
    /\ links \in Graphs
    /\ depth \in Depths
    /\ inRoom \in Rooms
    /\ stored \in SUBSET Id
    /\ before = {}
    /\ req = NoRequest
    /\ phase = "idle"
    /\ visited = {} /\ todo = {} /\ queue = {}
    /\ found = {} /\ count = 0

-----------------------------------------------------------------------------
(* The queries.                                                            *)

Links(S) == UNION {links[e] : e \in S}

(* The WHERE clause.  Only the two walks along prev_events name a room,    *)
(* and depth >= $min_depth is false for a row without a depth.             *)
Selected(e) ==
    /\ req.kind \in Limited => e \in inRoom
    /\ req.kind = "missing" => depth[e] >= req.min

(* Mutant: the room and the depth are not asked for. *)
RowsAnywhere(ids) == ids \cap stored

Rows(ids) == {e \in ids \cap stored : Selected(e)}

(* The first n of the rows, ORDER BY depth DESC, origin_server_ts DESC.    *)
(* The time stamps are free, so of rows with one depth any may come first. *)
FirstOf(rows, n, taken) ==
    /\ taken \subseteq rows
    /\ Cardinality(taken) = IF n < Cardinality(rows) THEN n ELSE Cardinality(rows)
    /\ \A a \in taken, b \in rows \ taken : depth[a] >= depth[b]

HasSpace == req.kind \in Limited => count < req.limit

-----------------------------------------------------------------------------
(* The steps all walks share.                                              *)

(* Mutant: the ids of the next batch are not marked. *)
FollowUnmarked(rows) ==
    LET new == Links(rows) \ (visited \cup req.earliest)
    IN visited' = visited /\ todo' = new

(* Mutant: the next batch is set, not extended, by each row. *)
FollowLast(rows) ==
    LET new == (IF rows = {} THEN {} ELSE links[CHOOSE e \in rows : TRUE])
               \ (visited \cup req.earliest)
    IN visited' = visited \cup new /\ todo' = new

(* What the rows list becomes the next batch, if it is met for the first   *)
(* time and, for get_missing_events, is not in earliest_events.            *)
Follow(rows) ==
    LET new == Links(rows) \ (visited \cup req.earliest)
    IN visited' = visited \cup new /\ todo' = new

(* The handler accepts r and sets up its walk. *)
Begin(r, first, next) ==
    /\ req' = r
    /\ before' = stored
    /\ visited' = first
    /\ phase' = next
    /\ found' = {} /\ count' = 0
    /\ UNCHANGED <<dagVars, stored>>

Answer(ids) ==
    /\ phase' = "done"
    /\ found' = ids
    /\ count' = Cardinality(ids)

-----------------------------------------------------------------------------
(* get_missing_events                                                      *)

(* The latest events are read one by one; every one is a row of the room.  *)
(* The walk begins by reading them again: get_missing_events_traversal.    *)
BeginMissing(r) ==
    /\ r.kind = "missing" /\ r.limit # 0
    /\ r.starts # {} /\ r.starts \subseteq stored \cap inRoom
    /\ Begin(r, r.starts, "seed")
    /\ todo' = {} /\ queue' = {}

(* The events the latest ones list; those are visited and are no results. *)
Seed ==
    /\ phase = "seed"
    /\ Follow(Rows(req.starts))
    /\ phase' = "walk"
    /\ UNCHANGED <<dagVars, stored, before, req, queue, found, count>>

(* All rows are followed; results are added up to the limit. *)
MissingBatch(taken) ==
    /\ phase = "walk" /\ req.kind = "missing"
    /\ todo # {} /\ HasSpace
    /\ FirstOf(Rows(todo), req.limit - count, taken)
    /\ Follow(Rows(todo))
    /\ found' = found \cup taken
    /\ count' = count + Cardinality(taken)
    /\ UNCHANGED <<dagVars, stored, before, req, phase, queue>>

-----------------------------------------------------------------------------
(* backfill                                                                *)

BeginBackfill(r) ==
    /\ r.kind = "backfill" /\ r.limit # 0 /\ r.earliest = {} /\ r.min = 0
    /\ r.starts # {} /\ r.starts \subseteq stored \cap inRoom
    /\ Begin(r, r.starts, "walk")
    /\ todo' = r.starts /\ queue' = {}

(* backfill_events leaves the loop over the rows at the limit, so that the *)
(* rows after it are not followed.                                         *)
BackfillBatch(taken) ==
    /\ phase = "walk" /\ req.kind = "backfill"
    /\ todo # {} /\ HasSpace
    /\ FirstOf(Rows(todo), req.limit - count, taken)
    /\ Follow(taken)
    /\ found' = found \cup taken
    /\ count' = count + Cardinality(taken)
    /\ UNCHANGED <<dagVars, stored, before, req, phase, queue>>

-----------------------------------------------------------------------------
(* state and state_ids: the auth chain of the events of the room's state   *)
(* at an event.                                                            *)

(* The rows of the state are at hand, their auth_events are the first ids. *)
BeginState(r) ==
    /\ r.kind = "state" /\ Bare(r)
    /\ r.starts \subseteq stored \cap inRoom
    /\ Begin(r, Links(r.starts), "walk")
    /\ todo' = Links(r.starts) /\ queue' = {}

(* Only the ids are at hand, and their rows are read first. *)
BeginStateIds(r) ==
    /\ r.kind = "state_ids" /\ Bare(r)
    /\ r.starts \subseteq stored \cap inRoom
    /\ Begin(r, {}, IF r.starts = {} THEN "done" ELSE "seed")
    /\ todo' = {} /\ queue' = {}

ChainBatch ==
    /\ phase = "walk" /\ req.kind \in Chains
    /\ todo # {}
    /\ Follow(Rows(todo))
    /\ UNCHANGED <<dagVars, stored, before, req, phase, queue, found, count>>

(* get_auth_chain_for_state selects the rows of all ids once more. *)
Gather ==
    /\ phase = "gather"
    /\ Answer(visited \cap stored)
    /\ UNCHANGED <<dagVars, stored, before, req, visited, todo, queue>>

-----------------------------------------------------------------------------
(* send_join: the chain of the room's current state.                       *)

(* get_auth_chain_for_events selects what these events list, and no more.  *)
(* The state is any rows of the room: the statement that reads it has its  *)
(* AND event_id != ... after ORDER BY, where it does not leave out the     *)
(* joining event, stored just before.  If the database refuses it so, the  *)
(* request ends here with 500.                                             *)
BeginSendJoin(r) ==
    /\ r.kind = "send_join" /\ Bare(r)
    /\ r.starts \subseteq stored \cap inRoom
    /\ Begin(r, Links(r.starts), IF Links(r.starts) = {} THEN "done" ELSE "gather")
    /\ todo' = {} /\ queue' = {}

-----------------------------------------------------------------------------
(* event_auth                                                              *)

(* What the rows list, each id with its row. *)
Entries(rows) == {w \in rows \X Id : w[2] \in links[w[1]]}

BeginEventAuth(r) ==
    /\ r.kind = "event_auth" /\ Bare(r)
    /\ Cardinality(r.starts) = 1 /\ r.starts \subseteq stored \cap inRoom
    /\ Begin(r, {}, "walk")
    /\ todo' = {}
    /\ queue' = Entries(r.starts)

(* Mutant: an id that is skipped stays at the head of the queue. *)
VisitStuck(p, e) ==
    /\ phase = "walk" /\ <<p, e>> \in queue
    /\ visited' = visited \cup {e}
    /\ LET rows == IF e \in visited THEN {} ELSE Rows({e}) IN
          /\ queue' = (IF e \in visited THEN queue ELSE queue \ {<<p, e>>})
                      \cup {w \in Entries(rows) : w[2] \notin visited'}
          /\ found' = found \cup rows
          /\ count' = count + Cardinality(rows)
    /\ UNCHANGED <<dagVars, stored, before, req, phase, todo>>

(* build_auth_chain takes the next id off its queue.  Which one is left    *)
(* open.  An id that was met before is skipped; one that is not stored is  *)
(* passed over; a row is added and what it lists is queued.                *)
Visit(p, e) ==
    /\ phase = "walk" /\ <<p, e>> \in queue
    /\ visited' = visited \cup {e}
    /\ LET rows == IF e \in visited THEN {} ELSE Rows({e}) IN
          /\ queue' = (queue \ {<<p, e>>})
                      \cup {w \in Entries(rows) : w[2] \notin visited'}
          /\ found' = found \cup rows
          /\ count' = count + Cardinality(rows)
    /\ UNCHANGED <<dagVars, stored, before, req, phase, todo>>

-----------------------------------------------------------------------------

(* The loop ends: nothing is left to read, or the result is full. *)
EndWalk ==
    /\ phase = "walk"
    /\ (todo = {} /\ queue = {}) \/ ~HasSpace
    /\ CASE req.kind = "state" /\ visited # {} ->
              phase' = "gather" /\ UNCHANGED <<found, count>>
         [] req.kind = "state_ids" -> Answer(visited)
         [] OTHER -> phase' = "done" /\ UNCHANGED <<found, count>>
    /\ UNCHANGED <<dagVars, stored, before, req, visited, todo, queue>>

Reset ==
    /\ phase' = "idle"
    /\ req' = NoRequest
    /\ before' = {} /\ visited' = {} /\ todo' = {} /\ queue' = {}
    /\ found' = {} /\ count' = 0
    /\ UNCHANGED <<dagVars, stored>>

(* A query fails: the handler answers 500. *)
Fail == phase \in {"seed", "walk", "gather"} /\ Reset

Reply == phase = "done" /\ Reset

(* Any other request of the server stores an event. *)
Store(e) ==
    /\ e \notin stored
    /\ stored' = stored \cup {e}
    /\ UNCHANGED <<dagVars, before, req, phase, walkState>>

Accept ==
    /\ phase = "idle"
    /\ \E r \in Request :
          /\ Cardinality(r.starts) <= MaxStarts
          /\ Cardinality(r.earliest) <= MaxEarliest
          /\ \/ BeginMissing(r) \/ BeginBackfill(r) \/ BeginState(r)
             \/ BeginStateIds(r) \/ BeginSendJoin(r) \/ BeginEventAuth(r)

Handle ==
    \/ Seed
    \/ \E taken \in SUBSET todo : MissingBatch(taken) \/ BackfillBatch(taken)
    \/ ChainBatch
    \/ \E p, e \in Id : Visit(p, e)
    \/ EndWalk
    \/ Gather

WalkNext ==
    \/ Accept
    \/ Handle
    \/ Fail
    \/ Reply
    \/ \E e \in Id : Store(e)

WalkSpec == WalkInit /\ [][WalkNext]_walkVars

(* The database answers and the handler's task is polled. *)
WalkFairSpec == WalkSpec /\ WF_walkVars(Handle)

-----------------------------------------------------------------------------
(* Properties.                                                             *)

(* What get_missing_events and backfill may return at all. *)
Wanted(e) ==
    /\ Selected(e)
    /\ req.kind = "missing" => e \notin req.starts \cup req.earliest

(* Every event of a result was asked for, and is there once: it is of the  *)
(* room and the depth the request names, no start or boundary of           *)
(* get_missing_events, within the limit, and it is connected to the starts *)
(* through events the same result contains.                                *)
AnsweredWasAsked ==
    /\ count = Cardinality(found)
    /\ req.kind \in Limited => count <= req.limit
    /\ \A e \in found :
          /\ Wanted(e)
          /\ \/ req.kind = "backfill" /\ e \in req.starts
             \/ \E p \in found \cup req.starts : e \in links[p]

(* A result that was not cut by its limit leaves out nothing that was      *)
(* stored when the walk began: what one of these events lists is in it,    *)
(* whatever is stored meanwhile and in whatever order the rows are read.   *)
(* send_join does not walk and is excepted.                                *)
NothingMissed ==
    (phase = "done" /\ HasSpace /\ req.kind # "send_join") =>
        \A p \in (req.starts \cup found) \cap before :
            Selected(p) => {e \in links[p] \cap before : Wanted(e)} \subseteq found

(* Every walk ends although events are stored meanwhile, events list ids   *)
(* that no row has, and auth_events may form a cycle.                      *)
WalkEnds == phase \in {"seed", "walk", "gather"} ~> phase \in {"done", "idle"}
=============================================================================
