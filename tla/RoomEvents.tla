----------------------------- MODULE RoomEvents -----------------------------
(***************************************************************************)
(* The event table: the rooms created on this server, PDUs of other        *)
(* servers through PduValidator and the AuthorizationEngine                *)
(* (packages/server/src/federation/pdu_validator.rs and authorization.rs), *)
(* for these rooms and for others, and the creators' own PUT .../state     *)
(* requests (_matrix/client/v3/rooms/by_room_id/state/by_event_type).      *)
(*                                                                         *)
(* The event table is append-only, so an event is known by its position.   *)
(* A request is split where another can come between: its checks, which    *)
(* read the table, and the CREATE of its row.                              *)
(*                                                                         *)
(* Signatures, hashes and the DAG are not modelled: whatever fails there   *)
(* is not stored, and the checks below are the ones that remain.  The      *)
(* signature that counts is that of the server which sent the transaction, *)
(* and nobody compares it with the sender's: a PDU may name any user.      *)
(***************************************************************************)
EXTENDS Integers, Sequences, FiniteSets

CONSTANTS
    User,       \* users of any server
    Local,      \* those of this server
    Room,       \* rooms, of this server or not
    JoinRules,  \* the join rules events may carry
    Contents,   \* the power levels contents events may carry
    Stamps,     \* values of a PDU's origin_server_ts; its server chooses it
    MaxAdded    \* bound on the events besides the first ones of a room

Types == {"create", "power_levels", "join_rules", "member", "state", "message", "redaction"}

(* The members of a power levels content besides users and events. *)
Fields == {"users_default", "events_default", "state_default",
           "invite", "kick", "ban", "redact"}

Memberships == {"join", "leave", "invite", "ban", "knock"}

(* A JSON object with integer members, of which any may be missing. *)
IsObject(f, keys) == DOMAIN f \subseteq keys /\ f \in [DOMAIN f -> Int]

IsContent(c) ==
    /\ IsObject(c.users, User)
    /\ IsObject(c.events, Types)
    /\ IsObject(c.fields, Fields)

(* No power levels event, or one whose content is {}. *)
NoLevels == [users |-> << >>, events |-> << >>, fields |-> << >>]

ASSUME RoomAssumption ==
    /\ Local \subseteq User
    /\ JoinRules \subseteq {"public", "invite", "private", "knock", "restricted"}
    /\ \A c \in Contents : IsContent(c)
    /\ Stamps \subseteq Nat \ {0}
    /\ MaxAdded \in Nat

VARIABLES
    events,   \* the rows of the event table, in the order they were created
    pending   \* the events that were checked and are about to be stored

roomVars == <<events, pending>>

(* What RoomManagementService::create_room puts into the power levels. *)
CreatorLevels(creator) ==
    [users |-> [u \in {creator} |-> 100],
     events |-> << >>,
     fields |-> [f \in Fields |-> IF f \in {"users_default", "events_default"} THEN 0 ELSE 50]]

(* target is the state_key of a member event; membership, rule and content *)
(* are what the content of a member, join_rules or power_levels event      *)
(* says.                                                                   *)
Event == [room : Room, type : Types, sender : User, target : User,
          membership : Memberships, rule : JoinRules \cup {"public", "invite"},
          content : Contents \cup {NoLevels} \cup {CreatorLevels(u) : u \in Local},
          ts : Nat, local : BOOLEAN, soft : BOOLEAN]

Rows == DOMAIN events

RoomTypeOK ==
    /\ events \in Seq(Event)
    /\ pending \subseteq Event

(* An event of the given type; EXCEPT sets what its type has besides. *)
Plain(room, type, sender, ts) ==
    [room |-> room, type |-> type, sender |-> sender, target |-> sender,
     membership |-> "join", rule |-> "invite", content |-> NoLevels, ts |-> ts,
     local |-> FALSE, soft |-> FALSE]

RoomInit == events = << >> /\ pending = {}

Known == pending \cup {events[i] : i \in Rows}

(* The time stamp the local clock gives next. *)
Now == Len(events) + 2

(* create_room: the create event, the power levels, the join rules and the *)
(* creator's membership.                                                   *)
FirstEvents(room, creator, rule, ts) ==
    LET First(type) == [Plain(room, type, creator, ts) EXCEPT !.local = TRUE]
    IN << First("create"),
          [First("power_levels") EXCEPT !.content = CreatorLevels(creator)],
          [First("join_rules") EXCEPT !.rule = rule],
          First("member") >>

(* The room id is new, and nobody has it before create_room returns: no    *)
(* event of the room comes between the first ones.                         *)
CreateRoom(room, creator, rule) ==
    /\ \A e \in Known : e.room # room
    /\ events' = events \o FirstEvents(room, creator, rule, Now)
    /\ UNCHANGED pending

(* The rows that create_room made for the room's creation: its creator's.  *)
MadeBy(room, u) ==
    \E i \in Rows : /\ events[i].room = room /\ events[i].type = "create"
                    /\ events[i].local /\ events[i].sender = u

Made(room) == \E u \in Local : MadeBy(room, u)

-----------------------------------------------------------------------------
(* The authorization state: AuthState and its queries.                     *)

IsState(e) == e.type \notin {"message", "redaction"}

SameKey(e, f) ==
    /\ e.room = f.room
    /\ IsState(e)
    /\ e.type = f.type
    /\ e.type = "member" => e.target = f.target

GetOr(f, k, default) == IF k \in DOMAIN f THEN f[k] ELSE default

OneOf(S, default) == IF S = {} THEN {default} ELSE S

RowsOf(S, type) == {i \in S \cap Rows : events[i].type = type}

MembershipsOf(S, u) ==
    {events[i].membership : i \in {j \in RowsOf(S, "member") : events[j].target = u}}

(* build_auth_state over the rows S for judging e.  The key is type and    *)
(* state key alone: rows of other rooms count like those of e's.  Of two   *)
(* rows with one key the later in the list stays; the sender of a PDU      *)
(* orders its list, so which one that is is left open.  A missing join     *)
(* rule reads "invite".                                                    *)
build_auth_state(S, e) ==
    {st \in [levels : OneOf({events[i].content : i \in RowsOf(S, "power_levels")}, NoLevels),
             rule : OneOf({events[i].rule : i \in RowsOf(S, "join_rules")}, "invite"),
             sender : OneOf(MembershipsOf(S, e.sender), "none"),
             target : OneOf(MembershipsOf(S, e.target), "none")] :
        e.sender = e.target => st.sender = st.target}

get_user_power_level(st, u) == GetOr(st.levels.users, u, 0)

get_required_power_level(st, e) ==
    GetOr(st.levels.events, e.type,
          IF IsState(e) THEN GetOr(st.levels.fields, "state_default", 50)
                        ELSE GetOr(st.levels.fields, "events_default", 0))

-----------------------------------------------------------------------------
(* AuthorizationEngine::authorize_event.                                   *)

(* Mutant: a sender without a membership is let through. *)
AnySenderAuthorized(e, st) == st.sender \in {"none", "join"} \/ e.type = "member"

validate_sender_authorization(e, st) ==
    IF st.sender = "none" THEN e.type \in {"member", "create"}
                          ELSE st.sender = "join" \/ e.type = "member"

(* Mutant: only lowering a level is compared with the sender's. *)
UncappedPowerLevelEvent(e, st) ==
    LET mine == get_user_power_level(st, e.sender)
    IN \A u \in DOMAIN e.content.users :
          LET current == get_user_power_level(st, u)
          IN ~(current >= mine /\ e.content.users[u] < current)

(* Only the users that the new content lists are compared, and the levels  *)
(* in its "events" are not.                                                *)
validate_power_level_event(e, st) ==
    LET mine == get_user_power_level(st, e.sender)
    IN /\ \A u \in DOMAIN e.content.users :
             LET current == get_user_power_level(st, u)
             IN /\ e.content.users[u] <= mine
                /\ ~(current >= mine /\ e.content.users[u] < current)
       /\ \A f \in DOMAIN e.content.fields : e.content.fields[f] <= mine

validate_power_level(e, st) ==
    /\ get_user_power_level(st, e.sender) >= get_required_power_level(st, e)
    /\ e.type = "power_levels" => validate_power_level_event(e, st)

(* In a restricted room a query of another room's members decides. *)
validate_join_authorization(st, admitted) == st.rule = "restricted" => admitted

(* The sender's level reaches the one for the deed, and is above that of   *)
(* its target.                                                             *)
MayForce(e, st, field) ==
    /\ get_user_power_level(st, e.sender) >= GetOr(st.levels.fields, field, 50)
    /\ get_user_power_level(st, e.target) < get_user_power_level(st, e.sender)

validate_membership_transition(e, st, admitted) ==
    LET current == IF st.target = "none" THEN "leave" ELSE st.target
        self == e.sender = e.target
    IN \/ /\ e.membership = "join" /\ self
          /\ current \in {"leave", "invite"}
          /\ validate_join_authorization(st, admitted)
       \/ e.membership = "leave" /\ self
       \/ /\ e.membership = "invite" /\ current = "leave"
          /\ get_user_power_level(st, e.sender) >= GetOr(st.levels.fields, "invite", 0)
       \/ e.membership = "ban" /\ MayForce(e, st, "ban")
       \/ e.membership = "leave" /\ ~self /\ MayForce(e, st, "kick")
       \/ e.membership = "knock" /\ self /\ current = "leave" /\ st.rule = "knock"

(* Contents are well-formed here, so the other types pass. *)
validate_event_type(e, auth, st, admitted) ==
    CASE e.type = "create" -> auth = {}
      [] e.type = "member" -> validate_membership_transition(e, st, admitted)
      [] e.type = "redaction" ->
             get_user_power_level(st, e.sender) >= GetOr(st.levels.fields, "redact", 50)
      [] OTHER -> TRUE

authorize_event(e, auth, st, admitted) ==
    /\ validate_sender_authorization(e, st)
    /\ validate_power_level(e, st)
    /\ validate_event_type(e, auth, st, admitted)

(* authorize_event can accept e, which lists auth, when it is given the    *)
(* rows S.                                                                 *)
Authorized(e, auth, S) ==
    \E st \in build_auth_state(S, e), admitted \in BOOLEAN :
        authorize_event(e, auth, st, admitted)

-----------------------------------------------------------------------------
(* PduValidator::validate_pdu.                                             *)

(* RoomRepository::get_room_state reads every state event of the room, the *)
(* latest first, and build_auth_state keeps the last of each key.          *)
CurrentState(room) ==
    LET state == {i \in Rows : events[i].room = room /\ IsState(events[i])}
    IN {i \in state : \A j \in state :
           SameKey(events[i], events[j]) => events[i].ts <= events[j].ts}

(* FederationRepository::get_current_state_event for the key of e. *)
LatestOfKey(e) ==
    LET good == {i \in Rows : SameKey(e, events[i]) /\ ~events[i].soft}
    IN {i \in good : \A j \in good : events[j].ts <= events[i].ts}

SameContent(e, f) ==
    /\ e.type = f.type /\ e.sender = f.sender /\ e.target = f.target
    /\ e.membership = f.membership /\ e.rule = f.rule /\ e.content = f.content

(* check_event_deduplication: an event with the same content sent within a *)
(* second, or the latest of its key.  A row with the same id is one.       *)
check_event_deduplication(e) ==
    \E i \in Rows : /\ events[i].room = e.room
                    /\ SameContent(e, events[i])
                    /\ events[i].ts = e.ts \/ i \in LatestOfKey(e)

(* validate_current_state lets e pass. *)
AllowedNow(e, auth) == Authorized(e, auth, CurrentState(e.room))

(* Steps 5b and 6.  auth holds the rows of e's auth_events, which are      *)
(* fetched by id: of any room.  With one that is not in the table step 4a  *)
(* refuses e, or e is an outlier and the rest counts; an event that fails  *)
(* before step 6 is not stored.  Step 6 soft-fails e when the room's state *)
(* does not allow it, and also when the room is not here, the depth is     *)
(* wrong or a query fails: of any event, then.                             *)
ValidatePdu(e, auth) ==
    /\ ~check_event_deduplication(e)
    /\ Authorized(e, auth, auth)
    /\ \E soft \in BOOLEAN :
          /\ ~soft => AllowedNow(e, auth)
          /\ pending' = pending \cup {[e EXCEPT !.soft = soft]}
    /\ UNCHANGED events

-----------------------------------------------------------------------------
(* PUT .../state/{type}/{key} of a room's creator, who is joined.          *)

(* EventRepository::get_room_power_levels takes the row of greatest depth. *)
(* create_room gives its events none; which other row is deepest is left   *)
(* open, as a PDU's depth is up to its server.                             *)
ReadableLevels(room) ==
    LET all == {i \in RowsOf(Rows, "power_levels") : events[i].room = room}
        later == {i \in all : \E j \in all : j < i}
    IN IF later = {} THEN all ELSE later

check_state_send_permission(e) ==
    \E i \in ReadableLevels(e.room) :
        LET c == events[i].content
        IN GetOr(c.users, e.sender, GetOr(c.fields, "users_default", 0))
             >= GetOr(c.events, e.type, GetOr(c.fields, "state_default", 50))

(* Mutant: the age of the event is stored as its time stamp. *)
PutStateAge(e) ==
    /\ IsState(e)
    /\ MadeBy(e.room, e.sender)
    /\ check_state_send_permission(e)
    /\ pending' = pending \cup {[e EXCEPT !.local = TRUE, !.ts = 0 - Len(events)]}
    /\ UNCHANGED events

(* The content is not checked.  The local clock gives the time stamp. *)
PutState(e) ==
    /\ IsState(e)
    /\ MadeBy(e.room, e.sender)
    /\ check_state_send_permission(e)
    /\ pending' = pending \cup {[e EXCEPT !.local = TRUE, !.ts = Now]}
    /\ UNCHANGED events

-----------------------------------------------------------------------------
(* EventRepository::create: fails when a row has the id.  A local event's  *)
(* id is new; a PDU's is in its row already when another request brought   *)
(* it.                                                                     *)
Stored(e) ==
    /\ ~e.local
    /\ \E i \in Rows : [events[i] EXCEPT !.soft = FALSE] = [e EXCEPT !.soft = FALSE]

Create(e) ==
    /\ e \in pending
    /\ ~Stored(e)
    /\ events' = Append(events, e)
    /\ pending' = pending \ {e}

CreateFails(e) ==
    /\ e \in pending
    /\ Stored(e)
    /\ pending' = pending \ {e}
    /\ UNCHANGED events

-----------------------------------------------------------------------------
(* The specification.                                                      *)

LevelsBy(r, s, ts, c) == [Plain(r, "power_levels", s, ts) EXCEPT !.content = c]

RuleBy(r, s, ts, rule) == [Plain(r, "join_rules", s, ts) EXCEPT !.rule = rule]

MemberBy(r, s, ts, u, m) ==
    [Plain(r, "member", s, ts) EXCEPT !.target = u, !.membership = m]

(* The events of sender s in room r. *)
EventsOf(r, s, ts) ==
    {Plain(r, type, s, ts) : type \in {"create", "state", "message", "redaction"}}
    \cup {LevelsBy(r, s, ts, c) : c \in Contents}
    \cup {RuleBy(r, s, ts, rule) : rule \in JoinRules}
    \cup {MemberBy(r, s, ts, u, m) : u \in User, m \in Memberships}

AtMostOne(S) == {{}} \cup {{x} : x \in S}

MembersOf(u) == {i \in RowsOf(Rows, "member") : events[i].target = u}

(* The lists worth telling apart: build_auth_state keeps one row per key,  *)
(* and authorize_event looks at no others than these.                      *)
AuthLists(e) ==
    {a \cup b \cup c \cup d :
        a \in AtMostOne(RowsOf(Rows, "power_levels")),
        b \in AtMostOne(MembersOf(e.sender)),
        c \in AtMostOne(IF e.target = e.sender THEN {} ELSE MembersOf(e.target)),
        d \in AtMostOne(IF e.type # "member" THEN {} ELSE RowsOf(Rows, "join_rules"))}

HasSpace ==
    Len(events) + Cardinality(pending) < MaxAdded + 4 * Cardinality({r \in Room : Made(r)})

RoomNext ==
    \/ \E r \in Room, u \in Local, rule \in {"public", "invite"} : CreateRoom(r, u, rule)
    \/ /\ HasSpace
       /\ \E r \in Room, s \in User, ts \in Stamps : \E e \in EventsOf(r, s, ts) :
             \E auth \in AuthLists(e) : ValidatePdu(e, auth)
    \/ /\ HasSpace
       /\ \E r \in Room, s \in Local : \E e \in EventsOf(r, s, 0) : PutState(e)
    \/ \E e \in pending : Create(e)
    \/ \E e \in pending : CreateFails(e)

RoomSpec == RoomInit /\ [][RoomNext]_roomVars

-----------------------------------------------------------------------------
(* Properties.                                                             *)

Levels(e) == {e.content.users[u] : u \in DOMAIN e.content.users}

RootedPower(e) ==
    ~e.local /\ e.type = "power_levels" =>
        \A level \in Levels(e) : level > 0 =>
            \E j \in Rows : /\ events[j].local /\ events[j].type = "power_levels"
                            /\ \E most \in Levels(events[j]) : level <= most

(* Power comes from this server: whatever PDUs are accepted, in whatever   *)
(* order and with auth_events as old and of whatever rooms they like, a    *)
(* positive level that a power levels event of another server gives was    *)
(* reached in one a local user made, in this room or another.              *)
PowerComesFromHere == \A e \in Known : RootedPower(e)

(* u is joined by a row in u's own name, or one made here. *)
OwnJoin(room, u) ==
    \E j \in Rows : /\ events[j].type = "member" /\ events[j].target = u
                    /\ events[j].room = room /\ events[j].membership = "join"
                    /\ events[j].local \/ events[j].sender = u

(* An event of another server that is not about membership is accepted     *)
(* only when the table has a join of its sender, in the sender's own name  *)
(* or made here: no PDU in one user's name makes another a speaker.  The   *)
(* join may be one in another room, but then step 6 soft-fails the event.  *)
SpeakersJoined ==
    \A e \in Known :
        ~e.local /\ e.type # "member" =>
            \E room \in Room : OwnJoin(room, e.sender) /\ (~e.soft => room = e.room)

LatestState(room) ==
    {i \in Rows : events[i].room = room /\ IsState(events[i]) /\ i \in LatestOfKey(events[i])}

(* "Unlike Step 5 which uses auth_events, this validates against the       *)
(* current room state" (validate_current_state): a PDU that is accepted    *)
(* and not soft-failed is one that the latest state event of each key      *)
(* allows.                                                                 *)
ValidIsAllowedNow ==
    [][\A e \in pending' \ pending :
          ~e.local /\ ~e.soft => Authorized(e, {}, LatestState(e.room))]_roomVars
=============================================================================
