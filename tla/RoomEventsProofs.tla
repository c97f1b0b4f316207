-------------------------- MODULE RoomEventsProofs --------------------------
(* Theorems about RoomEvents: what the events of other servers can bring   *)
(* into the rooms, for any users, rooms, contents and number of rows.      *)
EXTENDS RoomEvents, TLAPS

(* A join that another server sent is in the name of the one who joins. *)
JoinsAreOwn ==
    \A e \in Known : ~e.local /\ e.type = "member" /\ e.membership = "join"
                        => e.sender = e.target

RoomInv == RoomTypeOK /\ PowerComesFromHere /\ SpeakersJoined /\ JoinsAreOwn

-----------------------------------------------------------------------------

(* The levels of every content are integers. *)
LEMMA ContentType ==
    ASSUME NEW c \in Contents \cup {NoLevels} \cup {CreatorLevels(u) : u \in Local}
    PROVE  IsContent(c)
<1>1. CASE c \in Contents
  BY <1>1, RoomAssumption
<1>2. CASE c = NoLevels
  BY <1>2 DEF NoLevels, IsContent, IsObject
<1>3. ASSUME NEW u \in Local, c = CreatorLevels(u) PROVE IsContent(c)
  <2>1. IsObject(CreatorLevels(u).users, User)
    BY RoomAssumption DEF CreatorLevels, IsObject
  <2>2. IsObject(CreatorLevels(u).events, Types)
    BY DEF CreatorLevels, IsObject
  <2>3. IsObject(CreatorLevels(u).fields, Fields)
    BY DEF CreatorLevels, IsObject
  <2> QED BY <1>3, <2>1, <2>2, <2>3 DEF IsContent
<1> QED BY <1>1, <1>2, <1>3

LEMMA PlainType ==
    ASSUME NEW r \in Room, NEW type \in Types, NEW s \in User, NEW ts \in Nat
    PROVE  Plain(r, type, s, ts) \in Event
BY DEF Plain, Event, Memberships

(* What another server may send: typed, from its sender, neither local nor *)
(* soft-failed.                                                            *)
LEMMA EventsOfType ==
    ASSUME NEW r \in Room, NEW s \in User, NEW ts \in Nat, NEW e \in EventsOf(r, s, ts)
    PROVE  e \in Event /\ ~e.local /\ e.sender = s
<1>1. ASSUME NEW type \in {"create", "state", "message", "redaction"}, e = Plain(r, type, s, ts)
      PROVE  e \in Event /\ ~e.local /\ e.sender = s
  BY <1>1, PlainType DEF Plain, Types
<1>2. ASSUME NEW c \in Contents, e = LevelsBy(r, s, ts, c)
      PROVE  e \in Event /\ ~e.local /\ e.sender = s
  BY <1>2 DEF LevelsBy, Plain, Event, Types, Memberships
<1>3. ASSUME NEW rule \in JoinRules, e = RuleBy(r, s, ts, rule)
      PROVE  e \in Event /\ ~e.local /\ e.sender = s
  BY <1>3 DEF RuleBy, Plain, Event, Types, Memberships
<1>4. ASSUME NEW u \in User, NEW m \in Memberships, e = MemberBy(r, s, ts, u, m)
      PROVE  e \in Event /\ ~e.local /\ e.sender = s
  BY <1>4 DEF MemberBy, Plain, Event, Types, Memberships
<1> QED BY <1>1, <1>2, <1>3, <1>4 DEF EventsOf

(* What create_room stores is typed and local. *)
LEMMA FirstEventsType ==
    ASSUME NEW r \in Room, NEW u \in Local, NEW rule \in {"public", "invite"}, NEW ts \in Nat
    PROVE  /\ FirstEvents(r, u, rule, ts) \in Seq(Event)
           /\ \A i \in DOMAIN FirstEvents(r, u, rule, ts) : FirstEvents(r, u, rule, ts)[i].local
<1> DEFINE First(type) == [Plain(r, type, u, ts) EXCEPT !.local = TRUE]
           e1 == First("create")
           e2 == [First("power_levels") EXCEPT !.content = CreatorLevels(u)]
           e3 == [First("join_rules") EXCEPT !.rule = rule]
           e4 == First("member")
<1>1. e1 \in Event /\ e1.local
  BY RoomAssumption DEF Plain, Event, Memberships, Types
<1>2. e2 \in Event /\ e2.local
  BY RoomAssumption DEF Plain, Event, Memberships, Types
<1>3. e3 \in Event /\ e3.local
  BY RoomAssumption DEF Plain, Event, Memberships, Types
<1>4. e4 \in Event /\ e4.local
  BY RoomAssumption DEF Plain, Event, Memberships, Types
<1>5. FirstEvents(r, u, rule, ts) = <<e1, e2, e3, e4>>
  BY DEF FirstEvents
<1> HIDE DEF e1, e2, e3, e4
<1> QED BY <1>1, <1>2, <1>3, <1>4, <1>5

(* Where the levels that judge an event come from. *)
LEMMA LevelsFrom ==
    ASSUME NEW S, NEW e, NEW st \in build_auth_state(S, e)
    PROVE  \/ st.levels = NoLevels
           \/ /\ \E i \in S \cap Rows : events[i].type = "power_levels"
                                        /\ st.levels = events[i].content
<1>1. st.levels \in OneOf({events[i].content : i \in RowsOf(S, "power_levels")}, NoLevels)
  BY DEF build_auth_state
<1> QED BY <1>1 DEF OneOf, RowsOf

(* Where the membership of the sender comes from. *)
LEMMA SenderFrom ==
    ASSUME NEW S, NEW e, NEW st \in build_auth_state(S, e), st.sender # "none"
    PROVE  \E j \in S \cap Rows : /\ events[j].type = "member" /\ events[j].target = e.sender
                                  /\ events[j].membership = st.sender
<1>1. st.sender \in OneOf(MembershipsOf(S, e.sender), "none")
  BY DEF build_auth_state
<1> QED BY <1>1 DEF OneOf, MembershipsOf, RowsOf

(* A sender of positive level is listed in a row. *)
LEMMA PowerFrom ==
    ASSUME RoomTypeOK, NEW S, NEW e, NEW st \in build_auth_state(S, e),
           get_user_power_level(st, e.sender) > 0
    PROVE  \E i \in Rows : /\ events[i].type = "power_levels"
                           /\ get_user_power_level(st, e.sender) \in Levels(events[i])
<1>1. e.sender \in DOMAIN st.levels.users
  BY DEF get_user_power_level, GetOr
<1>2. st.levels # NoLevels
  BY <1>1 DEF NoLevels
<1>3. PICK i \in Rows : events[i].type = "power_levels" /\ st.levels = events[i].content
  BY <1>2, LevelsFrom
<1> QED BY <1>1, <1>3 DEF get_user_power_level, GetOr, Levels

(* An authorized power levels event of another server is rooted here. *)
LEMMA AuthorizedPower ==
    ASSUME RoomInv, NEW e \in Event, NEW auth, Authorized(e, auth, auth)
    PROVE  RootedPower(e)
<1>1. PICK st \in build_auth_state(auth, e), admitted \in BOOLEAN :
          authorize_event(e, auth, st, admitted)
  BY DEF Authorized
<1> DEFINE mine == get_user_power_level(st, e.sender)
<1>2. SUFFICES ASSUME e.type = "power_levels", NEW level \in Levels(e), level > 0
      PROVE  \E j \in Rows : /\ events[j].local /\ events[j].type = "power_levels"
                             /\ \E most \in Levels(events[j]) : level <= most
  BY DEF RootedPower
<1>3. level <= mine
  <2>1. PICK u \in DOMAIN e.content.users : level = e.content.users[u]
    BY <1>2 DEF Levels
  <2>2. validate_power_level_event(e, st)
    BY <1>1, <1>2 DEF authorize_event, validate_power_level
  <2> QED BY <2>1, <2>2 DEF validate_power_level_event
<1>4. level \in Int
  <2>1. IsContent(e.content)
    BY ContentType DEF Event
  <2> QED BY <1>2, <2>1 DEF Levels, IsContent, IsObject
<1>5. mine \in Int
  <2>1. IsContent(st.levels)
    <3>1. CASE st.levels = NoLevels
      BY <3>1, ContentType
    <3>2. ASSUME NEW i \in Rows, st.levels = events[i].content PROVE IsContent(st.levels)
      <4>1. events[i] \in Event
        BY DEF RoomInv, RoomTypeOK, Rows
      <4> QED BY <3>2, <4>1, ContentType DEF Event
    <3> QED BY <3>1, <3>2, LevelsFrom
  <2> QED BY <2>1 DEF get_user_power_level, GetOr, IsContent, IsObject
<1>6. mine > 0
  BY <1>2, <1>3, <1>4, <1>5
<1>7. PICK i \in Rows : events[i].type = "power_levels" /\ mine \in Levels(events[i])
  BY <1>6, PowerFrom DEF RoomInv
<1>8. CASE events[i].local
  BY <1>3, <1>7, <1>8
<1>9. CASE ~events[i].local
  <2>1. RootedPower(events[i])
    BY DEF RoomInv, PowerComesFromHere, Known
  <2>2. PICK j \in Rows : /\ events[j].local /\ events[j].type = "power_levels"
                          /\ \E most \in Levels(events[j]) : mine <= most
    BY <1>6, <1>7, <1>9, <2>1 DEF RootedPower
  <2>3. PICK most \in Levels(events[j]) : mine <= most
    BY <2>2
  <2>4. most \in Int
    <3>1. events[j] \in Event
      BY DEF RoomInv, RoomTypeOK, Rows
    <3>2. IsContent(events[j].content)
      BY <3>1, ContentType DEF Event
    <3> QED BY <2>3, <3>2 DEF Levels, IsContent, IsObject
  <2>5. level <= most
    BY <1>3, <1>4, <1>5, <2>3, <2>4
  <2> QED BY <2>2, <2>3, <2>5
<1> QED BY <1>8, <1>9

(* Without auth_events nobody has the level for a create event. *)
LEMMA NoSecondCreate ==
    ASSUME NEW e, NEW auth, Authorized(e, auth, auth)
    PROVE  e.type # "create"
<1> SUFFICES ASSUME e.type = "create" PROVE FALSE
  OBVIOUS
<1>1. PICK st \in build_auth_state(auth, e), admitted \in BOOLEAN :
          authorize_event(e, auth, st, admitted)
  BY DEF Authorized
<1>2. auth = {}
  BY <1>1 DEF authorize_event, validate_event_type
<1>3. st.levels = NoLevels
  BY <1>2, LevelsFrom
<1>4. get_user_power_level(st, e.sender) = 0
  BY <1>3 DEF get_user_power_level, GetOr, NoLevels
<1>5. get_required_power_level(st, e) = 50
  BY <1>3 DEF get_required_power_level, GetOr, NoLevels, IsState
<1> QED BY <1>1, <1>4, <1>5 DEF authorize_event, validate_power_level

(* Whoever lets an event that is neither a create event nor about          *)
(* membership pass has a join of its sender among its rows.                *)
LEMMA AuthorizedSpeaker ==
    ASSUME RoomInv, NEW e \in Event, NEW auth, NEW S, Authorized(e, auth, S),
           e.type \notin {"member", "create"}
    PROVE  \E j \in S \cap Rows : OwnJoin(events[j].room, e.sender)
<1>1. PICK st \in build_auth_state(S, e), admitted \in BOOLEAN :
          authorize_event(e, auth, st, admitted)
  BY DEF Authorized
<1>2. st.sender = "join"
  BY <1>1 DEF authorize_event, validate_sender_authorization
<1>3. PICK j \in S \cap Rows : /\ events[j].type = "member" /\ events[j].target = e.sender
                               /\ events[j].membership = "join"
  BY <1>2, SenderFrom
<1>4. events[j].local \/ events[j].sender = e.sender
  BY <1>3 DEF RoomInv, JoinsAreOwn, Known
<1> QED BY <1>3, <1>4 DEF OwnJoin

LEMMA AuthorizedJoin ==
    ASSUME NEW e, NEW auth, Authorized(e, auth, auth),
           e.type = "member", e.membership = "join"
    PROVE  e.sender = e.target
<1>1. PICK st \in build_auth_state(auth, e), admitted \in BOOLEAN :
          authorize_event(e, auth, st, admitted)
  BY DEF Authorized
<1>2. validate_membership_transition(e, st, admitted)
  BY <1>1 DEF authorize_event, validate_event_type
<1> QED BY <1>2 DEF validate_membership_transition

-----------------------------------------------------------------------------

(* What SpeakersJoined asks of one event. *)
Speaks(e) ==
    ~e.local /\ e.type # "member" =>
        \E room \in Room : OwnJoin(room, e.sender) /\ (~e.soft => room = e.room)

(* When rows are only added, what holds of an event goes on holding of it. *)
LEMMA RowsGrow ==
    ASSUME Rows \subseteq Rows', \A i \in Rows : events'[i] = events[i], NEW e
    PROVE  /\ RootedPower(e) => RootedPower(e)'
           /\ Speaks(e) => Speaks(e)'
<1>1. ASSUME RootedPower(e) PROVE RootedPower(e)'
  <2> SUFFICES ASSUME ~e.local, e.type = "power_levels", NEW level \in Levels(e), level > 0
               PROVE  \E j \in Rows' : /\ events'[j].local /\ events'[j].type = "power_levels"
                                       /\ \E most \in Levels(events'[j]) : level <= most
    BY DEF RootedPower
  <2>1. PICK j \in Rows : /\ events[j].local /\ events[j].type = "power_levels"
                          /\ \E most \in Levels(events[j]) : level <= most
    BY <1>1 DEF RootedPower
  <2>2. events'[j] = events[j] /\ j \in Rows'
    OBVIOUS
  <2> QED BY <2>1, <2>2
<1>2. ASSUME NEW room, OwnJoin(room, e.sender) PROVE OwnJoin(room, e.sender)'
  BY <1>2 DEF OwnJoin
<1>3. ASSUME Speaks(e) PROVE Speaks(e)'
  BY <1>2, <1>3 DEF Speaks
<1> QED BY <1>1, <1>3

(* A step adds typed rows and events under way; those that are new are     *)
(* local or satisfy what the invariant asks of an event.                   *)
LEMMA Grows ==
    ASSUME RoomInv, RoomTypeOK',
           Rows \subseteq Rows', \A i \in Rows : events'[i] = events[i],
           \A e \in Known' : \/ e \in Known
                             \/ e.local
                             \/ /\ RootedPower(e) /\ Speaks(e)
                                /\ e.type = "member" /\ e.membership = "join"
                                      => e.sender = e.target
    PROVE  RoomInv'
<1>1. ASSUME NEW e \in Known'
      PROVE  RootedPower(e)' /\ Speaks(e)'
  <2>1. CASE e.local
    BY <2>1 DEF RootedPower, Speaks
  <2>2. CASE e \in Known
    <3>1. RootedPower(e) /\ Speaks(e)
      BY <2>2 DEF RoomInv, PowerComesFromHere, SpeakersJoined, Speaks
    <3> QED BY <3>1, RowsGrow
  <2>3. CASE RootedPower(e) /\ Speaks(e)
    BY <2>3, RowsGrow
  <2> QED BY <2>1, <2>2, <2>3
<1>2. PowerComesFromHere'
  BY <1>1 DEF PowerComesFromHere
<1>3. SpeakersJoined'
  BY <1>1 DEF SpeakersJoined, Speaks
<1>4. JoinsAreOwn'
  BY DEF RoomInv, JoinsAreOwn
<1> QED BY <1>2, <1>3, <1>4 DEF RoomInv

LEMMA InitRoom == RoomInit => RoomInv
<1> SUFFICES ASSUME RoomInit PROVE RoomInv
  OBVIOUS
<1>1. Rows = {} /\ Known = {}
  BY DEF RoomInit, Rows, Known
<1>2. RoomTypeOK
  BY DEF RoomInit, RoomTypeOK
<1> QED BY <1>1, <1>2 DEF RoomInv, PowerComesFromHere, SpeakersJoined, JoinsAreOwn

LEMMA CreateRoomStep ==
    ASSUME RoomInv, NEW r \in Room, NEW u \in Local, NEW rule \in {"public", "invite"},
           CreateRoom(r, u, rule)
    PROVE  RoomInv'
<1> DEFINE first == FirstEvents(r, u, rule, Now)
<1>1. events \in Seq(Event) /\ pending \subseteq Event
  BY DEF RoomInv, RoomTypeOK
<1>2. first \in Seq(Event) /\ \A i \in DOMAIN first : first[i].local
  <2>1. Now \in Nat
    BY <1>1 DEF Now
  <2> QED BY <2>1, FirstEventsType
<1>3. events' = events \o first /\ pending' = pending
  BY DEF CreateRoom
<1> HIDE DEF first
<1>4. RoomTypeOK'
  BY <1>1, <1>2, <1>3 DEF RoomTypeOK
<1>5. Rows \subseteq Rows' /\ \A i \in Rows : events'[i] = events[i]
  BY <1>1, <1>2, <1>3 DEF Rows
<1>6. ASSUME NEW i \in Rows' PROVE events'[i] \in Known \/ events'[i].local
  <2>1. CASE i \in Rows
    BY <1>5, <2>1 DEF Known
  <2>2. CASE i \notin Rows
    <3>1. i - Len(events) \in DOMAIN first /\ events'[i] = first[i - Len(events)]
      BY <1>1, <1>2, <1>3, <2>2 DEF Rows
    <3> QED BY <1>2, <3>1
  <2> QED BY <2>1, <2>2
<1>7. \A e \in Known' : e \in Known \/ e.local
  BY <1>3, <1>6 DEF Known
<1> QED BY <1>4, <1>5, <1>7, Grows

LEMMA ValidatePduStep ==
    ASSUME RoomInv, NEW r \in Room, NEW s \in User, NEW ts \in Stamps,
           NEW e \in EventsOf(r, s, ts), NEW auth, ValidatePdu(e, auth)
    PROVE  RoomInv'
<1>1. PICK soft \in BOOLEAN : /\ ~soft => Authorized(e, auth, CurrentState(e.room))
                              /\ pending' = pending \cup {[e EXCEPT !.soft = soft]}
  BY DEF ValidatePdu, AllowedNow
<1>2. Authorized(e, auth, auth) /\ events' = events
  BY DEF ValidatePdu
<1>3. e \in Event /\ ~e.local
  BY RoomAssumption, EventsOfType
<1> DEFINE f == [e EXCEPT !.soft = soft]
<1>4. /\ f \in Event /\ f.local = e.local /\ f.type = e.type /\ f.sender = e.sender
      /\ f.target = e.target /\ f.membership = e.membership /\ f.content = e.content
      /\ f.room = e.room /\ f.soft = soft
  BY <1>3 DEF Event
<1>5. RootedPower(f)
  <2>1. RootedPower(e)
    BY <1>2, <1>3, AuthorizedPower
  <2> QED BY <1>4, <2>1 DEF RootedPower, Levels
<1>6. Speaks(f)
  <2> SUFFICES ASSUME e.type # "member"
               PROVE  \E room \in Room : OwnJoin(room, e.sender) /\ (~soft => room = e.room)
    BY <1>4 DEF Speaks
  <2>1. e.type \notin {"member", "create"}
    BY <1>2, NoSecondCreate
  <2>2. ASSUME NEW j \in Rows PROVE events[j].room \in Room
    <3>1. events[j] \in Event
      BY DEF RoomInv, RoomTypeOK, Rows
    <3> QED BY <3>1 DEF Event
  <2>3. CASE soft
    <3>1. PICK j \in auth \cap Rows : OwnJoin(events[j].room, e.sender)
      BY <1>2, <1>3, <2>1, AuthorizedSpeaker
    <3> QED BY <2>2, <2>3, <3>1
  <2>4. CASE ~soft
    <3>1. PICK j \in CurrentState(e.room) \cap Rows : OwnJoin(events[j].room, e.sender)
      BY <1>1, <1>3, <2>1, <2>4, AuthorizedSpeaker
    <3>2. events[j].room = e.room
      BY <3>1 DEF CurrentState
    <3> QED BY <2>2, <3>1, <3>2
  <2> QED BY <2>3, <2>4
<1>7. f.type = "member" /\ f.membership = "join" => f.sender = f.target
  BY <1>2, <1>4, AuthorizedJoin
<1> HIDE DEF f
<1>8. RoomTypeOK' /\ Rows' = Rows /\ Known' = Known \cup {f}
  BY <1>1, <1>2, <1>4 DEF f, RoomInv, RoomTypeOK, Rows, Known
<1> QED BY <1>2, <1>5, <1>6, <1>7, <1>8, Grows

LEMMA PutStateStep ==
    ASSUME RoomInv, NEW r \in Room, NEW s \in Local, NEW e \in EventsOf(r, s, 0), PutState(e)
    PROVE  RoomInv'
<1> DEFINE f == [e EXCEPT !.local = TRUE, !.ts = Now]
<1>1. e \in Event
  BY RoomAssumption, EventsOfType
<1>2. Now \in Nat
  BY DEF RoomInv, RoomTypeOK, Now
<1>3. f \in Event /\ f.local
  BY <1>1, <1>2 DEF Event
<1>4. pending' = pending \cup {f} /\ events' = events
  BY DEF PutState
<1> HIDE DEF f
<1>5. RoomTypeOK' /\ Rows' = Rows /\ Known' = Known \cup {f}
  BY <1>3, <1>4 DEF RoomInv, RoomTypeOK, Rows, Known
<1> QED BY <1>3, <1>4, <1>5, Grows

LEMMA CreateStep ==
    ASSUME RoomInv, NEW e \in pending, Create(e)
    PROVE  RoomInv'
<1>1. events \in Seq(Event) /\ e \in Event /\ pending \subseteq Event
  BY DEF RoomInv, RoomTypeOK
<1>2. events' = Append(events, e) /\ pending' = pending \ {e}
  BY DEF Create
<1>3. RoomTypeOK'
  BY <1>1, <1>2 DEF RoomTypeOK
<1>4. Rows \subseteq Rows' /\ \A i \in Rows : events'[i] = events[i]
  BY <1>1, <1>2 DEF Rows
<1>5. \A i \in Rows' : events'[i] \in {e} \cup {events[j] : j \in Rows}
  BY <1>1, <1>2 DEF Rows
<1>6. \A f \in Known' : f \in Known
  BY <1>2, <1>5 DEF Known
<1> QED BY <1>3, <1>4, <1>6, Grows

LEMMA RoomStep == RoomInv /\ [RoomNext]_roomVars => RoomInv'
<1> SUFFICES ASSUME RoomInv, [RoomNext]_roomVars PROVE RoomInv'
  OBVIOUS
<1>1. ASSUME NEW r \in Room, NEW u \in Local, NEW rule \in {"public", "invite"},
             CreateRoom(r, u, rule)
      PROVE  RoomInv'
  BY <1>1, CreateRoomStep
<1>2. ASSUME NEW r \in Room, NEW s \in User, NEW ts \in Stamps, NEW e \in EventsOf(r, s, ts),
             NEW auth \in AuthLists(e), ValidatePdu(e, auth)
      PROVE  RoomInv'
  BY <1>2, ValidatePduStep
<1>3. ASSUME NEW r \in Room, NEW s \in Local, NEW e \in EventsOf(r, s, 0), PutState(e)
      PROVE  RoomInv'
  BY <1>3, PutStateStep
<1>4. ASSUME NEW e \in pending, Create(e) PROVE RoomInv'
  BY <1>4, CreateStep
<1>5. ASSUME NEW e \in pending, CreateFails(e) PROVE RoomInv'
  <2>1. pending' \subseteq pending /\ events' = events /\ Rows' = Rows
    BY <1>5 DEF CreateFails, Rows
  <2>2. RoomTypeOK' /\ Known' \subseteq Known
    BY <2>1 DEF RoomInv, RoomTypeOK, Known
  <2> QED BY <2>1, <2>2, Grows
<1>6. CASE UNCHANGED roomVars
  <2>1. pending' = pending /\ events' = events /\ Rows' = Rows
    BY <1>6 DEF roomVars, Rows
  <2>2. RoomTypeOK' /\ Known' = Known
    BY <2>1 DEF RoomInv, RoomTypeOK, Known
  <2> QED BY <2>1, <2>2, Grows
<1> QED BY <1>1, <1>2, <1>3, <1>4, <1>5, <1>6 DEF RoomNext

(* The four facts together are inductive. *)
THEOREM RoomInvariant == RoomSpec => []RoomInv
BY InitRoom, RoomStep, PTL DEF RoomSpec

(* The event table and the requests under way hold events: create_room,    *)
(* validate_pdu and PUT of a state event make nothing else.                *)
THEOREM RoomTypes == RoomSpec => []RoomTypeOK
<1>1. RoomInv => RoomTypeOK
  BY DEF RoomInv
<1> QED BY RoomInvariant, <1>1, PTL

(* No power levels event of another server, checked by                     *)
(* validate_power_level_event against auth_events of any age and any room, *)
(* gives a level above what a local user gave in one of the rooms.         *)
THEOREM PowerIsFromHere == RoomSpec => []PowerComesFromHere
<1>1. RoomInv => PowerComesFromHere
  BY DEF RoomInv
<1> QED BY RoomInvariant, <1>1, PTL

(* validate_sender_authorization and validate_membership_transition        *)
(* together: who speaks has a join that is not someone else's doing, and   *)
(* one in the event's room unless validate_current_state soft-fails it.    *)
THEOREM SpeakersHaveJoined == RoomSpec => []SpeakersJoined
<1>1. RoomInv => SpeakersJoined
  BY DEF RoomInv
<1> QED BY RoomInvariant, <1>1, PTL
=============================================================================
