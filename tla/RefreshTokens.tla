---------------------------- MODULE RefreshTokens ----------------------------
(***************************************************************************)
(* Refresh tokens with rotation: RefreshTokenService of                    *)
(* packages/server/src/auth/refresh_token.rs, the endpoint POST /refresh   *)
(* and the statements of AuthRepository on the table refresh_tokens.       *)
(*                                                                         *)
(* Every await is a statement on that table, and calls run concurrently:   *)
(* refresh_tokens reads the token, stores its successor, marks it used and *)
(* only then answers.  create_access_token and create_user_session build   *)
(* a JWT and keep no state.                                                *)
(***************************************************************************)
EXTENDS Naturals

CONSTANTS
    Token,        \* refresh tokens, "syr_" followed by a fresh UUID
    Device,       \* devices, each of one user
    User,
    Owner,        \* the user of a device
    NoToken,      \* parent_token: None
    MaxRotation,  \* max_rotation_count, 100 in the code
    DbFaults      \* whether a database statement may fail

ASSUME RefreshAssumption ==
    /\ NoToken \notin Token
    /\ Owner \in [Device -> User]
    /\ MaxRotation \in Nat
    /\ DbFaults \in BOOLEAN

VARIABLES
    stored,   \* the tokens with a row in refresh_tokens
    row,      \* the rows' contents
    calls,    \* running create_initial_tokens and refresh_tokens
    chases,   \* running revoke_refresh_token
    issued,   \* every token ever generated
    held      \* history: tokens a client received in an answer

refreshVars == <<stored, row, calls, chases, issued, held>>

(* age: 0 until 7 days after created_at, 2 once expires_at has passed. *)
Row == [device : Device, rotation : 0 .. MaxRotation, parent : Token \cup {NoToken},
        used : BOOLEAN, revoked : BOOLEAN, age : 0 .. 2]

(* stage: the statement the call performs next, or its answer. *)
Call == [old : Token \cup {NoToken}, new : Token, device : Device,
         rotation : 0 .. MaxRotation, stage : {"store", "mark", "answer"}]

(* revoke_token_chain: current_token and its parent_token. *)
Chase == [target : Token, at : Token, parent : Token \cup {NoToken}]

RefreshTypeOK ==
    /\ stored \subseteq issued
    /\ issued \subseteq Token
    /\ row \in [stored -> Row]
    /\ calls \subseteq Call
    /\ chases \subseteq Chase
    /\ held \subseteq issued

RefreshInit ==
    /\ stored = {}
    /\ row = [t \in stored |-> {}]
    /\ calls = {}
    /\ chases = {}
    /\ issued = {}
    /\ held = {}

-----------------------------------------------------------------------------
(* validate_extended_refresh_token *)
Valid(t) ==
    /\ t \in stored
    /\ ~row[t].used
    /\ ~row[t].revoked
    /\ row[t].age < 2

Advance(c, stage) == calls' = (calls \ {c}) \cup {[c EXCEPT !.stage = stage]}

(* UPDATE refresh_tokens SET revoked = true WHERE ... *)
RevokeRows(S) ==
    row' = [t \in stored |-> [row[t] EXCEPT !.revoked = @ \/ t \in S]]

(* create_initial_tokens, after a login on device d. *)
CreateInitial(d, n) ==
    /\ n \notin issued
    /\ issued' = issued \cup {n}
    /\ calls' = calls \cup {[old |-> NoToken, new |-> n, device |-> d,
                             rotation |-> 0, stage |-> "store"]}
    /\ UNCHANGED <<stored, row, chases, held>>

(* refresh_tokens with a valid token: its successor is prepared. *)
Refresh(t, n) ==
    /\ Valid(t)
    /\ row[t].rotation < MaxRotation
    /\ n \notin issued
    /\ issued' = issued \cup {n}
    /\ calls' = calls \cup {[old |-> t, new |-> n, device |-> row[t].device,
                             rotation |-> row[t].rotation + 1, stage |-> "store"]}
    /\ UNCHANGED <<stored, row, chases, held>>

(* Mutant: the successor inherits the rotation count. *)
StoreNewSameRotation(c) ==
    /\ c.stage = "store"
    /\ stored' = stored \cup {c.new}
    /\ row' = [t \in stored' |->
                 IF t = c.new
                 THEN [device |-> c.device, parent |-> c.old, used |-> FALSE,
                       rotation |-> IF c.old \in stored THEN row[c.old].rotation ELSE 0,
                       revoked |-> FALSE, age |-> 0]
                 ELSE row[t]]
    /\ Advance(c, IF c.old = NoToken THEN "answer" ELSE "mark")
    /\ UNCHANGED <<chases, issued, held>>

(* Mutant: the repository raises the count once more. *)
StoreNewCountsTwice(c) ==
    /\ c.stage = "store"
    /\ stored' = stored \cup {c.new}
    /\ row' = [t \in stored' |->
                 IF t = c.new
                 THEN [device |-> c.device, rotation |-> c.rotation + 1, parent |-> c.old,
                       used |-> FALSE, revoked |-> FALSE, age |-> 0]
                 ELSE row[t]]
    /\ Advance(c, IF c.old = NoToken THEN "answer" ELSE "mark")
    /\ UNCHANGED <<chases, issued, held>>

(* store_extended_refresh_token *)
StoreNew(c) ==
    /\ c.stage = "store"
    /\ stored' = stored \cup {c.new}
    /\ row' = [t \in stored' |->
                 IF t = c.new
                 THEN [device |-> c.device, rotation |-> c.rotation, parent |-> c.old,
                       used |-> FALSE, revoked |-> FALSE, age |-> 0]
                 ELSE row[t]]
    /\ Advance(c, IF c.old = NoToken THEN "answer" ELSE "mark")
    /\ UNCHANGED <<chases, issued, held>>

(* mark_refresh_token_used: an UPDATE, so a row that is gone stays gone. *)
MarkUsed(c) ==
    /\ c.stage = "mark"
    /\ row' = [t \in stored |-> [row[t] EXCEPT !.used = @ \/ t = c.old]]
    /\ Advance(c, "answer")
    /\ UNCHANGED <<stored, chases, issued, held>>

(* The client receives the new pair. *)
Answer(c) ==
    /\ c.stage = "answer"
    /\ held' = held \cup {c.new}
    /\ calls' = calls \ {c}
    /\ UNCHANGED <<stored, row, chases, issued>>

(* Mutant: the old token was marked used before its successor was stored. *)
AbortUsesUp(c) ==
    /\ calls' = calls \ {c}
    /\ row' = [t \in stored |-> [row[t] EXCEPT !.used = @ \/ t = c.old]]
    /\ UNCHANGED <<stored, chases, issued, held>>

(* A statement fails, the server stops, or the answer is lost. *)
Abort(c) ==
    /\ calls' = calls \ {c}
    /\ UNCHANGED <<stored, row, chases, issued, held>>

-----------------------------------------------------------------------------
(* Revocation.                                                             *)

(* revoke_refresh_token(t) reads t.  refresh_tokens calls it when the      *)
(* rotation limit is reached; a caller may at any time.                    *)
Revoke(t) ==
    /\ t \in stored
    /\ chases' = chases \cup {[target |-> t, at |-> t, parent |-> row[t].parent]}
    /\ UNCHANGED <<stored, row, calls, issued, held>>

RefreshAtLimit(t) ==
    /\ Valid(t)
    /\ row[t].rotation >= MaxRotation
    /\ Revoke(t)

(* One turn of the while loop of revoke_token_chain. *)
WalkUp(v) ==
    /\ v.parent \in stored
    /\ chases' = (chases \ {v}) \cup
                 {[v EXCEPT !.at = v.parent, !.parent = row[v.parent].parent]}
    /\ UNCHANGED <<stored, row, calls, issued, held>>

(* The walk ends at a token without a parent, or whose parent is not found *)
(* or cannot be read: revoke_token_chain_from_root.                        *)
RevokeFromRoot(v) ==
    /\ v.parent \notin stored \/ DbFaults
    /\ RevokeRows({t \in stored : t = v.at \/ row[t].parent = v.at})
    /\ chases' = chases \ {v}
    /\ UNCHANGED <<stored, calls, issued, held>>

(* The UPDATE fails, or the server stops. *)
AbortRevoke(v) ==
    /\ chases' = chases \ {v}
    /\ UNCHANGED <<stored, row, calls, issued, held>>

(* revoke_device_tokens and revoke_all_user_tokens: one UPDATE each. *)
RevokeDevice(d) ==
    /\ RevokeRows({t \in stored : row[t].device = d})
    /\ UNCHANGED <<stored, calls, chases, issued, held>>

RevokeUser(u) ==
    /\ RevokeRows({t \in stored : Owner[row[t].device] = u})
    /\ UNCHANGED <<stored, calls, chases, issued, held>>

(* Weeks pass. *)
Elapse ==
    /\ row' = [t \in stored |-> [row[t] EXCEPT !.age = IF @ < 2 THEN @ + 1 ELSE @]]
    /\ UNCHANGED <<stored, calls, chases, issued, held>>

(* What cleanup_expired_refresh_tokens_extended deletes. *)
Stale(t) == row[t].age = 2 \/ (row[t].used /\ row[t].age >= 1)

Cleanup ==
    /\ stored' = {t \in stored : ~Stale(t)}
    /\ row' = [t \in stored' |-> row[t]]
    /\ UNCHANGED <<calls, chases, issued, held>>

CallStep(c) == StoreNew(c) \/ MarkUsed(c) \/ Answer(c) \/ Abort(c)

RevokeStep(v) == WalkUp(v) \/ RevokeFromRoot(v)

ChaseStep(v) == RevokeStep(v) \/ AbortRevoke(v)

(* A client presents a token it was given. *)
RefreshNext ==
    \/ \E d \in Device, n \in Token : CreateInitial(d, n)
    \/ \E t \in held, n \in Token : Refresh(t, n)
    \/ \E t \in held : Revoke(t)
    \/ \E t \in held : RefreshAtLimit(t)
    \/ \E c \in calls : CallStep(c)
    \/ \E v \in chases : ChaseStep(v)
    \/ \E d \in Device : RevokeDevice(d)
    \/ \E u \in User : RevokeUser(u)
    \/ Elapse
    \/ Cleanup

(* tokio runs a started revocation until it returns. *)
RefreshSpec ==
    /\ RefreshInit
    /\ [][RefreshNext]_refreshVars
    /\ \A t, a \in Token :
          WF_refreshVars(\E v \in chases :
                            v.target = t /\ v.at = a /\ RevokeStep(v))

-----------------------------------------------------------------------------
(* Properties.                                                             *)

(* A row's parent is older in every sense: one rotation less, the same     *)
(* device, at least the same age.  Two refreshes of one token, a crash     *)
(* between two statements and a cleanup in between never break it, so the  *)
(* walk of revoke_token_chain cannot run in a circle or leave the device.  *)
ChainOrdered ==
    \A t \in stored : row[t].parent \in stored =>
        LET p == row[row[t].parent] IN
        /\ row[t].rotation = p.rotation + 1
        /\ row[t].device = p.device
        /\ row[t].age <= p.age

(* A token is used up only when its successor is in the table: a crash     *)
(* between the statements of refresh_tokens, or a cleanup while one is     *)
(* under way, never leaves the table with a used token and nothing after   *)
(* it.  The client may still hold no other, when the answer is lost.       *)
UsedHasSuccessor ==
    \A t \in stored : row[t].used => \E s \in stored : row[s].parent = t
=============================================================================
