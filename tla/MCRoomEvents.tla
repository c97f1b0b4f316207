---------------------------- MODULE MCRoomEvents ----------------------------
(* Model values and inputs for checking RoomEvents with TLC. *)
EXTENDS RoomEvents, TLC

CONSTANTS alice, bob, r1, r2

(* Everyone may send member events, bob may send state events. *)
Open == [users |-> (alice :> 100) @@ (bob :> 50),
         events |-> ("member" :> 0),
         fields |-> ("ban" :> 50) @@ ("invite" :> 0)]

(* The creator is not listed, and bob is above the level createRoom gave. *)
Takeover == [users |-> (bob :> 150), events |-> << >>,
             fields |-> ("users_default" :> 50) @@ ("state_default" :> 0)]

MCContents == {Open, Takeover}
Symmetry == Permutations({r1, r2})
=============================================================================
