---------------------------- MODULE MCEventWalks ----------------------------
(* Small graphs for checking EventWalks with TLC. *)
EXTENDS EventWalks

(* Four events: a chain, a diamond, a fork whose branches share an event   *)
(* at two distances, and one with a cycle and an event that lists itself.  *)
MCGraphs ==
    LET G(a, b, c, d) == [e \in 1..4 |-> CASE e = 1 -> a [] e = 2 -> b [] e = 3 -> c [] e = 4 -> d]
    IN {G({}, {1}, {2}, {3}), G({}, {1}, {1}, {2, 3}),
        G({}, {1}, {1, 2}, {1, 3}), G({3}, {1}, {2}, {3, 4})}

(* One depth per distance, and one event without a depth. *)
MCDepths == {[e \in 1..4 |-> IF e = 1 THEN 0 ELSE IF e = 4 THEN 2 ELSE 1],
             [e \in 1..4 |-> IF e = 2 THEN NoDepth ELSE e - 1]}
=============================================================================
