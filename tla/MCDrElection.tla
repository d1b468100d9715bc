---------------------------- MODULE MCDrElection ----------------------------
(* Three routers: one that can never be elected and two that can; or three *)
(* that can, the last with the highest priority.                           *)
EXTENDS DrElection

Three == 1 .. 3
Both == {2, 3}
OnlyV2 == {2}
OnlyV3 == {3}
OneNever == [r \in Three |-> r - 1]
HigherLast == [r \in Three |-> IF r = 3 THEN 2 ELSE 1]

\* The router with the highest priority fails, or a dead timer expires for
\* nothing.
LastDown == {[downs |-> {3}, expiries |-> 0]}
OneFault == LastDown \cup {[downs |-> {}, expiries |-> 1]}
=============================================================================
