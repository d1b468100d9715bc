---------------------------- MODULE MCFlooding ----------------------------
(* Three routers.  Version 2 in one area: a triangle, a broadcast network  *)
(* with DR and Backup and a link beside it, two parallel links and a third *)
(* router.  Version 3 without a cycle of adjacencies: a line, a broadcast  *)
(* network on which only one router is eligible, so that it has no Backup, *)
(* and a line over two areas, whose middle router is an ABR.               *)
EXTENDS Flooding

Three == 1 .. 3
ThreeLinks == {"a", "b", "c"}
TwoAreas == {0, 1}

P2p(x, y, area) == [members |-> {x, y}, hubs |-> {x, y}, area |-> area]
Lan(hubs) == [members |-> Three, hubs |-> hubs, area |-> 0]
Unused == [members |-> {}, hubs |-> {}, area |-> 0]
Over(version, a, b, c) ==
  [version |-> version,
   link |-> [l \in ThreeLinks |-> CASE l = "a" -> a [] l = "b" -> b [] l = "c" -> c]]

Triangle(version) == Over(version, P2p(1, 2, 0), P2p(2, 3, 0), P2p(1, 3, 0))
Line(version, area) == Over(version, P2p(1, 2, 0), P2p(2, 3, area), Unused)
Parallel(version) == Over(version, P2p(1, 2, 0), P2p(1, 2, 0), P2p(2, 3, 0))

Sound ==
  {Triangle(2), Parallel(2), Over(2, Lan({1, 2}), P2p(1, 3, 0), Unused),
   Line(3, 0), Line(3, 1), Over(3, Lan({2}), Unused, Unused)}

\* Networks on which flooding goes wrong.
\* With DR and Backup the routers of a broadcast network are all adjacent.
CyclesV3   == {Over(3, Lan({1, 2}), Unused, Unused), Triangle(3)}
TwoAreasV2 == {Line(2, 1)}
\* Router 1 and router 2 are both on a link of each area.
TwoAbrsV3  == {Over(3, P2p(1, 2, 0), P2p(1, 2, 1), Unused)}

\* Router 1 renews its LSAs twice and another router once; or each of them once.
TwiceAndOnce ==
  {[r \in Three |-> IF r = 1 THEN 2 ELSE IF r = 3 THEN 1 ELSE 0], [r \in Three |-> 1]}
Once == {[r \in Three |-> IF r = 1 THEN 1 ELSE 0]}
=============================================================================
