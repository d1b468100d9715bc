----------------------------- MODULE MCSpfTree -----------------------------
(* Four routers around a square with a diagonal, and one broadcast network.  *)
EXTENDS SpfTree, TLC

CONSTANT n1

MCRouters == 1..4
MCNets == {n1}

Symmetric(m) == [l \in MCRouters \X MCRouters |->
  LET pair == {l[1], l[2]} IN IF pair \in DOMAIN m THEN m[pair] ELSE 0]

Costs == {1, 2} :> 0..2 @@ {2, 3} :> {1, 3} @@ {1, 4} :> 0..2 @@ {3, 4} :> 0..1 @@ {1, 3} :> 0..1

MCMetrics == {Symmetric(m) : m \in {f \in [DOMAIN Costs -> 0..3] : \A l \in DOMAIN f : f[l] \in Costs[l]}}

\* Who is attached to the network, the metric of Me on it (1 for the others), and
\* whether the lowest or the highest router is the DR, the other one the Backup.
MCNetworks ==
  {[att |-> a, mine |-> m, low |-> l] :
     a \in {{1, 2}, {2, 3, 4}, {1, 3, 4}, 1..4}, m \in 1..2, l \in BOOLEAN}

WithNetwork(p, x, k) ==
  [p2p |-> p, known |-> k,
   att |-> n1 :> x.att,
   transit |-> [l \in MCRouters \X MCNets |->
                  IF l[1] \notin x.att THEN 0 ELSE IF l[1] = Me THEN x.mine ELSE 1],
   dr  |-> n1 :> IF x.low THEN Min(x.att) ELSE Max(x.att),
   bdr |-> n1 :> IF x.low THEN Max(x.att) ELSE Min(x.att)]

WithoutNetwork(p, k) ==
  [p2p |-> p, known |-> k, att |-> n1 :> {},
   transit |-> [l \in MCRouters \X MCNets |-> 0], dr |-> n1 :> 1, bdr |-> n1 :> 1]

MCGraphs ==
  {WithoutNetwork(p, k) : p \in MCMetrics, k \in {1..4, {1, 2, 4}}}
  \cup {WithNetwork(p, x, 1..4) : p \in MCMetrics, x \in MCNetworks}

MCUnheard == {{}, {1}, {4}}
MCStubMetric == [r \in MCRouters |-> 1]
MCSummaries == {[adv |-> 2, prefix |-> 10, metric |-> 1], [adv |-> 3, prefix |-> 10, metric |-> 1]}
MCExternals == {[adv |-> 2, prefix |-> 20, metric |-> 1, e2 |-> FALSE, fa |-> <<>>],
                [adv |-> 4, prefix |-> 20, metric |-> 1, e2 |-> TRUE,  fa |-> <<>>],
                [adv |-> 4, prefix |-> 21, metric |-> 1, e2 |-> FALSE, fa |-> <<3, 10>>]}
=============================================================================
