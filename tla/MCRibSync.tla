----------------------------- MODULE MCRibSync -----------------------------
(* Two neighbors, three databases whose routes differ in kind and cost.       *)
EXTENDS RibSync

CONSTANTS a, b, p, q

MCRoute(x, k, c, h) == [prefix |-> x, kind |-> k, cost |-> c, hops |-> h]

\* Database 0: p is intra-area.  1: p is known as inter-area and external as well, q
\* is external.  2: p is intra-area from two LSAs at the same cost.
MCRoutesOf(d, up) ==
  IF up = {} THEN {}
  ELSE CASE d = 0 -> {MCRoute(p, "Intra", 2, up)}
         [] d = 1 -> {MCRoute(p, "Inter", 2, up), MCRoute(p, "External1", 1, up),
                      MCRoute(q, "External2", 1, up)}
         [] d = 2 -> {MCRoute(p, "Intra", 1, {n}) : n \in up}
=============================================================================
