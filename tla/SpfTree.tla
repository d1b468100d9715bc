------------------------------ MODULE SpfTree ------------------------------
(***************************************************************************)
(* The route computation of both protocol versions: calculate_spf and its  *)
(* passes over stub, transit, summary and external LSAs (proto/spf.rs),    *)
(* and calculate_spf_v3 with equal-cost multipath (spf_v3.rs).  A          *)
(* behaviour is one computation of one version over one database, a step   *)
(* takes a node from the heap, relaxes one edge or collects the routes.    *)
(*                                                                         *)
(* The database is a graph: metrics of point-to-point links and of transit *)
(* links (0: the LSA has no such link), the Network-LSAs with the routers  *)
(* attached, and who has a Router-LSA.  A segment is a broadcast network,  *)
(* or the router at the far end of a point-to-point link.  A next hop is a *)
(* neighbor, the segment its address belongs to and the outgoing one.      *)
(* Metrics are far below u32::MAX, so that sums do not saturate.           *)
(***************************************************************************)
EXTENDS Naturals, FiniteSets, FiniteSetsExt, Sequences

CONSTANTS
  Routers,     \* router ids, natural numbers
  Me,          \* the router that computes
  Nets,        \* broadcast networks, by the address of their DR
  Graphs,      \* the databases considered
  Unheard,     \* sets of routers that do not hear us, or we them, at present
  StubMetric,  \* StubMetric[r]: metric of the prefix attached to r
  Summaries,   \* Type 3 LSAs [adv, prefix, metric]
  Externals,   \* Type 5 LSAs [adv, prefix, metric, e2, fa]; fa <<>> if unset, else
               \* the prefixes that contain it, longest first
  Unreached    \* u32::MAX

ASSUME SpfAssumption ==
  /\ Routers \subseteq Nat \ {0} /\ Me \in Routers
  /\ Nets \cap Routers = {}
  /\ Unreached \in Nat \ {0}

\* A database names routers and networks it may or may not have an LSA of.
ASSUME GraphsAssumption ==
  \A g \in Graphs :
    /\ g.known \subseteq Routers
    /\ g.p2p \in [Routers \X Routers -> Nat] /\ g.transit \in [Routers \X Nets -> Nat]
    /\ g.att \in [Nets -> SUBSET Routers]

VARIABLES
  ver,     \* "v2" or "v3"
  lsdb,    \* the database
  nbr,     \* nbr[r]: the segments on which neighbor r was found
  dist,    \* cost of every node reached
  nh,      \* next hops of every node reached (at most one in version 2)
  heap,    \* pairs <<cost, node>>
  visited, \* nodes taken from the heap
  work,    \* edges of the node taken last that are still to be relaxed
  routes,  \* the result
  done

vars == <<ver, lsdb, nbr, dist, nh, heap, visited, work, routes, done>>

Nodes == Routers \cup Nets
Segments == Nets \cup Routers
RouterIdAsAddress == 0
Hops == [to : Routers, on : Segments \cup {RouterIdAsAddress}, out : Segments]
Hop(r, on, out) == [to |-> r, on |-> on, out |-> out]

Attached(n) == lsdb.att[n]
Shared(r) ==
  {n \in Nets : {Me, r} \subseteq Attached(n)}
    \cup (IF lsdb.p2p[<<Me, r>>] > 0 THEN {r} ELSE {})

\* Who is Full with us on a segment: on a network only the DR and the Backup are,
\* or everybody if we are one of them.
IsFull(r, s) ==
  s \in Nets => {Me, r} \cap {lsdb.dr[s], lsdb.bdr[s]} # {}
-----------------------------------------------------------------------------
\* The next hops to a neighbor of ours, from the entries of our interfaces.
NeighborHops(r) == {Hop(r, s, s) : s \in nbr[r]}

\* Mutant: the next hop of a neighbor's neighbor is the neighbor's neighbor.
NextHopP2pMutant(r, to) == IF r = Me THEN NeighborHops(to) ELSE {Hop(to, to, to)}

NextHopP2p(r, to) == IF r = Me THEN NeighborHops(to) ELSE nh[r]

\* The address comes from the neighbor map, else from the router's own LSA, else the
\* router id stands in for it.
AddressOn(to, n) ==
  IF nbr[to] # {} THEN CHOOSE s \in nbr[to] : TRUE
  ELSE IF to \in lsdb.known /\ lsdb.transit[<<to, n>>] > 0 THEN n ELSE RouterIdAsAddress

NextHopTransit(r, n, to) == IF r = Me THEN {Hop(to, AddressOn(to, n), n)} ELSE nh[r]

Edge(to, cost, hops) == [to |-> to, cost |-> cost, hops |-> hops]

EdgesV2(r, cost) ==
  {Edge(to, cost + lsdb.p2p[<<r, to>>], NextHopP2p(r, to)) :
      to \in {t \in Routers : lsdb.p2p[<<r, t>>] > 0}}
  \cup UNION {{Edge(to, cost + lsdb.transit[<<r, n>>], NextHopTransit(r, n, to)) :
                  to \in Attached(n) \ {r}} :
                n \in {m \in Nets : lsdb.transit[<<r, m>>] > 0}}

\* Version 3: networks are nodes.
EdgeNextHops(node, next) ==
  IF node = Me
  THEN IF next \in Routers THEN NeighborHops(next) ELSE {}
  ELSE IF node \in Nets /\ nh[node] = {} THEN NeighborHops(next) ELSE nh[node]

EdgesV3(node, cost) ==
  IF node \in Nets
  THEN {Edge(to, cost, EdgeNextHops(node, to)) : to \in Attached(node)}
  ELSE {Edge(to, cost + lsdb.p2p[<<node, to>>], EdgeNextHops(node, to)) :
           to \in {t \in Routers : lsdb.p2p[<<node, t>>] > 0}}
       \cup {Edge(n, cost + lsdb.transit[<<node, n>>], EdgeNextHops(node, n)) :
           n \in {m \in Nets : lsdb.transit[<<node, m>>] > 0}}
-----------------------------------------------------------------------------
(***************************************************************************)
(* Taking a node.  Version 2 breaks ties by the larger router id; the      *)
(* order of equal costs in version 3's heap is not specified.              *)
(***************************************************************************)
\* Mutant: the comparison is not reversed, the heap yields the largest cost first.
LeastMutant(e) == \A f \in heap : e[1] >= f[1]

Least(e) == \A f \in heap : e[1] <= f[1]

Before(e) ==
  /\ Least(e)
  /\ ver = "v2" => \A f \in heap : f[1] = e[1] => f[2] <= e[2]

PopV2 ==
  /\ ver = "v2" /\ work = {}
  /\ \E e \in heap :
       /\ Before(e)
       /\ heap' = heap \ {e}
       /\ visited' = visited \cup {e[2]}
       /\ work' = IF e[2] \in visited \/ e[2] \notin lsdb.known
                  THEN {} ELSE EdgesV2(e[2], e[1])
  /\ UNCHANGED <<ver, lsdb, nbr, dist, nh, routes, done>>

PopV3 ==
  /\ ver = "v3" /\ work = {}
  /\ \E e \in heap :
       /\ Before(e)
       /\ heap' = heap \ {e}
       /\ visited' = visited \cup {e[2]}
       /\ work' = IF dist[e[2]] # e[1] \/ e[2] \in Routers \ lsdb.known
                  THEN {} ELSE EdgesV3(e[2], e[1])
  /\ UNCHANGED <<ver, lsdb, nbr, dist, nh, routes, done>>

\* Edges to different nodes are relaxed independently; those to the same node in
\* the order of the links in the LSA, which may be any.
Chosen(e) == e.to = CHOOSE n \in {f.to : f \in work} : TRUE

\* Mutant: an edge of equal cost replaces the next hops.
RelaxV3Mutant(e) ==
  /\ dist' = [dist EXCEPT ![e.to] = Min({@, e.cost})]
  /\ nh' = [nh EXCEPT ![e.to] = IF e.cost <= dist[e.to] THEN e.hops ELSE @]
  /\ heap' = IF e.cost < dist[e.to] THEN heap \cup {<<e.cost, e.to>>} ELSE heap

RelaxV3(e) ==
  /\ dist' = [dist EXCEPT ![e.to] = Min({@, e.cost})]
  /\ nh' = [nh EXCEPT ![e.to] = CASE e.cost < dist[e.to] -> e.hops
                                  [] e.cost = dist[e.to] -> @ \cup e.hops
                                  [] OTHER -> @]
  /\ heap' = IF e.cost < dist[e.to] THEN heap \cup {<<e.cost, e.to>>} ELSE heap

\* An edge without a next hop lowers the cost and keeps the next hop of before.
RelaxV2(e) ==
  /\ dist' = [dist EXCEPT ![e.to] = Min({@, e.cost})]
  /\ nh' = [nh EXCEPT ![e.to] = IF e.cost < dist[e.to] /\ e.hops # {} THEN e.hops ELSE @]
  /\ heap' = IF e.cost < dist[e.to] THEN heap \cup {<<e.cost, e.to>>} ELSE heap

Relax ==
  \E e \in work :
    /\ Chosen(e)
    /\ work' = work \ {e}
    /\ \/ ver = "v2" /\ RelaxV2(e)
       \/ ver = "v3" /\ RelaxV3(e)
    /\ UNCHANGED <<ver, lsdb, nbr, visited, routes, done>>
-----------------------------------------------------------------------------
(***************************************************************************)
(* Collecting the routes.  A route names the LSA it comes from (origin).   *)
(***************************************************************************)
Route(kind, origin, prefix, cost, hops) ==
  [kind |-> kind, origin |-> origin, prefix |-> prefix, cost |-> cost, hops |-> hops]

Reached == {n \in Nodes : dist[n] < Unreached}

StubRoutes ==
  {Route("Intra", r, r, dist[r] + StubMetric[r], nh[r]) :
      r \in (Reached \cap lsdb.known) \ {Me}}

TransitRoutes ==
  {Route("Intra", lsdb.dr[n], n, dist[lsdb.dr[n]], nh[lsdb.dr[n]]) :
      n \in {m \in Nets : Attached(m) # {} /\ lsdb.dr[m] \in Reached /\ Me \notin Attached(m)}}

\* router_paths of calculate_spf_with_paths: reached with a next hop, and ourselves.
RouterPaths == {r \in Routers \cap Reached : nh[r] # {}} \cup {Me}

\* It computes the paths once more; its copy of the algorithm does not look the address of
\* a router that is no neighbor up in the router's LSA.
PathHops(r) == {[h EXCEPT !.on = IF nbr[h.to] # {} THEN @ ELSE RouterIdAsAddress] : h \in nh[r]}

InterRoutes ==
  {Route("Inter", s.adv, s.prefix, dist[s.adv] + s.metric, PathHops(s.adv)) :
      s \in {t \in Summaries : t.adv \in RouterPaths}}

ExtKind(x) == IF x.e2 THEN "External2" ELSE "External1"

ExternalRoutes ==
  {Route(ExtKind(x), x.adv, x.prefix,
         IF x.e2 THEN x.metric ELSE dist[x.adv] + x.metric, PathHops(x.adv)) :
      x \in {y \in Externals : y.adv \in RouterPaths}}

\* Version 3: a route needs a next hop, and our own LSAs give none.
Usable(n) == n \in Reached /\ n # Me /\ nh[n] # {}

PrefixRoutesV3 ==
  {Route("Intra", r, r, dist[r] + StubMetric[r], nh[r]) : r \in {t \in lsdb.known : Usable(t)}}
  \cup {Route("Intra", lsdb.dr[n], n, dist[n], nh[n]) :
          n \in {m \in Nets : Attached(m) # {} /\ Usable(m)}}
  \cup {Route("Inter", s.adv, s.prefix, dist[s.adv] + s.metric, nh[s.adv]) :
          s \in {t \in Summaries : Usable(t.adv)}}

\* The routes a forwarding address may resolve to: those of the longest prefix that
\* has a route, in no particular order.
Resolves(x, internal) ==
  LET covering == {i \in DOMAIN x.fa : \E r \in internal : r.prefix = x.fa[i]}
  IN  IF covering = {} THEN {} ELSE {r \in internal : r.prefix = x.fa[Min(covering)]}

Via(x, internal) ==
  IF x.fa = <<>> THEN {Route("Intra", x.adv, x.adv, dist[x.adv], nh[x.adv])}
                 ELSE Resolves(x, internal)

ExternalRouteV3(x, via) ==
  Route(ExtKind(x), x.adv, x.prefix,
        IF x.e2 THEN x.metric ELSE via.cost + x.metric, via.hops)

CollectV2 ==
  /\ ver = "v2" /\ heap = {} /\ work = {} /\ ~done
  /\ done' = TRUE
  /\ routes' = StubRoutes \cup TransitRoutes \cup InterRoutes \cup ExternalRoutes
  /\ UNCHANGED <<ver, lsdb, nbr, dist, nh, heap, visited, work>>

CollectV3 ==
  /\ ver = "v3" /\ heap = {} /\ work = {} /\ ~done
  /\ done' = TRUE
  /\ LET internal == PrefixRoutesV3
         usable == {x \in Externals : Usable(x.adv) /\ Via(x, internal) # {}}
     IN  \E via \in [usable -> internal \cup {Route("Intra", r, r, dist[r], nh[r]) : r \in Routers}] :
           /\ \A x \in usable : via[x] \in Via(x, internal)
           /\ routes' = internal \cup {ExternalRouteV3(x, via[x]) : x \in usable}
  /\ UNCHANGED <<ver, lsdb, nbr, dist, nh, heap, visited, work>>

\* The neighbors run_spf collects.  Version 2 takes those in 2-Way or beyond and keeps
\* one entry per router, whichever interface it came from; version 3 takes every entry
\* that is Full.  A neighbor that falls back to Init is missing although our Router-LSA
\* still has the link to it: a 1-Way Hello does not originate another.
NeighborMaps(silent) ==
  LET heard == {r \in Routers \ ({Me} \cup silent) : Shared(r) # {}}
      Found(entries) == [r \in Routers |-> IF r \in heard THEN entries[r] ELSE {}]
      one == {f \in [heard -> UNION {Shared(r) : r \in heard}] : \A r \in heard : f[r] \in Shared(r)}
  IN  IF ver = "v2" THEN {Found([r \in heard |-> {f[r]}]) : f \in one}
                    ELSE {Found([r \in heard |-> {s \in Shared(r) : IsFull(r, s)}])}

Init ==
  /\ ver \in {"v2", "v3"}
  /\ lsdb \in Graphs
  /\ \E silent \in Unheard : nbr \in NeighborMaps(silent)
  /\ dist = [n \in Nodes |-> IF n = Me THEN 0 ELSE Unreached]
  /\ nh = [n \in Nodes |-> {}]
  /\ heap = {<<0, Me>>}
  /\ visited = {} /\ work = {} /\ routes = {} /\ done = FALSE

Next == PopV2 \/ PopV3 \/ Relax \/ CollectV2 \/ CollectV3

Spec == Init /\ [][Next]_vars
-----------------------------------------------------------------------------
\* The links of the graph a version works on: <<from, to, metric>>.
P2pLinks ==
  {<<l[1], l[2], lsdb.p2p[l]>> : l \in {k \in lsdb.known \X Routers : lsdb.p2p[k] > 0}}

TransitLinks == {l \in lsdb.known \X Nets : lsdb.transit[l] > 0}

LinksV2 ==
  P2pLinks \cup UNION {{<<l[1], to, lsdb.transit[l]>> : to \in Attached(l[2]) \ {l[1]}} :
                          l \in TransitLinks}

LinksV3 ==
  P2pLinks \cup {<<l[1], l[2], lsdb.transit[l]>> : l \in TransitLinks}
           \cup {<<l[1], l[2], 0>> : l \in {k \in Nets \X Routers : k[2] \in Attached(k[1])}}

Links == IF ver = "v2" THEN LinksV2 ELSE LinksV3

Tight(l) == dist[l[1]] < Unreached /\ dist[l[1]] + l[3] = dist[l[2]]

\* A finished computation has found the cost of a shortest path to every node it
\* reached, and reached every node that can be: no link offers less, and every node
\* but the root is reached over a link that offers exactly its cost (metrics are
\* positive on every cycle, so following such links back ends at the root).
CostsAreShortest ==
  done => LET links == Links
          IN  /\ dist[Me] = 0
              /\ \A l \in links : dist[l[1]] < Unreached => dist[l[2]] <= dist[l[1]] + l[3]
              /\ \A n \in Reached \ {Me} : \E l \in links : l[2] = n /\ Tight(l)

\* The last nodes before n on the shortest paths to it.
Last(links, n) == {l[1] : l \in {k \in links : k[2] = n /\ Tight(k)}}

\* One of these paths begins with hop h: n is our neighbor over its last link, or the
\* node before n has the hop.
OnShortestPath(links, n, h) ==
  \E p \in Last(links, n) :
    \/ h.to = n /\ (p = Me \/ (p \in Nets /\ Me \in Last(links, p)))
    \/ h \in nh[p]

\* One of these paths has no next hop: its first router is no neighbor at present.  Where
\* this is noticed differs: an edge of version 2 keeps the hop of before, and a network of
\* version 3 behind such a router counts as one of ours.
PathWithoutHop(links, n) ==
  \E p \in Last(links, n) :
    IF ver = "v2" THEN IF p = Me THEN lsdb.p2p[<<Me, n>>] > 0 /\ nbr[n] = {} ELSE nh[p] = {}
                  ELSE p \in Nets /\ nh[p] = {} /\ Me \notin Last(links, p)

\* A next hop is the first router of a shortest path to its node, unless one of those
\* paths has no next hop.  Packets that follow such hops come closer to their
\* destination at every router (calculate_spf, calculate_spf_v3).
HopsOfShortestPaths ==
  done => LET links == Links
          IN  \A n \in Reached \ {Me} : \A h \in nh[n] :
                OnShortestPath(links, n, h) \/ PathWithoutHop(links, n)

\* "Inherit next-hop from our path to router_id" (calculate_spf): the next hops of a node
\* are always those of the path its cost is of.
HopsLieOnShortestPaths ==
  done => LET links == Links
          IN  \A n \in Reached \ {Me} : \A h \in nh[n] : OnShortestPath(links, n, h)

\* "next-hop = inherited from the path to the ABR (advertising_router)" (comment of
\* calculate_inter_area_routes): the routes behind a router have the next hops of the
\* routes to it.
RoutesInheritHops ==
  \A r \in routes : r.kind # "Intra" /\ ver = "v2" => r.hops = nh[r.origin]

\* Without broadcast networks version 3 finds every equal-cost next hop of every
\* router (header of spf_v3.rs; with networks an alternate found after a router was
\* expanded is not passed on to the routers behind it).
MultipathComplete ==
  done /\ ver = "v3" /\ (\A r \in Routers, n \in Nets : lsdb.transit[<<r, n>>] = 0) =>
    LET links == Links
    IN  \A n \in Reached \ {Me} :
          nh[n] = UNION {IF l[1] = Me THEN NeighborHops(n) ELSE nh[l[1]] :
                           l \in {k \in links : k[2] = n /\ Tight(k)}}
=============================================================================
