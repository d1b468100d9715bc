--------------------------- MODULE SpfTreeProofs ---------------------------
(***************************************************************************)
(* What Dijkstra's algorithm promises, for both versions and for every     *)
(* graph.  The invariant IInv says that the cost of a node is final when   *)
(* it is taken from the heap (Frontier), that the links of nodes taken     *)
(* improve on nothing except where their edge still waits (Relaxed), that  *)
(* a node reached is reached over a link from a node taken (Reach) and     *)
(* that its next hops come over such links (HopInv, Multipath), unless one *)
(* of them brings none: our neighbors of the moment need not be those of   *)
(* our Router-LSA.                                                         *)
(*                                                                         *)
(* Only the links from a network to its routers are free.  They are why    *)
(* next hops of a router may still grow after it was taken, and why those  *)
(* of a network may not.                                                   *)
(***************************************************************************)
EXTENDS SpfTree, WellFoundedInduction, TLAPS

\* A node whose links the computation looks at: a router with an LSA, or a network.
Expands(p) == p \in lsdb.known \/ (ver = "v3" /\ p \in Nets)

\* The edges relaxed after node p was taken at cost c.
Edges(p, c) == IF ver = "v2" THEN EdgesV2(p, c) ELSE EdgesV3(p, c)

\* The types of the variables the argument uses.
TypeInv ==
  /\ ver \in {"v2", "v3"} /\ lsdb \in Graphs /\ done \in BOOLEAN
  /\ dist \in [Nodes -> 0 .. Unreached] /\ nh = [n \in Nodes |-> nh[n]]
  /\ heap \subseteq (0 .. (Unreached - 1)) \X Nodes
  /\ visited \subseteq Nodes

\* The heap holds what is still to be taken, and nothing cheaper than what was taken.
Frontier ==
  /\ \A n \in Nodes : dist[n] < Unreached => n \in visited \/ <<dist[n], n>> \in heap
  /\ \A n \in visited : dist[n] < Unreached /\ <<dist[n], n>> \notin heap
  /\ \A e \in heap : dist[e[2]] <= e[1] /\ \A n \in visited : dist[n] <= e[1]

\* p is the node taken last, while edges of it are left.
Current(p) ==
  work # {} =>
    /\ p \in visited /\ Expands(p)
    /\ work \subseteq Edges(p, dist[p])
    /\ \A n \in visited : dist[n] <= dist[p]
    /\ \A e \in heap : dist[p] <= e[1]

\* Link l is still to be relaxed.
Pending(p, l) == l[1] = p /\ \E w \in work : w.to = l[2] /\ w.cost = dist[p] + l[3]

\* No link of a node taken offers less than its end has, unless it is still to be relaxed.
Relaxed(p) ==
  \A l \in Links : l[1] \in visited =>
    dist[l[2]] <= dist[l[1]] + l[3] \/ Pending(p, l)

\* The links over which n is reached at its cost.
Into(n) == {l \in Links : l[2] = n /\ l[1] \in visited /\ Tight(l)}

\* Where paths begin: the root, and the networks next to it.
AtRoot(p) == p = Me \/ (p \in Nets /\ nh[p] = {})

\* Every node reached but the root is reached over a link from a node taken.
Reach == \A n \in Reached \ {Me} : Into(n) # {}

\* The link brings hop h.
Brings(l, h) == IF AtRoot(l[1]) THEN h.to = l[2] ELSE h \in nh[l[1]]

\* The edge of version 2 over a link from p to n brings no hop, and none is replaced.
Without(p, n) ==
  ver = "v2" /\ IF p = Me THEN lsdb.p2p[<<Me, n>>] > 0 /\ nbr[n] = {} ELSE nh[p] = {}

\* Next hops are those of such a link, unless one of these links brings none.
HopInv ==
  \A n \in Reached \ {Me} : \A h \in nh[n] :
    \E l \in Into(n) : Brings(l, h) \/ Without(l[1], n)

\* No router has a transit link.
NoNetworks == \A r \in Routers, n \in Nets : lsdb.transit[<<r, n>>] = 0

\* The next hops a link between routers brings.
Over(l) == IF l[1] = Me THEN NeighborHops(l[2]) ELSE nh[l[1]]

\* Without networks a node has the next hops of all links relaxed that lead to it.
Multipath(p) ==
  ver = "v3" /\ NoNetworks =>
    \A n \in Reached \ {Me} : nh[n] = UNION {Over(l) : l \in {k \in Into(n) : ~Pending(p, k)}}

\* Where the relaxation of the edges of p stands.
Progress(p) == Current(p) /\ Relaxed(p) /\ Multipath(p)

\* The inductive invariant.
IInv ==
  /\ TypeInv /\ Frontier /\ dist[Me] = 0 /\ Reach /\ HopInv
  /\ \E p \in Nodes : Progress(p)
  /\ done => heap = {} /\ work = {}
-----------------------------------------------------------------------------
\* The smaller of two numbers.
LEMMA MinOfTwo ==
  ASSUME NEW a \in Nat, NEW b \in Nat
  PROVE  Min({a, b}) = IF b < a THEN b ELSE a
<1>1. \E x \in {a, b} : \A y \in {a, b} : x <= y
  OBVIOUS
<1>. QED
  BY <1>1 DEF Min

\* The database, field by field.
LEMMA GraphType ==
  ASSUME TypeInv
  PROVE  /\ lsdb.known \subseteq Routers
         /\ lsdb.p2p \in [Routers \X Routers -> Nat] /\ lsdb.transit \in [Routers \X Nets -> Nat]
         /\ lsdb.att \in [Nets -> SUBSET Routers]
BY GraphsAssumption DEF TypeInv

\* Links lead from nodes that are expanded to nodes; only those from a network to a
\* router are free, and a network is entered over a transit link.
LEMMA LinkType ==
  ASSUME TypeInv, NEW l \in Links
  PROVE  /\ l[1] \in Nodes /\ l[2] \in Nodes /\ l[3] \in Nat /\ Expands(l[1])
         /\ l[3] = 0 => l[1] \in Nets /\ l[2] \in Routers
         /\ l[2] \in Nets => \E r \in Routers : lsdb.transit[<<r, l[2]>>] > 0
<1>1. CASE l \in P2pLinks
  <2>1. PICK k \in lsdb.known \X Routers : lsdb.p2p[k] > 0 /\ l = <<k[1], k[2], lsdb.p2p[k]>>
    BY <1>1 DEF P2pLinks
  <2>2. k \in Routers \X Routers /\ lsdb.p2p[k] \in Nat
    BY <2>1, GraphType
  <2>. QED
    BY <2>1, <2>2, SpfAssumption DEF Expands, Nodes
<1>2. ASSUME NEW k \in TransitLinks
      PROVE  /\ k[1] \in lsdb.known /\ k[1] \in Routers /\ k[2] \in Nets
             /\ lsdb.transit[k] \in Nat \ {0} /\ lsdb.transit[<<k[1], k[2]>>] = lsdb.transit[k]
  <2>1. k \in lsdb.known \X Nets /\ lsdb.transit[k] > 0
    BY DEF TransitLinks
  <2>2. k \in Routers \X Nets /\ k = <<k[1], k[2]>>
    BY <2>1, GraphType
  <2>. QED
    BY <2>1, <2>2, GraphType
<1>3. CASE ver = "v2"
  <2>1. CASE \E k \in TransitLinks : l \in {<<k[1], to, lsdb.transit[k]>> : to \in Attached(k[2]) \ {k[1]}}
    <3>0. PICK k \in TransitLinks : l \in {<<k[1], to, lsdb.transit[k]>> : to \in Attached(k[2]) \ {k[1]}}
      BY <2>1
    <3>1. PICK to \in Attached(k[2]) : l = <<k[1], to, lsdb.transit[k]>>
      BY <3>0
    <3>2. to \in Routers
      BY <1>2, GraphType DEF Attached
    <3>. QED
      BY <1>2, <3>1, <3>2, SpfAssumption DEF Expands, Nodes
  <2>. QED
    BY <1>1, <1>3, <2>1 DEF Links, LinksV2
<1>4. CASE ver = "v3"
  <2>1. CASE l \in {<<k[1], k[2], lsdb.transit[k]>> : k \in TransitLinks}
    <3>1. PICK k \in TransitLinks : l = <<k[1], k[2], lsdb.transit[k]>>
      BY <2>1
    <3>2. k[1] \in Routers /\ lsdb.transit[<<k[1], k[2]>>] > 0
      BY <1>2
    <3>. QED
      BY <1>2, <3>1, <3>2, SpfAssumption DEF Expands, Nodes
  <2>2. CASE l \in {<<k[1], k[2], 0>> : k \in {i \in Nets \X Routers : i[2] \in Attached(i[1])}}
    BY <1>4, <2>2, SpfAssumption DEF Expands, Nodes
  <2>. QED
    BY <1>1, <1>4, <2>1, <2>2 DEF Links, LinksV3
<1>. QED
  BY <1>3, <1>4 DEF TypeInv

\* Every link of a node is among the edges that are relaxed when it is taken.
LEMMA EdgeOfLink ==
  ASSUME TypeInv, NEW l \in Links, NEW c \in Nat
  PROVE  \E w \in Edges(l[1], c) : w.to = l[2] /\ w.cost = c + l[3]
<1>1. ASSUME l \in P2pLinks
      PROVE  /\ l[1] \in lsdb.known /\ l[1] \in Routers /\ l[2] \in Routers
             /\ lsdb.p2p[<<l[1], l[2]>>] > 0 /\ l[3] = lsdb.p2p[<<l[1], l[2]>>]
  <2>1. PICK k \in lsdb.known \X Routers : lsdb.p2p[k] > 0 /\ l = <<k[1], k[2], lsdb.p2p[k]>>
    BY <1>1 DEF P2pLinks
  <2>2. k = <<k[1], k[2]>> /\ k[1] \in Routers
    BY <2>1, GraphType
  <2>. QED
    BY <2>1, <2>2
<1>2. ASSUME NEW k \in TransitLinks
      PROVE  /\ k[1] \in Routers /\ k[2] \in Nets
             /\ lsdb.transit[<<k[1], k[2]>>] > 0 /\ lsdb.transit[<<k[1], k[2]>>] = lsdb.transit[k]
  <2>1. k \in lsdb.known \X Nets /\ lsdb.transit[k] > 0
    BY DEF TransitLinks
  <2>2. k \in Routers \X Nets /\ k = <<k[1], k[2]>>
    BY <2>1, GraphType
  <2>. QED
    BY <2>1, <2>2
<1>3. CASE ver = "v2"
  <2>1. CASE l \in P2pLinks
    <3>. DEFINE w == Edge(l[2], c + lsdb.p2p[<<l[1], l[2]>>], NextHopP2p(l[1], l[2]))
    <3>1. w \in EdgesV2(l[1], c)
      BY <1>1, <2>1 DEF EdgesV2
    <3>2. w.to = l[2] /\ w.cost = c + l[3]
      BY <1>1, <2>1 DEF Edge
    <3>. QED
      BY <1>3, <3>1, <3>2 DEF Edges
  <2>2. CASE \E k \in TransitLinks : l \in {<<k[1], to, lsdb.transit[k]>> : to \in Attached(k[2]) \ {k[1]}}
    <3>1. PICK k \in TransitLinks : l \in {<<k[1], to, lsdb.transit[k]>> : to \in Attached(k[2]) \ {k[1]}}
      BY <2>2
    <3>2. l[2] \in Attached(k[2]) \ {k[1]} /\ l[1] = k[1] /\ l[3] = lsdb.transit[k]
      BY <3>1
    <3>. DEFINE w == Edge(l[2], c + lsdb.transit[<<k[1], k[2]>>], NextHopTransit(k[1], k[2], l[2]))
    <3>3. w \in EdgesV2(k[1], c)
      <4>1. k[2] \in {m \in Nets : lsdb.transit[<<k[1], m>>] > 0}
        BY <1>2
      <4>2. w \in {Edge(to, c + lsdb.transit[<<k[1], k[2]>>], NextHopTransit(k[1], k[2], to)) :
                      to \in Attached(k[2]) \ {k[1]}}
        BY <3>2
      <4>. QED
        BY <4>1, <4>2 DEF EdgesV2
    <3>4. w.to = l[2] /\ w.cost = c + l[3]
      BY <1>2, <3>2 DEF Edge
    <3>. QED
      BY <1>3, <3>2, <3>3, <3>4 DEF Edges
  <2>. QED
    BY <1>3, <2>1, <2>2 DEF Links, LinksV2
<1>4. CASE ver = "v3"
  <2>1. CASE l \in P2pLinks
    <3>. DEFINE w == Edge(l[2], c + lsdb.p2p[<<l[1], l[2]>>], EdgeNextHops(l[1], l[2]))
    <3>1. w \in EdgesV3(l[1], c)
      BY <1>1, <2>1, SpfAssumption DEF EdgesV3
    <3>2. w.to = l[2] /\ w.cost = c + l[3]
      BY <1>1, <2>1 DEF Edge
    <3>. QED
      BY <1>4, <3>1, <3>2 DEF Edges
  <2>2. CASE l \in {<<k[1], k[2], lsdb.transit[k]>> : k \in TransitLinks}
    <3>1. PICK k \in TransitLinks : l = <<k[1], k[2], lsdb.transit[k]>>
      BY <2>2
    <3>. DEFINE w == Edge(k[2], c + lsdb.transit[<<k[1], k[2]>>], EdgeNextHops(k[1], k[2]))
    <3>2. w \in EdgesV3(k[1], c)
      BY <1>2, SpfAssumption DEF EdgesV3
    <3>3. w.to = l[2] /\ w.cost = c + l[3]
      BY <1>2, <3>1 DEF Edge
    <3>. QED
      BY <1>4, <3>1, <3>2, <3>3 DEF Edges
  <2>3. CASE l \in {<<k[1], k[2], 0>> : k \in {i \in Nets \X Routers : i[2] \in Attached(i[1])}}
    <3>1. l[1] \in Nets /\ l[2] \in Attached(l[1]) /\ l[3] = 0
      BY <2>3
    <3>. DEFINE w == Edge(l[2], c, EdgeNextHops(l[1], l[2]))
    <3>2. w \in EdgesV3(l[1], c)
      BY <3>1 DEF EdgesV3
    <3>3. w.to = l[2] /\ w.cost = c + l[3]
      BY <3>1 DEF Edge
    <3>. QED
      BY <1>4, <3>2, <3>3 DEF Edges
  <2>. QED
    BY <1>4, <2>1, <2>2, <2>3 DEF Links, LinksV3
<1>. QED
  BY <1>3, <1>4 DEF TypeInv

\* The hops a neighbor of ours is reached over name that neighbor.
LEMMA HopsNameNeighbor ==
  ASSUME NEW r
  PROVE  /\ \A h \in NeighborHops(r) : h.to = r
         /\ \A a, n : Hop(r, a, n).to = r
         /\ NeighborHops(r) = {} => nbr[r] = {}
<1>1. \A a, n : Hop(r, a, n).to = r
  BY DEF Hop
<1>. QED
  BY <1>1 DEF NeighborHops

\* Every edge stands for a link, and its next hops are those of the node it leaves, or
\* the neighbor it leads to if it leaves from the root.
EdgeOf(p, c, w) ==
  /\ w.cost \in Nat /\ w.to \in Nodes
  /\ w = Edge(w.to, w.cost, w.hops)
  /\ \E l \in Links : l[1] = p /\ l[2] = w.to /\ w.cost = c + l[3]
  /\ \A h \in w.hops : IF AtRoot(p) THEN h.to = w.to ELSE h \in nh[p]
  /\ ver = "v2" /\ w.hops = {} => Without(p, w.to)
  /\ ver = "v3" /\ p \in Routers /\ w.to \in Routers =>
       w.hops = IF p = Me THEN NeighborHops(w.to) ELSE nh[p]

\* So it is for every edge of a node that is expanded.
LEMMA LinkOfEdge ==
  ASSUME TypeInv, NEW p \in Nodes, Expands(p), NEW c \in Nat, NEW w \in Edges(p, c)
  PROVE  EdgeOf(p, c, w)
<1>1. ASSUME NEW to \in Routers, lsdb.p2p[<<p, to>>] > 0, p \in lsdb.known
      PROVE  /\ <<p, to, lsdb.p2p[<<p, to>>]>> \in P2pLinks /\ lsdb.p2p[<<p, to>>] \in Nat
             /\ to \in Nodes
  <2>1. <<p, to>> \in lsdb.known \X Routers /\ <<p, to>> \in Routers \X Routers
    BY <1>1, GraphType
  <2>2. <<<<p, to>>[1], <<p, to>>[2], lsdb.p2p[<<p, to>>]>> \in P2pLinks
    BY <1>1, <2>1 DEF P2pLinks
  <2>. QED
    BY <2>1, <2>2, GraphType DEF Nodes
<1>2. ASSUME NEW n \in Nets, lsdb.transit[<<p, n>>] > 0, p \in lsdb.known
      PROVE  <<p, n>> \in TransitLinks /\ lsdb.transit[<<p, n>>] \in Nat /\ n \in Nodes
  <2>1. <<p, n>> \in lsdb.known \X Nets /\ <<p, n>> \in Routers \X Nets
    BY <1>2, GraphType
  <2>. QED
    BY <1>2, <2>1, GraphType DEF TransitLinks, Nodes
<1>3. CASE ver = "v2"
  <2>1. p \in lsdb.known /\ p \in Routers /\ p \notin Nets
    BY <1>3, GraphType, SpfAssumption DEF Expands
  <2>2. ASSUME NEW to \in Routers, lsdb.p2p[<<p, to>>] > 0,
               w = Edge(to, c + lsdb.p2p[<<p, to>>], NextHopP2p(p, to))
        PROVE  EdgeOf(p, c, w)
    <3>1. w.to = to /\ w.cost = c + lsdb.p2p[<<p, to>>] /\ w.hops = NextHopP2p(p, to)
      BY <2>2 DEF Edge
    <3>2. \E l \in Links : l[1] = p /\ l[2] = w.to /\ w.cost = c + l[3]
      <4>. DEFINE l == <<p, to, lsdb.p2p[<<p, to>>]>>
      <4>1. l \in Links
        BY <1>1, <1>3, <2>1, <2>2 DEF Links, LinksV2
      <4>. QED
        BY <3>1, <4>1
    <3>3. \A h \in w.hops : IF AtRoot(p) THEN h.to = w.to ELSE h \in nh[p]
      BY <2>1, <3>1, HopsNameNeighbor DEF NextHopP2p, AtRoot
    <3>4. w.hops = {} => Without(p, to)
      BY <1>3, <2>2, <3>1, HopsNameNeighbor DEF NextHopP2p, Without
    <3>. QED
      <4>1. lsdb.p2p[<<p, to>>] \in Nat /\ to \in Nodes
        BY <1>1, <2>1, <2>2
      <4>2. w.cost \in Nat /\ w.to \in Nodes
        BY <3>1, <4>1
      <4>3. w = Edge(w.to, w.cost, w.hops)
        BY <2>2, <3>1
      <4>. QED
        BY <1>3, <3>1, <3>2, <3>3, <3>4, <4>2, <4>3 DEF EdgeOf
  <2>3. ASSUME NEW n \in Nets, lsdb.transit[<<p, n>>] > 0, NEW to \in Attached(n) \ {p},
               w = Edge(to, c + lsdb.transit[<<p, n>>], NextHopTransit(p, n, to))
        PROVE  EdgeOf(p, c, w)
    <3>1. w.to = to /\ w.cost = c + lsdb.transit[<<p, n>>] /\ w.hops = NextHopTransit(p, n, to)
      BY <2>3 DEF Edge
    <3>. DEFINE k == <<p, n>>
    <3>2. k \in TransitLinks /\ lsdb.transit[k] \in Nat /\ k[1] = p /\ k[2] = n
      BY <1>2, <2>1, <2>3
    <3>3. <<p, to, lsdb.transit[k]>> \in Links
      <4>. HIDE DEF k
      <4>1. <<k[1], to, lsdb.transit[k]>> \in {<<k[1], t, lsdb.transit[k]>> : t \in Attached(k[2]) \ {k[1]}}
        BY <3>2, <2>3
      <4>. QED
        BY <1>3, <3>2, <4>1 DEF Links, LinksV2
    <3>4. \E l \in Links : l[1] = p /\ l[2] = w.to /\ w.cost = c + l[3]
      BY <3>1, <3>3
    <3>5. \A h \in w.hops : IF AtRoot(p) THEN h.to = w.to ELSE h \in nh[p]
      <4>1. Hop(to, AddressOn(to, n), n).to = to
        BY HopsNameNeighbor
      <4>. QED
        BY <2>1, <3>1, <4>1 DEF NextHopTransit, AtRoot
    <3>6. w.hops = {} => Without(p, to)
      BY <1>3, <3>1 DEF NextHopTransit, Without
    <3>7. to \in Nodes
      BY <2>3, GraphType DEF Attached, Nodes
    <3>. QED
      BY <1>3, <2>3, <3>1, <3>2, <3>4, <3>5, <3>6, <3>7 DEF EdgeOf, Edge
  <2>4. w \in EdgesV2(p, c)
    BY <1>3 DEF Edges
  <2>. QED
    BY <2>2, <2>3, <2>4 DEF EdgesV2
<1>4. CASE ver = "v3"
  <2>1. ASSUME NEW to \in Nodes, NEW m \in Nat, w = Edge(to, c + m, EdgeNextHops(p, to)),
               <<p, to, m>> \in Links, p \in Nets => to \in Routers
        PROVE  EdgeOf(p, c, w)
    <3>1. w.to = to /\ w.cost = c + m /\ w.hops = EdgeNextHops(p, to)
      BY <2>1 DEF Edge
    <3>2. \E l \in Links : l[1] = p /\ l[2] = w.to /\ w.cost = c + l[3]
      BY <2>1, <3>1
    <3>3. \A h \in w.hops : IF AtRoot(p) THEN h.to = w.to ELSE h \in nh[p]
      BY <3>1, HopsNameNeighbor DEF EdgeNextHops, AtRoot
    <3>4. p \in Routers /\ to \in Routers => w.hops = IF p = Me THEN NeighborHops(to) ELSE nh[p]
      BY <3>1, SpfAssumption DEF EdgeNextHops
    <3>. QED
      BY <1>4, <2>1, <3>1, <3>2, <3>3, <3>4 DEF EdgeOf, Edge
  <2>2. w \in EdgesV3(p, c)
    BY <1>4 DEF Edges
  <2>3. CASE p \in Nets
    <3>1. PICK to \in Attached(p) : w = Edge(to, c, EdgeNextHops(p, to))
      BY <2>2, <2>3 DEF EdgesV3
    <3>2. to \in Routers /\ to \in Nodes /\ c + 0 = c
      BY <2>3, GraphType DEF Attached, Nodes
    <3>. DEFINE k == <<p, to>>
    <3>3. k \in {i \in Nets \X Routers : i[2] \in Attached(i[1])} /\ k[1] = p /\ k[2] = to
      BY <2>3, <3>2
    <3>4. <<p, to, 0>> \in Links
      <4>. HIDE DEF k
      <4>. QED
        BY <1>4, <3>3 DEF Links, LinksV3
    <3>. QED
      BY <2>1, <3>1, <3>2, <3>4
  <2>4. CASE p \notin Nets
    <3>1. p \in lsdb.known
      BY <2>4 DEF Expands
    <3>2. ASSUME NEW to \in Routers, lsdb.p2p[<<p, to>>] > 0,
                 w = Edge(to, c + lsdb.p2p[<<p, to>>], EdgeNextHops(p, to))
          PROVE  EdgeOf(p, c, w)
      BY <1>1, <1>4, <2>1, <2>4, <3>1, <3>2 DEF Links, LinksV3
    <3>3. ASSUME NEW n \in Nets, lsdb.transit[<<p, n>>] > 0,
                 w = Edge(n, c + lsdb.transit[<<p, n>>], EdgeNextHops(p, n))
          PROVE  EdgeOf(p, c, w)
      <4>. DEFINE k == <<p, n>>
      <4>1. k \in TransitLinks /\ lsdb.transit[k] \in Nat /\ n \in Nodes /\ k[1] = p /\ k[2] = n
        BY <1>2, <3>1, <3>3
      <4>2. <<p, n, lsdb.transit[k]>> \in Links
        <5>. HIDE DEF k
        <5>. QED
          BY <1>4, <4>1 DEF Links, LinksV3
      <4>. QED
        BY <2>1, <2>4, <3>3, <4>1, <4>2
    <3>. QED
      BY <2>2, <2>4, <3>2, <3>3 DEF EdgesV3
  <2>. QED
    BY <2>3, <2>4
<1>. QED
  BY <1>3, <1>4 DEF TypeInv

\* The graph does not change.
LEMMA GraphStays ==
  ASSUME UNCHANGED <<ver, lsdb, nbr>>
  PROVE  /\ Links' = Links
         /\ \A p : Expands(p)' <=> Expands(p)
         /\ \A r : NeighborHops(r)' = NeighborHops(r)
         /\ NoNetworks' <=> NoNetworks
<1>1. ver' = ver /\ lsdb' = lsdb /\ nbr' = nbr
  OBVIOUS
<1>2. Links' = Links
  BY <1>1 DEF Links, LinksV2, LinksV3, P2pLinks, TransitLinks, Attached
<1>3. \A p : Expands(p)' <=> Expands(p)
  BY <1>1 DEF Expands
<1>4. \A r : NeighborHops(r)' = NeighborHops(r)
  BY <1>1 DEF NeighborHops
<1>5. NoNetworks' <=> NoNetworks
  BY <1>1 DEF NoNetworks
<1>. QED
  BY <1>2, <1>3, <1>4, <1>5

\* The edges of a node change only with its next hops.
LEMMA EdgesStay ==
  ASSUME UNCHANGED <<ver, lsdb, nbr>>, NEW p, NEW c, NEW d, nh'[p] = nh[p], d = c
  PROVE  Edges(p, c)' = Edges(p, d)
<1>1. ver' = ver /\ lsdb' = lsdb /\ nbr' = nbr
  OBVIOUS
<1>2. \A to : NextHopP2p(p, to)' = NextHopP2p(p, to)
  BY <1>1 DEF NextHopP2p, NeighborHops
<1>3. \A n, to : NextHopTransit(p, n, to)' = NextHopTransit(p, n, to)
  BY <1>1 DEF NextHopTransit, AddressOn
<1>4. \A to : EdgeNextHops(p, to)' = EdgeNextHops(p, to)
  BY <1>1, GraphStays DEF EdgeNextHops
<1>5. EdgesV2(p, c)' = EdgesV2(p, d)
  <2>. DEFINE P == {Edge(to, d + lsdb.p2p[<<p, to>>], NextHopP2p(p, to)) :
                      to \in {t \in Routers : lsdb.p2p[<<p, t>>] > 0}}
              T(n) == {Edge(to, d + lsdb.transit[<<p, n>>], NextHopTransit(p, n, to)) :
                         to \in Attached(n) \ {p}}
              N == {m \in Nets : lsdb.transit[<<p, m>>] > 0}
  <2>1. P' = P
    BY <1>1, <1>2
  <2>2. \A n : T(n)' = T(n)
    BY <1>1, <1>3 DEF Attached
  <2>3. N' = N
    BY <1>1
  <2>4. EdgesV2(p, d) = P \cup UNION {T(n) : n \in N}
    BY DEF EdgesV2
  <2>5. EdgesV2(p, c)' = P' \cup UNION {T(n)' : n \in N'}
    BY DEF EdgesV2
  <2>. HIDE DEF P, T, N
  <2>6. UNION {T(n)' : n \in N'} = UNION {T(n) : n \in N}
    BY <2>2, <2>3, Zenon
  <2>. QED
    BY <2>1, <2>4, <2>5, <2>6
<1>6. EdgesV3(p, c)' = EdgesV3(p, d)
  BY <1>1, <1>4 DEF EdgesV3, Attached
<1>. QED
  BY <1>1, <1>5, <1>6 DEF Edges
-----------------------------------------------------------------------------
(* Taking a node from the heap.                                            *)

\* What both versions do: a node is expanded the first time it is taken, at its cost,
\* which is the least on the heap.
Takes(e) ==
  /\ e \in heap /\ e = <<e[1], e[2]>> /\ e[1] \in Nat /\ e[2] \in Nodes
  /\ \A f \in heap : e[1] <= f[1]
  /\ work = {}
  /\ heap' = heap \ {e} /\ visited' = visited \cup {e[2]}
  /\ e[2] \in visited => work' = {}
  /\ e[2] \notin visited => /\ e[1] = dist[e[2]]
                            /\ work' = IF Expands(e[2]) THEN Edges(e[2], e[1]) ELSE {}
  /\ UNCHANGED <<ver, lsdb, nbr, dist, nh, routes, done>>

\* Version 2 asks whether the node was taken before, version 3 whether the cost is out
\* of date; both expand a node exactly once.
LEMMA PopTakes ==
  ASSUME TypeInv, Frontier, PopV2 \/ PopV3
  PROVE  \E e \in heap : Takes(e)
<1>1. PICK e \in heap :
        /\ Before(e) /\ work = {} /\ heap' = heap \ {e} /\ visited' = visited \cup {e[2]}
        /\ \/ /\ ver = "v2"
              /\ work' = IF e[2] \in visited \/ e[2] \notin lsdb.known
                         THEN {} ELSE EdgesV2(e[2], e[1])
           \/ /\ ver = "v3"
              /\ work' = IF dist[e[2]] # e[1] \/ e[2] \in Routers \ lsdb.known
                         THEN {} ELSE EdgesV3(e[2], e[1])
        /\ UNCHANGED <<ver, lsdb, nbr, dist, nh, routes, done>>
  BY DEF PopV2, PopV3
<1>2. e = <<e[1], e[2]>> /\ e[1] \in Nat /\ e[1] < Unreached /\ e[2] \in Nodes
  <2>1. e \in (0 .. (Unreached - 1)) \X Nodes
    BY DEF TypeInv
  <2>. QED
    BY <2>1, SpfAssumption
<1>3. \A f \in heap : e[1] <= f[1]
  BY <1>1 DEF Before, Least
<1>4. dist[e[2]] \in Nat /\ dist[e[2]] <= e[1]
  BY <1>2, SpfAssumption DEF TypeInv, Frontier
<1>5. ASSUME e[2] \notin visited
      PROVE  e[1] = dist[e[2]]
  <2>1. <<dist[e[2]], e[2]>> \in heap
    BY <1>2, <1>4, <1>5, SpfAssumption DEF Frontier
  <2>. QED
    BY <1>2, <1>3, <1>4, <2>1
<1>6. e[2] \in visited => dist[e[2]] # e[1]
  BY <1>2 DEF Frontier
<1>7. ver = "v2" /\ e[2] \notin visited => work' = IF Expands(e[2]) THEN Edges(e[2], e[1]) ELSE {}
  BY <1>1 DEF Expands, Edges
<1>8. ver = "v3" /\ e[2] \notin visited => work' = IF Expands(e[2]) THEN Edges(e[2], e[1]) ELSE {}
  BY <1>1, <1>2, <1>5, GraphType, SpfAssumption DEF Expands, Edges, Nodes
<1>. QED
  BY <1>1, <1>2, <1>3, <1>5, <1>6, <1>7, <1>8 DEF Takes, TypeInv

\* What does not mention the heap or the nodes taken stays.
LEMMA TakesKeepsTypes ==
  ASSUME TypeInv, NEW e, Takes(e)
  PROVE  TypeInv' /\ dist' = dist /\ nh' = nh
<1>1. e[2] \in Nodes /\ heap' \subseteq heap /\ visited' = visited \cup {e[2]}
  BY DEF Takes
<1>2. UNCHANGED <<ver, lsdb, nbr, dist, nh, done>>
  BY DEF Takes
<1>. QED
  BY <1>1, <1>2 DEF TypeInv

\* The node taken is the cheapest, so that what is left costs at least as much.
LEMMA TakesFrontier ==
  ASSUME TypeInv, Frontier, NEW e, Takes(e)
  PROVE  Frontier'
<1>. DEFINE n == e[2]
<1>1. /\ e \in heap /\ e = <<e[1], n>> /\ n \in Nodes /\ e[1] \in Nat
      /\ \A f \in heap : e[1] <= f[1]
      /\ heap' = heap \ {e} /\ visited' = visited \cup {n} /\ dist' = dist
      /\ n \notin visited => e[1] = dist[n]
  BY DEF Takes
<1>2. e[1] < Unreached
  BY <1>1, SpfAssumption DEF TypeInv
<1>. HIDE DEF n
<1>3. ASSUME NEW m \in Nodes, dist[m] < Unreached
      PROVE  m \in visited' \/ <<dist[m], m>> \in heap'
  BY <1>1, <1>3 DEF Frontier
<1>4. ASSUME NEW m \in visited'
      PROVE  dist[m] < Unreached /\ <<dist[m], m>> \notin heap'
  BY <1>1, <1>2, <1>4 DEF Frontier
<1>5. ASSUME NEW f \in heap', NEW m \in visited'
      PROVE  dist[m] <= f[1]
  BY <1>1, <1>5 DEF Frontier
<1>6. ASSUME NEW f \in heap'
      PROVE  dist[f[2]] <= f[1]
  BY <1>1, <1>6 DEF Frontier
<1>. QED
  BY <1>1, <1>3, <1>4, <1>5, <1>6 DEF Frontier

\* More links count, and none less.
LEMMA TakesHops ==
  ASSUME Reach, HopInv, NEW e, Takes(e)
  PROVE  Reach' /\ HopInv'
<1>1. /\ visited \subseteq visited' /\ dist' = dist /\ nh' = nh /\ ver' = ver
      /\ UNCHANGED <<ver, lsdb, nbr>>
  BY DEF Takes
<1>2. Links' = Links
  BY <1>1, GraphStays
<1>3. \A n : Into(n) \subseteq Into(n)'
  BY <1>1, <1>2 DEF Into, Tight
<1>4. Reached' = Reached
  BY <1>1 DEF Reached
<1>5. /\ \A l, h : Brings(l, h)' <=> Brings(l, h)
      /\ \A p, n : Without(p, n)' <=> Without(p, n)
  BY <1>1 DEF Brings, AtRoot, Without
<1>. QED
  BY <1>1, <1>3, <1>4, <1>5 DEF Reach, HopInv

\* The node taken is the one whose edges are relaxed next.
LEMMA TakesProgress ==
  ASSUME TypeInv, Frontier, NEW p \in Nodes, Progress(p), NEW e, Takes(e)
  PROVE  Progress(e[2])'
<1>. DEFINE n == e[2]
<1>1. /\ e \in heap /\ e = <<e[1], n>> /\ n \in Nodes /\ e[1] \in Nat /\ work = {}
      /\ \A f \in heap : e[1] <= f[1]
      /\ heap' = heap \ {e} /\ visited' = visited \cup {n}
      /\ n \in visited => work' = {}
      /\ n \notin visited => e[1] = dist[n] /\ work' = IF Expands(n) THEN Edges(n, e[1]) ELSE {}
      /\ dist' = dist /\ nh' = nh /\ UNCHANGED <<ver, lsdb, nbr>>
  BY DEF Takes
<1>2. /\ Links' = Links /\ (Expands(n)' <=> Expands(n)) /\ (NoNetworks' <=> NoNetworks)
      /\ \A r : NeighborHops(r)' = NeighborHops(r)
  BY <1>1, GraphStays
<1>. HIDE DEF n
<1>3. Current(n)'
  <2>. SUFFICES ASSUME work' # {} PROVE Current(n)'
    BY DEF Current
  <2>1. n \notin visited /\ Expands(n) /\ e[1] = dist[n] /\ work' = Edges(n, e[1])
    BY <1>1
  <2>2. Edges(n, dist[n])' = Edges(n, e[1])
    BY <1>1, <2>1, EdgesStay
  <2>3. \A m \in visited' : dist[m] <= dist[n]
    BY <1>1, <2>1 DEF Frontier, TypeInv
  <2>4. \A f \in heap' : dist[n] <= f[1]
    BY <1>1, <2>1
  <2>. QED
    BY <1>1, <1>2, <2>1, <2>2, <2>3, <2>4 DEF Current
<1>4. ASSUME NEW l \in Links, l[1] \in visited'
      PROVE  l[1] \in visited \/ Pending(n, l)'
  <2>1. CASE l[1] = n /\ n \notin visited
    <3>1. Expands(n) /\ l[3] \in Nat
      BY <2>1, LinkType
    <3>2. PICK w \in Edges(n, e[1]) : w.to = l[2] /\ w.cost = e[1] + l[3]
      BY <1>1, <2>1, EdgeOfLink
    <3>. QED
      BY <1>1, <2>1, <3>1, <3>2 DEF Pending
  <2>. QED
    BY <1>1, <1>4, <2>1
<1>5. Relaxed(n)'
  <2>1. \A l \in Links : ~Pending(p, l)
    BY <1>1 DEF Pending
  <2>2. \A l \in Links : l[1] \in visited' => dist[l[2]] <= dist[l[1]] + l[3] \/ Pending(n, l)'
    BY <1>4, <2>1 DEF Progress, Relaxed
  <2>. QED
    BY <1>1, <1>2, <2>2 DEF Relaxed
<1>6. Multipath(n)'
  <2>. SUFFICES ASSUME ver = "v3", NoNetworks, NEW m \in Reached \ {Me}
                PROVE  nh[m] = UNION {Over(l)' : l \in {k \in Into(m)' : ~Pending(n, k)'}}
    BY <1>1, <1>2 DEF Multipath, Reached
  <2>1. nh[m] = UNION {Over(l) : l \in {k \in Into(m) : ~Pending(p, k)}}
    BY DEF Progress, Multipath
  <2>2. \A l \in Links : Over(l)' = Over(l)
    BY <1>1, <1>2 DEF Over
  <2>3. {k \in Into(m)' : ~Pending(n, k)'} = Into(m)
    <3>1. \A k \in Into(m)' : k \in Links /\ k[1] \in visited'
      BY <1>2 DEF Into
    <3>2. \A k \in Into(m)' : k[1] \in visited <=> k \in Into(m)
      BY <1>1, <1>2 DEF Into, Tight
    <3>3. Into(m) \subseteq Into(m)'
      BY <1>1, <1>2 DEF Into, Tight
    <3>4. \A k \in Into(m) : ~Pending(n, k)'
      <4>1. \A k \in Into(m) : k[1] \in visited
        BY DEF Into
      <4>2. n \in visited => \A k : ~Pending(n, k)'
        BY <1>1 DEF Pending
      <4>. QED
        BY <4>1, <4>2 DEF Pending
    <3>. QED
      BY <1>4, <3>1, <3>2, <3>3, <3>4
  <2>4. {k \in Into(m) : ~Pending(p, k)} = Into(m)
    BY <1>1 DEF Pending
  <2>5. Into(m) \subseteq Links
    BY DEF Into
  <2>6. {Over(l)' : l \in Into(m)} = {Over(l) : l \in Into(m)}
    BY <2>2, <2>5
  <2>. QED
    BY <2>1, <2>3, <2>4, <2>6
<1>. QED
  BY <1>3, <1>5, <1>6 DEF Progress, n

-----------------------------------------------------------------------------
(* Relaxing an edge.                                                       *)

\* Edge e of node p, over link l, is relaxed.
Relaxing(p, e, l) ==
  /\ p \in Nodes /\ p \in visited /\ Expands(p)
  /\ e \in work /\ work \subseteq Edges(p, dist[p]) /\ EdgeOf(p, dist[p], e)
  /\ l \in Links /\ l[1] = p /\ l[2] = e.to /\ e.cost = dist[p] + l[3] /\ l[3] \in Nat
  /\ \A m \in visited : dist[m] <= dist[p]
  /\ \A f \in heap : dist[p] <= f[1]
  /\ work' = work \ {e}
  /\ UNCHANGED <<ver, lsdb, nbr, visited, routes, done>>

\* It offers less than the node has, as much, or nothing new.
Lowers(e) ==
  /\ e.cost < dist[e.to]
  /\ e.to # Me /\ e.to \notin visited
  /\ dist' = [dist EXCEPT ![e.to] = e.cost]
  /\ nh' = [nh EXCEPT ![e.to] = IF ver = "v2" /\ e.hops = {} THEN @ ELSE e.hops]
  /\ heap' = heap \cup {<<e.cost, e.to>>}

Equals(e) ==
  /\ e.cost = dist[e.to] /\ ver = "v3"
  /\ nh' = [nh EXCEPT ![e.to] = @ \cup e.hops]
  /\ dist' = dist /\ heap' = heap

Leaves(e) ==
  /\ e.cost > dist[e.to] \/ ver = "v2"
  /\ e.cost >= dist[e.to]
  /\ nh' = nh /\ dist' = dist /\ heap' = heap

\* Both versions do one of the three.
LEMMA RelaxKinds ==
  ASSUME TypeInv, dist[Me] = 0, NEW p \in Nodes, Progress(p), Relax
  PROVE  \E e \in work, l \in Links :
           Relaxing(p, e, l) /\ (Lowers(e) \/ Equals(e) \/ Leaves(e))
<1>1. PICK e \in work :
        /\ work' = work \ {e}
        /\ \/ ver = "v2" /\ RelaxV2(e)
           \/ ver = "v3" /\ RelaxV3(e)
        /\ UNCHANGED <<ver, lsdb, nbr, visited, routes, done>>
  BY DEF Relax
<1>2. /\ p \in visited /\ Expands(p) /\ work \subseteq Edges(p, dist[p])
      /\ \A m \in visited : dist[m] <= dist[p]
      /\ \A f \in heap : dist[p] <= f[1]
  BY <1>1 DEF Progress, Current
<1>3. dist[p] \in Nat
  BY SpfAssumption DEF TypeInv
<1>4. EdgeOf(p, dist[p], e)
  BY <1>1, <1>2, <1>3, LinkOfEdge
<1>5. PICK l \in Links : l[1] = p /\ l[2] = e.to /\ e.cost = dist[p] + l[3]
  BY <1>4 DEF EdgeOf
<1>6. l[3] \in Nat
  BY LinkType
<1>7. Relaxing(p, e, l)
  BY <1>1, <1>2, <1>4, <1>5, <1>6 DEF Relaxing
<1>. DEFINE n == e.to
<1>8. n \in Nodes /\ e.cost \in Nat /\ dist[n] \in Nat
  BY <1>4, SpfAssumption DEF EdgeOf, TypeInv
<1>9. dist' = [dist EXCEPT ![n] = IF e.cost < dist[n] THEN e.cost ELSE dist[n]]
  BY <1>1, <1>8, MinOfTwo DEF RelaxV2, RelaxV3
<1>10. heap' = IF e.cost < dist[n] THEN heap \cup {<<e.cost, n>>} ELSE heap
  BY <1>1 DEF RelaxV2, RelaxV3
<1>11. dist \in [Nodes -> 0 .. Unreached] /\ nh = [m \in Nodes |-> nh[m]] /\ ver \in {"v2", "v3"}
  BY DEF TypeInv
<1>12. CASE e.cost < dist[n]
  <2>1. n # Me /\ n \notin visited
    BY <1>2, <1>3, <1>5, <1>6, <1>8, <1>12
  <2>3. nh' = [nh EXCEPT ![n] = IF ver = "v2" /\ e.hops = {} THEN @ ELSE e.hops]
    <3>1. CASE ver = "v2"
      <4>1. nh' = [nh EXCEPT ![n] = IF e.cost < dist[n] /\ e.hops # {} THEN e.hops ELSE @]
        BY <1>1, <3>1 DEF RelaxV2
      <4>. QED
        BY <1>12, <3>1, <4>1
    <3>2. CASE ver = "v3"
      <4>. DEFINE v == CASE e.cost < dist[n] -> e.hops
                         [] e.cost = dist[n] -> nh[n] \cup e.hops
                         [] OTHER -> nh[n]
      <4>1. nh' = [nh EXCEPT ![n] = v]
        BY <1>1, <3>2 DEF RelaxV3
      <4>2. v = e.hops
        <5>. HIDE DEF n
        <5>. QED
          BY <1>8, <1>12
      <4>. HIDE DEF v
      <4>. QED
        BY <3>2, <4>1, <4>2
    <3>. QED
      BY <1>11, <3>1, <3>2
  <2>4. Lowers(e)
    BY <1>9, <1>10, <1>12, <2>1, <2>3 DEF Lowers
  <2>. QED
    BY <1>7, <2>4
<1>13. CASE ~(e.cost < dist[n])
  <2>1. dist' = dist /\ heap' = heap
    BY <1>8, <1>9, <1>10, <1>11, <1>13
  <2>2. CASE ver = "v3" /\ e.cost = dist[n]
    <3>1. nh' = [nh EXCEPT ![n] = @ \cup e.hops]
      BY <1>1, <1>13, <2>2 DEF RelaxV3
    <3>2. Equals(e)
      BY <2>1, <2>2, <3>1 DEF Equals
    <3>. QED
      BY <1>7, <3>2
  <2>3. CASE ver = "v3" /\ e.cost # dist[n]
    <3>1. RelaxV3(e) /\ e.cost > dist[n]
      BY <1>1, <1>8, <1>13, <2>3
    <3>2. nh' = [nh EXCEPT ![n] = nh[n]]
      BY <1>13, <2>3, <3>1 DEF RelaxV3
    <3>3. nh' = nh
      BY <3>2, <1>8, <1>11
    <3>4. Leaves(e)
      BY <2>1, <3>1, <3>3, <1>8 DEF Leaves
    <3>. QED
      BY <1>7, <3>4
  <2>4. CASE ver = "v2"
    <3>1. RelaxV2(e) /\ e.cost >= dist[n]
      BY <1>1, <1>8, <1>13, <2>4
    <3>2. nh' = nh
      <4>1. nh' = [nh EXCEPT ![n] = nh[n]]
        BY <1>13, <3>1 DEF RelaxV2
      <4>. QED
        BY <4>1, <1>8, <1>11
    <3>3. Leaves(e)
      BY <2>1, <2>4, <3>1, <3>2 DEF Leaves
    <3>. QED
      BY <1>7, <3>3
  <2>. QED
    BY <2>2, <2>3, <2>4, <1>11
<1>. QED
  BY <1>12, <1>13

\* Costs of nodes that were taken do not change any more.
LEMMA RelaxFacts ==
  ASSUME TypeInv, NEW p, NEW e, NEW l, Relaxing(p, e, l), Lowers(e) \/ Equals(e) \/ Leaves(e)
  PROVE  /\ e.to \in Nodes /\ e.cost \in Nat /\ dist[p] \in Nat /\ dist[p] <= e.cost
         /\ dist' \in [Nodes -> 0 .. Unreached] /\ nh' = [m \in Nodes |-> nh'[m]]
         /\ \A m \in Nodes : m # e.to => dist'[m] = dist[m] /\ nh'[m] = nh[m]
         /\ \A m \in visited : m \in Nodes /\ dist'[m] = dist[m]
         /\ dist'[e.to] <= e.cost
         /\ visited' = visited /\ ver' = ver /\ Links' = Links
         /\ work' = work \ {e}
<1>1. /\ e.to \in Nodes /\ e.cost \in Nat /\ p \in Nodes /\ e.cost = dist[p] + l[3] /\ l[3] \in Nat
      /\ UNCHANGED <<ver, lsdb, nbr>> /\ visited' = visited /\ ver' = ver /\ work' = work \ {e}
  BY DEF Relaxing, EdgeOf
<1>2. dist \in [Nodes -> 0 .. Unreached] /\ nh = [m \in Nodes |-> nh[m]] /\ visited \subseteq Nodes
  BY DEF TypeInv
<1>3. dist[p] \in Nat /\ dist[p] <= e.cost
  BY <1>1, <1>2, SpfAssumption
<1>4. Links' = Links
  BY <1>1, GraphStays
<1>5. CASE Lowers(e)
  <2>1. e.cost < dist[e.to] /\ e.to \notin visited
    BY <1>5 DEF Lowers
  <2>2. /\ dist' = [dist EXCEPT ![e.to] = e.cost]
        /\ nh' = [nh EXCEPT ![e.to] = IF ver = "v2" /\ e.hops = {} THEN @ ELSE e.hops]
    BY <1>5 DEF Lowers
  <2>3. e.cost \in 0 .. Unreached
    BY <1>1, <1>2, <2>1, SpfAssumption
  <2>4. dist' \in [Nodes -> 0 .. Unreached] /\ nh' = [m \in Nodes |-> nh'[m]]
    BY <1>2, <2>2, <2>3
  <2>5. \A m \in Nodes : m # e.to => dist'[m] = dist[m] /\ nh'[m] = nh[m]
    BY <1>2, <2>2
  <2>6. dist'[e.to] = e.cost
    BY <1>1, <1>2, <2>2
  <2>. QED
    BY <1>1, <1>2, <1>3, <1>4, <2>1, <2>4, <2>5, <2>6
<1>6. CASE Equals(e) \/ Leaves(e)
  <2>1. dist' = dist /\ dist[e.to] <= e.cost
    BY <1>1, <1>2, <1>6, SpfAssumption DEF Equals, Leaves
  <2>2. nh' = [m \in Nodes |-> nh'[m]] /\ \A m \in Nodes : m # e.to => nh'[m] = nh[m]
    BY <1>1, <1>2, <1>6 DEF Equals, Leaves
  <2>. QED
    BY <1>1, <1>2, <1>3, <1>4, <2>1, <2>2
<1>. QED
  BY <1>5, <1>6

\* A cost that falls is put on the heap, above those of all nodes taken.
LEMMA RelaxFrontier ==
  ASSUME TypeInv, Frontier, dist[Me] = 0, NEW p, NEW e, NEW l, Relaxing(p, e, l),
         Lowers(e) \/ Equals(e) \/ Leaves(e)
  PROVE  TypeInv' /\ Frontier' /\ dist'[Me] = 0
<1>. DEFINE n == e.to
<1>1. UNCHANGED <<ver, lsdb, nbr, visited, done>>
  BY DEF Relaxing
<1>3. /\ n \in Nodes /\ e.cost \in Nat /\ dist[p] \in Nat /\ dist[p] <= e.cost
      /\ dist' \in [Nodes -> 0 .. Unreached] /\ nh' = [m \in Nodes |-> nh'[m]]
      /\ \A m \in Nodes : m # n => dist'[m] = dist[m]
      /\ \A m \in visited : m \in Nodes /\ dist'[m] = dist[m]
  BY RelaxFacts
<1>4. \A m \in visited : dist[m] <= dist[p]
  BY DEF Relaxing
<1>5. \A m \in Nodes : dist[m] \in Nat /\ dist[m] <= Unreached
  BY SpfAssumption DEF TypeInv
<1>. HIDE DEF n
<1>6. CASE Lowers(e)
  <2>1. /\ e.cost < dist[n] /\ n # Me /\ n \notin visited /\ dist'[n] = e.cost
        /\ heap' = heap \cup {<<e.cost, n>>}
    BY <1>3, <1>6 DEF Lowers, n, TypeInv
  <2>2. heap' \subseteq (0 .. (Unreached - 1)) \X Nodes
    <3>1. e.cost \in 0 .. (Unreached - 1)
      BY <1>3, <1>5, <2>1, SpfAssumption
    <3>. QED
      BY <1>3, <2>1, <3>1 DEF TypeInv
  <2>3. TypeInv'
    BY <1>1, <1>3, <2>2 DEF TypeInv
  <2>4. dist'[Me] = 0
    BY <1>3, <2>1, SpfAssumption DEF Nodes
  <2>5. ASSUME NEW m \in Nodes, dist'[m] < Unreached
        PROVE  m \in visited \/ <<dist'[m], m>> \in heap'
    BY <1>3, <2>1, <2>5 DEF Frontier
  <2>6. ASSUME NEW m \in visited
        PROVE  dist'[m] < Unreached /\ <<dist'[m], m>> \notin heap'
    BY <1>3, <2>1 DEF Frontier
  <2>7. ASSUME NEW f \in heap'
        PROVE  dist'[f[2]] <= f[1] /\ \A m \in visited : dist'[m] <= f[1]
    <3>1. CASE f = <<e.cost, n>>
      BY <1>3, <1>4, <1>5, <2>1, <3>1
    <3>2. CASE f \in heap
      <4>1. f[2] \in Nodes /\ f[1] \in Nat
        BY <3>2, SpfAssumption DEF TypeInv
      <4>2. dist[f[2]] <= f[1] /\ \A m \in visited : dist[m] <= f[1]
        BY <3>2 DEF Frontier
      <4>. QED
        BY <1>3, <1>5, <2>1, <4>1, <4>2
    <3>. QED
      BY <2>1, <3>1, <3>2
  <2>. QED
    BY <1>1, <2>3, <2>4, <2>5, <2>6, <2>7 DEF Frontier
<1>7. CASE Equals(e) \/ Leaves(e)
  <2>1. dist' = dist /\ heap' = heap
    BY <1>7 DEF Equals, Leaves
  <2>. QED
    BY <1>1, <1>3, <2>1 DEF TypeInv, Frontier
<1>. QED
  BY <1>6, <1>7

\* A link into a node that stays as it was still counts.
LEMMA RelaxInto ==
  ASSUME TypeInv, NEW p, NEW e, NEW l, Relaxing(p, e, l), Lowers(e) \/ Equals(e) \/ Leaves(e),
         NEW n \in Nodes, dist'[n] = dist[n]
  PROVE  Into(n)' = Into(n)
BY RelaxFacts DEF Into, Tight

\* The link relaxed leads to its node at the cost it offers.
LEMMA RelaxOffers ==
  ASSUME TypeInv, Frontier, NEW p, NEW e, NEW l, Relaxing(p, e, l), Lowers(e) \/ Equals(e)
  PROVE  l \in Into(e.to)'
<1>1. l \in Links' /\ l[1] = p /\ l[2] = e.to /\ p \in visited' /\ e.cost = dist[p] + l[3]
  BY RelaxFacts DEF Relaxing
<1>2. dist'[p] = dist[p] /\ dist[p] < Unreached
  BY <1>1, RelaxFacts DEF Frontier
<1>3. dist'[e.to] = e.cost
  <2>1. e.to \in Nodes
    BY RelaxFacts
  <2>. QED
    BY <2>1 DEF Lowers, Equals, TypeInv
<1>. QED
  BY <1>1, <1>2, <1>3 DEF Into, Tight

\* The next hops of a node that was taken only grow, and those of a network do not
\* even do that: the links that enter it are not free.
LEMMA RelaxRoots ==
  ASSUME TypeInv, NEW p, NEW e, NEW l, Relaxing(p, e, l), Lowers(e) \/ Equals(e) \/ Leaves(e),
         NEW q \in visited
  PROVE  /\ nh[q] \subseteq nh'[q] /\ (AtRoot(q)' <=> AtRoot(q))
         /\ ver = "v2" => nh'[q] = nh[q]
<1>1. q \in Nodes /\ e.to \in Nodes /\ nh = [m \in Nodes |-> nh[m]]
  BY RelaxFacts DEF TypeInv
<1>2. CASE q # e.to \/ Leaves(e)
  <2>1. nh'[q] = nh[q]
    BY <1>1, <1>2, RelaxFacts DEF Leaves
  <2>. QED
    BY <2>1 DEF AtRoot
<1>3. CASE q = e.to /\ Lowers(e)
  BY <1>3 DEF Lowers
<1>4. CASE q = e.to /\ Equals(e)
  <2>1. nh'[q] = nh[q] \cup e.hops /\ e.cost = dist[q]
    BY <1>1, <1>4 DEF Equals
  <2>2. q \notin Nets
    <3>1. l \in Links /\ l[2] = q /\ dist[q] = dist[p] + l[3] /\ dist[q] <= dist[p] /\ l[3] \in Nat
      BY <1>4, <2>1 DEF Relaxing
    <3>2. dist[p] \in Nat
      BY RelaxFacts
    <3>3. l[3] = 0
      BY <3>1, <3>2
    <3>. QED
      BY <3>1, <3>3, LinkType, SpfAssumption
  <2>. QED
    BY <1>4, <2>1, <2>2 DEF AtRoot, Equals
<1>. QED
  BY <1>2, <1>3, <1>4

\* What was said of a node's next hops still holds, and the hops an edge adds come from
\* the node it leaves.
LEMMA RelaxHops ==
  ASSUME TypeInv, Frontier, Reach, HopInv, NEW p, NEW e, NEW l, Relaxing(p, e, l),
         Lowers(e) \/ Equals(e) \/ Leaves(e)
  PROVE  Reach' /\ HopInv'
<1>. DEFINE n == e.to
<1>1. /\ n \in Nodes /\ p \in visited /\ l[1] = p /\ ver' = ver
      /\ \A m \in Nodes : m # n => dist'[m] = dist[m] /\ nh'[m] = nh[m]
      /\ nh = [m \in Nodes |-> nh[m]]
  BY RelaxFacts DEF Relaxing, TypeInv
<1>2. \A k, h : k[1] \in visited /\ Brings(k, h) => Brings(k, h)'
  BY RelaxRoots DEF Brings
<1>3. \A q, m : q \in visited /\ Without(q, m) => Without(q, m)'
  <2>1. UNCHANGED <<ver, lsdb, nbr>>
    BY DEF Relaxing
  <2>. QED
    BY <2>1, RelaxRoots DEF Without
<1>4. \A h \in e.hops : Brings(l, h)'
  <2>1. \A h \in e.hops : Brings(l, h)
    BY DEF Relaxing, EdgeOf, Brings
  <2>. QED
    BY <1>1, <1>2, <2>1
<1>5. ver = "v2" /\ e.hops = {} => Without(p, n)'
  BY <1>1, <1>3 DEF Relaxing, EdgeOf
<1>. HIDE DEF n
<1>6. ASSUME NEW m \in Reached \ {Me}, dist'[m] = dist[m]
      PROVE  /\ Into(m)' # {}
             /\ \A h \in nh[m] : \E k \in Into(m)' : Brings(k, h)' \/ Without(k[1], m)'
  <2>1. m \in Nodes /\ Into(m) # {}
    BY DEF Reached, Reach
  <2>2. Into(m)' = Into(m)
    BY <1>6, <2>1, RelaxInto
  <2>3. \A k \in Into(m) : k[1] \in visited
    BY DEF Into
  <2>4. \A h \in nh[m] : \E k \in Into(m) : Brings(k, h) \/ Without(k[1], m)
    BY DEF HopInv
  <2>. QED
    BY <1>2, <1>3, <2>1, <2>2, <2>3, <2>4
<1>7. ASSUME NEW m \in Reached' \ {Me}
      PROVE  /\ Into(m)' # {}
             /\ \A h \in nh'[m] : \E k \in Into(m)' : Brings(k, h)' \/ Without(k[1], m)'
  <2>1. m \in Nodes /\ dist'[m] < Unreached
    BY DEF Reached
  <2>2. CASE dist'[m] = dist[m] /\ nh'[m] = nh[m]
    <3>1. m \in Reached \ {Me}
      BY <2>1, <2>2 DEF Reached
    <3>. QED
      BY <1>6, <2>2, <3>1
  <2>3. CASE m = n /\ Lowers(e)
    <3>1. l \in Into(m)'
      BY <2>3, RelaxOffers DEF n
    <3>2. CASE ver = "v2" /\ e.hops = {}
      BY <1>1, <1>5, <2>3, <3>1, <3>2
    <3>3. CASE ~(ver = "v2" /\ e.hops = {})
      <4>1. nh'[m] = e.hops
        BY <1>1, <2>3, <3>3 DEF Lowers, n
      <4>. QED
        BY <1>4, <3>1, <4>1
    <3>. QED
      BY <3>2, <3>3
  <2>4. CASE m = n /\ Equals(e)
    <3>1. nh'[m] = nh[m] \cup e.hops /\ dist' = dist
      BY <1>1, <2>4 DEF Equals, n
    <3>2. l \in Into(m)'
      BY <2>4, RelaxOffers DEF n
    <3>3. m \in Reached \ {Me} /\ dist'[m] = dist[m]
      BY <2>1, <3>1 DEF Reached
    <3>. QED
      BY <1>4, <1>6, <3>1, <3>2, <3>3
  <2>5. CASE Leaves(e)
    BY <2>2, <2>5 DEF Leaves
  <2>. QED
    BY <1>1, <2>1, <2>2, <2>3, <2>4, <2>5
<1>. QED
  BY <1>7 DEF Reach, HopInv

\* The node whose edges are relaxed keeps its next hops: no free link leads from a node
\* to itself.
LEMMA RelaxKeepsSource ==
  ASSUME TypeInv, NEW p, NEW e, NEW l, Relaxing(p, e, l), Lowers(e) \/ Equals(e) \/ Leaves(e)
  PROVE  nh'[p] = nh[p]
<1>1. p \in Nodes /\ p \in visited /\ l \in Links /\ l[1] = p /\ l[2] = e.to
      /\ e.cost = dist[p] + l[3] /\ l[3] \in Nat /\ dist[p] \in Nat
  BY RelaxFacts DEF Relaxing
<1>2. CASE p # e.to \/ Leaves(e)
  BY <1>1, <1>2, RelaxFacts DEF Leaves
<1>3. CASE p = e.to /\ Lowers(e)
  BY <1>1, <1>3 DEF Lowers
<1>4. CASE p = e.to /\ Equals(e)
  <2>1. l[3] = 0
    BY <1>1, <1>4 DEF Equals
  <2>. QED
    BY <1>1, <1>4, <2>1, LinkType, SpfAssumption
<1>. QED
  BY <1>2, <1>3, <1>4

\* Costs only fall; a link that is no longer pending has been given its chance.
LEMMA RelaxRelaxed ==
  ASSUME TypeInv, NEW p, NEW e, NEW l, Relaxing(p, e, l), Lowers(e) \/ Equals(e) \/ Leaves(e),
         Current(p), Relaxed(p)
  PROVE  Current(p)' /\ Relaxed(p)'
<1>1. /\ p \in Nodes /\ p \in visited /\ Expands(p) /\ work \subseteq Edges(p, dist[p])
      /\ \A m \in visited : dist[m] <= dist[p]
      /\ \A f \in heap : dist[p] <= f[1]
      /\ UNCHANGED <<ver, lsdb, nbr>>
  BY DEF Relaxing
<1>2. /\ e.to \in Nodes /\ e.cost \in Nat /\ dist[p] \in Nat /\ dist[p] <= e.cost
      /\ dist' \in [Nodes -> 0 .. Unreached]
      /\ \A m \in Nodes : m # e.to => dist'[m] = dist[m]
      /\ \A m \in visited : m \in Nodes /\ dist'[m] = dist[m]
      /\ dist'[e.to] <= e.cost
      /\ visited' = visited /\ Links' = Links /\ work' = work \ {e}
  BY RelaxFacts
<1>3. Current(p)'
  <2>1. dist'[p] = dist[p]
    BY <1>1, <1>2
  <2>2. Expands(p)' /\ Edges(p, dist[p])' = Edges(p, dist[p])
    BY <1>1, <2>1, GraphStays, EdgesStay, RelaxKeepsSource
  <2>3. \A f \in heap' : dist[p] <= f[1]
    BY <1>1, <1>2 DEF Lowers, Equals, Leaves
  <2>. QED
    BY <1>1, <1>2, <2>1, <2>2, <2>3 DEF Current
<1>4. \A m \in Nodes : dist'[m] <= dist[m] /\ dist[m] \in Nat /\ dist'[m] \in Nat
  <2>1. \A m \in Nodes : dist[m] \in Nat /\ dist'[m] \in Nat
    BY <1>2, SpfAssumption DEF TypeInv
  <2>2. dist'[e.to] <= dist[e.to]
    BY <1>2, <2>1 DEF Lowers, Equals, Leaves
  <2>. QED
    BY <1>2, <2>1, <2>2
<1>5. ASSUME NEW k \in Links, k[1] \in visited
      PROVE  dist'[k[2]] <= dist'[k[1]] + k[3] \/ Pending(p, k)'
  <2>1. k[1] \in Nodes /\ k[2] \in Nodes /\ k[3] \in Nat /\ dist'[k[1]] = dist[k[1]]
    BY <1>2, <1>5, LinkType
  <2>2. CASE dist[k[2]] <= dist[k[1]] + k[3]
    BY <1>4, <2>1, <2>2
  <2>3. CASE Pending(p, k)
    <3>1. PICK w \in work : w.to = k[2] /\ w.cost = dist[p] + k[3] /\ k[1] = p
      BY <2>3 DEF Pending
    <3>2. CASE w = e
      BY <1>2, <2>1, <3>1, <3>2
    <3>3. CASE w # e
      BY <1>2, <2>1, <3>1, <3>3 DEF Pending
    <3>. QED
      BY <3>2, <3>3
  <2>. QED
    BY <1>5, <2>2, <2>3 DEF Relaxed
<1>. QED
  BY <1>2, <1>3, <1>5 DEF Relaxed

\* Without transit links every node reached is a router.
LEMMA OnlyRouters ==
  ASSUME TypeInv, NoNetworks, Reach
  PROVE  /\ \A n \in Reached : n \in Routers
         /\ \A l \in Links : l[2] \in Routers
<1>1. ASSUME NEW l \in Links
      PROVE  l[2] \in Routers
  <2>1. CASE l[2] \in Nets
    <3>1. PICK r \in Routers : lsdb.transit[<<r, l[2]>>] > 0
      BY <2>1, LinkType
    <3>. QED
      BY <2>1, <3>1 DEF NoNetworks
  <2>. QED
    BY <2>1, LinkType DEF Nodes
<1>2. ASSUME NEW n \in Reached
      PROVE  n \in Routers
  <2>1. CASE n # Me
    <3>1. PICK l \in Into(n) : TRUE
      BY <2>1 DEF Reach
    <3>. QED
      BY <1>1, <3>1 DEF Into
  <2>. QED
    BY <2>1, SpfAssumption
<1>. QED
  BY <1>1, <1>2

\* Between routers, the edge of a link is determined by its end and its cost, so that
\* relaxing it settles exactly the links it stands for.
LEMMA RelaxSettles ==
  ASSUME TypeInv, Frontier, Reach, NoNetworks, ver = "v3", NEW p, NEW e, NEW l, Relaxing(p, e, l),
         Lowers(e) \/ Equals(e) \/ Leaves(e)
  PROVE  /\ dist[p] < e.cost
         /\ \A k \in Links : Pending(p, k)' <=>
              Pending(p, k) /\ ~(k[1] = p /\ k[2] = e.to /\ e.cost = dist[p] + k[3])
         /\ \A k \in Links : k[1] = p /\ k[2] = e.to => Over(k) = e.hops
<1>1. /\ p \in Nodes /\ p \in visited /\ Expands(p) /\ work \subseteq Edges(p, dist[p])
      /\ EdgeOf(p, dist[p], e) /\ e \in work
      /\ l \in Links /\ l[1] = p /\ l[2] = e.to /\ e.cost = dist[p] + l[3] /\ l[3] \in Nat
      /\ dist[p] \in Nat /\ dist'[p] = dist[p] /\ work' = work \ {e}
  BY RelaxFacts DEF Relaxing
<1>2. p \in Routers /\ e.to \in Routers
  BY <1>1, OnlyRouters DEF Frontier, Reached
<1>3. l[3] # 0
  BY <1>1, <1>2, LinkType, SpfAssumption
<1>4. e.hops = IF p = Me THEN NeighborHops(e.to) ELSE nh[p]
  BY <1>1, <1>2 DEF EdgeOf
<1>5. ASSUME NEW w \in work, w.to = e.to, w.cost = e.cost
      PROVE  w = e
  <2>1. EdgeOf(p, dist[p], w)
    BY <1>1, LinkOfEdge
  <2>2. w.hops = e.hops
    BY <1>2, <1>4, <1>5, <2>1 DEF EdgeOf
  <2>3. w = Edge(w.to, w.cost, w.hops) /\ e = Edge(e.to, e.cost, e.hops)
    BY <1>1, <2>1 DEF EdgeOf
  <2>. QED
    BY <1>5, <2>2, <2>3
<1>6. ASSUME NEW k \in Links
      PROVE  Pending(p, k)' <=>
               Pending(p, k) /\ ~(k[1] = p /\ k[2] = e.to /\ e.cost = dist[p] + k[3])
  BY <1>1, <1>5 DEF Pending
<1>. QED
  BY <1>1, <1>3, <1>4, <1>6 DEF Over

\* Without networks the next hops of a node are those of all its links that have been
\* relaxed, and relaxing one adds its hops, or starts again if it offers less.
LEMMA RelaxMultipath ==
  ASSUME TypeInv, Frontier, Reach, NEW p, NEW e, NEW l, Relaxing(p, e, l),
         Lowers(e) \/ Equals(e) \/ Leaves(e), Relaxed(p), Multipath(p)
  PROVE  Multipath(p)'
<1>0. /\ UNCHANGED <<ver, lsdb, nbr>> /\ Links' = Links /\ visited' = visited
      /\ (NoNetworks' <=> NoNetworks) /\ \A r : NeighborHops(r)' = NeighborHops(r)
      /\ \A m \in visited : dist[m] <= dist[p]
  BY RelaxFacts, GraphStays DEF Relaxing
<1>. SUFFICES ASSUME ver = "v3", NoNetworks, NEW m \in Reached' \ {Me}
              PROVE  nh'[m] = UNION {Over(k)' : k \in {i \in Into(m)' : ~Pending(p, i)'}}
  BY <1>0 DEF Multipath
<1>. DEFINE n == e.to
            Stands(k) == k[1] = p /\ k[2] = n /\ e.cost = dist[p] + k[3]
<1>1. /\ dist[p] < e.cost
      /\ \A k \in Links : Pending(p, k)' <=> Pending(p, k) /\ ~Stands(k)
      /\ \A k \in Links : Stands(k) => Over(k) = e.hops
  BY RelaxSettles
<1>2. /\ n \in Nodes /\ e.cost \in Nat /\ dist[p] \in Nat
      /\ \A i \in Nodes : i # n => dist'[i] = dist[i] /\ nh'[i] = nh[i]
      /\ \A i \in visited : i \in Nodes /\ dist'[i] = dist[i]
      /\ nh = [i \in Nodes |-> nh[i]] /\ l \in Links /\ Stands(l)
      /\ \A i \in Nodes : dist[i] \in Nat
  BY RelaxFacts, SpfAssumption DEF Relaxing, TypeInv
<1>3. m \in Nodes /\ dist'[m] < Unreached /\ m # Me
  BY DEF Reached
<1>4. \A q \in visited : nh'[q] = nh[q]
  <2>1. n \in visited => Leaves(e)
    BY <1>0, <1>1, <1>2 DEF Lowers, Equals
  <2>. QED
    BY <1>2, <2>1 DEF Leaves
<1>. HIDE DEF n, Stands
<1>5. \A k \in Into(m)' : k \in Links /\ k[1] \in visited /\ k[2] = m
  BY <1>0 DEF Into
<1>6. \A k \in Into(m)' : Over(k)' = Over(k)
  BY <1>0, <1>4, <1>5 DEF Over
<1>. SUFFICES ASSUME NEW h
              PROVE  h \in nh'[m] <=> \E k \in Into(m)' : ~Pending(p, k)' /\ h \in Over(k)
  <2>1. \A i \in Into(m)' : Over(i)' = Over(i)
    BY <1>6
  <2>. QED
    BY <2>1
<1>7. ASSUME NEW i \in Reached \ {Me}
      PROVE  h \in nh[i] <=> \E k \in Into(i) : ~Pending(p, k) /\ h \in Over(k)
  <2>1. nh[i] = UNION {Over(k) : k \in {j \in Into(i) : ~Pending(p, j)}}
    BY DEF Multipath
  <2>. QED
    BY <2>1
<1>8. CASE nh'[m] = nh[m] /\ dist'[m] = dist[m] /\ \A k \in Into(m) : ~Stands(k)
  <2>1. Into(m)' = Into(m) /\ m \in Reached \ {Me}
    BY <1>3, <1>8, RelaxInto DEF Reached
  <2>2. \A k \in Into(m) : Pending(p, k)' <=> Pending(p, k)
    BY <1>1, <1>5, <1>8, <2>1
  <2>. QED
    BY <1>7, <1>8, <2>1, <2>2
<1>9. CASE m # n
  <2>1. \A k \in Into(m) : ~Stands(k)
    BY <1>9 DEF Into, Stands
  <2>. QED
    BY <1>2, <1>3, <1>8, <1>9, <2>1
<1>10. CASE Leaves(e)
  <2>1. \A k \in Into(m) : ~Stands(k)
    BY <1>2, <1>10 DEF Into, Stands, Tight, Leaves, n
  <2>. QED
    BY <1>8, <1>10, <2>1 DEF Leaves
<1>11. CASE m = n /\ Lowers(e)
  <2>1. nh'[m] = e.hops /\ dist'[m] = e.cost /\ e.cost < dist[m]
    BY <1>2, <1>11 DEF Lowers, n, TypeInv
  <2>2. ASSUME NEW k \in Into(m)'
        PROVE  Stands(k)
    <3>1. /\ k \in Links /\ k[1] \in visited /\ k[2] = n
          /\ dist[k[1]] + k[3] = e.cost /\ dist[k[1]] \in Nat /\ k[3] \in Nat
      BY <1>0, <1>2, <1>11, <2>1, LinkType DEF Into, Tight
    <3>2. Pending(p, k)
      BY <1>2, <1>11, <2>1, <3>1 DEF Relaxed
    <3>. QED
      BY <3>1, <3>2 DEF Pending, Stands
  <2>3. l \in Into(m)'
    BY <1>11, RelaxOffers DEF n
  <2>4. \A k \in Into(m)' : ~Pending(p, k)' /\ Over(k) = e.hops
    BY <1>1, <1>5, <2>2
  <2>. QED
    BY <2>1, <2>3, <2>4
<1>12. CASE m = n /\ Equals(e)
  <2>1. nh'[m] = nh[m] \cup e.hops /\ dist'[m] = dist[m]
    BY <1>2, <1>12 DEF Equals, n
  <2>2. m \in Reached \ {Me} /\ Into(m)' = Into(m)
    BY <1>3, <2>1, RelaxInto DEF Reached
  <2>3. l \in Into(m)
    BY <1>12, <2>2, RelaxOffers DEF n
  <2>4. ASSUME h \in nh'[m]
        PROVE  \E k \in Into(m) : ~Pending(p, k)' /\ h \in Over(k)
    <3>1. CASE h \in e.hops
      BY <1>1, <1>2, <2>3, <3>1
    <3>2. CASE h \in nh[m]
      BY <1>1, <1>5, <1>7, <2>2, <3>2
    <3>. QED
      BY <2>1, <2>4, <3>1, <3>2
  <2>5. ASSUME NEW k \in Into(m), ~Pending(p, k)', h \in Over(k)
        PROVE  h \in nh'[m]
    <3>1. CASE Stands(k)
      BY <1>1, <1>5, <2>1, <2>2, <2>5, <3>1
    <3>2. CASE ~Stands(k)
      BY <1>1, <1>5, <1>7, <2>1, <2>2, <2>5, <3>2
    <3>. QED
      BY <3>1, <3>2
  <2>. QED
    BY <2>2, <2>4, <2>5
<1>. QED
  BY <1>9, <1>10, <1>11, <1>12

-----------------------------------------------------------------------------
(* The whole computation.                                                  *)

\* The computation starts with nothing but the root.
LEMMA InitIInv ==
  ASSUME Init
  PROVE  IInv
<1>1. /\ ver \in {"v2", "v3"} /\ lsdb \in Graphs /\ done = FALSE
      /\ dist = [n \in Nodes |-> IF n = Me THEN 0 ELSE Unreached] /\ nh = [n \in Nodes |-> {}]
      /\ heap = {<<0, Me>>} /\ visited = {} /\ work = {}
  BY DEF Init
<1>2. Me \in Nodes /\ Unreached \in Nat \ {0}
  BY SpfAssumption DEF Nodes
<1>3. TypeInv
  <2>1. dist \in [Nodes -> 0 .. Unreached]
    BY <1>1, <1>2
  <2>2. heap \subseteq (0 .. (Unreached - 1)) \X Nodes
    BY <1>1, <1>2
  <2>3. nh = [n \in Nodes |-> nh[n]]
    BY <1>1
  <2>. QED
    BY <1>1, <2>1, <2>2, <2>3 DEF TypeInv
<1>5. Frontier /\ dist[Me] = 0
  BY <1>1, <1>2 DEF Frontier
<1>6. Reached \ {Me} = {}
  BY <1>1, <1>2 DEF Reached
<1>7. Reach /\ HopInv /\ Multipath(Me)
  BY <1>6 DEF Reach, HopInv, Multipath
<1>8. Current(Me) /\ Relaxed(Me)
  BY <1>1 DEF Current, Relaxed
<1>. QED
  BY <1>1, <1>2, <1>3, <1>5, <1>7, <1>8 DEF IInv, Progress

\* Collecting the routes, and stuttering, touch nothing the invariant mentions but done.
LEMMA CollectIInv ==
  ASSUME IInv, UNCHANGED <<ver, lsdb, nbr, dist, nh, heap, visited, work>>,
         done' \in BOOLEAN, done' => heap = {} /\ work = {}
  PROVE  IInv'
<1>1. /\ ver' = ver /\ lsdb' = lsdb /\ nbr' = nbr /\ dist' = dist /\ nh' = nh
      /\ heap' = heap /\ visited' = visited /\ work' = work
  OBVIOUS
<1>2. /\ Links' = Links /\ \A p : Expands(p)' <=> Expands(p)
      /\ (NoNetworks' <=> NoNetworks) /\ \A r : NeighborHops(r)' = NeighborHops(r)
  BY <1>1, GraphStays
<1>3. TypeInv' /\ Frontier' /\ dist'[Me] = 0
  BY <1>1 DEF IInv, TypeInv, Frontier
<1>4. /\ Reached' = Reached /\ \A n : Into(n)' = Into(n)
      /\ \A l, h : Brings(l, h)' <=> Brings(l, h)
      /\ \A p, n : Without(p, n)' <=> Without(p, n)
  BY <1>1, <1>2 DEF Reached, Into, Tight, Brings, AtRoot, Without
<1>5. Reach' /\ HopInv'
  BY <1>1, <1>4 DEF IInv, Reach, HopInv
<1>6. PICK p \in Nodes : Progress(p)
  BY DEF IInv
<1>7. Edges(p, dist[p])' = Edges(p, dist[p])
  BY <1>1, EdgesStay
<1>8. Current(p)'
  BY <1>1, <1>2, <1>6, <1>7 DEF Progress, Current
<1>9. \A l : Pending(p, l)' <=> Pending(p, l)
  BY <1>1 DEF Pending
<1>10. Relaxed(p)'
  BY <1>1, <1>2, <1>6, <1>9 DEF Progress, Relaxed
<1>11. Multipath(p)'
  <2>. SUFFICES ASSUME ver = "v3", NoNetworks, NEW n \in Reached \ {Me}
                PROVE  nh[n] = UNION {Over(l)' : l \in {k \in Into(n) : ~Pending(p, k)'}}
    BY <1>1, <1>2, <1>4 DEF Multipath
  <2>1. nh[n] = UNION {Over(l) : l \in {k \in Into(n) : ~Pending(p, k)}}
    BY <1>6 DEF Progress, Multipath
  <2>2. \A l : Over(l)' = Over(l)
    BY <1>1, <1>2 DEF Over
  <2>3. {k \in Into(n) : ~Pending(p, k)'} = {k \in Into(n) : ~Pending(p, k)}
    BY <1>9
  <2>. QED
    BY <2>1, <2>2, <2>3
<1>. QED
  BY <1>1, <1>3, <1>5, <1>6, <1>8, <1>10, <1>11 DEF IInv, Progress

\* Each step of either version keeps the invariant.
LEMMA NextIInv ==
  ASSUME IInv, [Next]_vars
  PROVE  IInv'
<1>1. PICK p \in Nodes : Progress(p)
  BY DEF IInv
<1>2. TypeInv /\ Frontier /\ dist[Me] = 0 /\ Reach /\ HopInv
  BY DEF IInv
<1>3. CASE PopV2 \/ PopV3
  <2>1. PICK e \in heap : Takes(e)
    BY <1>2, <1>3, PopTakes
  <2>2. TypeInv' /\ dist'[Me] = 0
    BY <1>2, <2>1, TakesKeepsTypes
  <2>3. Frontier' /\ Reach' /\ HopInv'
    BY <1>2, <2>1, TakesFrontier, TakesHops
  <2>4. e[2] \in Nodes /\ Progress(e[2])'
    BY <1>1, <1>2, <2>1, TakesProgress DEF Takes
  <2>5. ~done'
    BY <2>1 DEF Takes, IInv
  <2>. QED
    BY <2>2, <2>3, <2>4, <2>5 DEF IInv
<1>4. CASE Relax
  <2>1. PICK e \in work, l \in Links :
          Relaxing(p, e, l) /\ (Lowers(e) \/ Equals(e) \/ Leaves(e))
    BY <1>1, <1>2, <1>4, RelaxKinds
  <2>2. TypeInv' /\ Frontier' /\ dist'[Me] = 0
    BY <1>2, <2>1, RelaxFrontier
  <2>3. Reach' /\ HopInv'
    BY <1>2, <2>1, RelaxHops
  <2>4. Progress(p)'
    BY <1>1, <1>2, <2>1, RelaxRelaxed, RelaxMultipath DEF Progress
  <2>5. ~done'
    BY <2>1 DEF Relaxing, IInv
  <2>. QED
    BY <2>2, <2>3, <2>4, <2>5 DEF IInv
<1>5. CASE CollectV2
  BY <1>5, CollectIInv DEF CollectV2
<1>6. CASE CollectV3
  BY <1>6, CollectIInv DEF CollectV3
<1>7. CASE UNCHANGED vars
  BY <1>7, CollectIInv DEF vars, IInv, TypeInv
<1>. QED
  BY <1>3, <1>4, <1>5, <1>6, <1>7 DEF Next

\* The invariant of the computation holds in every state of it.
LEMMA SpfInvariant == Spec => []IInv
<1>1. Init => IInv
  BY InitIInv
<1>2. IInv /\ [Next]_vars => IInv'
  BY NextIInv
<1>. QED
  BY <1>1, <1>2, PTL DEF Spec

\* When the heap has run empty every node reached has been taken, and no link waits.
LEMMA Finished ==
  ASSUME IInv, done
  PROVE  /\ TypeInv /\ dist[Me] = 0 /\ Reach /\ HopInv
         /\ \A n \in Reached : n \in visited
         /\ \A l \in Links : dist[l[1]] < Unreached => dist[l[2]] <= dist[l[1]] + l[3]
         /\ \A n : Into(n) = {l \in Links : l[2] = n /\ Tight(l)}
         /\ ver = "v3" /\ NoNetworks =>
              \A n \in Reached \ {Me} : nh[n] = UNION {Over(l) : l \in Into(n)}
<1>1. PICK p \in Nodes : Progress(p)
  BY DEF IInv
<1>2. TypeInv /\ Frontier /\ dist[Me] = 0 /\ Reach /\ HopInv /\ heap = {} /\ work = {}
  BY DEF IInv
<1>3. \A n \in Nodes : dist[n] < Unreached => n \in visited
  BY <1>2 DEF Frontier
<1>4. \A l : ~Pending(p, l)
  BY <1>2 DEF Pending
<1>5. \A l \in Links : l[1] \in Nodes
  BY <1>2, LinkType
<1>6. \A l \in Links : dist[l[1]] < Unreached => dist[l[2]] <= dist[l[1]] + l[3]
  BY <1>1, <1>3, <1>4, <1>5 DEF Progress, Relaxed
<1>7. \A n : Into(n) = {l \in Links : l[2] = n /\ Tight(l)}
  BY <1>3, <1>5 DEF Into, Tight
<1>8. \A n : {k \in Into(n) : ~Pending(p, k)} = Into(n)
  BY <1>4
<1>9. ver = "v3" /\ NoNetworks =>
        \A n \in Reached \ {Me} : nh[n] = UNION {Over(l) : l \in Into(n)}
  BY <1>1, <1>8, Zenon DEF Progress, Multipath
<1>. QED
  BY <1>2, <1>3, <1>6, <1>7, <1>9 DEF Reached

\* Both versions compute, for every database, every order of links of equal cost and
\* every tie in the heap, a cost no link improves on and some path attains.
THEOREM ShortestCosts == Spec => []CostsAreShortest
<1>1. IInv => CostsAreShortest
  <2>. SUFFICES ASSUME IInv, done
                PROVE  /\ dist[Me] = 0
                       /\ \A l \in Links : dist[l[1]] < Unreached => dist[l[2]] <= dist[l[1]] + l[3]
                       /\ \A n \in Reached \ {Me} : \E l \in Links : l[2] = n /\ Tight(l)
    BY DEF CostsAreShortest
  <2>1. ASSUME NEW n \in Reached \ {Me}
        PROVE  \E l \in Links : l[2] = n /\ Tight(l)
    BY Finished DEF Reach
  <2>. QED
    BY <2>1, Finished
<1>. QED
  BY <1>1, SpfInvariant, PTL

\* In both versions, whichever neighbors are missing at the moment, every next hop is the
\* first router of a shortest path to its node, unless one of these paths has no hop.
THEOREM HopsOnShortestPaths == Spec => []HopsOfShortestPaths
<1>1. IInv => HopsOfShortestPaths
  <2>. SUFFICES ASSUME IInv, done, NEW n \in Reached \ {Me}, NEW h \in nh[n]
                PROVE  OnShortestPath(Links, n, h) \/ PathWithoutHop(Links, n)
    BY DEF HopsOfShortestPaths
  <2>1. PICK l \in Into(n) : Brings(l, h) \/ Without(l[1], n)
    BY Finished DEF HopInv
  <2>2. l[1] \in Last(Links, n) /\ l[2] = n
    BY Finished DEF Last
  <2>3. CASE Brings(l, h)
    BY <2>2, <2>3, Finished, SpfAssumption
       DEF Brings, AtRoot, OnShortestPath, PathWithoutHop, Without, TypeInv
  <2>4. CASE Without(l[1], n)
    BY <2>2, <2>4 DEF Without, PathWithoutHop
  <2>. QED
    BY <2>1, <2>3, <2>4
<1>. QED
  BY <1>1, SpfInvariant, PTL

\* On a database without transit links version 3 finds every equal-cost next hop.
THEOREM MultipathIsComplete == Spec => []MultipathComplete
<1>1. IInv => MultipathComplete
  <2>. SUFFICES ASSUME IInv, done, ver = "v3", NoNetworks, NEW n \in Reached \ {Me}
                PROVE  nh[n] = UNION {IF l[1] = Me THEN NeighborHops(n) ELSE nh[l[1]] :
                                        l \in {k \in Links : k[2] = n /\ Tight(k)}}
    BY DEF MultipathComplete, NoNetworks
  <2>1. nh[n] = UNION {Over(l) : l \in Into(n)} /\ Into(n) = {k \in Links : k[2] = n /\ Tight(k)}
    BY Finished
  <2>2. \A l \in Into(n) : Over(l) = IF l[1] = Me THEN NeighborHops(n) ELSE nh[l[1]]
    BY DEF Over, Into
  <2>3. {Over(l) : l \in Into(n)} = {IF l[1] = Me THEN NeighborHops(n) ELSE nh[l[1]] : l \in Into(n)}
    BY <2>2
  <2>. QED
    BY <2>1, <2>3
<1>. QED
  BY <1>1, SpfInvariant, PTL

-----------------------------------------------------------------------------
(* Shortest, said without the tree.                                        *)

\* A cost that no link improves on: the length of a shortest path is one, and the
\* greatest (a node cannot cost more than any path to it, and does cost that much).
Potential(c) ==
  /\ c \in [Nodes -> Nat] /\ c[Me] = 0
  /\ \A l \in Links : c[l[2]] <= c[l[1]] + l[3]

\* A node is reached over nodes of lower cost, or over a network of the same cost.
Rank(n) == 2 * dist[n] + IF n \in Nets THEN 0 ELSE 1

\* A set of natural numbers has a least element.
LEMMA LeastOfNat ==
  ASSUME NEW T \in SUBSET Nat, T # {}
  PROVE  \E x \in T : \A y \in T : x <= y
<1>. DEFINE R == OpToRel(<, Nat)
<1>1. IsWellFoundedOn(R, Nat)
  BY NatLessThanWellFounded
<1>2. \A x, y \in Nat : x < y => <<x, y>> \in R
  BY DEF OpToRel
<1>. HIDE DEF R
<1>3. PICK x \in T : \A y \in T : ~(<<y, x>> \in R)
  BY <1>1, WFMin
<1>4. \A y \in T : ~(y < x)
  BY <1>2, <1>3
<1>. QED
  BY <1>4

\* The link a node is reached over leaves from a node of lower rank.
LEMMA TightRank ==
  ASSUME TypeInv, NEW l \in Links, Tight(l)
  PROVE  Rank(l[1]) < Rank(l[2])
<1>1. /\ l[1] \in Nodes /\ l[2] \in Nodes /\ l[3] \in Nat
      /\ l[3] = 0 => l[1] \in Nets /\ l[2] \in Routers
  BY LinkType
<1>2. dist[l[1]] \in Nat /\ dist[l[2]] \in Nat /\ dist[l[1]] + l[3] = dist[l[2]]
  BY <1>1, SpfAssumption DEF TypeInv, Tight
<1>3. l[3] = 0 => l[1] \in Nets /\ l[2] \notin Nets
  BY <1>1, SpfAssumption
<1>. QED
  BY <1>1, <1>2, <1>3 DEF Rank

\* The costs of a finished computation are the greatest of all that no link improves
\* on: whatever the shortest paths of the graph are, no node they reach has been given
\* a higher cost (and, as no link improves on the computed costs, none a lower one).
THEOREM NoCostIsTooHigh ==
  Spec => [](done => \A c : Potential(c) => \A n \in Reached : c[n] <= dist[n])
<1>1. ASSUME IInv, done, NEW c, Potential(c), NEW n \in Reached
      PROVE  c[n] <= dist[n]
  <2>. DEFINE bad == {m \in Reached : ~(c[m] <= dist[m])}
              T == {Rank(m) : m \in bad}
  <2>. SUFFICES ASSUME bad # {} PROVE FALSE
    OBVIOUS
  <2>1. /\ TypeInv /\ dist[Me] = 0 /\ Reach
        /\ \A m : Into(m) = {l \in Links : l[2] = m /\ Tight(l)}
    BY <1>1, Finished
  <2>2. \A m \in Nodes : dist[m] \in Nat /\ c[m] \in Nat /\ Rank(m) \in Nat
    BY <1>1, <2>1, SpfAssumption DEF TypeInv, Potential, Rank
  <2>3. bad \subseteq Nodes
    BY DEF Reached
  <2>4. PICK m \in bad : \A k \in bad : Rank(m) <= Rank(k)
    <3>1. T \in SUBSET Nat /\ T # {}
      BY <2>2, <2>3
    <3>2. PICK x \in T : \A y \in T : x <= y
      BY <3>1, LeastOfNat
    <3>. QED
      BY <3>2
  <2>5. m \in Reached \ {Me} /\ m \in Nodes /\ ~(c[m] <= dist[m])
    BY <1>1, <2>1, <2>2, <2>3 DEF Potential
  <2>6. PICK l \in Links : l[2] = m /\ Tight(l)
    BY <2>1, <2>5 DEF Reach
  <2>7. l[1] \in Nodes /\ l[3] \in Nat /\ Rank(l[1]) < Rank(m)
    BY <2>1, <2>6, LinkType, TightRank
  <2>8. l[1] \in Reached /\ dist[l[1]] + l[3] = dist[m]
    BY <2>6, <2>7 DEF Tight, Reached
  <2>9. c[m] <= c[l[1]] + l[3]
    BY <1>1, <2>6 DEF Potential
  <2>10. l[1] \in bad
    BY <2>2, <2>5, <2>7, <2>8, <2>9
  <2>11. Rank(m) \in Nat /\ Rank(l[1]) \in Nat /\ Rank(m) <= Rank(l[1])
    BY <2>2, <2>4, <2>5, <2>7, <2>10
  <2>. QED
    BY <2>7, <2>11
<1>2. IInv => (done => \A c : Potential(c) => \A n \in Reached : c[n] <= dist[n])
  BY <1>1
<1>. QED
  BY <1>2, SpfInvariant, PTL
=============================================================================
