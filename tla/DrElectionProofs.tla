-------------------------- MODULE DrElectionProofs --------------------------
(***************************************************************************)
(* Proofs about DrElection, for every set of routers and priorities,       *)
(* whatever is lost, expires or goes down, in either version.              *)
(*                                                                         *)
(* DrYieldsToDr needs that a router in state DR declares itself and can be *)
(* elected (Role): then it is among the declarers of its own next          *)
(* election, whose first pass picks the best of them.                      *)
(*                                                                         *)
(* In version 3 settled routers agree.  They see each other and know what  *)
(* each declares (SettledViews), so all of them elect from the same        *)
(* declarations; each one's own is confirmed by the election it takes part *)
(* in, and then it is what the first pass elects (Fixpoint).               *)
(***************************************************************************)
EXTENDS DrElection, FiniteSetTheorems, TLAPS

\* Priority and router id order the routers.
LEMMA RankOrder ==
  ASSUME NEW a \in Routers, NEW b \in Routers
  PROVE  /\ Outranks(a, b) \/ Outranks(b, a)
         /\ Outranks(a, a)
         /\ \A c \in Routers : Outranks(a, b) /\ Outranks(b, c) => Outranks(a, c)
BY RoutersAssumption DEF Outranks

\* A set of candidates has a best one.  Otherwise there would be a smallest set
\* without one; take any router away, and the better of it and of the best of the rest
\* is the best of all.
LEMMA BestExists ==
  ASSUME NEW S \in SUBSET Routers, S # {}
  PROVE  \E a \in S : \A b \in S : Outranks(a, b)
<1>. DEFINE Best(T) == \E a \in T : \A b \in T : Outranks(a, b)
            Bad == {T \in SUBSET Routers : T # {} /\ ~Best(T)}
            R == StrictSubsetOrdering(Routers)
            F == FiniteSubsetsOf(Routers)
<1>1. F = SUBSET Routers
  BY RoutersAssumption, FS_FiniteSubsetsOfFinite
<1>2. IsWellFoundedOn(R, F)
  BY FS_StrictSubsetOrderingWellFounded
<1>3. Bad \subseteq F
  BY <1>1
<1>4. ASSUME Bad # {}
      PROVE  FALSE
  <2>. HIDE DEF Bad, R, F
  <2>1. PICK U \in Bad : \A V \in Bad : ~(<<V, U>> \in R)
    BY <1>2, <1>3, <1>4, WFMin, Zenon
  <2>2. U \in SUBSET Routers /\ U # {} /\ ~Best(U)
    BY DEF Bad
  <2>3. PICK x \in U : TRUE
    BY <2>2
  <2>. DEFINE V == U \ {x}
  <2>4. V \in SUBSET Routers /\ <<V, U>> \in R
    BY <2>2, <2>3 DEF R, StrictSubsetOrdering
  <2>5. V = {} \/ Best(V)
    BY <2>1, <2>4 DEF Bad
  <2>6. CASE V = {}
    BY <2>2, <2>3, <2>6, RankOrder
  <2>7. CASE Best(V)
    <3>1. PICK a \in V : \A b \in V : Outranks(a, b)
      BY <2>7
    <3>2. CASE Outranks(a, x)
      BY <2>2, <3>1, <3>2
    <3>3. CASE Outranks(x, a)
      BY <2>2, <2>3, <3>1, <3>3, RankOrder
    <3>. QED
      BY <2>2, <2>3, <3>1, <3>2, <3>3, RankOrder
  <2>. QED
    BY <2>5, <2>6, <2>7
<1>. QED
  BY <1>4

\* Top finds it.
LEMMA TopIsBest ==
  ASSUME NEW S \in SUBSET Routers
  PROVE  /\ S = {} => Top(S) = NoAddr
         /\ S # {} => Top(S) \in S /\ \A b \in S : Outranks(Top(S), b)
         /\ Top(S) \in Addr
<1>1. CASE S = {}
  BY <1>1 DEF Top, Addr
<1>2. CASE S # {}
  <2>1. \E a \in S : \A b \in S : Outranks(a, b)
    BY <1>2, BestExists
  <2>2. Top(S) \in S /\ \A b \in S : Outranks(Top(S), b)
    BY <1>2, <2>1 DEF Top
  <2>. QED
    BY <1>2, <2>2 DEF Addr
<1>. QED
  BY <1>1, <1>2

\* One pass: whoever is elected is a candidate, nobody gets both roles, and the best
\* of those who call themselves DR is the DR.
LEMMA ElectPass ==
  ASSUME NEW E \in SUBSET Routers, NEW d \in [Routers -> Declaration]
  PROVE  /\ Elect(E, d) \in Declaration
         /\ Elect(E, d).dr \in E \cup {NoAddr}
         /\ Elect(E, d).bdr = Elect(E, d).dr => Elect(E, d).dr = NoAddr
         /\ LET declarers == {c \in E : d[c].dr = c}
            IN  declarers # {} => Elect(E, d).dr = Top(declarers)
<1>. DEFINE declarers == {c \in E : d[c].dr = c}
            rest == {c \in E : d[c].dr # c}
            claim == {c \in rest : d[c].bdr = c}
            backup == ElectBackup(E, d)
            dr == IF declarers # {} THEN Top(declarers) ELSE backup
            bdr == IF dr = backup THEN Top(E \ {dr}) ELSE backup
<1>1. backup \in rest \cup {NoAddr}
  BY TopIsBest DEF ElectBackup
<1>2. backup \in Addr
  BY <1>1 DEF Addr
<1>3. Elect(E, d) = [dr |-> dr, bdr |-> bdr]
  BY <1>2 DEF Elect
<1>4. dr \in E \cup {NoAddr} /\ dr \in Addr
  BY <1>1, <1>2, TopIsBest DEF Addr
<1>5. bdr \in Addr
  BY <1>2, TopIsBest
<1>6. bdr = dr => dr = NoAddr
  BY <1>1, TopIsBest
<1>. QED
  BY <1>3, <1>4, <1>5, <1>6 DEF Declaration

\* The election of r (run_dr_election, both passes).  A DR that can be elected loses
\* its role only to a two-way neighbor that calls itself DR and outranks it.
LEMMA Election ==
  ASSUME NEW r \in Routers, NEW i \in Interface
  PROVE  /\ RunDrElection(r, i) \in Declaration
         /\ RunDrElection(r, i).dr = r => Priority[r] > 0
         /\ RunDrElection(r, i).bdr = RunDrElection(r, i).dr => RunDrElection(r, i).dr = NoAddr
         /\ i.dr = r /\ Priority[r] > 0 /\ RunDrElection(r, i).dr # r =>
              \E q \in Routers \ {r} :
                 TwoWay(i.neighbors[q]) /\ i.neighbors[q].dr = q /\ Outranks(q, r)
<1>. DEFINE E == Eligible(r, i)
            pass == [own \in Declaration |-> Elect(E, Declared(r, i, own))]
            now == [dr |-> i.dr, bdr |-> i.bdr]
            first == pass[now]
            Own(own) == {c \in E : Declared(r, i, own)[c].dr = c}
            e == RunDrElection(r, i)
<1>1. E \in SUBSET Routers /\ \A c \in E : Priority[c] > 0 /\ (c = r \/ TwoWay(i.neighbors[c]))
  BY DEF Eligible
<1>2. now \in Declaration
  BY DEF Interface, Declaration
<1>3. \A own \in Declaration : Declared(r, i, own) \in [Routers -> Declaration]
  BY DEF Declared, Declaration, Interface, NeighborEntry
<1>4. ASSUME NEW own \in Declaration
      PROVE  /\ pass[own] \in Declaration
             /\ pass[own].dr \in E \cup {NoAddr}
             /\ pass[own].bdr = pass[own].dr => pass[own].dr = NoAddr
             /\ Own(own) # {} => pass[own].dr = Top(Own(own))
  <2>1. pass[own] = Elect(E, Declared(r, i, own))
    OBVIOUS
  <2>. HIDE DEF E, pass
  <2>. QED
    BY <1>1, <1>3, <2>1, ElectPass
<1>5. first \in Declaration
  BY <1>2, <1>4
<1>6. e = first \/ e = pass[first]
  BY DEF RunDrElection
<1>7. /\ e \in Declaration
      /\ e.dr \in E \cup {NoAddr}
      /\ e.bdr = e.dr => e.dr = NoAddr
  <2>. HIDE DEF pass, first, now, e, E
  <2>. QED
    BY <1>2, <1>4, <1>5, <1>6 DEF first
<1>8. e.dr = r => Priority[r] > 0
  BY <1>1, <1>7, RoutersAssumption
<1>9. ASSUME i.dr = r, Priority[r] > 0, e.dr # r
      PROVE  \E q \in Routers \ {r} :
                TwoWay(i.neighbors[q]) /\ i.neighbors[q].dr = q /\ Outranks(q, r)
  <2>1. r \in E
    BY <1>9 DEF Eligible
  <2>2. \A own \in Declaration : own.dr = r => r \in Own(own)
    BY <2>1 DEF Declared
  <2>3. \A own, other \in Declaration : own.dr = r /\ other.dr = r => Own(own) = Own(other)
    BY <1>1 DEF Declared
  <2>4. r \in Own(now) /\ Own(now) \in SUBSET Routers
    BY <1>1, <1>2, <1>9, <2>2
  <2>5. first.dr = Top(Own(now)) /\ first.dr \in Own(now) /\ Outranks(first.dr, r)
    <3>. HIDE DEF pass, now, E, Own
    <3>. QED
      BY <1>2, <1>4, <2>4, TopIsBest
  <2>6. first.dr # r
    <3>. SUFFICES ASSUME first.dr = r PROVE FALSE
      OBVIOUS
    <3>1. Own(first) = Own(now)
      BY <1>2, <1>5, <1>9, <2>3
    <3>2. pass[first].dr = r
      <4>. HIDE DEF pass, first, now, E, Own
      <4>. QED
        BY <1>4, <1>5, <2>4, <2>5, <3>1
    <3>. QED
      BY <1>6, <1>9, <3>2
  <2>7. first.dr \in E /\ Declared(r, i, now)[first.dr].dr = first.dr
    BY <2>5
  <2>8. i.neighbors[first.dr].dr = first.dr
    <3>. HIDE DEF pass, first, now, E
    <3>. QED
      BY <1>1, <2>6, <2>7 DEF Declared
  <2>9. TwoWay(i.neighbors[first.dr]) /\ first.dr \in Routers \ {r}
    <3>. HIDE DEF pass, first, now, E
    <3>. QED
      BY <1>1, <2>6, <2>7
  <2>. HIDE DEF first
  <2>. QED
    BY <2>5, <2>8, <2>9
<1>. QED
  BY <1>7, <1>8, <1>9

\* The neighbor state machine keeps its type; AdjOk keeps a two-way neighbor two-way.
LEMMA NeighborEvents ==
  ASSUME NEW n \in N!Neighbor, NEW adj \in BOOLEAN
  PROVE  /\ \A event \in {"HelloReceived", "TwoWayReceived", "AdjOk", "OneWay", "InactivityTimer"} :
              N!HandleEvent(n, event, adj) \in N!Neighbor
         /\ n.state \in N!TwoWayOrBetter =>
              N!HandleEvent(n, "AdjOk", adj).state \in N!TwoWayOrBetter
<1>. USE DEF N!To, N!ClearLists, N!NeighborState, N!TwoWayOrBetter, N!ExStartOrBetter,
             N!InitOrBetter
<1>1. \A s \in N!NeighborState : N!To(n, s) \in N!Neighbor /\ N!To(n, s).state = s
  BY DEF N!Neighbor
<1>2. \A s \in N!NeighborState :
        N!To(N!ClearLists(n), s) \in N!Neighbor /\ N!To(N!ClearLists(n), s).state = s
  BY DEF N!Neighbor
<1>3. N!HandleEvent(n, "HelloReceived", adj) \in N!Neighbor
  BY <1>1 DEF N!HandleEvent
<1>4. N!HandleEvent(n, "TwoWayReceived", adj) \in N!Neighbor
  BY <1>1 DEF N!HandleEvent
<1>5. N!HandleEvent(n, "AdjOk", adj) \in N!Neighbor
  BY <1>1, <1>2 DEF N!HandleEvent
<1>6. N!HandleEvent(n, "OneWay", adj) \in N!Neighbor
  BY <1>1, <1>2 DEF N!HandleEvent
<1>7. N!HandleEvent(n, "InactivityTimer", adj) \in N!Neighbor
  BY <1>1, <1>2 DEF N!HandleEvent
<1>8. n.state \in N!TwoWayOrBetter =>
        N!HandleEvent(n, "AdjOk", adj).state \in N!TwoWayOrBetter
  BY <1>1, <1>2 DEF N!HandleEvent
<1>. QED
  BY <1>3, <1>4, <1>5, <1>6, <1>7, <1>8
-----------------------------------------------------------------------------
\* The interface of r is well formed, its state is the role its DR and Backup give it,
\* and nobody holds both roles.
Role(r, i) ==
  /\ i \in Interface
  /\ i.state = "DR" => i.dr = r /\ Priority[r] > 0
  /\ i.state = "Backup" => i.bdr = r /\ i.dr # r
  /\ i.bdr = i.dr => i.dr = NoAddr

\* From i to j, r does not give up the role of DR but to a DR that outranks it.
Yields(r, i, j) ==
  i.state = "DR" /\ j.state \in {"Backup", "DROther"} =>
    \E q \in Routers \ {r} :
      TwoWay(j.neighbors[q]) /\ j.neighbors[q].dr = q /\ Outranks(q, r)

IInv ==
  /\ version \in {2, 3}
  /\ node \in [Routers -> Interface] /\ \A r \in Routers : Role(r, node[r])
  /\ left \subseteq Routers
  /\ budget \in [downs : SUBSET Routers, expiries : Nat]

\* AdjOk? changes no role, forgets no declaration and ends no two-way relationship.
LEMMA Reevaluated ==
  ASSUME NEW r \in Routers, NEW i \in Interface
  PROVE  LET j == ReevaluateAdjacencies(r, i)
         IN  /\ j \in Interface
             /\ j.state = i.state /\ j.dr = i.dr /\ j.bdr = i.bdr
             /\ \A q \in Routers : /\ j.neighbors[q].dr = i.neighbors[q].dr
                                   /\ TwoWay(i.neighbors[q]) => TwoWay(j.neighbors[q])
<1>. DEFINE Adj(q) == i.state \in {"DR", "Backup"}
                      \/ {i.neighbors[q].dr, i.neighbors[q].bdr} \cap {q, r} # {}
            Entry(q) == IF TwoWay(i.neighbors[q])
                        THEN [i.neighbors[q] EXCEPT !.fsm = N!HandleEvent(@, "AdjOk", Adj(q))]
                        ELSE i.neighbors[q]
            new == [q \in Routers |-> Entry(q)]
            j == ReevaluateAdjacencies(r, i)
<1>1. j = [i EXCEPT !.neighbors = new]
  BY Zenon DEF ReevaluateAdjacencies
<1>2. ASSUME NEW q \in Routers
      PROVE  /\ Entry(q) \in NeighborEntry
             /\ Entry(q).dr = i.neighbors[q].dr
             /\ TwoWay(i.neighbors[q]) => TwoWay(Entry(q))
  <2>1. i.neighbors[q] \in NeighborEntry
    BY DEF Interface
  <2>2. i.neighbors[q].fsm \in N!Neighbor
    BY <2>1 DEF NeighborEntry
  <2>. DEFINE fsm == N!HandleEvent(i.neighbors[q].fsm, "AdjOk", Adj(q))
  <2>3. /\ fsm \in N!Neighbor
        /\ TwoWay(i.neighbors[q]) => fsm.state \in N!TwoWayOrBetter
    <3>1. Adj(q) \in BOOLEAN
      OBVIOUS
    <3>. QED
      BY <2>2, <3>1, NeighborEvents DEF TwoWay
  <2>4. Entry(q) = IF TwoWay(i.neighbors[q]) THEN [i.neighbors[q] EXCEPT !.fsm = fsm]
                   ELSE i.neighbors[q]
    OBVIOUS
  <2>. HIDE DEF Entry, fsm
  <2>. QED
    BY <2>1, <2>3, <2>4 DEF NeighborEntry, TwoWay
<1>3. new \in [Routers -> NeighborEntry] /\ \A q \in Routers : new[q] = Entry(q)
  BY <1>2
<1>. HIDE DEF Entry, new, j
<1>4. /\ j \in Interface
      /\ j.state = i.state /\ j.dr = i.dr /\ j.bdr = i.bdr /\ j.neighbors = new
  BY <1>1, <1>3 DEF Interface
<1>. QED
  BY <1>2, <1>3, <1>4 DEF j

\* The state a role stands for.
LEMMA Reelected ==
  ASSUME NEW r \in Routers, NEW i \in Interface, Role(r, i)
  PROVE  /\ Role(r, Reelect(r, i)) /\ Yields(r, i, Reelect(r, i))
         /\ Role(r, ReelectV3(r, i)) /\ Yields(r, i, ReelectV3(r, i))
         /\ Reelect(r, i).state \in {"DROther", "Backup", "DR"}
<1>. DEFINE e == RunDrElection(r, i)
            state == CASE e.dr = r -> "DR"
                       [] e.dr # r /\ e.bdr = r -> "Backup"
                       [] OTHER -> "DROther"
            j == [i EXCEPT !.dr = e.dr, !.bdr = e.bdr, !.state = state]
<1>1. ReelectV3(r, i) = j
  BY DEF ReelectV3
<1>2. Reelect(r, i) = IF state # i.state THEN ReevaluateAdjacencies(r, j) ELSE j
  BY DEF Reelect
<1>3. /\ e \in Declaration
      /\ e.dr = r => Priority[r] > 0
      /\ e.bdr = e.dr => e.dr = NoAddr
      /\ i.dr = r /\ Priority[r] > 0 /\ e.dr # r =>
           \E q \in Routers \ {r} :
              TwoWay(i.neighbors[q]) /\ i.neighbors[q].dr = q /\ Outranks(q, r)
  BY Election
<1>4. /\ state \in {"DROther", "Backup", "DR"}
      /\ state = "DR" <=> e.dr = r
      /\ state = "Backup" <=> e.dr # r /\ e.bdr = r
  OBVIOUS
<1>. HIDE DEF e, state
<1>5. /\ j \in Interface
      /\ j.state = state /\ j.dr = e.dr /\ j.bdr = e.bdr /\ j.neighbors = i.neighbors
  BY <1>3, <1>4 DEF Interface, InterfaceState, Declaration
<1>. HIDE DEF j
<1>6. Role(r, j) /\ Yields(r, i, j)
  BY <1>3, <1>4, <1>5 DEF Role, Yields
<1>7. Role(r, ReevaluateAdjacencies(r, j)) /\ Yields(r, i, ReevaluateAdjacencies(r, j))
  <2>. DEFINE k == ReevaluateAdjacencies(r, j)
  <2>1. /\ k \in Interface
        /\ k.state = j.state /\ k.dr = j.dr /\ k.bdr = j.bdr
        /\ \A q \in Routers : /\ k.neighbors[q].dr = j.neighbors[q].dr
                              /\ TwoWay(j.neighbors[q]) => TwoWay(k.neighbors[q])
    BY <1>5, Reevaluated
  <2>. HIDE DEF k
  <2>2. Role(r, k) /\ Yields(r, i, k)
    BY <1>6, <2>1 DEF Role, Yields
  <2>. QED
    BY <2>2 DEF k
<1>8. ReevaluateAdjacencies(r, j).state = state
  BY <1>5, Reevaluated
<1>. QED
  BY <1>1, <1>2, <1>4, <1>5, <1>6, <1>7, <1>8

\* A changed neighbor entry changes no role.
LEMMA EntryChanged ==
  ASSUME NEW r \in Routers, NEW i \in Interface, Role(r, i),
         NEW q \in Routers, NEW n \in NeighborEntry
  PROVE  LET j == [i EXCEPT !.neighbors[q] = n]
         IN  /\ j \in Interface /\ Role(r, j)
             /\ j.state = i.state /\ j.neighbors = [i.neighbors EXCEPT ![q] = n]
<1>. DEFINE j == [i EXCEPT !.neighbors[q] = n]
            m == [i.neighbors EXCEPT ![q] = n]
<1>1. m \in [Routers -> NeighborEntry]
  BY DEF Interface
<1>2. j = [i EXCEPT !.neighbors = m]
  OBVIOUS
<1>. HIDE DEF j, m
<1>3. /\ j \in Interface /\ j.state = i.state /\ j.dr = i.dr /\ j.bdr = i.bdr
      /\ j.neighbors = m
  BY <1>1, <1>2 DEF Interface
<1>4. Role(r, j)
  BY <1>3 DEF Role
<1>. QED
  BY <1>3, <1>4 DEF j, m

\* NeighborChange and BackupSeen; neither concerns an interface that is down, and
\* BackupSeen none that has elected.
LEMMA Events ==
  ASSUME NEW r \in Routers, NEW i \in Interface, Role(r, i)
  PROVE  /\ Role(r, NeighborChange(r, i)) /\ Yields(r, i, NeighborChange(r, i))
         /\ Role(r, BackupSeen(r, i)) /\ (i.state = "DR" => BackupSeen(r, i) = i)
<1>1. Yields(r, i, i)
  BY DEF Yields
<1>. QED
  BY <1>1, Reelected DEF NeighborChange, BackupSeen

\* What process_hello keeps of a neighbor.
LEMMA HelloEntryType ==
  ASSUME NEW r \in Routers, NEW i \in Interface, NEW q \in Routers,
         NEW hello \in [dr : Addr, bdr : Addr, sees : BOOLEAN]
  PROVE  /\ HelloEntry(r, i, q, hello) \in NeighborEntry
         /\ HelloEntryV3(i.neighbors[q], hello) \in NeighborEntry
<1>. DEFINE n == i.neighbors[q]
            fsm == N!HandleEvent(n.fsm, "HelloReceived", FALSE)
            adj == i.state \in {"DR", "Backup"} \/ q \in {hello.dr, hello.bdr}
            new == IF hello.sees /\ fsm.state = "Init"
                   THEN N!HandleEvent(fsm, "TwoWayReceived", adj)
                   ELSE IF ~hello.sees /\ fsm.state \in N!TwoWayOrBetter
                   THEN N!HandleEvent(fsm, "OneWay", FALSE)
                   ELSE fsm
<1>1. n.fsm \in N!Neighbor
  BY DEF Interface, NeighborEntry
<1>2. fsm \in N!Neighbor
  BY <1>1, NeighborEvents
<1>3. adj \in BOOLEAN
  OBVIOUS
<1>4. HelloEntry(r, i, q, hello) = [dr |-> hello.dr, bdr |-> hello.bdr, fsm |-> new]
  BY DEF HelloEntry
<1>. HIDE DEF fsm, adj
<1>5. new \in N!Neighbor
  BY <1>2, <1>3, NeighborEvents
<1>. HIDE DEF n, new
<1>6. HelloEntry(r, i, q, hello) \in NeighborEntry
  BY <1>4, <1>5 DEF NeighborEntry
<1>. DEFINE s == IF ~hello.sees THEN "Init"
                 ELSE IF n.fsm.state \in {"Down", "Init"} THEN "TwoWay" ELSE n.fsm.state
            v3 == [n.fsm EXCEPT !.state = s]
<1>7. s \in N!NeighborState
  BY <1>1 DEF N!Neighbor, N!NeighborState
<1>8. HelloEntryV3(n, hello) = [dr |-> hello.dr, bdr |-> hello.bdr, fsm |-> v3]
  BY DEF HelloEntryV3
<1>. HIDE DEF s
<1>9. v3 \in N!Neighbor
  BY <1>1, <1>7 DEF N!Neighbor
<1>. HIDE DEF v3
<1>10. HelloEntryV3(n, hello) \in NeighborEntry
  BY <1>8, <1>9 DEF NeighborEntry
<1>. QED
  BY <1>6, <1>10 DEF n

\* process_hello of version 2: a DR may hear of a Backup, and elects once at most.
LEMMA HelloV2 ==
  ASSUME NEW r \in Routers, NEW i \in Interface, Role(r, i), NEW q \in Routers,
         NEW hello \in [dr : Addr, bdr : Addr, sees : BOOLEAN]
  PROVE  Role(r, ProcessHello(r, i, q, hello)) /\ Yields(r, i, ProcessHello(r, i, q, hello))
<1>. DEFINE new == HelloEntry(r, i, q, hello)
            j == [i EXCEPT !.neighbors[q] = new]
            k == IF new.dr # NoAddr \/ new.bdr # NoAddr THEN BackupSeen(r, j) ELSE j
            p == ProcessHello(r, i, q, hello)
<1>1. new \in NeighborEntry
  BY HelloEntryType
<1>2. p = IF Changes(i.neighbors[q], new) THEN NeighborChange(r, k) ELSE k
  BY DEF ProcessHello
<1>. HIDE DEF new
<1>3. j \in Interface /\ Role(r, j) /\ j.state = i.state
  BY <1>1, EntryChanged
<1>. HIDE DEF j
<1>4. Role(r, k) /\ (i.state = "DR" => k.state = "DR") /\ k \in Interface
  BY <1>3, Events DEF Role
<1>. HIDE DEF k, p
<1>5. Role(r, p)
  BY <1>2, <1>4, Events
<1>6. Yields(r, k, p)
  BY <1>2, <1>4, Events DEF Yields
<1>. QED
  BY <1>4, <1>5, <1>6 DEF Yields, p

\* process_hello of version 3.
LEMMA HelloV3 ==
  ASSUME NEW r \in Routers, NEW i \in Interface, Role(r, i), NEW q \in Routers,
         NEW hello \in [dr : Addr, bdr : Addr, sees : BOOLEAN]
  PROVE  Role(r, ProcessHelloV3(r, i, q, hello)) /\ Yields(r, i, ProcessHelloV3(r, i, q, hello))
<1>. DEFINE new == HelloEntryV3(i.neighbors[q], hello)
            j == [i EXCEPT !.neighbors[q] = new]
            k == ReelectV3(r, j)
            a == AdjOkV3(r, k, q)
            p == ProcessHelloV3(r, i, q, hello)
<1>1. new \in NeighborEntry
  BY HelloEntryType
<1>2. p = IF i.state = "Down" THEN i ELSE a
  BY DEF ProcessHelloV3
<1>. HIDE DEF new
<1>3. j \in Interface /\ Role(r, j) /\ j.state = i.state
  BY <1>1, EntryChanged
<1>. HIDE DEF j
<1>4. Role(r, k) /\ Yields(r, j, k) /\ k \in Interface
  BY <1>3, Reelected DEF Role
<1>. HIDE DEF k
<1>5. Role(r, a) /\ Yields(r, j, a)
  <2>. DEFINE n == [k.neighbors[q] EXCEPT !.fsm.state = "ExStart"]
              b == [k EXCEPT !.neighbors[q] = n]
  <2>1. a = k \/ (a = b /\ k.neighbors[q].fsm.state = "TwoWay")
    <3>1. [k EXCEPT !.neighbors[q].fsm.state = "ExStart"] = b
      BY <1>4 DEF Interface, NeighborEntry, N!Neighbor
    <3>. QED
      BY <3>1 DEF AdjOkV3
  <2>2. k.neighbors[q] \in NeighborEntry
    BY <1>4 DEF Interface
  <2>3. /\ n \in NeighborEntry /\ n.dr = k.neighbors[q].dr
        /\ n.fsm.state = "ExStart"
    BY <2>2 DEF NeighborEntry, N!Neighbor, N!NeighborState
  <2>. HIDE DEF n, a
  <2>4. /\ b \in Interface /\ Role(r, b) /\ b.state = k.state
        /\ b.neighbors = [k.neighbors EXCEPT ![q] = n]
    BY <1>4, <2>3, EntryChanged
  <2>. HIDE DEF b
  <2>5. \A m \in Routers : /\ b.neighbors[m].dr = k.neighbors[m].dr
                           /\ TwoWay(k.neighbors[m]) => TwoWay(b.neighbors[m])
    <3>1. k.neighbors \in [Routers -> NeighborEntry]
      BY <1>4 DEF Interface
    <3>2. TwoWay(n)
      BY <2>3 DEF TwoWay, N!TwoWayOrBetter, N!InitOrBetter, N!NeighborState
    <3>. QED
      BY <2>3, <2>4, <3>1, <3>2
  <2>6. Yields(r, j, b)
    BY <1>4, <2>4, <2>5 DEF Yields
  <2>. QED
    BY <1>4, <2>1, <2>4, <2>6
<1>. HIDE DEF a, p
<1>6. CASE i.state = "Down"
  BY <1>2, <1>6 DEF Yields, p
<1>7. CASE i.state # "Down"
  BY <1>2, <1>3, <1>5, <1>7 DEF Yields, p
<1>. QED
  BY <1>6, <1>7

\* A neighbor whose dead timer expires.
LEMMA Expiry ==
  ASSUME NEW r \in Routers, NEW i \in Interface, Role(r, i), NEW q \in Routers,
         version \in {2, 3}
  PROVE  Role(r, Expired(r, i, q)) /\ Yields(r, i, Expired(r, i, q))
<1>. DEFINE n == i.neighbors[q]
            m == [n EXCEPT !.fsm = N!HandleEvent(@, "InactivityTimer", FALSE)]
            j == [i EXCEPT !.neighbors[q].fsm = N!HandleEvent(@, "InactivityTimer", FALSE)]
            u == [i EXCEPT !.neighbors[q] = Unknown]
<1>1. i.neighbors \in [Routers -> NeighborEntry] /\ n \in NeighborEntry
  BY DEF Interface
<1>2. m \in NeighborEntry
  <2>1. n.fsm \in N!Neighbor
    BY <1>1 DEF NeighborEntry
  <2>2. N!HandleEvent(n.fsm, "InactivityTimer", FALSE) \in N!Neighbor
    BY <2>1, NeighborEvents
  <2>. HIDE DEF n
  <2>. QED
    BY <1>1, <2>2 DEF NeighborEntry
<1>3. j = [i EXCEPT !.neighbors[q] = m]
  BY DEF Interface
<1>4. j \in Interface /\ Role(r, j) /\ j.state = i.state
  <2>. HIDE DEF j, m
  <2>. QED
    BY <1>2, <1>3, EntryChanged
<1>5. Unknown \in NeighborEntry
  BY DEF Unknown, NeighborEntry, Addr, N!NewNeighbor, N!Neighbor, N!NeighborState
<1>6. u \in Interface /\ Role(r, u) /\ u.state = i.state
  BY <1>5, EntryChanged
<1>7. Expired(r, i, q) \in {ReelectV3(r, u), NeighborChange(r, j), j}
  BY DEF Expired
<1>. HIDE DEF j, u
<1>8. Role(r, ReelectV3(r, u)) /\ Yields(r, i, ReelectV3(r, u))
  BY <1>6, Reelected DEF Yields
<1>9. Role(r, NeighborChange(r, j)) /\ Yields(r, i, NeighborChange(r, j))
  BY <1>4, Events DEF Yields
<1>10. Role(r, j) /\ Yields(r, i, j)
  BY <1>4 DEF Yields
<1>. QED
  BY <1>7, <1>8, <1>9, <1>10
-----------------------------------------------------------------------------
\* An interface that is down, or just up, has no role.
LEMMA Fresh ==
  /\ DownInterface \in Interface
  /\ \A r \in Routers : Role(r, DownInterface)
  /\ \A r \in Routers, i \in Interface : Role(r, i) => Role(r, InterfaceUp(r, i))
<1>1. Unknown \in NeighborEntry
  BY DEF Unknown, NeighborEntry, Addr, N!NewNeighbor, N!Neighbor, N!NeighborState
<1>2. DownInterface \in Interface
  BY <1>1 DEF DownInterface, Interface, InterfaceState, Addr
<1>3. \A r \in Routers : Role(r, DownInterface)
  BY <1>2 DEF Role, DownInterface
<1>4. ASSUME NEW r \in Routers, NEW i \in Interface, Role(r, i)
      PROVE  Role(r, InterfaceUp(r, i))
  <2>. DEFINE s == IF Priority[r] = 0 /\ version = 2 THEN "DROther" ELSE "Waiting"
  <2>1. s \in {"DROther", "Waiting"} /\ InterfaceUp(r, i) = [i EXCEPT !.state = s]
    BY DEF InterfaceUp
  <2>. HIDE DEF s
  <2>. QED
    BY <1>4, <2>1 DEF Role, Interface, InterfaceState
<1>. QED
  BY <1>2, <1>3, <1>4

\* Routers start without a role.
LEMMA InitInv == Init => IInv
<1>. SUFFICES ASSUME Init PROVE IInv
  OBVIOUS
<1>1. \A r \in Routers : Role(r, InterfaceUp(r, DownInterface))
  BY Fresh
<1>2. \A r \in Routers : InterfaceUp(r, DownInterface) \in Interface
  BY <1>1 DEF Role
<1>. QED
  BY <1>1, <1>2, BudgetsAssumption DEF Init, IInv

\* A Hello says what its sender has elected.
LEMMA HelloType ==
  ASSUME IInv, NEW r \in Routers, NEW q \in Routers
  PROVE  Hello(q, r) \in [dr : Addr, bdr : Addr, sees : BOOLEAN]
BY DEF Hello, IInv, Interface

\* The interface of a router after a step of its own: the role fits, and that of DR
\* is given up to a DR that outranks it only.
LEMMA OwnStep ==
  ASSUME IInv, NEW r \in Routers, NEW j, Role(r, j), Yields(r, node[r], j),
         node' = [node EXCEPT ![r] = j]
  PROVE  /\ node' \in [Routers -> Interface] /\ \A s \in Routers : Role(s, node'[s])
         /\ \A s \in Routers : Yields(s, node[s], node'[s])
<1>1. j \in Interface
  BY DEF Role
<1>2. \A s \in Routers \ {r} : node'[s] = node[s]
  BY DEF IInv
<1>3. node'[r] = j
  BY DEF IInv
<1>4. \A s \in Routers : Yields(s, node[s], node[s])
  BY DEF Yields
<1>. QED
  BY <1>1, <1>2, <1>3, <1>4 DEF IInv

\* Every action keeps the invariant, and no DR yields but to a DR that outranks it.
LEMMA NextStep ==
  ASSUME IInv, [Next]_vars
  PROVE  IInv' /\ \A s \in Routers : Yields(s, node[s], node'[s])
<1>0. /\ node \in [Routers -> Interface] /\ \A r \in Routers : Role(r, node[r])
      /\ version \in {2, 3} /\ left \subseteq Routers
      /\ budget \in [downs : SUBSET Routers, expiries : Nat]
  BY DEF IInv
<1>1. ASSUME NEW r \in Routers, WaitTimer(r)
      PROVE  IInv' /\ \A s \in Routers : Yields(s, node[s], node'[s])
  <2>1. node' = [node EXCEPT ![r] = Reelect(r, node[r])] /\ UNCHANGED <<version, left, budget>>
    BY <1>1 DEF WaitTimer
  <2>2. Role(r, Reelect(r, node[r])) /\ Yields(r, node[r], Reelect(r, node[r]))
    BY <1>0, Reelected
  <2>. QED
    BY <1>0, <2>1, <2>2, OwnStep DEF IInv
<1>2. ASSUME NEW r \in Routers, ComesUp(r)
      PROVE  IInv' /\ \A s \in Routers : Yields(s, node[s], node'[s])
  <2>1. node' = [node EXCEPT ![r] = InterfaceUp(r, node[r])] /\ UNCHANGED <<version, left, budget>>
    BY <1>2 DEF ComesUp
  <2>2. Role(r, InterfaceUp(r, node[r])) /\ Yields(r, node[r], InterfaceUp(r, node[r]))
    BY <1>0, <1>2, Fresh DEF ComesUp, Up, Yields
  <2>. QED
    BY <1>0, <2>1, <2>2, OwnStep DEF IInv
<1>3. ASSUME NEW r \in Routers, GoesDown(r)
      PROVE  IInv' /\ \A s \in Routers : Yields(s, node[s], node'[s])
  <2>1. node' = [node EXCEPT ![r] = DownInterface] /\ UNCHANGED version
    BY <1>3 DEF GoesDown
  <2>2. Role(r, DownInterface) /\ Yields(r, node[r], DownInterface)
    BY Fresh DEF DownInterface, Yields
  <2>3. left' \subseteq Routers /\ budget' \in [downs : SUBSET Routers, expiries : Nat]
    BY <1>0, <1>3 DEF GoesDown
  <2>. QED
    BY <1>0, <2>1, <2>2, <2>3, OwnStep DEF IInv
<1>4. ASSUME NEW r \in Routers, NEW q \in Routers, HelloArrives(r, q)
      PROVE  IInv' /\ \A s \in Routers : Yields(s, node[s], node'[s])
  <2>1. node' = [node EXCEPT ![r] = AfterHello(r, q)] /\ UNCHANGED <<version, left, budget>>
    BY <1>4 DEF HelloArrives
  <2>2. Role(r, AfterHello(r, q)) /\ Yields(r, node[r], AfterHello(r, q))
    BY <1>0, HelloType, HelloV2, HelloV3 DEF AfterHello
  <2>. QED
    BY <1>0, <2>1, <2>2, OwnStep DEF IInv
<1>5. ASSUME NEW r \in Routers, NEW q \in Routers, DeadNeighborExpires(r, q)
      PROVE  IInv' /\ \A s \in Routers : Yields(s, node[s], node'[s])
  <2>1. /\ node' = [node EXCEPT ![r] = Expired(r, node[r], q)]
        /\ UNCHANGED <<version, left, budget>>
    BY <1>5 DEF DeadNeighborExpires
  <2>2. Role(r, Expired(r, node[r], q)) /\ Yields(r, node[r], Expired(r, node[r], q))
    BY <1>0, Expiry
  <2>. QED
    BY <1>0, <2>1, <2>2, OwnStep DEF IInv
<1>6. ASSUME NEW r \in Routers, NEW q \in Routers, LiveNeighborExpires(r, q)
      PROVE  IInv' /\ \A s \in Routers : Yields(s, node[s], node'[s])
  <2>1. node' = [node EXCEPT ![r] = Expired(r, node[r], q)] /\ UNCHANGED <<version, left>>
    BY <1>6 DEF LiveNeighborExpires
  <2>2. Role(r, Expired(r, node[r], q)) /\ Yields(r, node[r], Expired(r, node[r], q))
    BY <1>0, Expiry
  <2>3. budget' \in [downs : SUBSET Routers, expiries : Nat]
    BY <1>0, <1>6 DEF LiveNeighborExpires
  <2>. QED
    BY <1>0, <2>1, <2>2, <2>3, OwnStep DEF IInv
<1>7. CASE UNCHANGED vars
  BY <1>0, <1>7 DEF vars, IInv, Yields
<1>. QED
  BY <1>1, <1>2, <1>3, <1>4, <1>5, <1>6, <1>7 DEF Next
-----------------------------------------------------------------------------
\* The roles fit in every behaviour.
LEMMA Invariant == Spec => []IInv
BY InitInv, NextStep, PTL DEF Spec

\* Interfaces, neighbors and declarations keep their types, whatever is elected.
THEOREM TypeCorrect == Spec => []TypeOK
<1>1. IInv => TypeOK
  BY DEF IInv, TypeOK
<1>. QED
  BY <1>1, Invariant, PTL

\* Nobody is ever DR and Backup at once, and a router whose interface is in state DR or
\* Backup (proto/interface.rs, instance_v3.rs) declares itself in that role.
THEOREM OneRoleEach ==
  Spec => [](\A r \in Routers :
               /\ node[r].state = "DR" => node[r].dr = r
               /\ node[r].state = "Backup" => node[r].bdr = r
               /\ node[r].dr # NoAddr => node[r].dr # node[r].bdr)
<1>1. IInv => \A r \in Routers :
                /\ node[r].state = "DR" => node[r].dr = r
                /\ node[r].state = "Backup" => node[r].bdr = r
                /\ node[r].dr # NoAddr => node[r].dr # node[r].bdr
  BY DEF IInv, Role
<1>. QED
  BY <1>1, Invariant, PTL

\* The incumbent's preference of run_dr_election, for any number of routers and any
\* priorities: a DR gives its role up only to a router that calls itself DR and
\* outranks it.
THEOREM IncumbentStays == Spec => DrYieldsToDr
<1>1. IInv /\ [Next]_vars =>
        [\A r \in Routers :
           node[r].state = "DR" /\ node'[r].state \in {"Backup", "DROther"} =>
             \E q \in Routers \ {r} :
               TwoWay(node'[r].neighbors[q]) /\ node'[r].neighbors[q].dr = q /\ Outranks(q, r)]_vars
  BY NextStep DEF Yields
<1>. QED
  BY <1>1, Invariant, PTL DEF Spec, DrYieldsToDr

-----------------------------------------------------------------------------
(* Agreement in version 3, which elects with every Hello.                  *)

\* No two routers rank alike.
LEMMA RankStrict ==
  ASSUME NEW a \in Routers, NEW b \in Routers, Outranks(a, b), Outranks(b, a)
  PROVE  a = b
<1>1. a \in Nat /\ b \in Nat /\ Priority[a] \in Nat /\ Priority[b] \in Nat
  BY RoutersAssumption
<1>. QED
  BY <1>1 DEF Outranks

\* The best of a set stays the best of a part that contains it.
LEMMA TopOfPart ==
  ASSUME NEW S \in SUBSET Routers, NEW T \in SUBSET S, Top(S) \in T
  PROVE  Top(T) = Top(S)
<1>1. S # {} /\ T # {} /\ T \in SUBSET Routers
  OBVIOUS
<1>2. \A b \in S : Outranks(Top(S), b)
  BY <1>1, TopIsBest
<1>3. Top(T) \in T /\ \A b \in T : Outranks(Top(T), b)
  BY <1>1, TopIsBest
<1>4. Outranks(Top(S), Top(T)) /\ Outranks(Top(T), Top(S))
  BY <1>2, <1>3
<1>5. Top(S) \in Routers /\ Top(T) \in Routers
  BY <1>3
<1>. QED
  BY <1>4, <1>5, RankStrict

\* The parts of one pass.
Declarers(E, d) == {c \in E : d[c].dr = c}
Rest(E, d) == {c \in E : d[c].dr # c}
Claim(E, d) == {c \in Rest(E, d) : d[c].bdr = c}

\* What one pass elects: a DR among those who call themselves one, if any, and then the
\* Backup; else the Backup is promoted, and the best of the others follows.
LEMMA ElectCases ==
  ASSUME NEW E \in SUBSET Routers, NEW d \in [Routers -> Declaration]
  PROVE  /\ Elect(E, d) \in Declaration
         /\ Elect(E, d).dr \in E \cup {NoAddr} /\ Elect(E, d).bdr \in E \cup {NoAddr}
         /\ ElectBackup(E, d) \in Rest(E, d) \cup {NoAddr}
         /\ Claim(E, d) # {} => ElectBackup(E, d) = Top(Claim(E, d))
         /\ Claim(E, d) = {} => ElectBackup(E, d) = Top(Rest(E, d))
         /\ Declarers(E, d) # {} => /\ Elect(E, d).dr = Top(Declarers(E, d))
                                    /\ Elect(E, d).dr \in Declarers(E, d)
                                    /\ Elect(E, d).bdr = ElectBackup(E, d)
         /\ Declarers(E, d) = {} => /\ Elect(E, d).dr = ElectBackup(E, d)
                                    /\ Elect(E, d).bdr = Top(E \ {ElectBackup(E, d)})
<1>. DEFINE backup == ElectBackup(E, d)
            declarers == Declarers(E, d)
            dr == IF declarers # {} THEN Top(declarers) ELSE backup
            bdr == IF dr = backup THEN Top(E \ {dr}) ELSE backup
<1>1. /\ Claim(E, d) # {} => backup = Top(Claim(E, d))
      /\ Claim(E, d) = {} => backup = Top(Rest(E, d))
  BY DEF ElectBackup, Claim, Rest
<1>2. /\ declarers \in SUBSET E /\ Rest(E, d) \in SUBSET E /\ Claim(E, d) \in SUBSET Rest(E, d)
      /\ declarers \cap Rest(E, d) = {}
  BY DEF Declarers, Rest, Claim
<1>3. backup \in Rest(E, d) \cup {NoAddr}
  <2>. HIDE DEF backup
  <2>. QED
    BY <1>1, <1>2, TopIsBest
<1>4. backup \in Addr
  BY <1>2, <1>3 DEF Addr
<1>5. Elect(E, d) = [dr |-> dr, bdr |-> bdr]
  BY <1>4 DEF Elect, Declarers
<1>6. declarers # {} => Top(declarers) \in declarers
  BY <1>2, TopIsBest
<1>. HIDE DEF backup, declarers
<1>7. declarers # {} => Top(declarers) # backup
  BY <1>2, <1>3, <1>6, RoutersAssumption
<1>8. Top(E \ {dr}) \in E \cup {NoAddr}
  BY TopIsBest
<1>. HIDE DEF dr
<1>9. dr \in E \cup {NoAddr} /\ bdr \in E \cup {NoAddr}
  BY <1>2, <1>3, <1>6, <1>8 DEF dr
<1>10. [dr |-> dr, bdr |-> bdr] \in Declaration
  BY <1>9 DEF Declaration, Addr
<1>. QED
  BY <1>1, <1>3, <1>5, <1>6, <1>7, <1>9, <1>10 DEF dr, backup, declarers

\* A pass looks at the declarations of the candidates only.
LEMMA ElectSame ==
  ASSUME NEW E, NEW c, NEW d, \A x \in E : c[x] = d[x]
  PROVE  Elect(E, c) = Elect(E, d)
<1>1. {x \in E : c[x].dr = x} = {x \in E : d[x].dr = x}
  OBVIOUS
<1>2. {x \in E : c[x].dr # x} = {x \in E : d[x].dr # x}
  OBVIOUS
<1>3. {x \in {y \in E : c[y].dr # y} : c[x].bdr = x} = {x \in {y \in E : d[y].dr # y} : d[x].bdr = x}
  BY <1>2
<1>4. ElectBackup(E, c) = ElectBackup(E, d)
  BY <1>2, <1>3, Zenon DEF ElectBackup
<1>. QED
  BY <1>1, <1>4, Zenon DEF Elect

\* A router that stands by its own election holds what one pass elects.  Were a second
\* pass needed, it would not confirm the role that made it necessary: it takes the
\* first pass for r's declaration, so a role r lost or has not declared is out of reach.
LEMMA Fixpoint ==
  ASSUME NEW E \in SUBSET Routers, NEW D \in [Routers -> Declaration], NEW r \in Routers,
         D[r] # Elect(E, D) =>
           /\ D[r] = Elect(E, [D EXCEPT ![r] = Elect(E, D)])
           /\ D[r].dr = r \/ D[r].bdr = r
           /\ (D[r].dr = r) # (Elect(E, D).dr = r) \/ (D[r].bdr = r) # (Elect(E, D).bdr = r)
  PROVE  D[r] = Elect(E, D)
<1>. DEFINE F == Elect(E, D)
            G == Elect(E, [D EXCEPT ![r] = F])
            D2 == [D EXCEPT ![r] = F]
            A1 == Declarers(E, D)
            A2 == Declarers(E, D2)
            R1 == Rest(E, D)
            R2 == Rest(E, D2)
            C1 == Claim(E, D)
            C2 == Claim(E, D2)
            b1 == ElectBackup(E, D)
            b2 == ElectBackup(E, D2)
<1>0. F \in Declaration
  BY ElectCases
<1>1. D2 \in [Routers -> Declaration] /\ D2[r] = F /\ \A x \in Routers \ {r} : D2[x] = D[x]
  BY <1>0
<1>2. /\ \A c : c \in A1 <=> c \in E /\ D[c].dr = c
      /\ \A c : c \in A2 <=> c \in E /\ D2[c].dr = c
      /\ \A c : c \in R1 <=> c \in E /\ D[c].dr # c
      /\ \A c : c \in R2 <=> c \in E /\ D2[c].dr # c
      /\ \A c : c \in C1 <=> c \in R1 /\ D[c].bdr = c
      /\ \A c : c \in C2 <=> c \in R2 /\ D2[c].bdr = c
  BY DEF Declarers, Rest, Claim
<1>3. /\ F.dr \in E \cup {NoAddr} /\ F.bdr \in E \cup {NoAddr}
      /\ b1 \in R1 \cup {NoAddr}
      /\ C1 # {} => b1 = Top(C1)
      /\ A1 # {} => F.dr = Top(A1) /\ F.dr \in A1 /\ F.bdr = b1
      /\ A1 = {} => F.dr = b1 /\ F.bdr = Top(E \ {b1})
  BY ElectCases
<1>4. /\ G.dr \in E \cup {NoAddr} /\ G.bdr \in E \cup {NoAddr}
      /\ C2 # {} => b2 = Top(C2)
      /\ A2 # {} => G.dr = Top(A2) /\ G.dr \in A2 /\ G.bdr = b2
      /\ A2 = {} => G.dr = b2 /\ G.bdr = Top(E \ {b2})
  <2>. HIDE DEF D2
  <2>1. G = Elect(E, D2)
    BY DEF D2
  <2>. QED
    BY <1>1, <2>1, ElectCases
<1>5. G.bdr = G.dr => G.dr = NoAddr
  BY <1>1, ElectPass
<1>. SUFFICES ASSUME D[r] # F PROVE FALSE
  OBVIOUS
<1>6. /\ D[r] = G /\ r # NoAddr
      /\ D[r].dr = r \/ D[r].bdr = r
      /\ (D[r].dr = r) # (F.dr = r) \/ (D[r].bdr = r) # (F.bdr = r)
  BY RoutersAssumption
<1>. HIDE DEF F, G, D2, A1, A2, R1, R2, C1, C2, b1, b2
<1>7. CASE D[r].dr = r
  <2>1. r \in E /\ r \in A1
    BY <1>2, <1>4, <1>6, <1>7
  <2>2. F.bdr # r
    BY <1>2, <1>3, <1>6, <2>1
  <2>3. D[r].bdr # r
    BY <1>5, <1>6, <1>7
  <2>4. F.dr # r
    BY <1>6, <1>7, <2>2, <2>3
  <2>5. F.dr \in A1
    BY <1>3, <2>1
  <2>6. F.dr \in A2 /\ r \notin A2
    BY <1>1, <1>2, <2>4, <2>5
  <2>. QED
    BY <1>4, <1>6, <1>7, <2>6
<1>8. CASE D[r].dr # r
  <2>1. D[r].bdr = r
    BY <1>6, <1>8
  <2>2. r \in E /\ r \in R1 /\ r \in C1 /\ r \notin A1
    BY <1>2, <1>4, <1>6, <1>8, <2>1
  <2>3. C1 \in SUBSET Routers /\ b1 = Top(C1) /\ b1 \in C1
    <3>1. C1 \in SUBSET Routers
      BY <1>2
    <3>. QED
      BY <1>3, <2>2, <3>1, TopIsBest
  <2>4. CASE F.dr = r
    <3>1. A1 = {}
      BY <1>3, <2>2, <2>4
    <3>2. r \in A2 /\ \A c \in A2 : c = r
      BY <1>1, <1>2, <2>2, <2>4, <3>1
    <3>. QED
      BY <1>4, <1>6, <1>8, <3>2
  <2>5. CASE F.dr # r
    <3>1. F.bdr # r
      BY <1>6, <1>8, <2>1, <2>5
    <3>2. A2 = A1 /\ R2 = R1 /\ C2 = C1 \ {r}
      <4>1. \A c : c \in A2 <=> c \in A1
        BY <1>1, <1>2, <1>8, <2>5
      <4>2. \A c : c \in R2 <=> c \in R1
        BY <1>1, <1>2, <1>8, <2>5
      <4>3. \A c : c \in C2 <=> c \in C1 /\ c # r
        BY <1>1, <1>2, <3>1, <4>2
      <4>. QED
        BY <4>1, <4>2, <4>3
    <3>3. b1 # r
      BY <1>3, <2>5, <3>1
    <3>4. b1 \in C2 /\ C2 \in SUBSET C1
      BY <2>3, <3>2, <3>3
    <3>5. b2 = b1
      BY <1>4, <2>3, <3>4, TopOfPart
    <3>6. G.bdr = F.bdr
      BY <1>3, <1>4, <3>2, <3>5
    <3>. QED
      BY <1>6, <2>1, <3>1, <3>6
  <2>. QED
    BY <2>4, <2>5
<1>. QED
  BY <1>7, <1>8

\* What a router in version 3 knows of its DR: a candidate of its own election, itself
\* only if its state says so.  Version 3 makes no attempt on a neighbor.
Grounded(r, i) ==
  /\ \A q \in Routers : i.neighbors[q].fsm.state # "Attempt"
  /\ i.state \in {"Down", "Waiting"} => i.dr = NoAddr
  /\ i.dr # NoAddr => i.dr \in Eligible(r, i) /\ (i.dr = r => i.state = "DR")

JInv ==
  /\ IInv
  /\ version = 3 => \A r \in Routers : Grounded(r, node[r])

\* The DR that both passes elect is a candidate.
LEMMA ElectedCandidates ==
  ASSUME NEW r \in Routers, NEW i \in Interface
  PROVE  RunDrElection(r, i).dr \in Eligible(r, i) \cup {NoAddr}
<1>. DEFINE E == Eligible(r, i)
            pass == [own \in Declaration |-> Elect(E, Declared(r, i, own))]
            now == [dr |-> i.dr, bdr |-> i.bdr]
            first == pass[now]
            e == RunDrElection(r, i)
<1>1. E \in SUBSET Routers
  BY DEF Eligible
<1>2. now \in Declaration
  BY DEF Interface, Declaration
<1>3. \A own \in Declaration : Declared(r, i, own) \in [Routers -> Declaration]
  BY DEF Declared, Declaration, Interface, NeighborEntry
<1>4. ASSUME NEW own \in Declaration
      PROVE  pass[own] \in Declaration /\ pass[own].dr \in E \cup {NoAddr}
  <2>1. pass[own] = Elect(E, Declared(r, i, own))
    OBVIOUS
  <2>. HIDE DEF E, pass
  <2>. QED
    BY <1>1, <1>3, <2>1, ElectCases
<1>5. e = first \/ e = pass[first]
  BY DEF RunDrElection
<1>. HIDE DEF pass, now, e, E
<1>6. e.dr \in E \cup {NoAddr}
  BY <1>2, <1>4, <1>5
<1>. QED
  BY <1>6 DEF e, E

\* dr_election of version 3 leaves a grounded interface, whatever it was.
LEMMA ElectionGrounds ==
  ASSUME NEW r \in Routers, NEW i \in Interface, Role(r, i),
         \A q \in Routers : i.neighbors[q].fsm.state # "Attempt"
  PROVE  /\ Grounded(r, ReelectV3(r, i)) /\ ReelectV3(r, i) \in Interface
         /\ ReelectV3(r, i).dr = RunDrElection(r, i).dr
         /\ ReelectV3(r, i).bdr = RunDrElection(r, i).bdr
         /\ ReelectV3(r, i).neighbors = i.neighbors
<1>. DEFINE e == RunDrElection(r, i)
            state == CASE e.dr = r -> "DR"
                       [] e.dr # r /\ e.bdr = r -> "Backup"
                       [] OTHER -> "DROther"
            j == [i EXCEPT !.dr = e.dr, !.bdr = e.bdr, !.state = state]
<1>1. ReelectV3(r, i) = j
  BY DEF ReelectV3
<1>2. e \in Declaration /\ e.dr \in Eligible(r, i) \cup {NoAddr}
  BY Election, ElectedCandidates
<1>3. /\ state \in {"DROther", "Backup", "DR"}
      /\ state = "DR" <=> e.dr = r
  OBVIOUS
<1>. HIDE DEF e, state
<1>4. /\ j \in Interface
      /\ j.state = state /\ j.dr = e.dr /\ j.bdr = e.bdr /\ j.neighbors = i.neighbors
  BY <1>2, <1>3 DEF Interface, InterfaceState, Declaration
<1>. HIDE DEF j
<1>5. Eligible(r, j) = Eligible(r, i)
  BY <1>4 DEF Eligible
<1>6. Grounded(r, j)
  BY <1>2, <1>3, <1>4, <1>5 DEF Grounded
<1>. QED
  BY <1>1, <1>4, <1>6 DEF e

\* process_hello of version 3: what it keeps of the sender, and what it elects.
LEMMA HelloOutcome ==
  ASSUME NEW r \in Routers, NEW i \in Interface, Role(r, i), NEW q \in Routers,
         NEW hello \in [dr : Addr, bdr : Addr, sees : BOOLEAN],
         \A x \in Routers : i.neighbors[x].fsm.state # "Attempt", i.state # "Down"
  PROVE  LET j == [i EXCEPT !.neighbors[q] = HelloEntryV3(i.neighbors[q], hello)]
             p == ProcessHelloV3(r, i, q, hello)
         IN  /\ Grounded(r, p)
             /\ p.dr = RunDrElection(r, j).dr /\ p.bdr = RunDrElection(r, j).bdr
             /\ p.neighbors[q].dr = hello.dr /\ p.neighbors[q].bdr = hello.bdr
             /\ p.neighbors[q].fsm.state # "Down"
             /\ hello.sees => TwoWay(j.neighbors[q]) /\ TwoWay(p.neighbors[q])
             /\ j \in Interface /\ j.dr = i.dr /\ j.bdr = i.bdr
             /\ \A x \in Routers \ {q} : j.neighbors[x] = i.neighbors[x]
             /\ j.neighbors[q].dr = hello.dr /\ j.neighbors[q].bdr = hello.bdr
<1>. DEFINE new == HelloEntryV3(i.neighbors[q], hello)
            j == [i EXCEPT !.neighbors[q] = new]
            k == ReelectV3(r, j)
            a == AdjOkV3(r, k, q)
            p == ProcessHelloV3(r, i, q, hello)
<1>1. new \in NeighborEntry
  BY HelloEntryType
<1>2. p = a
  BY DEF ProcessHelloV3
<1>3. /\ new.dr = hello.dr /\ new.bdr = hello.bdr
      /\ new.fsm.state \notin {"Down", "Attempt"}
      /\ hello.sees => new.fsm.state \in N!TwoWayOrBetter
  <2>. DEFINE n == i.neighbors[q]
              s == IF ~hello.sees THEN "Init"
                   ELSE IF n.fsm.state \in {"Down", "Init"} THEN "TwoWay" ELSE n.fsm.state
  <2>1. n.fsm \in N!Neighbor /\ n.fsm.state # "Attempt"
    BY DEF Interface, NeighborEntry
  <2>2. new = [dr |-> hello.dr, bdr |-> hello.bdr, fsm |-> [n.fsm EXCEPT !.state = s]]
    BY DEF HelloEntryV3
  <2>3. [n.fsm EXCEPT !.state = s].state = s
    BY <2>1 DEF N!Neighbor
  <2>4. /\ s \notin {"Down", "Attempt"}
        /\ hello.sees => s \in N!TwoWayOrBetter
    BY <2>1 DEF N!Neighbor, N!TwoWayOrBetter, N!InitOrBetter, N!NeighborState
  <2>. HIDE DEF s, n, new
  <2>. QED
    BY <2>2, <2>3, <2>4
<1>. HIDE DEF new
<1>4. /\ j \in Interface /\ Role(r, j) /\ j.state = i.state
      /\ j.neighbors = [i.neighbors EXCEPT ![q] = new]
  BY <1>1, EntryChanged
<1>5. j.dr = i.dr /\ j.bdr = i.bdr
  BY DEF Interface
<1>. HIDE DEF j
<1>6. /\ j.neighbors[q] = new /\ \A x \in Routers \ {q} : j.neighbors[x] = i.neighbors[x]
      /\ \A x \in Routers : j.neighbors[x].fsm.state # "Attempt"
  BY <1>3, <1>4 DEF Interface
<1>7. /\ Grounded(r, k) /\ k \in Interface /\ Role(r, k)
      /\ k.dr = RunDrElection(r, j).dr /\ k.bdr = RunDrElection(r, j).bdr
      /\ k.neighbors = j.neighbors
  BY <1>4, <1>6, ElectionGrounds, Reelected
<1>. HIDE DEF k
<1>8. /\ Grounded(r, a) /\ a.dr = k.dr /\ a.bdr = k.bdr
      /\ a.neighbors[q].dr = new.dr /\ a.neighbors[q].bdr = new.bdr
      /\ a.neighbors[q].fsm.state # "Down"
      /\ TwoWay(k.neighbors[q]) => TwoWay(a.neighbors[q])
  <2>. DEFINE n == [k.neighbors[q] EXCEPT !.fsm.state = "ExStart"]
              b == [k EXCEPT !.neighbors[q] = n]
  <2>1. a = k \/ (a = b /\ k.neighbors[q].fsm.state = "TwoWay")
    <3>1. [k EXCEPT !.neighbors[q].fsm.state = "ExStart"] = b
      BY <1>7 DEF Interface, NeighborEntry, N!Neighbor
    <3>. QED
      BY <3>1 DEF AdjOkV3
  <2>2. k.neighbors[q] \in NeighborEntry
    BY <1>7 DEF Interface
  <2>3. /\ n \in NeighborEntry /\ n.dr = k.neighbors[q].dr /\ n.bdr = k.neighbors[q].bdr
        /\ n.fsm.state = "ExStart"
    BY <2>2 DEF NeighborEntry, N!Neighbor, N!NeighborState
  <2>4. b.dr = k.dr /\ b.bdr = k.bdr
    BY <1>7 DEF Interface
  <2>. HIDE DEF n, a
  <2>5. /\ b \in Interface /\ Role(r, b) /\ b.state = k.state
        /\ b.neighbors = [k.neighbors EXCEPT ![q] = n]
    BY <1>7, <2>3, EntryChanged
  <2>. HIDE DEF b
  <2>6. TwoWay(n)
    BY <2>3 DEF TwoWay, N!TwoWayOrBetter, N!InitOrBetter, N!NeighborState
  <2>7. /\ b.neighbors[q] = n
        /\ \A m \in Routers : /\ TwoWay(k.neighbors[m]) => TwoWay(b.neighbors[m])
                              /\ b.neighbors[m].fsm.state # "Attempt"
    <3>1. k.neighbors \in [Routers -> NeighborEntry]
      BY <1>7 DEF Interface
    <3>. QED
      BY <1>7, <2>3, <2>5, <2>6, <3>1 DEF Grounded
  <2>8. Eligible(r, k) \subseteq Eligible(r, b)
    BY <2>7 DEF Eligible
  <2>9. Grounded(r, b)
    BY <1>7, <2>4, <2>5, <2>7, <2>8 DEF Grounded
  <2>. QED
    BY <1>3, <1>6, <1>7, <2>1, <2>3, <2>4, <2>6, <2>7, <2>9
<1>. HIDE DEF a, p
<1>9. hello.sees => TwoWay(j.neighbors[q]) /\ TwoWay(p.neighbors[q])
  BY <1>2, <1>3, <1>6, <1>7, <1>8 DEF TwoWay
<1>10. /\ Grounded(r, p)
       /\ p.dr = RunDrElection(r, j).dr /\ p.bdr = RunDrElection(r, j).bdr
       /\ p.neighbors[q].dr = hello.dr /\ p.neighbors[q].bdr = hello.bdr
       /\ p.neighbors[q].fsm.state # "Down"
  BY <1>2, <1>3, <1>7, <1>8
<1>. QED
  BY <1>3, <1>4, <1>5, <1>6, <1>9, <1>10 DEF p, j, new

\* Routers start grounded.
LEMMA JInit == Init => JInv
<1>. SUFFICES ASSUME Init, version = 3, NEW r \in Routers
              PROVE  Grounded(r, node[r])
  BY InitInv DEF JInv
<1>1. node[r] = [DownInterface EXCEPT !.state = "Waiting"]
  BY DEF Init, InterfaceUp
<1>. QED
  BY <1>1 DEF Grounded, DownInterface, Unknown, N!NewNeighbor

\* Every action of version 3 keeps its own router grounded, and concerns no other.
LEMMA JStep ==
  ASSUME JInv, [Next]_vars
  PROVE  JInv'
<1>1. IInv'
  BY NextStep DEF JInv
<1>. SUFFICES ASSUME version' = 3 PROVE \A s \in Routers : Grounded(s, node'[s])
  BY <1>1 DEF JInv, Grounded, Eligible
<1>2. version = 3
  BY DEF Next, vars, WaitTimer, ComesUp, GoesDown, HelloArrives, DeadNeighborExpires,
         LiveNeighborExpires
<1>3. /\ node \in [Routers -> Interface]
      /\ \A r \in Routers : Role(r, node[r]) /\ Grounded(r, node[r])
  BY <1>2 DEF JInv, IInv
<1>4. ASSUME NEW r \in Routers, NEW j, Grounded(r, j), node' = [node EXCEPT ![r] = j]
      PROVE  \A s \in Routers : Grounded(s, node'[s])
  <2>1. node'[r] = j /\ \A s \in Routers \ {r} : node'[s] = node[s]
    BY <1>3, <1>4
  <2>. QED
    BY <1>3, <1>4, <2>1
<1>5. ASSUME NEW r \in Routers, ComesUp(r)
      PROVE  \A s \in Routers : Grounded(s, node'[s])
  <2>. DEFINE j == [node[r] EXCEPT !.state = "Waiting"]
  <2>1. node' = [node EXCEPT ![r] = j] /\ node[r].state = "Down"
    BY <1>2, <1>5 DEF ComesUp, InterfaceUp, Up
  <2>2. j.state = "Waiting" /\ j.dr = node[r].dr /\ j.neighbors = node[r].neighbors
    BY <1>3 DEF Interface
  <2>. HIDE DEF j
  <2>3. Grounded(r, j)
    BY <1>3, <2>1, <2>2 DEF Grounded
  <2>. QED
    BY <1>4, <2>1, <2>3
<1>6. ASSUME NEW r \in Routers, GoesDown(r)
      PROVE  \A s \in Routers : Grounded(s, node'[s])
  <2>1. Grounded(r, DownInterface)
    BY DEF Grounded, DownInterface, Unknown, N!NewNeighbor
  <2>. QED
    BY <1>4, <1>6, <2>1 DEF GoesDown
<1>7. ASSUME NEW r \in Routers, NEW q \in Routers, HelloArrives(r, q)
      PROVE  \A s \in Routers : Grounded(s, node'[s])
  <2>. DEFINE p == ProcessHelloV3(r, node[r], q, Hello(q, r))
  <2>1. node' = [node EXCEPT ![r] = p]
    BY <1>2, <1>7 DEF HelloArrives, AfterHello
  <2>2. Hello(q, r) \in [dr : Addr, bdr : Addr, sees : BOOLEAN]
    BY HelloType DEF JInv
  <2>3. Grounded(r, p)
    <3>1. CASE node[r].state = "Down"
      BY <1>3, <3>1 DEF ProcessHelloV3
    <3>2. CASE node[r].state # "Down"
      <4>1. \A x \in Routers : node[r].neighbors[x].fsm.state # "Attempt"
        BY <1>3 DEF Grounded
      <4>. QED
        BY <1>3, <2>2, <3>2, <4>1, HelloOutcome
    <3>. QED
      BY <3>1, <3>2
  <2>. QED
    BY <1>4, <2>1, <2>3
<1>8. ASSUME NEW r \in Routers, NEW q \in Routers,
             node' = [node EXCEPT ![r] = Expired(r, node[r], q)]
      PROVE  \A s \in Routers : Grounded(s, node'[s])
  <2>. DEFINE u == [node[r] EXCEPT !.neighbors[q] = Unknown]
  <2>1. Unknown \in NeighborEntry /\ Unknown.fsm.state = "Down"
    BY DEF Unknown, NeighborEntry, Addr, N!NewNeighbor, N!Neighbor, N!NeighborState
  <2>2. u \in Interface /\ Role(r, u) /\ u.neighbors = [node[r].neighbors EXCEPT ![q] = Unknown]
    BY <1>3, <2>1, EntryChanged
  <2>3. Expired(r, node[r], q) = ReelectV3(r, u)
    BY <1>2 DEF Expired
  <2>. HIDE DEF u
  <2>4. \A x \in Routers : u.neighbors[x].fsm.state # "Attempt"
    BY <1>3, <2>1, <2>2 DEF Grounded, Interface
  <2>5. Grounded(r, ReelectV3(r, u))
    BY <2>2, <2>4, ElectionGrounds
  <2>. QED
    BY <1>4, <1>8, <2>3, <2>5
<1>9. CASE UNCHANGED vars
  BY <1>3, <1>9 DEF vars
<1>10. ASSUME NEW r \in Routers, WaitTimer(r)
       PROVE  FALSE
  BY <1>2, <1>10 DEF WaitTimer
<1>. QED
  BY <1>5, <1>6, <1>7, <1>8, <1>9, <1>10 DEF Next, DeadNeighborExpires, LiveNeighborExpires

\* When nothing is left to be done, two routers that are up see each other and know
\* what the other declares; a neighbor that is down is known to be.
LEMMA SettledViews ==
  ASSUME JInv, version = 3, Settled, NEW r \in Routers, NEW q \in Routers \ {r}, Up(r)
  PROVE  /\ Up(q) => /\ TwoWay(node[r].neighbors[q])
                     /\ node[r].neighbors[q].dr = node[q].dr
                     /\ node[r].neighbors[q].bdr = node[q].bdr
         /\ ~Up(q) => ~TwoWay(node[r].neighbors[q])
<1>1. ASSUME NEW x \in Routers, NEW y \in Routers \ {x}, Up(x), Up(y)
      PROVE  /\ node[x].neighbors[y].fsm.state \in N!InitOrBetter
             /\ node[x].neighbors[y].dr = node[y].dr /\ node[x].neighbors[y].bdr = node[y].bdr
             /\ Hello(y, x).sees => TwoWay(node[x].neighbors[y])
  <2>1. node[x] \in Interface /\ Role(x, node[x]) /\ Grounded(x, node[x])
    BY DEF JInv, IInv
  <2>2. Hello(y, x) \in [dr : Addr, bdr : Addr, sees : BOOLEAN]
    BY HelloType DEF JInv
  <2>3. ProcessHelloV3(x, node[x], y, Hello(y, x)) = node[x]
    BY <1>1 DEF Settled, AfterHello
  <2>4. /\ \A z \in Routers : node[x].neighbors[z].fsm.state # "Attempt"
        /\ node[x].state # "Down"
    BY <1>1, <2>1 DEF Grounded, Up
  <2>5. /\ node[x].neighbors[y].dr = Hello(y, x).dr /\ node[x].neighbors[y].bdr = Hello(y, x).bdr
        /\ node[x].neighbors[y].fsm.state # "Down"
        /\ Hello(y, x).sees => TwoWay(node[x].neighbors[y])
    <3>. DEFINE i == node[x]
                hello == Hello(y, x)
                j == [i EXCEPT !.neighbors[y] = HelloEntryV3(i.neighbors[y], hello)]
                p == ProcessHelloV3(x, i, y, hello)
    <3>1. p = i
      BY <2>3
    <3>2. /\ i \in Interface /\ Role(x, i) /\ i.state # "Down"
          /\ hello \in [dr : Addr, bdr : Addr, sees : BOOLEAN]
          /\ \A z \in Routers : i.neighbors[z].fsm.state # "Attempt"
      BY <2>1, <2>2, <2>4
    <3>. HIDE DEF i, hello
    <3>3. /\ p.neighbors[y].dr = hello.dr /\ p.neighbors[y].bdr = hello.bdr
          /\ p.neighbors[y].fsm.state # "Down"
          /\ hello.sees => TwoWay(p.neighbors[y])
          /\ j \in Interface
      BY <3>2, HelloOutcome
    <3>. HIDE DEF p
    <3>. QED
      BY <3>1, <3>3 DEF i, hello
  <2>6. node[x].neighbors[y].fsm.state \in N!NeighborState
    BY <2>1 DEF Interface, NeighborEntry, N!Neighbor
  <2>. QED
    BY <2>4, <2>5, <2>6 DEF Hello, N!InitOrBetter
<1>2. CASE Up(q)
  BY <1>1, <1>2 DEF Hello
<1>3. CASE ~Up(q)
  BY <1>3 DEF Settled, TwoWay, N!TwoWayOrBetter, N!InitOrBetter
<1>. QED
  BY <1>2, <1>3

\* The candidates of a network in which everybody sees everybody, and what they declare.
Candidates == {c \in Routers : Priority[c] > 0 /\ Up(c)}
Declarations == [c \in Routers |-> [dr |-> node[c].dr, bdr |-> node[c].bdr]]

\* A settled router that is not alone holds what one pass over all candidates elects:
\* the next Hello would have it elect again, and changes nothing.
LEMMA SettledElection ==
  ASSUME JInv, version = 3, Settled, NEW r \in Routers, NEW q \in Routers \ {r}, Up(r), Up(q)
  PROVE  Declarations[r] = Elect(Candidates, Declarations)
<1>. DEFINE i == node[r]
            hello == Hello(q, r)
            j == [i EXCEPT !.neighbors[q] = HelloEntryV3(i.neighbors[q], hello)]
            E == Candidates
            D == Declarations
            F == Elect(E, D)
            G == Elect(E, [D EXCEPT ![r] = F])
<1>1. i \in Interface /\ Role(r, i) /\ Grounded(r, i)
  BY DEF JInv, IInv
<1>2. /\ \A x \in Routers \ {r} :
           /\ Up(x) => /\ TwoWay(i.neighbors[x])
                       /\ i.neighbors[x].dr = node[x].dr /\ i.neighbors[x].bdr = node[x].bdr
           /\ ~Up(x) => ~TwoWay(i.neighbors[x])
  BY SettledViews
<1>3. hello \in [dr : Addr, bdr : Addr, sees : BOOLEAN] /\ hello.sees
      /\ hello.dr = node[q].dr /\ hello.bdr = node[q].bdr
  <2>1. TwoWay(node[q].neighbors[r])
    BY SettledViews
  <2>. QED
    BY <2>1, HelloType DEF JInv, Hello, TwoWay, N!TwoWayOrBetter
<1>4. ProcessHelloV3(r, i, q, hello) = i
  BY DEF Settled, AfterHello
<1>5. /\ \A x \in Routers : i.neighbors[x].fsm.state # "Attempt"
      /\ i.state # "Down"
  BY <1>1 DEF Grounded, Up
<1>6. /\ i.dr = RunDrElection(r, j).dr /\ i.bdr = RunDrElection(r, j).bdr
      /\ TwoWay(j.neighbors[q])
      /\ j \in Interface /\ j.dr = i.dr /\ j.bdr = i.bdr
      /\ \A x \in Routers \ {q} : j.neighbors[x] = i.neighbors[x]
      /\ j.neighbors[q].dr = hello.dr /\ j.neighbors[q].bdr = hello.bdr
  <2>. DEFINE p == ProcessHelloV3(r, i, q, hello)
  <2>. HIDE DEF i, hello
  <2>1. /\ p.dr = RunDrElection(r, j).dr /\ p.bdr = RunDrElection(r, j).bdr
        /\ TwoWay(j.neighbors[q])
        /\ j \in Interface /\ j.dr = i.dr /\ j.bdr = i.bdr
        /\ \A x \in Routers \ {q} : j.neighbors[x] = i.neighbors[x]
        /\ j.neighbors[q].dr = hello.dr /\ j.neighbors[q].bdr = hello.bdr
    BY <1>1, <1>3, <1>5, HelloOutcome
  <2>2. p = i
    BY <1>4
  <2>. HIDE DEF p, j
  <2>. QED
    BY <2>1, <2>2
<1>. HIDE DEF hello, j
<1>7. E \in SUBSET Routers /\ D \in [Routers -> Declaration]
      /\ \A c \in Routers : D[c] = [dr |-> node[c].dr, bdr |-> node[c].bdr]
  BY DEF Candidates, Declarations, Declaration, JInv, IInv, Interface
<1>8. F \in Declaration
  BY <1>7, ElectCases
<1>9. Eligible(r, j) = E
  <2>1. \A c \in Routers : (c = r \/ TwoWay(j.neighbors[c])) <=> Up(c)
    BY <1>2, <1>6
  <2>. QED
    BY <2>1 DEF Eligible, Candidates
<1>10. ASSUME NEW own \in Declaration
       PROVE  Elect(Eligible(r, j), Declared(r, j, own)) = Elect(E, [D EXCEPT ![r] = own])
  <2>1. ASSUME NEW x \in E
        PROVE  Declared(r, j, own)[x] = [D EXCEPT ![r] = own][x]
    <3>1. x \in Routers /\ Up(x)
      BY DEF Candidates
    <3>2. x # r => j.neighbors[x].dr = node[x].dr /\ j.neighbors[x].bdr = node[x].bdr
      BY <1>2, <1>3, <1>6, <3>1
    <3>. HIDE DEF D
    <3>. QED
      BY <1>7, <3>1, <3>2 DEF Declared
  <2>. HIDE DEF E, D
  <2>. QED
    BY <1>9, <2>1, ElectSame
<1>. DEFINE pass == [own \in Declaration |-> Elect(Eligible(r, j), Declared(r, j, own))]
            now == [dr |-> j.dr, bdr |-> j.bdr]
            first == pass[now]
            rerun == /\ now.dr = r \/ now.bdr = r
                     /\ (now.dr = r) # (first.dr = r) \/ (now.bdr = r) # (first.bdr = r)
<1>11. RunDrElection(r, j) = IF rerun THEN pass[first] ELSE first
  BY DEF RunDrElection
<1>12. now = D[r] /\ now \in Declaration
  <2>. HIDE DEF D
  <2>. QED
    BY <1>6, <1>7
<1>13. \A own \in Declaration : pass[own] = Elect(E, [D EXCEPT ![r] = own])
  BY <1>10
<1>. HIDE DEF pass, now, E, D, F
<1>14. first = F
  <2>1. [D EXCEPT ![r] = D[r]] = D
    BY <1>7
  <2>. QED
    BY <1>12, <1>13, <2>1 DEF F
<1>15. pass[first] = G
  BY <1>8, <1>13, <1>14
<1>. HIDE DEF first, G
<1>16. D[r] = RunDrElection(r, j)
  <2>1. RunDrElection(r, j) \in Declaration
    BY <1>6, Election
  <2>2. D[r] = [dr |-> i.dr, bdr |-> i.bdr]
    BY <1>7
  <2>. HIDE DEF i
  <2>. QED
    BY <1>6, <2>1, <2>2 DEF Declaration
<1>17. D[r] = IF rerun THEN G ELSE F
  BY <1>11, <1>14, <1>15, <1>16
<1>18. D[r] # F => /\ D[r] = G
                   /\ D[r].dr = r \/ D[r].bdr = r
                   /\ (D[r].dr = r) # (F.dr = r) \/ (D[r].bdr = r) # (F.bdr = r)
  BY <1>12, <1>14, <1>17
<1>. USE DEF F, G
<1>. HIDE DEF rerun
<1>19. D[r] = F
  BY <1>7, <1>18, Fixpoint
<1>. QED
  BY <1>19 DEF D, E

\* A settled network of version 3 agrees, and the DR it names is up and knows it.
LEMMA SettledThree ==
  ASSUME JInv, version = 3
  PROVE  SettledAgree /\ SettledHasDr
<1>1. ASSUME Settled, NEW r \in Routers, NEW q \in Routers, Up(r), Up(q)
      PROVE  node[r].dr = node[q].dr /\ node[r].bdr = node[q].bdr
  <2>. SUFFICES ASSUME r # q PROVE node[r].dr = node[q].dr /\ node[r].bdr = node[q].bdr
    OBVIOUS
  <2>1. Declarations[r] = Declarations[q]
    BY <1>1, SettledElection
  <2>. QED
    BY <2>1 DEF Declarations
<1>2. ASSUME Settled, NEW r \in Routers, Up(r), node[r].dr # NoAddr
      PROVE  node[node[r].dr].state = "DR"
  <2>. DEFINE t == node[r].dr
  <2>1. \A s \in Routers : Grounded(s, node[s])
    BY DEF JInv
  <2>2. t \in Routers /\ (t = r \/ TwoWay(node[r].neighbors[t]))
    BY <1>2, <2>1 DEF Grounded, Eligible
  <2>3. Up(t)
    BY <1>2, <2>2, SettledViews
  <2>4. node[t].dr = t
    BY <1>1, <1>2, <2>2, <2>3
  <2>. HIDE DEF t
  <2>5. node[t].state = "DR"
    BY <2>1, <2>2, <2>4, RoutersAssumption DEF Grounded
  <2>. QED
    BY <2>5 DEF t
<1>3. SettledAgree
  BY <1>1 DEF SettledAgree
<1>4. SettledHasDr
  BY <1>2 DEF SettledHasDr
<1>. QED
  BY <1>3, <1>4

\* Grounded in every behaviour.
LEMMA GroundedAlways == Spec => []JInv
BY JInit, JStep, PTL DEF Spec

\* In version 3 (process_hello, expire_neighbors and dr_election of instance_v3.rs), any
\* number of routers of any priorities that has settled names one DR and one Backup,
\* whatever was lost, expired or went down before.
THEOREM VersionThreeAgrees == Spec => [](version = 3 => SettledAgree)
BY SettledThree, GroundedAlways, PTL

\* ... and that DR is up and acts as one.
THEOREM VersionThreeHasDr == Spec => [](version = 3 => SettledHasDr)
BY SettledThree, GroundedAlways, PTL
=============================================================================
