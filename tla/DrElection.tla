----------------------------- MODULE DrElection -----------------------------
(***************************************************************************)
(* Routers on one broadcast network elect a Designated Router and a        *)
(* Backup.  In version 2: the interface state machine and election of      *)
(* src/src/proto/interface.rs, driven by process_hello and                 *)
(* check_neighbor_timers of src/src/instance.rs and by the wait timer of   *)
(* the hello_tick arm in src/src/main.rs.  In version 3: process_hello,    *)
(* expire_neighbors and refresh_interface_state of src/src/instance_v3.rs, *)
(* which elect with the same passes (dr_election) but with every Hello,    *)
(* without a wait timer, and look at the adjacency with the sender only.   *)
(*                                                                         *)
(* A router stands for its address and its router id.  A Hello reaches     *)
(* each receiver by itself, with what its sender declares at that moment;  *)
(* a lost Hello is one that is not delivered.  Neighbors stop at ExStart,  *)
(* which stands for ExStart and better: the exchange belongs to Adjacency, *)
(* and nothing here tells these states apart.                              *)
(***************************************************************************)
EXTENDS Integers, FiniteSets

CONSTANTS
    Routers,   \* router ids, which break ties
    Priority,  \* Priority[r]: router priority, 0 never elected
    NoAddr,    \* Ipv4Addr::UNSPECIFIED
    Versions,  \* which versions of the protocol the network may run, of 2 and 3
    Budgets    \* bounds: which routers may go down, once each, and how often a
               \* dead timer expires although the router is up

ASSUME RoutersAssumption ==
    /\ Routers \subseteq Nat /\ IsFiniteSet(Routers)
    /\ Priority \in [Routers -> Nat]
    /\ NoAddr \notin Routers

ASSUME BudgetsAssumption ==
    /\ Versions \subseteq {2, 3}
    /\ Budgets \subseteq [downs : SUBSET Routers, expiries : Nat]

N == INSTANCE Neighbor WITH Key <- {}, Hdr <- {}, DdSeqNo <- {0}

VARIABLES
    version,  \* the version the routers of the network run
    node,     \* node[r]: the interface of r and its neighbors
    left,     \* history: the routers that have gone down
    budget    \* what may still go wrong

vars == <<version, node, left, budget>>

Addr == Routers \cup {NoAddr}

\* What a Hello declares.
Declaration == [dr : Addr, bdr : Addr]

InterfaceState == {"Down", "Waiting", "DROther", "Backup", "DR"}

\* What is kept of a neighbor: its state and what its last Hello declared.
NeighborEntry == [fsm : N!Neighbor, dr : Addr, bdr : Addr]

Interface ==
    [state : InterfaceState, dr : Addr, bdr : Addr, neighbors : [Routers -> NeighborEntry]]

Unknown == [fsm |-> N!NewNeighbor(0), dr |-> NoAddr, bdr |-> NoAddr]

TwoWay(n) == n.fsm.state \in N!TwoWayOrBetter

-----------------------------------------------------------------------------
(* run_dr_election.                                                        *)

\* Higher priority first, then higher router id.
Outranks(a, b) == Priority[a] > Priority[b] \/ (Priority[a] = Priority[b] /\ a >= b)

\* Mutant: no candidate is a zero address instead of none.
TopOrZero(S) == IF S = {} THEN 0 ELSE CHOOSE a \in S : \A b \in S : Outranks(a, b)

\* The best of S.
Top(S) == IF S = {} THEN NoAddr ELSE CHOOSE a \in S : \A b \in S : Outranks(a, b)

\* Step 2: the Backup, among those who do not call themselves DR.
ElectBackup(eligible, declares) ==
    LET rest  == {c \in eligible : declares[c].dr # c}
        claim == {c \in rest : declares[c].bdr = c}
    IN  IF claim # {} THEN Top(claim) ELSE Top(rest)

\* Mutant: the highest candidate wins, whoever is DR now.
ElectByRank(eligible, declares) ==
    LET dr == Top(eligible)
    IN  [dr |-> dr, bdr |-> Top(eligible \ {dr})]

\* Steps 2 and 3: one pass over the candidates.
Elect(eligible, declares) ==
    LET declarers == {c \in eligible : declares[c].dr = c}
        result[backup \in Addr] ==
            LET dr == IF declarers # {} THEN Top(declarers) ELSE backup
            IN  [dr |-> dr, bdr |-> IF dr = backup THEN Top(eligible \ {dr}) ELSE backup]
    IN  result[ElectBackup(eligible, declares)]

\* The candidates of r, itself included.
Eligible(r, i) ==
    {c \in Routers : Priority[c] > 0 /\ (c = r \/ TwoWay(i.neighbors[c]))}

\* What the candidates declare; r declares own.
Declared(r, i, own) ==
    [c \in Routers |->
        IF c = r THEN own ELSE [dr |-> i.neighbors[c].dr, bdr |-> i.neighbors[c].bdr]]

\* Step 4: a second pass if we had a role and it changed.
RunDrElection(r, i) ==
    LET pass  == [own \in Declaration |-> Elect(Eligible(r, i), Declared(r, i, own))]
        now   == [dr |-> i.dr, bdr |-> i.bdr]
        first == pass[now]
        rerun == /\ now.dr = r \/ now.bdr = r
                 /\ (now.dr = r) # (first.dr = r) \/ (now.bdr = r) # (first.bdr = r)
    IN  IF rerun THEN pass[first] ELSE first

-----------------------------------------------------------------------------
(* handle_event of the interface, on an interface record i of router r.    *)

\* reevaluate_adjacencies: AdjOk? for every neighbor in 2-Way or better.
ReevaluateAdjacencies(r, i) ==
    [i EXCEPT !.neighbors = [q \in Routers |->
        LET n   == i.neighbors[q]
            adj == i.state \in {"DR", "Backup"} \/ {n.dr, n.bdr} \cap {q, r} # {}
        IN  IF TwoWay(n) THEN [n EXCEPT !.fsm = N!HandleEvent(@, "AdjOk", adj)] ELSE n]]

\* Election and what follows from it: adjacencies are looked at again only if
\* our own state changes.
Reelect(r, i) ==
    LET e     == RunDrElection(r, i)
        state == CASE e.dr = r -> "DR"
                   [] e.dr # r /\ e.bdr = r -> "Backup"
                   [] OTHER -> "DROther"
        j     == [i EXCEPT !.dr = e.dr, !.bdr = e.bdr, !.state = state]
    IN  IF state # i.state THEN ReevaluateAdjacencies(r, j) ELSE j

NeighborChange(r, i) ==
    IF i.state \in {"DROther", "Backup", "DR"} THEN Reelect(r, i) ELSE i

BackupSeen(r, i) == IF i.state = "Waiting" THEN Reelect(r, i) ELSE i

\* Version 3 waits whatever the priority.
InterfaceUp(r, i) ==
    [i EXCEPT !.state = IF Priority[r] = 0 /\ version = 2 THEN "DROther" ELSE "Waiting"]

\* InterfaceDown, and a daemon that has just started.
DownInterface ==
    [state |-> "Down", dr |-> NoAddr, bdr |-> NoAddr,
     neighbors |-> [q \in Routers |-> Unknown]]

-----------------------------------------------------------------------------
(* process_hello on a broadcast interface.                                 *)

\* The entry for q after the first half of process_hello.
HelloEntry(r, i, q, hello) ==
    LET n   == i.neighbors[q]
        fsm == N!HandleEvent(n.fsm, "HelloReceived", FALSE)
        adj == i.state \in {"DR", "Backup"} \/ q \in {hello.dr, hello.bdr}
    IN  [dr |-> hello.dr, bdr |-> hello.bdr,
         fsm |-> IF hello.sees /\ fsm.state = "Init"
                 THEN N!HandleEvent(fsm, "TwoWayReceived", adj)
                 ELSE IF ~hello.sees /\ fsm.state \in N!TwoWayOrBetter
                 THEN N!HandleEvent(fsm, "OneWay", FALSE)
                 ELSE fsm]

\* Mutant: only a change of the relationship counts.
ChangesByState(old, new) == TwoWay(old) # TwoWay(new)

\* What makes process_hello raise NeighborChange.
Changes(old, new) ==
    TwoWay(old) # TwoWay(new) \/ old.dr # new.dr \/ old.bdr # new.bdr

ProcessHello(r, i, q, hello) ==
    LET old == i.neighbors[q]
        new == HelloEntry(r, i, q, hello)
        j   == [i EXCEPT !.neighbors[q] = new]
        k   == IF new.dr # NoAddr \/ new.bdr # NoAddr THEN BackupSeen(r, j) ELSE j
    IN  IF Changes(old, new) THEN NeighborChange(r, k) ELSE k

-----------------------------------------------------------------------------
(* process_hello of version 3.                                             *)

\* dr_election: the same passes, and the state that follows.
ReelectV3(r, i) ==
    LET e == RunDrElection(r, i)
    IN  [i EXCEPT !.dr = e.dr, !.bdr = e.bdr,
                  !.state = CASE e.dr = r -> "DR"
                              [] e.dr # r /\ e.bdr = r -> "Backup"
                              [] OTHER -> "DROther"]

\* HelloReceived, 2-WayReceived and 1-WayReceived.
HelloEntryV3(n, hello) ==
    [dr |-> hello.dr, bdr |-> hello.bdr,
     fsm |-> [n.fsm EXCEPT !.state =
                 IF ~hello.sees THEN "Init"
                 ELSE IF @ \in {"Down", "Init"} THEN "TwoWay" ELSE @]]

\* AdjOk for the sender q, after the election.
AdjOkV3(r, i, q) ==
    LET n   == i.neighbors[q]
        adj == i.state \in {"DR", "Backup"} \/ {n.dr, n.bdr} \cap {q, r} # {}
    IN  IF adj /\ n.fsm.state = "TwoWay" THEN [i EXCEPT !.neighbors[q].fsm.state = "ExStart"]
        ELSE i

ProcessHelloV3(r, i, q, hello) ==
    IF i.state = "Down" THEN i
    ELSE AdjOkV3(r, ReelectV3(r, [i EXCEPT !.neighbors[q] = HelloEntryV3(@, hello)]), q)

-----------------------------------------------------------------------------
(* Actions.                                                                *)

\* build_hello, encode_hello: what q would send r now.
Hello(q, r) ==
    [dr |-> node[q].dr, bdr |-> node[q].bdr,
     sees |-> node[q].neighbors[r].fsm.state \in N!InitOrBetter]

Up(r) == node[r].state # "Down"

\* Router r after a Hello of q.
AfterHello(r, q) ==
    IF version = 2 THEN ProcessHello(r, node[r], q, Hello(q, r))
    ELSE ProcessHelloV3(r, node[r], q, Hello(q, r))

HelloArrives(r, q) ==
    /\ r # q
    /\ Up(q)
    /\ node' = [node EXCEPT ![r] = AfterHello(r, q)]
    /\ UNCHANGED <<version, left, budget>>

\* The wait timer set by InterfaceUp expires; version 3 has none.
WaitTimer(r) ==
    /\ version = 2
    /\ node[r].state = "Waiting"
    /\ node' = [node EXCEPT ![r] = Reelect(r, @)]
    /\ UNCHANGED <<version, left, budget>>

\* check_neighbor_timers, expire_neighbors: for neighbor q of r.
Expired(r, i, q) ==
    LET j == [i EXCEPT !.neighbors[q].fsm = N!HandleEvent(@, "InactivityTimer", FALSE)]
    IN  CASE version = 3 -> ReelectV3(r, [i EXCEPT !.neighbors[q] = Unknown])
          [] version = 2 /\ TwoWay(i.neighbors[q]) -> NeighborChange(r, j)
          [] OTHER -> j

\* q has gone quiet.
DeadNeighborExpires(r, q) ==
    /\ r # q
    /\ ~Up(q)
    /\ node[r].neighbors[q].fsm.state # "Down"
    /\ node' = [node EXCEPT ![r] = Expired(r, @, q)]
    /\ UNCHANGED <<version, left, budget>>

\* The Hellos of q got lost for a dead interval.
LiveNeighborExpires(r, q) ==
    /\ r # q
    /\ Up(q)
    /\ budget.expiries > 0
    /\ node[r].neighbors[q].fsm.state # "Down"
    /\ node' = [node EXCEPT ![r] = Expired(r, @, q)]
    /\ budget' = [budget EXCEPT !.expiries = @ - 1]
    /\ UNCHANGED <<version, left>>

ComesUp(r) ==
    /\ ~Up(r)
    /\ node' = [node EXCEPT ![r] = InterfaceUp(r, @)]
    /\ UNCHANGED <<version, left, budget>>

\* The link or the daemon goes down.
GoesDown(r) ==
    /\ Up(r)
    /\ r \in budget.downs
    /\ node' = [node EXCEPT ![r] = DownInterface]
    /\ left' = left \cup {r}
    /\ budget' = [budget EXCEPT !.downs = @ \ {r}]
    /\ UNCHANGED version

\* Set up as build_v2_setup and add_interface_full do.  A router that starts later is one whose
\* Hellos have not been delivered yet.
Init ==
    /\ version \in Versions
    /\ node = [r \in Routers |-> InterfaceUp(r, DownInterface)]
    /\ left = {}
    /\ budget \in Budgets

Next ==
    \E r \in Routers :
        \/ WaitTimer(r) \/ ComesUp(r) \/ GoesDown(r)
        \/ \E q \in Routers :
              HelloArrives(r, q) \/ DeadNeighborExpires(r, q) \/ LiveNeighborExpires(r, q)

Spec == Init /\ [][Next]_vars

-----------------------------------------------------------------------------
(* Properties.                                                             *)

\* Every variable has the type its comment gives it.
TypeOK ==
    /\ version \in {2, 3}
    /\ node \in [Routers -> Interface]
    /\ left \subseteq Routers
    /\ budget \in [downs : SUBSET Routers, expiries : Nat]

\* Nothing is left to be done: no wait timer runs, no Hello brings news and no
\* neighbor is dead.
Settled ==
    \A r \in Routers :
        /\ version = 2 => node[r].state # "Waiting"
        /\ \A q \in Routers \ {r} :
              IF Up(q) THEN AfterHello(r, q) = node[r]
              ELSE node[r].neighbors[q].fsm.state = "Down"

\* No router that went down has come back.
NobodyReturned == \A r \in left : ~Up(r)

\* Once nothing is left to be done all routers of the network name the same
\* DR and the same Backup, whatever order they came up in and whichever
\* Hellos were lost (run_dr_election, dr_election).
SettledAgree ==
    Settled /\ NobodyReturned => \A r, q \in {u \in Routers : Up(u)} :
        node[r].dr = node[q].dr /\ node[r].bdr = node[q].bdr

\* ... and the DR they name is up and knows it: nobody is left Backup "with
\* nobody left acting as DR", as check_neighbor_timers of version 2 says.
\* Version 3 keeps it, version 2 does not.
SettledHasDr ==
    Settled /\ NobodyReturned => \A r \in Routers :
        Up(r) /\ node[r].dr # NoAddr => node[node[r].dr].state = "DR"

\* A DR gives up its role only to a router that calls itself DR and outranks
\* it, never to a better candidate that comes up later (the incumbent's
\* preference the comment of run_dr_election claims).
DrYieldsToDr ==
    [][\A r \in Routers :
         node[r].state = "DR" /\ node'[r].state \in {"Backup", "DROther"} =>
            \E q \in Routers \ {r} :
                TwoWay(node'[r].neighbors[q]) /\ node'[r].neighbors[q].dr = q /\ Outranks(q, r)]_vars
=============================================================================
