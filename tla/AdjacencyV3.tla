---------------------------- MODULE AdjacencyV3 ----------------------------
(***************************************************************************)
(* Two OSPFv3 routers on a point-to-point link, from the first Hello to    *)
(* Full and the Router-LSAs that advertise the link, with lost packets,    *)
(* expired neighbors, restarts and interfaces that go down.                *)
(*                                                                         *)
(* Source: src/src/instance_v3.rs, driven by the select loop of            *)
(* src/src/daemon_v3.rs.  Every arm of that loop holds the instance lock   *)
(* from its first to its last change, so each arm is one action.  Unlike   *)
(* version 2, a handler sends nothing: it leaves what it owes in the       *)
(* neighbor, and the one-second hello tick sends it.                       *)
(*                                                                         *)
(* What is abstracted: of the LSAs a router originates, the Router-LSA     *)
(* stands for them all (the Intra-Area-Prefix-LSA and Link-LSA are         *)
(* originated by the same calls).  LSA `Foreign' is an AS-external LSA of  *)
(* a router beyond this link; newer instances of it arrive on the other    *)
(* interfaces.  Acknowledgments are ignored by process_lsack and left out, *)
(* and so is dd_send_final, which nothing sets.                            *)
(***************************************************************************)
EXTENDS Integers, Sequences, FiniteSets

CONSTANTS
  RouterIds,   \* two router ids, compared to choose the master
  Foreign,     \* the key of the LSA of another router
  StubArea,    \* is the link in a stub or NSSA area?
  MaxHeaders,  \* headers that fit in one DD, 73 in the code
  MaxSeq,      \* bound on LS sequence numbers
  ChanCap,     \* bound: a tick comes while at most so many packets are on their way
  Budgets,     \* bound: how often each kind of outside event may happen
  Lossy        \* the packet types that may be lost

EventKind == {"lose", "expire", "restart", "flap", "learn"}

ASSUME V3Assumption ==
  /\ RouterIds \subseteq Nat
  /\ \E a, b \in RouterIds : a # b /\ RouterIds = {a, b}
  /\ Foreign \notin RouterIds
  /\ StubArea \in BOOLEAN
  /\ MaxHeaders \in Nat \ {0} /\ MaxSeq \in Nat \ {0} /\ ChanCap \in Nat
  /\ Budgets \subseteq [EventKind -> Nat]
  /\ Lossy \subseteq {"hello", "dd", "lsr", "lsu"}

Keys == RouterIds \cup {Foreign}
Peer(r) == CHOOSE p \in RouterIds : p # r

\* NeighborStateV3 in its derived order; a neighbor that is Down is not in the table.
Down     == 0
OneWay   == 1  \* Init in the code
TwoWay   == 2
ExStart  == 3
Exchange == 4
Loading  == 5
Full     == 6

Lsa    == [seq : 0..MaxSeq, link : BOOLEAN]    \* seq 0: not in the database
Header == [key : Keys, seq : 1..MaxSeq]
Entry  == [key : Keys, lsa : Lsa]

\* NeighborV3.  ddFresh and lsrFresh: a DD, an LSR was sent less than a retransmit
\* interval ago.
NeighborV3 ==
  [state : Down..Full, master : BOOLEAN, seq : Nat, tx : SUBSET Header,
   recv : SUBSET Header, resp : BOOLEAN, peerDone : BOOLEAN, ddFresh : BOOLEAN,
   req : SUBSET Keys, lsrPending : BOOLEAN, lsrFresh : BOOLEAN, lsu : Seq(Entry)]

NoNeighbor ==
  [state |-> Down, master |-> FALSE, seq |-> 0, tx |-> {}, recv |-> {}, resp |-> FALSE,
   peerDone |-> FALSE, ddFresh |-> FALSE, req |-> {}, lsrPending |-> FALSE,
   lsrFresh |-> FALSE, lsu |-> <<>>]

\* The packets, with what decides about the adjacency: `sees' is whether the sender
\* lists the receiver among its neighbors.
HelloV3Packet     == [type : {"hello"}, sees : BOOLEAN]
DbDescV3Packet    == [type : {"dd"}, init : BOOLEAN, more : BOOLEAN, master : BOOLEAN,
                      seq : Nat, headers : SUBSET Header]
LsRequestV3Packet == [type : {"lsr"}, keys : SUBSET Keys]
LsUpdateV3Packet  == [type : {"lsu"}, lsas : Seq(Entry)]

Packet == HelloV3Packet \cup DbDescV3Packet \cup LsRequestV3Packet \cup LsUpdateV3Packet

VARIABLES
  mode,     \* mode[r]: "up", "down" (r's interface is Down) or "off" (no daemon)
  nbr,      \* nbr[r]: r's entry for the other router
  db,       \* db[r]: r's link state database
  dirty,    \* dirty[r]: needs_router_lsa_refresh
  chan,     \* chan[r]: packets on their way to r, oldest first
  budget,   \* outside events that may still happen
  offered,  \* history: the headers r set out to describe in its last exchange
  rejoined, \* history: r's entry went back to Init and has not been emptied since
  crossed,  \* history: r took a DD of an earlier exchange as the answer to its first one
  lost      \* history: an update was lost

vars == <<mode, nbr, db, dirty, chan, budget, offered, rejoined, crossed, lost>>

\* Mutant: LSAs that are not in the database are described too.
HeadersMutant(d) == {[key |-> k, seq |-> d[k].seq] : k \in Keys}

\* LsdbV3::headers, and the scopes a DD may describe: the area's LSAs and the AS's.
Headers(d) == {[key |-> k, seq |-> d[k].seq] : k \in {q \in Keys : d[q].seq > 0}}
-----------------------------------------------------------------------------
(* Origination and flooding.                                               *)

\* flood_lsa: only a Full neighbor is sent the LSA, and no Type 5 enters a stub area.
Flood(n, k, lsa) ==
  IF n.state = Full /\ ~(StubArea /\ k = Foreign)
  THEN [n EXCEPT !.lsu = Append(@, [key |-> k, lsa |-> lsa])]
  ELSE n

\* insert_self_lsa: one more than the number in the database.
NextInstance(old, link) == [seq |-> old.seq + 1, link |-> link]

\* originate_router_lsa: the link is advertised exactly while the neighbor is Full.
RouterLsa(n, old) == NextInstance(old, n.state = Full)

\* refresh_router_lsa_if_needed with neighbor n.
RefreshRouterLsa(r, n, mark) ==
  LET lsa == RouterLsa(n, db[r][r])
  IN  IF mark
      THEN /\ lsa.seq <= MaxSeq
           /\ db' = [db EXCEPT ![r][r] = lsa]
           /\ nbr' = [nbr EXCEPT ![r] = Flood(n, r, lsa)]
           /\ dirty' = [dirty EXCEPT ![r] = FALSE]
      ELSE /\ nbr' = [nbr EXCEPT ![r] = n]
           /\ UNCHANGED <<db, dirty>>
-----------------------------------------------------------------------------
(* The hello tick: Hello, Database Description, requests and updates.      *)

\* encode_hello: every neighbor in the table is listed, whatever its state.
Hello(n) == [type |-> "hello", sees |-> n.state # Down]

\* InstanceV3::hello_tick.
HelloPackets(n, due) == IF due THEN <<Hello(n)>> ELSE <<>>

\* emit_pending_dds, its filter.  An entry that has sent no DD is not fresh.
DdDue(n) ==
  \/ n.state = ExStart /\ ~n.ddFresh
  \/ n.state = Exchange /\ (n.resp \/ (n.master /\ n.tx # {}) \/ ~n.ddFresh)

\* The headers build_dd may drain next: the first MaxHeaders of a list in hash order.
Pages(n) ==
  IF n.state = Exchange
  THEN {page \in SUBSET n.tx :
          \/ Cardinality(page) = MaxHeaders
          \/ Cardinality(page) < MaxHeaders /\ page = n.tx}
  ELSE {{}}

Dd(n, page) ==
  [type |-> "dd", init |-> n.state = ExStart,
   more |-> n.state = ExStart \/ n.tx # page,
   master |-> n.state = ExStart \/ n.master,
   seq |-> IF n.seq = 0 THEN 1 ELSE n.seq, headers |-> page]

AfterDd(n, page) ==
  [n EXCEPT !.seq = IF @ = 0 THEN 1 ELSE @, !.tx = @ \ page,
            !.ddFresh = TRUE, !.resp = FALSE]

\* finish_dd: request what the peer described and is missing here or newer there.
FinishDd(n, d) ==
  LET need == {h.key : h \in {g \in n.recv : g.seq > d[g.key].seq}}
  IN  IF need = {} THEN [n EXCEPT !.req = {}, !.state = Full]
      ELSE [n EXCEPT !.req = need, !.state = Loading, !.lsrPending = TRUE]

DdFinished(n) == n.state = Exchange /\ n.peerDone /\ n.tx = {}

\* Mutant: a request is sent once.
LsrDueMutant(n) == n.state >= Exchange /\ n.req # {} /\ n.lsrPending

\* emit_pending_lsdb_packets.
LsrDue(n) == n.state >= Exchange /\ n.req # {} /\ (n.lsrPending \/ ~n.lsrFresh)
LsuDue(n) == n.state >= Exchange /\ n.lsu # <<>>

\* The packets emit_pending_lsdb_packets makes, requests first.
LsdbPackets(n) ==
  (IF LsrDue(n) THEN <<[type |-> "lsr", keys |-> n.req]>> ELSE <<>>)
  \o (IF LsuDue(n) THEN <<[type |-> "lsu", lsas |-> n.lsu]>> ELSE <<>>)

AfterLsdbPackets(n) ==
  [n EXCEPT !.lsrPending = IF LsrDue(n) THEN FALSE ELSE @,
            !.lsrFresh = IF LsrDue(n) THEN TRUE ELSE @,
            !.lsu = IF LsuDue(n) THEN <<>> ELSE @]

\* What is sent to a router that is off is gone.
Send(p, packets) ==
  IF mode[p] = "off" THEN UNCHANGED chan ELSE chan' = [chan EXCEPT ![p] = @ \o packets]

HelloInFlight(r) == \E i \in DOMAIN chan[Peer(r)] : chan[Peer(r)][i].type = "hello"

\* hello_tick.tick(): `hello' when the hello interval has passed, which is longer than
\* any Hello is under way.
HelloTick(r, hello) ==
  /\ mode[r] = "up"
  /\ Len(chan[Peer(r)]) <= ChanCap
  /\ hello => ~HelloInFlight(r)
  /\ \E page \in Pages(nbr[r]) :
       LET n    == nbr[r]
           due  == DdDue(n)
           sent == IF due THEN AfterDd(n, page) ELSE n
           done == due /\ DdFinished(sent)
           m    == IF done THEN FinishDd(sent, db[r]) ELSE sent
       IN  /\ Send(Peer(r),
                   HelloPackets(n, hello)
                   \o (IF due THEN <<Dd(n, page)>> ELSE <<>>)
                   \o LsdbPackets(m))
           /\ nbr' = [nbr EXCEPT ![r] = AfterLsdbPackets(m)]
           /\ dirty' = [dirty EXCEPT ![r] = @ \/ done]
  /\ UNCHANGED <<mode, db, budget, offered, rejoined, crossed, lost>>
-----------------------------------------------------------------------------
(* The packet arm: handle_rx.                                              *)

Receive(r, type) ==
  /\ mode[r] # "off" /\ chan[r] # <<>> /\ Head(chan[r]).type = type
  /\ chan' = [chan EXCEPT ![r] = Tail(@)]
  /\ UNCHANGED <<mode, budget, lost>>

\* process_hello.  A neighbor that no longer lists this router goes back to Init with
\* its lists as they are.
AfterHello(n, sees) ==
  LET met == [n EXCEPT !.state = IF @ = Down THEN OneWay ELSE @]
  IN  IF ~sees THEN [met EXCEPT !.state = OneWay]
      ELSE IF met.state \in {OneWay, TwoWay} THEN [met EXCEPT !.state = ExStart, !.seq = 0]
      ELSE met

RecvHello(r) ==
  /\ Receive(r, "hello")
  /\ LET n == nbr[r]
         m == AfterHello(n, Head(chan[r]).sees)
     IN  IF mode[r] = "up"
         THEN /\ nbr' = [nbr EXCEPT ![r] = m]
              /\ rejoined' = [rejoined EXCEPT ![r] = @ \/ m.state < n.state]
         ELSE UNCHANGED <<nbr, rejoined>>
  /\ UNCHANGED <<db, dirty, offered, crossed>>

FreshInit(dd) == dd.init /\ dd.more /\ dd.master /\ dd.headers = {}

\* Restart-sequence recovery: the own LSA takes the number the peer remembers.
Recovered(r, dd) ==
  {h \in dd.headers : h.key = r /\ db[r][r].seq > 0 /\ h.seq >= db[r][r].seq}

\* Mutant: the headers of the abandoned exchange stay.
ResetMutant(r, n) ==
  [n EXCEPT !.state = ExStart, !.seq = 1, !.master = r > Peer(r), !.tx = {}, !.req = {}]

\* process_dd, a fresh initial DD after ExStart: the exchange starts again.
Reset(r, n) ==
  [n EXCEPT !.state = ExStart, !.seq = 1, !.master = r > Peer(r), !.tx = {}, !.recv = {},
            !.peerDone = FALSE, !.req = {}]

\* process_dd, the negotiation in ExStart.
Negotiate(r, n, dd, headers) ==
  CASE Peer(r) > r /\ FreshInit(dd) ->
         [n EXCEPT !.master = FALSE, !.seq = dd.seq, !.state = Exchange,
                   !.tx = headers, !.resp = TRUE]
    [] Peer(r) < r /\ ~dd.init /\ ~dd.master /\ dd.seq = n.seq ->
         [n EXCEPT !.master = TRUE, !.state = Exchange, !.tx = headers, !.resp = TRUE]
    [] OTHER -> n

\* process_dd, the content of a DD in Exchange.
Describe(n, dd) ==
  [n EXCEPT !.recv = @ \cup dd.headers, !.peerDone = @ \/ ~dd.more,
            !.seq = IF n.master THEN @ + 1 ELSE dd.seq, !.resp = TRUE]

ProcessDd(r, n, dd, headers) ==
  LET opened == IF FreshInit(dd) /\ n.state > ExStart THEN Reset(r, n)
                ELSE IF n.state = TwoWay
                THEN [n EXCEPT !.state = ExStart, !.seq = 1, !.master = r > Peer(r)]
                ELSE n
      agreed == IF opened.state = ExStart THEN Negotiate(r, opened, dd, headers) ELSE opened
  IN  IF agreed.state = Exchange THEN Describe(agreed, dd) ELSE agreed

\* dd is the first page of the peer's present exchange.
FirstPage(r, dd) ==
  LET p == Peer(r)
  IN  /\ nbr[p].state >= Exchange
      /\ dd.headers \cup nbr[p].tx = offered[p] /\ dd.headers \cap nbr[p].tx = {}
      /\ dd.more = (nbr[p].tx # {})

RecvDd(r) ==
  /\ Receive(r, "dd")
  /\ LET dd   == Head(chan[r])
         n    == nbr[r]
         m    == ProcessDd(r, n, dd, Headers(db[r]))
         mine == Recovered(r, dd)
         open == FreshInit(dd) /\ n.state > ExStart
         begin == m.state = Exchange /\ (open \/ n.state < Exchange)
     IN  /\ nbr' = [nbr EXCEPT ![r] = m]
         /\ db' = [db EXCEPT ![r][r].seq =
                     IF mine = {} THEN @ ELSE (CHOOSE h \in mine : TRUE).seq]
         /\ dirty' = [dirty EXCEPT ![r] = @ \/ mine # {}]
         /\ offered' = [offered EXCEPT ![r] =
                          IF begin THEN Headers(db[r]) ELSE @]
         /\ rejoined' = [rejoined EXCEPT ![r] = @ /\ ~open]
         /\ crossed' = [crossed EXCEPT ![r] =
                          IF begin THEN m.master /\ ~FirstPage(r, dd) ELSE @]

\* process_lsr: what is found is queued, whatever the state of the neighbor.
RecvLsr(r) ==
  /\ Receive(r, "lsr")
  /\ LET found == {k \in Head(chan[r]).keys : db[r][k].seq > 0}
     IN  IF nbr[r].state = Down THEN UNCHANGED nbr
         ELSE \E order \in {s \in [1..Cardinality(found) -> found] :
                              \A k \in found : \E i \in DOMAIN s : s[i] = k} :
                nbr' = [nbr EXCEPT ![r].lsu =
                          @ \o [i \in DOMAIN order |->
                                  [key |-> order[i], lsa |-> db[r][order[i]]]]]
  /\ UNCHANGED <<db, dirty, offered, rejoined, crossed>>

\* LsdbV3::insert for each LSA in turn, with no comparison: the last one stays.
Install(d, lsas) ==
  [k \in Keys |->
     LET at == {i \in DOMAIN lsas : lsas[i].key = k}
     IN  IF at = {} THEN d[k] ELSE lsas[CHOOSE i \in at : \A j \in at : j <= i].lsa]

\* process_lsu: Type 5 LSAs are skipped outside normal areas and stay requested.
RecvLsu(r) ==
  /\ Receive(r, "lsu")
  /\ LET lsas == SelectSeq(Head(chan[r]).lsas, LAMBDA e : ~(StubArea /\ e.key = Foreign))
         n    == nbr[r]
         rest == n.req \ {lsas[i].key : i \in DOMAIN lsas}
         full == n.state = Loading /\ rest = {}
     IN  /\ db' = [db EXCEPT ![r] = Install(@, lsas)]
         /\ nbr' = [nbr EXCEPT ![r].req = rest, ![r].state = IF full THEN Full ELSE @]
         /\ dirty' = [dirty EXCEPT ![r] = @ \/ full]
  /\ UNCHANGED <<offered, rejoined, crossed>>
-----------------------------------------------------------------------------
(* Timers, interfaces, restarts and the network.                           *)

Spend(kind) ==
  /\ budget[kind] > 0
  /\ budget' = [budget EXCEPT ![kind] = @ - 1]

\* Seconds go by: the ticks have sent what was owed and the link has delivered all but
\* a Hello.
Settled ==
  \A r \in RouterIds :
    /\ \A i \in DOMAIN chan[r] : chan[r][i].type = "hello"
    /\ mode[r] = "up" => ~(DdDue(nbr[r]) \/ LsrDue(nbr[r]) \/ LsuDue(nbr[r]))
    /\ mode[r] # "off" => ~dirty[r]

\* expire_tick.tick() with every neighbor alive.
RefreshTick(r) ==
  /\ mode[r] # "off" /\ dirty[r]
  /\ RefreshRouterLsa(r, nbr[r], TRUE)
  /\ UNCHANGED <<mode, chan, budget, offered, rejoined, crossed, lost>>

\* expire_tick.tick() when the dead interval has passed without a Hello: because they
\* got lost, or because the peer's interface is down.  expire_neighbors
\* marks nothing.
ExpireTick(r) ==
  /\ mode[r] # "off" /\ nbr[r].state # Down
  /\ chan[r] = <<>> /\ Settled
  /\ IF mode[Peer(r)] = "up" THEN Spend("expire") ELSE UNCHANGED budget
  /\ RefreshRouterLsa(r, NoNeighbor, FALSE)
  /\ rejoined' = [rejoined EXCEPT ![r] = FALSE]
  /\ UNCHANGED <<mode, chan, offered, crossed, lost>>

\* iface_refresh.tick(), every 30 seconds: refresh_interface_state and the origination
\* after it.
IfaceRefresh(r) ==
  /\ Settled
  /\ \/ mode[r] = "up" /\ Spend("flap") /\ mode' = [mode EXCEPT ![r] = "down"]
     \/ mode[r] = "down" /\ mode' = [mode EXCEPT ![r] = "up"] /\ UNCHANGED budget
  /\ RefreshRouterLsa(r, NoNeighbor, TRUE)
  /\ rejoined' = [rejoined EXCEPT ![r] = FALSE]
  /\ UNCHANGED <<chan, offered, crossed, lost>>

\* A newer instance of the LSA of another router arrives on another interface:
\* process_lsu there, with flood_lsa to this link.
Learn(r) ==
  /\ mode[r] # "off" /\ Spend("learn")
  /\ LET seen == {db[q][Foreign].seq : q \in RouterIds}
         lsa  == [seq |-> 1 + CHOOSE s \in seen : \A t \in seen : t <= s, link |-> FALSE]
     IN  /\ lsa.seq <= MaxSeq
         /\ db' = [db EXCEPT ![r][Foreign] = lsa]
         /\ nbr' = [nbr EXCEPT ![r] = Flood(@, Foreign, lsa)]
  /\ UNCHANGED <<mode, dirty, chan, offered, rejoined, crossed, lost>>

\* The daemon has originated its LSAs, and again with the first expire_tick, which comes
\* at once and finds the marks of add_interface_full.
Booted(r) == [k \in Keys |-> [seq |-> IF k = r THEN 2 ELSE 0, link |-> FALSE]]

\* The daemon stops.  It will come back with an empty database.
Stop(r) ==
  /\ Spend("restart")
  /\ mode' = [mode EXCEPT ![r] = "off"]
  /\ nbr' = [nbr EXCEPT ![r] = NoNeighbor]
  /\ db' = [db EXCEPT ![r] = Booted(r)]
  /\ dirty' = [dirty EXCEPT ![r] = FALSE]
  /\ chan' = [chan EXCEPT ![r] = <<>>]
  /\ offered' = [offered EXCEPT ![r] = {}]
  /\ rejoined' = [rejoined EXCEPT ![r] = FALSE]
  /\ crossed' = [crossed EXCEPT ![r] = FALSE]
  /\ UNCHANGED lost

Lose(r) ==
  /\ chan[r] # <<>> /\ Head(chan[r]).type \in Lossy
  /\ Spend("lose")
  /\ chan' = [chan EXCEPT ![r] = Tail(@)]
  /\ lost' = (lost \/ Head(chan[r]).type = "lsu")
  /\ UNCHANGED <<mode, nbr, db, dirty, offered, rejoined, crossed>>

\* A daemon that stopped is up again, which takes it seconds.
Start(r) ==
  /\ mode[r] = "off" /\ Settled
  /\ mode' = [mode EXCEPT ![r] = "up"]
  /\ UNCHANGED <<nbr, db, dirty, chan, budget, offered, rejoined, crossed, lost>>

\* A retransmit interval, five seconds, passes.
RetransmitIntervalPasses ==
  /\ Settled
  /\ \E r \in RouterIds : nbr[r].ddFresh \/ nbr[r].lsrFresh
  /\ nbr' = [r \in RouterIds |-> [nbr[r] EXCEPT !.ddFresh = FALSE, !.lsrFresh = FALSE]]
  /\ UNCHANGED <<mode, db, dirty, chan, budget, offered, rejoined, crossed, lost>>
-----------------------------------------------------------------------------
Init ==
  /\ mode = [r \in RouterIds |-> "up"]
  /\ nbr = [r \in RouterIds |-> NoNeighbor]
  /\ db = [r \in RouterIds |-> Booted(r)]
  /\ dirty = [r \in RouterIds |-> FALSE]
  /\ chan = [r \in RouterIds |-> <<>>]
  /\ budget \in Budgets
  /\ offered = [r \in RouterIds |-> {}]
  /\ rejoined = [r \in RouterIds |-> FALSE]
  /\ crossed = [r \in RouterIds |-> FALSE]
  /\ lost = FALSE

Recv(r) == RecvHello(r) \/ RecvDd(r) \/ RecvLsr(r) \/ RecvLsu(r)

Next ==
  \/ \E r \in RouterIds :
       \/ \E hello \in BOOLEAN : HelloTick(r, hello)
       \/ RecvHello(r)
       \/ RecvDd(r)
       \/ RecvLsr(r)
       \/ RecvLsu(r)
       \/ RefreshTick(r)
       \/ ExpireTick(r)
       \/ IfaceRefresh(r)
       \/ Learn(r)
       \/ Stop(r)
       \/ Start(r)
       \/ Lose(r)
  \/ RetransmitIntervalPasses

Spec == Init /\ [][Next]_vars

ComeBack == \E r \in RouterIds : Start(r) \/ (mode[r] = "down" /\ IfaceRefresh(r))

\* Ticks come every second, and again and again one finds the hello interval passed;
\* packets are read as they arrive; seconds go by, and an interface that is down or a
\* daemon that is off comes back.  Fairness is strong where ChanCap or Settled disables
\* the action at times.
Fairness ==
  /\ \A r \in RouterIds :
       /\ SF_vars(HelloTick(r, TRUE))
       /\ WF_vars(Recv(r))
       /\ WF_vars(RefreshTick(r))
  /\ SF_vars(ComeBack)
  /\ SF_vars(RetransmitIntervalPasses)

FairSpec == Spec /\ Fairness
-----------------------------------------------------------------------------
(* Properties.                                                             *)

\* Every variable has its type.
TypeOK ==
  /\ mode \in [RouterIds -> {"up", "down", "off"}]
  /\ nbr \in [RouterIds -> NeighborV3]
  /\ db \in [RouterIds -> [Keys -> Lsa]]
  /\ dirty \in [RouterIds -> BOOLEAN]
  /\ chan \in [RouterIds -> Seq(Packet)]
  /\ budget \in [EventKind -> Nat]
  /\ offered \in [RouterIds -> SUBSET Header]
  /\ rejoined \in [RouterIds -> BOOLEAN]
  /\ crossed \in [RouterIds -> BOOLEAN]
  /\ lost \in BOOLEAN

\* What router r set out to describe is in the database of its peer, at least as new.
Delivered(r) == \A h \in offered[r] : db[Peer(r)][h.key].seq >= h.seq

\* finish_dd and process_lsu: a neighbor that is Full holds everything the peer set out
\* to describe, over any paging of the headers, loss, expiry and restart.  Two ways
\* around it are excepted: an entry that went through 1-Way keeps the lists of the
\* exchange before, and as every exchange is numbered from 1 a DD of an earlier exchange
\* can pass for the answer to the master's first one.
FullIsSynchronized ==
  \A r \in RouterIds : nbr[r].state = Full /\ ~rejoined[r] /\ ~crossed[r] => Delivered(Peer(r))

\* dd_peer_done: `we can advance to Loading/Full only once both sides have drained', so
\* a neighbor that comes back from 1-Way holds what the peer describes once it is Full.
RejoinedIsSynchronized ==
  \A r \in RouterIds : nbr[r].state = Full /\ ~crossed[r] => Delivered(Peer(r))

\* needs_router_lsa_refresh: `Set when adjacency state changed': the Router-LSA
\* advertises the link exactly while the neighbor is Full, or is about to be renewed.
RouterLsaFollowsNeighbors ==
  \A r \in RouterIds : db[r][r].link = (nbr[r].state = Full) \/ dirty[r]

\* Each advertises the link, and each holds the other's Router-LSA.
RouterLsasAgree ==
  \A r \in RouterIds : db[r][r].link /\ db[Peer(r)][r] = db[r][r]

\* Once the faults end the neighbors are Full at both ends and stay so: Loading ends as
\* requests are repeated until answered (last_lsr_sent), whatever requests and updates
\* get lost.  And unless an update was lost, both databases come to agree on the two
\* Router-LSAs, also after a restart that forgets the sequence numbers.
LinkComesUp ==
  <>[](/\ \A r \in RouterIds : nbr[r].state = Full
       /\ lost \/ RouterLsasAgree)
=============================================================================
