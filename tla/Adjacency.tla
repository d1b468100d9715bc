------------------------------ MODULE Adjacency ------------------------------
(***************************************************************************)
(* Two ospfd routers bring up an OSPFv2 adjacency over a point-to-point    *)
(* link: Hello, master/slave negotiation, paged Database Description       *)
(* exchange, Link State Requests and Updates, with the timers that drive   *)
(* them and with lost packets, expired dead timers and restarts.           *)
(*                                                                         *)
(* Source: src/src/instance.rs (process_packet and its handlers) and the   *)
(* timer arms of run_v2_instance in src/src/main.rs.  One packet is        *)
(* handled under one lock acquisition, so each handler is one action.      *)
(*                                                                         *)
(* What is abstracted: each router has this one link, and elsewhere the    *)
(* rest of its interfaces, from which newer LSAs of other routers arrive.  *)
(* LS acknowledgments are not sent: process_packet ignores them.           *)
(* LS ages stay 0 (an exchange takes seconds; ages belong to LsaRefresh).  *)
(* A set of requests, headers or LSAs stands for the list in a packet.     *)
(***************************************************************************)
EXTENDS Lsdb, Sequences, FiniteSets

CONSTANTS
    RouterIds,         \* the two router ids, compared to choose the master
    OtherKeys,         \* LSAs of routers beyond this link: Types 1 to 3 and AS-external
    ExtKeys,           \* those of them that are AS-external (Type 5)
    StubArea,          \* is the link's area a stub area?
    MaxHeadersPerDd,   \* MAX_HEADERS_PER_DD, 60 in the code
    MaxRequestsPerLsr, \* .take(20)
    DdSeed,            \* the first DD sequence number, 0x8000_0000 in the code
    DdSeqMod,          \* DD sequence numbers wrap here, at 2^32 in the code
    ChanCap,           \* bound: a timer sends while fewer packets of the kind are in flight
    Budgets            \* bound: how often each kind of outside event may happen

\* Outside events: faults of the network, dead timers, restarts, news from
\* other interfaces.
EventKind == {"lose", "duplicate", "expire", "restart", "learn"}

ASSUME RouterAssumption ==
    /\ RouterIds \subseteq Nat
    /\ \E a, b \in RouterIds : a # b /\ RouterIds = {a, b}
    /\ RouterIds \cap OtherKeys = {}

ASSUME BoundAssumption ==
    /\ ExtKeys \subseteq OtherKeys
    /\ StubArea \in BOOLEAN
    /\ MaxHeadersPerDd \in Nat \ {0}
    /\ MaxRequestsPerLsr \in Nat \ {0}
    /\ DdSeqMod \in Nat \ {0}
    /\ DdSeed \in 1 .. DdSeqMod - 1
    /\ ChanCap \in [{"hello", "dd", "lsr", "backlog"} -> Nat \ {0}]
    /\ Budgets \subseteq [EventKind -> Nat]

ASSUME BodyAssumption == {"stub", "link"} \subseteq Bodies

\* The Router-LSA of router r has key r.
Keys == RouterIds \cup OtherKeys

DdSeqNumber == 0 .. DdSeqMod - 1

Header == [key : Keys, lsa : Lsa]

Hello  == [type : {"hello"}, sees : BOOLEAN]
DbDesc == [type : {"dd"}, init : BOOLEAN, more : BOOLEAN, master : BOOLEAN,
           seq : DdSeqNumber, headers : SUBSET Header]
LsReq  == [type : {"lsr"}, keys : SUBSET Keys]
LsUpd  == [type : {"lsu"}, lsas : SUBSET Header]
Packet == Hello \cup DbDesc \cup LsReq \cup LsUpd

INSTANCE Neighbor WITH Key <- Keys, Hdr <- Header, DdSeqNo <- DdSeqNumber

VARIABLES
    nbr,     \* nbr[r]: r's neighbor structure for the other router
    db,      \* db[r]: r's link state database, area and AS-external LSAs
    spf,     \* spf[r]: has r an SPF run scheduled?
    chan,    \* chan[r]: packets on their way to r, oldest first
    budget,  \* outside events that may still happen
    heard,   \* history: headers r was told of in the current exchange
    offered  \* history: headers r set out to describe in its current exchange

vars == <<nbr, db, spf, chan, budget, heard, offered>>

Peer(r) == CHOOSE p \in RouterIds : p # r

-----------------------------------------------------------------------------
(* Building packets.                                                       *)

\* Lsdb::all_headers of the area and of the AS-external database.
AllHeaders(d) == {[key |-> k, lsa |-> d[k]] : k \in {q \in Keys : d[q] # NoLsa}}

\* The initial DD: I, M and MS set, no headers.
InitialDd(n) ==
    [type |-> "dd", init |-> TRUE, more |-> TRUE, master |-> TRUE,
     seq |-> n.dd_seq_number, headers |-> {}]

\* The pages build_dd may drain next from the summary list: it takes the
\* first MaxHeadersPerDd entries of a list in hash-map order.
Pages(n) ==
    {page \in SUBSET n.db_summary_list :
        \/ Cardinality(page) = MaxHeadersPerDd
        \/ Cardinality(page) < MaxHeadersPerDd /\ page = n.db_summary_list}

\* Mutant: the sequence number does not wrap.
AfterDdNoWrap(n, page) ==
    LET rest == n.db_summary_list \ page
    IN  [n EXCEPT !.dd_seq_number = IF n.is_master THEN @ + 1 ELSE @,
                  !.db_summary_list = rest,
                  !.sent_m_clear = IF rest = {} THEN TRUE ELSE @]

\* build_dd(initial = false): the neighbor after sending the page ...
AfterDd(n, page) ==
    LET rest == n.db_summary_list \ page
    IN  [n EXCEPT !.dd_seq_number = IF n.is_master THEN (@ + 1) % DdSeqMod ELSE @,
                  !.db_summary_list = rest,
                  !.sent_m_clear = IF rest = {} THEN TRUE ELSE @]

\* ... and the packet, whose flags and number are those of that neighbor.
PageDd(sent, page) ==
    [type |-> "dd", init |-> FALSE, more |-> sent.db_summary_list # {},
     master |-> sent.is_master, seq |-> sent.dd_seq_number, headers |-> page]

\* The first MaxRequestsPerLsr entries of the request list.
Batches(n) ==
    {ks \in SUBSET n.ls_request_list :
        \/ Cardinality(ks) = MaxRequestsPerLsr
        \/ Cardinality(ks) < MaxRequestsPerLsr /\ ks = n.ls_request_list}

Lsr(ks)   == [type |-> "lsr", keys |-> ks]
Lsu(lsas) == [type |-> "lsu", lsas |-> {[h EXCEPT !.lsa = Encode(h.lsa)] : h \in lsas}]

\* originate_router_lsas on this link: the point-to-point link is in the
\* Router-LSA exactly while the neighbor is Full.
RouterLsaBody(n) == IF n.state = "Full" THEN "link" ELSE "stub"

\* flood_lsas_to_others for this link: only a neighbor in Exchange or better
\* makes the interface eligible, and a stub area gets no Type 5.
Flood(n, lsas) ==
    LET out == IF StubArea THEN {h \in lsas : h.key \notin ExtKeys} ELSE lsas
    IN  IF n.state \in ExchangeOrBetter /\ out # {} THEN <<Lsu(out)>> ELSE <<>>

-----------------------------------------------------------------------------
(* Channels, and the history of an exchange.                               *)

\* r sends packets to its peer, its own input left alone.
Send(r, packets) == chan' = [chan EXCEPT ![Peer(r)] = @ \o packets]

\* r takes the oldest packet addressed to it and answers with packets.
Answer(r, packets) ==
    chan' = [chan EXCEPT ![r] = Tail(@), ![Peer(r)] = @ \o packets]

\* Outside an exchange nothing has been heard or offered.
Remember(r, n, hs, os) ==
    /\ heard'   = [heard EXCEPT ![r] = IF n.state \in ExchangeOrBetter THEN hs ELSE {}]
    /\ offered' = [offered EXCEPT ![r] = IF n.state \in ExchangeOrBetter THEN os ELSE {}]

Update(r, n) == nbr' = [nbr EXCEPT ![r] = n]

\* Neighbor n of router r after process_hello with a Hello of the peer.
AfterHello(n, sees) ==
    LET n1 == HandleEvent(n, "HelloReceived", FALSE)
    IN  IF sees /\ n1.state = "Init" THEN HandleEvent(n1, "TwoWayReceived", TRUE)
        ELSE IF ~sees /\ n1.state \in TwoWayOrBetter THEN HandleEvent(n1, "OneWay", FALSE)
        ELSE n1

-----------------------------------------------------------------------------
(* process_dd.                                                             *)

\* Stale-self-LSA recovery: the peer describes our own LSA with a higher
\* sequence number than ours.
BumpSelf(d, r, headers) ==
    IF \E h \in headers : h.key = r
    THEN BumpSeq(d, r, (CHOOSE h \in headers : h.key = r).lsa.seq)
    ELSE d

\* Mutant: forgets the LSAs the peer has a newer instance of.
NeededMissingOnly(d, headers) == {h.key : h \in {g \in headers : d[g.key] = NoLsa}}

\* The described LSAs that we lack or hold an older instance of.
Needed(d, headers) ==
    {h.key : h \in {g \in headers : d[g.key] = NoLsa \/ Newer(g.lsa, d[g.key])}}

Request(n, ks) == [n EXCEPT !.ls_request_list = @ \cup ks]

BeginExchange(n, master, seq, d) ==
    HandleEvent([n EXCEPT !.is_master = master,
                          !.dd_seq_number = seq,
                          !.sent_m_clear = FALSE,
                          !.db_summary_list = AllHeaders(d)],
                "NegotiationDone", TRUE)

\* Mutant: the router ids are not compared when the peer claims mastery.
NegotiateAnyMaster(r, n, m, d) ==
    CASE m.init /\ m.more /\ m.master /\ m.headers = {} ->
            BeginExchange(n, FALSE, m.seq, d)
      [] ~m.init /\ ~m.master /\ m.seq = n.dd_seq_number ->
            BeginExchange(n, TRUE, n.dd_seq_number, d)
      [] OTHER -> n

\* The ExStart arm: the router with the lower id accepts the peer's initial
\* DD as slave, the one with the higher id becomes master when the slave
\* echoes its sequence number.
Negotiate(r, n, m, d) ==
    CASE m.init /\ m.more /\ m.master /\ m.headers = {} /\ Peer(r) > r ->
            BeginExchange(n, FALSE, m.seq, d)
      [] ~m.init /\ ~m.master /\ Peer(r) < r /\ m.seq = n.dd_seq_number ->
            BeginExchange(n, TRUE, n.dd_seq_number, d)
      [] OTHER -> n

\* Mutant: the peer may still have headers to describe.
FinishWithoutPeer(n, m) ==
    IF n.sent_m_clear THEN HandleEvent(n, "ExchangeDone", TRUE) ELSE n

\* Mutant: we may still have headers to describe.
FinishWithoutUs(n, m) ==
    IF ~m.more THEN HandleEvent(n, "ExchangeDone", TRUE) ELSE n

\* The Exchange arm: both sides must have sent a DD with M clear.
FinishExchange(n, m) ==
    IF ~m.more /\ n.sent_m_clear THEN HandleEvent(n, "ExchangeDone", TRUE) ELSE n

\* Phase 1 of process_dd: every state but ExStart and Exchange ignores the DD.
AfterDbDesc(r, n, m, d) ==
    LET n1 == CASE n.state = "ExStart" ->
                    LET x == Negotiate(r, n, m, d)
                    IN  IF x.state = "Exchange" THEN Request(x, Needed(d, m.headers)) ELSE x
                [] n.state = "Exchange" ->
                    FinishExchange(Request(n, Needed(d, m.headers)), m)
                [] OTHER -> n
    IN  [n1 EXCEPT !.dd_seq_number =
                        IF n1.state = "Exchange" /\ ~n1.is_master THEN m.seq ELSE @]

ProcessDbDesc(r, m) ==
    LET d == BumpSelf(db[r], r, m.headers)
        n == AfterDbDesc(r, nbr[r], m, d)
    IN  \E page \in IF n.state = "Exchange" THEN Pages(n) ELSE {{}},
           ks \in IF n.state \in ExchangeOrBetter THEN Batches(n) ELSE {{}} :
        LET sent == IF n.state = "Exchange" THEN AfterDd(n, page) ELSE n
            dds  == CASE n.state = "ExStart"  -> <<InitialDd(n)>>
                      [] n.state = "Exchange" -> <<PageDd(sent, page)>>
                      [] OTHER -> <<>>
            lsrs == IF ks = {} THEN <<>> ELSE <<Lsr(ks)>>
        IN  /\ Update(r, sent)
            /\ db' = [db EXCEPT ![r] = d]
            /\ spf' = [spf EXCEPT ![r] = @ \/ d # db[r]]
            /\ Answer(r, dds \o lsrs)
            /\ Remember(r, n,
                   IF nbr[r].state \in {"ExStart", "Exchange"}
                   THEN heard[r] \cup m.headers ELSE heard[r],
                   IF nbr[r].state = "ExStart" THEN AllHeaders(d) ELSE offered[r])

-----------------------------------------------------------------------------
(* process_hello, process_lsr, process_lsu.                                *)

ProcessHello(r, m) ==
    LET n == AfterHello(nbr[r], m.sees)
    IN  /\ Update(r, n)
        /\ Remember(r, n, heard[r], offered[r])
        /\ Answer(r, <<>>)
        /\ UNCHANGED <<db, spf>>

\* One unknown key refuses the whole request and restarts our side of the
\* exchange; the neighbor's state is not looked at.
ProcessLsReq(r, m) ==
    LET bad == \E k \in m.keys : db[r][k] = NoLsa
        n   == IF bad THEN HandleEvent(nbr[r], "BadLsReq", FALSE) ELSE nbr[r]
    IN  /\ Update(r, n)
        /\ Remember(r, n, heard[r], offered[r])
        /\ Answer(r, IF bad \/ m.keys = {} THEN <<>>
                     ELSE <<Lsu({[key |-> k, lsa |-> db[r][k]] : k \in m.keys})>>)
        /\ UNCHANGED <<db, spf>>

\* Mutant: the first LSA that arrives ends Loading.
AfterFirstLsa(n, ks) ==
    LET n1 == [n EXCEPT !.ls_request_list = @ \ ks]
    IN  IF ks # {} THEN HandleEvent(n1, "LoadingDone", TRUE) ELSE n1

\* The neighbor after the LSAs with keys ks were installed or found to be
\* the instances we have.
AfterLsas(n, ks) ==
    LET n1 == [n EXCEPT !.ls_request_list = @ \ ks]
    IN  IF ks # {} /\ n1.ls_request_list = {} THEN HandleEvent(n1, "LoadingDone", TRUE)
        ELSE n1

\* The database after installing the accepted LSAs of a packet.
InstallAll(d, lsas) ==
    [k \in Keys |->
        IF \E h \in lsas : h.key = k
        THEN Install(d, k, (CHOOSE h \in lsas : h.key = k).lsa)[k]
        ELSE d[k]]

\* neighbor_reached_full
ReachedFull(before, after) == before.state # "Full" /\ after.state = "Full"

\* Mutant: only Router-LSAs count.
SchedulesSpfRouterOnly(lsas) == \E h \in lsas : h.key \in RouterIds

\* Mutant: Router-LSAs do not count.
SchedulesSpfNoRouter(lsas) == \E h \in lsas : h.key \notin RouterIds \cup ExtKeys

\* Changed Router-, Network- and Summary-Network-LSAs schedule an SPF run,
\* changed AS-external LSAs do not.
SchedulesSpf(lsas) == \E h \in lsas : h.key \notin ExtKeys

\* The sender's older instances are answered with ours, looked up in the
\* area database only; one packet carries what the code sends in one each.
ProcessLsUpd(r, m) ==
    LET accepted == {h \in m.lsas : ~(StubArea /\ h.key \in ExtKeys)}
        with(results) ==
            {h \in accepted : InstallResult(db[r], h.key, h.lsa) \in results}
        fresh == with({"New", "Updated"})
        older == with({"Older"})
        n     == AfterLsas(nbr[r], {h.key : h \in accepted \ older})
        full  == ReachedFull(nbr[r], n)
        d1    == InstallAll(db[r], accepted)
        own   == Originated(d1, r, RouterLsaBody(n))
        back  == {[key |-> h.key, lsa |-> db[r][h.key]] :
                    h \in {g \in older : g.key \notin ExtKeys}}
    IN  /\ Update(r, n)
        /\ db' = [db EXCEPT ![r] = IF full THEN Originate(d1, r, RouterLsaBody(n)) ELSE d1]
        /\ spf' = [spf EXCEPT ![r] = @ \/ full \/ SchedulesSpf(fresh)]
        /\ Answer(r, (IF back = {} THEN <<>> ELSE <<Lsu(back)>>)
                     \o (IF full THEN Flood(n, {[key |-> r, lsa |-> own]}) ELSE <<>>))
        /\ Remember(r, n, heard[r], offered[r])

\* process_packet
Receive(r) ==
    /\ chan[r] # <<>>
    /\ LET m == Head(chan[r])
       IN  \/ m.type = "hello" /\ ProcessHello(r, m)
           \/ m.type = "dd"    /\ ProcessDbDesc(r, m)
           \/ m.type = "lsr"   /\ ProcessLsReq(r, m)
           \/ m.type = "lsu"   /\ ProcessLsUpd(r, m)
    /\ UNCHANGED budget

-----------------------------------------------------------------------------
(* The timer arms.  The hello_tick arm sends what is due of Hellos, DDs    *)
(* and LSRs; each has a clock of its own, so each is an action.            *)

\* Bound: how many packets of some types are on their way to the routers rs.
InFlight(types, rs) ==
    Cardinality(UNION {{<<r, i>> : i \in {j \in DOMAIN chan[r] : chan[r][j].type \in types}} : r \in rs})

\* Mutant: lists the neighbor only once it is bidirectional.
ListsTwoWayOnly(n) == n.state \in TwoWayOrBetter

\* build_hello lists the neighbors in Init or better.
Lists(n) == n.state \in InitOrBetter

SendHello(r) ==
    /\ InFlight({"hello"}, {Peer(r)}) < ChanCap.hello
    /\ Send(r, <<[type |-> "hello", sees |-> Lists(nbr[r])]>>)
    /\ UNCHANGED <<nbr, db, spf, budget, heard, offered>>

\* emit_pending_dds: only ExStart retransmits.
EmitPendingDds(r) ==
    LET n == [nbr[r] EXCEPT !.dd_seq_number = IF @ = 0 THEN DdSeed ELSE @]
    IN  /\ InFlight({"dd"}, RouterIds) < ChanCap.dd
        /\ InFlight({"lsr", "lsu"}, RouterIds) < ChanCap.backlog
        /\ nbr[r].state = "ExStart"
        /\ Update(r, n)
        /\ Send(r, <<InitialDd(n)>>)
        /\ UNCHANGED <<db, spf, budget, heard, offered>>

\* Mutant: a neighbor in Loading is forgotten.
AwaitsLsasInExchange(n) == n.state = "Exchange" /\ n.ls_request_list # {}

AwaitsLsas(n) == n.state \in {"Exchange", "Loading"} /\ n.ls_request_list # {}

\* emit_pending_lsrs: repeat the request for the head of the list.
EmitPendingLsrs(r) ==
    /\ InFlight({"lsr", "lsu"}, RouterIds) < ChanCap.lsr
    /\ AwaitsLsas(nbr[r])
    /\ \E ks \in Batches(nbr[r]) : Send(r, <<Lsr(ks)>>)
    /\ UNCHANGED <<nbr, db, spf, budget, heard, offered>>

\* run_spf as far as it concerns this module: the schedule is cleared.
RunSpf(r) ==
    /\ spf[r]
    /\ spf' = [spf EXCEPT ![r] = FALSE]
    /\ UNCHANGED <<nbr, db, chan, budget, heard, offered>>

-----------------------------------------------------------------------------
(* Outside events, each kind as often as one of Budgets allows.            *)

Spend(kind) ==
    /\ budget[kind] > 0
    /\ budget' = [budget EXCEPT ![kind] = @ - 1]

\* The network drops the oldest packet addressed to r.
Lose(r) ==
    /\ Spend("lose")
    /\ chan[r] # <<>>
    /\ chan' = [chan EXCEPT ![r] = Tail(@)]
    /\ UNCHANGED <<nbr, db, spf, heard, offered>>

\* The network delivers the oldest packet addressed to r twice.
Duplicate(r) ==
    /\ Spend("duplicate")
    /\ chan[r] # <<>>
    /\ chan' = [chan EXCEPT ![r] = <<Head(@)>> \o @]
    /\ UNCHANGED <<nbr, db, spf, heard, offered>>

\* No Hello for a dead interval: check_neighbor_timers and the rest of the
\* neighbor_check arm, which re-originates the Router-LSA and does not flood.
NeighborExpires(r) ==
    LET n == HandleEvent(nbr[r], "InactivityTimer", FALSE)
    IN  /\ Spend("expire")
        /\ nbr[r].state # "Down"
        /\ Update(r, n)
        /\ db' = [db EXCEPT ![r] = Originate(@, r, RouterLsaBody(n))]
        /\ spf' = [spf EXCEPT ![r] = TRUE]
        /\ Remember(r, n, heard[r], offered[r])
        /\ UNCHANGED chan

\* The daemon's state at startup: no neighbor, and the database holds the
\* Router-LSA it originates before it reads the first packet.
FreshDb(r) ==
    Originate([k \in Keys |-> NoLsa], r, RouterLsaBody(NewNeighbor(0)))

\* The process of r dies and starts again; what its socket had queued may
\* be gone.
Restart(r) ==
    /\ Spend("restart")
    /\ Update(r, NewNeighbor(0))
    /\ db' = [db EXCEPT ![r] = FreshDb(r)]
    /\ spf' = [spf EXCEPT ![r] = TRUE]
    /\ \E queued \in {chan[r], <<>>} : chan' = [chan EXCEPT ![r] = queued]
    /\ heard' = [heard EXCEPT ![r] = {}]
    /\ offered' = [offered EXCEPT ![r] = {}]

\* The instances of other routers' LSAs that reach r from elsewhere.
Foreign ==
    {Encode([seq |-> s, ck |-> 0, age |-> 0, body |-> "stub"]) :
        s \in InitialSequenceNumber .. InitialSequenceNumber + 1}

\* process_lsu for a packet from another interface, seen from this link.
Learn(r, k, lsa) ==
    /\ Spend("learn")
    /\ Changed(InstallResult(db[r], k, lsa))
    /\ db' = [db EXCEPT ![r] = Install(@, k, lsa)]
    /\ spf' = [spf EXCEPT ![r] = @ \/ SchedulesSpf({[key |-> k, lsa |-> lsa]})]
    /\ Send(r, Flood(nbr[r], {[key |-> k, lsa |-> lsa]}))
    /\ UNCHANGED <<nbr, heard, offered>>

-----------------------------------------------------------------------------
Init ==
    /\ nbr = [r \in RouterIds |-> NewNeighbor(0)]
    /\ \E known \in [RouterIds -> [OtherKeys -> Foreign \cup {NoLsa}]] :
          db = [r \in RouterIds |-> [k \in Keys |->
                    IF k \in OtherKeys THEN known[r][k] ELSE FreshDb(r)[k]]]
    /\ spf = [r \in RouterIds |-> TRUE]
    /\ chan = [r \in RouterIds |-> <<>>]
    /\ budget \in Budgets
    /\ heard = [r \in RouterIds |-> {}]
    /\ offered = [r \in RouterIds |-> {}]

Timers(r) == SendHello(r) \/ EmitPendingDds(r) \/ EmitPendingLsrs(r) \/ RunSpf(r)

Outside(r) ==
    \/ Lose(r) \/ Duplicate(r)
    \/ NeighborExpires(r)
    \/ Restart(r)
    \/ \E k \in OtherKeys, lsa \in Foreign : Learn(r, k, lsa)

Next == \E r \in RouterIds : Receive(r) \/ Timers(r) \/ Outside(r)

Spec == Init /\ [][Next]_vars

\* The event loop keeps reading packets and its intervals keep ticking;
\* nothing is assumed of the outside events.
Fairness ==
    \A r \in RouterIds :
        /\ WF_vars(Receive(r))
        /\ WF_vars(SendHello(r))
        /\ WF_vars(EmitPendingDds(r))
        /\ WF_vars(EmitPendingLsrs(r))
        /\ WF_vars(RunSpf(r))

FairSpec == Spec /\ Fairness

-----------------------------------------------------------------------------
(* Properties.                                                             *)

\* Every variable has the type its comment gives it.
TypeOK ==
    /\ nbr \in [RouterIds -> Neighbor]
    /\ db \in [RouterIds -> [Keys -> Lsa \cup {NoLsa}]]
    /\ spf \in [RouterIds -> BOOLEAN]
    /\ chan \in [RouterIds -> Seq(Packet)]
    /\ budget \in [EventKind -> Nat]
    /\ heard \in [RouterIds -> SUBSET Header]
    /\ offered \in [RouterIds -> SUBSET Header]

\* From Exchange on a router is master exactly if its router id is the higher
\* one, so two routers in an exchange never both drive the sequence number
\* (the ExStart arm of process_dd), whatever was lost, repeated or restarted.
RolesAgree ==
    \A r \in RouterIds :
        nbr[r].state \in ExchangeOrBetter => (nbr[r].is_master <=> r > Peer(r))

\* A router that has left Exchange upward has sent its last page of headers,
\* and one that has announced its last page holds none back (build_dd's
\* sent_m_clear against the ExchangeDone guard of process_dd).
DescribedBeforeDone ==
    \A r \in RouterIds :
        /\ nbr[r].state \in {"Loading", "Full"} => nbr[r].sent_m_clear
        /\ nbr[r].state = "Exchange" /\ nbr[r].sent_m_clear => nbr[r].db_summary_list = {}

\* Requests are outstanding only in Exchange and Loading and headers queued
\* only in Exchange: a regression to ExStart, Init or Down leaves nothing of
\* the abandoned exchange behind (Neighbor::clear_lists), and Full is never
\* declared with a request outstanding.
ListsFitState ==
    \A r \in RouterIds :
        /\ nbr[r].state \notin {"Exchange", "Loading"} => nbr[r].ls_request_list = {}
        /\ nbr[r].state # "Exchange" => nbr[r].db_summary_list = {}

Covered(r, h) ==
    db[r][h.key] # NoLsa /\ ~Newer(h.lsa, db[r][h.key])

\* What the peer described in this exchange is either still on the request
\* list or in the database, in that or a newer instance: process_lsu never
\* takes an LSA off the list that it did not get.
HeardIsPursued ==
    \A r \in RouterIds : \A h \in heard[r] :
        h.key \in nbr[r].ls_request_list \/ Covered(r, h)

\* A router that calls the neighbor Full holds everything the neighbor set
\* out to describe in its exchange, or newer: Full means synchronized.
FullIsSynchronized ==
    \A r \in RouterIds :
        nbr[r].state = "Full" => \A h \in offered[Peer(r)] : Covered(r, h)

\* A router whose neighbor is Full has the link in its own Router-LSA.  process_lsu says
\* "If a neighbor just reached Full, re-originate our Router-LSAs in every area"; the
\* transition in process_dd does not.
FullIsAdvertised ==
    \A r \in RouterIds : nbr[r].state = "Full" => db[r][r].body = "link"

\* While the neighbor is Full, it holds no instance of our Router-LSA more
\* recent than our own: after a restart the copy of the previous process does
\* not outlive the exchange (bump_seq in process_dd, then re-origination).
OwnLsaPrevails ==
    \A r \in RouterIds :
        nbr[r].state = "Full" /\ db[Peer(r)][r] # NoLsa =>
            ~Newer(db[Peer(r)][r], db[r][r])

\* Every step that changes a router's area database leaves an SPF run
\* scheduled, also when SPF was pending or has just run.
SpfFollowsLsdb ==
    [][\A r \in RouterIds :
         (\E k \in Keys \ ExtKeys : db'[r][k] # db[r][k]) => spf'[r]]_vars

\* Short of a restart no step replaces an LSA by an older instance or drops it
\* (Lsdb::install, bump_seq and re-origination together).
LsdbNeverOlder ==
    [][\A r \in RouterIds, k \in Keys :
         db[r][k] # NoLsa /\ budget'.restart = budget.restart =>
            db'[r][k] # NoLsa /\ ~Newer(db[r][k], db'[r][k])]_vars

\* No adjacency stays in Loading: the request list drains or the neighbor
\* leaves the state, although a request or its answer may be lost
\* (emit_pending_lsrs).
LoadingEnds ==
    \A r \in RouterIds : nbr[r].state = "Loading" ~> nbr[r].state # "Loading"

\* Both routers get to ExStart or beyond and stay there: Hellos that list a
\* neighbor from Init on cannot leave both sides waiting for the other.
Bidirectional == \A r \in RouterIds : <>[](nbr[r].state \in ExStartOrBetter)

\* "The master completes the Database Exchange process when it has sent and
\* received DD Packets with the M-bit clear" (sent_m_clear in neighbor.rs):
\* once both sides have sent such a packet the master leaves Exchange.
MasterCompletes ==
    \A r \in RouterIds :
        (/\ nbr[r].state = "Exchange" /\ nbr[r].is_master /\ nbr[r].sent_m_clear
         /\ nbr[Peer(r)].state \in ExchangeOrBetter /\ nbr[Peer(r)].sent_m_clear)
        ~> nbr[r].state # "Exchange"
=============================================================================
