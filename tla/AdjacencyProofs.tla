--------------------------- MODULE AdjacencyProofs ---------------------------
(***************************************************************************)
(* Proofs about Adjacency for every pair of router ids, every set of other *)
(* LSAs, every page and batch size, every width of the sequence numbers    *)
(* and every number of losses, expirations, restarts and arrivals.         *)
(*                                                                         *)
(* The neighbor invariants are local: what one handler leaves in nbr[r]    *)
(* depends on nbr[r], db[r] and one packet.  NbrInv collects them for one  *)
(* neighbor record; a lemma per handler shows that the record it computes  *)
(* satisfies NbrInv again.                                                 *)
(*                                                                         *)
(* The facts about the operators of Lsdb come first: the recency relation  *)
(* is a strict partial order, and no operation on a database replaces an   *)
(* instance by an older one.                                               *)
(***************************************************************************)
EXTENDS Adjacency, SequenceTheorems, TLAPS

\* Recency is asymmetric: install never finds each of two instances newer
\* than the other (LsaHeader::is_more_recent_than).
THEOREM NewerAsymmetric ==
    ASSUME NEW a \in Lsa, NEW b \in Lsa, Newer(a, b)
    PROVE  ~Newer(b, a)
BY SeqAssumption, AgeAssumption DEF Newer, IsMoreRecentThan, Distance, Lsa

\* Recency is transitive, the 15-minute rule for LS ages included, so a
\* router that only ever moves to newer instances never returns to one it
\* has given up.
THEOREM NewerTransitive ==
    ASSUME NEW a \in Lsa, NEW b \in Lsa, NEW c \in Lsa, Newer(a, b), Newer(b, c)
    PROVE  Newer(a, c)
BY SeqAssumption, AgeAssumption DEF Newer, IsMoreRecentThan, Distance, Lsa

\* No instance is newer than itself.
LEMMA NewerIrreflexive == ASSUME NEW a \in Lsa PROVE ~Newer(a, a)
BY NewerAsymmetric

\* What is_more_recent_than calls Less is Greater seen from the other side.
LEMMA LessIsNewer ==
    ASSUME NEW a \in Lsa, NEW b \in Lsa, IsMoreRecentThan(a, b) = "Less"
    PROVE  Newer(b, a)
BY SeqAssumption, AgeAssumption DEF Newer, IsMoreRecentThan, Distance, Lsa

\* Encoding an LSA yields an LSA.
LEMMA EncodeType ==
    ASSUME NEW s \in MinSeq .. MaxSeq, NEW c \in Nat, NEW g \in 0 .. MaxAge,
           NEW b \in Bodies
    PROVE  Encode([seq |-> s, ck |-> c, age |-> g, body |-> b]) \in Lsa
BY LsaAssumption DEF Encode, Lsa

\* The same for an instance taken from a database.
LEMMA EncodeLsaType == ASSUME NEW a \in Lsa PROVE Encode(a) \in Lsa
BY LsaAssumption DEF Encode, Lsa

\* What a database may become in one operation: the same keys, no entry lost,
\* no entry replaced by an older instance.
NotOlder(d, e, K) ==
    /\ e \in [K -> Lsa \cup {NoLsa}]
    /\ \A k \in K : d[k] # NoLsa => e[k] # NoLsa /\ ~Newer(d[k], e[k])

\* install replaces an entry only by a newer instance.
LEMMA ChangedIsNewer ==
    ASSUME NEW d, NEW k, NEW lsa, d[k] # NoLsa, Changed(InstallResult(d, k, lsa))
    PROVE  Newer(lsa, d[k])
BY DEF InstallResult, Changed, Newer, IsMoreRecentThan

\* install keeps the database well-formed and never takes an older instance.
LEMMA InstallNotOlder ==
    ASSUME NEW K, NEW d \in [K -> Lsa \cup {NoLsa}], NEW k \in K, NEW lsa \in Lsa
    PROVE  NotOlder(d, Install(d, k, lsa), K)
<1>1. ASSUME NEW q \in K, d[q] # NoLsa PROVE ~Newer(d[q], d[q])
  BY <1>1, NewerIrreflexive
<1>2. ASSUME d[k] # NoLsa, Changed(InstallResult(d, k, lsa))
      PROVE  ~Newer(d[k], lsa)
  <2>1. Newer(lsa, d[k])
    BY <1>2, ChangedIsNewer
  <2> QED BY <1>2, <2>1, NewerAsymmetric
<1>3. lsa # NoLsa
  BY LsaAssumption
<1> QED
  BY <1>1, <1>2, <1>3 DEF NotOlder, Install

\* bump_seq raises the sequence number only, which makes the entry newer.
LEMMA BumpNotOlder ==
    ASSUME NEW K, NEW d \in [K -> Lsa \cup {NoLsa}], NEW k \in K,
           NEW s \in MinSeq .. MaxSeq
    PROVE  NotOlder(d, BumpSeq(d, k, s), K)
<1>1. ASSUME NEW q \in K, d[q] # NoLsa PROVE ~Newer(d[q], d[q])
  BY <1>1, NewerIrreflexive
<1>2. ASSUME d[k] # NoLsa, d[k].seq < s
      PROVE  LET e == [d[k] EXCEPT !.seq = s] IN e \in Lsa /\ ~Newer(d[k], e)
  BY <1>2, SeqAssumption DEF Lsa, Newer, IsMoreRecentThan
<1>3. NoLsa \notin Lsa
  BY LsaAssumption
<1>4. CASE d[k] # NoLsa /\ d[k].seq < s
  BY <1>1, <1>2, <1>3, <1>4 DEF NotOlder, BumpSeq
<1>5. CASE ~(d[k] # NoLsa /\ d[k].seq < s)
  BY <1>1, <1>5 DEF NotOlder, BumpSeq
<1> QED BY <1>4, <1>5

\* The next sequence number stays within its type, also at i32::MAX.
LEMMA NextSeqType ==
    ASSUME NEW K, NEW d \in [K -> Lsa \cup {NoLsa}], NEW k \in K
    PROVE  NextSeq(d, k) \in MinSeq .. MaxSeq
BY SeqAssumption DEF NextSeq, WrappingSucc, InitialSequenceNumber, Lsa

\* An originated LSA is well-formed.
LEMMA OriginatedType ==
    ASSUME NEW K, NEW d \in [K -> Lsa \cup {NoLsa}], NEW k \in K, NEW b \in Bodies
    PROVE  Originated(d, k, b) \in Lsa
<1>1. 0 \in 0 .. MaxAge /\ 0 \in Nat
  BY AgeAssumption
<1> QED BY <1>1, NextSeqType, EncodeType DEF Originated

\* Re-origination never replaces an LSA by an older instance: when the
\* sequence number wraps, install refuses the new one.
LEMMA OriginateNotOlder ==
    ASSUME NEW K, NEW d \in [K -> Lsa \cup {NoLsa}], NEW k \in K, NEW b \in Bodies
    PROVE  NotOlder(d, Originate(d, k, b), K)
BY OriginatedType, InstallNotOlder DEF Originate
------------------------------------------------------------------------------

\* The neighbor invariants, for the record n that router r keeps.
NbrInv(r, n) ==
    /\ n \in Neighbor
    /\ n.state \in ExchangeOrBetter => (n.is_master <=> r > Peer(r))
    /\ n.state \in {"Loading", "Full"} => n.sent_m_clear
    /\ n.state = "Exchange" /\ n.sent_m_clear => n.db_summary_list = {}
    /\ n.state \notin {"Exchange", "Loading"} => n.ls_request_list = {}
    /\ n.state # "Exchange" => n.db_summary_list = {}

Db == [Keys -> Lsa \cup {NoLsa}]

IInv == TypeOK /\ \A r \in RouterIds : NbrInv(r, nbr[r])

\* The other router is another router of the link.
LEMMA PeerType ==
    ASSUME NEW r \in RouterIds
    PROVE  Peer(r) \in RouterIds /\ Peer(r) # r
BY RouterAssumption DEF Peer

\* The inductive invariant says what the model-checked invariants say.
LEMMA IInvImplies ==
    IInv <=> TypeOK /\ RolesAgree /\ DescribedBeforeDone /\ ListsFitState
BY DEF IInv, NbrInv, TypeOK, RolesAgree, DescribedBeforeDone, ListsFitState

-----------------------------------------------------------------------------
(* The neighbor state machine.                                             *)

\* A new neighbor satisfies the invariants.
LEMMA NewNeighborInv == ASSUME NEW r \in RouterIds PROVE NbrInv(r, NewNeighbor(0))
<1>1. 0 \in DdSeqNumber
  BY BoundAssumption DEF DdSeqNumber
<1> QED
  BY <1>1 DEF NbrInv, NewNeighbor, Neighbor, NeighborState, ExchangeOrBetter,
         ExStartOrBetter, TwoWayOrBetter, InitOrBetter

\* An event keeps the invariants, given what the callers of ExchangeDone and
\* LoadingDone have checked.
LEMMA HandleEventInv ==
    ASSUME NEW r \in RouterIds, NEW n, NbrInv(r, n), NEW e, NEW adj \in BOOLEAN,
           e # "NegotiationDone",
           e = "ExchangeDone" => n.sent_m_clear,
           e = "LoadingDone" => n.ls_request_list = {}
    PROVE  NbrInv(r, HandleEvent(n, e, adj))
<1> USE DEF ExchangeOrBetter, ExStartOrBetter, TwoWayOrBetter, InitOrBetter, NeighborState
<1>1. ASSUME NEW s \in {"Init", "TwoWay", "ExStart"},
             n.state \in {"Down", "Attempt", "Init", "TwoWay"}
      PROVE  NbrInv(r, To(n, s))
  BY <1>1 DEF NbrInv, To, Neighbor
<1>2. ASSUME NEW s \in {"Down", "Init", "TwoWay", "ExStart"}
      PROVE  NbrInv(r, To(ClearLists(n), s))
  BY <1>2 DEF NbrInv, To, ClearLists, Neighbor
<1>3. ASSUME n.state = "Exchange", n.sent_m_clear
      PROVE  NbrInv(r, To(n, IF n.ls_request_list = {} THEN "Full" ELSE "Loading"))
  BY <1>3 DEF NbrInv, To, Neighbor
<1>4. ASSUME n.state = "Loading", n.ls_request_list = {}
      PROVE  NbrInv(r, To(n, "Full"))
  BY <1>4 DEF NbrInv, To, Neighbor
<1> QED BY <1>1, <1>2, <1>3, <1>4 DEF HandleEvent

\* process_hello keeps the invariants.
LEMMA AfterHelloInv ==
    ASSUME NEW r \in RouterIds, NEW n, NbrInv(r, n), NEW sees \in BOOLEAN
    PROVE  NbrInv(r, AfterHello(n, sees))
<1> DEFINE n1 == HandleEvent(n, "HelloReceived", FALSE)
<1>1. NbrInv(r, n1)
  BY HandleEventInv
<1>2. NbrInv(r, HandleEvent(n1, "TwoWayReceived", TRUE))
  <2> HIDE DEF n1
  <2> QED BY <1>1, HandleEventInv
<1>3. NbrInv(r, HandleEvent(n1, "OneWay", FALSE))
  <2> HIDE DEF n1
  <2> QED BY <1>1, HandleEventInv
<1> QED BY <1>1, <1>2, <1>3 DEF AfterHello

\* Taking LSAs off the request list keeps the invariants.
LEMMA AfterLsasInv ==
    ASSUME NEW r \in RouterIds, NEW n, NbrInv(r, n), NEW ks \in SUBSET Keys
    PROVE  NbrInv(r, AfterLsas(n, ks))
<1> DEFINE n1 == [n EXCEPT !.ls_request_list = @ \ ks]
<1>1. NbrInv(r, n1)
  BY DEF NbrInv, Neighbor
<1>2. n1.ls_request_list = {} => NbrInv(r, HandleEvent(n1, "LoadingDone", TRUE))
  <2> HIDE DEF n1
  <2> QED BY <1>1, HandleEventInv
<1> QED BY <1>1, <1>2 DEF AfterLsas

-----------------------------------------------------------------------------
(* process_dd.                                                             *)

\* all_headers describes the entries of the database.
LEMMA AllHeadersType == ASSUME NEW d \in Db PROVE AllHeaders(d) \in SUBSET Header
BY DEF Db, AllHeaders, Header

\* Only known keys are requested.
LEMMA NeededType ==
    ASSUME NEW d, NEW hs \in SUBSET Header PROVE Needed(d, hs) \in SUBSET Keys
BY DEF Needed, Header

\* A router enters Exchange with the role its id gives it and with its whole
\* database still to describe.
LEMMA BeginExchangeInv ==
    ASSUME NEW r \in RouterIds, NEW n, NbrInv(r, n), n.state = "ExStart",
           NEW master \in BOOLEAN, master <=> r > Peer(r),
           NEW seq \in DdSeqNumber, NEW d \in Db
    PROVE  /\ NbrInv(r, BeginExchange(n, master, seq, d))
           /\ BeginExchange(n, master, seq, d).state = "Exchange"
<1>1. AllHeaders(d) \in SUBSET Header
  BY AllHeadersType
<1> QED
  BY <1>1 DEF NbrInv, BeginExchange, HandleEvent, To, Neighbor, NeighborState,
         ExchangeOrBetter, ExStartOrBetter, TwoWayOrBetter, InitOrBetter

\* The ExStart arm keeps the invariants and ends in ExStart or Exchange.
LEMMA NegotiateInv ==
    ASSUME NEW r \in RouterIds, NEW n, NbrInv(r, n), n.state = "ExStart",
           NEW m \in DbDesc, NEW d \in Db
    PROVE  NbrInv(r, Negotiate(r, n, m, d))
<1>1. r \in Nat /\ Peer(r) \in Nat /\ Peer(r) # r
  BY PeerType, RouterAssumption
<1>2. m.seq \in DdSeqNumber /\ n.dd_seq_number \in DdSeqNumber
  BY DEF DbDesc, NbrInv, Neighbor
<1>3. ASSUME Peer(r) > r PROVE NbrInv(r, BeginExchange(n, FALSE, m.seq, d))
  <2>1. FALSE <=> r > Peer(r)
    BY <1>1, <1>3
  <2> QED BY <1>2, <2>1, BeginExchangeInv
<1>4. ASSUME Peer(r) < r PROVE NbrInv(r, BeginExchange(n, TRUE, n.dd_seq_number, d))
  <2>1. TRUE <=> r > Peer(r)
    BY <1>1, <1>4
  <2> QED BY <1>2, <2>1, BeginExchangeInv
<1> QED BY <1>3, <1>4 DEF Negotiate

\* Adding requests in Exchange keeps the invariants.
LEMMA RequestInv ==
    ASSUME NEW r \in RouterIds, NEW n, NbrInv(r, n), n.state = "Exchange",
           NEW ks \in SUBSET Keys
    PROVE  NbrInv(r, Request(n, ks)) /\ Request(n, ks).state = "Exchange"
BY DEF NbrInv, Request, Neighbor

\* The ExchangeDone guard is what the invariants need of it.
LEMMA FinishExchangeInv ==
    ASSUME NEW r \in RouterIds, NEW n, NbrInv(r, n), NEW m
    PROVE  NbrInv(r, FinishExchange(n, m))
BY HandleEventInv DEF FinishExchange

\* Taking over the master's sequence number keeps the invariants.
LEMMA SeqInv ==
    ASSUME NEW r \in RouterIds, NEW n, NbrInv(r, n), NEW s \in DdSeqNumber
    PROVE  NbrInv(r, [n EXCEPT !.dd_seq_number = s])
BY DEF NbrInv, Neighbor

\* Phase 1 of process_dd keeps the invariants.
LEMMA AfterDbDescInv ==
    ASSUME NEW r \in RouterIds, NEW n, NbrInv(r, n), NEW m \in DbDesc, NEW d \in Db
    PROVE  NbrInv(r, AfterDbDesc(r, n, m, d))
<1> DEFINE ks == Needed(d, m.headers)
           x  == Negotiate(r, n, m, d)
           n1 == CASE n.state = "ExStart" ->
                        (IF x.state = "Exchange" THEN Request(x, ks) ELSE x)
                   [] n.state = "Exchange" -> FinishExchange(Request(n, ks), m)
                   [] OTHER -> n
<1>1. ks \in SUBSET Keys
  BY NeededType DEF DbDesc
<1>2. NbrInv(r, n1)
  <2>1. CASE n.state = "ExStart"
    <3>1. NbrInv(r, x)
      BY <2>1, NegotiateInv
    <3> HIDE DEF x, ks
    <3>2. x.state = "Exchange" => NbrInv(r, Request(x, ks))
      BY <1>1, <3>1, RequestInv
    <3> QED BY <2>1, <3>1, <3>2
  <2>2. CASE n.state = "Exchange"
    <3> HIDE DEF x, ks
    <3>1. NbrInv(r, Request(n, ks))
      BY <1>1, <2>2, RequestInv
    <3>2. NbrInv(r, FinishExchange(Request(n, ks), m))
      BY <3>1, FinishExchangeInv
    <3> QED BY <2>2, <3>2
  <2>3. CASE n.state \notin {"ExStart", "Exchange"}
    BY <2>3
  <2> QED BY <2>1, <2>2, <2>3
<1>3. AfterDbDesc(r, n, m, d) =
        [n1 EXCEPT !.dd_seq_number =
            IF n1.state = "Exchange" /\ ~n1.is_master THEN m.seq ELSE @]
  BY DEF AfterDbDesc
<1>4. m.seq \in DdSeqNumber
  BY DEF DbDesc
<1> HIDE DEF n1
<1>5. n1.dd_seq_number \in DdSeqNumber
  BY <1>2 DEF NbrInv, Neighbor
<1> QED BY <1>2, <1>3, <1>4, <1>5, SeqInv

\* Sending a page keeps the invariants: M is clear exactly on the last page.
LEMMA AfterDdInv ==
    ASSUME NEW r \in RouterIds, NEW n, NbrInv(r, n), n.state = "Exchange",
           NEW page \in SUBSET Header
    PROVE  NbrInv(r, AfterDd(n, page))
<1>1. (n.dd_seq_number + 1) % DdSeqMod \in DdSeqNumber
  <2>1. n.dd_seq_number \in Nat /\ DdSeqMod \in Nat /\ DdSeqMod > 0
    BY BoundAssumption DEF NbrInv, Neighbor, DdSeqNumber
  <2> QED BY <2>1 DEF DdSeqNumber
<1> QED BY <1>1 DEF AfterDd, NbrInv, Neighbor

-----------------------------------------------------------------------------
(* Packets, channels and databases keep their types.                       *)

\* A packet is what its type field says it is (process_packet's dispatch).
LEMMA PacketCases ==
    ASSUME NEW m \in Packet
    PROVE  /\ m.type = "hello" => m \in Hello
           /\ m.type = "dd" => m \in DbDesc
           /\ m.type = "lsr" => m \in LsReq
           /\ m.type = "lsu" => m \in LsUpd
BY DEF Packet, Hello, DbDesc, LsReq, LsUpd

\* The DDs build_dd makes are packets.
LEMMA DdTypes ==
    ASSUME NEW n \in Neighbor, NEW page \in SUBSET Header
    PROVE  InitialDd(n) \in Packet /\ PageDd(n, page) \in Packet
BY DEF InitialDd, PageDd, Packet, DbDesc, Neighbor

\* So are the requests and updates.
LEMMA LsTypes ==
    ASSUME NEW ks \in SUBSET Keys, NEW lsas \in SUBSET Header
    PROVE  Lsr(ks) \in Packet /\ Lsu(lsas) \in Packet
<1>1. \A h \in Header : [h EXCEPT !.lsa = Encode(h.lsa)] \in Header
  BY EncodeLsaType DEF Header
<1>2. Lsu(lsas) \in LsUpd
  BY <1>1 DEF Lsu, LsUpd
<1>3. Lsr(ks) \in LsReq
  BY DEF Lsr, LsReq
<1> QED BY <1>2, <1>3 DEF Packet

\* Flooding sends packets.
LEMMA FloodType ==
    ASSUME NEW n, NEW lsas \in SUBSET Header
    PROVE  Flood(n, lsas) \in Seq(Packet)
<1> DEFINE out == IF StubArea THEN {h \in lsas : h.key \notin ExtKeys} ELSE lsas
<1>1. out \in SUBSET Header
  OBVIOUS
<1>2. Lsu(out) \in Packet
  BY <1>1, LsTypes
<1>3. <<>> \in Seq(Packet) /\ <<Lsu(out)>> \in Seq(Packet)
  BY <1>2
<1> QED BY <1>3 DEF Flood

\* The Router-LSA of a router is one of the contents an LSA may have.
LEMMA BodyType == ASSUME NEW n PROVE RouterLsaBody(n) \in Bodies
BY BodyAssumption DEF RouterLsaBody

\* Stale-self-LSA recovery leaves no older instance.
LEMMA BumpSelfNotOlder ==
    ASSUME NEW d \in Db, NEW r \in RouterIds, NEW hs \in SUBSET Header
    PROVE  NotOlder(d, BumpSelf(d, r, hs), Keys)
<1>1. \A q \in Keys : d[q] # NoLsa => ~Newer(d[q], d[q])
  BY NewerIrreflexive DEF Db
<1>2. CASE \E h \in hs : h.key = r
  <2> DEFINE h == CHOOSE h \in hs : h.key = r
  <2>1. h \in Header
    BY <1>2
  <2>2. h.lsa.seq \in MinSeq .. MaxSeq
    BY <2>1 DEF Header, Lsa
  <2>3. r \in Keys
    BY DEF Keys
  <2> HIDE DEF h
  <2>4. NotOlder(d, BumpSeq(d, r, h.lsa.seq), Keys)
    BY <2>2, <2>3, BumpNotOlder DEF Db
  <2> QED BY <1>2, <2>4 DEF BumpSelf, h
<1>3. CASE ~\E h \in hs : h.key = r
  BY <1>1, <1>3 DEF BumpSelf, NotOlder, Db
<1> QED BY <1>2, <1>3

\* Installing the LSAs of a packet leaves no older instance.
LEMMA InstallAllNotOlder ==
    ASSUME NEW d \in Db, NEW lsas \in SUBSET Header
    PROVE  NotOlder(d, InstallAll(d, lsas), Keys)
<1> SUFFICES ASSUME NEW k \in Keys
             PROVE  /\ InstallAll(d, lsas)[k] \in Lsa \cup {NoLsa}
                    /\ d[k] # NoLsa => /\ InstallAll(d, lsas)[k] # NoLsa
                                       /\ ~Newer(d[k], InstallAll(d, lsas)[k])
  BY DEF NotOlder, InstallAll, Db
<1>1. CASE \E h \in lsas : h.key = k
  <2> DEFINE h == CHOOSE h \in lsas : h.key = k
  <2>1. h \in Header
    BY <1>1
  <2>2. h.lsa \in Lsa
    BY <2>1 DEF Header
  <2> HIDE DEF h
  <2>3. NotOlder(d, Install(d, k, h.lsa), Keys)
    BY <2>2, InstallNotOlder DEF Db
  <2>4. InstallAll(d, lsas)[k] = Install(d, k, h.lsa)[k]
    BY <1>1 DEF InstallAll, h
  <2> QED BY <2>3, <2>4 DEF NotOlder
<1>2. CASE ~\E h \in lsas : h.key = k
  BY <1>2, NewerIrreflexive DEF InstallAll, Db
<1> QED BY <1>1, <1>2

\* Two operations in a row leave no older instance: recency is transitive
\* enough for it.
LEMMA OriginateAfterNotOlder ==
    ASSUME NEW d \in Db, NEW e, NotOlder(d, e, Keys), NEW r \in RouterIds,
           NEW b \in Bodies
    PROVE  NotOlder(d, Originate(e, r, b), Keys)
<1> DEFINE f == Originate(e, r, b)
<1>1. e \in [Keys -> Lsa \cup {NoLsa}] /\ r \in Keys
  BY DEF NotOlder, Keys
<1>2. NotOlder(e, f, Keys)
  BY <1>1, OriginateNotOlder
<1>3. ASSUME NEW k \in Keys, e[k] # NoLsa PROVE f[k] = e[k] \/ Newer(f[k], e[k])
  <2>1. CASE Changed(InstallResult(e, r, Originated(e, r, b))) /\ k = r
    <3>1. f[k] = Originated(e, r, b)
      BY <1>1, <2>1 DEF Originate, Install
    <3> QED BY <1>3, <2>1, <3>1, ChangedIsNewer
  <2>2. CASE ~(Changed(InstallResult(e, r, Originated(e, r, b))) /\ k = r)
    BY <1>1, <2>2 DEF Originate, Install
  <2> QED BY <2>1, <2>2
<1> HIDE DEF f
<1>4. ASSUME NEW k \in Keys, d[k] # NoLsa
      PROVE  f[k] # NoLsa /\ ~Newer(d[k], f[k])
  <2>1. e[k] # NoLsa /\ f[k] # NoLsa /\ ~Newer(d[k], e[k])
    BY <1>2, <1>4 DEF NotOlder
  <2>2. d[k] \in Lsa /\ e[k] \in Lsa /\ f[k] \in Lsa
    BY <1>1, <1>2, <1>4, <2>1 DEF NotOlder, Db
  <2>3. f[k] = e[k] \/ Newer(f[k], e[k])
    BY <1>3, <2>1
  <2>4. Newer(d[k], f[k]) /\ Newer(f[k], e[k]) => Newer(d[k], e[k])
    BY <2>2, NewerTransitive
  <2> QED BY <2>1, <2>3, <2>4
<1> QED BY <1>2, <1>4 DEF NotOlder, f

-----------------------------------------------------------------------------
(* Every action preserves the invariant.                                   *)

\* A handler stores a neighbor record that satisfies the invariants.
LEMMA UpdateInv ==
    ASSUME IInv, NEW r \in RouterIds, NEW n, NbrInv(r, n), Update(r, n)
    PROVE  nbr' \in [RouterIds -> Neighbor] /\ \A q \in RouterIds : NbrInv(q, nbr'[q])
BY DEF IInv, TypeOK, Update, NbrInv

\* A handler sends packets.
LEMMA ChanType ==
    ASSUME IInv, NEW r \in RouterIds, NEW ps \in Seq(Packet),
           Send(r, ps) \/ (chan[r] # <<>> /\ Answer(r, ps))
    PROVE  chan' \in [RouterIds -> Seq(Packet)]
<1>1. chan \in [RouterIds -> Seq(Packet)] /\ Peer(r) \in RouterIds /\ Peer(r) # r
  BY PeerType DEF IInv, TypeOK
<1>2. chan[Peer(r)] \o ps \in Seq(Packet)
  BY <1>1
<1>3. chan[r] # <<>> => Tail(chan[r]) \in Seq(Packet)
  BY <1>1
<1> QED BY <1>1, <1>2, <1>3 DEF Send, Answer

\* The history variables keep their types.
LEMMA RememberType ==
    ASSUME IInv, NEW r \in RouterIds, NEW n,
           NEW hs \in SUBSET Header, NEW os \in SUBSET Header,
           Remember(r, n, hs, os)
    PROVE  /\ heard' \in [RouterIds -> SUBSET Header]
           /\ offered' \in [RouterIds -> SUBSET Header]
BY DEF IInv, TypeOK, Remember

\* process_hello preserves the invariant.
LEMMA HelloStep ==
    ASSUME IInv, NEW r \in RouterIds, chan[r] # <<>>, UNCHANGED budget,
           NEW m \in Hello, ProcessHello(r, m)
    PROVE  IInv'
<1> DEFINE n == AfterHello(nbr[r], m.sees)
<1>1. NbrInv(r, n)
  BY AfterHelloInv DEF Hello, IInv
<1> HIDE DEF n
<1>2. Update(r, n) /\ Remember(r, n, heard[r], offered[r]) /\ Answer(r, <<>>)
      /\ UNCHANGED <<db, spf>>
  BY DEF ProcessHello, n
<1>3. nbr' \in [RouterIds -> Neighbor] /\ \A q \in RouterIds : NbrInv(q, nbr'[q])
  BY <1>1, <1>2, UpdateInv
<1>4. chan' \in [RouterIds -> Seq(Packet)]
  <2>1. <<>> \in Seq(Packet)
    OBVIOUS
  <2> QED BY <1>2, <2>1, ChanType
<1>5. heard' \in [RouterIds -> SUBSET Header] /\ offered' \in [RouterIds -> SUBSET Header]
  <2>1. heard[r] \in SUBSET Header /\ offered[r] \in SUBSET Header
    BY DEF IInv, TypeOK
  <2> QED BY <1>2, <2>1, RememberType
<1> QED BY <1>2, <1>3, <1>4, <1>5 DEF IInv, TypeOK

\* process_lsr preserves the invariant.
LEMMA LsReqStep ==
    ASSUME IInv, NEW r \in RouterIds, chan[r] # <<>>, UNCHANGED budget,
           NEW m \in LsReq, ProcessLsReq(r, m)
    PROVE  IInv'
<1> DEFINE bad == \E k \in m.keys : db[r][k] = NoLsa
           n   == IF bad THEN HandleEvent(nbr[r], "BadLsReq", FALSE) ELSE nbr[r]
           hs  == {[key |-> k, lsa |-> db[r][k]] : k \in m.keys}
           ps  == IF bad \/ m.keys = {} THEN <<>> ELSE <<Lsu(hs)>>
<1>1. NbrInv(r, n)
  BY HandleEventInv DEF IInv
<1>2. ps \in Seq(Packet)
  <2>1. ~bad => hs \in SUBSET Header
    BY DEF IInv, TypeOK, LsReq, Header
  <2> HIDE DEF hs, bad
  <2>2. ~bad => Lsu(hs) \in Packet
    BY <2>1, LsTypes
  <2>3. <<>> \in Seq(Packet) /\ (~bad => <<Lsu(hs)>> \in Seq(Packet))
    BY <2>2
  <2> QED BY <2>3
<1>3. Update(r, n) /\ Remember(r, n, heard[r], offered[r]) /\ Answer(r, ps)
      /\ UNCHANGED <<db, spf>>
  BY DEF ProcessLsReq
<1> HIDE DEF n, ps
<1>4. nbr' \in [RouterIds -> Neighbor] /\ \A q \in RouterIds : NbrInv(q, nbr'[q])
  BY <1>1, <1>3, UpdateInv
<1>5. chan' \in [RouterIds -> Seq(Packet)]
  BY <1>2, <1>3, ChanType
<1>6. heard' \in [RouterIds -> SUBSET Header] /\ offered' \in [RouterIds -> SUBSET Header]
  <2>1. heard[r] \in SUBSET Header /\ offered[r] \in SUBSET Header
    BY DEF IInv, TypeOK
  <2> QED BY <1>3, <2>1, RememberType
<1> QED BY <1>3, <1>4, <1>5, <1>6 DEF IInv, TypeOK

\* What a step may do to the databases, and what it owes SPF for it.
NoneOlder == \A q \in RouterIds : NotOlder(db[q], db'[q], Keys)

SpfOwed == \A q \in RouterIds :
    (\E k \in Keys \ ExtKeys : db'[q][k] # db[q][k]) => spf'[q]

\* A step that leaves the databases alone leaves no older instance.
LEMMA DbSame == ASSUME IInv, UNCHANGED db PROVE NoneOlder
<1> SUFFICES ASSUME NEW q \in RouterIds PROVE NotOlder(db[q], db[q], Keys)
  BY DEF NoneOlder
<1>1. db[q] \in [Keys -> Lsa \cup {NoLsa}]
  BY DEF IInv, TypeOK
<1>2. \A k \in Keys : db[q][k] # NoLsa => ~Newer(db[q][k], db[q][k])
  BY <1>1, NewerIrreflexive
<1> QED BY <1>1, <1>2 DEF NotOlder

\* A step that changes the database of r by such an operation is one.
LEMMA DbUpdate ==
    ASSUME IInv, NEW r \in RouterIds, NEW d, NotOlder(db[r], d, Keys),
           db' = [db EXCEPT ![r] = d]
    PROVE  NoneOlder /\ db' \in [RouterIds -> [Keys -> Lsa \cup {NoLsa}]]
<1>1. db \in [RouterIds -> [Keys -> Lsa \cup {NoLsa}]]
  BY DEF IInv, TypeOK
<1>2. d \in [Keys -> Lsa \cup {NoLsa}]
  BY DEF NotOlder
<1>3. ASSUME NEW q \in RouterIds, q # r PROVE NotOlder(db[q], db'[q], Keys)
  <2>1. db'[q] = db[q] /\ db[q] \in [Keys -> Lsa \cup {NoLsa}]
    BY <1>1, <1>3
  <2>2. \A k \in Keys : db[q][k] # NoLsa => ~Newer(db[q][k], db[q][k])
    BY <2>1, NewerIrreflexive
  <2> QED BY <2>1, <2>2 DEF NotOlder
<1>4. db'[r] = d
  BY <1>1
<1> QED BY <1>1, <1>2, <1>3, <1>4 DEF NoneOlder

\* process_dd preserves the invariant, leaves no older instance, and schedules
\* SPF when it raised the sequence number of our Router-LSA.
LEMMA DbDescStep ==
    ASSUME IInv, NEW r \in RouterIds, chan[r] # <<>>, UNCHANGED budget,
           NEW m \in DbDesc, ProcessDbDesc(r, m)
    PROVE  IInv' /\ NoneOlder /\ SpfOwed
<1> DEFINE d == BumpSelf(db[r], r, m.headers)
           n == AfterDbDesc(r, nbr[r], m, d)
           hs == IF nbr[r].state \in {"ExStart", "Exchange"}
                 THEN heard[r] \cup m.headers ELSE heard[r]
           os == IF nbr[r].state = "ExStart" THEN AllHeaders(d) ELSE offered[r]
           sent(page) == IF n.state = "Exchange" THEN AfterDd(n, page) ELSE n
           dds(page) == CASE n.state = "ExStart"  -> <<InitialDd(n)>>
                          [] n.state = "Exchange" -> <<PageDd(sent(page), page)>>
                          [] OTHER -> <<>>
           lsrs(ks) == IF ks = {} THEN <<>> ELSE <<Lsr(ks)>>
<1>0. db[r] \in Db /\ m.headers \in SUBSET Header /\ NbrInv(r, nbr[r])
  BY DEF IInv, TypeOK, Db, DbDesc
<1>1. NotOlder(db[r], d, Keys) /\ d \in Db
  BY <1>0, BumpSelfNotOlder DEF NotOlder, Db
<1>2. NbrInv(r, n)
  <2> HIDE DEF d
  <2> QED BY <1>0, <1>1, AfterDbDescInv
<1>3. hs \in SUBSET Header /\ os \in SUBSET Header
  <2>1. heard[r] \in SUBSET Header /\ offered[r] \in SUBSET Header
    BY DEF IInv, TypeOK
  <2>2. AllHeaders(d) \in SUBSET Header
    BY <1>1, AllHeadersType
  <2> HIDE DEF d
  <2> QED BY <1>0, <2>1, <2>2
<1>4. PICK page \in IF n.state = "Exchange" THEN Pages(n) ELSE {{}},
           ks \in IF n.state \in ExchangeOrBetter THEN Batches(n) ELSE {{}} :
        /\ Update(r, sent(page))
        /\ db' = [db EXCEPT ![r] = d]
        /\ spf' = [spf EXCEPT ![r] = @ \/ d # db[r]]
        /\ Answer(r, dds(page) \o lsrs(ks))
        /\ Remember(r, n, hs, os)
  BY DEF ProcessDbDesc
<1> HIDE DEF d, n, hs, os
<1>5. n \in Neighbor /\ page \in SUBSET Header /\ ks \in SUBSET Keys
  BY <1>2, <1>4 DEF NbrInv, Neighbor, Pages, Batches
<1>6. NbrInv(r, sent(page))
  BY <1>2, <1>5, AfterDdInv
<1>7. dds(page) \o lsrs(ks) \in Seq(Packet)
  <2>1. sent(page) \in Neighbor
    BY <1>6 DEF NbrInv
  <2> HIDE DEF sent
  <2>2. InitialDd(n) \in Packet /\ PageDd(sent(page), page) \in Packet /\ Lsr(ks) \in Packet
    BY <1>5, <2>1, DdTypes, LsTypes
  <2>3. dds(page) \in Seq(Packet) /\ lsrs(ks) \in Seq(Packet)
    BY <2>2
  <2> HIDE DEF dds, lsrs
  <2> QED BY <2>3
<1> HIDE DEF sent, dds, lsrs
<1>8. nbr' \in [RouterIds -> Neighbor] /\ \A q \in RouterIds : NbrInv(q, nbr'[q])
  BY <1>4, <1>6, UpdateInv
<1>9. chan' \in [RouterIds -> Seq(Packet)]
  BY <1>4, <1>7, ChanType
<1>10. heard' \in [RouterIds -> SUBSET Header] /\ offered' \in [RouterIds -> SUBSET Header]
  BY <1>3, <1>4, RememberType
<1>11. NoneOlder /\ db' \in [RouterIds -> [Keys -> Lsa \cup {NoLsa}]]
  BY <1>1, <1>4, DbUpdate
<1>12. spf' \in [RouterIds -> BOOLEAN]
  BY <1>4 DEF IInv, TypeOK
<1>13. SpfOwed
  <2>1. ASSUME NEW q \in RouterIds, q # r PROVE db'[q] = db[q]
    BY <1>4, <2>1 DEF IInv, TypeOK
  <2>2. db'[r] = d /\ spf'[r] = (spf[r] \/ d # db[r])
    BY <1>4 DEF IInv, TypeOK
  <2> QED BY <2>1, <2>2 DEF SpfOwed
<1> QED BY <1>8, <1>9, <1>10, <1>11, <1>12, <1>13 DEF IInv, TypeOK

\* Installing the LSAs of a packet changes only entries install calls New or
\* Updated.
LEMMA InstallAllChanges ==
    ASSUME NEW d \in Db, NEW lsas \in SUBSET Header, NEW k \in Keys,
           InstallAll(d, lsas)[k] # d[k]
    PROVE  \E h \in lsas : h.key = k /\ InstallResult(d, k, h.lsa) \in {"New", "Updated"}
<1>1. \E h \in lsas : h.key = k
  BY DEF InstallAll
<1> DEFINE h == CHOOSE h \in lsas : h.key = k
<1>2. h \in lsas /\ h.key = k
  BY <1>1
<1>3. InstallAll(d, lsas)[k] = Install(d, k, h.lsa)[k]
  BY <1>1 DEF InstallAll
<1> HIDE DEF h
<1>4. Changed(InstallResult(d, k, h.lsa))
  BY <1>3 DEF Install
<1> QED BY <1>2, <1>4 DEF Changed

\* process_lsu preserves the invariant, leaves no older instance, and schedules
\* SPF for what it changed in the area database.
LEMMA LsUpdStep ==
    ASSUME IInv, NEW r \in RouterIds, chan[r] # <<>>, UNCHANGED budget,
           NEW m \in LsUpd, ProcessLsUpd(r, m)
    PROVE  IInv' /\ NoneOlder /\ SpfOwed
<1> DEFINE accepted == {h \in m.lsas : ~(StubArea /\ h.key \in ExtKeys)}
           with(results) ==
               {h \in accepted : InstallResult(db[r], h.key, h.lsa) \in results}
           fresh == with({"New", "Updated"})
           older == with({"Older"})
           n     == AfterLsas(nbr[r], {h.key : h \in accepted \ older})
           full  == ReachedFull(nbr[r], n)
           body  == RouterLsaBody(n)
           d1    == InstallAll(db[r], accepted)
           own   == Originated(d1, r, body)
           d     == IF full THEN Originate(d1, r, body) ELSE d1
           back  == {[key |-> h.key, lsa |-> db[r][h.key]] :
                       h \in {g \in older : g.key \notin ExtKeys}}
           p1    == IF back = {} THEN <<>> ELSE <<Lsu(back)>>
           p2    == IF full THEN Flood(n, {[key |-> r, lsa |-> own]}) ELSE <<>>
<1>0. db[r] \in Db /\ m.lsas \in SUBSET Header /\ NbrInv(r, nbr[r]) /\ r \in Keys
  BY DEF IInv, TypeOK, Db, LsUpd, Keys
<1>1. accepted \in SUBSET Header
  BY <1>0
<1>2. /\ Update(r, n)
      /\ db' = [db EXCEPT ![r] = d]
      /\ spf' = [spf EXCEPT ![r] = @ \/ full \/ SchedulesSpf(fresh)]
      /\ Answer(r, p1 \o p2)
      /\ Remember(r, n, heard[r], offered[r])
  BY DEF ProcessLsUpd
<1>3. NbrInv(r, n)
  <2>1. {h.key : h \in accepted \ older} \in SUBSET Keys
    BY <1>1 DEF Header
  <2> QED BY <1>0, <2>1, AfterLsasInv
<1>4. back \in SUBSET Header
  <2>1. ASSUME NEW g \in older PROVE db[r][g.key] \in Lsa /\ g.key \in Keys
    <3>1. g \in Header /\ InstallResult(db[r], g.key, g.lsa) = "Older"
      BY <1>1, <2>1
    <3>2. db[r][g.key] # NoLsa /\ g.key \in Keys
      BY <3>1 DEF InstallResult, Header
    <3> QED BY <1>0, <3>2 DEF Db
  <2> HIDE DEF older
  <2> QED BY <2>1 DEF Header
<1>5. NotOlder(db[r], d1, Keys) /\ d1 \in Db
  <2> HIDE DEF accepted
  <2> QED BY <1>0, <1>1, InstallAllNotOlder DEF NotOlder, Db
<1> HIDE DEF n
<1>6. body \in Bodies
  BY BodyType
<1>7. \A k \in Keys : d1[k] # db[r][k] =>
        \E h \in fresh : h.key = k
  <2> SUFFICES ASSUME NEW k \in Keys, d1[k] # db[r][k]
               PROVE  \E h \in fresh : h.key = k
    OBVIOUS
  <2>1. PICK h \in accepted : h.key = k /\ InstallResult(db[r], k, h.lsa) \in {"New", "Updated"}
    <3> HIDE DEF accepted
    <3> QED BY <1>0, <1>1, InstallAllChanges
  <2>2. h \in fresh
    BY <2>1
  <2> QED BY <2>1, <2>2
<1> HIDE DEF full, body, d1, accepted, fresh, older
<1>8. NotOlder(db[r], d, Keys)
  BY <1>0, <1>5, <1>6, OriginateAfterNotOlder
<1>9. p1 \o p2 \in Seq(Packet)
  <2>1. own \in Lsa
    BY <1>0, <1>5, <1>6, OriginatedType DEF Db
  <2>2. {[key |-> r, lsa |-> own]} \in SUBSET Header
    BY <1>0, <2>1 DEF Header
  <2> HIDE DEF own, back
  <2>3. p2 \in Seq(Packet)
    <3>1. <<>> \in Seq(Packet)
      OBVIOUS
    <3> QED BY <2>2, <3>1, FloodType
  <2>4. p1 \in Seq(Packet)
    <3>1. Lsu(back) \in Packet
      BY <1>4, LsTypes
    <3> QED BY <3>1
  <2> HIDE DEF p1, p2
  <2> QED BY <2>3, <2>4
<1> HIDE DEF p1, p2
<1>10. nbr' \in [RouterIds -> Neighbor] /\ \A q \in RouterIds : NbrInv(q, nbr'[q])
  BY <1>2, <1>3, UpdateInv
<1>11. chan' \in [RouterIds -> Seq(Packet)]
  BY <1>2, <1>9, ChanType
<1>12. heard' \in [RouterIds -> SUBSET Header] /\ offered' \in [RouterIds -> SUBSET Header]
  <2>1. heard[r] \in SUBSET Header /\ offered[r] \in SUBSET Header
    BY DEF IInv, TypeOK
  <2> QED BY <1>2, <2>1, RememberType
<1>13. SpfOwed
  <2>1. ASSUME NEW q \in RouterIds, q # r PROVE db'[q] = db[q]
    BY <1>2, <2>1 DEF IInv, TypeOK
  <2>2. db'[r] = d /\ spf'[r] = (spf[r] \/ full \/ SchedulesSpf(fresh))
    BY <1>2 DEF IInv, TypeOK
  <2>3. ~full => \A k \in Keys \ ExtKeys : d[k] # db[r][k] => SchedulesSpf(fresh)
    BY <1>7 DEF SchedulesSpf
  <2> HIDE DEF d
  <2> QED BY <2>1, <2>2, <2>3 DEF SpfOwed
<1> HIDE DEF d
<1>14. NoneOlder /\ db' \in [RouterIds -> [Keys -> Lsa \cup {NoLsa}]]
  BY <1>2, <1>8, DbUpdate
<1>15. spf' \in [RouterIds -> BOOLEAN]
  BY <1>2 DEF IInv, TypeOK, full, ReachedFull, SchedulesSpf
<1> QED BY <1>10, <1>11, <1>12, <1>13, <1>14, <1>15 DEF IInv, TypeOK

\* process_packet: all of the above for whatever packet arrives.
LEMMA ReceiveStep ==
    ASSUME IInv, NEW r \in RouterIds, Receive(r)
    PROVE  IInv' /\ NoneOlder /\ SpfOwed
<1> DEFINE m == Head(chan[r])
<1>1. chan[r] # <<>> /\ UNCHANGED budget
  BY DEF Receive
<1>2. m \in Packet
  BY <1>1 DEF IInv, TypeOK
<1>3. \/ m \in Hello /\ ProcessHello(r, m)
      \/ m \in DbDesc /\ ProcessDbDesc(r, m)
      \/ m \in LsReq /\ ProcessLsReq(r, m)
      \/ m \in LsUpd /\ ProcessLsUpd(r, m)
  BY <1>2, PacketCases DEF Receive
<1> HIDE DEF m
<1>4. CASE m \in Hello /\ ProcessHello(r, m)
  <2>1. UNCHANGED db
    BY <1>4 DEF ProcessHello
  <2> QED BY <1>1, <1>4, <2>1, HelloStep, DbSame DEF SpfOwed
<1>5. CASE m \in LsReq /\ ProcessLsReq(r, m)
  <2>1. UNCHANGED db
    BY <1>5 DEF ProcessLsReq
  <2> QED BY <1>1, <1>5, <2>1, LsReqStep, DbSame DEF SpfOwed
<1> QED BY <1>1, <1>3, <1>4, <1>5, DbDescStep, LsUpdStep

\* The timers preserve the invariant and leave the databases alone.
LEMMA TimerStep ==
    ASSUME IInv, NEW r \in RouterIds, Timers(r)
    PROVE  IInv' /\ UNCHANGED db
<1>1. CASE SendHello(r)
  <2>1. [type |-> "hello", sees |-> Lists(nbr[r])] \in Packet
    BY DEF Packet, Hello, Lists
  <2>2. <<[type |-> "hello", sees |-> Lists(nbr[r])]>> \in Seq(Packet)
    BY <2>1
  <2>3. chan' \in [RouterIds -> Seq(Packet)]
    BY <1>1, <2>2, ChanType DEF SendHello
  <2> QED BY <1>1, <2>3 DEF SendHello, IInv, TypeOK
<1>2. CASE EmitPendingDds(r)
  <2> DEFINE n == [nbr[r] EXCEPT !.dd_seq_number = IF @ = 0 THEN DdSeed ELSE @]
  <2>1. DdSeed \in DdSeqNumber
    BY BoundAssumption DEF DdSeqNumber
  <2>2. NbrInv(r, nbr[r]) /\ nbr[r].dd_seq_number \in DdSeqNumber
    BY DEF IInv, NbrInv, Neighbor
  <2>3. NbrInv(r, n)
    BY <2>1, <2>2, SeqInv
  <2>4. Update(r, n) /\ Send(r, <<InitialDd(n)>>)
        /\ UNCHANGED <<db, spf, budget, heard, offered>>
    BY <1>2 DEF EmitPendingDds
  <2> HIDE DEF n
  <2>5. <<InitialDd(n)>> \in Seq(Packet)
    <3>1. n \in Neighbor
      BY <2>3 DEF NbrInv
    <3>2. InitialDd(n) \in Packet
      BY <3>1, DdTypes
    <3> QED BY <3>2
  <2>6. chan' \in [RouterIds -> Seq(Packet)]
    BY <2>4, <2>5, ChanType
  <2>7. nbr' \in [RouterIds -> Neighbor] /\ \A q \in RouterIds : NbrInv(q, nbr'[q])
    BY <2>3, <2>4, UpdateInv
  <2> QED BY <2>4, <2>6, <2>7 DEF IInv, TypeOK
<1>3. CASE EmitPendingLsrs(r)
  <2>1. PICK ks \in Batches(nbr[r]) : Send(r, <<Lsr(ks)>>)
    BY <1>3 DEF EmitPendingLsrs
  <2>2. ks \in SUBSET Keys
    BY <2>1 DEF Batches, IInv, TypeOK, Neighbor
  <2>3. Lsr(ks) \in Packet
    BY <2>2, LsTypes
  <2>4. <<Lsr(ks)>> \in Seq(Packet)
    BY <2>3
  <2>5. chan' \in [RouterIds -> Seq(Packet)]
    BY <2>1, <2>4, ChanType
  <2> QED BY <1>3, <2>5 DEF EmitPendingLsrs, IInv, TypeOK
<1>4. CASE RunSpf(r)
  BY <1>4 DEF RunSpf, IInv, TypeOK
<1> QED BY <1>1, <1>2, <1>3, <1>4 DEF Timers

\* The database a router starts with is well-formed.
LEMMA FreshDbType == ASSUME NEW r \in RouterIds PROVE FreshDb(r) \in Db
<1> DEFINE d == [k \in Keys |-> NoLsa]
<1>1. d \in [Keys -> Lsa \cup {NoLsa}] /\ r \in Keys
  BY DEF Keys
<1>2. RouterLsaBody(NewNeighbor(0)) \in Bodies
  BY BodyType
<1> HIDE DEF d
<1>3. Originate(d, r, RouterLsaBody(NewNeighbor(0))) \in Db
  BY <1>1, <1>2, OriginateNotOlder DEF NotOlder, Db
<1> QED BY <1>3 DEF FreshDb, d

\* So are the LSAs that arrive from elsewhere.
LEMMA ForeignType == Foreign \subseteq Lsa
<1>1. \A s \in InitialSequenceNumber .. InitialSequenceNumber + 1 : s \in MinSeq .. MaxSeq
  BY SeqAssumption DEF InitialSequenceNumber
<1>2. "stub" \in Bodies /\ 0 \in Nat /\ 0 \in 0 .. MaxAge
  BY BodyAssumption, AgeAssumption
<1> QED BY <1>1, <1>2, EncodeType DEF Foreign

\* The budget of outside events stays a number.
LEMMA SpendType ==
    ASSUME IInv, NEW kind \in EventKind, Spend(kind)
    PROVE  /\ budget' \in [EventKind -> Nat]
           /\ kind = "restart" => budget'.restart # budget.restart
BY DEF IInv, TypeOK, Spend, EventKind

\* The outside events preserve the invariant.  Only a restart may leave an
\* older instance, and every change of a database leaves SPF scheduled.
LEMMA OutsideStep ==
    ASSUME IInv, NEW r \in RouterIds, Outside(r)
    PROVE  /\ IInv' /\ SpfOwed
           /\ NoneOlder \/ budget'.restart # budget.restart
<1>1. CASE Lose(r)
  <2>1. chan' \in [RouterIds -> Seq(Packet)]
    BY <1>1 DEF Lose, IInv, TypeOK
  <2>2. UNCHANGED <<nbr, db, spf, heard, offered>> /\ Spend("lose")
    BY <1>1 DEF Lose
  <2>3. budget' \in [EventKind -> Nat]
    BY <2>2, SpendType DEF EventKind
  <2>4. NoneOlder /\ SpfOwed
    BY <2>2, DbSame DEF SpfOwed
  <2> QED BY <2>1, <2>2, <2>3, <2>4 DEF IInv, TypeOK
<1>2. CASE NeighborExpires(r)
  <2> DEFINE n == HandleEvent(nbr[r], "InactivityTimer", FALSE)
             d == Originate(db[r], r, RouterLsaBody(n))
  <2>1. NbrInv(r, n)
    BY HandleEventInv DEF IInv
  <2>2. /\ Spend("expire") /\ Update(r, n) /\ db' = [db EXCEPT ![r] = d]
        /\ spf' = [spf EXCEPT ![r] = TRUE]
        /\ Remember(r, n, heard[r], offered[r]) /\ UNCHANGED chan
    BY <1>2 DEF NeighborExpires
  <2> HIDE DEF n
  <2>3. NotOlder(db[r], d, Keys)
    <3>1. db[r] \in [Keys -> Lsa \cup {NoLsa}] /\ r \in Keys
      BY DEF IInv, TypeOK, Keys
    <3> QED BY <3>1, BodyType, OriginateNotOlder
  <2> HIDE DEF d
  <2>4. NoneOlder /\ db' \in [RouterIds -> [Keys -> Lsa \cup {NoLsa}]]
    BY <2>2, <2>3, DbUpdate
  <2>5. nbr' \in [RouterIds -> Neighbor] /\ \A q \in RouterIds : NbrInv(q, nbr'[q])
    BY <2>1, <2>2, UpdateInv
  <2>6. heard' \in [RouterIds -> SUBSET Header] /\ offered' \in [RouterIds -> SUBSET Header]
    <3>1. heard[r] \in SUBSET Header /\ offered[r] \in SUBSET Header
      BY DEF IInv, TypeOK
    <3> QED BY <2>2, <3>1, RememberType
  <2>7. budget' \in [EventKind -> Nat]
    BY <2>2, SpendType DEF EventKind
  <2>8. SpfOwed /\ spf' \in [RouterIds -> BOOLEAN]
    BY <2>2 DEF SpfOwed, IInv, TypeOK
  <2> QED BY <2>2, <2>4, <2>5, <2>6, <2>7, <2>8 DEF IInv, TypeOK
<1>3. CASE Restart(r)
  <2>1. /\ Spend("restart") /\ Update(r, NewNeighbor(0))
        /\ db' = [db EXCEPT ![r] = FreshDb(r)] /\ spf' = [spf EXCEPT ![r] = TRUE]
        /\ heard' = [heard EXCEPT ![r] = {}] /\ offered' = [offered EXCEPT ![r] = {}]
    BY <1>3 DEF Restart
  <2>2. nbr' \in [RouterIds -> Neighbor] /\ \A q \in RouterIds : NbrInv(q, nbr'[q])
    BY <2>1, NewNeighborInv, UpdateInv
  <2>3. db' \in [RouterIds -> [Keys -> Lsa \cup {NoLsa}]]
    BY <2>1, FreshDbType DEF Db, IInv, TypeOK
  <2>4. chan' \in [RouterIds -> Seq(Packet)]
    <3>1. PICK queued \in {chan[r], <<>>} : chan' = [chan EXCEPT ![r] = queued]
      BY <1>3 DEF Restart
    <3>2. chan[r] \in Seq(Packet) /\ <<>> \in Seq(Packet)
      <4>1. <<>> \in Seq(Packet)
        OBVIOUS
      <4> QED BY <4>1 DEF IInv, TypeOK
    <3>3. queued \in Seq(Packet)
      BY <3>1, <3>2
    <3> QED BY <3>1, <3>3 DEF IInv, TypeOK
  <2>5. budget' \in [EventKind -> Nat]
        /\ budget'.restart # budget.restart
    BY <2>1, SpendType DEF EventKind
  <2>6. SpfOwed /\ spf' \in [RouterIds -> BOOLEAN]
    BY <2>1 DEF SpfOwed, IInv, TypeOK
  <2> QED BY <2>1, <2>2, <2>3, <2>4, <2>5, <2>6 DEF IInv, TypeOK
<1>4. CASE \E k \in OtherKeys, lsa \in Foreign : Learn(r, k, lsa)
  <2>1. PICK k \in OtherKeys, lsa \in Foreign : Learn(r, k, lsa)
    BY <1>4
  <2> DEFINE d == Install(db[r], k, lsa)
             hs == {[key |-> k, lsa |-> lsa]}
  <2>2. /\ Spend("learn") /\ db' = [db EXCEPT ![r] = d]
        /\ spf' = [spf EXCEPT ![r] = @ \/ SchedulesSpf(hs)]
        /\ Send(r, Flood(nbr[r], hs)) /\ UNCHANGED <<nbr, heard, offered>>
    BY <2>1 DEF Learn
  <2>3. lsa \in Lsa /\ k \in Keys /\ db[r] \in [Keys -> Lsa \cup {NoLsa}]
    BY <2>1, ForeignType DEF Keys, IInv, TypeOK
  <2>4. NotOlder(db[r], d, Keys)
    BY <2>3, InstallNotOlder
  <2>5. chan' \in [RouterIds -> Seq(Packet)]
    <3>1. hs \in SUBSET Header
      BY <2>3 DEF Header
    <3> HIDE DEF hs
    <3>2. Flood(nbr[r], hs) \in Seq(Packet)
      BY <3>1, FloodType
    <3> QED BY <2>2, <3>2, ChanType
  <2>6. SpfOwed
    <3>1. ASSUME NEW q \in RouterIds, q # r PROVE db'[q] = db[q]
      BY <2>2, <3>1 DEF IInv, TypeOK
    <3>2. db'[r] = d /\ spf'[r] = (spf[r] \/ SchedulesSpf(hs))
      BY <2>2 DEF IInv, TypeOK
    <3>3. ASSUME NEW j \in Keys \ ExtKeys, d[j] # db[r][j] PROVE SchedulesSpf(hs)
      <4>1. j = k
        BY <2>3, <3>3 DEF Install
      <4>2. [key |-> k, lsa |-> lsa] \in hs
        OBVIOUS
      <4> QED BY <3>3, <4>1, <4>2 DEF SchedulesSpf
    <3> HIDE DEF d, hs
    <3> QED BY <3>1, <3>2, <3>3 DEF SpfOwed
  <2>7. spf' \in [RouterIds -> BOOLEAN]
    BY <2>2 DEF SchedulesSpf, IInv, TypeOK
  <2> HIDE DEF d, hs
  <2>8. NoneOlder /\ db' \in [RouterIds -> [Keys -> Lsa \cup {NoLsa}]]
    BY <2>2, <2>4, DbUpdate
  <2>9. budget' \in [EventKind -> Nat]
    BY <2>2, SpendType DEF EventKind
  <2> QED BY <2>2, <2>5, <2>6, <2>7, <2>8, <2>9 DEF IInv, TypeOK
<1>5. CASE Duplicate(r)
  <2>1. chan' \in [RouterIds -> Seq(Packet)]
    <3>1. chan[r] \in Seq(Packet) /\ chan[r] # <<>>
      BY <1>5 DEF Duplicate, IInv, TypeOK
    <3>2. <<Head(chan[r])>> \o chan[r] \in Seq(Packet)
      BY <3>1
    <3> QED BY <1>5, <3>2 DEF Duplicate, IInv, TypeOK
  <2>2. UNCHANGED <<nbr, db, spf, heard, offered>> /\ Spend("duplicate")
    BY <1>5 DEF Duplicate
  <2>3. budget' \in [EventKind -> Nat]
    BY <2>2, SpendType DEF EventKind
  <2>4. NoneOlder /\ SpfOwed
    BY <2>2, DbSame DEF SpfOwed
  <2> QED BY <2>1, <2>2, <2>3, <2>4 DEF IInv, TypeOK
<1> QED BY <1>1, <1>2, <1>3, <1>4, <1>5 DEF Outside

-----------------------------------------------------------------------------
(* The theorems.                                                           *)

\* The daemon's start satisfies the inductive invariant.
LEMMA InitIInv == Init => IInv
<1> SUFFICES ASSUME Init PROVE IInv
  OBVIOUS
<1>1. nbr \in [RouterIds -> Neighbor] /\ \A r \in RouterIds : NbrInv(r, nbr[r])
  BY NewNeighborInv DEF Init, NbrInv
<1>2. db \in [RouterIds -> [Keys -> Lsa \cup {NoLsa}]]
  <2>1. PICK known \in [RouterIds -> [OtherKeys -> Foreign \cup {NoLsa}]] :
          db = [r \in RouterIds |-> [k \in Keys |->
                    IF k \in OtherKeys THEN known[r][k] ELSE FreshDb(r)[k]]]
    BY DEF Init
  <2>2. ASSUME NEW r \in RouterIds, NEW k \in Keys
        PROVE  db[r][k] \in Lsa \cup {NoLsa}
    BY <2>1, FreshDbType, ForeignType DEF Db
  <2> QED BY <2>1, <2>2
<1>3. chan \in [RouterIds -> Seq(Packet)]
  <2>1. <<>> \in Seq(Packet)
    OBVIOUS
  <2> QED BY <2>1 DEF Init
<1> QED BY <1>1, <1>2, <1>3, BoundAssumption DEF Init, IInv, TypeOK

\* Every step preserves it, leaves SPF scheduled for what it changed, and only
\* a restart may leave an older instance in a database.
LEMMA NextIInv ==
    ASSUME IInv, [Next]_vars
    PROVE  /\ IInv' /\ SpfOwed
           /\ NoneOlder \/ budget'.restart # budget.restart
<1>1. CASE UNCHANGED vars
  <2>1. IInv'
    BY <1>1 DEF vars, IInv, TypeOK
  <2> QED BY <1>1, <2>1, DbSame DEF vars, SpfOwed
<1>2. ASSUME NEW r \in RouterIds, Timers(r) PROVE IInv' /\ SpfOwed /\ NoneOlder
  BY <1>2, TimerStep, DbSame DEF SpfOwed
<1> QED BY <1>1, <1>2, ReceiveStep, OutsideStep DEF Next

\* TypeOK, RolesAgree, DescribedBeforeDone and ListsFitState, taken together,
\* are inductive: they hold in every reachable state.
THEOREM Invariance == Spec => []IInv
BY InitIInv, NextIInv, PTL DEF Spec

\* Every variable of the adjacency keeps its type, the DD sequence number
\* wraps within its width included.
THEOREM TypeCorrect == Spec => []TypeOK
<1>1. IInv => TypeOK
  BY DEF IInv
<1> QED BY <1>1, Invariance, PTL

\* From Exchange on, the router with the higher id is the master and the other
\* one the slave, after any number of losses, repetitions and restarts.
THEOREM RolesAlwaysAgree == Spec => []RolesAgree
<1>1. IInv => RolesAgree
  BY IInvImplies
<1> QED BY <1>1, Invariance, PTL

\* A router leaves Exchange upward only after it has described its whole
\* database.
THEOREM AlwaysDescribed == Spec => []DescribedBeforeDone
<1>1. IInv => DescribedBeforeDone
  BY IInvImplies
<1> QED BY <1>1, Invariance, PTL

\* No regression leaves requests or headers of an abandoned exchange behind,
\* and Full is never declared with a request outstanding.
THEOREM ListsAlwaysFit == Spec => []ListsFitState
<1>1. IInv => ListsFitState
  BY IInvImplies
<1> QED BY <1>1, Invariance, PTL

\* Short of a restart no step replaces an LSA by an older instance or drops it.
THEOREM NeverOlder == Spec => LsdbNeverOlder
<1>1. IInv /\ [Next]_vars =>
        [\A r \in RouterIds, k \in Keys :
            db[r][k] # NoLsa /\ budget'.restart = budget.restart =>
              db'[r][k] # NoLsa /\ ~Newer(db[r][k], db'[r][k])]_vars
  <2> SUFFICES ASSUME IInv, [Next]_vars, budget'.restart = budget.restart
               PROVE  \A r \in RouterIds, k \in Keys :
                        db[r][k] # NoLsa =>
                          db'[r][k] # NoLsa /\ ~Newer(db[r][k], db'[r][k])
    OBVIOUS
  <2>1. NoneOlder
    BY NextIInv
  <2> QED BY <2>1 DEF NoneOlder, NotOlder
<1> QED BY <1>1, Invariance, PTL DEF Spec, LsdbNeverOlder

\* Every step that changes an area database leaves an SPF run scheduled.
THEOREM SpfAlwaysFollows == Spec => SpfFollowsLsdb
<1>1. IInv /\ [Next]_vars =>
        [\A r \in RouterIds :
            (\E k \in Keys \ ExtKeys : db'[r][k] # db[r][k]) => spf'[r]]_vars
  BY NextIInv DEF SpfOwed
<1> QED BY <1>1, Invariance, PTL DEF Spec, SpfFollowsLsdb
-----------------------------------------------------------------------------
(***************************************************************************)
(* HeardIsPursued of Adjacency, for any databases, page and batch sizes    *)
(* and any number of losses, repetitions, expirations and arrivals: no     *)
(* update takes an LSA off the request list that did not bring at least    *)
(* what the neighbor had described.  process_lsu does not compare an       *)
(* update with the header that made it ask, so the claim rests on the      *)
(* order of the packets: what a router says about an LSA never gets older, *)
(* and the link keeps the order (Inbound).  Two things break it, and TLC   *)
(* finds both: a restart, after which the router starts its numbers over,  *)
(* and a Router-LSA at the last sequence number, whose successor wraps and *)
(* is flooded although install refused it.                                 *)
(***************************************************************************)

\* An instance as its originator encoded it, not aged and not bumped.
Genuine(lsa) == lsa.age = 0 /\ lsa.ck = Checksum(lsa.seq, lsa.body)

\* a is not more recent than b, for genuine instances.
Upto(a, b) == a.seq < b.seq \/ (a.seq = b.seq /\ a.ck <= b.ck)

\* Database d holds the LSA of header h, at least as new.
Held(d, h) == d[h.key] # NoLsa /\ Upto(h.lsa, d[h.key])

\* The headers a packet describes, and the LSAs it carries.
Described(m) == IF m.type = "dd" THEN m.headers ELSE {}
Carried(m)   == IF m.type = "lsu" THEN m.lsas ELSE {}

\* LSAs gs are no older than what headers hs say of the same keys.
Follows(hs, gs) == \A h \in hs, g \in gs : h.key = g.key => Upto(h.lsa, g.lsa)

OnePerKey(gs) == \A h, g \in gs : h.key = g.key => h = g

\* What packet m says is genuine and still held by its sender, whose database is d.
Sound(m, d) ==
    /\ \A h \in Described(m) \cup Carried(m) : Genuine(h.lsa) /\ Held(d, h)
    /\ OnePerKey(Carried(m))

\* The packets c on their way from a router with database d to one that has
\* heard hs: an update is no older than any header ahead of it.
Inbound(c, hs, d) ==
    /\ \A j \in 1 .. Len(c) : Sound(c[j], d) /\ Follows(hs, Carried(c[j]))
    /\ \A i, j \in 1 .. Len(c) : i < j => Follows(Described(c[i]), Carried(c[j]))
    /\ \A h \in hs : Genuine(h.lsa) /\ Held(d, h)

\* A router with neighbor record n and database d that has heard hs.
Local(n, d, hs) ==
    /\ \A k \in Keys : d[k] # NoLsa => Genuine(d[k])
    /\ \A h \in n.db_summary_list : Genuine(h.lsa) /\ Held(d, h)
    /\ n.state \notin ExchangeOrBetter => hs = {}
    /\ \A h \in hs : h.key \in n.ls_request_list \/ Held(d, h)

\* The neighbor's copy, in database d, of the Router-LSA with key k is not ahead of e.
Behind(d, k, e) == d[k] # NoLsa => Upto(d[k], e[k])

Pursuit ==
    \A r \in RouterIds :
        /\ Local(nbr[r], db[r], heard[r])
        /\ Inbound(chan[r], heard[r], db[Peer(r)])
        /\ Behind(db[Peer(r)], r, db[r])

\* No router has used up the sequence numbers of its Router-LSA.
SeqLeft == \A r \in RouterIds : db[r][r].seq < MaxSeq

PInv ==
    /\ IInv
    /\ budget.restart = 0
    /\ \A r \in RouterIds : db[r][r] # NoLsa
    /\ SeqLeft => Pursuit

-----------------------------------------------------------------------------
(* Recency among genuine instances.                                        *)

\* Upto is transitive.
LEMMA UptoTransitive ==
    ASSUME NEW a \in Lsa, NEW b \in Lsa, NEW c \in Lsa, Upto(a, b), Upto(b, c)
    PROVE  Upto(a, c)
BY SeqAssumption DEF Lsa, Upto

\* Every instance is up to itself.
LEMMA UptoReflexive == ASSUME NEW a \in Lsa PROVE Upto(a, a)
BY SeqAssumption DEF Lsa, Upto

\* For genuine instances is_more_recent_than compares numbers and checksums only.
LEMMA UptoIsNotNewer ==
    ASSUME NEW a \in Lsa, NEW b \in Lsa, a.age = 0, b.age = 0
    PROVE  ~Newer(a, b) <=> Upto(a, b)
BY SeqAssumption, AgeAssumption DEF Lsa, Upto, Newer, IsMoreRecentThan, Distance

\* Encoding a genuine instance changes nothing.
LEMMA EncodeGenuine ==
    ASSUME NEW a \in Lsa, Genuine(a) PROVE Encode(a) = a
BY DEF Lsa, Genuine, Encode

\* A database only moves on: the genuine entries of e are no older than those of d.
Onward(d, e) ==
    \A k \in Keys : d[k] # NoLsa => e[k] # NoLsa /\ Upto(d[k], e[k])

\* What is held stays held.
LEMMA HeldOnward ==
    ASSUME NEW d \in Db, NEW e \in Db, Onward(d, e), NEW h \in Header, Held(d, h)
    PROVE  Held(e, h)
<1>1. h.key \in Keys /\ h.lsa \in Lsa
  BY DEF Header
<1>2. d[h.key] \in Lsa /\ e[h.key] \in Lsa /\ e[h.key] # NoLsa
  BY <1>1 DEF Db, Held, Onward
<1>3. Upto(h.lsa, d[h.key]) /\ Upto(d[h.key], e[h.key])
  BY <1>1 DEF Held, Onward
<1>4. Upto(h.lsa, e[h.key])
  BY <1>1, <1>2, <1>3, UptoTransitive
<1> QED BY <1>2, <1>4 DEF Held

-----------------------------------------------------------------------------
(* Packets on their way.                                                   *)

\* Sending two lists of packets in turn is sending their concatenation.
LEMMA InboundConcat ==
    ASSUME NEW s \in Seq(Packet), NEW t \in Seq(Packet), NEW u \in Seq(Packet),
           NEW hs, NEW d, Inbound((s \o t) \o u, hs, d)
    PROVE  Inbound(s \o (t \o u), hs, d)
<1> DEFINE x == (s \o t) \o u
           y == s \o (t \o u)
<1>1. x \in Seq(Packet) /\ y \in Seq(Packet) /\ Len(x) = Len(y)
  OBVIOUS
<1>2. ASSUME NEW i \in 1 .. Len(x) PROVE x[i] = y[i]
  OBVIOUS
<1>3. Inbound(x, hs, d)
  OBVIOUS
<1> HIDE DEF x, y
<1>4. x = y
  BY <1>1, <1>2, SeqEqual
<1>5. Inbound(y, hs, d)
  BY <1>3, <1>4
<1> QED BY <1>5 DEF y

\* What packets say is typed.
LEMMA SaysType ==
    ASSUME NEW m \in Packet
    PROVE  Described(m) \in SUBSET Header /\ Carried(m) \in SUBSET Header
BY PacketCases DEF Described, Carried, DbDesc, LsUpd

\* While a database moves on, packets stay sound.
LEMMA InboundOnward ==
    ASSUME NEW c \in Seq(Packet), NEW hs \in SUBSET Header, NEW d \in Db, NEW e \in Db,
           Inbound(c, hs, d), Onward(d, e)
    PROVE  Inbound(c, hs, e)
<1>1. ASSUME NEW j \in 1 .. Len(c) PROVE Sound(c[j], e)
  <2>1. c[j] \in Packet /\ Sound(c[j], d)
    BY DEF Inbound
  <2>2. ASSUME NEW h \in Described(c[j]) \cup Carried(c[j]) PROVE Genuine(h.lsa) /\ Held(e, h)
    <3>1. h \in Header
      BY <2>1, <2>2, SaysType
    <3> QED BY <2>1, <2>2, <3>1, HeldOnward DEF Sound
  <2> QED BY <2>1, <2>2 DEF Sound
<1>2. ASSUME NEW h \in hs PROVE Genuine(h.lsa) /\ Held(e, h)
  <2>1. h \in Header /\ Genuine(h.lsa) /\ Held(d, h)
    BY DEF Inbound
  <2> QED BY <2>1, HeldOnward
<1> QED BY <1>1, <1>2 DEF Inbound

\* Taking the oldest packet, and hearing what it describes or less.
LEMMA InboundTail ==
    ASSUME NEW c \in Seq(Packet), c # <<>>, NEW hs, NEW d, Inbound(c, hs, d),
           NEW gs, gs \subseteq hs \cup Described(Head(c))
    PROVE  Inbound(Tail(c), gs, d)
<1>1. Len(c) \in Nat /\ Len(c) > 0 /\ Len(Tail(c)) = Len(c) - 1 /\ Head(c) = c[1]
  OBVIOUS
<1>2. \A j \in 1 .. Len(Tail(c)) : j + 1 \in 1 .. Len(c) /\ Tail(c)[j] = c[j + 1]
  BY <1>1
<1>3. \A h \in gs : h \in hs \/ h \in Described(c[1])
  BY <1>1
<1>4. ASSUME NEW j \in 1 .. Len(Tail(c))
      PROVE  Sound(Tail(c)[j], d) /\ Follows(gs, Carried(Tail(c)[j]))
  <2>1. Sound(c[j + 1], d) /\ Follows(hs, Carried(c[j + 1]))
    BY <1>2 DEF Inbound
  <2>2. 1 \in 1 .. Len(c) /\ 1 < j + 1
    BY <1>1
  <2>3. Follows(Described(c[1]), Carried(c[j + 1]))
    BY <1>2, <2>2 DEF Inbound
  <2> QED BY <1>2, <1>3, <2>1, <2>3 DEF Follows
<1>5. ASSUME NEW i \in 1 .. Len(Tail(c)), NEW j \in 1 .. Len(Tail(c)), i < j
      PROVE  Follows(Described(Tail(c)[i]), Carried(Tail(c)[j]))
  <2>1. i + 1 < j + 1
    BY <1>5
  <2> QED BY <1>2, <2>1 DEF Inbound
<1>6. \A h \in gs : Genuine(h.lsa) /\ Held(d, h)
  <2>1. 1 \in 1 .. Len(c)
    BY <1>1
  <2>2. Sound(c[1], d)
    BY <2>1 DEF Inbound
  <2> QED BY <1>3, <2>2 DEF Inbound, Sound
<1> QED BY <1>4, <1>5, <1>6 DEF Inbound

\* The receiver forgets what it heard.
LEMMA InboundForget ==
    ASSUME NEW c, NEW hs, NEW d, Inbound(c, hs, d), NEW gs, gs \subseteq hs
    PROVE  Inbound(c, gs, d)
BY DEF Inbound, Follows

\* A packet whose LSAs are those of the sender's database may be sent.
LEMMA InboundAppend ==
    ASSUME NEW c \in Seq(Packet), NEW hs \in SUBSET Header, NEW d \in Db, Inbound(c, hs, d),
           NEW m \in Packet, Sound(m, d),
           \A g \in Carried(m) : g.lsa = d[g.key]
    PROVE  Inbound(c \o <<m>>, hs, d)
<1> DEFINE e == c \o <<m>>
<1>1. /\ Len(e) = Len(c) + 1 /\ Len(c) \in Nat
      /\ \A j \in 1 .. Len(c) : e[j] = c[j]
      /\ e[Len(c) + 1] = m
  OBVIOUS
<1> HIDE DEF e
<1>2. \A j \in 1 .. Len(e) : j \in 1 .. Len(c) \/ j = Len(c) + 1
  BY <1>1
<1>3. ASSUME NEW xs, \A h \in xs : Held(d, h) PROVE Follows(xs, Carried(m))
  BY <1>3 DEF Follows, Held
<1>4. Follows(hs, Carried(m))
  BY <1>3 DEF Inbound
<1>5. \A i \in 1 .. Len(c) : Follows(Described(c[i]), Carried(m))
  BY <1>3 DEF Inbound, Sound
<1>6. ASSUME NEW j \in 1 .. Len(e) PROVE Sound(e[j], d) /\ Follows(hs, Carried(e[j]))
  BY <1>1, <1>2, <1>4 DEF Inbound
<1>7. ASSUME NEW i \in 1 .. Len(e), NEW j \in 1 .. Len(e), i < j
      PROVE  Follows(Described(e[i]), Carried(e[j]))
  <2>1. i \in 1 .. Len(c)
    BY <1>1, <1>7
  <2>2. CASE j \in 1 .. Len(c)
    BY <1>1, <1>7, <2>1, <2>2 DEF Inbound
  <2>3. CASE j = Len(c) + 1
    BY <1>1, <1>5, <2>1, <2>3
  <2> QED BY <1>2, <2>2, <2>3
<1>8. \A h \in hs : Genuine(h.lsa) /\ Held(d, h)
  BY DEF Inbound
<1> QED BY <1>6, <1>7, <1>8 DEF Inbound, e

\* The network may deliver the oldest packet twice.
LEMMA InboundTwice ==
    ASSUME NEW c \in Seq(Packet), c # <<>>, NEW hs, NEW d, Inbound(c, hs, d)
    PROVE  Inbound(<<Head(c)>> \o c, hs, d)
<1> DEFINE e == <<Head(c)>> \o c
<1>1. /\ Len(e) = Len(c) + 1 /\ Len(c) \in Nat /\ Len(c) > 0
      /\ e[1] = c[1]
      /\ \A j \in 2 .. Len(e) : j - 1 \in 1 .. Len(c) /\ e[j] = c[j - 1]
  OBVIOUS
<1> HIDE DEF e
<1>2. \A j \in 1 .. Len(e) : j = 1 \/ j \in 2 .. Len(e)
  BY <1>1
<1>3. 1 \in 1 .. Len(c)
  BY <1>1
<1>4. ASSUME NEW j \in 1 .. Len(e) PROVE Sound(e[j], d) /\ Follows(hs, Carried(e[j]))
  BY <1>1, <1>2, <1>3 DEF Inbound
<1>5. ASSUME NEW i \in 1 .. Len(e), NEW j \in 1 .. Len(e), i < j
      PROVE  Follows(Described(e[i]), Carried(e[j]))
  <2>1. j \in 2 .. Len(e)
    BY <1>1, <1>5
  <2>2. CASE i = 1 /\ j = 2
    BY <1>1, <2>1, <2>2 DEF Follows, Described, Carried
  <2>3. CASE i = 1 /\ j # 2
    <3>1. 1 < j - 1
      BY <1>1, <2>1, <2>3
    <3> QED BY <1>1, <1>3, <2>1, <2>3, <3>1 DEF Inbound
  <2>4. CASE i # 1
    <3>1. i \in 2 .. Len(e) /\ i - 1 < j - 1
      BY <1>1, <1>2, <1>5, <2>4
    <3> QED BY <1>1, <2>1, <3>1 DEF Inbound
  <2> QED BY <2>2, <2>3, <2>4
<1>6. \A h \in hs : Genuine(h.lsa) /\ Held(d, h)
  BY DEF Inbound
<1> QED BY <1>4, <1>5, <1>6 DEF Inbound, e

-----------------------------------------------------------------------------
(* The database.                                                           *)

AllGenuine(d) == \A k \in Keys : d[k] # NoLsa => Genuine(d[k])

\* A database that leaves no older instance and stays genuine moves on.
LEMMA NotOlderOnward ==
    ASSUME NEW d \in Db, NEW e \in Db, NotOlder(d, e, Keys), AllGenuine(d), AllGenuine(e)
    PROVE  Onward(d, e)
<1> SUFFICES ASSUME NEW k \in Keys, d[k] # NoLsa PROVE e[k] # NoLsa /\ Upto(d[k], e[k])
  BY DEF Onward
<1>1. e[k] # NoLsa /\ ~Newer(d[k], e[k])
  BY DEF NotOlder
<1>2. d[k] \in Lsa /\ e[k] \in Lsa /\ d[k].age = 0 /\ e[k].age = 0
  BY <1>1 DEF Db, AllGenuine, Genuine
<1> QED BY <1>1, <1>2, UptoIsNotNewer

\* Sequence numbers never go back.
LEMMA NotOlderSeq ==
    ASSUME NEW d \in Db, NEW e, NotOlder(d, e, Keys), NEW k \in Keys, d[k] # NoLsa
    PROVE  e[k] # NoLsa /\ d[k].seq <= e[k].seq
<1>1. e[k] # NoLsa /\ ~Newer(d[k], e[k])
  BY DEF NotOlder
<1>2. d[k] \in Lsa /\ e[k] \in Lsa
  BY <1>1 DEF Db, NotOlder
<1> QED BY <1>1, <1>2, SeqAssumption DEF Newer, IsMoreRecentThan, Lsa

\* What a router originates is genuine.
LEMMA OriginatedGenuine ==
    ASSUME NEW d, NEW k, NEW b PROVE Genuine(Originated(d, k, b))
BY DEF Originated, Encode, Genuine

\* Re-origination leaves the other entries alone and keeps the database genuine.
LEMMA OriginateGenuine ==
    ASSUME NEW d \in Db, AllGenuine(d), NEW r \in RouterIds, NEW b \in Bodies
    PROVE  /\ AllGenuine(Originate(d, r, b)) /\ Originate(d, r, b) \in Db
           /\ \A k \in Keys : k # r => Originate(d, r, b)[k] = d[k]
<1>1. r \in Keys /\ d \in [Keys -> Lsa \cup {NoLsa}]
  BY DEF Keys, Db
<1>2. Originated(d, r, b) \in Lsa /\ Genuine(Originated(d, r, b))
  BY <1>1, OriginatedType, OriginatedGenuine
<1> QED BY <1>1, <1>2 DEF Originate, Install, AllGenuine, Db

\* While sequence numbers are left, what is originated is what is installed.
LEMMA OriginateInstalls ==
    ASSUME NEW d \in Db, NEW r \in RouterIds, NEW b \in Bodies, d[r] # NoLsa,
           Originate(d, r, b)[r].seq < MaxSeq
    PROVE  Originate(d, r, b)[r] = Originated(d, r, b)
<1> DEFINE own == Originated(d, r, b)
<1>1. r \in Keys /\ d[r] \in Lsa
  BY DEF Keys, Db
<1>2. CASE d[r].seq = MaxSeq
  <2>1. d \in [Keys -> Lsa \cup {NoLsa}]
    BY DEF Db
  <2>2. NotOlder(d, Originate(d, r, b), Keys)
    BY <1>1, <2>1, OriginateNotOlder
  <2>3. d[r].seq <= Originate(d, r, b)[r].seq
    BY <1>1, <2>2, NotOlderSeq
  <2>4. Originate(d, r, b)[r] \in Lsa
    BY <1>1, <2>2 DEF NotOlder
  <2> QED BY <1>1, <1>2, <2>3, <2>4, SeqAssumption DEF Lsa
<1>3. CASE d[r].seq # MaxSeq
  <2>1. own.seq = d[r].seq + 1
    BY <1>3 DEF Originated, Encode, NextSeq, WrappingSucc
  <2>2. IsMoreRecentThan(own, d[r]) = "Greater"
    BY <1>1, <2>1, SeqAssumption DEF IsMoreRecentThan, Lsa
  <2> HIDE DEF own
  <2>3. Changed(InstallResult(d, r, own))
    BY <2>2 DEF Changed, InstallResult
  <2> QED BY <1>1, <2>3 DEF Originate, Install, own, Db
<1> QED BY <1>2, <1>3

\* The entry for a key after a packet with at most one LSA for it.
LEMMA InstallAllEntry ==
    ASSUME NEW d \in Db, NEW lsas \in SUBSET Header, OnePerKey(lsas), NEW g \in lsas
    PROVE  InstallAll(d, lsas)[g.key] = Install(d, g.key, g.lsa)[g.key]
<1>1. g.key \in Keys
  BY DEF Header
<1>2. (CHOOSE h \in lsas : h.key = g.key) = g
  BY DEF OnePerKey
<1> QED BY <1>1, <1>2 DEF InstallAll

\* Entries that change are those of the packet.
LEMMA InstallAllSource ==
    ASSUME NEW d \in Db, NEW lsas \in SUBSET Header, NEW k \in Keys,
           InstallAll(d, lsas)[k] # d[k]
    PROVE  \E h \in lsas : h.key = k /\ InstallAll(d, lsas)[k] = h.lsa
<1> DEFINE h == CHOOSE h \in lsas : h.key = k
<1>1. \E x \in lsas : x.key = k
  BY DEF InstallAll
<1>2. h \in lsas /\ h.key = k
  BY <1>1
<1>3. InstallAll(d, lsas)[k] = Install(d, k, h.lsa)[k]
  BY <1>1 DEF InstallAll
<1> HIDE DEF h
<1>4. InstallAll(d, lsas)[k] = h.lsa
  BY <1>3 DEF Install, Db
<1> QED BY <1>2, <1>4

\* An update that is not older than what we have leaves us with it, or better.
LEMMA InstallHolds ==
    ASSUME NEW d \in Db, AllGenuine(d), NEW g \in Header, Genuine(g.lsa),
           InstallResult(d, g.key, g.lsa) # "Older"
    PROVE  LET e == Install(d, g.key, g.lsa)[g.key] IN e # NoLsa /\ Upto(g.lsa, e)
<1> DEFINE e == Install(d, g.key, g.lsa)[g.key]
<1>1. g.key \in Keys /\ g.lsa \in Lsa /\ g.lsa # NoLsa
  BY LsaAssumption DEF Header
<1>2. CASE Changed(InstallResult(d, g.key, g.lsa))
  <2>1. e = g.lsa
    BY <1>1, <1>2 DEF Install, Db
  <2> QED BY <1>1, <2>1, UptoReflexive
<1>3. CASE ~Changed(InstallResult(d, g.key, g.lsa))
  <2>1. e = d[g.key] /\ d[g.key] # NoLsa
    BY <1>1, <1>3 DEF Install, InstallResult, Changed
  <2>2. d[g.key] \in Lsa /\ d[g.key].age = 0 /\ g.lsa.age = 0
    BY <1>1, <2>1 DEF Db, AllGenuine, Genuine
  <2>3. ~Newer(g.lsa, d[g.key])
    BY <1>3, <2>1 DEF Newer, InstallResult, Changed
  <2> QED BY <1>1, <2>1, <2>2, <2>3, UptoIsNotNewer
<1> QED BY <1>2, <1>3

\* A header for which nothing is needed is held.
LEMMA NotNeededHeld ==
    ASSUME NEW d \in Db, AllGenuine(d), NEW hs \in SUBSET Header, NEW h \in hs,
           Genuine(h.lsa), h.key \notin Needed(d, hs)
    PROVE  Held(d, h)
<1>1. h.key \in Keys /\ h.lsa \in Lsa
  BY DEF Header
<1>2. d[h.key] # NoLsa /\ ~Newer(h.lsa, d[h.key])
  BY DEF Needed
<1>3. d[h.key] \in Lsa /\ d[h.key].age = 0 /\ h.lsa.age = 0
  BY <1>1, <1>2 DEF Db, AllGenuine, Genuine
<1> QED BY <1>1, <1>2, <1>3, UptoIsNotNewer DEF Held

-----------------------------------------------------------------------------
(* The neighbor record.                                                    *)

\* process_hello leaves an exchange as it is or ends it.
LEMMA AfterHelloExchange ==
    ASSUME NEW n \in Neighbor, NEW sees \in BOOLEAN,
           AfterHello(n, sees).state \in ExchangeOrBetter
    PROVE  AfterHello(n, sees) = n
BY DEF AfterHello, HandleEvent, To, ClearLists, Neighbor, NeighborState, ExchangeOrBetter,
       ExStartOrBetter, TwoWayOrBetter, InitOrBetter

\* A refused request ends the exchange.
LEMMA BadLsReqExchange ==
    ASSUME NEW n \in Neighbor
    PROVE  HandleEvent(n, "BadLsReq", FALSE).state \notin ExchangeOrBetter
BY DEF HandleEvent, To, ClearLists, Neighbor, NeighborState, ExchangeOrBetter,
       ExStartOrBetter, TwoWayOrBetter, InitOrBetter

\* Only LSAs that came are taken off the list, and no update ends an exchange.
LEMMA AfterLsasExchange ==
    ASSUME NEW n \in Neighbor, NEW ks
    PROVE  /\ AfterLsas(n, ks).ls_request_list = n.ls_request_list \ ks
           /\ AfterLsas(n, ks).db_summary_list = n.db_summary_list
           /\ AfterLsas(n, ks).state \in ExchangeOrBetter <=> n.state \in ExchangeOrBetter
BY DEF AfterLsas, HandleEvent, To, ClearLists, Neighbor, NeighborState, ExchangeOrBetter,
       ExStartOrBetter, TwoWayOrBetter, InitOrBetter

\* Within an exchange a DD adds what it makes necessary to the requests; the headers
\* still to be described are from before or from the database as it is.
LEMMA AfterDbDescExchange ==
    ASSUME NEW r \in RouterIds, NEW n \in Neighbor, NEW m \in DbDesc, NEW d
    PROVE  LET x == AfterDbDesc(r, n, m, d)
           IN  /\ x.db_summary_list \subseteq n.db_summary_list \cup AllHeaders(d)
               /\ x.state \in ExchangeOrBetter =>
                    /\ n.ls_request_list \subseteq x.ls_request_list
                    /\ n.state \in {"ExStart", "Exchange"} =>
                         Needed(d, m.headers) \subseteq x.ls_request_list
                    /\ n.state \notin {"ExStart", "Exchange"} => n.state \in ExchangeOrBetter
<1> USE DEF ExchangeOrBetter, ExStartOrBetter, TwoWayOrBetter, InitOrBetter, NeighborState
<1> DEFINE ks == Needed(d, m.headers)
           x  == Negotiate(r, n, m, d)
           n1 == CASE n.state = "ExStart" ->
                        (IF x.state = "Exchange" THEN Request(x, ks) ELSE x)
                   [] n.state = "Exchange" -> FinishExchange(Request(n, ks), m)
                   [] OTHER -> n
           Good(y) == /\ y.db_summary_list \subseteq n.db_summary_list \cup AllHeaders(d)
                      /\ y.state \in ExchangeOrBetter =>
                           /\ n.ls_request_list \subseteq y.ls_request_list
                           /\ n.state \in {"ExStart", "Exchange"} => ks \subseteq y.ls_request_list
                           /\ n.state \notin {"ExStart", "Exchange"} => n.state \in ExchangeOrBetter
<1>1. AfterDbDesc(r, n, m, d) =
        [n1 EXCEPT !.dd_seq_number =
            IF n1.state = "Exchange" /\ ~n1.is_master THEN m.seq ELSE @]
  BY DEF AfterDbDesc
<1>2. Good(n1)
  <2>1. CASE n.state = "ExStart"
    <3>1. \/ x = n
          \/ \E master, seq : x = BeginExchange(n, master, seq, d)
      BY DEF Negotiate
    <3>2. CASE x = n
      BY <2>1, <3>2
    <3>3. CASE \E master, seq : x = BeginExchange(n, master, seq, d)
      <4>1. PICK master, seq : x = BeginExchange(n, master, seq, d)
        BY <3>3
      <4>2. /\ x.state = "Exchange" /\ x.ls_request_list = n.ls_request_list
            /\ x.db_summary_list = AllHeaders(d)
            /\ Request(x, ks).ls_request_list = x.ls_request_list \cup ks
            /\ Request(x, ks).db_summary_list = x.db_summary_list
        <5> HIDE DEF ks
        <5> QED BY <2>1, <4>1 DEF BeginExchange, HandleEvent, To, Neighbor, Request
      <4> HIDE DEF ks, x
      <4> QED BY <2>1, <4>2
    <3> QED BY <3>1, <3>2, <3>3
  <2>2. CASE n.state = "Exchange"
    <3> HIDE DEF ks, x
    <3>1. /\ FinishExchange(Request(n, ks), m).ls_request_list = n.ls_request_list \cup ks
          /\ FinishExchange(Request(n, ks), m).db_summary_list = n.db_summary_list
      BY <2>2 DEF FinishExchange, Request, HandleEvent, To, Neighbor
    <3> QED BY <2>2, <3>1
  <2>3. CASE n.state \notin {"ExStart", "Exchange"}
    BY <2>3
  <2> QED BY <2>1, <2>2, <2>3
<1> QED BY <1>1, <1>2

-----------------------------------------------------------------------------
(* Every action preserves the invariant.                                   *)

\* One step of router r: its record becomes n, its database d, what it has heard hs, its
\* queue c and that of its peer e; the peer itself does nothing.
Moves(r, n, d, hs, c, e) ==
    /\ nbr'[r] = n /\ nbr'[Peer(r)] = nbr[Peer(r)]
    /\ db'[r] = d /\ db'[Peer(r)] = db[Peer(r)]
    /\ heard'[r] = hs /\ heard'[Peer(r)] = heard[Peer(r)]
    /\ chan'[r] = c /\ chan'[Peer(r)] = e

\* The peer of the peer.
LEMMA PeerPeer ==
    ASSUME NEW r \in RouterIds
    PROVE  Peer(Peer(r)) = r /\ \A q \in RouterIds : q = r \/ q = Peer(r)
BY PeerType, RouterAssumption

\* The variables of router r have their types.
LEMMA Types ==
    ASSUME IInv, NEW r \in RouterIds
    PROVE  /\ NbrInv(r, nbr[r]) /\ nbr[r] \in Neighbor /\ db[r] \in Db
           /\ heard[r] \in SUBSET Header /\ chan[r] \in Seq(Packet)
           /\ r \in Keys
BY DEF IInv, TypeOK, NbrInv, Db, Keys

\* What a step has to show.
LEMMA Assemble ==
    ASSUME IInv, Pursuit, NEW r \in RouterIds, db[r][r] # NoLsa,
           NEW n, NEW d \in Db, NEW hs, NEW c, NEW e, Moves(r, n, d, hs, c, e),
           Local(n, d, hs), Onward(db[r], d),
           Inbound(c, hs, db[Peer(r)]), Inbound(e, heard[Peer(r)], d),
           Behind(d, Peer(r), db[Peer(r)])
    PROVE  Pursuit'
<1> DEFINE p == Peer(r)
<1>1. p \in RouterIds /\ p # r /\ Peer(p) = r
  BY PeerType, PeerPeer
<1>2. Behind(db[p], r, d)
  <2> SUFFICES ASSUME db[p][r] # NoLsa PROVE Upto(db[p][r], d[r])
    BY DEF Behind
  <2>1. db[p] \in Db /\ db[r] \in Db /\ r \in Keys
    BY <1>1, Types
  <2>2. Upto(db[p][r], db[r][r])
    BY DEF Pursuit, Behind
  <2>3. Upto(db[r][r], d[r]) /\ d[r] # NoLsa
    BY <2>1 DEF Onward
  <2>4. db[p][r] \in Lsa /\ db[r][r] \in Lsa /\ d[r] \in Lsa
    BY <2>1, <2>3 DEF Db
  <2> QED BY <2>2, <2>3, <2>4, UptoTransitive
<1>3. /\ Local(nbr'[r], db'[r], heard'[r])
      /\ Inbound(chan'[r], heard'[r], db'[p])
      /\ Behind(db'[p], r, db'[r])
  BY <1>2 DEF Moves
<1>4. /\ Local(nbr'[p], db'[p], heard'[p])
      /\ Inbound(chan'[p], heard'[p], db'[r])
      /\ Behind(db'[r], p, db'[p])
  BY <1>1 DEF Moves, Pursuit
<1>5. \A q \in RouterIds : q = r \/ q = p
  BY PeerPeer
<1>6. \A q \in RouterIds :
        /\ Local(nbr'[q], db'[q], heard'[q])
        /\ Inbound(chan'[q], heard'[q], db'[Peer(q)])
        /\ Behind(db'[Peer(q)], q, db'[q])
  BY <1>1, <1>3, <1>4, <1>5
<1> QED BY <1>6 DEF Pursuit

\* A handler moves its router.
LEMMA HandlerMoves ==
    ASSUME IInv, NEW r \in RouterIds, NEW n, NEW x, NEW hs, NEW os, NEW ps, NEW d,
           Update(r, n), Answer(r, ps), Remember(r, x, hs, os),
           db' = [db EXCEPT ![r] = d] \/ (UNCHANGED db /\ d = db[r])
    PROVE  Moves(r, n, d, IF x.state \in ExchangeOrBetter THEN hs ELSE {},
                 Tail(chan[r]), chan[Peer(r)] \o ps)
<1>1. Peer(r) \in RouterIds /\ Peer(r) # r
  BY PeerType
<1>2. nbr'[r] = n /\ nbr'[Peer(r)] = nbr[Peer(r)]
  BY <1>1 DEF IInv, TypeOK, Update
<1>3. db'[r] = d /\ db'[Peer(r)] = db[Peer(r)]
  BY <1>1 DEF IInv, TypeOK
<1>4. /\ heard'[r] = (IF x.state \in ExchangeOrBetter THEN hs ELSE {})
      /\ heard'[Peer(r)] = heard[Peer(r)]
  BY <1>1 DEF IInv, TypeOK, Remember
<1>5. chan'[r] = Tail(chan[r]) /\ chan'[Peer(r)] = chan[Peer(r)] \o ps
  BY <1>1 DEF IInv, TypeOK, Answer
<1> QED BY <1>2, <1>3, <1>4, <1>5 DEF Moves

\* A database that does not change moves on.
LEMMA OnwardSame == ASSUME NEW d \in Db PROVE Onward(d, d)
<1> SUFFICES ASSUME NEW k \in Keys, d[k] # NoLsa PROVE Upto(d[k], d[k])
  BY DEF Onward
<1>1. d[k] \in Lsa
  BY DEF Db
<1> QED BY <1>1, UptoReflexive

\* Outside an exchange there is nothing to pursue.
LEMMA LocalIdle ==
    ASSUME NEW r \in RouterIds, NEW n, NbrInv(r, n), n.state \notin ExchangeOrBetter,
           NEW d, AllGenuine(d)
    PROVE  Local(n, d, {})
<1>1. n.state # "Exchange"
  BY DEF ExchangeOrBetter, ExStartOrBetter, TwoWayOrBetter, InitOrBetter, NeighborState
<1> QED BY <1>1 DEF Local, AllGenuine, NbrInv

\* What Pursuit says of router r.
LEMMA PursuitAt ==
    ASSUME IInv, Pursuit, NEW r \in RouterIds
    PROVE  /\ Local(nbr[r], db[r], heard[r]) /\ AllGenuine(db[r])
           /\ Inbound(chan[r], heard[r], db[Peer(r)])
           /\ Inbound(chan[Peer(r)], heard[Peer(r)], db[r])
           /\ Behind(db[r], Peer(r), db[Peer(r)])
BY PeerType, PeerPeer DEF Pursuit, Local, AllGenuine

\* Packets that say nothing about LSAs may always be sent.
LEMMA InboundSilent ==
    ASSUME NEW c \in Seq(Packet), NEW hs \in SUBSET Header, NEW d \in Db, Inbound(c, hs, d),
           NEW m \in Packet, m.type \in {"hello", "lsr"} \/ (m.type = "dd" /\ m.headers = {})
    PROVE  Inbound(c \o <<m>>, hs, d)
<1>1. Described(m) = {} /\ Carried(m) = {}
  BY DEF Described, Carried
<1>2. Sound(m, d)
  BY <1>1 DEF Sound, OnePerKey
<1> QED BY <1>1, <1>2, InboundAppend

\* process_hello.
LEMMA HelloPursuit ==
    ASSUME IInv, IInv', Pursuit, NEW r \in RouterIds, db[r][r] # NoLsa, chan[r] # <<>>,
           NEW m \in Hello, m = Head(chan[r]), ProcessHello(r, m)
    PROVE  Pursuit'
<1> DEFINE n == AfterHello(nbr[r], m.sees)
           hs == IF n.state \in ExchangeOrBetter THEN heard[r] ELSE {}
<1>1. /\ Update(r, n) /\ Remember(r, n, heard[r], offered[r]) /\ Answer(r, <<>>)
      /\ UNCHANGED db
  BY DEF ProcessHello
<1>2. Moves(r, n, db[r], hs, Tail(chan[r]), chan[Peer(r)] \o <<>>)
  <2> HIDE DEF n
  <2> QED BY <1>1, HandlerMoves
<1>3. chan[Peer(r)] \o <<>> = chan[Peer(r)]
  <2>1. chan[Peer(r)] \in Seq(Packet)
    BY PeerType, Types
  <2> QED BY <2>1
<1>4. n.state \in ExchangeOrBetter => n = nbr[r]
  BY AfterHelloExchange, Types DEF Hello
<1> HIDE DEF n
<1>5. NbrInv(r, n)
  BY <1>2 DEF Moves, IInv
<1>6. Local(n, db[r], hs)
  <2>1. CASE n.state \in ExchangeOrBetter
    BY <1>4, <2>1, PursuitAt
  <2>2. CASE n.state \notin ExchangeOrBetter
    BY <1>5, <2>2, PursuitAt, LocalIdle
  <2> QED BY <2>1, <2>2
<1>7. Inbound(Tail(chan[r]), hs, db[Peer(r)])
  BY PursuitAt, Types, InboundTail
<1> HIDE DEF hs
<1> QED BY <1>2, <1>3, <1>6, <1>7, Types, OnwardSame, PursuitAt, Assemble

\* LSAs of the sender's own database make a sound update.
LEMMA LsuSound ==
    ASSUME NEW d \in Db, AllGenuine(d), NEW gs \in SUBSET Header,
           \A g \in gs : d[g.key] # NoLsa /\ g.lsa = d[g.key]
    PROVE  /\ Lsu(gs) \in Packet /\ Sound(Lsu(gs), d)
           /\ \A g \in Carried(Lsu(gs)) : g.lsa = d[g.key]
<1>1. Lsu(gs) \in Packet
  BY LsTypes
<1>2. \A g \in gs : g.lsa \in Lsa /\ Genuine(g.lsa) /\ g.key \in Keys
  BY DEF Header, AllGenuine
<1>3. \A g \in gs : [g EXCEPT !.lsa = Encode(g.lsa)] = g
  BY <1>2, EncodeGenuine DEF Header
<1>4. Lsu(gs).lsas = gs /\ Lsu(gs).type = "lsu"
  BY <1>3 DEF Lsu
<1>5. Carried(Lsu(gs)) = gs /\ Described(Lsu(gs)) = {}
  BY <1>4 DEF Carried, Described
<1>6. \A g \in gs : Held(d, g)
  BY <1>2, UptoReflexive DEF Held
<1>7. OnePerKey(gs)
  BY DEF OnePerKey, Header
<1> QED BY <1>1, <1>2, <1>5, <1>6, <1>7 DEF Sound

\* process_lsr.
LEMMA LsReqPursuit ==
    ASSUME IInv, IInv', Pursuit, NEW r \in RouterIds, db[r][r] # NoLsa, chan[r] # <<>>,
           NEW m \in LsReq, m = Head(chan[r]), ProcessLsReq(r, m)
    PROVE  Pursuit'
<1> DEFINE bad == \E k \in m.keys : db[r][k] = NoLsa
           n   == IF bad THEN HandleEvent(nbr[r], "BadLsReq", FALSE) ELSE nbr[r]
           hs  == IF n.state \in ExchangeOrBetter THEN heard[r] ELSE {}
           gs  == {[key |-> k, lsa |-> db[r][k]] : k \in m.keys}
           ps  == IF bad \/ m.keys = {} THEN <<>> ELSE <<Lsu(gs)>>
<1>1. /\ Update(r, n) /\ Remember(r, n, heard[r], offered[r]) /\ Answer(r, ps)
      /\ UNCHANGED db
  BY DEF ProcessLsReq
<1>2. Moves(r, n, db[r], hs, Tail(chan[r]), chan[Peer(r)] \o ps)
  <2> HIDE DEF n, ps
  <2> QED BY <1>1, HandlerMoves
<1>3. Inbound(chan[Peer(r)] \o ps, heard[Peer(r)], db[r])
  <2>1. /\ chan[Peer(r)] \in Seq(Packet) /\ heard[Peer(r)] \in SUBSET Header
        /\ db[r] \in Db
    BY PeerType, Types
  <2>2. CASE bad \/ m.keys = {}
    <3>1. ps = <<>>
      BY <2>2
    <3> HIDE DEF ps
    <3>2. chan[Peer(r)] \o ps = chan[Peer(r)]
      BY <2>1, <3>1
    <3> QED BY <3>2, PursuitAt
  <2>3. CASE ~(bad \/ m.keys = {})
    <3>1. gs \in SUBSET Header /\ \A g \in gs : db[r][g.key] # NoLsa /\ g.lsa = db[r][g.key]
      BY <2>1, <2>3 DEF LsReq, Header, Db
    <3> HIDE DEF gs, bad
    <3>2. Inbound(chan[Peer(r)] \o <<Lsu(gs)>>, heard[Peer(r)], db[r])
      BY <2>1, <3>1, PursuitAt, LsuSound, InboundAppend
    <3> QED BY <2>3, <3>2
  <2> QED BY <2>2, <2>3
<1>4. n.state \in ExchangeOrBetter => n = nbr[r]
  BY BadLsReqExchange, Types
<1> HIDE DEF n, ps
<1>5. NbrInv(r, n)
  BY <1>2 DEF Moves, IInv
<1>6. Local(n, db[r], hs)
  <2>1. CASE n.state \in ExchangeOrBetter
    BY <1>4, <2>1, PursuitAt
  <2>2. CASE n.state \notin ExchangeOrBetter
    BY <1>5, <2>2, PursuitAt, LocalIdle
  <2> QED BY <2>1, <2>2
<1>7. Inbound(Tail(chan[r]), hs, db[Peer(r)])
  BY PursuitAt, Types, InboundTail
<1> HIDE DEF hs
<1> QED BY <1>2, <1>3, <1>6, <1>7, Types, OnwardSame, PursuitAt, Assemble

\* process_dd.  The stale-self recovery has nothing to do: without restarts nobody has a
\* newer instance of our Router-LSA than we.
LEMMA BumpSelfIdle ==
    ASSUME IInv, Pursuit, NEW r \in RouterIds, db[r][r] # NoLsa,
           NEW hs \in SUBSET Header, \A h \in hs : Held(db[Peer(r)], h)
    PROVE  BumpSelf(db[r], r, hs) = db[r]
<1>1. CASE \E h \in hs : h.key = r
  <2> DEFINE h == CHOOSE h \in hs : h.key = r
  <2>1. h \in hs /\ h.key = r
    BY <1>1
  <2>2. BumpSelf(db[r], r, hs) = BumpSeq(db[r], r, h.lsa.seq)
    BY <1>1 DEF BumpSelf
  <2> HIDE DEF h
  <2>3. db[Peer(r)][r] # NoLsa /\ Upto(h.lsa, db[Peer(r)][r])
    BY <2>1 DEF Held
  <2>4. Upto(db[Peer(r)][r], db[r][r])
    BY <2>3 DEF Pursuit, Behind
  <2>5. h.lsa \in Lsa /\ db[Peer(r)][r] \in Lsa /\ db[r][r] \in Lsa
    BY <2>1, <2>3, Types, PeerType DEF Header, Db
  <2>6. Upto(h.lsa, db[r][r])
    BY <2>3, <2>4, <2>5, UptoTransitive
  <2>7. ~(db[r][r].seq < h.lsa.seq)
    BY <2>5, <2>6, SeqAssumption DEF Upto, Lsa
  <2> QED BY <2>2, <2>7 DEF BumpSeq
<1>2. CASE ~\E h \in hs : h.key = r
  BY <1>2 DEF BumpSelf
<1> QED BY <1>1, <1>2

\* process_dd.
LEMMA DbDescPursuit ==
    ASSUME IInv, IInv', Pursuit, NEW r \in RouterIds, db[r][r] # NoLsa, chan[r] # <<>>,
           NEW m \in DbDesc, m = Head(chan[r]), ProcessDbDesc(r, m)
    PROVE  Pursuit'
<1> DEFINE d == BumpSelf(db[r], r, m.headers)
           n == AfterDbDesc(r, nbr[r], m, d)
           talk == nbr[r].state \in {"ExStart", "Exchange"}
           hs == IF talk THEN heard[r] \cup m.headers ELSE heard[r]
           os == IF nbr[r].state = "ExStart" THEN AllHeaders(d) ELSE offered[r]
           gs == IF n.state \in ExchangeOrBetter THEN hs ELSE {}
           sent(page) == IF n.state = "Exchange" THEN AfterDd(n, page) ELSE n
           dds(page) == CASE n.state = "ExStart"  -> <<InitialDd(n)>>
                          [] n.state = "Exchange" -> <<PageDd(sent(page), page)>>
                          [] OTHER -> <<>>
           lsrs(ks) == IF ks = {} THEN <<>> ELSE <<Lsr(ks)>>
           p == Peer(r)
<1>0. /\ m.headers \in SUBSET Header /\ Described(m) = m.headers
      /\ p \in RouterIds /\ db[r] \in Db /\ db[p] \in Db /\ nbr[r] \in Neighbor
      /\ chan[p] \in Seq(Packet) /\ heard[p] \in SUBSET Header /\ heard[r] \in SUBSET Header
  BY Types, PeerType DEF DbDesc, Described
<1>1. \A h \in m.headers : Genuine(h.lsa) /\ Held(db[p], h)
  <2>1. Sound(m, db[p])
    <3>1. chan[r] \in Seq(Packet)
      BY Types
    <3>2. 1 \in 1 .. Len(chan[r]) /\ m = chan[r][1]
      BY <3>1
    <3> QED BY <3>2, PursuitAt DEF Inbound
  <2> QED BY <1>0, <2>1 DEF Sound
<1>2. d = db[r]
  BY <1>0, <1>1, BumpSelfIdle
<1>3. PICK page \in IF n.state = "Exchange" THEN Pages(n) ELSE {{}},
           ks \in IF n.state \in ExchangeOrBetter THEN Batches(n) ELSE {{}} :
        /\ Update(r, sent(page))
        /\ db' = [db EXCEPT ![r] = d]
        /\ Answer(r, dds(page) \o lsrs(ks))
        /\ Remember(r, n, hs, os)
  BY DEF ProcessDbDesc
<1>4. Moves(r, sent(page), db[r], gs, Tail(chan[r]), chan[p] \o (dds(page) \o lsrs(ks)))
  <2> HIDE DEF d, n, hs, os, sent, dds, lsrs
  <2> QED BY <1>2, <1>3, HandlerMoves
<1>5. /\ n.db_summary_list \subseteq nbr[r].db_summary_list \cup AllHeaders(db[r])
      /\ n.state \in ExchangeOrBetter =>
           /\ nbr[r].ls_request_list \subseteq n.ls_request_list
           /\ talk => Needed(db[r], m.headers) \subseteq n.ls_request_list
  <2> HIDE DEF d
  <2> QED BY <1>0, <1>2, AfterDbDescExchange
<1>6. NbrInv(r, n) /\ n \in Neighbor
  <2>1. NbrInv(r, n)
    <3> HIDE DEF d
    <3> QED BY <1>0, <1>2, Types, AfterDbDescInv
  <2> QED BY <2>1 DEF NbrInv
<1>7. AllGenuine(db[r]) /\ Local(nbr[r], db[r], heard[r])
  BY PursuitAt
<1> HIDE DEF d, n, os
<1>8. \A h \in n.db_summary_list : Genuine(h.lsa) /\ Held(db[r], h)
  <2>1. \A h \in AllHeaders(db[r]) : Genuine(h.lsa) /\ Held(db[r], h)
    <3> SUFFICES ASSUME NEW k \in Keys, db[r][k] # NoLsa
                 PROVE  LET h == [key |-> k, lsa |-> db[r][k]]
                        IN  Genuine(h.lsa) /\ Held(db[r], h)
      BY DEF AllHeaders
    <3>1. db[r][k] \in Lsa /\ Genuine(db[r][k])
      BY <1>0, <1>7 DEF Db, AllGenuine
    <3> QED BY <3>1, UptoReflexive DEF Held
  <2> QED BY <1>5, <1>7, <2>1 DEF Local
<1>9. Local(n, db[r], gs)
  <2>1. CASE n.state \notin ExchangeOrBetter
    BY <1>6, <1>7, <2>1, LocalIdle
  <2>2. CASE n.state \in ExchangeOrBetter
    <3>1. ASSUME NEW h \in heard[r] PROVE h.key \in n.ls_request_list \/ Held(db[r], h)
      BY <1>5, <1>7, <2>2 DEF Local
    <3>2. ASSUME NEW h \in m.headers, talk
          PROVE  h.key \in n.ls_request_list \/ Held(db[r], h)
      <4>1. CASE h.key \in Needed(db[r], m.headers)
        BY <1>5, <2>2, <3>2, <4>1
      <4>2. CASE h.key \notin Needed(db[r], m.headers)
        BY <1>0, <1>1, <1>7, <4>2, NotNeededHeld
      <4> QED BY <4>1, <4>2
    <3>3. \A h \in gs : h.key \in n.ls_request_list \/ Held(db[r], h)
      BY <2>2, <3>1, <3>2
    <3> HIDE DEF gs
    <3> QED BY <1>7, <1>8, <2>2, <3>3 DEF Local, AllGenuine
  <2> QED BY <2>1, <2>2
<1>10. Local(sent(page), db[r], gs)
  <2>1. CASE n.state # "Exchange"
    BY <1>9, <2>1
  <2>2. CASE n.state = "Exchange"
    <3> DEFINE x == AfterDd(n, page)
    <3>1. /\ x.state = n.state /\ x.ls_request_list = n.ls_request_list
          /\ x.db_summary_list \subseteq n.db_summary_list
      BY <1>6 DEF AfterDd, Neighbor
    <3> HIDE DEF x, gs
    <3>2. Local(x, db[r], gs)
      BY <1>9, <3>1 DEF Local
    <3> QED BY <2>2, <3>2 DEF x
  <2> QED BY <2>1, <2>2
<1>11. Inbound(Tail(chan[r]), gs, db[p])
  <2>1. gs \subseteq heard[r] \cup Described(Head(chan[r]))
    BY <1>0
  <2> HIDE DEF gs
  <2> QED BY <2>1, PursuitAt, Types, InboundTail
<1>12. Inbound(chan[p] \o (dds(page) \o lsrs(ks)), heard[p], db[r])
  <2>1. page \in SUBSET Header /\ ks \in SUBSET Keys
        /\ (n.state = "Exchange" => page \subseteq n.db_summary_list)
    BY <1>3, <1>6 DEF Pages, Batches, Neighbor
  <2>2. sent(page) \in Neighbor
    BY <1>6, <2>1, AfterDdInv DEF NbrInv
  <2> HIDE DEF sent
  <2>3. InitialDd(n) \in Packet /\ PageDd(sent(page), page) \in Packet /\ Lsr(ks) \in Packet
    BY <1>6, <2>1, <2>2, DdTypes, LsTypes
  <2>4. Inbound(chan[p], heard[p], db[r])
    BY PursuitAt
  <2>5. Inbound(chan[p] \o dds(page), heard[p], db[r]) /\ chan[p] \o dds(page) \in Seq(Packet)
    <3>1. CASE n.state = "ExStart"
      <4>1. InitialDd(n).type = "dd" /\ InitialDd(n).headers = {}
        BY DEF InitialDd
      <4>2. Inbound(chan[p] \o <<InitialDd(n)>>, heard[p], db[r])
        BY <1>0, <2>3, <2>4, <4>1, InboundSilent
      <4>3. chan[p] \o <<InitialDd(n)>> \in Seq(Packet)
        BY <1>0, <2>3
      <4> QED BY <3>1, <4>2, <4>3
    <3>2. CASE n.state = "Exchange"
      <4> DEFINE x == PageDd(sent(page), page)
      <4>1. Described(x) = page /\ Carried(x) = {}
        BY DEF PageDd, Described, Carried
      <4>2. x \in Packet
        BY <2>3
      <4> HIDE DEF x
      <4>3. Sound(x, db[r])
        BY <1>8, <2>1, <3>2, <4>1 DEF Sound, OnePerKey
      <4>4. Inbound(chan[p] \o <<x>>, heard[p], db[r])
        BY <1>0, <2>4, <4>1, <4>2, <4>3, InboundAppend
      <4>5. chan[p] \o <<x>> \in Seq(Packet)
        BY <1>0, <4>2
      <4>6. dds(page) = <<x>>
        BY <3>2 DEF x
      <4> QED BY <4>4, <4>5, <4>6
    <3>3. CASE n.state \notin {"ExStart", "Exchange"}
      <4>1. dds(page) = <<>>
        BY <3>3
      <4> HIDE DEF dds
      <4>2. chan[p] \o dds(page) = chan[p]
        BY <1>0, <4>1
      <4> QED BY <1>0, <2>4, <4>2
    <3> QED BY <3>1, <3>2, <3>3
  <2>6. dds(page) \in Seq(Packet)
    BY <2>3
  <2> HIDE DEF dds
  <2>7. CASE ks = {}
    <3>1. lsrs(ks) = <<>>
      BY <2>7
    <3> HIDE DEF lsrs
    <3>2. dds(page) \o lsrs(ks) = dds(page)
      BY <2>6, <3>1
    <3> QED BY <2>5, <3>2
  <2>8. CASE ks # {}
    <3>1. Lsr(ks).type = "lsr"
      BY DEF Lsr
    <3>2. Inbound((chan[p] \o dds(page)) \o <<Lsr(ks)>>, heard[p], db[r])
      BY <1>0, <2>3, <2>5, <3>1, InboundSilent
    <3>3. <<Lsr(ks)>> \in Seq(Packet)
      BY <2>3
    <3>4. Inbound(chan[p] \o (dds(page) \o <<Lsr(ks)>>), heard[p], db[r])
      BY <1>0, <2>6, <3>2, <3>3, InboundConcat
    <3> QED BY <2>8, <3>4
  <2> QED BY <2>7, <2>8
<1> HIDE DEF gs, sent, dds, lsrs
<1> QED BY <1>0, <1>4, <1>10, <1>11, <1>12, OnwardSame, PursuitAt, Assemble

\* Flooding sends LSAs of the sender's database.
LEMMA InboundFlood ==
    ASSUME NEW c \in Seq(Packet), NEW hs \in SUBSET Header, NEW d \in Db, Inbound(c, hs, d),
           AllGenuine(d), NEW n, NEW gs \in SUBSET Header,
           \A g \in gs : d[g.key] # NoLsa /\ g.lsa = d[g.key]
    PROVE  Inbound(c \o Flood(n, gs), hs, d)
<1> DEFINE out == IF StubArea THEN {h \in gs : h.key \notin ExtKeys} ELSE gs
<1>1. out \in SUBSET Header /\ \A g \in out : d[g.key] # NoLsa /\ g.lsa = d[g.key]
  OBVIOUS
<1>2. Flood(n, gs) = <<>> \/ Flood(n, gs) = <<Lsu(out)>>
  BY DEF Flood
<1> HIDE DEF out
<1>3. Inbound(c \o <<Lsu(out)>>, hs, d)
  BY <1>1, LsuSound, InboundAppend
<1>4. c \o <<>> = c
  OBVIOUS
<1> QED BY <1>2, <1>3, <1>4

\* process_lsu.
LEMMA LsUpdPursuit ==
    ASSUME IInv, IInv', Pursuit, SeqLeft', NEW r \in RouterIds, db[r][r] # NoLsa,
           chan[r] # <<>>, NEW m \in LsUpd, m = Head(chan[r]), ProcessLsUpd(r, m)
    PROVE  Pursuit'
<1> DEFINE accepted == {h \in m.lsas : ~(StubArea /\ h.key \in ExtKeys)}
           older == {h \in accepted : InstallResult(db[r], h.key, h.lsa) \in {"Older"}}
           ks    == {h.key : h \in accepted \ older}
           n     == AfterLsas(nbr[r], ks)
           full  == ReachedFull(nbr[r], n)
           body  == RouterLsaBody(n)
           d1    == InstallAll(db[r], accepted)
           own   == Originated(d1, r, body)
           d     == IF full THEN Originate(d1, r, body) ELSE d1
           back  == {[key |-> h.key, lsa |-> db[r][h.key]] :
                       h \in {g \in older : g.key \notin ExtKeys}}
           p1    == IF back = {} THEN <<>> ELSE <<Lsu(back)>>
           p2    == IF full THEN Flood(n, {[key |-> r, lsa |-> own]}) ELSE <<>>
           hs    == IF n.state \in ExchangeOrBetter THEN heard[r] ELSE {}
           p     == Peer(r)
<1>0. /\ m.lsas \in SUBSET Header /\ Carried(m) = m.lsas
      /\ p \in RouterIds /\ p # r /\ r \in Keys /\ p \in Keys
      /\ db[r] \in Db /\ db[p] \in Db /\ nbr[r] \in Neighbor
      /\ chan[p] \in Seq(Packet) /\ heard[p] \in SUBSET Header /\ heard[r] \in SUBSET Header
  BY Types, PeerType DEF LsUpd, Carried
<1>1. /\ Update(r, n) /\ db' = [db EXCEPT ![r] = d] /\ Answer(r, p1 \o p2)
      /\ Remember(r, n, heard[r], offered[r])
  BY DEF ProcessLsUpd
<1>2. Moves(r, n, d, hs, Tail(chan[r]), chan[p] \o (p1 \o p2))
  <2> HIDE DEF n, d, p1, p2
  <2> QED BY <1>1, HandlerMoves
<1>3. /\ accepted \in SUBSET Header /\ OnePerKey(accepted) /\ Follows(heard[r], accepted)
      /\ \A h \in accepted : Genuine(h.lsa) /\ Held(db[p], h)
  <2>1. chan[r] \in Seq(Packet)
    BY Types
  <2>2. 1 \in 1 .. Len(chan[r]) /\ m = chan[r][1]
    BY <2>1
  <2>3. Sound(m, db[p]) /\ Follows(heard[r], m.lsas)
    BY <1>0, <2>2, PursuitAt DEF Inbound
  <2> QED BY <1>0, <2>3 DEF Sound, OnePerKey, Follows
<1>4. /\ AllGenuine(db[r]) /\ Local(nbr[r], db[r], heard[r])
      /\ Inbound(chan[p], heard[p], db[r]) /\ Behind(db[r], p, db[p])
  BY PursuitAt
<1>5. NbrInv(r, n)
  <2> HIDE DEF n
  <2> QED BY <1>2 DEF Moves, IInv
<1>6. /\ n.ls_request_list = nbr[r].ls_request_list \ ks
      /\ n.db_summary_list = nbr[r].db_summary_list
      /\ n.state \in ExchangeOrBetter <=> nbr[r].state \in ExchangeOrBetter
  <2> HIDE DEF ks
  <2> QED BY <1>0, AfterLsasExchange
<1> HIDE DEF n
<1>7. body \in Bodies
  BY BodyType
<1>8. /\ back \in SUBSET Header
      /\ \A g \in back : db[r][g.key] # NoLsa /\ g.lsa = db[r][g.key]
  <2>1. ASSUME NEW g \in older PROVE db[r][g.key] \in Lsa /\ g.key \in Keys /\ db[r][g.key] # NoLsa
    <3>1. g \in Header /\ InstallResult(db[r], g.key, g.lsa) = "Older"
      BY <1>3, <2>1
    <3>2. db[r][g.key] # NoLsa /\ g.key \in Keys
      BY <3>1 DEF InstallResult, Header
    <3> QED BY <1>0, <3>2 DEF Db
  <2> HIDE DEF older
  <2> QED BY <2>1 DEF Header
<1>9. /\ d1 \in Db /\ NotOlder(db[r], d1, Keys) /\ AllGenuine(d1) /\ Onward(db[r], d1)
      /\ Behind(d1, p, db[p])
  <2> HIDE DEF accepted
  <2>1. NotOlder(db[r], d1, Keys) /\ d1 \in Db
    BY <1>0, <1>3, InstallAllNotOlder DEF NotOlder, Db
  <2>2. ASSUME NEW k \in Keys, d1[k] # db[r][k]
        PROVE  \E h \in accepted : h.key = k /\ d1[k] = h.lsa
    BY <1>0, <1>3, <2>2, InstallAllSource
  <2> HIDE DEF d1
  <2>3. AllGenuine(d1)
    BY <1>3, <1>4, <2>2 DEF AllGenuine
  <2>4. Behind(d1, p, db[p])
    BY <1>0, <1>3, <1>4, <2>2 DEF Behind, Held
  <2> QED BY <1>0, <1>4, <2>1, <2>3, <2>4, NotOlderOnward
<1>10. ASSUME NEW h \in heard[r], h.key \in ks PROVE Held(d1, h)
  <2>1. PICK g \in accepted \ older : g.key = h.key
    BY <1>10
  <2>2. InstallResult(db[r], g.key, g.lsa) # "Older" /\ g \in accepted
    BY <2>1
  <2>3. d1[g.key] = Install(db[r], g.key, g.lsa)[g.key]
    <3> HIDE DEF accepted
    <3> QED BY <1>0, <1>3, <2>2, InstallAllEntry
  <2> HIDE DEF d1, accepted
  <2>4. g \in Header /\ Genuine(g.lsa) /\ Upto(h.lsa, g.lsa)
    BY <1>3, <1>10, <2>1, <2>2 DEF Follows
  <2>5. d1[g.key] # NoLsa /\ Upto(g.lsa, d1[g.key])
    BY <1>0, <1>4, <2>2, <2>3, <2>4, InstallHolds
  <2>6. h.lsa \in Lsa /\ g.lsa \in Lsa /\ d1[g.key] \in Lsa
    BY <1>0, <1>9, <1>10, <2>4, <2>5 DEF Header, Db
  <2>7. Upto(h.lsa, d1[g.key])
    BY <2>4, <2>5, <2>6, UptoTransitive
  <2> QED BY <2>1, <2>5, <2>7 DEF Held
<1> HIDE DEF accepted, older, ks, d1, body, full
<1>11. full => /\ d = Originate(d1, r, body) /\ d[r] = own /\ d[r] # NoLsa
               /\ own \in Lsa
  <2> SUFFICES ASSUME full
               PROVE  /\ Originate(d1, r, body)[r] = own /\ own \in Lsa /\ own # NoLsa
    OBVIOUS
  <2>1. Originate(d1, r, body)[r].seq < MaxSeq
    <3>1. db'[r] = Originate(d1, r, body)
      BY <1>2 DEF Moves
    <3> QED BY <3>1 DEF SeqLeft
  <2>2. d1[r] # NoLsa
    BY <1>0, <1>9 DEF NotOlder
  <2>3. own \in Lsa
    BY <1>0, <1>7, <1>9, OriginatedType DEF Db
  <2>4. own # NoLsa
    BY <2>3, LsaAssumption
  <2> HIDE DEF own
  <2> QED BY <1>7, <1>9, <2>1, <2>2, <2>3, <2>4, OriginateInstalls DEF own
<1>12. /\ d \in Db /\ AllGenuine(d) /\ Onward(db[r], d) /\ Onward(d1, d)
       /\ d[p] = d1[p]
  <2>1. CASE ~full
    <3>1. d = d1
      BY <2>1
    <3> QED BY <1>9, <3>1, OnwardSame
  <2>2. CASE full
    <3>1. d = Originate(d1, r, body)
      BY <1>11, <2>2
    <3>2. AllGenuine(d) /\ d \in Db /\ d[p] = d1[p]
      BY <1>0, <1>7, <1>9, <3>1, OriginateGenuine
    <3>3. NotOlder(db[r], d, Keys)
      BY <1>0, <1>7, <1>9, <3>1, OriginateAfterNotOlder
    <3>4. NotOlder(d1, d, Keys)
      BY <1>0, <1>7, <1>9, <3>1, OriginateNotOlder DEF Db
    <3> HIDE DEF d
    <3> QED BY <1>0, <1>4, <1>9, <3>2, <3>3, <3>4, NotOlderOnward
  <2> QED BY <2>1, <2>2
<1>13. Local(n, d, hs)
  <2> HIDE DEF d
  <2>1. CASE n.state \notin ExchangeOrBetter
    BY <1>5, <1>12, <2>1, LocalIdle
  <2>2. CASE n.state \in ExchangeOrBetter
    <3>1. ASSUME NEW h \in n.db_summary_list PROVE Genuine(h.lsa) /\ Held(d, h)
      <4>1. h \in Header
        BY <1>0, <1>6, <3>1 DEF Neighbor
      <4>2. Genuine(h.lsa) /\ Held(db[r], h)
        BY <1>4, <1>6, <3>1 DEF Local
      <4> QED BY <1>0, <1>12, <4>1, <4>2, HeldOnward
    <3>2. ASSUME NEW h \in heard[r] PROVE h.key \in n.ls_request_list \/ Held(d, h)
      <4>1. h \in Header /\ (h.key \in nbr[r].ls_request_list \/ Held(db[r], h))
        BY <1>0, <1>4, <3>2 DEF Local
      <4>2. CASE Held(db[r], h)
        BY <1>0, <1>12, <4>1, <4>2, HeldOnward
      <4>3. CASE h.key \in ks
        <5>1. Held(d1, h)
          BY <1>10, <4>3
        <5> QED BY <1>9, <1>12, <4>1, <5>1, HeldOnward
      <4>4. CASE h.key \in nbr[r].ls_request_list \ ks
        BY <1>6, <4>4
      <4> QED BY <4>1, <4>2, <4>3, <4>4
    <3>3. hs = heard[r]
      BY <2>2
    <3> HIDE DEF hs
    <3> QED BY <1>12, <2>2, <3>1, <3>2, <3>3 DEF Local, AllGenuine
  <2> QED BY <2>1, <2>2
<1>14. Inbound(Tail(chan[r]), hs, db[p])
  <2>1. hs \subseteq heard[r]
    OBVIOUS
  <2> HIDE DEF hs
  <2> QED BY <2>1, PursuitAt, Types, InboundTail
<1>15. p1 \in Seq(Packet) /\ Inbound(chan[p] \o p1, heard[p], db[r])
  <2> HIDE DEF back
  <2>1. CASE back = {}
    <3>1. p1 = <<>>
      BY <2>1
    <3> HIDE DEF p1
    <3>2. chan[p] \o p1 = chan[p] /\ p1 \in Seq(Packet)
      BY <1>0, <3>1
    <3> QED BY <1>4, <3>2
  <2>2. CASE back # {}
    <3>1. Lsu(back) \in Packet /\ Inbound(chan[p] \o <<Lsu(back)>>, heard[p], db[r])
      BY <1>0, <1>4, <1>8, LsuSound, InboundAppend
    <3>2. p1 = <<Lsu(back)>>
      BY <2>2
    <3> HIDE DEF p1
    <3> QED BY <3>1, <3>2
  <2> QED BY <2>1, <2>2
<1>16. Inbound(chan[p] \o p1, heard[p], d) /\ chan[p] \o p1 \in Seq(Packet)
  <2> HIDE DEF p1, d
  <2>1. chan[p] \o p1 \in Seq(Packet)
    BY <1>0, <1>15
  <2> QED BY <1>0, <1>12, <1>15, <2>1, InboundOnward
<1>17. Inbound(chan[p] \o (p1 \o p2), heard[p], d)
  <2> HIDE DEF p1
  <2>1. CASE ~full
    <3>1. p2 = <<>>
      BY <2>1
    <3> HIDE DEF p2
    <3>2. p1 \o p2 = p1
      BY <1>15, <3>1
    <3> HIDE DEF d
    <3> QED BY <1>16, <3>2
  <2>2. CASE full
    <3> DEFINE gs == {[key |-> r, lsa |-> own]}
    <3>0. own \in Lsa /\ d[r] # NoLsa /\ own = d[r]
      BY <1>11, <2>2
    <3> HIDE DEF own, d
    <3>1. gs \in SUBSET Header /\ \A g \in gs : d[g.key] # NoLsa /\ g.lsa = d[g.key]
      BY <1>0, <3>0 DEF Header
    <3>2. p2 = Flood(n, gs)
      BY <2>2
    <3> HIDE DEF gs, p2
    <3>3. p2 \in Seq(Packet)
      BY <3>1, <3>2, FloodType
    <3>4. Inbound((chan[p] \o p1) \o p2, heard[p], d)
      BY <1>0, <1>12, <1>16, <3>1, <3>2, InboundFlood
    <3> QED BY <1>0, <1>15, <3>3, <3>4, InboundConcat
  <2> QED BY <2>1, <2>2
<1>18. Behind(d, p, db[p])
  <2> HIDE DEF d
  <2> QED BY <1>9, <1>12 DEF Behind
<1> HIDE DEF d, hs, p1, p2
<1> QED BY <1>2, <1>12, <1>13, <1>14, <1>17, <1>18, Assemble

\* A router that only sends packets which say nothing about LSAs.
LEMMA SilentPursuit ==
    ASSUME IInv, Pursuit, NEW r \in RouterIds, db[r][r] # NoLsa,
           NEW n, Local(n, db[r], heard[r]),
           NEW m \in Packet, m.type \in {"hello", "lsr"} \/ (m.type = "dd" /\ m.headers = {}),
           Send(r, <<m>>), UNCHANGED <<db, heard>>,
           Update(r, n) \/ (UNCHANGED nbr /\ n = nbr[r])
    PROVE  Pursuit'
<1>1. Peer(r) \in RouterIds /\ Peer(r) # r
  BY PeerType
<1>2. Moves(r, n, db[r], heard[r], chan[r], chan[Peer(r)] \o <<m>>)
  <2>1. nbr'[r] = n /\ nbr'[Peer(r)] = nbr[Peer(r)]
    BY <1>1 DEF IInv, TypeOK, Update
  <2>2. chan'[r] = chan[r] /\ chan'[Peer(r)] = chan[Peer(r)] \o <<m>>
    BY <1>1 DEF IInv, TypeOK, Send
  <2> QED BY <2>1, <2>2 DEF Moves
<1>3. Inbound(chan[Peer(r)] \o <<m>>, heard[Peer(r)], db[r])
  BY <1>1, Types, PursuitAt, InboundSilent
<1> QED BY <1>2, <1>3, Types, OnwardSame, PursuitAt, Assemble

\* The timers.
LEMMA TimerPursuit ==
    ASSUME IInv, Pursuit, NEW r \in RouterIds, db[r][r] # NoLsa, Timers(r)
    PROVE  Pursuit'
<1>0. Local(nbr[r], db[r], heard[r])
  BY PursuitAt
<1>1. CASE SendHello(r)
  <2> DEFINE m == [type |-> "hello", sees |-> Lists(nbr[r])]
  <2>1. m \in Packet /\ m.type = "hello"
    BY DEF Packet, Hello, Lists
  <2>2. Send(r, <<m>>) /\ UNCHANGED <<nbr, db, heard>>
    BY <1>1 DEF SendHello
  <2> HIDE DEF m
  <2> QED BY <1>0, <2>1, <2>2, SilentPursuit
<1>2. CASE EmitPendingDds(r)
  <2> DEFINE n == [nbr[r] EXCEPT !.dd_seq_number = IF @ = 0 THEN DdSeed ELSE @]
  <2>1. nbr[r] \in Neighbor /\ DdSeed \in DdSeqNumber
    BY Types, BoundAssumption DEF DdSeqNumber
  <2>2. /\ n \in Neighbor /\ n.state = nbr[r].state
        /\ n.ls_request_list = nbr[r].ls_request_list
        /\ n.db_summary_list = nbr[r].db_summary_list
    BY <2>1 DEF Neighbor
  <2>3. Update(r, n) /\ Send(r, <<InitialDd(n)>>) /\ UNCHANGED <<db, heard>>
    BY <1>2 DEF EmitPendingDds
  <2> HIDE DEF n
  <2>4. Local(n, db[r], heard[r])
    BY <1>0, <2>2 DEF Local
  <2>5. InitialDd(n) \in Packet /\ InitialDd(n).type = "dd" /\ InitialDd(n).headers = {}
    BY <2>2, DdTypes DEF InitialDd
  <2> QED BY <2>3, <2>4, <2>5, SilentPursuit
<1>3. CASE EmitPendingLsrs(r)
  <2>1. PICK ks \in Batches(nbr[r]) : Send(r, <<Lsr(ks)>>)
    BY <1>3 DEF EmitPendingLsrs
  <2>2. ks \in SUBSET Keys
    BY <2>1, Types DEF Batches, Neighbor
  <2>3. Lsr(ks) \in Packet /\ Lsr(ks).type = "lsr"
    BY <2>2, LsTypes DEF Lsr
  <2>4. UNCHANGED <<nbr, db, heard>>
    BY <1>3 DEF EmitPendingLsrs
  <2> QED BY <1>0, <2>1, <2>3, <2>4, SilentPursuit
<1>4. CASE RunSpf(r)
  BY <1>4 DEF RunSpf, Pursuit
<1> QED BY <1>1, <1>2, <1>3, <1>4 DEF Timers

\* The network takes or repeats a packet on its way to r.
LEMMA NetworkPursuit ==
    ASSUME IInv, Pursuit, NEW r \in RouterIds, NEW c, Inbound(c, heard[r], db[Peer(r)]),
           chan' = [chan EXCEPT ![r] = c], UNCHANGED <<nbr, db, heard>>
    PROVE  Pursuit'
<1> SUFFICES ASSUME NEW q \in RouterIds
             PROVE  /\ Local(nbr[q], db[q], heard[q])
                    /\ Inbound(chan'[q], heard[q], db[Peer(q)])
                    /\ Behind(db[Peer(q)], q, db[q])
  BY DEF Pursuit
<1>1. chan'[q] = (IF q = r THEN c ELSE chan[q])
  BY DEF IInv, TypeOK
<1> QED BY <1>1 DEF Pursuit

\* Foreign LSAs are genuine.
LEMMA ForeignGenuine == \A lsa \in Foreign : Genuine(lsa)
BY DEF Foreign, Encode, Genuine

\* An LSA of another router arrives from elsewhere and is flooded.
LEMMA LearnPursuit ==
    ASSUME IInv, Pursuit, NEW r \in RouterIds, db[r][r] # NoLsa,
           NEW k \in OtherKeys, NEW lsa \in Foreign, Learn(r, k, lsa)
    PROVE  Pursuit'
<1> DEFINE d == Install(db[r], k, lsa)
           gs == {[key |-> k, lsa |-> lsa]}
           p  == Peer(r)
<1>0. /\ p \in RouterIds /\ p # r /\ k \in Keys /\ k # p /\ lsa \in Lsa /\ lsa # NoLsa
      /\ db[r] \in Db /\ nbr[r] \in Neighbor /\ heard[r] \in SUBSET Header
      /\ chan[p] \in Seq(Packet) /\ heard[p] \in SUBSET Header /\ p \in Keys
  BY Types, PeerType, RouterAssumption, ForeignType, LsaAssumption DEF Keys
<1>1. /\ Changed(InstallResult(db[r], k, lsa)) /\ db' = [db EXCEPT ![r] = d]
      /\ Send(r, Flood(nbr[r], gs)) /\ UNCHANGED <<nbr, heard>>
  BY DEF Learn
<1>2. d = [db[r] EXCEPT ![k] = lsa]
  BY <1>1 DEF Install
<1>3. Moves(r, nbr[r], d, heard[r], chan[r], chan[p] \o Flood(nbr[r], gs))
  <2> HIDE DEF d, gs
  <2>1. db'[r] = d /\ db'[p] = db[p]
    BY <1>0, <1>1 DEF IInv, TypeOK
  <2>2. chan'[r] = chan[r] /\ chan'[p] = chan[p] \o Flood(nbr[r], gs)
    BY <1>0, <1>1 DEF IInv, TypeOK, Send
  <2> QED BY <1>1, <2>1, <2>2 DEF Moves
<1>4. AllGenuine(db[r]) /\ Local(nbr[r], db[r], heard[r])
      /\ Inbound(chan[p], heard[p], db[r]) /\ Inbound(chan[r], heard[r], db[p])
      /\ Behind(db[r], p, db[p])
  BY PursuitAt
<1>5. NotOlder(db[r], d, Keys)
  BY <1>0, InstallNotOlder DEF Db
<1>6. /\ d \in Db /\ d[k] = lsa /\ d[p] = db[r][p] /\ AllGenuine(d)
  BY <1>0, <1>2, <1>4, ForeignGenuine DEF Db, AllGenuine
<1>7. gs \in SUBSET Header /\ \A g \in gs : d[g.key] # NoLsa /\ g.lsa = d[g.key]
  BY <1>0, <1>6 DEF Header
<1> HIDE DEF d, gs
<1>8. Onward(db[r], d)
  BY <1>0, <1>4, <1>5, <1>6, NotOlderOnward
<1>9. Local(nbr[r], d, heard[r])
  <2>1. ASSUME NEW h \in nbr[r].db_summary_list PROVE Genuine(h.lsa) /\ Held(d, h)
    <3>1. h \in Header /\ Genuine(h.lsa) /\ Held(db[r], h)
      BY <1>0, <1>4, <2>1 DEF Local, Neighbor
    <3> QED BY <1>0, <1>6, <1>8, <3>1, HeldOnward
  <2>2. ASSUME NEW h \in heard[r] PROVE h.key \in nbr[r].ls_request_list \/ Held(d, h)
    <3>1. h \in Header /\ (h.key \in nbr[r].ls_request_list \/ Held(db[r], h))
      BY <1>0, <1>4, <2>2 DEF Local
    <3> QED BY <1>0, <1>6, <1>8, <3>1, HeldOnward
  <2> QED BY <1>4, <1>6, <2>1, <2>2 DEF Local, AllGenuine
<1>10. Inbound(chan[p] \o Flood(nbr[r], gs), heard[p], d)
  <2>1. Inbound(chan[p], heard[p], d)
    BY <1>0, <1>4, <1>6, <1>8, InboundOnward
  <2> QED BY <1>0, <1>6, <1>7, <2>1, InboundFlood
<1>11. Behind(d, p, db[p])
  BY <1>4, <1>6 DEF Behind
<1> QED BY <1>3, <1>4, <1>6, <1>8, <1>9, <1>10, <1>11, Assemble

\* The dead timer of r expires.
LEMMA ExpirePursuit ==
    ASSUME IInv, IInv', Pursuit, NEW r \in RouterIds, db[r][r] # NoLsa, NeighborExpires(r)
    PROVE  Pursuit'
<1> DEFINE n == HandleEvent(nbr[r], "InactivityTimer", FALSE)
           d == Originate(db[r], r, RouterLsaBody(n))
           p == Peer(r)
<1>0. /\ p \in RouterIds /\ p # r /\ db[r] \in Db /\ p \in Keys /\ r \in Keys
      /\ chan[p] \in Seq(Packet) /\ heard[p] \in SUBSET Header
  BY Types, PeerType
<1>1. n.state \notin ExchangeOrBetter
  BY Types DEF HandleEvent, To, ClearLists, Neighbor, NeighborState, ExchangeOrBetter,
       ExStartOrBetter, TwoWayOrBetter, InitOrBetter
<1>2. /\ Update(r, n) /\ db' = [db EXCEPT ![r] = d]
      /\ Remember(r, n, heard[r], offered[r]) /\ UNCHANGED chan
  BY DEF NeighborExpires
<1> HIDE DEF n
<1>3. AllGenuine(db[r]) /\ Inbound(chan[p], heard[p], db[r])
      /\ Inbound(chan[r], heard[r], db[p]) /\ Behind(db[r], p, db[p])
  BY PursuitAt
<1>4. AllGenuine(d) /\ d \in Db /\ d[p] = db[r][p] /\ NotOlder(db[r], d, Keys)
  <2>1. RouterLsaBody(n) \in Bodies
    BY BodyType
  <2> QED BY <1>0, <1>3, <2>1, OriginateGenuine, OriginateNotOlder DEF Db
<1> HIDE DEF d
<1>5. Moves(r, n, d, {}, chan[r], chan[p])
  <2>1. nbr'[r] = n /\ nbr'[p] = nbr[p] /\ db'[r] = d /\ db'[p] = db[p]
    BY <1>0, <1>2 DEF IInv, TypeOK, Update
  <2>2. heard'[r] = {} /\ heard'[p] = heard[p]
    BY <1>0, <1>1, <1>2 DEF IInv, TypeOK, Remember
  <2> QED BY <1>2, <2>1, <2>2 DEF Moves
<1>6. NbrInv(r, n)
  BY <1>5 DEF Moves, IInv
<1>7. Local(n, d, {})
  BY <1>1, <1>4, <1>6, LocalIdle
<1>8. Onward(db[r], d)
  BY <1>0, <1>3, <1>4, NotOlderOnward
<1>9. Inbound(chan[p], heard[p], d) /\ Inbound(chan[r], {}, db[p])
  BY <1>0, <1>3, <1>4, <1>8, InboundOnward, InboundForget
<1>10. Behind(d, p, db[p])
  BY <1>3, <1>4 DEF Behind
<1> QED BY <1>4, <1>5, <1>7, <1>8, <1>9, <1>10, Assemble

-----------------------------------------------------------------------------
(* The theorem.                                                            *)

\* The daemons start with genuine databases and have heard nothing.
LEMMA InitPursuit ==
    ASSUME Init PROVE Pursuit /\ \A r \in RouterIds : db[r][r] # NoLsa
<1>0. IInv
  BY InitIInv
<1>1. PICK known \in [RouterIds -> [OtherKeys -> Foreign \cup {NoLsa}]] :
        db = [r \in RouterIds |-> [k \in Keys |->
                  IF k \in OtherKeys THEN known[r][k] ELSE FreshDb(r)[k]]]
  BY DEF Init
<1>2. ASSUME NEW r \in RouterIds
      PROVE  /\ FreshDb(r) \in Db /\ AllGenuine(FreshDb(r)) /\ FreshDb(r)[r] # NoLsa
             /\ \A k \in Keys : k # r => FreshDb(r)[k] = NoLsa
  <2> DEFINE e == [k \in Keys |-> NoLsa]
             b == RouterLsaBody(NewNeighbor(0))
  <2>1. e \in Db /\ AllGenuine(e) /\ b \in Bodies /\ r \in Keys /\ e[r] = NoLsa
        /\ \A k \in Keys : e[k] = NoLsa
    BY BodyType DEF Db, AllGenuine, Keys
  <2>2. FreshDb(r) = Originate(e, r, b)
    BY DEF FreshDb
  <2> HIDE DEF e, b
  <2>3. Originated(e, r, b) \in Lsa /\ Originated(e, r, b) # NoLsa
    BY <2>1, OriginatedType, LsaAssumption DEF Db
  <2>4. Originate(e, r, b)[r] = Originated(e, r, b)
    BY <2>1 DEF Originate, Install, InstallResult, Changed, Db
  <2> QED BY <2>1, <2>2, <2>3, <2>4, OriginateGenuine
<1>3. \A r \in RouterIds : r \notin OtherKeys /\ Peer(r) \notin OtherKeys /\ Peer(r) # r
                            /\ r \in Keys /\ Peer(r) \in RouterIds
  BY RouterAssumption, PeerType DEF Keys
<1>4. ASSUME NEW r \in RouterIds PROVE AllGenuine(db[r]) /\ db[r][r] # NoLsa
  <2>1. \A k \in Keys : db[r][k] = (IF k \in OtherKeys THEN known[r][k] ELSE FreshDb(r)[k])
    BY <1>1
  <2> QED BY <1>2, <1>3, <2>1, ForeignGenuine DEF AllGenuine
<1>5. ASSUME NEW r \in RouterIds PROVE db[Peer(r)][r] = NoLsa
  BY <1>1, <1>2, <1>3
<1>6. ASSUME NEW r \in RouterIds PROVE Local(nbr[r], db[r], heard[r])
  <2>1. /\ nbr[r] = NewNeighbor(0) /\ heard[r] = {}
    BY DEF Init
  <2>2. nbr[r].state \notin ExchangeOrBetter
    BY <2>1 DEF NewNeighbor, ExchangeOrBetter, ExStartOrBetter, TwoWayOrBetter,
         InitOrBetter, NeighborState
  <2> QED BY <1>4, <2>1, <2>2, NewNeighborInv, LocalIdle
<1>7. ASSUME NEW r \in RouterIds PROVE Inbound(chan[r], heard[r], db[Peer(r)])
  <2>1. Len(chan[r]) = 0 /\ heard[r] = {}
    BY DEF Init
  <2> QED BY <2>1 DEF Inbound
<1> QED BY <1>4, <1>5, <1>6, <1>7 DEF Pursuit, Behind

\* Every step but a restart preserves the invariant while sequence numbers are left.
LEMMA NextPursuit ==
    ASSUME IInv, Pursuit, \A r \in RouterIds : db[r][r] # NoLsa, SeqLeft',
           budget.restart = 0, [Next]_vars
    PROVE  Pursuit'
<1>0. IInv'
  BY NextIInv
<1>1. CASE UNCHANGED vars
  BY <1>1 DEF vars, Pursuit
<1>2. ASSUME NEW r \in RouterIds, Receive(r) PROVE Pursuit'
  <2> DEFINE m == Head(chan[r])
  <2>1. chan[r] # <<>> /\ m \in Packet
    BY <1>2 DEF Receive, IInv, TypeOK
  <2>2. \/ m \in Hello /\ ProcessHello(r, m)
        \/ m \in DbDesc /\ ProcessDbDesc(r, m)
        \/ m \in LsReq /\ ProcessLsReq(r, m)
        \/ m \in LsUpd /\ ProcessLsUpd(r, m)
    BY <1>2, <2>1, PacketCases DEF Receive
  <2>3. m = Head(chan[r])
    OBVIOUS
  <2> HIDE DEF m
  <2> QED BY <1>0, <2>1, <2>2, <2>3, HelloPursuit, DbDescPursuit, LsReqPursuit, LsUpdPursuit
<1>3. ASSUME NEW r \in RouterIds, Outside(r) PROVE Pursuit'
  <2>0. /\ Inbound(chan[r], heard[r], db[Peer(r)]) /\ chan[r] \in Seq(Packet)
    BY PursuitAt, Types
  <2>1. CASE Lose(r)
    <3>1. /\ chan[r] # <<>> /\ chan' = [chan EXCEPT ![r] = Tail(chan[r])]
          /\ UNCHANGED <<nbr, db, heard>>
      BY <2>1 DEF Lose
    <3>2. Inbound(Tail(chan[r]), heard[r], db[Peer(r)])
      BY <2>0, <3>1, InboundTail
    <3> QED BY <3>1, <3>2, NetworkPursuit
  <2>2. CASE Duplicate(r)
    <3>1. /\ chan[r] # <<>> /\ chan' = [chan EXCEPT ![r] = <<Head(chan[r])>> \o chan[r]]
          /\ UNCHANGED <<nbr, db, heard>>
      BY <2>2 DEF Duplicate
    <3>2. Inbound(<<Head(chan[r])>> \o chan[r], heard[r], db[Peer(r)])
      BY <2>0, <3>1, InboundTwice
    <3> QED BY <3>1, <3>2, NetworkPursuit
  <2>3. CASE Restart(r)
    BY <2>3 DEF Restart, Spend
  <2> QED BY <1>0, <1>3, <2>1, <2>2, <2>3, ExpirePursuit, LearnPursuit DEF Outside
<1> QED BY <1>1, <1>2, <1>3, TimerPursuit DEF Next

\* A budget without restarts stays one.
LEMMA NoRestart ==
    ASSUME IInv, budget.restart = 0, [Next]_vars PROVE budget'.restart = 0
<1>1. ASSUME NEW kind \in EventKind, kind # "restart", Spend(kind) PROVE budget'.restart = 0
  BY <1>1 DEF Spend, IInv, TypeOK, EventKind
<1>2. ASSUME NEW r \in RouterIds, Outside(r) PROVE budget'.restart = 0
  <2>1. \E kind \in EventKind \ {"restart"} : Spend(kind)
    <3>1. {"lose", "duplicate", "expire", "learn"} \subseteq EventKind \ {"restart"}
      BY DEF EventKind
    <3>2. ~Restart(r)
      BY DEF Restart, Spend
    <3>3. Spend("lose") \/ Spend("duplicate") \/ Spend("expire") \/ Spend("learn")
      BY <1>2, <3>2 DEF Outside, Lose, Duplicate, NeighborExpires, Learn
    <3> QED BY <3>1, <3>3
  <2> QED BY <1>1, <2>1
<1>3. ASSUME NEW r \in RouterIds, Timers(r) PROVE budget' = budget
  BY <1>3 DEF Timers, SendHello, EmitPendingDds, EmitPendingLsrs, RunSpf
<1>4. ASSUME NEW r \in RouterIds, Receive(r) PROVE budget' = budget
  BY <1>4 DEF Receive
<1> QED BY <1>2, <1>3, <1>4 DEF Next, vars

\* Every step preserves PInv: the sequence numbers of a Router-LSA only grow, so
\* those left after the step were left before.
LEMMA NextPInv == ASSUME PInv, [Next]_vars PROVE PInv'
<1>1. IInv' /\ budget'.restart = 0 /\ IInv
  BY NextIInv, NoRestart DEF PInv
<1>2. NoneOlder
  <2>1. NoneOlder \/ budget'.restart # budget.restart
    BY NextIInv DEF PInv
  <2> QED BY <1>1, <2>1 DEF PInv
<1>3. ASSUME NEW r \in RouterIds
      PROVE  db'[r][r] # NoLsa /\ db[r][r].seq <= db'[r][r].seq
  <2>1. db[r] \in Db /\ r \in Keys /\ NotOlder(db[r], db'[r], Keys)
    BY <1>1, <1>2, Types DEF NoneOlder
  <2> QED BY <2>1, NotOlderSeq DEF PInv
<1>4. SeqLeft' => SeqLeft
  <2> SUFFICES ASSUME SeqLeft', NEW r \in RouterIds PROVE db[r][r].seq < MaxSeq
    BY DEF SeqLeft
  <2>1. db[r][r] \in Lsa /\ db'[r][r] \in Lsa
    <3>1. r \in Keys
      BY DEF Keys
    <3> QED BY <1>1, <1>3, <3>1 DEF PInv, IInv, TypeOK
  <2>2. db'[r][r].seq < MaxSeq
    BY DEF SeqLeft
  <2> QED BY <1>3, <2>1, <2>2, SeqAssumption DEF Lsa
<1>5. SeqLeft' => Pursuit'
  BY <1>4, NextPursuit DEF PInv
<1> QED BY <1>1, <1>3, <1>5 DEF PInv

\* Pursuit says of genuine instances what HeardIsPursued says.
LEMMA PursuitImplies == ASSUME IInv, Pursuit PROVE HeardIsPursued
<1> SUFFICES ASSUME NEW r \in RouterIds, NEW h \in heard[r], Held(db[r], h)
             PROVE  Covered(r, h)
  BY DEF HeardIsPursued, Pursuit, Local
<1>1. h \in Header /\ Genuine(h.lsa) /\ AllGenuine(db[r]) /\ db[r] \in Db
  BY Types, PursuitAt DEF Inbound
<1>2. h.key \in Keys /\ h.lsa \in Lsa /\ db[r][h.key] \in Lsa /\ db[r][h.key] # NoLsa
  BY <1>1 DEF Header, Db, Held
<1>3. h.lsa.age = 0 /\ db[r][h.key].age = 0
  BY <1>1, <1>2 DEF Genuine, AllGenuine
<1> QED BY <1>2, <1>3, UptoIsNotNewer DEF Covered, Held

\* Without restarts, and until a router has used up the sequence numbers of its
\* Router-LSA, whatever the neighbor described is on the request list or in the
\* database, in that or a newer instance.
THEOREM HeardAlwaysPursued ==
    ASSUME \A b \in Budgets : b.restart = 0
    PROVE  Spec => [](SeqLeft => HeardIsPursued)
<1>1. Init => PInv
  BY InitIInv, InitPursuit DEF PInv, Init
<1>2. PInv /\ [Next]_vars => PInv'
  BY NextPInv
<1>3. PInv => (SeqLeft => HeardIsPursued)
  BY PursuitImplies DEF PInv
<1> QED BY <1>1, <1>2, <1>3, PTL DEF Spec

\* The neighbor's copy of a Router-LSA is never more recent than the one of the router
\* that originates it.
NotOvertaken ==
    \A r \in RouterIds :
        db[Peer(r)][r] # NoLsa => ~Newer(db[Peer(r)][r], db[r][r])

\* Under the same hypotheses no neighbor, Full or not, ever holds a more recent instance
\* of our Router-LSA than we: the stale-self recovery of process_dd is for restarts alone.
THEOREM NeverOvertaken ==
    ASSUME \A b \in Budgets : b.restart = 0
    PROVE  Spec => [](SeqLeft => NotOvertaken)
<1>1. Init => PInv
  BY InitIInv, InitPursuit DEF PInv, Init
<1>2. PInv /\ [Next]_vars => PInv'
  BY NextPInv
<1>3. PInv => (SeqLeft => NotOvertaken)
  <2> SUFFICES ASSUME PInv, SeqLeft, NEW r \in RouterIds, db[Peer(r)][r] # NoLsa
               PROVE  ~Newer(db[Peer(r)][r], db[r][r])
    BY DEF NotOvertaken
  <2> DEFINE p == Peer(r)
  <2>1. IInv /\ Pursuit /\ db[r][r] # NoLsa /\ p \in RouterIds
    BY PeerType DEF PInv
  <2>2. /\ db[p] \in Db /\ db[r] \in Db /\ r \in Keys
        /\ AllGenuine(db[p]) /\ AllGenuine(db[r]) /\ Behind(db[p], r, db[r])
    BY <2>1, Types, PursuitAt DEF Pursuit
  <2>3. db[p][r] \in Lsa /\ db[r][r] \in Lsa /\ db[p][r].age = 0 /\ db[r][r].age = 0
    BY <2>1, <2>2 DEF Db, AllGenuine, Genuine
  <2> QED BY <2>2, <2>3, UptoIsNotNewer DEF Behind
<1> QED BY <1>1, <1>2, <1>3, PTL DEF Spec
==============================================================================
