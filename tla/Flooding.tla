------------------------------ MODULE Flooding ------------------------------
(***************************************************************************)
(* Routers that are Full with one another flood their LSAs through a       *)
(* network of several links and areas, in either version of the protocol.  *)
(*                                                                         *)
(* Source: in version 2 process_lsu and flood_lsas_to_others of            *)
(* src/src/instance.rs, which compare an LSA with the database and send at *)
(* once; in version 3 process_lsu, flood_lsa and emit_pending_lsdb_packets *)
(* of src/src/instance_v3.rs, which compare nothing and leave what they    *)
(* flood to the next hello tick, and the spf_tick arm of                   *)
(* src/src/daemon_v3.rs, which originates the summaries of an ABR anew     *)
(* whenever its database has changed.                                      *)
(*                                                                         *)
(* What is abstracted: every adjacency stays Full and no packet is lost    *)
(* (module Adjacency and AdjacencyV3 are about these); of the LSAs of a    *)
(* router, its Router-LSA stands for those that are renewed together, and  *)
(* one Inter-Area-Prefix-LSA for all its summaries.  The contents of an    *)
(* LSA are the area it was originated for.                                 *)
(***************************************************************************)
EXTENDS Integers, Sequences, SequencesExt

CONSTANTS
  Routers,   \* router ids
  Links,     \* names of links; a router has an interface for each link it is on
  NoLink,    \* where an LSA of one's own comes from
  Areas,     \* area ids, 0 for the backbone
  Networks,  \* the networks to look at
  Renewals,  \* bound: how often each router renews its Router-LSAs, the choices
  SeqWidth   \* bound: the number of sequence numbers, 2^32 in the code

\* A link is point-to-point or a broadcast network.  `hubs' are both ends of the one, and
\* the DR and the Backup of the other, if it has one.
Link    == [members : SUBSET Routers, hubs : SUBSET Routers, area : Areas]
Network == [version : {2, 3}, link : [Links -> Link]]

ASSUME FloodingAssumption ==
  /\ Routers \subseteq Nat /\ Areas \subseteq Nat
  /\ NoLink \notin Links /\ IsFiniteSet(Links)
  /\ Networks \subseteq Network
  /\ Renewals \subseteq [Routers -> Nat]
  /\ SeqWidth \in Nat \ {0, 1}

\* LsaKey, LsaKeyV3: where an LSA is kept.
Slot == [area : Areas, adv : Routers, type : {"router", "summary"}]

\* An instance: its sequence number and contents.  NoLsa: nothing is kept.
Instance == [seq : 0..(SeqWidth - 1), home : Areas]
NoLsa == [seq |-> 0, home |-> -1]

\* An LSA in a packet, which does not tell its area.
Lsa == [adv : Routers, type : {"router", "summary"}, inst : Instance]

Hop == [link : Links, from : Routers, to : Routers]

VARIABLES
  net,      \* the network
  db,       \* db[r][slot]: the databases of router r
  pending,  \* pending[h]: pending_lsu of router h.from for its neighbor h.to, version 3
  wire,     \* wire[h]: update packets under way, oldest first
  changed,  \* changed[r]: the generation is not the one of the last SPF run, version 3
  todo,     \* todo[r]: renewals still to come
  latest    \* history: the last instance originated for each slot

vars == <<net, db, pending, wire, changed, todo, latest>>

V3 == net.version = 3

On(l) == net.link[l]
AreasOf(r) == {On(l).area : l \in {m \in Links : r \in On(m).members}}

\* is_abr
IsAbr(r) == 0 \in AreasOf(r) /\ AreasOf(r) # {0}

Hops == {h \in Hop : h.from # h.to /\ {h.from, h.to} \subseteq On(h.link).members}

\* reevaluate_adjacencies, and AdjOk in process_hello of version 3: one of the two is DR
\* or Backup.
Adjacent(h) == On(h.link).hubs \cap {h.from, h.to} # {}

\* Mutant: the number leaves its type.
NextSeqMutant(s) == s + 1

\* ls_sequence_number.wrapping_add(1)
NextSeq(s) == (s + 1) % SeqWidth

At(area, lsa) == [area |-> area, adv |-> lsa.adv, type |-> lsa.type]
InSlot(slot, inst) == [adv |-> slot.adv, type |-> slot.type, inst |-> inst]

\* The new instances of the slots S of router r, as a function of the slot.
Renewed(r, S) ==
  [s \in S |-> [seq |-> NextSeq(db[r][s].seq), home |-> s.area]]

Install(d, new) == [s \in Slot |-> IF s \in DOMAIN new THEN new[s] ELSE d[s]]

RouterSlots(r)  == {[area |-> a, adv |-> r, type |-> "router"] : a \in AreasOf(r)}
SummarySlots(r) == {[area |-> a, adv |-> r, type |-> "summary"] : a \in AreasOf(r)}
-----------------------------------------------------------------------------
(* Version 2.                                                              *)

\* flood_lsas_to_others: multicast on every interface but the one the LSA came in on,
\* if it has an adjacent neighbor that is not the sender.  The area of the interface
\* is not looked at.  Self-originated LSAs come in on no interface, from r itself.
FloodsTo(r, in, from, h) ==
  /\ h.from = r
  /\ h.link # in
  /\ \E g \in Hops : g.link = h.link /\ g.from = r /\ Adjacent(g) /\ g.to # from

\* Mutant: no LSA received is passed on.
FloodV2Mutant(w, r, in, from, lsas) == w

FloodV2(w, r, in, from, lsas) ==
  [h \in Hops |-> IF FloodsTo(r, in, from, h) THEN Append(w[h], lsas) ELSE w[h]]

\* LsaHeader::is_more_recent_than: the sequence number, then the checksum.
Newer(x, y) == x.seq > y.seq \/ (x.seq = y.seq /\ x.home > y.home)

\* Lsdb::install: New or Updated.
Fresh(d, area, lsa) ==
  LET old == d[At(area, lsa)]
  IN  old = NoLsa \/ Newer(lsa.inst, old)

\* Mutant: a duplicate is answered too.
OlderMutant(d, area, lsa) ==
  LET old == d[At(area, lsa)]
  IN  old # NoLsa /\ ~Newer(lsa.inst, old)

Older(d, area, lsa) ==
  LET old == d[At(area, lsa)]
  IN  old # NoLsa /\ Newer(old, lsa.inst)

\* originate_router_lsas and the flooding after it, an update for each area.  What
\* install refuses, as it does when the number has wrapped, is flooded nevertheless.
RenewV2(r) ==
  LET new   == Renewed(r, RouterSlots(r))
      taken == {s \in DOMAIN new : Newer(new[s], db[r][s])}
      lsus  == {<<InSlot(s, new[s])>> : s \in DOMAIN new}
  IN  /\ db' = [db EXCEPT ![r] = Install(@, [s \in taken |-> new[s]])]
      /\ wire' = [h \in Hops |-> IF FloodsTo(r, NoLink, r, h)
                                 THEN wire[h] \o SetToSeq(lsus) ELSE wire[h]]
      /\ latest' = Install(latest, new)
      /\ UNCHANGED <<pending, changed>>

\* process_lsu: an LSA that is newer is installed and flooded, one that is older is
\* answered with the instance in the database.  An update of version 2 carries one LSA:
\* LSAs are originated and answered one by one.
ProcessLsuV2(h, w, lsa) ==
  LET r    == h.to
      area == On(h.link).area
      slot == At(area, lsa)
      back == [h EXCEPT !.from = r, !.to = h.from]
  IN  /\ db' = IF Fresh(db[r], area, lsa) THEN [db EXCEPT ![r][slot] = lsa.inst] ELSE db
      /\ wire' = CASE Fresh(db[r], area, lsa) -> FloodV2(w, r, h.link, h.from, <<lsa>>)
                   [] Older(db[r], area, lsa) ->
                        [w EXCEPT ![back] = Append(@, <<InSlot(slot, db[r][slot])>>)]
                   [] OTHER -> w
      /\ UNCHANGED <<pending, changed>>
-----------------------------------------------------------------------------
(* Version 3.                                                              *)

\* flood_lsa: to the adjacent neighbors on the links of the area, but for the one it
\* came from.
FloodV3(p, r, area, in, from, lsas) ==
  [h \in Hops |->
     IF h.from = r /\ Adjacent(h) /\ On(h.link).area = area /\ ~(h.link = in /\ h.to = from)
     THEN p[h] \o lsas ELSE p[h]]

\* insert_self_lsa for each of the slots S, one in each area.
InsertSelf(r, S) ==
  LET new == Renewed(r, S)
      For(area) == {InSlot(s, new[s]) : s \in {t \in S : t.area = area}}
  IN  /\ db' = [db EXCEPT ![r] = Install(@, new)]
      /\ pending' = [h \in Hops |->
                       LET area == On(h.link).area
                       IN  FloodV3(pending, r, area, NoLink, r, SetToSeq(For(area)))[h]]
      /\ latest' = Install(latest, new)
      /\ UNCHANGED wire

\* expire_tick.tick() with the mark set: refresh_router_lsa_if_needed.
RenewV3(r) ==
  /\ InsertSelf(r, RouterSlots(r))
  /\ changed' = [changed EXCEPT ![r] = TRUE]

\* process_lsu: every LSA is installed and flooded, the last instance of a slot stays,
\* and the generation changes if one differs from what was there.
ProcessLsuV3(h, w, lsas) ==
  LET r    == h.to
      area == On(h.link).area
      For(s) == {i \in DOMAIN lsas : At(area, lsas[i]) = s}
  IN  /\ db' = [db EXCEPT ![r] = [s \in Slot |->
                 IF For(s) = {} THEN @[s] ELSE lsas[Max(For(s))].inst]]
      /\ pending' = FloodV3(pending, r, area, h.link, h.from, lsas)
      /\ changed' = [changed EXCEPT ![r] =
                       @ \/ \E i \in DOMAIN lsas : lsas[i].inst # db[r][At(area, lsas[i])]]
      /\ wire' = w

\* hello_tick.tick(): emit_pending_lsdb_packets, an update to each neighbor.  Updates
\* arrive before the next tick, a second later.
EmitTick(r) ==
  /\ V3
  /\ \E h \in Hops : h.from = r /\ pending[h] # <<>>
  /\ \A h \in Hops : h.from = r => wire[h] = <<>>
  /\ wire' = [h \in Hops |-> IF h.from = r /\ pending[h] # <<>>
                             THEN <<pending[h]>> ELSE wire[h]]
  /\ pending' = [h \in Hops |-> IF h.from = r THEN <<>> ELSE pending[h]]
  /\ UNCHANGED <<net, db, changed, todo, latest>>

\* originate_inter_area_prefix_lsas: an ABR originates its summaries into each area,
\* whether they have changed or not.
OriginateSummaries(r) == InsertSelf(r, IF IsAbr(r) THEN SummarySlots(r) ELSE {})

\* spf_tick.tick() with a new generation.  The generation it remembers is the one after
\* its own summaries.
SpfTick(r) ==
  /\ V3 /\ changed[r]
  /\ OriginateSummaries(r)
  /\ changed' = [changed EXCEPT ![r] = FALSE]
  /\ UNCHANGED <<net, todo>>
-----------------------------------------------------------------------------
\* A neighbor of another link changes, or the Router-LSA is due to be refreshed.
Renew(r) ==
  /\ todo[r] > 0
  /\ todo' = [todo EXCEPT ![r] = @ - 1]
  /\ IF V3 THEN RenewV3(r) ELSE RenewV2(r)
  /\ UNCHANGED net

Deliver(h) ==
  /\ h \in Hops /\ wire[h] # <<>>
  /\ LET w == [wire EXCEPT ![h] = Tail(@)]
     IN  IF V3 THEN ProcessLsuV3(h, w, Head(wire[h])) ELSE ProcessLsuV2(h, w, Head(wire[h])[1])
  /\ UNCHANGED <<net, todo, latest>>

\* What the databases hold when all routers have found one another: the first instances.
Settled(s) ==
  IF s.area \in AreasOf(s.adv) /\ (s.type = "router" \/ (V3 /\ IsAbr(s.adv)))
  THEN [seq |-> 1, home |-> s.area] ELSE NoLsa

Init ==
  /\ net \in Networks
  /\ latest = [s \in Slot |-> Settled(s)]
  /\ db = [r \in Routers |-> [s \in Slot |-> IF s.area \in AreasOf(r) THEN Settled(s) ELSE NoLsa]]
  /\ pending = [h \in Hops |-> <<>>]
  /\ wire = [h \in Hops |-> <<>>]
  /\ changed = [r \in Routers |-> FALSE]
  /\ todo \in Renewals

Next ==
  \/ \E r \in Routers : Renew(r) \/ EmitTick(r) \/ SpfTick(r)
  \/ \E h \in Hop : Deliver(h)

Spec == Init /\ [][Next]_vars

\* Packets arrive and ticks come.
Fairness ==
  /\ \A r \in Routers : WF_vars(EmitTick(r)) /\ WF_vars(SpfTick(r))
  /\ \A h \in Hop : WF_vars(Deliver(h))

FairSpec == Spec /\ Fairness
-----------------------------------------------------------------------------
(* Properties.                                                             *)

\* Every variable has its type.
TypeOK ==
  /\ net \in Network
  /\ db \in [Routers -> [Slot -> Instance \cup {NoLsa}]]
  /\ pending \in [Hops -> Seq(Lsa)]
  /\ wire \in [Hops -> Seq(Seq(Lsa))]
  /\ changed \in [Routers -> BOOLEAN]
  /\ todo \in [Routers -> Nat]
  /\ latest \in [Slot -> Instance \cup {NoLsa}]

Quiet == \A h \in Hops : pending[h] = <<>> /\ wire[h] = <<>>

\* Once nothing is under way every router of an area holds the last instance each router
\* of the area originated for it, over links in a cycle, parallel links and a broadcast
\* network, although version 2 skips the interface an LSA came in on, version 3 compares
\* nothing when it installs, and updates cross one another (process_lsu, flood_lsa,
\* flood_lsas_to_others).
QuietMeansAgreed ==
  Quiet => \A r \in Routers, s \in Slot :
             db[r][s] = IF s.area \in AreasOf(r) THEN latest[s] ELSE NoLsa

\* Flooding comes to an end: process_lsu passes on `newly installed LSAs', and an ABR
\* does not `busy-loop SPF' (the spf_tick arm).
FloodingEnds == <>[](Quiet /\ \A r \in Routers : ~changed[r])

\* process_lsu: `Flood new/updated LSAs to all other neighbors in the same area': the
\* database of an area holds no LSA that was originated for another area.
AreaScope ==
  \A r \in Routers, s \in Slot : db[r][s] # NoLsa => db[r][s].home = s.area
=============================================================================
