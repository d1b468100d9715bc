--------------------------- MODULE FloodingProofs ---------------------------
(***************************************************************************)
(* Proofs about Flooding, for any number of routers, links and areas: the  *)
(* types, in either version, and that in version 2 flooding is reliable on *)
(* every connected network of one area.                                    *)
(*                                                                         *)
(* The second is what flood_lsas_to_others assumes when it skips the       *)
(* interface an LSA came in on: whatever a router of a link holds, the     *)
(* others hold as well or are about to hear (Shared), and so it is with    *)
(* what is under way (Backed).                                             *)
(***************************************************************************)
EXTENDS Flooding, SequenceTheorems, FiniteSetTheorems, TLAPS

\* The sequence of one element.
LEMMA SingleToSeq == ASSUME NEW x PROVE SetToSeq({x}) = <<x>>
<1>1. Cardinality({x}) = 1
  BY FS_Singleton
<1>2. \A f \in [1..1 -> {x}] : f = <<x>>
  OBVIOUS
<1>3. <<x>> \in [1..1 -> {x}] /\ IsInjective(<<x>>)
  BY DEF IsInjective
<1>. QED
  BY <1>1, <1>2, <1>3 DEF SetToSeq

\* The sequence of a finite set.
LEMMA ToSeqType == ASSUME NEW S, IsFiniteSet(S) PROVE SetToSeq(S) \in Seq(S)
<1>. DEFINE n == Cardinality(S)
<1>1. n \in Nat /\ ExistsBijection(1..n, S)
  BY FS_CardinalityType, FS_NatBijection
<1>2. PICK f \in Bijection(1..n, S) : TRUE
  BY <1>1 DEF ExistsBijection
<1>3. f \in [1..n -> S] /\ IsInjective(f)
  BY <1>2 DEF Bijection, Injection, IsInjective
<1>4. SetToSeq(S) \in [1..n -> S]
  BY <1>3 DEF SetToSeq
<1>. QED
  BY <1>1, <1>4

\* The last index of a kind.
LEMMA LastIndex ==
  ASSUME NEW n \in Nat, NEW I \in SUBSET (1..n), I # {}
  PROVE  Max(I) \in I
<1>. DEFINE P(k) == \E m \in I : n - m = k
            B == {k \in Nat : P(k)}
<1>1. B # {}
  <2>1. PICK m \in I : TRUE
    OBVIOUS
  <2>2. n - m \in B
    BY <2>1
  <2>. QED
    BY <2>2
<1>2. PICK k \in B : \A j \in B : ~(<<j, k>> \in OpToRel(<, Nat))
  <2>1. IsWellFoundedOn(OpToRel(<, Nat), Nat)
    BY NatLessThanWellFounded
  <2>2. B \subseteq Nat
    OBVIOUS
  <2>. HIDE DEF B
  <2>. QED
    BY <1>1, <2>1, <2>2, WFMin, Zenon
<1>3. PICK m \in I : n - m = k
  OBVIOUS
<1>4. ASSUME NEW y \in I
      PROVE  m >= y
  <2>1. n - y \in B /\ k \in Nat /\ n - y \in Nat
    OBVIOUS
  <2>2. ~(n - y < k)
    BY <1>2, <2>1 DEF OpToRel
  <2>. QED
    BY <1>3, <2>1, <2>2
<1>. QED
  BY <1>4 DEF Max
-----------------------------------------------------------------------------
(* Types.                                                                  *)

\* An update of version 2.
Single == {<<x>> : x \in Lsa}

TInv ==
  /\ TypeOK
  /\ net.version = 2 => \A h \in Hops : wire[h] \in Seq(Single)

\* Routers and areas of a network.
LEMMA NetType ==
  ASSUME TypeOK
  PROVE  /\ \A l \in Links : On(l) \in Link
         /\ \A r : AreasOf(r) \subseteq Areas /\ IsFiniteSet(AreasOf(r))
         /\ \A h \in Hops : h.link \in Links /\ h.from \in Routers /\ h.to \in Routers
<1>1. \A l \in Links : On(l) \in Link
  BY DEF TypeOK, Network, On
<1>2. ASSUME NEW r
      PROVE  AreasOf(r) \subseteq Areas /\ IsFiniteSet(AreasOf(r))
  <2>. DEFINE M == {m \in Links : r \in On(m).members}
              F == [l \in M |-> On(l).area]
  <2>1. IsFiniteSet(M)
    BY FloodingAssumption, FS_Subset
  <2>2. AreasOf(r) = {F[l] : l \in M}
    BY DEF AreasOf
  <2>3. F \in Surjection(M, {F[l] : l \in M})
    BY DEF Surjection
  <2>4. IsFiniteSet({F[l] : l \in M})
    <3>. HIDE DEF F, M
    <3>. QED
      BY <2>1, <2>3, FS_Surjection
  <2>5. AreasOf(r) \subseteq Areas
    BY <1>1 DEF AreasOf, Link
  <2>. QED
    BY <2>2, <2>4, <2>5
<1>3. \A h \in Hops : h.link \in Links /\ h.from \in Routers /\ h.to \in Routers
  BY DEF Hops, Hop
<1>. QED
  BY <1>1, <1>2, <1>3

\* New instances of a router's own LSAs.
LEMMA RenewedType ==
  ASSUME TypeOK, NEW r \in Routers, NEW S \in SUBSET Slot
  PROVE  /\ Renewed(r, S) \in [S -> Instance]
         /\ \A s \in S : Renewed(r, S)[s] = [seq |-> NextSeq(db[r][s].seq), home |-> s.area]
<1>1. ASSUME NEW s \in S
      PROVE  [seq |-> NextSeq(db[r][s].seq), home |-> s.area] \in Instance
  <2>1. db[r][s] \in Instance \cup {NoLsa}
    BY DEF TypeOK
  <2>2. db[r][s].seq \in 0..(SeqWidth - 1)
    BY <2>1, FloodingAssumption DEF Instance, NoLsa
  <2>3. NextSeq(db[r][s].seq) \in 0..(SeqWidth - 1)
    BY <2>2, FloodingAssumption DEF NextSeq
  <2>4. s.area \in Areas
    BY DEF Slot
  <2>. QED
    BY <2>3, <2>4 DEF Instance
<1>. QED
  BY <1>1 DEF Renewed

\* The slots of a router's LSAs.
LEMMA OwnSlots ==
  ASSUME TypeOK, NEW r \in Routers
  PROVE  RouterSlots(r) \in SUBSET Slot /\ SummarySlots(r) \in SUBSET Slot
BY NetType DEF RouterSlots, SummarySlots, Slot

\* Installing instances in a database.
LEMMA InstallType ==
  ASSUME NEW d \in [Slot -> Instance \cup {NoLsa}], NEW S \in SUBSET Slot,
         NEW new \in [S -> Instance]
  PROVE  Install(d, new) \in [Slot -> Instance \cup {NoLsa}]
BY DEF Install

\* An LSA of a router's own.
LEMMA InSlotType ==
  ASSUME NEW s \in Slot, NEW i \in Instance
  PROVE  InSlot(s, i) \in Lsa /\ At(s.area, InSlot(s, i)) = s
BY DEF InSlot, At, Slot, Lsa

\* insert_self_lsa keeps the types; it queues at most one LSA for a link.
LEMMA InsertSelfType ==
  ASSUME TypeOK, NEW r \in Routers, NEW S \in SUBSET Slot, InsertSelf(r, S), UNCHANGED net,
         \A s \in S, t \in S : s.area = t.area => s = t
  PROVE  /\ db' \in [Routers -> [Slot -> Instance \cup {NoLsa}]]
         /\ pending' \in [Hops -> Seq(Lsa)]
         /\ latest' \in [Slot -> Instance \cup {NoLsa}]
         /\ wire' = wire
<1>. DEFINE new == Renewed(r, S)
            For(area) == {InSlot(s, new[s]) : s \in {t \in S : t.area = area}}
<1>1. new \in [S -> Instance]
  BY RenewedType
<1>2. db' = [db EXCEPT ![r] = Install(db[r], new)] /\ latest' = Install(latest, new)
      /\ wire' = wire
  BY DEF InsertSelf
<1>3. pending' = [h \in Hops |-> FloodV3(pending, r, On(h.link).area, NoLink, r,
                                         SetToSeq(For(On(h.link).area)))[h]]
  BY DEF InsertSelf
<1>. HIDE DEF new
<1>4. ASSUME NEW area
      PROVE  SetToSeq(For(area)) \in Seq(Lsa)
  <2>1. For(area) \subseteq Lsa
    BY <1>1, InSlotType
  <2>2. IsFiniteSet(For(area))
    <3>1. CASE {t \in S : t.area = area} = {}
      <4>1. For(area) = {}
        BY <3>1
      <4>. QED
        BY <4>1, FS_EmptySet
    <3>2. ASSUME NEW s \in {t \in S : t.area = area}
          PROVE  IsFiniteSet(For(area))
      <4>1. For(area) = {InSlot(s, new[s])}
        BY <3>2
      <4>. QED
        BY <4>1, FS_Singleton
    <3>. QED
      BY <3>1, <3>2
  <2>. HIDE DEF For
  <2>3. SetToSeq(For(area)) \in Seq(For(area))
    BY <2>2, ToSeqType
  <2>. QED
    BY <2>1, <2>3
<1>. HIDE DEF For
<1>5. pending' \in [Hops -> Seq(Lsa)]
  <2>1. ASSUME NEW h \in Hops, NEW area, NEW lsas \in Seq(Lsa)
        PROVE  FloodV3(pending, r, area, NoLink, r, lsas)[h] \in Seq(Lsa)
    <3>1. pending[h] \in Seq(Lsa)
      BY DEF TypeOK
    <3>2. pending[h] \o lsas \in Seq(Lsa)
      BY <3>1
    <3>. QED
      BY <3>1, <3>2 DEF FloodV3
  <2>. QED
    BY <1>3, <1>4, <2>1
<1>6. db' \in [Routers -> [Slot -> Instance \cup {NoLsa}]]
  BY <1>1, <1>2, InstallType DEF TypeOK
<1>7. latest' \in [Slot -> Instance \cup {NoLsa}]
  BY <1>1, <1>2, InstallType DEF TypeOK
<1>. QED
  BY <1>2, <1>5, <1>6, <1>7

\* Routers start with the first instances.
LEMMA TInit == Init => TInv
<1>. SUFFICES ASSUME Init PROVE TInv
  OBVIOUS
<1>1. net \in Network /\ todo \in [Routers -> Nat]
  BY FloodingAssumption DEF Init
<1>2. \A s \in Slot : Settled(s) \in Instance \cup {NoLsa}
  BY FloodingAssumption DEF Settled, Instance, Slot
<1>3. latest \in [Slot -> Instance \cup {NoLsa}]
  BY <1>2 DEF Init
<1>4. db \in [Routers -> [Slot -> Instance \cup {NoLsa}]]
  BY <1>2 DEF Init
<1>5. /\ pending \in [Hops -> Seq(Lsa)] /\ wire \in [Hops -> Seq(Seq(Lsa))]
      /\ \A h \in Hops : wire[h] \in Seq(Single)
  BY DEF Init
<1>6. changed \in [Routers -> BOOLEAN]
  BY DEF Init
<1>. QED
  BY <1>1, <1>3, <1>4, <1>5, <1>6 DEF TInv, TypeOK

\* Updates of version 2 are updates.
LEMMA SingleType ==
  /\ Single \subseteq Seq(Lsa)
  /\ Seq(Single) \subseteq Seq(Seq(Lsa))
  /\ \A m \in Single : m[1] \in Lsa /\ m = <<m[1]>>
<1>1. Single \subseteq Seq(Lsa)
  <2>1. \A x \in Lsa : <<x>> \in Seq(Lsa)
    OBVIOUS
  <2>. QED
    BY <2>1 DEF Single
<1>2. Seq(Single) \subseteq Seq(Seq(Lsa))
  BY <1>1
<1>3. \A m \in Single : m[1] \in Lsa /\ m = <<m[1]>>
  BY DEF Single
<1>. QED
  BY <1>1, <1>2, <1>3

\* A router renews its LSAs in version 2.
LEMMA RenewV2Type ==
  ASSUME TInv, net.version = 2, UNCHANGED net, NEW r \in Routers, RenewV2(r)
  PROVE  /\ db' \in [Routers -> [Slot -> Instance \cup {NoLsa}]]
         /\ latest' \in [Slot -> Instance \cup {NoLsa}]
         /\ wire' \in [Hops -> Seq(Single)]
<1>. DEFINE S == RouterSlots(r)
            new == Renewed(r, S)
            taken == {s \in S : Newer(new[s], db[r][s])}
            some == [s \in taken |-> new[s]]
            lsus == {<<InSlot(s, new[s])>> : s \in S}
<1>1. TypeOK /\ S \in SUBSET Slot /\ new \in [S -> Instance]
  BY OwnSlots, RenewedType DEF TInv
<1>2. taken \in SUBSET Slot /\ some \in [taken -> Instance]
  BY <1>1
<1>3. /\ db' = [db EXCEPT ![r] = Install(db[r], some)] /\ latest' = Install(latest, new)
      /\ wire' = [h \in Hops |-> IF FloodsTo(r, NoLink, r, h)
                                 THEN wire[h] \o SetToSeq(lsus) ELSE wire[h]]
  <2>1. DOMAIN new = S
    BY <1>1
  <2>. QED
    BY <2>1 DEF RenewV2
<1>4. lsus \subseteq Single
  BY <1>1, InSlotType DEF Single
<1>5. IsFiniteSet(lsus)
  <2>1. IsFiniteSet(AreasOf(r))
    BY <1>1, NetType
  <2>. DEFINE slot(a) == [area |-> a, adv |-> r, type |-> "router"]
              F == [a \in AreasOf(r) |-> <<InSlot(slot(a), new[slot(a)])>>]
  <2>2. lsus = {F[a] : a \in AreasOf(r)}
    BY DEF RouterSlots
  <2>3. F \in Surjection(AreasOf(r), {F[a] : a \in AreasOf(r)})
    BY DEF Surjection
  <2>. HIDE DEF F, lsus
  <2>. QED
    BY <2>1, <2>2, <2>3, FS_Surjection
<1>. HIDE DEF lsus
<1>6. SetToSeq(lsus) \in Seq(Single)
  <2>1. SetToSeq(lsus) \in Seq(lsus)
    BY <1>5, ToSeqType
  <2>. QED
    BY <1>4, <2>1
<1>7. wire' \in [Hops -> Seq(Single)]
  <2>1. \A h \in Hops : wire[h] \in Seq(Single)
    BY DEF TInv
  <2>2. \A h \in Hops : wire[h] \o SetToSeq(lsus) \in Seq(Single)
    BY <1>6, <2>1
  <2>. QED
    BY <1>3, <2>1, <2>2
<1>. HIDE DEF some, new
<1>8. db' \in [Routers -> [Slot -> Instance \cup {NoLsa}]]
  BY <1>1, <1>2, <1>3, InstallType DEF TypeOK
<1>9. latest' \in [Slot -> Instance \cup {NoLsa}]
  BY <1>1, <1>3, InstallType DEF TypeOK
<1>. QED
  BY <1>7, <1>8, <1>9

\* An update of version 2 arrives.  Facts about its LSA that the proof of agreement
\* needs too: what is compared is of the right kind, and the reply goes back.
LEMMA DeliverV2Facts ==
  ASSUME TInv, net.version = 2, NEW h \in Hops, wire[h] # <<>>
  PROVE  LET x == Head(wire[h])[1]
             back == [h EXCEPT !.from = h.to, !.to = h.from]
         IN  /\ x \in Lsa /\ Head(wire[h]) = <<x>>
             /\ Tail(wire[h]) \in Seq(Single)
             /\ [wire EXCEPT ![h] = Tail(wire[h])] \in [Hops -> Seq(Single)]
             /\ At(On(h.link).area, x) \in Slot
             /\ back \in Hops /\ back.link = h.link /\ back.from = h.to /\ back.to = h.from
<1>. DEFINE x == Head(wire[h])[1]
            back == [h EXCEPT !.from = h.to, !.to = h.from]
<1>1. wire[h] \in Seq(Single) /\ wire \in [Hops -> Seq(Seq(Lsa))]
  BY DEF TInv, TypeOK
<1>2. Head(wire[h]) \in Single /\ Tail(wire[h]) \in Seq(Single)
  BY <1>1
<1>3. x \in Lsa /\ Head(wire[h]) = <<x>>
  BY <1>2, SingleType
<1>4. [wire EXCEPT ![h] = Tail(wire[h])] \in [Hops -> Seq(Single)]
  BY <1>1, <1>2 DEF TInv
<1>5. On(h.link).area \in Areas
  BY NetType DEF TInv, Link
<1>6. At(On(h.link).area, x) \in Slot
  <2>. HIDE DEF x
  <2>. QED
    BY <1>3, <1>5 DEF At, Slot, Lsa
<1>7. back \in Hops /\ back.link = h.link /\ back.from = h.to /\ back.to = h.from
  BY DEF Hops, Hop
<1>. QED
  BY <1>2, <1>3, <1>4, <1>6, <1>7

\* The types after it.
LEMMA DeliverV2Type ==
  ASSUME TInv, net.version = 2, NEW h \in Hops, wire[h] # <<>>,
         ProcessLsuV2(h, [wire EXCEPT ![h] = Tail(@)], Head(wire[h])[1])
  PROVE  /\ db' \in [Routers -> [Slot -> Instance \cup {NoLsa}]]
         /\ wire' \in [Hops -> Seq(Single)]
<1>. DEFINE x == Head(wire[h])[1]
            w == [wire EXCEPT ![h] = Tail(wire[h])]
            r == h.to
            area == On(h.link).area
            slot == At(area, x)
            back == [h EXCEPT !.from = r, !.to = h.from]
            y == InSlot(slot, db[r][slot])
<1>1. /\ x \in Lsa /\ w \in [Hops -> Seq(Single)] /\ slot \in Slot /\ back \in Hops
  BY DeliverV2Facts
<1>2. /\ db' = IF Fresh(db[r], area, x) THEN [db EXCEPT ![r][slot] = x.inst] ELSE db
      /\ wire' = CASE Fresh(db[r], area, x) -> FloodV2(w, r, h.link, h.from, <<x>>)
                   [] Older(db[r], area, x) -> [w EXCEPT ![back] = Append(@, <<y>>)]
                   [] OTHER -> w
  BY DEF ProcessLsuV2
<1>3. db \in [Routers -> [Slot -> Instance \cup {NoLsa}]] /\ r \in Routers
  BY NetType DEF TInv, TypeOK
<1>. HIDE DEF x, w, back
<1>4. x.inst \in Instance /\ <<x>> \in Single
  BY <1>1 DEF Lsa, Single
<1>5. db' \in [Routers -> [Slot -> Instance \cup {NoLsa}]]
  <2>. HIDE DEF slot, r, area
  <2>. QED
    BY <1>1, <1>2, <1>3, <1>4
<1>6. Older(db[r], area, x) => <<y>> \in Single
  <2>1. Older(db[r], area, x) => db[r][slot] \in Instance
    BY <1>1, <1>3 DEF Older
  <2>. HIDE DEF slot
  <2>. QED
    BY <1>1, <2>1, InSlotType DEF Single
<1>7. FloodV2(w, r, h.link, h.from, <<x>>) \in [Hops -> Seq(Single)]
  <2>1. \A g \in Hops : Append(w[g], <<x>>) \in Seq(Single)
    BY <1>1, <1>4
  <2>. QED
    BY <1>1, <2>1 DEF FloodV2
<1>8. Older(db[r], area, x) => [w EXCEPT ![back] = Append(@, <<y>>)] \in [Hops -> Seq(Single)]
  <2>. HIDE DEF y
  <2>1. Older(db[r], area, x) => Append(w[back], <<y>>) \in Seq(Single)
    BY <1>1, <1>6
  <2>. QED
    BY <1>1, <2>1
<1>9. wire' \in [Hops -> Seq(Single)]
  <2>. HIDE DEF slot, r, area, y
  <2>. QED
    BY <1>1, <1>2, <1>7, <1>8
<1>. QED
  BY <1>5, <1>9

\* An update of version 3 arrives.
LEMMA DeliverV3Type ==
  ASSUME TypeOK, NEW h \in Hops, wire[h] # <<>>,
         ProcessLsuV3(h, [wire EXCEPT ![h] = Tail(@)], Head(wire[h]))
  PROVE  /\ db' \in [Routers -> [Slot -> Instance \cup {NoLsa}]]
         /\ pending' \in [Hops -> Seq(Lsa)]
         /\ changed' \in [Routers -> BOOLEAN]
         /\ wire' \in [Hops -> Seq(Seq(Lsa))]
<1>. DEFINE lsas == Head(wire[h])
            w == [wire EXCEPT ![h] = Tail(wire[h])]
            r == h.to
            area == On(h.link).area
            For(s) == {i \in DOMAIN lsas : At(area, lsas[i]) = s}
            D == [s \in Slot |-> IF For(s) = {} THEN db[r][s] ELSE lsas[Max(For(s))].inst]
<1>1. /\ wire \in [Hops -> Seq(Seq(Lsa))] /\ pending \in [Hops -> Seq(Lsa)]
      /\ db \in [Routers -> [Slot -> Instance \cup {NoLsa}]] /\ changed \in [Routers -> BOOLEAN]
      /\ r \in Routers
  BY NetType DEF TypeOK
<1>2. lsas \in Seq(Lsa) /\ Tail(wire[h]) \in Seq(Seq(Lsa))
  BY <1>1
<1>3. w \in [Hops -> Seq(Seq(Lsa))]
  BY <1>1, <1>2
<1>4. /\ db' = [db EXCEPT ![r] = D] /\ wire' = w
      /\ pending' = FloodV3(pending, r, area, h.link, h.from, lsas)
      /\ changed' = [changed EXCEPT ![r] =
                       @ \/ \E i \in DOMAIN lsas : lsas[i].inst # db[r][At(area, lsas[i])]]
  BY DEF ProcessLsuV3
<1>. HIDE DEF lsas, w
<1>5. ASSUME NEW s \in Slot, For(s) # {}
      PROVE  lsas[Max(For(s))].inst \in Instance
  <2>1. Len(lsas) \in Nat /\ DOMAIN lsas = 1..Len(lsas)
    BY <1>2
  <2>2. For(s) \in SUBSET (1..Len(lsas))
    BY <2>1
  <2>3. Max(For(s)) \in For(s)
    <3>. HIDE DEF For
    <3>. QED
      BY <1>5, <2>1, <2>2, LastIndex
  <2>4. Max(For(s)) \in DOMAIN lsas
    BY <2>3
  <2>5. lsas[Max(For(s))] \in Lsa
    <3>. HIDE DEF For
    <3>. QED
      BY <1>2, <2>4
  <2>. QED
    BY <2>5 DEF Lsa
<1>6. D \in [Slot -> Instance \cup {NoLsa}]
  <2>. HIDE DEF For
  <2>. QED
    BY <1>1, <1>5
<1>. HIDE DEF D
<1>7. db' \in [Routers -> [Slot -> Instance \cup {NoLsa}]]
  BY <1>1, <1>4, <1>6
<1>8. pending' \in [Hops -> Seq(Lsa)]
  <2>1. \A g \in Hops : pending[g] \o lsas \in Seq(Lsa)
    BY <1>1, <1>2
  <2>. QED
    BY <1>1, <1>4, <2>1 DEF FloodV3
<1>9. changed' \in [Routers -> BOOLEAN]
  <2>. DEFINE c == changed[r] \/ \E i \in DOMAIN lsas : lsas[i].inst # db[r][At(area, lsas[i])]
  <2>1. changed' = [changed EXCEPT ![r] = c] /\ c \in BOOLEAN
    BY <1>4
  <2>. HIDE DEF c
  <2>. QED
    BY <1>1, <2>1
<1>. QED
  BY <1>3, <1>4, <1>7, <1>8, <1>9

\* Every action keeps the types.
LEMMA TStep ==
  ASSUME TInv, [Next]_vars
  PROVE  TInv'
<1>0. TypeOK
  BY DEF TInv
<1>1. net' = net
  BY DEF Next, vars, Renew, RenewV2, RenewV3, InsertSelf, EmitTick, SpfTick, Deliver
<1>2. Hops' = Hops
  BY <1>1 DEF Hops, On
<1>3. net \in Network /\ net.version \in {2, 3}
  BY <1>0 DEF TypeOK, Network
<1>. USE DEF TypeOK
<1>4. ASSUME NEW r \in Routers, Renew(r)
      PROVE  TInv'
  <2>1. todo' \in [Routers -> Nat]
    <3>1. todo' = [todo EXCEPT ![r] = @ - 1] /\ todo[r] > 0
      BY <1>4 DEF Renew
    <3>. QED
      BY <1>0, <3>1
  <2>2. CASE net.version = 2
    <3>1. RenewV2(r)
      BY <1>4, <2>2 DEF Renew, V3
    <3>2. /\ db' \in [Routers -> [Slot -> Instance \cup {NoLsa}]]
          /\ latest' \in [Slot -> Instance \cup {NoLsa}]
          /\ wire' \in [Hops -> Seq(Single)]
      BY <1>1, <2>2, <3>1, RenewV2Type
    <3>3. wire' \in [Hops -> Seq(Seq(Lsa))]
      BY <3>2, SingleType
    <3>4. UNCHANGED <<pending, changed>>
      BY <3>1 DEF RenewV2
    <3>. QED
      BY <1>0, <1>1, <1>2, <2>1, <3>2, <3>3, <3>4 DEF TInv
  <2>3. CASE net.version = 3
    <3>1. InsertSelf(r, RouterSlots(r)) /\ changed' = [changed EXCEPT ![r] = TRUE]
      BY <1>4, <2>3 DEF Renew, V3, RenewV3
    <3>2. /\ db' \in [Routers -> [Slot -> Instance \cup {NoLsa}]]
          /\ pending' \in [Hops -> Seq(Lsa)]
          /\ latest' \in [Slot -> Instance \cup {NoLsa}]
          /\ wire' = wire
      <4>1. \A s \in RouterSlots(r), t \in RouterSlots(r) : s.area = t.area => s = t
        BY DEF RouterSlots
      <4>. QED
        BY <1>0, <1>1, <3>1, <4>1, OwnSlots, InsertSelfType
    <3>3. changed' \in [Routers -> BOOLEAN]
      BY <1>0, <3>1
    <3>. QED
      BY <1>0, <1>1, <1>2, <2>1, <2>3, <3>2, <3>3 DEF TInv
  <2>. QED
    BY <1>3, <2>2, <2>3
<1>5. ASSUME NEW r \in Routers, EmitTick(r)
      PROVE  TInv'
  <2>1. net.version = 3
    BY <1>5 DEF EmitTick, V3
  <2>2. \A h \in Hops : <<pending[h]>> \in Seq(Seq(Lsa))
    BY <1>0
  <2>3. wire' \in [Hops -> Seq(Seq(Lsa))] /\ pending' \in [Hops -> Seq(Lsa)]
    <3>1. \A h \in Hops : wire[h] \in Seq(Seq(Lsa)) /\ pending[h] \in Seq(Lsa)
      BY <1>0
    <3>. QED
      BY <1>5, <2>2, <3>1 DEF EmitTick
  <2>. QED
    BY <1>0, <1>1, <1>2, <1>5, <2>1, <2>3 DEF TInv, EmitTick
<1>6. ASSUME NEW r \in Routers, SpfTick(r)
      PROVE  TInv'
  <2>. DEFINE S == IF IsAbr(r) THEN SummarySlots(r) ELSE {}
  <2>1. /\ net.version = 3 /\ InsertSelf(r, S) /\ UNCHANGED <<net, todo>>
        /\ changed' = [changed EXCEPT ![r] = FALSE]
    BY <1>6 DEF SpfTick, V3, OriginateSummaries
  <2>2. S \in SUBSET Slot /\ \A s \in S, t \in S : s.area = t.area => s = t
    <3>1. \A s \in SummarySlots(r), t \in SummarySlots(r) : s.area = t.area => s = t
      BY DEF SummarySlots
    <3>. QED
      BY <1>0, <3>1, OwnSlots
  <2>. HIDE DEF S
  <2>3. /\ db' \in [Routers -> [Slot -> Instance \cup {NoLsa}]]
        /\ pending' \in [Hops -> Seq(Lsa)]
        /\ latest' \in [Slot -> Instance \cup {NoLsa}]
        /\ wire' = wire
    BY <1>0, <2>1, <2>2, InsertSelfType
  <2>4. changed' \in [Routers -> BOOLEAN]
    BY <1>0, <2>1
  <2>. QED
    BY <1>0, <1>1, <1>2, <2>1, <2>3, <2>4 DEF TInv
<1>7. ASSUME NEW h \in Hop, Deliver(h)
      PROVE  TInv'
  <2>1. h \in Hops /\ wire[h] # <<>> /\ UNCHANGED <<net, todo, latest>>
    BY <1>7 DEF Deliver
  <2>2. CASE net.version = 2
    <3>1. ProcessLsuV2(h, [wire EXCEPT ![h] = Tail(@)], Head(wire[h])[1])
      BY <1>7, <2>2 DEF Deliver, V3
    <3>2. /\ db' \in [Routers -> [Slot -> Instance \cup {NoLsa}]]
          /\ wire' \in [Hops -> Seq(Single)]
      BY <2>1, <2>2, <3>1, DeliverV2Type
    <3>3. wire' \in [Hops -> Seq(Seq(Lsa))]
      BY <3>2, SingleType
    <3>4. UNCHANGED <<pending, changed>>
      BY <3>1 DEF ProcessLsuV2
    <3>. QED
      BY <1>0, <1>1, <1>2, <2>1, <3>2, <3>3, <3>4 DEF TInv
  <2>3. CASE net.version = 3
    <3>1. ProcessLsuV3(h, [wire EXCEPT ![h] = Tail(@)], Head(wire[h]))
      BY <1>7, <2>3 DEF Deliver, V3
    <3>2. /\ db' \in [Routers -> [Slot -> Instance \cup {NoLsa}]]
          /\ pending' \in [Hops -> Seq(Lsa)]
          /\ changed' \in [Routers -> BOOLEAN]
          /\ wire' \in [Hops -> Seq(Seq(Lsa))]
      BY <1>0, <2>1, <3>1, DeliverV3Type
    <3>. QED
      BY <1>0, <1>1, <1>2, <2>1, <2>3, <3>2 DEF TInv
  <2>. QED
    BY <1>3, <2>2, <2>3
<1>8. CASE UNCHANGED vars
  BY <1>8, <1>2 DEF vars, TInv
<1>. QED
  BY <1>4, <1>5, <1>6, <1>7, <1>8 DEF Next

\* Databases, queues and packets keep their types in either version, on any network.
THEOREM TypeCorrect == Spec => []TypeOK
<1>1. TInv => TypeOK
  BY DEF TInv
<1>. QED
  BY <1>1, TInit, TStep, PTL DEF Spec

-----------------------------------------------------------------------------
(* Agreement in version 2, on a connected network of one area.             *)

\* The routers with an interface in area a.
Known(a) == {r \in Routers : a \in AreasOf(r)}

\* All links are of area a, the DR or the Backup of a broadcast network is on it, and the
\* routers fall into no two groups without a link between them.
OneArea(a) ==
  /\ net.version = 2
  /\ \A l \in Links : On(l).members # {} => On(l).area = a /\ On(l).hubs \cap On(l).members # {}
  /\ \A S \in SUBSET Known(a) : S # {} /\ S # Known(a) =>
       \E l \in Links : On(l).members \cap S # {} /\ On(l).members \ S # {}

\* No sequence number wraps.
NumbersSuffice == \A t \in Renewals, r \in Routers : t[r] + 1 < SeqWidth

Value == Instance \cup {NoLsa}

\* x is y or more recent.
AtLeast(x, y) == x.seq > y.seq \/ (x.seq = y.seq /\ x.home >= y.home)

\* A queue of updates holds one with LSA x.
Carries(u, x) == \E k \in DOMAIN u : u[k] = <<x>>

\* Router q holds v or better in slot s, or will hear of it over link l; with databases d
\* and updates w.
Hears(a, d, w, l, q, s, v) ==
  \/ AtLeast(d[q][s], v)
  \/ \E g \in Hops : /\ g.link = l /\ g.to = q
                     /\ \E x \in Lsa : Carries(w[g], x) /\ At(a, x) = s /\ AtLeast(x.inst, v)

\* Everybody on a link holds what another one on it holds, or will hear of it.
Shared(a, d, w) ==
  \A l \in Links, s \in Slot, r \in Routers, q \in Routers :
    {r, q} \subseteq On(l).members => Hears(a, d, w, l, q, s, d[r][s])

\* What is under way is held by its sender, and everybody on the link will hear of it.
Backed(a, d, w) ==
  \A h \in Hops, x \in Lsa : Carries(w[h], x) =>
    /\ AtLeast(d[h.from][At(a, x)], x.inst)
    /\ \A q \in On(h.link).members : Hears(a, d, w, h.link, q, At(a, x), x.inst)

\* Nothing is ahead of its originator, and nobody outside the area holds anything.
Genuine(a, d, w, top) ==
  /\ \A r \in Routers, s \in Slot : AtLeast(top[s], d[r][s])
  /\ \A h \in Hops, x \in Lsa : Carries(w[h], x) => AtLeast(top[At(a, x)], x.inst)
  /\ \A s \in Slot : s.adv \in Known(a) => d[s.adv][s] = top[s]
  /\ \A s \in Slot : s.area # a \/ s.adv \notin Known(a) => top[s] = NoLsa
  /\ \A r \in Routers \ Known(a), s \in Slot : d[r][s] = NoLsa

Agreeing(a) ==
  /\ Shared(a, db, wire) /\ Backed(a, db, wire) /\ Genuine(a, db, wire, latest)
  /\ \A s \in Slot : latest[s].seq + todo[s.adv] < SeqWidth

AInv == TInv /\ (NumbersSuffice => \A a \in Areas : OneArea(a) => Agreeing(a))

\* What is kept in a slot.
LEMMA ValueType ==
  /\ \A z \in Instance : z.seq \in Int /\ z.home \in Int /\ z.seq >= 0 /\ z.home >= 0
  /\ \A z \in Value : /\ z.seq \in Int /\ z.home \in Int /\ z.seq >= 0 /\ z.home >= -1
                      /\ z = [seq |-> z.seq, home |-> z.home]
<1>1. ASSUME NEW z \in Instance
      PROVE  /\ z.seq \in Int /\ z.home \in Int /\ z.seq >= 0 /\ z.home >= 0
             /\ z = [seq |-> z.seq, home |-> z.home]
  <2>1. z.home \in Areas /\ z.seq \in 0..(SeqWidth - 1) /\ z = [seq |-> z.seq, home |-> z.home]
    BY DEF Instance
  <2>2. z.home \in Nat
    BY <2>1, FloodingAssumption
  <2>3. z.seq \in Nat
    BY <2>1, FloodingAssumption
  <2>. QED
    BY <2>1, <2>2, <2>3
<1>. QED
  BY <1>1 DEF Value, NoLsa

\* Recency is a total order of instances, and nothing kept comes last.
LEMMA Recency ==
  ASSUME NEW x \in Value, NEW y \in Value
  PROVE  /\ AtLeast(x, x)
         /\ Newer(x, y) => AtLeast(x, y)
         /\ ~Newer(x, y) => AtLeast(y, x)
         /\ AtLeast(x, y) /\ AtLeast(y, x) => x = y
         /\ AtLeast(NoLsa, x) => x = NoLsa
         /\ AtLeast(x, NoLsa)
         /\ \A z \in Value : AtLeast(x, y) /\ AtLeast(y, z) => AtLeast(x, z)
<1>1. \A z \in Instance : z.home >= 0
  BY ValueType
<1>2. \A z \in Value : /\ z.seq \in Int /\ z.home \in Int /\ z.seq >= 0 /\ z.home >= -1
                       /\ z = [seq |-> z.seq, home |-> z.home]
  BY ValueType
<1>3. NoLsa.seq = 0 /\ NoLsa.home = -1 /\ NoLsa \in Value
  BY DEF NoLsa, Value
<1>4. /\ AtLeast(x, x)
      /\ Newer(x, y) => AtLeast(x, y)
      /\ ~Newer(x, y) => AtLeast(y, x)
      /\ AtLeast(x, NoLsa)
  BY <1>2, <1>3 DEF Newer, AtLeast
<1>5. AtLeast(x, y) /\ AtLeast(y, x) => x = y
  BY <1>2 DEF AtLeast
<1>6. AtLeast(NoLsa, x) => x = NoLsa
  BY <1>1, <1>2, <1>3 DEF AtLeast, Value
<1>7. \A z \in Value : AtLeast(x, y) /\ AtLeast(y, z) => AtLeast(x, z)
  BY <1>2 DEF AtLeast
<1>. QED
  BY <1>4, <1>5, <1>6, <1>7

\* What a queue carries when an update is added, and when one is taken off.
LEMMA QueueCarries ==
  ASSUME NEW u \in Seq(Single), NEW x \in Lsa
  PROVE  /\ \A y \in Lsa : /\ Carries(Append(u, <<y>>), x) <=> Carries(u, x) \/ x = y
                           /\ Carries(u \o <<<<y>>>>, x) <=> Carries(u, x) \/ x = y
         /\ u # <<>> => (Carries(u, x) <=> Carries(Tail(u), x) \/ x = Head(u)[1])
<1>1. ASSUME NEW y \in Lsa
      PROVE  Carries(Append(u, <<y>>), x) <=> Carries(u, x) \/ x = y
  <2>. DEFINE v == Append(u, <<y>>)
  <2>1. /\ DOMAIN v = 1..(Len(u) + 1) /\ v[Len(u) + 1] = <<y>> /\ DOMAIN u = 1..Len(u)
        /\ Len(u) \in Nat /\ \A k \in 1..Len(u) : v[k] = u[k]
    BY AppendProperties
  <2>2. \A k \in DOMAIN v : k \in DOMAIN u \/ k = Len(u) + 1
    BY <2>1
  <2>3. <<y>> = <<x>> <=> x = y
    OBVIOUS
  <2>. HIDE DEF v
  <2>. QED
    BY <2>1, <2>2, <2>3 DEF Carries, v
<1>2. ASSUME NEW y \in Lsa
      PROVE  u \o <<<<y>>>> = Append(u, <<y>>)
  <2>1. <<y>> \in Single
    BY DEF Single
  <2>. QED
    BY <2>1, AppendIsConcat
<1>3. ASSUME u # <<>>
      PROVE  Carries(u, x) <=> Carries(Tail(u), x) \/ x = Head(u)[1]
  <2>. DEFINE v == Tail(u)
  <2>1. /\ DOMAIN u = 1..Len(u) /\ Len(u) \in Nat /\ Len(u) >= 1
        /\ DOMAIN v = 1..(Len(u) - 1) /\ \A k \in 1..(Len(u) - 1) : v[k] = u[k + 1]
        /\ Head(u) = u[1] /\ u[1] \in Single
    BY <1>3
  <2>2. u[1] = <<x>> <=> x = u[1][1]
    BY <2>1, SingleType
  <2>. HIDE DEF v
  <2>3. ASSUME NEW k \in DOMAIN u, u[k] = <<x>>
        PROVE  Carries(v, x) \/ x = u[1][1]
    <3>1. CASE k = 1
      BY <2>2, <2>3, <3>1
    <3>2. CASE k # 1
      <4>1. k - 1 \in DOMAIN v /\ v[k - 1] = u[k]
        BY <2>1, <3>2
      <4>. QED
        BY <2>3, <4>1 DEF Carries
    <3>. QED
      BY <3>1, <3>2
  <2>4. ASSUME NEW k \in DOMAIN v, v[k] = <<x>>
        PROVE  Carries(u, x)
    <3>1. k + 1 \in DOMAIN u /\ u[k + 1] = v[k]
      BY <2>1
    <3>. QED
      BY <2>4, <3>1 DEF Carries
  <2>5. x = u[1][1] => Carries(u, x)
    BY <2>1, <2>2 DEF Carries
  <2>. QED
    BY <2>1, <2>3, <2>4, <2>5 DEF Carries, v
<1>. QED
  BY <1>1, <1>2, <1>3

\* What one hears of stays so while databases only improve, and an update that is taken
\* off is in the database.
LEMMA HearsStays ==
  ASSUME NEW a, NEW d \in [Routers -> [Slot -> Value]], NEW e \in [Routers -> [Slot -> Value]],
         NEW w, NEW u,
         \A r \in Routers, s \in Slot : AtLeast(e[r][s], d[r][s]),
         \A h \in Hops, x \in Lsa :
           Carries(w[h], x) => Carries(u[h], x) \/ AtLeast(e[h.to][At(a, x)], x.inst),
         NEW l, NEW q \in Routers, NEW s \in Slot, NEW v \in Value,
         Hears(a, d, w, l, q, s, v)
  PROVE  Hears(a, e, u, l, q, s, v)
<1>1. CASE AtLeast(d[q][s], v)
  <2>1. d[q][s] \in Value /\ e[q][s] \in Value /\ AtLeast(e[q][s], d[q][s])
    OBVIOUS
  <2>2. AtLeast(e[q][s], v)
    BY <1>1, <2>1, Recency
  <2>. QED
    BY <2>2 DEF Hears
<1>2. ASSUME NEW g \in Hops, g.link = l, g.to = q, NEW x \in Lsa, Carries(w[g], x),
             At(a, x) = s, AtLeast(x.inst, v)
      PROVE  Hears(a, e, u, l, q, s, v)
  <2>1. CASE Carries(u[g], x)
    BY <1>2, <2>1 DEF Hears
  <2>2. CASE AtLeast(e[q][s], x.inst)
    <3>1. x.inst \in Value /\ e[q][s] \in Value
      BY DEF Lsa, Value
    <3>2. AtLeast(e[q][s], v)
      BY <1>2, <2>2, <3>1, Recency
    <3>. QED
      BY <3>2 DEF Hears
  <2>. QED
    BY <1>2, <2>1, <2>2
<1>. QED
  BY <1>1, <1>2 DEF Hears

\* Who hears of an instance hears of an older one.
LEMMA HearsLess ==
  ASSUME NEW a, NEW d \in [Routers -> [Slot -> Value]], NEW w, NEW l, NEW q \in Routers,
         NEW s \in Slot, NEW v \in Value, NEW o \in Value,
         Hears(a, d, w, l, q, s, v), AtLeast(v, o)
  PROVE  Hears(a, d, w, l, q, s, o)
<1>1. d[q][s] \in Value /\ \A x \in Lsa : x.inst \in Value
  BY DEF Lsa, Value
<1>2. AtLeast(d[q][s], v) => AtLeast(d[q][s], o)
  BY <1>1, Recency
<1>3. \A x \in Lsa : AtLeast(x.inst, v) => AtLeast(x.inst, o)
  BY <1>1, Recency
<1>. QED
  BY <1>2, <1>3 DEF Hears

\* install takes what is more recent than the entry, and nothing else.
LEMMA FreshMeans ==
  ASSUME NEW d \in [Slot -> Value], NEW area \in Areas, NEW x \in Lsa
  PROVE  /\ At(area, x) \in Slot /\ x.inst \in Instance
         /\ Fresh(d, area, x) <=> ~AtLeast(d[At(area, x)], x.inst)
         /\ Fresh(d, area, x) => AtLeast(x.inst, d[At(area, x)])
         /\ Older(d, area, x) => d[At(area, x)] \in Instance
<1>. DEFINE old == d[At(area, x)]
<1>1. At(area, x) \in Slot /\ x.inst \in Instance
  BY DEF At, Slot, Lsa
<1>2. old \in Value /\ x.inst \in Value
  BY <1>1 DEF Value
<1>3. \A z \in Instance : z # NoLsa
  <2>1. \A z \in Instance : z.home \in Areas
    BY DEF Instance
  <2>2. NoLsa.home = -1 /\ -1 \notin Nat
    BY DEF NoLsa
  <2>. QED
    BY <2>1, <2>2, FloodingAssumption
<1>4. Newer(x.inst, old) => ~AtLeast(old, x.inst)
  <2>1. \A z \in Value : z.seq \in Int /\ z.home \in Int
    BY ValueType
  <2>. HIDE DEF old
  <2>. QED
    BY <1>2, <2>1 DEF Newer, AtLeast
<1>5. Fresh(d, area, x) <=> old = NoLsa \/ Newer(x.inst, old)
  BY DEF Fresh
<1>6. Older(d, area, x) => old # NoLsa
  BY DEF Older
<1>7. old = NoLsa => ~AtLeast(old, x.inst)
  BY <1>1, <1>2, <1>3, Recency
<1>. HIDE DEF old
<1>8. Fresh(d, area, x) <=> ~AtLeast(old, x.inst)
  BY <1>2, <1>4, <1>5, <1>7, Recency
<1>9. Fresh(d, area, x) => AtLeast(x.inst, old)
  BY <1>2, <1>5, Recency
<1>. QED
  BY <1>1, <1>2, <1>6, <1>8, <1>9 DEF old, Value

\* In a sound network every router has an adjacent neighbor on each of its links with
\* another router, and both ends of a hop are in the area.
LEMMA OneAreaFacts ==
  ASSUME TypeOK, NEW a \in Areas, OneArea(a), NEW h \in Hops
  PROVE  /\ On(h.link).area = a /\ h.from \in Known(a) /\ h.to \in Known(a)
         /\ {h.from, h.to} \subseteq On(h.link).members /\ h.from # h.to
         /\ \E g \in Hops : g.link = h.link /\ g.from = h.from /\ Adjacent(g)
<1>1. /\ h.link \in Links /\ h.from \in Routers /\ h.to \in Routers
      /\ {h.from, h.to} \subseteq On(h.link).members /\ h.from # h.to
  BY DEF Hops, Hop
<1>2. On(h.link).area = a /\ On(h.link).hubs \cap On(h.link).members # {}
  BY <1>1 DEF OneArea
<1>3. PICK d \in On(h.link).hubs : d \in On(h.link).members /\ d \in Routers
  BY <1>1, <1>2, NetType DEF Link
<1>4. h.from \in Known(a) /\ h.to \in Known(a)
  BY <1>1, <1>2 DEF Known, AreasOf
<1>5. \E g \in Hops : g.link = h.link /\ g.from = h.from /\ Adjacent(g)
  <2>1. CASE d = h.from
    BY <1>3, <2>1 DEF Adjacent
  <2>2. CASE d # h.from
    <3>. DEFINE g == [link |-> h.link, from |-> h.from, to |-> d]
    <3>1. g \in Hops /\ Adjacent(g) /\ g.link = h.link /\ g.from = h.from
      BY <1>1, <1>3, <2>2 DEF Hops, Hop, Adjacent
    <3>. QED
      BY <3>1
  <2>. QED
    BY <2>1, <2>2
<1>. QED
  BY <1>1, <1>2, <1>4, <1>5

\* flood_lsas_to_others passes a link over only if the LSA came in on it or its sender is
\* on it.
LEMMA PassedOver ==
  ASSUME TypeOK, NEW a \in Areas, OneArea(a), NEW h \in Hops, NEW in, NEW from,
         h.link # in, ~FloodsTo(h.from, in, from, h)
  PROVE  from \in On(h.link).members /\ from # h.from
<1>1. PICK g \in Hops : g.link = h.link /\ g.from = h.from /\ Adjacent(g)
  BY OneAreaFacts
<1>2. g.to = from
  BY <1>1 DEF FloodsTo
<1>. QED
  BY <1>1, <1>2 DEF Hops

\* A step spreads what is new: databases improve, nothing under way gets lost, a new
\* update is backed and a new entry is shared.
LEMMA Spread ==
  ASSUME TypeOK, NEW a \in Areas, NEW d \in [Routers -> [Slot -> Value]],
         NEW e \in [Routers -> [Slot -> Value]], NEW w, NEW u,
         Shared(a, d, w), Backed(a, d, w),
         \A r \in Routers, s \in Slot : AtLeast(e[r][s], d[r][s]),
         \A h \in Hops, x \in Lsa :
           Carries(w[h], x) => Carries(u[h], x) \/ AtLeast(e[h.to][At(a, x)], x.inst),
         \A h \in Hops, x \in Lsa : Carries(u[h], x) =>
           \/ Carries(w[h], x)
           \/ /\ AtLeast(e[h.from][At(a, x)], x.inst)
              /\ \A q \in On(h.link).members : Hears(a, e, u, h.link, q, At(a, x), x.inst),
         \A r \in Routers, s \in Slot :
           \/ e[r][s] = d[r][s]
           \/ \A l \in Links, q \in Routers :
                {r, q} \subseteq On(l).members => Hears(a, e, u, l, q, s, e[r][s])
  PROVE  Shared(a, e, u) /\ Backed(a, e, u)
<1>1. \A l \in Links : On(l).members \subseteq Routers
  BY NetType DEF Link
<1>2. ASSUME NEW l, NEW q \in Routers, NEW s \in Slot, NEW v \in Value,
             Hears(a, d, w, l, q, s, v)
      PROVE  Hears(a, e, u, l, q, s, v)
  BY <1>2, HearsStays
<1>3. ASSUME NEW l \in Links, NEW s \in Slot, NEW r \in Routers, NEW q \in Routers,
             {r, q} \subseteq On(l).members
      PROVE  Hears(a, e, u, l, q, s, e[r][s])
  <2>1. CASE e[r][s] = d[r][s]
    <3>1. Hears(a, d, w, l, q, s, d[r][s])
      BY <1>3 DEF Shared
    <3>2. d[r][s] \in Value
      OBVIOUS
    <3>. QED
      BY <1>2, <2>1, <3>1, <3>2
  <2>2. CASE e[r][s] # d[r][s]
    BY <1>3, <2>2
  <2>. QED
    BY <2>1, <2>2
<1>4. ASSUME NEW h \in Hops, NEW x \in Lsa, Carries(u[h], x)
      PROVE  /\ AtLeast(e[h.from][At(a, x)], x.inst)
             /\ \A q \in On(h.link).members : Hears(a, e, u, h.link, q, At(a, x), x.inst)
  <2>. SUFFICES ASSUME Carries(w[h], x)
                PROVE  /\ AtLeast(e[h.from][At(a, x)], x.inst)
                       /\ \A q \in On(h.link).members :
                            Hears(a, e, u, h.link, q, At(a, x), x.inst)
    BY <1>4
  <2>1. /\ At(a, x) \in Slot /\ x.inst \in Value /\ h.from \in Routers
        /\ h.link \in Links
    BY DEF At, Slot, Lsa, Value, Hops, Hop
  <2>2. /\ AtLeast(d[h.from][At(a, x)], x.inst)
        /\ \A q \in On(h.link).members : Hears(a, d, w, h.link, q, At(a, x), x.inst)
    BY DEF Backed
  <2>3. d[h.from][At(a, x)] \in Value /\ e[h.from][At(a, x)] \in Value
        /\ AtLeast(e[h.from][At(a, x)], d[h.from][At(a, x)])
    BY <2>1
  <2>4. AtLeast(e[h.from][At(a, x)], x.inst)
    BY <2>1, <2>2, <2>3, Recency
  <2>5. \A q \in On(h.link).members : q \in Routers
    BY <1>1, <2>1
  <2>. QED
    BY <1>2, <2>1, <2>2, <2>4, <2>5
<1>5. Shared(a, e, u)
  BY <1>3 DEF Shared
<1>6. Backed(a, e, u)
  BY <1>4 DEF Backed
<1>. QED
  BY <1>5, <1>6

\* What is left under way when an update is taken off.
LEMMA TakenOff ==
  ASSUME TInv, net.version = 2, NEW h \in Hops, wire[h] # <<>>,
         NEW g \in Hops, NEW y \in Lsa
  PROVE  LET w == [wire EXCEPT ![h] = Tail(wire[h])]
             x == Head(wire[h])[1]
         IN  /\ w[g] \in Seq(Single)
             /\ Carries(w[g], y) => Carries(wire[g], y)
             /\ Carries(wire[g], y) => Carries(w[g], y) \/ (g = h /\ y = x)
             /\ Carries(wire[h], x)
<1>. DEFINE w == [wire EXCEPT ![h] = Tail(wire[h])]
            x == Head(wire[h])[1]
<1>1. wire[h] \in Seq(Single) /\ wire \in [Hops -> Seq(Seq(Lsa))] /\ wire[g] \in Seq(Single)
  BY DEF TInv, TypeOK
<1>2. x \in Lsa /\ w \in [Hops -> Seq(Single)]
  BY DeliverV2Facts
<1>3. w[g] = IF g = h THEN Tail(wire[h]) ELSE wire[g]
  BY <1>1
<1>4. Carries(wire[h], y) <=> Carries(Tail(wire[h]), y) \/ y = x
  BY <1>1, QueueCarries
<1>5. Carries(wire[h], x)
  BY <1>1, <1>2, QueueCarries
<1>. HIDE DEF w, x
<1>. QED
  BY <1>2, <1>3, <1>4, <1>5 DEF w, x

\* What an update that arrives leaves behind, in the terms of Spread: the entry it is
\* about is as recent, and what was under way is or has been taken.
LEMMA DeliverKeeps ==
  ASSUME TInv, NEW a \in Areas, OneArea(a), NEW h \in Hops, wire[h] # <<>>,
         ProcessLsuV2(h, [wire EXCEPT ![h] = Tail(@)], Head(wire[h])[1])
  PROVE  LET x == Head(wire[h])[1]
             s == At(a, x)
         IN  /\ AtLeast(db'[h.to][s], x.inst)
             /\ \A q \in Routers, t \in Slot :
                  /\ AtLeast(db'[q][t], db[q][t])
                  /\ db'[q][t] # db[q][t] =>
                       q = h.to /\ t = s /\ Fresh(db[q], a, x) /\ db'[q][t] = x.inst
             /\ \A g \in Hops, y \in Lsa :
                  /\ Carries(wire[g], y) =>
                       Carries(wire'[g], y) \/ AtLeast(db'[g.to][At(a, y)], y.inst)
                  /\ Fresh(db[h.to], a, x) /\ FloodsTo(h.to, h.link, h.from, g) =>
                       Carries(wire'[g], x)
                  /\ Carries(wire'[g], y) =>
                       \/ Carries(wire[g], y)
                       \/ /\ y = x /\ Fresh(db[h.to], a, x)
                          /\ FloodsTo(h.to, h.link, h.from, g)
                       \/ /\ db' = db /\ g.link = h.link /\ g.from = h.to
                          /\ At(a, y) = s /\ y.inst = db[h.to][s]
<1>. DEFINE x == Head(wire[h])[1]
            w == [wire EXCEPT ![h] = Tail(wire[h])]
            r == h.to
            s == At(a, x)
            back == [h EXCEPT !.from = r, !.to = h.from]
            y0 == InSlot(s, db[r][s])
            fresh == Fresh(db[r], a, x)
            older == Older(db[r], a, x)
<1>0. TypeOK /\ net.version = 2 /\ On(h.link).area = a /\ r \in Routers
  BY OneAreaFacts, NetType DEF TInv, OneArea
<1>1. /\ x \in Lsa /\ w \in [Hops -> Seq(Single)] /\ s \in Slot
      /\ back \in Hops /\ back.link = h.link /\ back.from = r
  BY <1>0, DeliverV2Facts
<1>2. /\ db' = IF fresh THEN [db EXCEPT ![r][s] = x.inst] ELSE db
      /\ wire' = CASE fresh -> FloodV2(w, r, h.link, h.from, <<x>>)
                   [] older -> [w EXCEPT ![back] = Append(@, <<y0>>)]
                   [] OTHER -> w
  BY <1>0 DEF ProcessLsuV2
<1>3. db \in [Routers -> [Slot -> Value]] /\ db[r] \in [Slot -> Value]
  BY <1>0 DEF TypeOK, Value
<1>4. \A g \in Hops, y \in Lsa : /\ w[g] \in Seq(Single)
                                 /\ Carries(w[g], y) => Carries(wire[g], y)
                                 /\ Carries(wire[g], y) => Carries(w[g], y) \/ (g = h /\ y = x)
  BY <1>0, TakenOff
<1>. HIDE DEF x, w, back
<1>5. /\ fresh <=> ~AtLeast(db[r][s], x.inst)
      /\ fresh => AtLeast(x.inst, db[r][s])
      /\ older => db[r][s] \in Instance
      /\ x.inst \in Value
  BY <1>1, <1>3, FreshMeans DEF Value
<1>5a. fresh => ~older
  BY <1>1, <1>3, <1>5, Recency DEF Older
<1>6. older => y0 \in Lsa /\ At(a, y0) = s /\ y0.inst = db[r][s]
  <2>1. s.area = a
    BY DEF At
  <2>2. y0.inst = db[r][s]
    BY DEF InSlot
  <2>. HIDE DEF s
  <2>. QED
    BY <1>1, <1>5, <2>1, <2>2, InSlotType
<1>. HIDE DEF fresh, older, y0, s, r
<1>7. \A q \in Routers, t \in Slot :
        db'[q][t] = IF fresh /\ q = r /\ t = s THEN x.inst ELSE db[q][t]
  BY <1>0, <1>1, <1>2, <1>3
<1>8. AtLeast(db'[r][s], x.inst)
  BY <1>0, <1>1, <1>5, <1>7, Recency
<1>9. \A q \in Routers, t \in Slot :
        /\ AtLeast(db'[q][t], db[q][t])
        /\ db'[q][t] # db[q][t] => q = r /\ t = s /\ fresh /\ db'[q][t] = x.inst
  BY <1>3, <1>5, <1>7, Recency
<1>10. ASSUME NEW g \in Hops, NEW y \in Lsa
       PROVE  /\ Carries(w[g], y) => Carries(wire'[g], y)
              /\ fresh /\ FloodsTo(r, h.link, h.from, g) => Carries(wire'[g], x)
              /\ Carries(wire'[g], y) =>
                   \/ Carries(w[g], y)
                   \/ y = x /\ fresh /\ FloodsTo(r, h.link, h.from, g)
                   \/ y = y0 /\ older /\ ~fresh /\ g = back
  <2>1. CASE fresh
    <3>1. wire'[g] = IF FloodsTo(r, h.link, h.from, g) THEN Append(w[g], <<x>>) ELSE w[g]
      <4>1. wire' = FloodV2(w, r, h.link, h.from, <<x>>)
        BY <1>2, <2>1, <1>5a
      <4>. QED
        BY <4>1, Zenon DEF FloodV2
    <3>2. /\ Carries(Append(w[g], <<x>>), y) <=> Carries(w[g], y) \/ y = x
          /\ Carries(Append(w[g], <<x>>), x)
      BY <1>1, <1>4, QueueCarries
    <3>. QED
      BY <2>1, <3>1, <3>2
  <2>2. CASE ~fresh /\ older
    <3>1. wire'[g] = IF g = back THEN Append(w[g], <<y0>>) ELSE w[g]
      BY <1>1, <1>2, <2>2
    <3>2. Carries(Append(w[g], <<y0>>), y) <=> Carries(w[g], y) \/ y = y0
      BY <1>4, <1>6, <2>2, QueueCarries
    <3>. QED
      BY <2>2, <3>1, <3>2
  <2>3. CASE ~fresh /\ ~older
    BY <1>2, <2>3
  <2>. QED
    BY <2>1, <2>2, <2>3
<1>11. ASSUME NEW g \in Hops, NEW y \in Lsa
       PROVE  /\ Carries(wire[g], y) =>
                   Carries(wire'[g], y) \/ AtLeast(db'[g.to][At(a, y)], y.inst)
              /\ Carries(wire'[g], y) =>
                   \/ Carries(wire[g], y)
                   \/ y = x /\ fresh /\ FloodsTo(r, h.link, h.from, g)
                   \/ /\ db' = db /\ g.link = h.link /\ g.from = r
                      /\ At(a, y) = s /\ y.inst = db[r][s]
  <2>1. Carries(wire[g], y) => Carries(wire'[g], y) \/ AtLeast(db'[g.to][At(a, y)], y.inst)
    BY <1>4, <1>8, <1>10 DEF r, s
  <2>2. y = y0 /\ older /\ ~fresh /\ g = back =>
          /\ db' = db /\ g.link = h.link /\ g.from = r
          /\ At(a, y) = s /\ y.inst = db[r][s]
    BY <1>1, <1>2, <1>6
  <2>. QED
    BY <1>4, <1>10, <2>1, <2>2
<1>. QED
  BY <1>8, <1>9, <1>10, <1>11 DEF fresh, older, r, s, x

\* An update that arrives leaves the area agreeing.
LEMMA DeliverAgrees ==
  ASSUME TInv, NEW a \in Areas, OneArea(a), Agreeing(a), NEW h \in Hops, wire[h] # <<>>,
         ProcessLsuV2(h, [wire EXCEPT ![h] = Tail(@)], Head(wire[h])[1])
  PROVE  Shared(a, db', wire') /\ Backed(a, db', wire') /\ Genuine(a, db', wire', latest)
<1>. DEFINE x == Head(wire[h])[1]
            r == h.to
            s == At(a, x)
            fresh == Fresh(db[r], a, x)
            floods(g) == FloodsTo(r, h.link, h.from, g)
<1>0. /\ TypeOK /\ net.version = 2 /\ On(h.link).area = a
      /\ r \in Known(a) /\ {h.from, r} \subseteq On(h.link).members
      /\ r \in Routers /\ h.from \in Routers /\ h.link \in Links
      /\ Shared(a, db, wire) /\ Backed(a, db, wire) /\ Genuine(a, db, wire, latest)
  BY OneAreaFacts, NetType DEF TInv, OneArea, Agreeing
<1>1. x \in Lsa /\ s \in Slot /\ x.inst \in Value /\ Carries(wire[h], x)
  <2>1. x \in Lsa /\ s \in Slot
    BY <1>0, DeliverV2Facts
  <2>2. Carries(wire[h], x)
    BY <1>0, <2>1, TakenOff
  <2>. HIDE DEF x
  <2>. QED
    BY <2>1, <2>2 DEF Lsa, Value
<1>2. db \in [Routers -> [Slot -> Value]] /\ db' \in [Routers -> [Slot -> Value]]
  BY <1>0, DeliverV2Type DEF TypeOK, Value
<1>3. /\ AtLeast(db'[r][s], x.inst)
      /\ \A q \in Routers, t \in Slot :
           /\ AtLeast(db'[q][t], db[q][t])
           /\ db'[q][t] # db[q][t] => q = r /\ t = s /\ fresh /\ db'[q][t] = x.inst
      /\ \A g \in Hops, y \in Lsa :
           /\ Carries(wire[g], y) => Carries(wire'[g], y) \/ AtLeast(db'[g.to][At(a, y)], y.inst)
           /\ fresh /\ floods(g) => Carries(wire'[g], x)
           /\ Carries(wire'[g], y) =>
                \/ Carries(wire[g], y)
                \/ y = x /\ fresh /\ floods(g)
                \/ db' = db /\ g.link = h.link /\ g.from = r /\ At(a, y) = s /\ y.inst = db[r][s]
  BY DeliverKeeps
<1>4. fresh => ~AtLeast(db[r][s], x.inst)
  BY <1>0, <1>1, <1>2, FreshMeans
<1>5. /\ AtLeast(db[h.from][s], x.inst)
      /\ \A q \in On(h.link).members : Hears(a, db, wire, h.link, q, s, x.inst)
  <2>. HIDE DEF x
  <2>. QED
    BY <1>0, <1>1 DEF Backed
<1>6. \A l \in Links : On(l).members \subseteq Routers
  BY <1>0, NetType DEF Link
<1>7. ASSUME NEW g \in Hops, NEW f \in Hops, g.link = f.link, g.from = f.from
      PROVE  floods(g) => floods(f)
  BY <1>7 DEF FloodsTo
<1>8. ASSUME NEW l \in Links, NEW q \in Routers, q # r, {r, q} \subseteq On(l).members
      PROVE  LET g == [link |-> l, from |-> r, to |-> q]
             IN  g \in Hops /\ g.link = l /\ g.from = r /\ g.to = q
  BY <1>0, <1>8 DEF Hops, Hop
<1>9. ASSUME NEW g \in Hops, ~floods(g), g.link # h.link, g.from = r
      PROVE  h.from \in On(g.link).members
  BY <1>0, <1>9, PassedOver
<1>. HIDE DEF x, s, fresh, floods, r
<1>10. ASSUME NEW l, NEW q \in Routers, NEW t \in Slot, NEW v \in Value,
              Hears(a, db, wire, l, q, t, v)
       PROVE  Hears(a, db', wire', l, q, t, v)
  BY <1>2, <1>3, <1>10, HearsStays
<1>11. ASSUME fresh, NEW l \in Links, NEW q \in Routers, {r, q} \subseteq On(l).members
       PROVE  Hears(a, db', wire', l, q, s, x.inst)
  <2>1. CASE q = r
    BY <1>3, <2>1 DEF Hears
  <2>2. CASE l = h.link
    BY <1>1, <1>5, <1>10, <1>11, <2>2
  <2>3. CASE q # r /\ l # h.link
    <3>. DEFINE g == [link |-> l, from |-> r, to |-> q]
    <3>1. g \in Hops /\ g.link = l /\ g.from = r /\ g.to = q
      BY <1>8, <1>11, <2>3
    <3>. HIDE DEF g
    <3>2. CASE floods(g)
      <4>1. Carries(wire'[g], x) /\ AtLeast(x.inst, x.inst)
        BY <1>1, <1>3, <1>11, <3>1, <3>2, Recency
      <4>. QED
        BY <1>1, <3>1, <4>1 DEF Hears, s
    <3>3. CASE ~floods(g)
      <4>1. h.from \in On(l).members
        BY <1>9, <2>3, <3>1, <3>3
      <4>2. Hears(a, db, wire, l, q, s, db[h.from][s])
        BY <1>0, <1>1, <1>11, <4>1 DEF Shared
      <4>3. db[h.from][s] \in Value
        BY <1>0, <1>1, <1>2
      <4>4. Hears(a, db, wire, l, q, s, x.inst)
        BY <1>1, <1>2, <1>5, <4>2, <4>3, HearsLess
      <4>. QED
        BY <1>1, <1>10, <4>4
    <3>. QED
      BY <3>2, <3>3
  <2>. QED
    BY <2>1, <2>2, <2>3
<1>12. ASSUME NEW g \in Hops, NEW y \in Lsa, Carries(wire'[g], y), ~Carries(wire[g], y)
       PROVE  /\ AtLeast(db'[g.from][At(a, y)], y.inst)
              /\ \A q \in On(g.link).members : Hears(a, db', wire', g.link, q, At(a, y), y.inst)
  <2>0. g.link \in Links /\ g.from \in On(g.link).members
    BY DEF Hops, Hop
  <2>1. CASE y = x /\ fresh /\ floods(g)
    <3>1. g.from = r
      BY <2>1 DEF floods, FloodsTo
    <3>. QED
      BY <1>3, <1>6, <1>11, <2>0, <2>1, <3>1 DEF s
  <2>2. CASE db' = db /\ g.link = h.link /\ g.from = r /\ At(a, y) = s /\ y.inst = db[r][s]
    <3>1. y.inst \in Value
      BY <1>0, <1>1, <1>2, <2>2
    <3>2. AtLeast(db'[g.from][At(a, y)], y.inst)
      BY <2>2, <3>1, Recency
    <3>3. ASSUME NEW q \in On(h.link).members
          PROVE  Hears(a, db', wire', h.link, q, s, db[r][s])
      <4>1. q \in Routers /\ {r, q} \subseteq On(h.link).members
        BY <1>0, <1>6
      <4>2. Hears(a, db, wire, h.link, q, s, db[r][s])
        BY <1>0, <1>1, <4>1 DEF Shared
      <4>. QED
        BY <1>1, <1>10, <2>2, <3>1, <4>1, <4>2
    <3>. QED
      BY <2>2, <3>2, <3>3
  <2>. QED
    BY <1>3, <1>12, <2>1, <2>2
<1>13. ASSUME NEW q \in Routers, NEW t \in Slot, db'[q][t] # db[q][t],
              NEW l \in Links, NEW p \in Routers, {q, p} \subseteq On(l).members
       PROVE  Hears(a, db', wire', l, p, t, db'[q][t])
  BY <1>3, <1>11, <1>13
<1>14. Shared(a, db', wire') /\ Backed(a, db', wire')
  BY <1>0, <1>2, <1>3, <1>12, <1>13, Spread
<1>15. Genuine(a, db', wire', latest)
  <2>1. \A q \in Routers, t \in Slot : AtLeast(latest[t], db'[q][t])
    BY <1>0, <1>1, <1>3 DEF Genuine, s
  <2>2. \A g \in Hops, y \in Lsa : Carries(wire'[g], y) => AtLeast(latest[At(a, y)], y.inst)
    BY <1>0, <1>1, <1>3 DEF Genuine, s
  <2>3. \A t \in Slot : t.adv \in Known(a) => db'[t.adv][t] = latest[t]
    <3>1. \A t \in Slot : t.adv \in Routers
      BY DEF Slot
    <3>2. fresh => r # s.adv
      <4>1. r = s.adv => AtLeast(db[r][s], x.inst)
        BY <1>0, <1>1 DEF Genuine, s
      <4>. QED
        BY <1>4, <4>1
    <3>. QED
      BY <1>0, <1>3, <3>1, <3>2 DEF Genuine
  <2>4. \A q \in Routers \ Known(a), t \in Slot : db'[q][t] = NoLsa
    BY <1>0, <1>3 DEF Genuine
  <2>. QED
    BY <1>0, <2>1, <2>2, <2>3, <2>4 DEF Genuine
<1>. QED
  BY <1>14, <1>15

\* In one area a router that has interfaces has them in that area.
LEMMA AreasOfOne ==
  ASSUME TypeOK, NEW a \in Areas, OneArea(a), NEW r \in Routers
  PROVE  AreasOf(r) = IF r \in Known(a) THEN {a} ELSE {}
<1>1. AreasOf(r) \subseteq {a}
  BY DEF AreasOf, OneArea
<1>2. r \in Known(a) <=> a \in AreasOf(r)
  BY DEF Known
<1>. QED
  BY <1>1, <1>2

\* A router outside the area renews nothing.
LEMMA RenewNothing ==
  ASSUME TInv, NEW a \in Areas, OneArea(a), NEW r \in Routers, r \notin Known(a), RenewV2(r)
  PROVE  UNCHANGED <<db, wire, latest>>
<1>. DEFINE new == Renewed(r, RouterSlots(r))
            taken == {s \in DOMAIN new : Newer(new[s], db[r][s])}
            lsus == {<<InSlot(s, new[s])>> : s \in DOMAIN new}
<1>1. TypeOK
  BY DEF TInv
<1>2. AreasOf(r) = {}
  BY <1>1, AreasOfOne
<1>3. DOMAIN new = {}
  BY <1>2 DEF RouterSlots, Renewed
<1>4. /\ db' = [db EXCEPT ![r] = Install(db[r], [s \in taken |-> new[s]])]
      /\ latest' = Install(latest, new)
      /\ wire' = [h \in Hops |-> IF FloodsTo(r, NoLink, r, h)
                                 THEN wire[h] \o SetToSeq(lsus) ELSE wire[h]]
  BY DEF RenewV2
<1>5. \A h \in Hops : ~FloodsTo(r, NoLink, r, h)
  BY <1>1, OneAreaFacts DEF FloodsTo
<1>6. DOMAIN [s \in taken |-> new[s]] = {}
  BY <1>3
<1>. HIDE DEF new, lsus, taken
<1>7. wire' = wire
  BY <1>1, <1>4, <1>5 DEF TypeOK
<1>8. latest' = latest
  BY <1>1, <1>3, <1>4 DEF TypeOK, Install
<1>9. db' = db
  <2>1. Install(db[r], [s \in taken |-> new[s]]) = [s \in Slot |-> db[r][s]]
    BY <1>6 DEF Install
  <2>2. db[r] = [s \in Slot |-> db[r][s]]
    BY <1>1 DEF TypeOK
  <2>. QED
    BY <1>1, <1>4, <2>1, <2>2 DEF TypeOK
<1>. QED
  BY <1>7, <1>8, <1>9

\* A router of the area originates one instance, the next one, and floods it to all its
\* neighbors.
LEMMA RenewOne ==
  ASSUME TInv, NEW a \in Areas, OneArea(a), Agreeing(a), NEW r \in Known(a), todo[r] > 0,
         RenewV2(r)
  PROVE  LET s == [area |-> a, adv |-> r, type |-> "router"]
             n == [seq |-> latest[s].seq + 1, home |-> a]
             x == InSlot(s, n)
         IN  /\ s \in Slot /\ n \in Instance /\ x \in Lsa /\ At(a, x) = s /\ x.inst = n
             /\ AtLeast(n, latest[s])
             /\ \A t \in Slot : latest'[t] = IF t = s THEN n ELSE latest[t]
             /\ \A q \in Routers, t \in Slot :
                  db'[q][t] = IF q = r /\ t = s THEN n ELSE db[q][t]
             /\ \A h \in Hops, y \in Lsa :
                  Carries(wire'[h], y) <=> Carries(wire[h], y) \/ (h.from = r /\ y = x)
<1>. DEFINE s == [area |-> a, adv |-> r, type |-> "router"]
            n == [seq |-> latest[s].seq + 1, home |-> a]
            x == InSlot(s, n)
            S == RouterSlots(r)
            new == Renewed(r, S)
            taken == {t \in DOMAIN new : Newer(new[t], db[r][t])}
            lsus == {<<InSlot(t, new[t])>> : t \in DOMAIN new}
<1>0. TypeOK /\ r \in Routers /\ todo[r] \in Nat
  BY DEF TInv, TypeOK, Known
<1>1. s \in Slot /\ S = {s}
  <2>1. AreasOf(r) = {a}
    BY <1>0, AreasOfOne
  <2>. QED
    BY <1>0, <2>1 DEF RouterSlots, Slot
<1>2. db[r][s] = latest[s] /\ latest[s].seq + todo[r] < SeqWidth
  <2>1. s.adv = r
    OBVIOUS
  <2>. HIDE DEF s
  <2>. QED
    BY <1>1, <2>1 DEF Agreeing, Genuine
<1>3. latest[s] \in Value
  BY <1>0, <1>1 DEF TypeOK, Value
<1>4. latest[s].seq \in Int /\ latest[s].seq >= 0
  BY <1>3, ValueType
<1>5. n \in Instance /\ NextSeq(latest[s].seq) = latest[s].seq + 1
  <2>1. latest[s].seq + 1 \in 0..(SeqWidth - 1)
    BY <1>0, <1>2, <1>4, FloodingAssumption
  <2>2. NextSeq(latest[s].seq) = latest[s].seq + 1
    BY <2>1, FloodingAssumption DEF NextSeq
  <2>. QED
    BY <2>1, <2>2 DEF Instance
<1>6. x \in Lsa /\ At(a, x) = s /\ x.inst = n
  <2>1. s.area = a
    OBVIOUS
  <2>2. x.inst = n
    BY DEF InSlot
  <2>. HIDE DEF s, n
  <2>. QED
    BY <1>1, <1>5, <2>1, <2>2, InSlotType
<1>7. Newer(n, latest[s]) /\ AtLeast(n, latest[s])
  BY <1>4 DEF Newer, AtLeast
<1>8. DOMAIN new = {s} /\ new[s] = n
  BY <1>1, <1>2, <1>5 DEF Renewed
<1>9. /\ db' = [db EXCEPT ![r] = Install(db[r], [t \in taken |-> new[t]])]
      /\ latest' = Install(latest, new)
      /\ wire' = [h \in Hops |-> IF FloodsTo(r, NoLink, r, h)
                                 THEN wire[h] \o SetToSeq(lsus) ELSE wire[h]]
  BY DEF RenewV2
<1>10. taken = {s} /\ lsus = {<<x>>}
  <2>. HIDE DEF new, s, n
  <2>. QED
    BY <1>2, <1>7, <1>8
<1>. HIDE DEF new, taken, lsus, s, n, x, S
<1>11. \A t \in Slot : latest'[t] = IF t = s THEN n ELSE latest[t]
  BY <1>8, <1>9 DEF Install
<1>12. \A q \in Routers, t \in Slot : db'[q][t] = IF q = r /\ t = s THEN n ELSE db[q][t]
  <2>1. \A t \in Slot : Install(db[r], [u \in taken |-> new[u]])[t]
                        = IF t = s THEN n ELSE db[r][t]
    BY <1>8, <1>10 DEF Install
  <2>. QED
    BY <1>0, <1>9, <2>1 DEF TypeOK
<1>13. ASSUME NEW h \in Hops, NEW y \in Lsa
       PROVE  Carries(wire'[h], y) <=> Carries(wire[h], y) \/ (h.from = r /\ y = x)
  <2>1. h.from = r => FloodsTo(r, NoLink, r, h)
    <3>1. h.link # NoLink
      BY <1>0, NetType, FloodingAssumption
    <3>. QED
      BY <1>0, <3>1, PassedOver
  <2>2. FloodsTo(r, NoLink, r, h) => h.from = r
    BY DEF FloodsTo
  <2>3. wire'[h] = IF FloodsTo(r, NoLink, r, h) THEN wire[h] \o <<<<x>>>> ELSE wire[h]
    BY <1>9, <1>10, SingleToSeq
  <2>4. wire[h] \in Seq(Single)
    BY DEF TInv, OneArea
  <2>5. Carries(wire[h] \o <<<<x>>>>, y) <=> Carries(wire[h], y) \/ y = x
    BY <1>6, <2>4, QueueCarries
  <2>. QED
    BY <2>1, <2>2, <2>3, <2>5
<1>. QED
  BY <1>1, <1>5, <1>6, <1>7, <1>11, <1>12, <1>13 DEF s, n, x

\* A router that renews its Router-LSA leaves the area agreeing.
LEMMA RenewAgrees ==
  ASSUME TInv, NEW a \in Areas, OneArea(a), Agreeing(a), NEW r \in Routers, todo[r] > 0,
         todo' = [todo EXCEPT ![r] = @ - 1], RenewV2(r), UNCHANGED net
  PROVE  /\ Shared(a, db', wire') /\ Backed(a, db', wire') /\ Genuine(a, db', wire', latest')
         /\ \A s \in Slot : latest'[s].seq + todo'[s.adv] < SeqWidth
<1>0. /\ TypeOK /\ todo \in [Routers -> Nat]
      /\ Shared(a, db, wire) /\ Backed(a, db, wire) /\ Genuine(a, db, wire, latest)
      /\ \A s \in Slot : latest[s].seq + todo[s.adv] < SeqWidth
  BY DEF TInv, TypeOK, Agreeing
<1>1. \A t \in Slot : latest[t] \in Value /\ latest[t].seq \in Int /\ t.adv \in Routers
  BY <1>0, ValueType DEF TypeOK, Value, Slot
<1>2. \A q \in Routers : todo[q] \in Nat /\ todo'[q] = IF q = r THEN todo[q] - 1 ELSE todo[q]
  BY <1>0
<1>3. CASE r \notin Known(a)
  <2>1. db' = db /\ wire' = wire /\ latest' = latest
    BY <1>3, RenewNothing
  <2>2. \A s \in Slot : latest[s].seq + todo'[s.adv] < SeqWidth
    <3>1. ASSUME NEW s \in Slot
          PROVE  latest[s].seq + todo'[s.adv] < SeqWidth
      <4>1. latest[s].seq + todo[s.adv] < SeqWidth /\ latest[s].seq \in Int /\ s.adv \in Routers
        BY <1>0, <1>1
      <4>. QED
        BY <1>2, <4>1, FloodingAssumption
    <3>. QED
      BY <3>1
  <2>. QED
    BY <1>0, <2>1, <2>2
<1>4. CASE r \in Known(a)
  <2>. DEFINE s == [area |-> a, adv |-> r, type |-> "router"]
              n == [seq |-> latest[s].seq + 1, home |-> a]
              x == InSlot(s, n)
  <2>1. /\ s \in Slot /\ n \in Instance /\ x \in Lsa /\ At(a, x) = s /\ x.inst = n
        /\ AtLeast(n, latest[s])
        /\ \A t \in Slot : latest'[t] = IF t = s THEN n ELSE latest[t]
        /\ \A q \in Routers, t \in Slot : db'[q][t] = IF q = r /\ t = s THEN n ELSE db[q][t]
        /\ \A h \in Hops, y \in Lsa :
             Carries(wire'[h], y) <=> Carries(wire[h], y) \/ (h.from = r /\ y = x)
    BY <1>4, RenewOne
  <2>2. n.seq = latest[s].seq + 1 /\ s.area = a /\ s.adv = r
    OBVIOUS
  <2>3. n \in Value
    BY <2>1 DEF Value
  <2>. HIDE DEF s, n, x
  <2>4. db \in [Routers -> [Slot -> Value]] /\ db' \in [Routers -> [Slot -> Value]]
    BY <1>0, RenewV2Type DEF TypeOK, Value, OneArea
  <2>5. \A q \in Routers, t \in Slot : AtLeast(latest[t], db[q][t])
    BY <1>0 DEF Genuine
  <2>6. \A q \in Routers : AtLeast(n, db[q][s])
    <3>1. ASSUME NEW q \in Routers
          PROVE  AtLeast(n, db[q][s])
      <4>1. db[q][s] \in Value /\ latest[s] \in Value /\ AtLeast(latest[s], db[q][s])
        BY <1>1, <2>1, <2>4, <2>5
      <4>. QED
        BY <2>1, <2>3, <4>1, Recency
    <3>. QED
      BY <3>1
  <2>7. \A q \in Routers, t \in Slot : AtLeast(db'[q][t], db[q][t])
    BY <2>1, <2>4, <2>6, Recency
  <2>8. ASSUME NEW l \in Links, NEW q \in Routers, {r, q} \subseteq On(l).members
        PROVE  Hears(a, db', wire', l, q, s, n)
    <3>1. CASE q = r
      BY <2>1, <2>3, <3>1, Recency DEF Hears
    <3>2. CASE q # r
      <4>. DEFINE g == [link |-> l, from |-> r, to |-> q]
      <4>1. g \in Hops /\ g.link = l /\ g.from = r /\ g.to = q
        BY <2>8, <3>2 DEF Hops, Hop
      <4>. HIDE DEF g
      <4>2. Carries(wire'[g], x) /\ AtLeast(x.inst, n)
        BY <2>1, <2>3, <4>1, Recency
      <4>. QED
        BY <2>1, <4>1, <4>2 DEF Hears
    <3>. QED
      BY <3>1, <3>2
  <2>9. ASSUME NEW h \in Hops, NEW y \in Lsa, Carries(wire'[h], y), ~Carries(wire[h], y)
        PROVE  /\ AtLeast(db'[h.from][At(a, y)], y.inst)
               /\ \A q \in On(h.link).members :
                    Hears(a, db', wire', h.link, q, At(a, y), y.inst)
    <3>1. h.from = r /\ y = x /\ h.link \in Links /\ r \in On(h.link).members
      BY <2>1, <2>9 DEF Hops, Hop
    <3>2. \A q \in On(h.link).members : q \in Routers
      BY <1>0, <3>1, NetType DEF Link
    <3>. QED
      BY <2>1, <2>3, <2>8, <3>1, <3>2, Recency
  <2>10. ASSUME NEW q \in Routers, NEW t \in Slot, db'[q][t] # db[q][t],
                NEW l \in Links, NEW p \in Routers, {q, p} \subseteq On(l).members
         PROVE  Hears(a, db', wire', l, p, t, db'[q][t])
    BY <2>1, <2>8, <2>10
  <2>11. \A h \in Hops, y \in Lsa : Carries(wire[h], y) => Carries(wire'[h], y)
    BY <2>1
  <2>12. Shared(a, db', wire') /\ Backed(a, db', wire')
    BY <1>0, <2>4, <2>7, <2>9, <2>10, <2>11, Spread
  <2>13. Genuine(a, db', wire', latest')
    <3>1. \A q \in Routers, t \in Slot : AtLeast(latest'[t], db'[q][t])
      BY <2>1, <2>3, <2>5, <2>6, Recency
    <3>2. ASSUME NEW h \in Hops, NEW y \in Lsa, Carries(wire'[h], y)
          PROVE  AtLeast(latest'[At(a, y)], y.inst)
      <4>1. At(a, y) \in Slot /\ y.inst \in Value
        BY DEF At, Slot, Lsa, Value
      <4>2. CASE y = x
        BY <2>1, <2>3, <4>2, Recency
      <4>3. CASE Carries(wire[h], y)
        <5>1. AtLeast(latest[At(a, y)], y.inst)
          BY <1>0, <4>3 DEF Genuine
        <5>2. At(a, y) = s => AtLeast(n, y.inst)
          BY <1>1, <2>1, <2>3, <4>1, <5>1, Recency
        <5>. QED
          BY <2>1, <4>1, <5>1, <5>2
      <4>. QED
        BY <2>1, <3>2, <4>2, <4>3
    <3>3. \A t \in Slot : t.adv \in Known(a) => db'[t.adv][t] = latest'[t]
      BY <1>0, <1>1, <2>1, <2>2 DEF Genuine
    <3>4. \A t \in Slot : t.area # a \/ t.adv \notin Known(a) => latest'[t] = NoLsa
      BY <1>0, <1>4, <2>1, <2>2 DEF Genuine
    <3>5. \A q \in Routers \ Known(a), t \in Slot : db'[q][t] = NoLsa
      BY <1>0, <1>4, <2>1 DEF Genuine
    <3>. QED
      BY <3>1, <3>2, <3>3, <3>4, <3>5 DEF Genuine
  <2>14. ASSUME NEW t \in Slot
         PROVE  latest'[t].seq + todo'[t.adv] < SeqWidth
    <3>1. /\ latest[t].seq + todo[t.adv] < SeqWidth /\ latest[t].seq \in Int
          /\ t.adv \in Routers
      BY <1>0, <1>1
    <3>2. CASE t = s
      BY <1>2, <2>1, <2>2, <3>1, <3>2, FloodingAssumption
    <3>3. CASE t # s
      <4>1. latest'[t] = latest[t]
        BY <2>1, <3>3
      <4>. QED
        BY <1>2, <3>1, <4>1, FloodingAssumption
    <3>. QED
      BY <3>2, <3>3
  <2>. QED
    BY <2>12, <2>13, <2>14
<1>. QED
  BY <1>3, <1>4

\* The area agrees at first: all hold the first instances and nothing is under way.
LEMMA AInit == Init => AInv
<1>. SUFFICES ASSUME Init PROVE AInv
  OBVIOUS
<1>1. TInv /\ TypeOK
  BY TInit DEF TInv
<1>. SUFFICES ASSUME NumbersSuffice, NEW a \in Areas, OneArea(a)
              PROVE  Agreeing(a)
  BY <1>1 DEF AInv
<1>2. /\ latest = [s \in Slot |-> Settled(s)]
      /\ \A r \in Routers, s \in Slot :
           db[r][s] = IF s.area \in AreasOf(r) THEN Settled(s) ELSE NoLsa
      /\ \A h \in Hops : wire[h] = <<>>
      /\ todo \in Renewals
  BY DEF Init
<1>3. \A r \in Routers : AreasOf(r) = IF r \in Known(a) THEN {a} ELSE {}
  BY <1>1, AreasOfOne
<1>4. \A s \in Slot : s.adv \in Routers /\ latest[s] = Settled(s) /\ latest[s] \in Value
  BY <1>1, <1>2 DEF TypeOK, Slot, Value
<1>5. db \in [Routers -> [Slot -> Value]] /\ NoLsa \in Value
  BY <1>1 DEF TypeOK, Value
<1>6. \A h \in Hops, x \in Lsa : ~Carries(wire[h], x)
  BY <1>2 DEF Carries
<1>7. Shared(a, db, wire)
  <2>1. ASSUME NEW l \in Links, NEW s \in Slot, NEW r \in Routers, NEW q \in Routers,
               {r, q} \subseteq On(l).members
        PROVE  AtLeast(db[q][s], db[r][s])
    <3>1. r \in Known(a) /\ q \in Known(a)
      BY <2>1 DEF OneArea, Known, AreasOf
    <3>2. db[q][s] = db[r][s] /\ db[r][s] \in Value
      BY <1>2, <1>3, <1>5, <3>1
    <3>. QED
      BY <3>2, Recency
  <2>. QED
    BY <2>1 DEF Shared, Hears
<1>8. Backed(a, db, wire)
  BY <1>6 DEF Backed
<1>9. Genuine(a, db, wire, latest)
  <2>1. \A s \in Slot : s.area \notin AreasOf(s.adv) => Settled(s) = NoLsa
    BY DEF Settled
  <2>2. \A r \in Routers, s \in Slot : AtLeast(latest[s], db[r][s])
    BY <1>2, <1>4, <1>5, Recency
  <2>3. \A s \in Slot : s.adv \in Known(a) => db[s.adv][s] = latest[s]
    BY <1>2, <1>4, <2>1
  <2>4. \A s \in Slot : s.area # a \/ s.adv \notin Known(a) => latest[s] = NoLsa
    BY <1>3, <1>4, <2>1
  <2>5. \A r \in Routers \ Known(a), s \in Slot : db[r][s] = NoLsa
    BY <1>2, <1>3
  <2>. QED
    BY <1>6, <2>2, <2>3, <2>4, <2>5 DEF Genuine
<1>10. \A s \in Slot : latest[s].seq + todo[s.adv] < SeqWidth
  <2>1. ASSUME NEW s \in Slot
        PROVE  latest[s].seq + todo[s.adv] < SeqWidth
    <3>1. todo[s.adv] + 1 < SeqWidth /\ todo[s.adv] \in Nat
      BY <1>1, <1>2, <1>4 DEF NumbersSuffice, TypeOK
    <3>2. latest[s].seq = 0 \/ latest[s].seq = 1
      <4>1. NoLsa.seq = 0 /\ [seq |-> 1, home |-> s.area].seq = 1
        BY DEF NoLsa
      <4>2. Settled(s) = [seq |-> 1, home |-> s.area] \/ Settled(s) = NoLsa
        BY DEF Settled
      <4>. QED
        BY <1>4, <4>1, <4>2
    <3>. QED
      BY <3>1, <3>2, FloodingAssumption
  <2>. QED
    BY <2>1
<1>. QED
  BY <1>7, <1>8, <1>9, <1>10 DEF Agreeing

\* A step of any router leaves it agreeing.
LEMMA AStep ==
  ASSUME AInv, [Next]_vars
  PROVE  AInv'
<1>0. net' = net
  BY DEF Next, vars, Renew, RenewV2, RenewV3, InsertSelf, EmitTick, SpfTick, Deliver
<1>1. TInv /\ TypeOK /\ TInv'
  BY TStep DEF AInv, TInv
<1>2. /\ Hops' = Hops /\ (\A l : On(l)' = On(l))
      /\ \A a \in Areas : Known(a)' = Known(a)
  BY <1>0 DEF Hops, On, Known, AreasOf
<1>. SUFFICES ASSUME NumbersSuffice, NEW a \in Areas, OneArea(a)'
              PROVE  Agreeing(a)'
  BY <1>1 DEF AInv, NumbersSuffice
<1>3. OneArea(a)
  BY <1>0, <1>2 DEF OneArea
<1>4. Agreeing(a) /\ net.version = 2
  BY <1>3 DEF AInv, OneArea
<1>. DEFINE Kept == /\ Shared(a, db', wire') /\ Backed(a, db', wire')
                    /\ Genuine(a, db', wire', latest')
                    /\ \A s \in Slot : latest'[s].seq + todo'[s.adv] < SeqWidth
<1>5. ASSUME NEW r \in Routers, Renew(r)
      PROVE  Kept
  <2>1. RenewV2(r) /\ todo[r] > 0 /\ todo' = [todo EXCEPT ![r] = @ - 1]
    BY <1>4, <1>5 DEF Renew, V3
  <2>. QED
    BY <1>1, <1>0, <1>3, <1>4, <2>1, RenewAgrees
<1>6. ASSUME NEW h \in Hop, Deliver(h)
      PROVE  Kept
  <2>1. /\ h \in Hops /\ wire[h] # <<>>
        /\ ProcessLsuV2(h, [wire EXCEPT ![h] = Tail(@)], Head(wire[h])[1])
        /\ todo' = todo /\ latest' = latest
    BY <1>4, <1>6 DEF Deliver, V3
  <2>. QED
    BY <1>1, <1>3, <1>4, <2>1, DeliverAgrees DEF Agreeing
<1>7. ASSUME UNCHANGED vars
      PROVE  Kept
  BY <1>4, <1>7 DEF vars, Agreeing
<1>8. \A r \in Routers : ~EmitTick(r) /\ ~SpfTick(r)
  BY <1>4 DEF EmitTick, SpfTick, V3
<1>9. Kept
  <2>. HIDE DEF Kept
  <2>. QED
    BY <1>5, <1>6, <1>7, <1>8 DEF Next
<1>. QED
  BY <1>2, <1>9 DEF Agreeing, Shared, Backed, Genuine, Hears

\* When nothing is under way the routers of a link hold the same.
LEMMA QuietIsEqual ==
  ASSUME TypeOK, NEW a \in Areas, Shared(a, db, wire), Quiet,
         NEW l \in Links, NEW r \in Routers, NEW q \in Routers, {r, q} \subseteq On(l).members,
         NEW s \in Slot
  PROVE  db[r][s] = db[q][s]
<1>1. \A h \in Hops, x \in Lsa : ~Carries(wire[h], x)
  BY DEF Quiet, Carries
<1>2. AtLeast(db[q][s], db[r][s]) /\ AtLeast(db[r][s], db[q][s])
  BY <1>1 DEF Shared, Hears
<1>3. db[r][s] \in Value /\ db[q][s] \in Value
  BY DEF TypeOK, Value
<1>. QED
  BY <1>2, <1>3, Recency

\* An area that agrees and is quiet has the last instances everywhere: who holds them
\* cannot be cut off from the others.
LEMMA AgreeingIsReliable ==
  ASSUME TypeOK, NEW a \in Areas, OneArea(a), Agreeing(a)
  PROVE  QuietMeansAgreed
<1>. SUFFICES ASSUME Quiet, NEW r \in Routers, NEW s \in Slot
              PROVE  db[r][s] = IF s.area \in AreasOf(r) THEN latest[s] ELSE NoLsa
  BY DEF QuietMeansAgreed
<1>1. Shared(a, db, wire) /\ Genuine(a, db, wire, latest)
  BY DEF Agreeing
<1>2. AreasOf(r) = IF r \in Known(a) THEN {a} ELSE {}
  BY AreasOfOne
<1>3. CASE r \notin Known(a)
  BY <1>1, <1>2, <1>3 DEF Genuine
<1>4. CASE r \in Known(a) /\ (s.area # a \/ s.adv \notin Known(a))
  <2>1. latest[s] = NoLsa /\ AtLeast(latest[s], db[r][s])
    BY <1>1, <1>4 DEF Genuine
  <2>2. db[r][s] \in Value /\ NoLsa \in Value
    BY DEF TypeOK, Value
  <2>3. db[r][s] = NoLsa
    BY <2>1, <2>2, Recency
  <2>. QED
    BY <2>1, <2>3
<1>5. CASE r \in Known(a) /\ s.area = a /\ s.adv \in Known(a)
  <2>. DEFINE S == {q \in Known(a) : db[q][s] = latest[s]}
  <2>1. s.adv \in S
    BY <1>1, <1>5 DEF Genuine
  <2>2. ASSUME NEW l \in Links, NEW p \in On(l).members, p \in S, NEW q \in On(l).members
        PROVE  q \in S
    <3>1. p \in Routers /\ q \in Routers /\ q \in Known(a)
      BY <2>2, NetType DEF OneArea, Link, Known, AreasOf
    <3>2. db[p][s] = db[q][s]
      BY <1>1, <3>1, QuietIsEqual
    <3>. QED
      BY <2>2, <3>1, <3>2
  <2>3. S \in SUBSET Known(a)
    OBVIOUS
  <2>. HIDE DEF S
  <2>4. S = Known(a)
    BY <2>1, <2>2, <2>3 DEF OneArea
  <2>. QED
    BY <1>2, <1>5, <2>4 DEF S
<1>. QED
  BY <1>3, <1>4, <1>5

\* In version 2 flooding is reliable in every connected network of one area, whatever its
\* links, cycles, parallel links and broadcast networks: once no update is under way all
\* routers hold the last Router-LSA of each other, although flood_lsas_to_others skips the
\* interface an LSA came in on for all its neighbors, and updates cross one another
\* (process_lsu).  The sequence numbers must not wrap: install refuses what comes after.
THEOREM FloodingIsReliable ==
  Spec => [](NumbersSuffice /\ (\E a \in Areas : OneArea(a)) => QuietMeansAgreed)
<1>1. AInv => (NumbersSuffice /\ (\E a \in Areas : OneArea(a)) => QuietMeansAgreed)
  BY AgreeingIsReliable DEF AInv, TInv
<1>. QED
  BY <1>1, AInit, AStep, PTL DEF Spec
=============================================================================
