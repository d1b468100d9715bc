-------------------------- MODULE LsaRefreshProofs --------------------------
(***************************************************************************)
(* Proofs about LsaRefresh, for every refresh time that leaves an interval *)
(* before MaxAge, every width of the clock above MaxAge, every range of    *)
(* sequence numbers and any number of changes in VPP.                      *)
(*                                                                         *)
(* That a neighbor never times out a Router-LSA that was sent to it takes  *)
(* three facts together (Kept): every instance of it, in the databases or  *)
(* on its way, is one own originated (Genuine), so that nothing stale is   *)
(* ever taken for newer or sent back; own renews it before its age can     *)
(* matter (Timely); and the neighbor either has own's instance, installed  *)
(* at the same time, or that instance is on its way (Delivered).  The last *)
(* one holds of a Router-LSA that was sent (Told); one that was not leaves *)
(* the first two, and what is sent next finds an older copy or none.       *)
(***************************************************************************)
EXTENDS LsaRefresh, TLAPS

\* Encoding an LSA yields an LSA.
LEMMA EncodeType ==
    ASSUME NEW s \in MinSeq .. MaxSeq, NEW c \in Nat, NEW g \in 0 .. MaxAge,
           NEW b \in Bodies
    PROVE  Encode([seq |-> s, ck |-> c, age |-> g, body |-> b]) \in Lsa
BY LsaAssumption DEF Encode, Lsa

\* The same for an instance taken from a database.
LEMMA EncodeLsaType == ASSUME NEW a \in Lsa PROVE Encode(a) \in Lsa
BY LsaAssumption DEF Encode, Lsa

\* The next sequence number stays within its type, also at i32::MAX.
LEMMA NextSeqType ==
    ASSUME NEW K, NEW d \in [K -> Lsa \cup {NoLsa}], NEW k \in K
    PROVE  NextSeq(d, k) \in MinSeq .. MaxSeq
BY SeqAssumption DEF NextSeq, WrappingSucc, InitialSequenceNumber, Lsa

\* An originated LSA is well-formed.
LEMMA OriginatedType ==
    ASSUME NEW K, NEW d \in [K -> Lsa \cup {NoLsa}], NEW k \in K, NEW b \in Bodies
    PROVE  Originated(d, k, b) \in Lsa
<1>1. 0 \in 0 .. MaxAge /\ 0 \in Nat
  BY AgeAssumption
<1> QED BY <1>1, NextSeqType, EncodeType DEF Originated
-----------------------------------------------------------------------------

\* What own originates: age 0, the checksum of the wire.  The sequence number tells
\* these instances apart.
Canon(s) == Encode([seq |-> s, ck |-> 0, age |-> 0, body |-> "lsa"])

Elems(c) == {c[j] : j \in 1 .. Len(c)}

\* The LSAs the claim is about: the Router-LSA, and the one of the connected prefix as
\* long as VPP answered and did not change.
Tracked(k) == k = "router" \/ (k = "connected" /\ Redistribute /\ changes = Changes)

\* What own has was sent to the neighbor: the Type 5 of a connected prefix always is.
Told(k) == k = "router" => told

\* Every instance of k anywhere is one own originated, and none is ahead of own's.
Genuine(k) ==
  /\ db["own"][k] # NoLsa /\ db["own"][k] = Canon(db["own"][k].seq)
  /\ db["peer"][k] # NoLsa => /\ db["peer"][k] = Canon(db["peer"][k].seq)
                              /\ db["peer"][k].seq <= db["own"][k].seq
  /\ \A r \in Routers : \A x \in Elems(chan[r]) :
       x.key = k => x.lsa = Canon(x.lsa.seq) /\ x.lsa.seq <= db["own"][k].seq

\* Own's copy is younger than MaxAge, and own renews it in time.
Timely(k) ==
  /\ since["own"][k] <= RefreshTime + 1
  /\ ~due["own"] /\ ~(ext /\ k = "connected") /\ db["own"][k].seq < MaxSeq =>
       since["own"][k] <= RefreshTime

\* The neighbor has own's instance, or it is on its way and was originated just now.
Delivered(k) ==
  \/ db["peer"][k] = db["own"][k] /\ since["peer"][k] = since["own"][k]
  \/ /\ db["peer"][k] # db["own"][k] /\ since["own"][k] = 0
     /\ Item(k, db["own"][k]) \in Elems(chan["peer"])

Kept == \A k \in Keys : Tracked(k) => Genuine(k) /\ Timely(k) /\ (Told(k) => Delivered(k))

\* VPP is as it was while it has not changed.
VppKept == changes <= Changes /\ (changes = Changes => prefix)

IInv == TypeOK /\ VppKept /\ Kept
-----------------------------------------------------------------------------
Entry == Lsa \cup {NoLsa}
Database == [Keys -> Entry]
Message == [key : Keys, lsa : Lsa]

\* What is in a sequence, after one is appended and after the head is taken off.
LEMMA ElemsFacts ==
  ASSUME NEW S, NEW c \in Seq(S), NEW t \in Seq(S)
  PROVE  /\ Elems(c \o t) = Elems(c) \cup Elems(t) /\ c \o t \in Seq(S)
         /\ c # <<>> => /\ Tail(c) \in Seq(S) /\ Head(c) \in S
                        /\ Elems(c) = {Head(c)} \cup Elems(Tail(c))
         /\ Elems(c) \subseteq S
<1>1. Elems(c \o t) = Elems(c) \cup Elems(t) /\ c \o t \in Seq(S)
  <2>1. Elems(c \o t) \subseteq Elems(c) \cup Elems(t)
    BY DEF Elems
  <2>2. \A j \in 1 .. Len(c) : c[j] = (c \o t)[j] /\ j \in 1 .. Len(c \o t)
    OBVIOUS
  <2>3. \A j \in 1 .. Len(t) : /\ t[j] = (c \o t)[Len(c) + j]
                               /\ Len(c) + j \in 1 .. Len(c \o t)
    OBVIOUS
  <2>4. Elems(c) \subseteq Elems(c \o t) /\ Elems(t) \subseteq Elems(c \o t)
    <3>. DEFINE ct == c \o t
    <3>1. /\ \A j \in 1 .. Len(c) : c[j] = ct[j] /\ j \in 1 .. Len(ct)
          /\ \A j \in 1 .. Len(t) : t[j] = ct[Len(c) + j] /\ Len(c) + j \in 1 .. Len(ct)
      BY <2>2, <2>3
    <3>. HIDE DEF ct
    <3>2. Elems(c) \subseteq Elems(ct) /\ Elems(t) \subseteq Elems(ct)
      BY <3>1, Zenon DEF Elems
    <3>. QED
      BY <3>2 DEF ct
  <2>5. c \o t \in Seq(S)
    OBVIOUS
  <2>. QED
    BY <2>1, <2>4, <2>5
<1>2. ASSUME c # <<>>
      PROVE  /\ Tail(c) \in Seq(S) /\ Head(c) \in S
             /\ Elems(c) = {Head(c)} \cup Elems(Tail(c))
  <2>1. Tail(c) \in Seq(S) /\ Head(c) \in S /\ Head(c) = c[1] /\ 1 \in 1 .. Len(c)
    BY <1>2
  <2>2. \A j \in 1 .. Len(Tail(c)) : Tail(c)[j] = c[j + 1] /\ j + 1 \in 1 .. Len(c)
    BY <1>2
  <2>3. \A j \in 1 .. Len(c) : j # 1 => c[j] = Tail(c)[j - 1] /\ j - 1 \in 1 .. Len(Tail(c))
    BY <1>2
  <2>. QED
    BY <2>1, <2>2, <2>3 DEF Elems
<1>3. Elems(c) \subseteq S
  BY DEF Elems
<1>. QED
  BY <1>1, <1>2, <1>3

\* Nothing, or one thing, is flooded.
LEMMA ElemsOfFew ==
  /\ Elems(<<>>) = {} /\ \A S : <<>> \in Seq(S)
  /\ \A x : Elems(<<x>>) = {x} /\ \A S : x \in S => <<x>> \in Seq(S)
BY DEF Elems

\* An instance own originates is an LSA, and encoding it again changes nothing.
LEMMA CanonType ==
  ASSUME NEW s \in MinSeq .. MaxSeq
  PROVE  /\ Canon(s) \in Lsa /\ Canon(s) # NoLsa
         /\ Canon(s).seq = s /\ Canon(s).age = 0
         /\ Encode(Canon(s)) = Canon(s)
<1>1. Canon(s) \in Lsa
  BY EncodeType, AgeAssumption, RefreshAssumption DEF Canon
<1>2. Canon(s) = [seq |-> s, ck |-> Checksum(s, "lsa"), age |-> 0, body |-> "lsa"]
  BY DEF Canon, Encode
<1>3. Encode(Canon(s)) = Canon(s)
  BY <1>2 DEF Encode
<1>. QED
  BY <1>1, <1>2, <1>3, LsaAssumption

\* Of two of them the one with the higher sequence number is more recent.
LEMMA CanonOrder ==
  ASSUME NEW s \in MinSeq .. MaxSeq, NEW t \in MinSeq .. MaxSeq
  PROVE  IsMoreRecentThan(Canon(s), Canon(t))
           = IF s > t THEN "Greater" ELSE IF s < t THEN "Less" ELSE "Equal"
<1>1. \A x \in MinSeq .. MaxSeq :
        Canon(x) = [seq |-> x, ck |-> Checksum(x, "lsa"), age |-> 0, body |-> "lsa"]
  BY DEF Canon, Encode
<1>2. Checksum(s, "lsa") \in Nat /\ Checksum(t, "lsa") \in Nat
  BY LsaAssumption, RefreshAssumption
<1>3. CASE s > t
  BY <1>1, <1>3, SeqAssumption DEF IsMoreRecentThan
<1>4. CASE s < t
  BY <1>1, <1>4, SeqAssumption DEF IsMoreRecentThan
<1>5. CASE s = t
  BY <1>1, <1>2, <1>5, SeqAssumption, AgeAssumption DEF IsMoreRecentThan, Distance
<1>. QED
  BY <1>3, <1>4, <1>5, SeqAssumption

\* install of such an instance over another.
LEMMA InstallCanon ==
  ASSUME NEW d \in Database, NEW k \in Keys,
         NEW s \in MinSeq .. MaxSeq, NEW t \in MinSeq .. MaxSeq, d[k] = Canon(t)
  PROVE  /\ Install(d, k, Canon(s)) = IF s > t THEN [d EXCEPT ![k] = Canon(s)] ELSE d
         /\ InstallResult(d, k, Canon(s)) = "Older" <=> s < t
<1>1. d[k] # NoLsa
  BY CanonType
<1>2. CASE s > t
  BY <1>1, <1>2, CanonOrder, SeqAssumption DEF Install, InstallResult, Changed
<1>3. CASE s < t
  BY <1>1, <1>3, CanonOrder, SeqAssumption DEF Install, InstallResult, Changed
<1>4. CASE s = t
  BY <1>1, <1>4, CanonOrder, SeqAssumption DEF Install, InstallResult, Changed
<1>. QED
  BY <1>2, <1>3, <1>4, SeqAssumption

\* Any install keeps a database a database, and leaves other keys alone.
LEMMA InstallType ==
  ASSUME NEW d \in Database, NEW k \in Keys, NEW lsa \in Lsa
  PROVE  /\ Install(d, k, lsa) \in Database
         /\ \A q \in Keys \ {k} : Install(d, k, lsa)[q] = d[q]
BY DEF Install, Database, Entry

\* Re-origination of the LSAs in ks.
LEMMA Renewed ==
  ASSUME NEW d \in Database, NEW ks \in SUBSET Keys
  PROVE  /\ Renew(d, ks) \in Database
         /\ \A k \in Keys \ ks : Renew(d, ks)[k] = d[k]
         /\ \A k \in Keys : Originated(d, k, "lsa") \in Lsa
<1>1. \A k \in Keys : Originated(d, k, "lsa") \in Lsa
  BY OriginatedType, RefreshAssumption DEF Database, Entry
<1>2. \A k \in Keys : Originate(d, k, "lsa")[k] \in Entry
  BY <1>1, InstallType DEF Originate, Database
<1>. QED
  BY <1>1, <1>2 DEF Renew, Database

\* Re-origination of one that own originated: the next one, unless the sequence numbers
\* are used up; then install refuses what would be older.
LEMMA RenewedCanon ==
  ASSUME NEW d \in Database, NEW ks \in SUBSET Keys, NEW k \in ks,
         NEW t \in MinSeq .. MaxSeq, d[k] = Canon(t)
  PROVE  /\ Renew(d, ks)[k] = IF t < MaxSeq THEN Canon(t + 1) ELSE Canon(t)
         /\ Originated(d, k, "lsa") = IF t < MaxSeq THEN Canon(t + 1) ELSE Canon(MinSeq)
<1>1. Originated(d, k, "lsa") = Canon(WrappingSucc(t))
  BY CanonType DEF Originated, NextSeq, Canon
<1>2. k \in Keys /\ Renew(d, ks)[k] = Install(d, k, Canon(WrappingSucc(t)))[k]
  BY <1>1 DEF Renew, Originate
<1>3. CASE t < MaxSeq
  <2>1. WrappingSucc(t) = t + 1 /\ t + 1 \in MinSeq .. MaxSeq /\ t + 1 > t
    BY <1>3, SeqAssumption DEF WrappingSucc
  <2>2. Install(d, k, Canon(t + 1)) = [d EXCEPT ![k] = Canon(t + 1)]
    BY <1>2, <2>1, InstallCanon
  <2>. QED
    BY <1>1, <1>2, <1>3, <2>1, <2>2 DEF Database
<1>4. CASE ~(t < MaxSeq)
  <2>1. WrappingSucc(t) = MinSeq /\ MinSeq \in MinSeq .. MaxSeq /\ ~(MinSeq > t)
    BY <1>4, SeqAssumption DEF WrappingSucc
  <2>2. Install(d, k, Canon(MinSeq)) = d
    BY <1>2, <2>1, InstallCanon
  <2>. QED
    BY <1>1, <1>2, <1>4, <2>1, <2>2
<1>. QED
  BY <1>3, <1>4
-----------------------------------------------------------------------------
\* Up to one interval past the refresh time the clock shows the age.
LEMMA Young ==
  ASSUME NEW s \in MinSeq .. MaxSeq, NEW e \in Nat, e <= RefreshTime + 1
  PROVE  Aged(Canon(s), e) = e /\ e < MaxAge
<1>1. e < MaxAge /\ e < U16Mod /\ U16Mod \in Nat /\ U16Mod > 0
  BY RefreshAssumption, AgeAssumption
<1>2. e % U16Mod = e
  BY <1>1
<1>. QED
  BY <1>1, <1>2, CanonType, AgeAssumption DEF Aged

\* The clocks of a changed database.
LEMMA StampedType ==
  ASSUME TypeOK, NEW r \in Routers, NEW d \in Database
  PROVE  Stamped(r, d) \in [Keys -> Nat]
BY DEF Stamped, TypeOK

\* Flushing takes LSAs away, but none that own originated not long ago.
LEMMA Purged ==
  ASSUME TypeOK, NEW r \in Routers, NEW d \in Database
  PROVE  /\ Purge(r, d) \in Database
         /\ \A k \in Keys, s \in MinSeq .. MaxSeq :
              d[k] = Canon(s) /\ Stamped(r, d)[k] <= RefreshTime + 1 => Purge(r, d)[k] = d[k]
<1>1. Purge(r, d) \in Database
  BY DEF Purge, Database, Entry
<1>2. ASSUME NEW k \in Keys, NEW s \in MinSeq .. MaxSeq,
             d[k] = Canon(s), Stamped(r, d)[k] <= RefreshTime + 1
      PROVE  Purge(r, d)[k] = d[k]
  <2>1. Stamped(r, d)[k] \in Nat
    BY StampedType
  <2>2. /\ Aged(d[k], Stamped(r, d)[k]) = Stamped(r, d)[k]
        /\ Stamped(r, d)[k] < MaxAge
    BY <1>2, <2>1, Young
  <2>3. ~(Aged(d[k], Stamped(r, d)[k]) >= MaxAge)
    BY <2>1, <2>2, AgeAssumption
  <2>. QED
    BY <2>3 DEF Purge
<1>. QED
  BY <1>1, <1>2

\* Database and clock of one router change together, those of the other do not.
LEMMA SetOne ==
  ASSUME TypeOK, NEW r \in Routers, NEW d \in Database, Set(r, d)
  PROVE  /\ db' \in [Routers -> Database] /\ since' \in [Routers -> [Keys -> Nat]]
         /\ db'[r] = d /\ since'[r] = Stamped(r, d)
         /\ \A q \in Routers \ {r} : db'[q] = db[q] /\ since'[q] = since[q]
         /\ \A k \in Keys : since'[r][k] = IF d[k] = db[r][k] THEN since[r][k] ELSE 0
<1>1. Stamped(r, d) \in [Keys -> Nat]
  BY StampedType
<1>2. db \in [Routers -> Database] /\ since \in [Routers -> [Keys -> Nat]]
  BY DEF TypeOK, Database, Entry
<1>3. /\ db' = [db EXCEPT ![r] = d]
      /\ since' = [since EXCEPT ![r] = Stamped(r, d)]
  BY DEF Set
<1>4. \A k \in Keys : Stamped(r, d)[k] = IF d[k] = db[r][k] THEN since[r][k] ELSE 0
  BY DEF Stamped
<1>. HIDE DEF Stamped
<1>. QED
  BY <1>1, <1>2, <1>3, <1>4

\* Flooding appends to what is on its way to the neighbor.
LEMMA Flooded ==
  ASSUME TypeOK, NEW items \in Seq(Message), Flood(items)
  PROVE  /\ chan' \in [Routers -> Seq(Message)]
         /\ chan'["own"] = chan["own"]
         /\ Elems(chan'["peer"]) = Elems(chan["peer"]) \cup Elems(items)
<1>1. chan \in [Routers -> Seq(Message)] /\ chan["peer"] \in Seq(Message)
  BY DEF TypeOK, Message, Routers
<1>2. chan' = [chan EXCEPT !["peer"] = chan["peer"] \o items]
  BY DEF Flood
<1>3. /\ chan["peer"] \o items \in Seq(Message)
      /\ Elems(chan["peer"] \o items) = Elems(chan["peer"]) \cup Elems(items)
  BY <1>1, ElemsFacts
<1>. HIDE DEF Elems
<1>. QED
  BY <1>1, <1>2, <1>3 DEF Routers

\* The sequence numbers of a tracked LSA.
LEMMA Numbers ==
  ASSUME TypeOK, NEW k \in Keys, Genuine(k)
  PROVE  /\ db["own"][k].seq \in MinSeq .. MaxSeq
         /\ db["peer"][k] # NoLsa => db["peer"][k].seq \in MinSeq .. MaxSeq
         /\ since["own"][k] \in Nat /\ since["peer"][k] \in Nat
         /\ \A r \in Routers : Elems(chan[r]) \subseteq Message
<1>1. db["own"][k] \in Lsa /\ (db["peer"][k] # NoLsa => db["peer"][k] \in Lsa)
  BY DEF TypeOK, Routers, Genuine
<1>2. \A r \in Routers : Elems(chan[r]) \subseteq Message
  <2>1. \A r \in Routers : chan[r] \in Seq(Message)
    BY DEF TypeOK, Message
  <2>. QED
    BY <2>1, ElemsFacts
<1>3. since["own"][k] \in Nat /\ since["peer"][k] \in Nat
  BY DEF TypeOK, Routers
<1>. QED
  BY <1>1, <1>2, <1>3 DEF Lsa

\* What a step of own does to a tracked LSA: nothing, flooding at most what is older, or
\* own originates the next instance, and floods it or does not tell.
Same(k, items) ==
  /\ db'["own"][k] = db["own"][k] /\ since'["own"][k] = since["own"][k]
  /\ \A x \in Elems(items) :
       x.key = k => x.lsa = Canon(x.lsa.seq) /\ x.lsa.seq < db["own"][k].seq

Reissued(k, items) ==
  /\ db["own"][k].seq < MaxSeq
  /\ db'["own"][k] = Canon(db["own"][k].seq + 1) /\ since'["own"][k] = 0
  /\ Item(k, db'["own"][k]) \in Elems(items) \/ ~Told(k)'
  /\ \A x \in Elems(items) : x.key = k => x.lsa = db'["own"][k]

\* Either way the instances stay genuine and the newest one is on its way.
LEMMA OwnStep ==
  ASSUME TypeOK, NEW k \in Keys, Genuine(k), Timely(k), Told(k) => Delivered(k),
         NEW items \in Seq(Message), Flood(items),
         db'["peer"] = db["peer"], since'["peer"] = since["peer"],
         (Same(k, items) /\ (Told(k)' => Told(k))) \/ Reissued(k, items)
  PROVE  /\ Genuine(k)' /\ (Told(k)' => Delivered(k)')
         /\ since'["own"][k] <= RefreshTime + 1
<1>1. /\ chan'["own"] = chan["own"]
      /\ Elems(chan'["peer"]) = Elems(chan["peer"]) \cup Elems(items)
  BY Flooded
<1>2. /\ db["own"][k].seq \in MinSeq .. MaxSeq
      /\ db["peer"][k] # NoLsa => db["peer"][k].seq \in MinSeq .. MaxSeq
      /\ since["own"][k] \in Nat /\ since["peer"][k] \in Nat
      /\ \A r \in Routers : Elems(chan[r]) \subseteq Message
  BY Numbers
<1>0. \A x \in Elems(items) : x.lsa.seq \in MinSeq .. MaxSeq
  <2>1. Elems(items) \subseteq Message
    BY ElemsFacts
  <2>. QED
    BY <2>1 DEF Message, Lsa
<1>3. CASE Same(k, items) /\ (Told(k)' => Told(k))
  <2>0. \A x \in Elems(items) :
          x.key = k => x.lsa = Canon(x.lsa.seq) /\ x.lsa.seq <= db["own"][k].seq
    BY <1>0, <1>2, <1>3, SeqAssumption DEF Same
  <2>1. Genuine(k)'
    BY <1>1, <1>3, <2>0 DEF Genuine, Same, Routers
  <2>2. Told(k)' => Delivered(k)'
    BY <1>1, <1>3 DEF Delivered, Same
  <2>. QED
    BY <1>3, <2>1, <2>2 DEF Same, Timely
<1>4. CASE Reissued(k, items)
  <2>. DEFINE s == db["own"][k].seq
  <2>0. s < MaxSeq /\ db'["own"][k] = Canon(s + 1)
    BY <1>4, Zenon DEF Reissued
  <2>1. s \in MinSeq .. MaxSeq /\ s + 1 \in MinSeq .. MaxSeq
    BY <1>2, <2>0, SeqAssumption
  <2>2. db'["own"][k] = Canon(s + 1) /\ db'["own"][k] # NoLsa /\ db'["own"][k].seq = s + 1
    BY <2>0, <2>1, CanonType
  <2>3. \A x \in Elems(items) : x.key = k => x.lsa = Canon(s + 1) /\ x.lsa.seq = s + 1
    BY <1>4, <2>2 DEF Reissued
  <2>4. ASSUME NEW r \in Routers, NEW x \in Elems(chan'[r]), x.key = k
        PROVE  x.lsa = Canon(x.lsa.seq) /\ x.lsa.seq <= s + 1
    <3>1. CASE x \in Elems(chan[r])
      <4>1. x.lsa = Canon(x.lsa.seq) /\ x.lsa.seq <= s
        BY <2>4, <3>1 DEF Genuine
      <4>2. x.lsa.seq \in MinSeq .. MaxSeq
        BY <1>2, <3>1 DEF Message, Lsa
      <4>. QED
        BY <2>1, <4>1, <4>2, SeqAssumption
    <3>2. CASE x \notin Elems(chan[r])
      <4>1. x \in Elems(items)
        BY <1>1, <2>4, <3>2 DEF Routers
      <4>. QED
        BY <2>1, <2>3, <2>4, <4>1, SeqAssumption
    <3>. QED
      BY <3>1, <3>2
  <2>5. db["peer"][k] # NoLsa => db["peer"][k].seq <= s + 1 /\ db["peer"][k].seq # s + 1
    BY <1>2, SeqAssumption DEF Genuine
  <2>6. Genuine(k)'
    BY <2>2, <2>4, <2>5 DEF Genuine
  <2>7. db["peer"][k] # db'["own"][k]
    BY <2>2, <2>5
  <2>8. Told(k)' => Delivered(k)'
    BY <1>1, <1>4, <2>2, <2>7 DEF Delivered, Reissued
  <2>9. 0 <= RefreshTime + 1
    BY RefreshAssumption
  <2>. QED
    BY <1>4, <2>6, <2>8, <2>9 DEF Reissued, Timely
<1>. QED
  BY <1>3, <1>4
-----------------------------------------------------------------------------
\* The tracked LSAs at the start of a step, and their number's range.
LEMMA TrackedFacts ==
  ASSUME IInv, NEW k \in Keys, Tracked(k)
  PROVE  /\ Genuine(k) /\ Timely(k) /\ (Told(k) => Delivered(k))
         /\ db["own"][k].seq \in MinSeq .. MaxSeq /\ db["own"][k] = Canon(db["own"][k].seq)
         /\ since["own"][k] \in Nat
         /\ CurrentAge("own", k) = since["own"][k] /\ Live("own", k)
<1>1. Genuine(k) /\ Timely(k) /\ (Told(k) => Delivered(k)) /\ TypeOK
  BY DEF IInv, Kept
<1>2. /\ db["own"][k].seq \in MinSeq .. MaxSeq /\ db["own"][k] = Canon(db["own"][k].seq)
      /\ since["own"][k] \in Nat /\ since["own"][k] <= RefreshTime + 1
  BY <1>1, Numbers DEF Genuine, Timely
<1>3. Aged(Canon(db["own"][k].seq), since["own"][k]) = since["own"][k] /\ since["own"][k] < MaxAge
  BY <1>2, Young
<1>. QED
  BY <1>1, <1>2, <1>3 DEF CurrentAge, Live, Genuine

\* An Item is a message if there is an LSA to send.
LEMMA ItemType ==
  ASSUME NEW k \in Keys, NEW lsa \in Lsa
  PROVE  Item(k, lsa) \in Message /\ Item(k, lsa).key = k /\ Item(k, lsa).lsa = Encode(lsa)
BY EncodeLsaType DEF Item, Message

\* The history is a truth value.
LEMMA TellType == ASSUME NEW items, Tell(items) PROVE told' \in BOOLEAN
BY Zenon DEF Tell

\* One step of own for all tracked LSAs: what remains is when the next renewal is due.
LEMMA OwnKept ==
  ASSUME IInv, NEW items \in Seq(Message), Flood(items), Tell(items) \/ told' = told,
         db'["peer"] = db["peer"], since'["peer"] = since["peer"],
         \A k \in Keys : Tracked(k)' => Tracked(k) /\ (Same(k, items) \/ Reissued(k, items)),
         \A k \in Keys :
           /\ Tracked(k)' /\ ~due'["own"] /\ ~(ext' /\ k = "connected")
           /\ db'["own"][k].seq < MaxSeq
           => since'["own"][k] <= RefreshTime
  PROVE  Kept'
<1>. SUFFICES ASSUME NEW k \in Keys, Tracked(k)'
              PROVE  Genuine(k)' /\ Timely(k)' /\ (Told(k)' => Delivered(k)')
  BY DEF Kept
<1>1. Tracked(k) /\ (Same(k, items) \/ Reissued(k, items))
  OBVIOUS
<1>2. Genuine(k) /\ Timely(k) /\ (Told(k) => Delivered(k)) /\ TypeOK
  BY <1>1, TrackedFacts DEF IInv
<1>3. Same(k, items) => (Told(k)' => Told(k))
  <2>. SUFFICES ASSUME Same(k, items), k = "router", Tell(items), told' PROVE told
    BY DEF Told
  <2>1. db["own"][k] \in Lsa /\ db["own"][k] = Canon(db["own"][k].seq)
        /\ db["own"][k].seq \in MinSeq .. MaxSeq
    BY <1>1, <1>2, TrackedFacts, CanonType
  <2>2. /\ Item(k, db["own"][k]).key = k
        /\ Item(k, db["own"][k]).lsa.seq = db["own"][k].seq
    BY <2>1, ItemType, CanonType
  <2>3. Item(k, db["own"][k]) \notin Elems(items)
    BY <2>1, <2>2, SeqAssumption DEF Same
  <2>4. \A i \in DOMAIN items : items[i] # Item("router", db'["own"]["router"])
    BY <2>3 DEF Same, Elems
  <2>. QED
    BY <2>4 DEF Tell
<1>4. /\ Genuine(k)' /\ (Told(k)' => Delivered(k)')
      /\ since'["own"][k] <= RefreshTime + 1
  BY <1>1, <1>2, <1>3, OwnStep
<1>. QED
  BY <1>4 DEF Timely

\* periodic_maintenance at own: a due Router-LSA is renewed, a due LSA of the connected
\* prefix is marked for refresh_external_lsas, and neither is flushed before that.
LEMMA OwnTickStep ==
  ASSUME IInv, OwnTick
  PROVE  IInv'
<1>. DEFINE o == db["own"]
            d == RefreshArea(o)
            p == Purge("own", d)
            items == IF d # o THEN <<Item("router", d["router"])>> ELSE <<>>
            s == o["router"].seq
<1>1. TypeOK /\ VppKept /\ o \in Database /\ "own" \in Routers /\ "router" \in Keys
  BY DEF IInv, TypeOK, Database, Entry, Routers, Keys, AreaKeys
<1>2. /\ due' = [due EXCEPT !["own"] = FALSE]
      /\ Set("own", p) /\ Flood(items) /\ Tell(items)
      /\ ext' = \E k \in ExtKeys : p[k] # NoLsa /\ NeedsRefresh("own", k)
      /\ UNCHANGED <<prefix, changes, news>>
  BY DEF OwnTick
<1>3. /\ s \in MinSeq .. MaxSeq /\ o["router"] = Canon(s)
      /\ since["own"]["router"] \in Nat /\ since["own"]["router"] <= RefreshTime + 1
      /\ CurrentAge("own", "router") = since["own"]["router"]
      /\ o["router"] # NoLsa
  BY <1>1, TrackedFacts DEF Tracked, Timely, Genuine
<1>4. /\ d \in Database
      /\ \A k \in Keys \ {"router"} : d[k] = o[k]
      /\ d["router"] = o["router"] \/ (s < MaxSeq /\ d["router"] = Canon(s + 1))
      /\ since["own"]["router"] >= RefreshTime /\ s < MaxSeq => d["router"] = Canon(s + 1)
  <2>1. d = o \/ d = Renew(o, {"router"})
    BY DEF RefreshArea
  <2>2. /\ Renew(o, {"router"}) \in Database
        /\ \A k \in Keys \ {"router"} : Renew(o, {"router"})[k] = o[k]
    BY <1>1, Renewed
  <2>3. Renew(o, {"router"})["router"] = IF s < MaxSeq THEN Canon(s + 1) ELSE Canon(s)
    BY <1>1, <1>3, RenewedCanon
  <2>4. since["own"]["router"] >= RefreshTime => NeedsRefresh("own", "router")
    BY <1>3 DEF NeedsRefresh
  <2>5. since["own"]["router"] >= RefreshTime => d = Renew(o, {"router"})
    BY <2>4 DEF RefreshArea, AreaKeys
  <2>. QED
    BY <1>1, <1>3, <2>1, <2>2, <2>3, <2>5
<1>5. d["router"] \in Lsa
  <2>1. s < MaxSeq => s + 1 \in MinSeq .. MaxSeq
    BY <1>3, SeqAssumption
  <2>. QED
    BY <1>3, <1>4, <2>1, CanonType
<1>6. items \in Seq(Message) /\ Elems(items) \subseteq {Item("router", d["router"])}
      /\ (d # o => Elems(items) = {Item("router", d["router"])})
  <2>1. Item("router", d["router"]) \in Message
    BY <1>1, <1>5, ItemType
  <2>. HIDE DEF d
  <2>. QED
    BY <2>1, ElemsOfFew
<1>. HIDE DEF d, p, items, o
<1>7. p \in Database
  BY <1>1, <1>4, Purged DEF p
<1>8. ASSUME NEW k \in Keys, Tracked(k)
      PROVE  p[k] = d[k]
  <2>1. /\ o[k].seq \in MinSeq .. MaxSeq /\ o[k] = Canon(o[k].seq)
        /\ since["own"][k] \in Nat /\ since["own"][k] <= RefreshTime + 1
    BY <1>8, TrackedFacts DEF Timely, o
  <2>2. PICK t \in MinSeq .. MaxSeq : d[k] = Canon(t)
    <3>1. CASE k = "router" /\ d["router"] # o["router"]
      <4>1. s + 1 \in MinSeq .. MaxSeq
        BY <1>3, <1>4, <3>1, SeqAssumption
      <4>. QED
        BY <1>4, <3>1, <4>1
    <3>2. CASE ~(k = "router" /\ d["router"] # o["router"])
      BY <1>4, <2>1, <3>2
    <3>. QED
      BY <3>1, <3>2
  <2>3. Stamped("own", d)[k] \in {since["own"][k], 0}
    BY DEF Stamped
  <2>4. Stamped("own", d)[k] <= RefreshTime + 1
    BY <2>1, <2>3, RefreshAssumption
  <2>. QED
    BY <1>1, <1>4, <2>2, <2>4, Purged DEF p
<1>9. /\ db' \in [Routers -> Database] /\ since' \in [Routers -> [Keys -> Nat]]
      /\ db'["own"] = p /\ db'["peer"] = db["peer"] /\ since'["peer"] = since["peer"]
      /\ \A k \in Keys : since'["own"][k] = IF p[k] = o[k] THEN since["own"][k] ELSE 0
  BY <1>1, <1>2, <1>7, SetOne DEF Routers, o
<1>10. TypeOK'
  <2>1. chan' \in [Routers -> Seq(Message)]
    BY <1>1, <1>2, <1>6, Flooded
  <2>2. /\ due' \in [Routers -> BOOLEAN] /\ ext' \in BOOLEAN /\ prefix' \in BOOLEAN
        /\ changes' \in Nat /\ news' \in Nat
    BY <1>1, <1>2, Zenon DEF TypeOK
  <2>3. told' \in BOOLEAN
    BY <1>2, TellType
  <2>. QED
    BY <1>9, <2>1, <2>2, <2>3 DEF TypeOK, Database, Entry, Message
<1>11. \A k \in Keys : Tracked(k)' <=> Tracked(k)
  BY <1>2 DEF Tracked
<1>12. ASSUME NEW k \in Keys, Tracked(k)
       PROVE  Same(k, items) \/ Reissued(k, items)
  <2>1. p[k] = d[k]
    BY <1>8, <1>12
  <2>2. CASE k # "router"
    <3>1. \A x \in Elems(items) : x.key # k
      BY <1>1, <1>5, <1>6, <2>2, ItemType
    <3>. QED
      BY <1>4, <1>9, <2>1, <2>2, <3>1 DEF Same, o
  <2>3. CASE k = "router" /\ d["router"] = o["router"]
    <3>1. d = o
      <4>1. \A j \in Keys : d[j] = o[j]
        BY <1>4, <2>3
      <4>2. d = [j \in Keys |-> d[j]] /\ o = [j \in Keys |-> o[j]]
        BY <1>1, <1>4 DEF Database
      <4>. QED
        BY <4>1, <4>2, Zenon
    <3>2. Elems(items) = {}
      BY <3>1, ElemsOfFew DEF items
    <3>. QED
      BY <1>9, <2>1, <2>3, <3>2 DEF Same, o
  <2>4. CASE k = "router" /\ d["router"] # o["router"]
    <3>1. s < MaxSeq /\ d["router"] = Canon(s + 1) /\ Elems(items) = {Item("router", d["router"])}
      BY <1>4, <1>6, <2>4
    <3>2. s + 1 \in MinSeq .. MaxSeq
      BY <1>3, <3>1, SeqAssumption
    <3>3. Encode(d["router"]) = d["router"]
      BY <3>1, <3>2, CanonType
    <3>. QED
      BY <1>1, <1>5, <1>9, <2>1, <2>4, <3>1, <3>3, ItemType DEF Reissued, o
  <2>. QED
    BY <2>2, <2>3, <2>4
<1>13. ASSUME NEW k \in Keys, Tracked(k), ~(ext' /\ k = "connected"), db'["own"][k].seq < MaxSeq
       PROVE  since'["own"][k] <= RefreshTime
  <2>1. /\ since["own"][k] \in Nat /\ CurrentAge("own", k) = since["own"][k]
        /\ o[k] # NoLsa /\ p[k] = d[k] /\ RefreshTime \in Nat
    BY <1>8, <1>13, TrackedFacts, RefreshAssumption DEF Live, o
  <2>2. CASE k = "router"
    <3>1. CASE since["own"]["router"] >= RefreshTime
      <4>1. s < MaxSeq
        BY <1>3, <1>4, <1>9, <1>13, <2>1, <2>2, <3>1
      <4>2. d["router"] = Canon(s + 1) /\ s + 1 \in MinSeq .. MaxSeq
        BY <1>3, <1>4, <3>1, <4>1, SeqAssumption
      <4>3. d["router"] # o["router"]
        BY <1>3, <4>2, CanonType, SeqAssumption
      <4>. QED
        BY <1>9, <2>1, <2>2, <4>3
    <3>2. CASE ~(since["own"]["router"] >= RefreshTime)
      BY <1>9, <2>1, <2>2, <3>2
    <3>. QED
      BY <3>1, <3>2
  <2>3. CASE k = "connected"
    <3>1. ~NeedsRefresh("own", k)
      BY <1>2, <1>4, <1>13, <2>1, <2>3 DEF ExtKeys, Keys
    <3>2. since["own"][k] < RefreshTime
      BY <2>1, <3>1 DEF NeedsRefresh, o
    <3>. QED
      BY <1>9, <2>1, <3>2
  <2>. QED
    BY <1>13, <2>2, <2>3 DEF Tracked
<1>14. Kept'
  BY <1>2, <1>6, <1>9, <1>11, <1>12, <1>13, OwnKept
<1>. QED
  BY <1>1, <1>2, <1>10, <1>14 DEF IInv, VppKept

\* The tick of the neighbor flushes no tracked LSA that was sent.
LEMMA PeerTickStep ==
  ASSUME IInv, PeerTick
  PROVE  IInv'
<1>. DEFINE p == Purge("peer", db["peer"])
<1>1. TypeOK /\ VppKept /\ db["peer"] \in Database /\ "peer" \in Routers
  BY DEF IInv, TypeOK, Database, Entry, Routers
<1>2. /\ due' = [due EXCEPT !["peer"] = FALSE]
      /\ Set("peer", p) /\ UNCHANGED <<ext, chan, prefix, changes, news, told>>
  BY DEF PeerTick
<1>3. p \in Database
  BY <1>1, Purged
<1>4. ASSUME NEW k \in Keys, Tracked(k), db["peer"][k] = db["own"][k],
             since["peer"][k] = since["own"][k]
      PROVE  p[k] = db["peer"][k]
  <2>1. Timely(k) /\ db["own"][k].seq \in MinSeq .. MaxSeq /\ db["own"][k] = Canon(db["own"][k].seq)
    BY <1>4, TrackedFacts
  <2>2. Stamped("peer", db["peer"])[k] <= RefreshTime + 1
    BY <1>4, <2>1 DEF Stamped, Timely
  <2>. QED
    BY <1>1, <1>4, <2>1, <2>2, Purged
<1>5. \A k \in Keys : p[k] = db["peer"][k] \/ p[k] = NoLsa
  BY DEF Purge
<1>. HIDE DEF p
<1>6. /\ db' \in [Routers -> Database] /\ since' \in [Routers -> [Keys -> Nat]]
      /\ db'["peer"] = p /\ db'["own"] = db["own"] /\ since'["own"] = since["own"]
      /\ \A k \in Keys :
           since'["peer"][k] = IF p[k] = db["peer"][k] THEN since["peer"][k] ELSE 0
  BY <1>1, <1>2, <1>3, SetOne DEF Routers
<1>7. TypeOK'
  <2>1. /\ due' \in [Routers -> BOOLEAN] /\ ext' \in BOOLEAN /\ prefix' \in BOOLEAN
        /\ changes' \in Nat /\ news' \in Nat /\ told' \in BOOLEAN
    BY <1>1, <1>2, Zenon DEF TypeOK
  <2>. QED
    BY <1>1, <1>2, <1>6, <2>1 DEF TypeOK, Database, Entry
<1>8. ASSUME NEW k \in Keys, Tracked(k)
      PROVE  Genuine(k)' /\ Timely(k)' /\ (Told(k)' => Delivered(k)')
  <2>1. /\ Genuine(k) /\ Timely(k) /\ (Told(k) => Delivered(k))
        /\ p[k] = db["peer"][k] \/ p[k] = NoLsa
    BY <1>5, <1>8, TrackedFacts
  <2>2. due'["own"] = due["own"]
    BY <1>1, <1>2 DEF TypeOK, Routers
  <2>3. Genuine(k)'
    BY <1>2, <1>6, <2>1 DEF Genuine
  <2>4. Timely(k)'
    BY <1>2, <1>6, <2>1, <2>2 DEF Timely
  <2>5. Told(k)' => Delivered(k)'
    <3>1. Told(k)' = Told(k)
      BY <1>2 DEF Told
    <3>2. CASE Told(k) /\ db["peer"][k] = db["own"][k] /\ since["peer"][k] = since["own"][k]
      BY <1>4, <1>6, <1>8, <3>2 DEF Delivered
    <3>3. CASE /\ Told(k) /\ db["peer"][k] # db["own"][k] /\ since["own"][k] = 0
               /\ Item(k, db["own"][k]) \in Elems(chan["peer"])
      BY <1>2, <1>6, <2>1, <3>3 DEF Delivered, Genuine
    <3>. QED
      BY <2>1, <3>1, <3>2, <3>3 DEF Delivered
  <2>. QED
    BY <2>3, <2>4, <2>5
<1>9. Kept'
  BY <1>2, <1>8 DEF Kept, Tracked
<1>. QED
  BY <1>1, <1>2, <1>7, <1>9 DEF IInv, VppKept

\* flush_self_externals_outside leaves a database, and the area LSAs and what is to be
\* kept alone.
LEMMA FlushedType ==
  ASSUME TypeOK, NEW keep
  PROVE  /\ Flushed(db["own"], keep) \in Database
         /\ \A k \in Keys : k \in AreaKeys \cup keep => Flushed(db["own"], keep)[k] = db["own"][k]
<1>. DEFINE o == db["own"]
            old(k) == Encode([o[k] EXCEPT !.age = MaxAge, !.seq = WrappingSucc(@)])
<1>1. o \in Database
  BY DEF TypeOK, Database, Entry, Routers
<1>2. ASSUME NEW k \in Keys, Live("own", k)
      PROVE  Install(o, k, old(k))[k] \in Entry
  <2>1. o[k] \in Lsa
    BY <1>1, <1>2 DEF Live, Database, Entry
  <2>2. WrappingSucc(o[k].seq) \in MinSeq .. MaxSeq /\ MaxAge \in 0 .. MaxAge
    BY <2>1, SeqAssumption, AgeAssumption DEF WrappingSucc, Lsa
  <2>3. [o[k] EXCEPT !.age = MaxAge, !.seq = WrappingSucc(@)] \in Lsa
    BY <2>1, <2>2 DEF Lsa
  <2>4. old(k) \in Lsa
    BY <2>3, EncodeLsaType
  <2>. HIDE DEF old
  <2>. QED
    BY <1>1, <2>4, InstallType DEF Database
<1>3. \A k \in Keys : o[k] \in Entry
  BY <1>1 DEF Database
<1>4. Flushed(o, keep) = [k \in Keys |-> IF k \in ExtKeys \ keep /\ Live("own", k)
                                         THEN Install(o, k, old(k))[k] ELSE o[k]]
  BY Zenon DEF Flushed
<1>. HIDE DEF old, o
<1>5. Flushed(o, keep) \in Database
  BY <1>2, <1>3, <1>4 DEF Database
<1>6. \A k \in Keys : k \in AreaKeys \cup keep => Flushed(o, keep)[k] = o[k]
  BY <1>4 DEF AreaKeys, ExtKeys
<1>. QED
  BY <1>5, <1>6 DEF o

\* originate_external_lsas: the Router-LSA is not touched; the LSA of the connected
\* prefix is renewed if the prefix was found.
LEMMA ExternalsStep ==
  ASSUME IInv, NEW found \in BOOLEAN, Externals(found)
  PROVE  /\ db' \in [Routers -> Database] /\ since' \in [Routers -> [Keys -> Nat]]
         /\ chan' \in [Routers -> Seq(Message)]
         /\ db'["peer"] = db["peer"] /\ since'["peer"] = since["peer"]
         /\ \E items \in Seq(Message) :
              /\ Flood(items)
              /\ Same("router", items)
              /\ found /\ Tracked("connected") =>
                   \/ Same("connected", items) /\ ~(db["own"]["connected"].seq < MaxSeq)
                   \/ Reissued("connected", items)
<1>. DEFINE o == db["own"]
            kept == IF found THEN {"connected"} ELSE {}
            keep == IF Redistribute THEN kept \cup {"default"} ELSE {}
            d == Flushed(o, keep)
            new == IF Redistribute THEN kept ELSE {}
            n == Renew(d, new)
            items == IF "connected" \in new THEN <<Fresh(d, "connected")>> ELSE <<>>
<1>1. TypeOK /\ "own" \in Routers /\ "router" \in Keys /\ "connected" \in Keys
  BY DEF IInv, Routers, Keys, AreaKeys, ExtKeys
<1>2. Set("own", n) /\ Flood(items)
  BY DEF Externals
<1>3. /\ d \in Database
      /\ d["router"] = o["router"]
      /\ found /\ Redistribute => d["connected"] = o["connected"]
  <2>. HIDE DEF d, keep
  <2>1. /\ d \in Database
        /\ \A k \in Keys : k \in AreaKeys \cup keep => d[k] = o[k]
    BY <1>1, FlushedType DEF d
  <2>2. found /\ Redistribute => "connected" \in keep
    BY DEF keep
  <2>. QED
    BY <1>1, <2>1, <2>2 DEF AreaKeys
<1>. HIDE DEF d
<1>4. new \in SUBSET Keys /\ "router" \notin new
  BY <1>1
<1>5. /\ n \in Database /\ n["router"] = o["router"]
      /\ Originated(d, "connected", "lsa") \in Lsa
  BY <1>1, <1>3, <1>4, Renewed
<1>6. /\ items \in Seq(Message)
      /\ \A x \in Elems(items) : x = Item("connected", Originated(d, "connected", "lsa"))
      /\ "connected" \in new => Elems(items) = {Item("connected", Originated(d, "connected", "lsa"))}
  <2>1. Fresh(d, "connected") \in Message
    BY <1>1, <1>5, ItemType DEF Fresh
  <2>. HIDE DEF new
  <2>. QED
    BY <2>1, ElemsOfFew DEF Fresh
<1>7. \A x \in Elems(items) : x.key = "connected"
  BY <1>1, <1>5, <1>6, ItemType
<1>. HIDE DEF n, items
<1>8. /\ db' \in [Routers -> Database] /\ since' \in [Routers -> [Keys -> Nat]]
      /\ db'["own"] = n /\ db'["peer"] = db["peer"] /\ since'["peer"] = since["peer"]
      /\ \A k \in Keys : since'["own"][k] = IF n[k] = o[k] THEN since["own"][k] ELSE 0
  BY <1>1, <1>2, <1>5, SetOne DEF Routers
<1>9. chan' \in [Routers -> Seq(Message)]
  BY <1>1, <1>2, <1>6, Flooded
<1>10. Same("router", items)
  BY <1>1, <1>5, <1>7, <1>8 DEF Same
<1>11. ASSUME found, Tracked("connected")
       PROVE  \/ Same("connected", items) /\ ~(o["connected"].seq < MaxSeq)
              \/ Reissued("connected", items)
  <2>. DEFINE s == o["connected"].seq
              lsa == Originated(d, "connected", "lsa")
  <2>1. s \in MinSeq .. MaxSeq /\ o["connected"] = Canon(s) /\ Redistribute
    BY <1>1, <1>11, TrackedFacts DEF Tracked
  <2>2. "connected" \in new /\ d["connected"] = Canon(s)
    BY <1>3, <1>11, <2>1
  <2>3. /\ n["connected"] = IF s < MaxSeq THEN Canon(s + 1) ELSE Canon(s)
        /\ lsa = IF s < MaxSeq THEN Canon(s + 1) ELSE Canon(MinSeq)
    BY <1>3, <1>4, <2>1, <2>2, RenewedCanon DEF n
  <2>4. Elems(items) = {Item("connected", lsa)} /\ Item("connected", lsa).lsa = Encode(lsa)
    BY <1>1, <1>5, <1>6, <2>2, ItemType
  <2>. HIDE DEF new, lsa
  <2>5. CASE s < MaxSeq
    <3>1. s + 1 \in MinSeq .. MaxSeq /\ s + 1 # s
      BY <2>1, <2>5, SeqAssumption
    <3>2. lsa = Canon(s + 1) /\ Encode(lsa) = lsa /\ n["connected"] = lsa /\ lsa # o["connected"]
      BY <2>1, <2>3, <2>5, <3>1, CanonType
    <3>3. Item("connected", n["connected"]) \in Elems(items)
          /\ \A x \in Elems(items) : x.lsa = n["connected"]
      BY <2>4, <3>2
    <3>. QED
      BY <1>1, <1>8, <2>5, <3>2, <3>3 DEF Reissued
  <2>6. CASE ~(s < MaxSeq)
    <3>1. MinSeq \in MinSeq .. MaxSeq /\ MinSeq < s
      BY <2>1, <2>6, SeqAssumption
    <3>2. lsa = Canon(MinSeq) /\ Encode(lsa) = lsa /\ lsa.seq = MinSeq
      BY <2>3, <2>6, <3>1, CanonType
    <3>3. \A x \in Elems(items) : x.lsa = Canon(x.lsa.seq) /\ x.lsa.seq < s
      BY <2>4, <3>1, <3>2
    <3>4. n["connected"] = o["connected"]
      BY <2>1, <2>3, <2>6
    <3>. QED
      BY <1>1, <1>8, <2>6, <3>3, <3>4 DEF Same
  <2>. QED
    BY <2>5, <2>6
<1>. QED
  BY <1>2, <1>6, <1>8, <1>9, <1>10, <1>11

\* refresh_external_lsas with an answer of VPP.
LEMMA RefreshExternalsStep ==
  ASSUME IInv, RefreshExternals
  PROVE  IInv'
<1>1. TypeOK /\ VppKept /\ "router" \in Keys /\ "connected" \in Keys
  BY DEF IInv, Keys, AreaKeys, ExtKeys
<1>2. ext' = FALSE /\ Externals(prefix) /\ UNCHANGED <<due, prefix, changes, news, told>>
  BY DEF RefreshExternals
<1>3. prefix \in BOOLEAN
  BY <1>1 DEF TypeOK
<1>4. PICK items \in Seq(Message) :
        /\ Flood(items)
        /\ Same("router", items)
        /\ prefix /\ Tracked("connected") =>
             \/ Same("connected", items) /\ ~(db["own"]["connected"].seq < MaxSeq)
             \/ Reissued("connected", items)
  BY <1>2, <1>3, ExternalsStep
<1>5. /\ db' \in [Routers -> Database] /\ since' \in [Routers -> [Keys -> Nat]]
      /\ chan' \in [Routers -> Seq(Message)]
      /\ db'["peer"] = db["peer"] /\ since'["peer"] = since["peer"]
  BY <1>2, <1>3, ExternalsStep
<1>6. TypeOK'
  BY <1>1, <1>2, <1>5 DEF TypeOK, Database, Entry, Message
<1>7. \A k \in Keys : Tracked(k)' <=> Tracked(k)
  BY <1>2 DEF Tracked
<1>8. ASSUME NEW k \in Keys, Tracked(k)
      PROVE  /\ Same(k, items) \/ Reissued(k, items)
             /\ ~due["own"] /\ db'["own"][k].seq < MaxSeq => since'["own"][k] <= RefreshTime
  <2>1. CASE k = "router"
    <3>1. Timely("router")
      BY <1>1, TrackedFacts DEF Tracked
    <3>. QED
      BY <1>4, <2>1, <3>1 DEF Same, Timely
  <2>2. CASE k = "connected"
    <3>1. prefix
      BY <1>1, <1>8, <2>2 DEF Tracked, VppKept
    <3>2. 0 <= RefreshTime
      BY RefreshAssumption
    <3>. QED
      BY <1>4, <1>8, <2>2, <3>1, <3>2 DEF Same, Reissued
  <2>. QED
    BY <1>8, <2>1, <2>2 DEF Tracked
<1>9. Kept'
  BY <1>2, <1>4, <1>5, <1>7, <1>8, OwnKept
<1>. QED
  BY <1>1, <1>2, <1>6, <1>9 DEF IInv, VppKept

\* One of the changes in VPP is used up: from now on only the Router-LSA is tracked.
LEMMA ChangeCounts ==
  ASSUME TypeOK, VppKept, changes > 0, changes' = changes - 1
  PROVE  /\ changes' \in Nat /\ VppKept'
         /\ \A k \in Keys : Tracked(k)' => k = "router" /\ Tracked(k)
<1>1. changes \in Nat /\ Changes \in Nat /\ changes <= Changes
  BY RefreshAssumption DEF TypeOK, VppKept
<1>2. changes' \in Nat /\ changes' < Changes
  BY <1>1
<1>. QED
  BY <1>1, <1>2 DEF VppKept, Tracked

\* refresh_external_lsas without an answer.
LEMMA RefreshUnansweredStep ==
  ASSUME IInv, RefreshUnanswered
  PROVE  IInv'
<1>1. TypeOK /\ VppKept /\ "router" \in Keys
  BY DEF IInv, Keys, AreaKeys
<1>2. /\ ext' = FALSE /\ changes > 0 /\ changes' = changes - 1
      /\ Externals(FALSE) /\ UNCHANGED <<due, prefix, news, told>>
  BY DEF RefreshUnanswered
<1>3. PICK items \in Seq(Message) : Flood(items) /\ Same("router", items)
  BY <1>2, ExternalsStep
<1>4. /\ db' \in [Routers -> Database] /\ since' \in [Routers -> [Keys -> Nat]]
      /\ chan' \in [Routers -> Seq(Message)]
      /\ db'["peer"] = db["peer"] /\ since'["peer"] = since["peer"]
  BY <1>2, ExternalsStep
<1>5. /\ changes' \in Nat /\ VppKept'
      /\ \A k \in Keys : Tracked(k)' => k = "router" /\ Tracked(k)
  BY <1>1, <1>2, ChangeCounts
<1>6. TypeOK'
  BY <1>1, <1>2, <1>4, <1>5 DEF TypeOK, Database, Entry, Message
<1>7. ~due["own"] /\ db'["own"]["router"].seq < MaxSeq => since'["own"]["router"] <= RefreshTime
  BY <1>1, <1>3, TrackedFacts DEF Tracked, Same, Timely
<1>8. Kept'
  BY <1>2, <1>3, <1>4, <1>5, <1>7, OwnKept
<1>. QED
  BY <1>5, <1>6, <1>8 DEF IInv

\* VPP changes: no database does yet.
LEMMA PrefixChangesStep ==
  ASSUME IInv, PrefixChanges
  PROVE  IInv'
<1>1. TypeOK /\ VppKept
  BY DEF IInv
<1>2. /\ changes > 0 /\ changes' = changes - 1 /\ prefix' = ~prefix /\ ext' = TRUE
      /\ UNCHANGED <<db, since, due, chan, news, told>>
  BY DEF PrefixChanges
<1>3. /\ changes' \in Nat /\ VppKept'
      /\ \A k \in Keys : Tracked(k)' => k = "router" /\ Tracked(k)
  BY <1>1, <1>2, ChangeCounts
<1>4. prefix' \in BOOLEAN
  BY <1>1, <1>2, Zenon DEF TypeOK
<1>5. TypeOK'
  BY <1>1, <1>2, <1>3, <1>4 DEF TypeOK
<1>6. ASSUME NEW k \in Keys, Tracked(k)'
      PROVE  Genuine(k)' /\ Timely(k)' /\ (Told(k)' => Delivered(k)')
  <2>1. k = "router" /\ Genuine(k) /\ Timely(k) /\ (Told(k) => Delivered(k))
    BY <1>3, <1>6, TrackedFacts
  <2>. QED
    BY <1>2, <2>1 DEF Genuine, Timely, Delivered, Told
<1>. QED
  BY <1>3, <1>5, <1>6 DEF IInv, Kept

\* A neighbor reaches Full: Router-LSA and Network-LSA are originated and flooded.
LEMMA NeighborFullStep ==
  ASSUME IInv, NeighborReachesFull
  PROVE  IInv'
<1>. DEFINE o == db["own"]
            n == Renew(o, AreaKeys)
            r == Originated(o, "router", "lsa")
            w == Originated(o, "network", "lsa")
            items == <<Fresh(o, "router"), Fresh(o, "network")>>
            s == o["router"].seq
<1>1. /\ TypeOK /\ VppKept /\ o \in Database /\ "own" \in Routers
      /\ "router" \in AreaKeys /\ "network" \in Keys /\ "router" \in Keys /\ AreaKeys \in SUBSET Keys
  BY DEF IInv, TypeOK, Database, Entry, Routers, Keys, AreaKeys
<1>2. /\ news > 0 /\ news' = news - 1 /\ Tell(items)
      /\ Set("own", n) /\ Flood(items) /\ UNCHANGED <<due, ext, prefix, changes>>
  BY DEF NeighborReachesFull
<1>3. s \in MinSeq .. MaxSeq /\ o["router"] = Canon(s)
  BY <1>1, TrackedFacts DEF Tracked
<1>4. n \in Database /\ r \in Lsa /\ w \in Lsa
  BY <1>1, Renewed
<1>5. /\ n["router"] = IF s < MaxSeq THEN Canon(s + 1) ELSE Canon(s)
      /\ r = IF s < MaxSeq THEN Canon(s + 1) ELSE Canon(MinSeq)
  BY <1>1, <1>3, RenewedCanon
<1>6. /\ Fresh(o, "router") \in Message /\ Fresh(o, "network") \in Message
      /\ Fresh(o, "router") = Item("router", r) /\ Fresh(o, "router").lsa = Encode(r)
      /\ Fresh(o, "network").key = "network"
  BY <1>1, <1>4, ItemType DEF Fresh
<1>7. items \in Seq(Message) /\ Elems(items) = {Fresh(o, "router"), Fresh(o, "network")}
  BY <1>6 DEF Elems
<1>. HIDE DEF n, r, w, items
<1>8. /\ db' \in [Routers -> Database] /\ since' \in [Routers -> [Keys -> Nat]]
      /\ db'["own"] = n /\ db'["peer"] = db["peer"] /\ since'["peer"] = since["peer"]
      /\ \A k \in Keys : since'["own"][k] = IF n[k] = o[k] THEN since["own"][k] ELSE 0
  BY <1>1, <1>2, <1>4, SetOne DEF Routers
<1>9. chan' \in [Routers -> Seq(Message)]
  BY <1>1, <1>2, <1>7, Flooded
<1>10. /\ news' \in Nat /\ told' \in BOOLEAN /\ VppKept'
       /\ \A k \in Keys : Tracked(k)' <=> Tracked(k)
  BY <1>1, <1>2, TellType DEF TypeOK, VppKept, Tracked
<1>11. TypeOK'
  BY <1>1, <1>2, <1>8, <1>9, <1>10 DEF TypeOK, Database, Entry, Message
<1>12. /\ Same("router", items) \/ Reissued("router", items)
       /\ db'["own"]["router"].seq < MaxSeq => since'["own"]["router"] <= RefreshTime
  <2>1. CASE s < MaxSeq
    <3>1. s + 1 \in MinSeq .. MaxSeq /\ s + 1 # s
      BY <1>3, <2>1, SeqAssumption
    <3>2. r = Canon(s + 1) /\ Encode(r) = r /\ n["router"] = r /\ r # o["router"]
      BY <1>3, <1>5, <2>1, <3>1, CanonType
    <3>3. /\ Item("router", n["router"]) \in Elems(items)
          /\ \A x \in Elems(items) : x.key = "router" => x.lsa = n["router"]
      BY <1>6, <1>7, <3>2
    <3>4. 0 <= RefreshTime
      BY RefreshAssumption
    <3>. QED
      BY <1>1, <1>8, <2>1, <3>2, <3>3, <3>4 DEF Reissued
  <2>2. CASE ~(s < MaxSeq)
    <3>1. MinSeq \in MinSeq .. MaxSeq /\ MinSeq < s
      BY <1>3, <2>2, SeqAssumption
    <3>2. r = Canon(MinSeq) /\ Encode(r) = r /\ r.seq = MinSeq
      BY <1>5, <2>2, <3>1, CanonType
    <3>3. \A x \in Elems(items) : x.key = "router" => x.lsa = Canon(x.lsa.seq) /\ x.lsa.seq < s
      BY <1>6, <1>7, <3>1, <3>2
    <3>4. n["router"] = o["router"]
      BY <1>3, <1>5, <2>2
    <3>. QED
      BY <1>1, <1>8, <2>2, <3>3, <3>4 DEF Same
  <2>. QED
    BY <2>1, <2>2
<1>13. ASSUME NEW k \in Keys, Tracked(k), k # "router"
       PROVE  /\ Same(k, items)
              /\ ~due["own"] /\ ~(ext /\ k = "connected") /\ db'["own"][k].seq < MaxSeq =>
                   since'["own"][k] <= RefreshTime
  <2>1. k = "connected" /\ k \notin AreaKeys /\ Timely(k)
    BY <1>13, TrackedFacts DEF Tracked, AreaKeys
  <2>2. n[k] = o[k]
    BY <1>1, <2>1, Renewed DEF n
  <2>3. \A x \in Elems(items) : x.key # k
    BY <1>1, <1>4, <1>6, <1>7, <2>1, ItemType
  <2>. QED
    BY <1>8, <2>1, <2>2, <2>3 DEF Same, Timely
<1>14. Kept'
  BY <1>2, <1>7, <1>8, <1>10, <1>12, <1>13, OwnKept
<1>. QED
  BY <1>10, <1>11, <1>14 DEF IInv

\* What is originated and not sent: own's clock starts again, the neighbor's does not.
LEMMA OriginateUnsentStep ==
  ASSUME IInv, OriginateUnsent
  PROVE  IInv'
<1>. DEFINE o == db["own"]
            n == Renew(o, {"router"})
            s == o["router"].seq
<1>1. /\ TypeOK /\ VppKept /\ o \in Database /\ "own" \in Routers
      /\ "router" \in Keys /\ {"router"} \in SUBSET Keys
  BY DEF IInv, TypeOK, Database, Entry, Routers, Keys, AreaKeys
<1>2. /\ news > 0 /\ news' = news - 1 /\ Tell(<<>>)
      /\ Set("own", n) /\ UNCHANGED <<due, ext, chan, prefix, changes>>
  BY DEF OriginateUnsent
<1>3. s \in MinSeq .. MaxSeq /\ o["router"] = Canon(s)
  BY <1>1, TrackedFacts DEF Tracked
<1>4. n \in Database /\ \A k \in Keys \ {"router"} : n[k] = o[k]
  BY <1>1, Renewed
<1>5. n["router"] = IF s < MaxSeq THEN Canon(s + 1) ELSE Canon(s)
  BY <1>1, <1>3, RenewedCanon
<1>. HIDE DEF n
<1>6. /\ db' \in [Routers -> Database] /\ since' \in [Routers -> [Keys -> Nat]]
      /\ db'["own"] = n /\ db'["peer"] = db["peer"] /\ since'["peer"] = since["peer"]
      /\ \A k \in Keys : since'["own"][k] = IF n[k] = o[k] THEN since["own"][k] ELSE 0
  BY <1>1, <1>2, <1>4, SetOne DEF Routers
<1>7. <<>> \in Seq(Message) /\ Elems(<<>>) = {} /\ Flood(<<>>)
  <2>1. \A c \in Seq(Message) : c \o <<>> = c
    OBVIOUS
  <2>2. chan \in [Routers -> Seq(Message)] /\ "peer" \in Routers
    BY <1>1 DEF TypeOK, Message, Routers
  <2>3. chan = [chan EXCEPT !["peer"] = chan["peer"] \o <<>>]
    BY <2>1, <2>2
  <2>. QED
    BY <1>2, <2>3, ElemsOfFew DEF Flood
<1>8. /\ news' \in Nat /\ told' \in BOOLEAN /\ VppKept'
      /\ \A k \in Keys : Tracked(k)' <=> Tracked(k)
  BY <1>1, <1>2, TellType DEF TypeOK, VppKept, Tracked
<1>9. TypeOK'
  BY <1>1, <1>2, <1>6, <1>8 DEF TypeOK, Database, Entry, Message
<1>10. /\ Same("router", <<>>) \/ Reissued("router", <<>>)
       /\ db'["own"]["router"].seq < MaxSeq => since'["own"]["router"] <= RefreshTime
  <2>1. CASE s < MaxSeq
    <3>1. s + 1 \in MinSeq .. MaxSeq /\ s + 1 # s
      BY <1>3, <2>1, SeqAssumption
    <3>2. n["router"] = Canon(s + 1) /\ n["router"] # o["router"]
      BY <1>3, <1>5, <2>1, <3>1, CanonType
    <3>3. ~Told("router")'
      BY <1>2, <1>6, <3>2 DEF Tell, Told
    <3>4. 0 <= RefreshTime
      BY RefreshAssumption
    <3>. QED
      BY <1>1, <1>6, <1>7, <2>1, <3>2, <3>3, <3>4 DEF Reissued
  <2>2. CASE ~(s < MaxSeq)
    <3>1. n["router"] = o["router"]
      BY <1>3, <1>5, <2>2
    <3>. QED
      BY <1>1, <1>6, <1>7, <2>2, <3>1 DEF Same
  <2>. QED
    BY <2>1, <2>2
<1>11. ASSUME NEW k \in Keys, Tracked(k), k # "router"
       PROVE  /\ Same(k, <<>>)
              /\ ~due["own"] /\ ~(ext /\ k = "connected") /\ db'["own"][k].seq < MaxSeq =>
                   since'["own"][k] <= RefreshTime
  <2>1. Timely(k) /\ n[k] = o[k]
    BY <1>4, <1>11, TrackedFacts
  <2>. QED
    BY <1>6, <1>7, <2>1 DEF Same, Timely
<1>12. Kept'
  BY <1>2, <1>6, <1>7, <1>8, <1>10, <1>11, OwnKept
<1>. QED
  BY <1>8, <1>9, <1>12 DEF IInv

\* What process_lsu of r does in any case: it takes the oldest message, installs what is
\* newer, and may answer with an LSA of its database.
LEMMA ReceiveEffect ==
  ASSUME IInv, NEW r \in Routers, Receive(r)
  PROVE  LET h == Head(chan[r])
             d == Install(db[r], h.key, h.lsa)
         IN  /\ h \in Message /\ d \in Database /\ Set(r, d)
             /\ Elems(chan[r]) = {h} \cup Elems(chan'[r])
             /\ chan' \in [Routers -> Seq(Message)]
             /\ \/ Elems(chan'[Other(r)]) = Elems(chan[Other(r)])
                \/ /\ db[r][h.key] \in Lsa
                   /\ Elems(chan'[Other(r)]) = Elems(chan[Other(r)]) \cup {Item(h.key, db[r][h.key])}
             /\ UNCHANGED <<due, ext, prefix, changes, news, told>>
<1>. DEFINE c == chan[r]
            h == Head(c)
            d == Install(db[r], h.key, h.lsa)
            o == Other(r)
            older == InstallResult(db[r], h.key, h.lsa) = "Older"
            back == IF older /\ h.key \in AreaKeys THEN <<Item(h.key, db[r][h.key])>> ELSE <<>>
<1>1. /\ TypeOK /\ db[r] \in Database /\ chan \in [Routers -> Seq(Message)] /\ c \in Seq(Message)
      /\ o \in Routers /\ o # r /\ chan[o] \in Seq(Message) /\ c # <<>>
  BY DEF IInv, TypeOK, Database, Entry, Message, Routers, Other, Receive
<1>2. /\ Set(r, d) /\ chan' = [chan EXCEPT ![r] = Tail(@), ![o] = @ \o back]
      /\ UNCHANGED <<due, ext, prefix, changes, news, told>>
  BY Zenon DEF Receive
<1>3. /\ h \in Message /\ Tail(c) \in Seq(Message)
      /\ Elems(c) = {h} \cup Elems(Tail(c))
  BY <1>1, ElemsFacts
<1>4. h.key \in Keys /\ h.lsa \in Lsa
  BY <1>3 DEF Message
<1>5. d \in Database
  BY <1>1, <1>4, InstallType
<1>6. \/ back = <<>>
      \/ db[r][h.key] \in Lsa /\ back = <<Item(h.key, db[r][h.key])>>
  <2>1. older => db[r][h.key] \in Lsa
    BY <1>1, <1>4 DEF InstallResult, Database, Entry
  <2>. QED
    BY <2>1
<1>7. /\ back \in Seq(Message)
      /\ Elems(back) = {} \/ (db[r][h.key] \in Lsa /\ Elems(back) = {Item(h.key, db[r][h.key])})
  BY <1>4, <1>6, ItemType, ElemsOfFew
<1>. HIDE DEF back, d, c, h, o
<1>8. chan[o] \o back \in Seq(Message) /\ Elems(chan[o] \o back) = Elems(chan[o]) \cup Elems(back)
  BY <1>1, <1>7, ElemsFacts
<1>9. chan'[r] = Tail(c) /\ chan'[o] = chan[o] \o back
  BY <1>1, <1>2 DEF c
<1>10. chan' \in [Routers -> Seq(Message)]
  <2>1. \A q \in Routers : chan'[q] \in Seq(Message)
    BY <1>1, <1>3, <1>8, <1>9 DEF Routers, Other, o
  <2>2. chan' = [q \in Routers |-> chan'[q]]
    BY <1>1, <1>2
  <2>. QED
    BY <2>1, <2>2
<1>. HIDE DEF Elems
<1>. QED
  BY <1>2, <1>3, <1>5, <1>7, <1>8, <1>9, <1>10 DEF c, d, h, o

\* own receives: nothing is ahead of a tracked LSA of its own.
LEMMA OwnReceives ==
  ASSUME IInv, Receive("own")
  PROVE  IInv'
<1>. DEFINE h == Head(chan["own"])
            d == Install(db["own"], h.key, h.lsa)
            back == Item(h.key, db["own"][h.key])
<1>1. /\ TypeOK /\ VppKept /\ "own" \in Routers /\ "peer" \in Routers /\ Other("own") = "peer"
      /\ db["own"] \in Database
  BY DEF IInv, Routers, Other, TypeOK, Database, Entry
<1>2. /\ h \in Message /\ d \in Database /\ Set("own", d)
      /\ Elems(chan["own"]) = {h} \cup Elems(chan'["own"])
      /\ chan' \in [Routers -> Seq(Message)]
      /\ \/ Elems(chan'["peer"]) = Elems(chan["peer"])
         \/ /\ db["own"][h.key] \in Lsa
            /\ Elems(chan'["peer"]) = Elems(chan["peer"]) \cup {back}
      /\ UNCHANGED <<due, ext, prefix, changes, news, told>>
  BY <1>1, ReceiveEffect
<1>. HIDE DEF h, back
<1>3. h.key \in Keys /\ h.lsa \in Lsa
  BY <1>2 DEF Message
<1>4. ASSUME NEW k \in Keys, Tracked(k)
      PROVE  d[k] = db["own"][k]
  <2>1. CASE k # h.key
    BY <1>1, <1>3, <2>1, InstallType
  <2>2. CASE k = h.key
    <3>1. Genuine(k) /\ db["own"][k].seq \in MinSeq .. MaxSeq /\ db["own"][k] = Canon(db["own"][k].seq)
      BY <1>4, TrackedFacts
    <3>2. h.lsa = Canon(h.lsa.seq) /\ h.lsa.seq <= db["own"][k].seq
      BY <1>1, <1>2, <2>2, <3>1 DEF Genuine
    <3>3. h.lsa.seq \in MinSeq .. MaxSeq
      BY <1>3 DEF Lsa
    <3>4. ~(h.lsa.seq > db["own"][k].seq)
      BY <3>1, <3>2, <3>3, SeqAssumption
    <3>. QED
      BY <1>1, <1>3, <2>2, <3>1, <3>2, <3>3, <3>4, InstallCanon
  <2>. QED
    BY <2>1, <2>2
<1>. HIDE DEF d
<1>5. /\ db' \in [Routers -> Database] /\ since' \in [Routers -> [Keys -> Nat]]
      /\ db'["own"] = d /\ db'["peer"] = db["peer"] /\ since'["peer"] = since["peer"]
      /\ \A k \in Keys : since'["own"][k] = IF d[k] = db["own"][k] THEN since["own"][k] ELSE 0
  BY <1>1, <1>2, SetOne
<1>6. TypeOK'
  BY <1>1, <1>2, <1>5 DEF TypeOK, Database, Entry, Message
<1>7. ASSUME NEW k \in Keys, Tracked(k)
      PROVE  Genuine(k)' /\ Timely(k)' /\ (Told(k)' => Delivered(k)')
  <2>1. /\ Genuine(k) /\ Timely(k) /\ (Told(k) => Delivered(k))
        /\ db["own"][k].seq \in MinSeq .. MaxSeq /\ db["own"][k] = Canon(db["own"][k].seq)
    BY <1>7, TrackedFacts
  <2>2. db'["own"][k] = db["own"][k] /\ since'["own"][k] = since["own"][k]
    BY <1>4, <1>5, <1>7
  <2>3. /\ Elems(chan'["own"]) \subseteq Elems(chan["own"])
        /\ Elems(chan["peer"]) \subseteq Elems(chan'["peer"])
    BY <1>2
  <2>4. ASSUME NEW x \in Elems(chan'["peer"]), x.key = k
        PROVE  x.lsa = Canon(x.lsa.seq) /\ x.lsa.seq <= db["own"][k].seq
    <3>1. CASE x \in Elems(chan["peer"])
      BY <1>1, <2>1, <2>4, <3>1 DEF Genuine
    <3>2. CASE x \notin Elems(chan["peer"])
      <4>1. x = back /\ db["own"][h.key] \in Lsa
        BY <1>2, <2>4, <3>2
      <4>2. x.key = h.key /\ x.lsa = Encode(db["own"][h.key])
        BY <1>3, <4>1, ItemType DEF back
      <4>3. x.lsa = db["own"][k]
        BY <2>1, <2>4, <4>2, CanonType
      <4>. QED
        BY <2>1, <4>3, SeqAssumption
    <3>. QED
      BY <3>1, <3>2
  <2>5. Genuine(k)'
    BY <1>5, <2>1, <2>2, <2>3, <2>4 DEF Genuine, Routers
  <2>6. Timely(k)'
    BY <1>2, <1>5, <2>1, <2>2 DEF Timely
  <2>7. Told(k)' => Delivered(k)'
    BY <1>2, <1>5, <2>1, <2>2, <2>3 DEF Delivered, Told
  <2>. QED
    BY <2>5, <2>6, <2>7
<1>8. Kept'
  BY <1>2, <1>7 DEF Kept, Tracked
<1>. QED
  BY <1>1, <1>2, <1>6, <1>8 DEF IInv, VppKept

\* The neighbor receives: if this is own's instance the two databases agree from now on,
\* and if not own's is still on its way.
LEMMA PeerReceives ==
  ASSUME IInv, Receive("peer")
  PROVE  IInv'
<1>. DEFINE h == Head(chan["peer"])
            d == Install(db["peer"], h.key, h.lsa)
            back == Item(h.key, db["peer"][h.key])
<1>1. /\ TypeOK /\ VppKept /\ "own" \in Routers /\ "peer" \in Routers /\ Other("peer") = "own"
      /\ db["peer"] \in Database
  BY DEF IInv, Routers, Other, TypeOK, Database, Entry
<1>2. /\ h \in Message /\ d \in Database /\ Set("peer", d)
      /\ Elems(chan["peer"]) = {h} \cup Elems(chan'["peer"])
      /\ chan' \in [Routers -> Seq(Message)]
      /\ \/ Elems(chan'["own"]) = Elems(chan["own"])
         \/ /\ db["peer"][h.key] \in Lsa
            /\ Elems(chan'["own"]) = Elems(chan["own"]) \cup {back}
      /\ UNCHANGED <<due, ext, prefix, changes, news, told>>
  BY <1>1, ReceiveEffect
<1>. HIDE DEF h, back
<1>3. h.key \in Keys /\ h.lsa \in Lsa /\ h.lsa.seq \in MinSeq .. MaxSeq
  BY <1>2 DEF Message, Lsa
<1>4. ASSUME NEW k \in Keys, k # h.key
      PROVE  d[k] = db["peer"][k]
  BY <1>1, <1>3, <1>4, InstallType
<1>5. ASSUME h.lsa = Canon(h.lsa.seq)
      PROVE  /\ db["peer"][h.key] = NoLsa => d[h.key] = h.lsa
             /\ \A t \in MinSeq .. MaxSeq : db["peer"][h.key] = Canon(t) =>
                  d[h.key] = IF h.lsa.seq > t THEN h.lsa ELSE db["peer"][h.key]
  <2>1. ASSUME NEW t \in MinSeq .. MaxSeq, db["peer"][h.key] = Canon(t)
        PROVE  d = IF h.lsa.seq > t THEN [db["peer"] EXCEPT ![h.key] = h.lsa] ELSE db["peer"]
    BY <1>1, <1>3, <1>5, <2>1, InstallCanon
  <2>2. db["peer"][h.key] = NoLsa => d = [db["peer"] EXCEPT ![h.key] = h.lsa]
    BY DEF Install, InstallResult, Changed
  <2>. QED
    BY <1>1, <1>3, <2>1, <2>2 DEF Database
<1>. HIDE DEF d
<1>6. /\ db' \in [Routers -> Database] /\ since' \in [Routers -> [Keys -> Nat]]
      /\ db'["peer"] = d /\ db'["own"] = db["own"] /\ since'["own"] = since["own"]
      /\ \A k \in Keys : since'["peer"][k] = IF d[k] = db["peer"][k] THEN since["peer"][k] ELSE 0
  BY <1>1, <1>2, SetOne
<1>7. TypeOK'
  BY <1>1, <1>2, <1>6 DEF TypeOK, Database, Entry, Message
<1>8. ASSUME NEW k \in Keys, Tracked(k)
      PROVE  Genuine(k)' /\ Timely(k)' /\ (Told(k)' => Delivered(k)')
  <2>. DEFINE s == db["own"][k].seq
  <2>1. Genuine(k) /\ Timely(k) /\ (Told(k) => Delivered(k))
    BY <1>8, TrackedFacts
  <2>2. /\ s \in MinSeq .. MaxSeq /\ db["own"][k] = Canon(s) /\ db["own"][k] \in Lsa
        /\ Item(k, db["own"][k]).key = k /\ Item(k, db["own"][k]).lsa = db["own"][k]
    BY <1>1, <2>1, Numbers, CanonType, ItemType DEF Genuine
  <2>3. Elems(chan'["peer"]) \subseteq Elems(chan["peer"])
    BY <1>2
  <2>4. ASSUME NEW x \in Elems(chan'["own"]), x.key = k
        PROVE  x.lsa = Canon(x.lsa.seq) /\ x.lsa.seq <= s
    <3>1. CASE x \in Elems(chan["own"])
      BY <1>1, <2>1, <2>4, <3>1 DEF Genuine
    <3>2. CASE x \notin Elems(chan["own"])
      <4>1. x = back /\ db["peer"][h.key] \in Lsa
        BY <1>2, <2>4, <3>2
      <4>2. x.key = h.key /\ x.lsa = Encode(db["peer"][h.key])
        BY <1>3, <4>1, ItemType DEF back
      <4>3. /\ db["peer"][k] = Canon(db["peer"][k].seq) /\ db["peer"][k].seq <= s
            /\ db["peer"][k].seq \in MinSeq .. MaxSeq
        BY <1>1, <2>1, <2>4, <4>1, <4>2, Numbers, LsaAssumption DEF Genuine
      <4>4. x.lsa = db["peer"][k]
        BY <2>4, <4>2, <4>3, CanonType
      <4>. QED
        BY <4>3, <4>4
    <3>. QED
      BY <3>1, <3>2
  <2>5. Timely(k)'
    BY <1>2, <1>6, <2>1 DEF Timely
  <2>6. k = h.key => h.lsa = Canon(h.lsa.seq) /\ h.lsa.seq <= s
    BY <1>1, <1>2, <2>1 DEF Genuine
  <2>7. /\ d[k] = db["peer"][k] \/ (k = h.key /\ d[k] = h.lsa)
        /\ k = h.key /\ h.lsa.seq = s => d[k] = db["own"][k]
    <3>1. CASE k # h.key
      BY <1>4, <3>1
    <3>2. CASE k = h.key /\ db["peer"][k] = NoLsa
      <4>1. d[k] = h.lsa
        BY <1>5, <2>6, <3>2
      <4>. QED
        BY <2>2, <2>6, <3>2, <4>1
    <3>3. CASE k = h.key /\ db["peer"][k] # NoLsa
      <4>1. /\ db["peer"][k] = Canon(db["peer"][k].seq) /\ db["peer"][k].seq <= s
            /\ db["peer"][k].seq \in MinSeq .. MaxSeq
        BY <1>1, <2>1, <3>3, Numbers DEF Genuine
      <4>2. d[k] = IF h.lsa.seq > db["peer"][k].seq THEN h.lsa ELSE db["peer"][k]
        BY <1>5, <2>6, <3>3, <4>1
      <4>3. h.lsa.seq = s /\ ~(h.lsa.seq > db["peer"][k].seq) => db["peer"][k].seq = s
        BY <2>2, <4>1, SeqAssumption
      <4>. QED
        BY <2>2, <2>6, <3>3, <4>1, <4>2, <4>3
    <3>. QED
      BY <3>1, <3>2, <3>3
  <2>8. d[k] # NoLsa => d[k] = Canon(d[k].seq) /\ d[k].seq <= s
    BY <2>1, <2>6, <2>7 DEF Genuine
  <2>9. Genuine(k)'
    BY <1>6, <2>1, <2>3, <2>4, <2>8 DEF Genuine, Routers
  <2>10. ASSUME Told(k)' PROVE Delivered(k)'
    <3>1. Delivered(k)
      BY <1>2, <2>1, <2>10 DEF Told
    <3>2. CASE db["peer"][k] = db["own"][k] /\ since["peer"][k] = since["own"][k]
      <4>1. d[k] = db["own"][k]
        <5>1. CASE k # h.key
          BY <1>4, <3>2, <5>1
        <5>2. CASE k = h.key
          BY <1>3, <1>5, <2>2, <2>6, <3>2, <5>2, SeqAssumption
        <5>. QED
          BY <5>1, <5>2
      <4>. QED
        BY <1>6, <3>2, <4>1 DEF Delivered
    <3>3. CASE /\ db["peer"][k] # db["own"][k] /\ since["own"][k] = 0
               /\ Item(k, db["own"][k]) \in Elems(chan["peer"])
      <4>1. CASE k = h.key /\ h.lsa.seq = s
        <5>1. d[k] = db["own"][k] /\ d[k] # db["peer"][k]
          BY <2>7, <3>3, <4>1
        <5>. QED
          BY <1>6, <3>3, <5>1 DEF Delivered
      <4>2. CASE ~(k = h.key /\ h.lsa.seq = s)
        <5>1. Item(k, db["own"][k]) # h
          BY <2>2, <4>2
        <5>2. Item(k, db["own"][k]) \in Elems(chan'["peer"])
          BY <1>2, <3>3, <5>1
        <5>3. d[k] # db["own"][k]
          BY <2>2, <2>7, <3>3, <4>2
        <5>. QED
          BY <1>6, <3>3, <5>2, <5>3 DEF Delivered
      <4>. QED
        BY <4>1, <4>2
    <3>. QED
      BY <3>1, <3>2, <3>3 DEF Delivered
  <2>. QED
    BY <2>5, <2>9, <2>10
<1>9. Kept'
  BY <1>2, <1>8 DEF Kept, Tracked
<1>. QED
  BY <1>1, <1>2, <1>7, <1>9 DEF IInv, VppKept

\* An interval passes only when nothing is on its way, so both clocks of a tracked LSA
\* show the same time.
LEMMA TimeStep ==
  ASSUME IInv, TimePasses
  PROVE  IInv'
<1>1. TypeOK /\ VppKept /\ "own" \in Routers /\ "peer" \in Routers
  BY DEF IInv, Routers
<1>2. /\ Quiet /\ ~ext /\ Room /\ ~due["own"]
      /\ due' = [r \in Routers |-> TRUE] /\ UNCHANGED <<db, ext, chan, prefix, changes, news, told>>
      /\ since' = [r \in Routers |-> [k \in Keys |->
                     IF db[r][k] # NoLsa THEN since[r][k] + 1 ELSE since[r][k]]]
  BY <1>1 DEF TimePasses
<1>3. since' \in [Routers -> [Keys -> Nat]] /\ due' \in [Routers -> BOOLEAN] /\ due'["own"]
  BY <1>1, <1>2 DEF TypeOK
<1>4. TypeOK'
  BY <1>1, <1>2, <1>3 DEF TypeOK
<1>5. ASSUME NEW k \in Keys, Tracked(k)
      PROVE  Genuine(k)' /\ Timely(k)' /\ (Told(k)' => Delivered(k)')
  <2>1. Genuine(k) /\ Timely(k) /\ (Told(k) => Delivered(k))
    BY <1>5, TrackedFacts
  <2>2. Elems(chan["peer"]) = {}
    BY <1>1, <1>2, ElemsOfFew DEF Quiet
  <2>3. Told(k) => db["peer"][k] = db["own"][k] /\ since["peer"][k] = since["own"][k]
    BY <2>1, <2>2 DEF Delivered
  <2>4. db["own"][k].seq < MaxSeq
    BY <1>1, <1>2, <2>1 DEF Room, Genuine
  <2>5. since["own"][k] <= RefreshTime /\ since["own"][k] \in Nat
    BY <1>1, <1>2, <2>1, <2>4, Numbers DEF Timely
  <2>6. /\ since'["own"][k] = since["own"][k] + 1
        /\ Told(k) => since'["peer"][k] = since["own"][k] + 1
    BY <1>1, <1>2, <2>1, <2>3 DEF Genuine
  <2>7. since["own"][k] + 1 <= RefreshTime + 1
    BY <2>5, RefreshAssumption
  <2>8. Genuine(k)'
    BY <1>2, <2>1 DEF Genuine
  <2>9. Timely(k)'
    BY <1>3, <2>6, <2>7 DEF Timely
  <2>10. Told(k)' => Delivered(k)'
    BY <1>2, <2>3, <2>6 DEF Delivered, Told
  <2>. QED
    BY <2>8, <2>9, <2>10
<1>6. Kept'
  BY <1>2, <1>5 DEF Kept, Tracked
<1>. QED
  BY <1>1, <1>2, <1>4, <1>6 DEF IInv, VppKept
-----------------------------------------------------------------------------
\* Both routers hold what own originated.
LEMMA InitInv == Init => IInv
<1>. SUFFICES ASSUME Init PROVE IInv
  OBVIOUS
<1>. USE DEF Init
<1>1. InitialSequenceNumber \in MinSeq .. MaxSeq
  BY SeqAssumption DEF InitialSequenceNumber
<1>2. FirstInstance = Canon(InitialSequenceNumber)
  BY DEF FirstInstance, Canon
<1>3. /\ FirstInstance \in Lsa /\ FirstInstance # NoLsa
      /\ FirstInstance = Canon(FirstInstance.seq)
  BY <1>1, <1>2, CanonType
<1>4. TypeOK
  <2>1. db \in [Routers -> [Keys -> Lsa \cup {NoLsa}]]
    BY <1>3
  <2>2. chan \in [Routers -> Seq([key : Keys, lsa : Lsa])]
    OBVIOUS
  <2>3. due \in [Routers -> BOOLEAN] /\ ext \in BOOLEAN /\ prefix \in BOOLEAN /\ told \in BOOLEAN
    BY Zenon
  <2>. QED
    BY <2>1, <2>2, <2>3, RefreshAssumption DEF TypeOK
<1>5. VppKept
  BY RefreshAssumption DEF VppKept
<1>6. ASSUME NEW k \in Keys, Tracked(k)
      PROVE  Genuine(k) /\ Timely(k) /\ Delivered(k)
  <2>1. "own" \in Routers /\ "peer" \in Routers
    BY DEF Routers
  <2>2. db["own"][k] = FirstInstance /\ db["peer"][k] = FirstInstance
    BY <1>6, <2>1 DEF Tracked
  <2>3. since["own"][k] = 0 /\ since["peer"][k] = 0
    BY <2>1
  <2>4. \A r \in Routers : Elems(chan[r]) = {}
    BY ElemsOfFew
  <2>5. FirstInstance.seq <= FirstInstance.seq
    BY <1>3, SeqAssumption DEF Lsa
  <2>6. Genuine(k)
    BY <1>3, <2>2, <2>4, <2>5 DEF Genuine
  <2>7. Timely(k)
    BY <2>3, RefreshAssumption DEF Timely
  <2>8. Delivered(k)
    BY <2>2, <2>3 DEF Delivered
  <2>. QED
    BY <2>6, <2>7, <2>8
<1>. QED
  BY <1>4, <1>5, <1>6 DEF IInv, Kept

\* Nothing happens when nothing changes.
LEMMA StutterStep ==
  ASSUME IInv, UNCHANGED vars
  PROVE  IInv'
<1>1. UNCHANGED <<db, since, due, ext, chan, prefix, changes, news, told>>
  BY DEF vars
<1>2. TypeOK' /\ VppKept'
  BY <1>1 DEF IInv, TypeOK, VppKept
<1>3. Kept'
  BY <1>1 DEF IInv, Kept, Tracked, Genuine, Timely, Told, Delivered
<1>. QED
  BY <1>2, <1>3 DEF IInv

\* The invariant holds however ticks, refreshes, packets and changes interleave.
LEMMA Invariant == Spec => []IInv
<1>1. ASSUME IInv, [Next]_vars
      PROVE  IInv'
  <2>1. ASSUME NEW r \in Routers, Receive(r)
        PROVE  IInv'
    BY <1>1, <2>1, OwnReceives, PeerReceives DEF Routers
  <2>. QED
    BY <1>1, <2>1, OwnTickStep, PeerTickStep, RefreshExternalsStep, RefreshUnansweredStep,
       PrefixChangesStep, NeighborFullStep, OriginateUnsentStep, TimeStep, StutterStep DEF Next, OutOfNumbers
<1>. QED
  BY <1>1, InitInv, PTL DEF Spec

\* What a tracked LSA's clocks and copies amount to.
LEMMA TrackedIsLive ==
  ASSUME IInv, NEW k \in Keys, Tracked(k)
  PROVE  Live("own", k) /\ (Quiet /\ Told(k) => Live("peer", k))
<1>1. (Told(k) => Delivered(k)) /\ Live("own", k)
  BY TrackedFacts
<1>2. Quiet => Elems(chan["peer"]) = {}
  BY ElemsOfFew DEF Quiet, Routers
<1>3. Quiet /\ Told(k) => db["peer"][k] = db["own"][k] /\ since["peer"][k] = since["own"][k]
  BY <1>1, <1>2 DEF Delivered
<1>. QED
  BY <1>1, <1>3 DEF Live, CurrentAge

\* Databases, clocks and channels of lsdb.rs keep their types, sequence numbers their
\* width.
THEOREM TypeCorrect == Spec => []TypeOK
<1>1. IInv => TypeOK
  BY DEF IInv
<1>. QED
  BY <1>1, Invariant, PTL

\* periodic_maintenance keeps a Router-LSA that was sent alive at the neighbor, and what is
\* sent after one that was not finds its way there: for every refresh time that leaves an
\* interval before MaxAge, every width of the clock and any number of originations of
\* either kind.
THEOREM SentRouterLsaNeverExpires == Spec => []PeerHoldsRouterLsa
<1>1. IInv => PeerHoldsRouterLsa
  <2>1. "router" \in Keys
    BY DEF Keys, AreaKeys
  <2>. QED
    BY <2>1, TrackedIsLive DEF PeerHoldsRouterLsa, Tracked, Told
<1>. QED
  BY <1>1, Invariant, PTL

\* refresh_external_lsas keeps the LSA of a redistributed prefix alive at both routers
\* while VPP answers and keeps the prefix.
THEOREM ConnectedNeverExpires == Spec => []ConnectedSurvives
<1>1. IInv => ConnectedSurvives
  <2>1. "connected" \in Keys
    BY DEF Keys, ExtKeys
  <2>. QED
    BY <2>1, TrackedIsLive DEF ConnectedSurvives, Tracked, Told
<1>. QED
  BY <1>1, Invariant, PTL
=============================================================================
