-------------------------------- MODULE Lsdb --------------------------------
(***************************************************************************)
(* The OSPFv2 link state database of one area (src/src/lsdb.rs) and the    *)
(* recency order of LSA instances (src/src/packet/lsa.rs), as operators on *)
(* a function from LSA keys to instances.                                  *)
(*                                                                         *)
(* An instance keeps what the daemon compares: the signed LS sequence      *)
(* number, the LS checksum, the LS age of the header and, for the LSAs the *)
(* daemon writes itself, a token for the contents (body).  Sequence        *)
(* numbers keep a fixed width: MinSeq stands for i32::MIN and MaxSeq for   *)
(* i32::MAX.                                                               *)
(***************************************************************************)
EXTENDS Integers

CONSTANTS
    MinSeq, MaxSeq,   \* bounds of the sequence number type
    MaxAge,           \* MAX_AGE, 3600 s in the code
    MaxAgeDiff,       \* 900 s in the code
    Bodies,           \* contents an LSA may have
    Checksum(_, _),   \* Fletcher checksum of (sequence number, contents)
    NoLsa             \* "no entry for this key"

ASSUME SeqAssumption ==
    /\ MinSeq \in Int
    /\ MaxSeq \in Int
    /\ MinSeq + 1 < MaxSeq

ASSUME AgeAssumption ==
    /\ MaxAge \in Nat \ {0}
    /\ MaxAgeDiff \in Nat

\* INITIAL_SEQUENCE_NUMBER, 0x80000001: the most negative value is reserved.
InitialSequenceNumber == MinSeq + 1

\* Header and contents of an LSA instance.
Lsa == [seq : MinSeq .. MaxSeq, ck : Nat, age : 0 .. MaxAge, body : Bodies]

ASSUME LsaAssumption ==
    /\ \A s \in MinSeq .. MaxSeq, b \in Bodies : Checksum(s, b) \in Nat
    /\ NoLsa \notin Lsa

\* What Lsa::encode puts on the wire: the checksum is computed afresh.
Encode(lsa) == [lsa EXCEPT !.ck = Checksum(lsa.seq, lsa.body)]

-----------------------------------------------------------------------------
(* Which of two instances of one LSA is more recent (RFC 2328 13.1).       *)

Distance(x, y) == IF x > y THEN x - y ELSE y - x

\* LsaHeader::is_more_recent_than, as the Ordering of a relative to b.
IsMoreRecentThan(a, b) ==
    CASE a.seq > b.seq -> "Greater"
      [] a.seq < b.seq -> "Less"
      [] a.seq = b.seq /\ a.ck > b.ck -> "Greater"
      [] a.seq = b.seq /\ a.ck < b.ck -> "Less"
      [] a.seq = b.seq /\ a.ck = b.ck /\ a.age = MaxAge /\ b.age # MaxAge -> "Greater"
      [] a.seq = b.seq /\ a.ck = b.ck /\ a.age # MaxAge /\ b.age = MaxAge -> "Less"
      [] a.seq = b.seq /\ a.ck = b.ck /\ (a.age = MaxAge <=> b.age = MaxAge)
            /\ Distance(a.age, b.age) > MaxAgeDiff ->
         IF a.age < b.age THEN "Greater" ELSE "Less"
      [] OTHER -> "Equal"

Newer(a, b) == IsMoreRecentThan(a, b) = "Greater"

-----------------------------------------------------------------------------
(* Operations on a database db \in [Keys -> Lsa \cup {NoLsa}].             *)

\* Lsdb::install: what happens to an instance offered for key k ...
InstallResult(db, k, lsa) ==
    IF db[k] = NoLsa THEN "New"
    ELSE CASE IsMoreRecentThan(lsa, db[k]) = "Greater" -> "Updated"
           [] IsMoreRecentThan(lsa, db[k]) = "Equal"   -> "Duplicate"
           [] IsMoreRecentThan(lsa, db[k]) = "Less"    -> "Older"

\* Mutant: an older instance is taken too.
ChangedByOlder(result) == result \in {"New", "Updated", "Older"}

\* ... InstallResult::changed ...
Changed(result) == result \in {"New", "Updated"}

\* ... and the database afterwards.
Install(db, k, lsa) ==
    IF Changed(InstallResult(db, k, lsa)) THEN [db EXCEPT ![k] = lsa] ELSE db

\* Lsdb::bump_seq: raise an existing entry to the sequence number a peer
\* still holds, leaving contents and stored checksum alone.
BumpSeq(db, k, newSeq) ==
    IF db[k] # NoLsa /\ db[k].seq < newSeq
    THEN [db EXCEPT ![k] = [db[k] EXCEPT !.seq = newSeq]]
    ELSE db

\* Mutant: the number leaves its type.
SuccUnbounded(s) == s + 1

\* i32::wrapping_add(1)
WrappingSucc(s) == IF s = MaxSeq THEN MinSeq ELSE s + 1

NextSeq(db, k) ==
    IF db[k] = NoLsa THEN InitialSequenceNumber ELSE WrappingSucc(db[k].seq)

\* The instance Lsdb::originate_router_lsa (and the other originate_*
\* functions of instance.rs) builds, encodes and hands to the flooding code.
Originated(db, k, body) ==
    Encode([seq |-> NextSeq(db, k), ck |-> 0, age |-> 0, body |-> body])

\* Lsdb::originate_router_lsa: the database afterwards.  The result of
\* install is ignored by the code.
Originate(db, k, body) == Install(db, k, Originated(db, k, body))
=============================================================================
