--------------------------- MODULE RibSyncProofs ---------------------------
(***************************************************************************)
(* Proofs about RibSync, for every set of neighbors and databases, every   *)
(* route computation and every number of changes and failures.             *)
(*                                                                         *)
(* PushedIsHeld speaks about the end of a push only and needs what holds   *)
(* half way (Pushing).  ChangeIsNoticed is not inductive either: the tick  *)
(* of version 3 compares numbers of neighbors, and what makes that enough  *)
(* is that without any other mark the neighbors are among those of the     *)
(* last run (Unmarked), so that the same number means the same set.        *)
(***************************************************************************)
EXTENDS RibSync, FiniteSetTheorems, TLAPS

\* The Bulks of a push that have been sent are what ribd holds of their kinds.
Pushing == next > 0 /\ ~lost => \A k \in 1..(next - 1) : held[k] = OfKind(batch, k)

\* Something besides the number of neighbors makes a tick of version 3 run SPF.
Marked == force \/ bumped \/ dirty # {}

\* The neighbors L of the last run explain its routes, and no other has joined them.
Unmarked ==
  ver = "v3" /\ mode = "running" /\ ~Marked =>
    \E L \in SUBSET Neighbors :
      Cardinality(L) = lastCount /\ nbrs \subseteq L /\ batch = RoutesOf(db, L)

IInv == TypeOK /\ Pushing /\ PushedIsHeld /\ Unmarked

\* Sets of neighbors are finite, and not more numerous than all of them.
LEMMA NeighborSets ==
  ASSUME NEW S \in SUBSET Neighbors
  PROVE  Cardinality(S) \in 0..Cardinality(Neighbors)
<1>1. IsFiniteSet(Neighbors)
  BY RibAssumption
<1>. QED
  BY <1>1, FS_Subset, FS_CardinalityType

\* Of two sets of neighbors of the same size neither is a proper part of the other.
LEMMA SameNumberSameSet ==
  ASSUME NEW L \in SUBSET Neighbors, NEW S \in SUBSET L, Cardinality(S) = Cardinality(L)
  PROVE  S = L
<1>1. IsFiniteSet(L)
  BY RibAssumption, FS_Subset
<1>. QED
  BY <1>1, FS_Subset

\* TypeOK in three parts.  The values.
ValuesOK ==
  /\ ver \in {"v2", "v3"} /\ mode \in {"running", "closing", "stopped"}
  /\ db \in Databases /\ nbrs \subseteq Neighbors /\ dirty \subseteq Neighbors
  /\ next \in 0..4 /\ result \in {"none", "ok", "failed"}
  /\ conn \in {"none", "live", "dead"}
  /\ lastCount \in 0..Cardinality(Neighbors)
  /\ changes \in 0..MaxChanges /\ faults \in 0..MaxFaults
  /\ DOMAIN held = 1..4 /\ (mode = "closing" => next > 0)

\* The flags.
FlagsOK ==
  /\ due \in BOOLEAN /\ bumped \in BOOLEAN /\ force \in BOOLEAN
  /\ ribdUp \in BOOLEAN /\ lost \in BOOLEAN

\* A connection that works has a ribd at its end.
Connected == conn = "live" => ribdUp

\* The parts make up TypeOK.
LEMMA TypeParts == TypeOK <=> ValuesOK /\ FlagsOK /\ Connected
BY Zenon DEF TypeOK, ValuesOK, FlagsOK, Connected

\* The daemon starts well typed, with or without a ribd to connect to.
LEMMA InitTyped == Init => TypeOK
<1>. SUFFICES ASSUME Init PROVE TypeOK
  OBVIOUS
<1>1. 0 \in 0..Cardinality(Neighbors)
  BY RibAssumption, FS_CardinalityType
<1>2. ValuesOK
  <2>1. conn \in {"none", "live", "dead"}
    BY DEF Init
  <2>. QED
    BY <1>1, <2>1, RibAssumption DEF Init, ValuesOK
<1>3. FlagsOK
  BY Zenon DEF Init, FlagsOK
<1>4. Connected
  BY DEF Init, Connected
<1>. QED
  BY <1>2, <1>3, <1>4, TypeParts

\* The values keep their types: no push is longer than four Bulks, and an instance
\* that closes is always on its way to the end of its withdrawal.
LEMMA ValuesStep ==
  ASSUME ValuesOK, [Next]_vars
  PROVE  ValuesOK'
<1>. USE RibAssumption
<1>. USE DEF ValuesOK, loopVars, pushVars, ribdVars
<1>1. CASE LsaV2
  BY <1>1 DEF LsaV2, Change, Idle
<1>2. CASE LsaV3
  BY <1>2 DEF LsaV3, Change, Idle
<1>3. CASE NeighborV2
  BY <1>3 DEF NeighborV2, Change, Idle
<1>4. CASE NeighborV3
  BY <1>4 DEF NeighborV3, Change, Idle, FullV3, ExpireV3
<1>5. CASE RouterLsaV3
  BY <1>5 DEF RouterLsaV3, Idle
<1>6. CASE IfaceRefreshV3
  BY <1>6 DEF IfaceRefreshV3, Idle
<1>7. CASE EnrollmentV2
  BY <1>7 DEF EnrollmentV2
<1>8. CASE RunSpfV2
  BY <1>8 DEF RunSpfV2, Idle, StartPush
<1>9. CASE SpfTickV3
  BY <1>9, NeighborSets DEF SpfTickV3, Idle, StartPush
<1>10. CASE Bulk
  BY <1>10 DEF Bulk, LastBulk, EndPush, Store
<1>11. CASE BulkFails
  BY <1>11 DEF BulkFails, EndPush
<1>12. CASE RetryFails
  BY <1>12 DEF RetryFails, EndPush
<1>13. CASE RibdStops
  BY <1>13 DEF RibdStops
<1>14. CASE RibdStarts
  BY <1>14 DEF RibdStarts
<1>15. CASE ConnectionBreaks
  BY <1>15 DEF ConnectionBreaks
<1>16. CASE ShutdownV2
  BY <1>16 DEF ShutdownV2, Idle, StartPush
<1>17. CASE ExitV3
  BY <1>17 DEF ExitV3
<1>18. CASE UNCHANGED vars
  BY <1>18 DEF vars
<1>. QED
  BY <1>1, <1>2, <1>3, <1>4, <1>5, <1>6, <1>7, <1>8, <1>9, <1>10, <1>11, <1>12,
     <1>13, <1>14, <1>15, <1>16, <1>17, <1>18 DEF Next

\* Every arm sets its flags to truth values.
LEMMA FlagsStep ==
  ASSUME FlagsOK, [Next]_vars
  PROVE  FlagsOK'
<1>. USE DEF FlagsOK, loopVars, pushVars, ribdVars
<1>1. CASE LsaV2
  BY <1>1 DEF LsaV2, Change, Idle
<1>2. CASE LsaV3
  BY <1>2 DEF LsaV3, Change, Idle
<1>3. CASE NeighborV2
  BY <1>3 DEF NeighborV2, Change, Idle
<1>4. CASE NeighborV3
  BY <1>4 DEF NeighborV3, Change, Idle, FullV3, ExpireV3
<1>5. CASE RouterLsaV3
  BY <1>5 DEF RouterLsaV3, Idle
<1>6. CASE IfaceRefreshV3
  BY <1>6 DEF IfaceRefreshV3, Idle
<1>7. CASE EnrollmentV2
  BY <1>7 DEF EnrollmentV2
<1>8. CASE RunSpfV2
  BY <1>8 DEF RunSpfV2, Idle, StartPush
<1>9. CASE SpfTickV3
  BY <1>9 DEF SpfTickV3, Idle, StartPush
<1>10. CASE Bulk
  BY <1>10 DEF Bulk, LastBulk, EndPush, Store
<1>11. CASE BulkFails
  BY <1>11 DEF BulkFails, EndPush
<1>12. CASE RetryFails
  BY <1>12 DEF RetryFails, EndPush
<1>13. CASE RibdStops
  BY <1>13 DEF RibdStops
<1>14. CASE RibdStarts
  BY <1>14 DEF RibdStarts
<1>15. CASE ConnectionBreaks
  BY <1>15 DEF ConnectionBreaks
<1>16. CASE ShutdownV2
  BY <1>16 DEF ShutdownV2, Idle, StartPush
<1>17. CASE ExitV3
  BY <1>17 DEF ExitV3
<1>18. CASE UNCHANGED vars
  BY <1>18 DEF vars
<1>. QED
  BY <1>1, <1>2, <1>3, <1>4, <1>5, <1>6, <1>7, <1>8, <1>9, <1>10, <1>11, <1>12,
     <1>13, <1>14, <1>15, <1>16, <1>17, <1>18 DEF Next

\* A connection is called live when a Bulk went through and stops being so with ribd.
LEMMA ConnectedStep ==
  ASSUME Connected, [Next]_vars
  PROVE  Connected'
<1>. USE DEF Connected, loopVars, pushVars, ribdVars
<1>1. CASE LsaV2
  BY <1>1 DEF LsaV2, Change, Idle
<1>2. CASE LsaV3
  BY <1>2 DEF LsaV3, Change, Idle
<1>3. CASE NeighborV2
  BY <1>3 DEF NeighborV2, Change, Idle
<1>4. CASE NeighborV3
  BY <1>4 DEF NeighborV3, Change, Idle, FullV3, ExpireV3
<1>5. CASE RouterLsaV3
  BY <1>5 DEF RouterLsaV3, Idle
<1>6. CASE IfaceRefreshV3
  BY <1>6 DEF IfaceRefreshV3, Idle
<1>7. CASE EnrollmentV2
  BY <1>7 DEF EnrollmentV2
<1>8. CASE RunSpfV2
  BY <1>8 DEF RunSpfV2, Idle, StartPush
<1>9. CASE SpfTickV3
  BY <1>9 DEF SpfTickV3, Idle, StartPush
<1>10. CASE Bulk
  BY <1>10 DEF Bulk, LastBulk, EndPush, Store
<1>11. CASE BulkFails
  BY <1>11 DEF BulkFails, EndPush
<1>12. CASE RetryFails
  BY <1>12 DEF RetryFails, EndPush
<1>13. CASE RibdStops
  BY <1>13 DEF RibdStops
<1>14. CASE RibdStarts
  BY <1>14 DEF RibdStarts
<1>15. CASE ConnectionBreaks
  BY <1>15 DEF ConnectionBreaks
<1>16. CASE ShutdownV2
  BY <1>16 DEF ShutdownV2, Idle, StartPush
<1>17. CASE ExitV3
  BY <1>17 DEF ExitV3
<1>18. CASE UNCHANGED vars
  BY <1>18 DEF vars
<1>. QED
  BY <1>1, <1>2, <1>3, <1>4, <1>5, <1>6, <1>7, <1>8, <1>9, <1>10, <1>11, <1>12,
     <1>13, <1>14, <1>15, <1>16, <1>17, <1>18 DEF Next

\* The parts are kept, so TypeOK is.
LEMMA TypedStep ==
  ASSUME TypeOK, [Next]_vars
  PROVE  TypeOK'
<1>1. ValuesOK /\ FlagsOK /\ Connected
  BY TypeParts
<1>2. ValuesOK' /\ FlagsOK' /\ Connected'
  BY <1>1, ValuesStep, FlagsStep, ConnectedStep
<1>. QED
  BY <1>2, Zenon DEF TypeOK, ValuesOK, FlagsOK, Connected

\* A push in progress has stored the Bulks already sent (push_v4, push_v6), and its end
\* leaves all four kinds as the run computed them.
LEMMA PushStep ==
  ASSUME ValuesOK, Pushing, PushedIsHeld, [Next]_vars
  PROVE  Pushing' /\ PushedIsHeld'
<1>. USE DEF ValuesOK, Pushing, PushedIsHeld, loopVars, pushVars, ribdVars
<1>1. CASE LsaV2
  BY <1>1 DEF LsaV2, Change, Idle
<1>2. CASE LsaV3
  BY <1>2 DEF LsaV3, Change, Idle
<1>3. CASE NeighborV2
  BY <1>3 DEF NeighborV2, Change, Idle
<1>4. CASE NeighborV3
  BY <1>4 DEF NeighborV3, Change, Idle, FullV3, ExpireV3
<1>5. CASE RouterLsaV3
  BY <1>5 DEF RouterLsaV3, Idle
<1>6. CASE IfaceRefreshV3
  BY <1>6 DEF IfaceRefreshV3, Idle
<1>7. CASE EnrollmentV2
  BY <1>7 DEF EnrollmentV2
<1>8. CASE RunSpfV2
  BY <1>8 DEF RunSpfV2, Idle, StartPush
<1>9. CASE SpfTickV3
  BY <1>9 DEF SpfTickV3, Idle, StartPush
<1>10. CASE Bulk
  <2>. USE <1>10 DEF Bulk, Store
  <2>1. DOMAIN held' = 1..4
    OBVIOUS
  <2>2. ASSUME NEW k \in 1..4
        PROVE  held'[k] = IF k = next THEN OfKind(batch, k) ELSE held[k]
    OBVIOUS
  <2>3. CASE LastBulk
    <3>1. next = 4 /\ next' = 0 /\ batch' = batch /\ lost' = lost
      BY <2>3 DEF LastBulk, EndPush
    <3>2. ~lost => \A k \in 1..4 : held'[k] = OfKind(batch, k)
      BY <3>1, <2>2
    <3>3. ~lost => held' = Split(batch)
      <4>. HAVE ~lost
      <4>1. held' = [k \in 1..4 |-> held'[k]]
        BY <2>1
      <4>. QED
        BY <4>1, <3>2, Zenon DEF Split
    <3>. QED
      BY <3>1, <3>3
  <2>4. CASE ~LastBulk
    <3>1. next' = next + 1 /\ batch' = batch /\ lost' = lost
      BY <2>4
    <3>. QED
      BY <3>1, <2>2
  <2>. QED
    BY <2>3, <2>4
<1>11. CASE BulkFails
  BY <1>11 DEF BulkFails, EndPush
<1>12. CASE RetryFails
  BY <1>12 DEF RetryFails, EndPush
<1>13. CASE RibdStops
  BY <1>13 DEF RibdStops
<1>14. CASE RibdStarts
  BY <1>14 DEF RibdStarts
<1>15. CASE ConnectionBreaks
  BY <1>15 DEF ConnectionBreaks
<1>16. CASE ShutdownV2
  BY <1>16 DEF ShutdownV2, Idle, StartPush
<1>17. CASE ExitV3
  BY <1>17 DEF ExitV3
<1>18. CASE UNCHANGED vars
  BY <1>18 DEF vars
<1>. QED
  BY <1>1, <1>2, <1>3, <1>4, <1>5, <1>6, <1>7, <1>8, <1>9, <1>10, <1>11, <1>12,
     <1>13, <1>14, <1>15, <1>16, <1>17, <1>18 DEF Next

\* Between two runs of version 3 the neighbors can only become fewer unless something
\* is marked: a neighbor that becomes Full marks the Router-LSA.
LEMMA UnmarkedStep ==
  ASSUME ValuesOK, Unmarked, [Next]_vars
  PROVE  Unmarked'
<1>. USE DEF ValuesOK, Unmarked, Marked, loopVars, pushVars, ribdVars
<1>1. CASE LsaV2
  BY <1>1 DEF LsaV2, Change, Idle
<1>2. CASE LsaV3
  BY <1>2 DEF LsaV3, Change, Idle
<1>3. CASE NeighborV2
  BY <1>3 DEF NeighborV2, Change, Idle
<1>4. CASE NeighborV3
  BY <1>4 DEF NeighborV3, Change, Idle, FullV3, ExpireV3
<1>5. CASE RouterLsaV3
  BY <1>5 DEF RouterLsaV3, Idle
<1>6. CASE IfaceRefreshV3
  BY <1>6 DEF IfaceRefreshV3, Idle
<1>7. CASE EnrollmentV2
  BY <1>7 DEF EnrollmentV2
<1>8. CASE RunSpfV2
  BY <1>8 DEF RunSpfV2, Idle, StartPush
<1>9. CASE SpfTickV3
  BY <1>9 DEF SpfTickV3, Idle, StartPush, Current
<1>10. CASE Bulk
  BY <1>10 DEF Bulk, LastBulk, EndPush, Store
<1>11. CASE BulkFails
  BY <1>11 DEF BulkFails, EndPush
<1>12. CASE RetryFails
  BY <1>12 DEF RetryFails, EndPush
<1>13. CASE RibdStops
  BY <1>13 DEF RibdStops
<1>14. CASE RibdStarts
  BY <1>14 DEF RibdStarts
<1>15. CASE ConnectionBreaks
  BY <1>15 DEF ConnectionBreaks
<1>16. CASE ShutdownV2
  BY <1>16 DEF ShutdownV2, Idle, StartPush
<1>17. CASE ExitV3
  BY <1>17 DEF ExitV3
<1>18. CASE UNCHANGED vars
  BY <1>18 DEF vars
<1>. QED
  BY <1>1, <1>2, <1>3, <1>4, <1>5, <1>6, <1>7, <1>8, <1>9, <1>10, <1>11, <1>12,
     <1>13, <1>14, <1>15, <1>16, <1>17, <1>18 DEF Next

\* Without a mark the same number of neighbors means the same neighbors.
LEMMA UnmarkedSuffices == ValuesOK /\ Unmarked => ChangeIsNoticed
<1>. SUFFICES ASSUME ValuesOK, Unmarked, ver = "v3", Idle, ~Marked,
                     Cardinality(nbrs) = lastCount
              PROVE  Current = batch
  BY Zenon DEF ChangeIsNoticed, Marked
<1>1. PICK L \in SUBSET Neighbors :
        Cardinality(L) = lastCount /\ nbrs \subseteq L /\ batch = RoutesOf(db, L)
  BY Zenon DEF Unmarked, Idle
<1>2. nbrs = L
  BY <1>1, SameNumberSameSet
<1>. QED
  BY <1>1, <1>2 DEF Current

\* The inductive invariant holds when the daemon starts.
LEMMA InitInv == Init => IInv
<1>. SUFFICES ASSUME Init PROVE IInv
  OBVIOUS
<1>1. TypeOK
  BY InitTyped
<1>2. Pushing /\ PushedIsHeld
  BY DEF Init, Pushing, PushedIsHeld
<1>3. Unmarked
  BY DEF Init, Unmarked, Marked
<1>. QED
  BY <1>1, <1>2, <1>3 DEF IInv

\* Every step of the instance, of ribd and of the connection keeps it.
LEMMA NextInv == IInv /\ [Next]_vars => IInv'
<1>. SUFFICES ASSUME IInv, [Next]_vars PROVE IInv'
  OBVIOUS
<1>1. TypeOK /\ ValuesOK /\ Pushing /\ PushedIsHeld /\ Unmarked
  BY TypeParts DEF IInv
<1>2. TypeOK' /\ Pushing' /\ PushedIsHeld' /\ Unmarked'
  BY <1>1, TypedStep, PushStep, UnmarkedStep
<1>. QED
  BY <1>2 DEF IInv

\* It holds in every reachable state.
LEMMA Inductive == Spec => []IInv
BY InitInv, NextInv, PTL DEF Spec

\* Every reachable state is well typed, and a live connection has a ribd at its end.
THEOREM TypeCorrect == Spec => []TypeOK
<1>1. IInv => TypeOK
  BY DEF IInv
<1>. QED
  BY <1>1, Inductive, PTL

\* Whatever failed pushes left behind, one that succeeds leaves ribd with the routes of
\* its SPF run and no others, unless ribd restarted meanwhile (push_v4, push_v6).
THEOREM PushHolds == Spec => []PushedIsHeld
<1>1. IInv => PushedIsHeld
  BY DEF IInv
<1>. QED
  BY <1>1, Inductive, PTL

\* The comparison of a generation and of a number in the spf_tick arm of daemon_v3.rs
\* misses no change of the routes.
THEOREM NoChangeIsMissed == Spec => []ChangeIsNoticed
<1>1. IInv => ChangeIsNoticed
  BY UnmarkedSuffices, TypeParts DEF IInv
<1>. QED
  BY <1>1, Inductive, PTL
=============================================================================
