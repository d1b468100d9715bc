------------------------- MODULE SpfThrottleProofs -------------------------
(***************************************************************************)
(* Proofs about SpfThrottle, for every delay, hold time and maximum.       *)
(* RunsAreSpaced and RequestIsPromised are not inductive by themselves:    *)
(* the first needs that the elapsed and the remaining time together never  *)
(* undercut the hold (Spaced), the second that a request is on record      *)
(* exactly while a run is scheduled (Recorded).                            *)
(***************************************************************************)
EXTENDS SpfThrottle, TLAPS

Spaced ==
    scheduled # None /\ last_run # None =>
        last_run + scheduled >= AtMost(HoldTime, MaxHold)

Recorded == scheduled # None <=> asked # None

IInv ==
    /\ TypeOK
    /\ RequestIsPromised
    /\ NoIdleRun
    /\ Spaced
    /\ Recorded

\* The horizon is a time, and no hold exceeds it.
LEMMA HorizonBound ==
    /\ Horizon \in Nat
    /\ Delay <= Horizon
    /\ MaxHold <= Horizon
BY TimeAssumption DEF Horizon, AtLeast

\* 1 << multiplier.min(10) is a positive number.
LEMMA PowersPositive ==
    ASSUME NEW m \in 0 .. MaxShift
    PROVE  Powers[m + 1] \in Nat /\ Powers[m + 1] >= 1
<1>1. m \in {0, 1, 2, 3, 4, 5, 6, 7, 8, 9, 10}
  BY DEF MaxShift
<1>. QED
  BY <1>1 DEF Powers

\* Scaling a hold time by a positive number does not shorten it.
LEMMA ScaledHold ==
    ASSUME NEW h \in Nat, NEW p \in Nat, p >= 1
    PROVE  h * p \in Nat /\ h * p >= h
<1>1. PICK q \in Nat : p = q + 1
  <2>1. p - 1 \in Nat /\ p = (p - 1) + 1
    OBVIOUS
  <2>. QED
    BY <2>1
<1>2. h * q \in Nat
  OBVIOUS
<1>3. h * p = h * q + h
  BY <1>1
<1>. QED
  BY <1>2, <1>3

\* The hold time in force lies between the initial hold time, or the maximum
\* if that is smaller, and the maximum (schedule_spf, both min calls).
LEMMA HoldBounds ==
    ASSUME TypeOK
    PROVE  /\ HoldNow \in Nat
           /\ HoldNow <= MaxHold
           /\ HoldNow >= AtMost(HoldTime, MaxHold)
<1>1. Powers[multiplier + 1] \in Nat /\ Powers[multiplier + 1] >= 1
  BY PowersPositive DEF TypeOK
<1>2. /\ HoldTime * Powers[multiplier + 1] \in Nat
      /\ HoldTime * Powers[multiplier + 1] >= HoldTime
  BY <1>1, ScaledHold, TimeAssumption
<1>. DEFINE p == HoldTime * Powers[multiplier + 1]
<1>3. HoldNow = AtMost(p, MaxHold)
  BY DEF HoldNow
<1>4. p \in Nat /\ p >= HoldTime
  BY <1>2
<1>. HIDE DEF p
<1>. QED
  BY <1>3, <1>4, TimeAssumption DEF AtMost

\* What schedule_spf asks for: within the horizon, and not before the hold
\* has passed.
LEMMA WaitBounds ==
    ASSUME TypeOK
    PROVE  /\ Wait \in 0 .. Horizon
           /\ last_run # None => last_run + Wait >= AtMost(HoldTime, MaxHold)
BY HoldBounds, HorizonBound, TimeAssumption DEF Wait, TypeOK, AtMost

\* schedule_spf preserves the part of the invariant that does not concern
\* the event loop, and never postpones a run.
LEMMA ScheduleStep ==
    ASSUME IInv, ScheduleSpf
    PROVE  /\ scheduled' \in 0 .. Horizon
           /\ multiplier' \in 0 .. MaxShift
           /\ asked' \in 0 .. Horizon
           /\ last_run' = last_run
           /\ RequestIsPromised'
           /\ Spaced'
           /\ Recorded'
           /\ scheduled # None => scheduled' <= scheduled
<1>. USE DEF IInv
<1>1. /\ Wait \in 0 .. Horizon
      /\ last_run # None => last_run + Wait >= AtMost(HoldTime, MaxHold)
  BY WaitBounds
<1>2. scheduled' = Sooner(Wait)
  BY DEF ScheduleSpf
<1>3. /\ scheduled' \in 0 .. Horizon
      /\ scheduled' <= Wait
      /\ scheduled' = Wait \/ scheduled' = scheduled
      /\ scheduled # None => scheduled' <= scheduled
  BY <1>1, <1>2, HorizonBound, TimeAssumption DEF Sooner, TypeOK
<1>4. multiplier' \in 0 .. MaxShift
  BY DEF ScheduleSpf, NextMultiplier, AtMost, MaxShift, TypeOK
<1>5. /\ asked' \in 0 .. Horizon
      /\ asked' # None
      /\ asked # None => asked' = asked
      /\ asked = None => asked' = 0
  BY HorizonBound, TimeAssumption DEF ScheduleSpf, TypeOK
<1>6. last_run' = last_run
  BY DEF ScheduleSpf
<1>7. RequestIsPromised'
  <2>1. PICK s \in 0 .. Horizon : scheduled' = s
    BY <1>3
  <2>2. PICK a \in 0 .. Horizon : asked' = a
    BY <1>5
  <2>3. SUFFICES ASSUME s > 0
                 PROVE  a + s <= Horizon
    BY <2>1, <2>2 DEF RequestIsPromised
  <2>4. CASE asked = None
    BY <2>2, <2>4, <1>5, HorizonBound
  <2>5. CASE asked # None
    <3>1. scheduled # None /\ scheduled > 0 /\ s <= scheduled
      BY <2>1, <2>3, <2>5, <1>3, HorizonBound, TimeAssumption DEF Recorded, TypeOK
    <3>2. asked + scheduled <= Horizon
      BY <3>1 DEF RequestIsPromised
    <3>. QED
      BY <2>2, <2>5, <3>1, <3>2, <1>5, HorizonBound DEF TypeOK
  <2>. QED
    BY <2>4, <2>5
<1>8. Spaced'
  BY <1>1, <1>3, <1>6, TimeAssumption, HorizonBound DEF Spaced, TypeOK, AtMost
<1>9. Recorded'
  BY <1>3, <1>5, TimeAssumption, HorizonBound DEF Recorded
<1>. QED
  BY <1>3, <1>4, <1>5, <1>6, <1>7, <1>8, <1>9

\* The schedule setup_v2_instance makes satisfies the inductive invariant.
LEMMA InitIInv == Init => IInv
<1>. SUFFICES ASSUME Init PROVE IInv
  OBVIOUS
<1>1. Delay \in 0 .. Horizon /\ 0 \in 0 .. Horizon
  BY HorizonBound, TimeAssumption
<1>2. TypeOK
  BY <1>1 DEF Init, TypeOK, MaxShift
<1>. QED
  BY <1>1, <1>2, HorizonBound, TimeAssumption
     DEF Init, IInv, RequestIsPromised, NoIdleRun, Spaced, Recorded

\* Time passing: what remains shrinks by no more than what has passed grows,
\* until the elapsed time reaches the horizon.
LEMMA TickStep ==
    ASSUME IInv, Tick
    PROVE  IInv'
<1>. USE DEF IInv
<1>1. TypeOK'
  BY HorizonBound, TimeAssumption DEF Tick, TypeOK, Passed, Remaining, AtMost
<1>2. Recorded'
  BY HorizonBound, TimeAssumption DEF Tick, TypeOK, Passed, Remaining, AtMost, Recorded
<1>3. NoIdleRun'
  BY HorizonBound, TimeAssumption DEF Tick, TypeOK, Remaining, NoIdleRun
<1>4. RequestIsPromised'
  BY HorizonBound, TimeAssumption
     DEF Tick, TypeOK, Passed, Remaining, AtMost, RequestIsPromised, Recorded
<1>5. Spaced'
  <2>1. AtMost(HoldTime, MaxHold) \in Nat /\ AtMost(HoldTime, MaxHold) <= Horizon
    BY HorizonBound, TimeAssumption DEF AtMost
  <2>. QED
    BY <2>1, HorizonBound, TimeAssumption DEF Tick, TypeOK, Passed, Remaining, AtMost, Spaced
<1>. QED
  BY <1>1, <1>2, <1>3, <1>4, <1>5

\* Every arm of the event loop, enrollment_task and time preserve it.
LEMMA NextIInv == IInv /\ [Next]_vars => IInv'
<1>. SUFFICES ASSUME IInv, [Next]_vars PROVE IInv'
  OBVIOUS
<1>1. CASE ArmSchedules
  <2>1. ScheduleSpf /\ armed' = scheduled'
    BY <1>1 DEF ArmSchedules
  <2>2. NoIdleRun'
    BY <2>1, ScheduleStep, TimeAssumption, HorizonBound DEF NoIdleRun
  <2>. QED
    BY <2>1, <2>2, ScheduleStep DEF IInv, TypeOK
<1>2. CASE TaskSchedules
  <2>1. ScheduleSpf /\ armed' = armed
    BY <1>2 DEF TaskSchedules
  <2>2. NoIdleRun'
    BY <2>1, ScheduleStep, TimeAssumption, HorizonBound DEF IInv, NoIdleRun, TypeOK
  <2>. QED
    BY <2>1, <2>2, ScheduleStep DEF IInv, TypeOK
<1>3. CASE OtherArm
  BY <1>3, TimeAssumption, HorizonBound
     DEF OtherArm, IInv, TypeOK, RequestIsPromised, NoIdleRun, Spaced, Recorded
<1>4. CASE RunSpf
  BY <1>4, TimeAssumption, HorizonBound
     DEF RunSpf, IInv, TypeOK, RequestIsPromised, NoIdleRun, Spaced, Recorded
<1>5. CASE Tick
  BY <1>5, TickStep
<1>6. CASE UNCHANGED vars
  BY <1>6 DEF vars, IInv, TypeOK, RequestIsPromised, NoIdleRun, Spaced, Recorded
<1>. QED
  BY <1>1, <1>2, <1>3, <1>4, <1>5, <1>6 DEF Next

\* The inductive invariant holds in every reachable state.
THEOREM Invariance == Spec => []IInv
BY InitIInv, NextIInv, PTL DEF Spec

\* Every time the throttle stores stays within the larger of the delay and
\* the maximum hold time, whatever they are configured to.
THEOREM TypeCorrect == Spec => []TypeOK
BY Invariance, PTL DEF IInv

\* schedule_spf promises every request a run within the larger of the delay
\* and the maximum hold time, however many requests follow it.
THEOREM PromiseHolds == Spec => []RequestIsPromised
BY Invariance, PTL DEF IInv

\* The event loop's sleep never ends with nothing scheduled, although
\* enrollment_task changes the schedule behind its back.
THEOREM LoopSound == Spec => []NoIdleRun
BY Invariance, PTL DEF IInv

\* Two SPF runs are at least the initial hold time apart, or the maximum if
\* that is smaller.
THEOREM SpacingHolds == Spec => RunsAreSpaced
<1>1. IInv /\ [Next]_vars =>
        [scheduled # None /\ scheduled' = None =>
            last_run = None \/ last_run >= AtMost(HoldTime, MaxHold)]_vars
  <2>. SUFFICES ASSUME IInv, [Next]_vars, scheduled # None, scheduled' = None, last_run # None
                PROVE  last_run >= AtMost(HoldTime, MaxHold)
    OBVIOUS
  <2>1. CASE RunSpf
    <3>1. scheduled = 0
      BY <2>1, HorizonBound, TimeAssumption DEF RunSpf, IInv, NoIdleRun, TypeOK
    <3>. QED
      BY <3>1, HorizonBound, TimeAssumption DEF IInv, Spaced, TypeOK
  <2>2. CASE ScheduleSpf
    BY <2>2, ScheduleStep, HorizonBound, TimeAssumption
  <2>3. CASE Tick \/ OtherArm \/ UNCHANGED vars
    BY <2>3, HorizonBound, TimeAssumption
       DEF Tick, OtherArm, vars, Remaining, IInv, TypeOK
  <2>. QED
    BY <2>1, <2>2, <2>3 DEF Next, ArmSchedules, TaskSchedules
<1>. QED
  BY <1>1, Invariance, PTL DEF Spec, RunsAreSpaced
=============================================================================
