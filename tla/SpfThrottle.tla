---------------------------- MODULE SpfThrottle ----------------------------
(***************************************************************************)
(* SPF throttling: OspfInstance::schedule_spf and run_spf                  *)
(* (src/src/instance.rs) and the two tasks that use them, the event loop   *)
(* run_v2_instance and enrollment_task (src/src/main.rs).                  *)
(*                                                                         *)
(* Instants are kept relative to now, in milliseconds or any unit:         *)
(* spf_last_run as the time that has passed since, spf_scheduled as the    *)
(* time that remains, 0 once it has come.  Nothing distinguishes elapsed   *)
(* times beyond the longest hold time, nor multipliers beyond MaxShift.    *)
(***************************************************************************)
EXTENDS Integers

CONSTANTS
    Delay,    \* spf_delay_ms
    HoldTime, \* spf_holdtime_ms
    MaxHold,  \* spf_max_holdtime_ms
    None      \* Option::None

ASSUME TimeAssumption ==
    /\ Delay \in Nat
    /\ HoldTime \in Nat
    /\ MaxHold \in Nat
    /\ None \notin Nat

VARIABLES
    last_run,   \* time since the last run, at most Horizon, or None
    scheduled,  \* time until the scheduled run, or None
    multiplier, \* spf_hold_multiplier
    armed,      \* time until the event loop's sleep ends, None: it waits for other arms
    asked       \* history: age of the oldest request not served yet, or None

vars == <<last_run, scheduled, multiplier, armed, asked>>

AtMost(a, b)  == IF a <= b THEN a ELSE b
AtLeast(a, b) == IF a >= b THEN a ELSE b

\* The longest time schedule_spf can ask to wait.
Horizon == AtLeast(Delay, MaxHold)

\* 1 << multiplier.min(10)
MaxShift == 10
Powers == <<1, 2, 4, 8, 16, 32, 64, 128, 256, 512, 1024>>

HoldNow == AtMost(HoldTime * Powers[multiplier + 1], MaxHold)

-----------------------------------------------------------------------------
(* schedule_spf, in two halves: the delay it computes, and the schedule.   *)

\* Mutant: the hold time is counted from now, not from the last run.
WaitForFullHold ==
    IF last_run = None \/ last_run >= HoldNow THEN Delay ELSE HoldNow + Delay

\* Mutant: the hold time never lengthens the wait.
WaitAtMostDelay ==
    IF last_run = None \/ last_run >= HoldNow THEN Delay
    ELSE AtMost(Delay, HoldNow - last_run)

Wait ==
    IF last_run = None \/ last_run >= HoldNow THEN Delay ELSE HoldNow - last_run

NextMultiplier ==
    IF last_run = None THEN multiplier
    ELSE IF last_run >= HoldNow THEN 0
    ELSE AtMost(multiplier + 1, MaxShift)

\* Mutant: a later request replaces the run that is already scheduled.
Replace(wait) == wait

\* A run that is already scheduled sooner stays.
Sooner(wait) == IF scheduled # None /\ scheduled <= wait THEN scheduled ELSE wait

ScheduleSpf ==
    /\ scheduled' = Sooner(Wait)
    /\ multiplier' = NextMultiplier
    /\ asked' = IF asked = None THEN 0 ELSE asked
    /\ UNCHANGED last_run

-----------------------------------------------------------------------------
(* The event loop.  Its SPF arm reads spf_due and sleeps until then; any   *)
(* other arm that completes drops that sleep and the loop reads it again.  *)

\* An arm of the loop asks for a run: process_packet, neighbor_check,
\* lsdb_tick, iface_refresh, SIGHUP.
ArmSchedules ==
    /\ ScheduleSpf
    /\ armed' = scheduled'

\* enrollment_task asks for a run while the loop sleeps on what it read.
TaskSchedules ==
    /\ ScheduleSpf
    /\ UNCHANGED armed

\* Mutant: the sleep outlives the iteration, so a schedule made meanwhile by
\* another task goes unread.
OtherArmKeepsSleep == UNCHANGED vars

\* Another arm completes (the 1 s intervals at the latest).
OtherArm ==
    /\ armed' = scheduled
    /\ UNCHANGED <<last_run, scheduled, multiplier, asked>>

\* The sleep is over: run_spf, whatever spf_scheduled is by now.
RunSpf ==
    /\ armed = 0
    /\ last_run' = 0
    /\ scheduled' = None
    /\ asked' = None
    /\ armed' = None
    /\ UNCHANGED multiplier

Passed(t)    == IF t = None THEN None ELSE AtMost(t + 1, Horizon)
Remaining(t) == IF t = None \/ t = 0 THEN t ELSE t - 1

\* Time passes.  A handler that holds the loop up may let an instant pass.
Tick ==
    /\ last_run' = Passed(last_run)
    /\ asked' = Passed(asked)
    /\ scheduled' = Remaining(scheduled)
    /\ armed' = Remaining(armed)
    /\ UNCHANGED multiplier

-----------------------------------------------------------------------------
\* build_v2_setup has scheduled the first run before the loop starts.
Init ==
    /\ last_run = None
    /\ scheduled = Delay
    /\ multiplier = 0
    /\ armed = Delay
    /\ asked = 0

Next == ArmSchedules \/ TaskSchedules \/ OtherArm \/ RunSpf \/ Tick

Spec == Init /\ [][Next]_vars

\* Time passes, the 1 s intervals keep completing, a sleep that is over is
\* noticed.
FairSpec == Spec /\ WF_vars(Tick) /\ WF_vars(OtherArm) /\ WF_vars(RunSpf)

-----------------------------------------------------------------------------
\* Times stay within the horizon, the multiplier within the shift.
TypeOK ==
    /\ last_run \in 0 .. Horizon \cup {None}
    /\ scheduled \in 0 .. Horizon \cup {None}
    /\ multiplier \in 0 .. MaxShift
    /\ armed \in 0 .. Horizon \cup {None}
    /\ asked \in 0 .. Horizon \cup {None}

\* Two runs are never closer than the initial hold time (or the maximum, if
\* that is smaller), however many requests arrive and whichever task makes
\* them: schedule_spf keeps the earlier of two schedules, and neither may
\* undercut the hold.
RunsAreSpaced ==
    [][scheduled # None /\ scheduled' = None =>
         last_run = None \/ last_run >= AtMost(HoldTime, MaxHold)]_vars

\* A request is promised a run no later than the larger of the delay and the
\* maximum hold time after it was made; later requests, which raise the
\* multiplier, do not push that run back.
RequestIsPromised ==
    scheduled # None /\ scheduled > 0 => asked + scheduled <= Horizon

\* The loop sleeps no longer than the schedule it will find, or it waits for
\* an arm to complete: a sleep never ends without a run being scheduled.
NoIdleRun == armed # None => scheduled # None /\ scheduled <= armed

\* Every request is followed by a run.
RequestIsServed == asked # None ~> asked = None
=============================================================================
