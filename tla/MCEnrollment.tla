---------------------------- MODULE MCEnrollment ----------------------------
(* Two interfaces of two instances, and two indices: one is reused soon.      *)
EXTENDS Enrollment, TLC

CONSTANTS m, n, a, none

MCNames == {m, n}
MCOwner == m :> 1 @@ n :> 2
MCSettings(cost, passive, timers) ==
  [x \in MCNames |-> [cost |-> cost, passive |-> passive, timers |-> timers]]
MCBoot == [set |-> MCSettings(1, FALSE, 1), redist |-> {}]
MCConfigs == {MCBoot, [set |-> MCSettings(2, FALSE, 1), redist |-> {}],
              [set |-> MCSettings(1, TRUE, 2), redist |-> {"connected"}]}
MCVppStates == {[up |-> TRUE, addr |-> a], [up |-> FALSE, addr |-> a], [up |-> TRUE, addr |-> none]}
=============================================================================
