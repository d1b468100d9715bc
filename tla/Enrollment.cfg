SPECIFICATION FairSpec
CONSTANTS
  m = m
  n = n
  a = a
  none = none
  Names <- MCNames
  Instances = {1, 2}
  Owner <- MCOwner
  Indices = {1, 2}
  Addrs = {a}
  NoAddr = none
  Configured = yaml
  VppStates <- MCVppStates
  Configs <- MCConfigs
  Boot <- MCBoot
  MaxEvents = 2
INVARIANT TypeOK
INVARIANT OneInterfacePerIndex
INVARIANT RouterLsaCurrent
PROPERTY FollowsVpp
CHECK_DEADLOCK FALSE
