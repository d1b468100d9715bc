SPECIFICATION FairSpec
CONSTANTS
  a = a
  b = b
  p = p
  q = q
  Neighbors = {a, b}
  Databases = {0, 1, 2}
  RoutesOf <- MCRoutesOf
  MaxChanges = 4
  MaxFaults = 2
INVARIANT TypeOK
INVARIANT PushedIsHeld
INVARIANT ChangeIsNoticed
PROPERTY Converges
CHECK_DEADLOCK FALSE
