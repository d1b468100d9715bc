SPECIFICATION FairSpec
CONSTANTS
  Delay = 1
  HoldTime = 2
  MaxHold = 11
  None = None
INVARIANT TypeOK
INVARIANT RequestIsPromised
PROPERTY RunsAreSpaced
PROPERTY RequestIsServed
