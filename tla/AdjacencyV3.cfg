SPECIFICATION FairSpec
CONSTANTS
  alien = alien
  Foreign = alien
  RouterIds <- MCRouterIds
  StubArea = FALSE
  MaxHeaders = 1
  MaxSeq = 9
  ChanCap = 0
  Budgets <- EachFault
  Lossy <- LossyTypes
INVARIANT TypeOK
INVARIANT FullIsSynchronized
PROPERTY LinkComesUp
CHECK_DEADLOCK FALSE
