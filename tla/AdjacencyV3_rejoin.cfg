SPECIFICATION Spec
CONSTANTS
  alien = alien
  Foreign = alien
  RouterIds <- MCRouterIds
  StubArea = FALSE
  MaxHeaders = 1
  MaxSeq = 9
  ChanCap = 0
  Budgets <- ExpireAndLearn
  Lossy <- LossyTypes
INVARIANT RejoinedIsSynchronized
CHECK_DEADLOCK FALSE
