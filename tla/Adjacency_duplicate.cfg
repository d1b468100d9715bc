SPECIFICATION Spec
CONSTANTS
  alien = alien
  NoLsa = NoLsa
  MinSeq <- MCSeqMin
  MaxSeq = 6
  MaxAge = 3600
  MaxAgeDiff = 900
  Bodies <- MCBodies
  Checksum <- MCChecksum
  RouterIds <- MCRouterIds
  OtherKeys <- None
  ExtKeys <- None
  StubArea = FALSE
  MaxHeadersPerDd = 1
  MaxRequestsPerLsr = 1
  DdSeed = 1
  DdSeqMod = 4
  ChanCap <- CapOne
  Budgets <- ExpireAndDuplicate
INVARIANT FullIsSynchronized
