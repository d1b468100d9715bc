SPECIFICATION Spec
CONSTANTS
  alien = alien
  NoLsa = NoLsa
  MinSeq <- MCSeqMin
  MaxSeq = 6
  MaxAge = 3600
  MaxAgeDiff = 900
  Bodies <- MCBodies
  Checksum <- MCChecksum
  RouterIds <- MCRouterIds
  OtherKeys <- Two
  ExtKeys <- None
  StubArea = FALSE
  MaxHeadersPerDd = 1
  MaxRequestsPerLsr = 1
  DdSeed = 2
  DdSeqMod = 4
  ChanCap <- CapOne
  Budgets <- Quiet
INVARIANT FullIsAdvertised
