SPECIFICATION Spec
CONSTANTS
  NoLsa = NoLsa
  MinSeq <- MCMinSeq
  MaxSeq = 16
  MaxAge = 5
  MaxAgeDiff = 1
  Bodies <- MCBodies
  Checksum <- MCChecksum
  RefreshTime = 2
  U16Mod = 7
  Redistribute = TRUE
  Changes = 2
  News = 2
INVARIANT TypeOK
INVARIANT PeerHoldsRouterLsa
INVARIANT ConnectedSurvives
