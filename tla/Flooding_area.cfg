SPECIFICATION FairSpec
CONSTANTS
  Routers <- Three
  Links <- ThreeLinks
  NoLink = NoLink
  Areas <- TwoAreas
  Networks <- TwoAreasV2
  Renewals <- Once
  SeqWidth = 4
CHECK_DEADLOCK FALSE
INVARIANT AreaScope
