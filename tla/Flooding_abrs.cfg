SPECIFICATION FairSpec
CONSTANTS
  Routers <- Three
  Links <- ThreeLinks
  NoLink = NoLink
  Areas <- TwoAreas
  Networks <- TwoAbrsV3
  Renewals <- Once
  SeqWidth = 4
CHECK_DEADLOCK FALSE
PROPERTY FloodingEnds
