SPECIFICATION FairSpec
CONSTANTS
  Routers <- Three
  Links <- ThreeLinks
  NoLink = NoLink
  Areas <- TwoAreas
  Networks <- Sound
  Renewals <- TwiceAndOnce
  SeqWidth = 4
CHECK_DEADLOCK FALSE
INVARIANT TypeOK
INVARIANT QuietMeansAgreed
PROPERTY FloodingEnds
