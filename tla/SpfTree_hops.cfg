SPECIFICATION Spec
CONSTANTS
  n1 = n1
  Routers <- MCRouters
  Me = 2
  Nets <- MCNets
  Graphs <- MCGraphs
  Unheard <- MCUnheard
  StubMetric <- MCStubMetric
  Summaries <- MCSummaries
  Externals <- MCExternals
  Unreached = 99
CHECK_DEADLOCK FALSE
INVARIANT HopsLieOnShortestPaths
