SPECIFICATION Spec
CONSTANTS
  Routers <- Three
  Priority <- HigherLast
  NoAddr = NoAddr
  Versions <- OnlyV2
  Budgets <- LastDown
INVARIANT SettledHasDr
