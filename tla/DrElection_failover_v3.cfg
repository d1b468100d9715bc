SPECIFICATION Spec
CONSTANTS
  Routers <- Three
  Priority <- HigherLast
  NoAddr = NoAddr
  Versions <- OnlyV3
  Budgets <- LastDown
INVARIANT SettledHasDr
