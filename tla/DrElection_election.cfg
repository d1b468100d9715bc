SPECIFICATION Spec
CONSTANTS
  Routers <- Three
  Priority <- OneNever
  NoAddr = NoAddr
  Versions <- Both
  Budgets <- OneFault
INVARIANT TypeOK
INVARIANT SettledAgree
PROPERTY DrYieldsToDr
