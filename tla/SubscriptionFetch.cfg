SPECIFICATION FetchSpec
CONSTANTS
  a = a b = b
  Order <- MCOrder
  Workers = 2
  Fatal = {a}
  Slots = 1
  Hops = 2
INVARIANTS DeadlineCutsConnections SlotsAreConserved
PROPERTY ImplementsPool
CHECK_DEADLOCK FALSE
