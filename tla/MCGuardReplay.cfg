SPECIFICATION Spec
CONSTANTS
  Hosts = {h1, h2}
  Records <- MCRecords
  NoText = ""
  MaxReturned = 2
SYMMETRY Symmetry
INVARIANTS
  FreshAtMostOnce
PROPERTIES
  ImplementsClaimStore
CHECK_DEADLOCK FALSE
