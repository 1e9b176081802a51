CONSTANTS
  Ids = {a, b, c}
  Prices = {p1, p2}
  Qtys = {1, 2}
  Nodes = {n1, n2, n3, n4}
  MaxEvents = 5
  NoEntry = NoEntry
  FreshIds = TRUE
SPECIFICATION Spec
INVARIANTS
  IndexMatchesQueues
PROPERTIES
  
  ImplementsPriceTimeBook
SYMMETRY Symmetry
