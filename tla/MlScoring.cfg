CONSTANTS
  Keys = {j, k}
  Times = {1, 2, 4}
  Window = 1
  MinOrders = 2
  Every = 2
  Capacity = 2
  MaxEvents = 5
SPECIFICATION Spec
INVARIANTS
  EveryRequestAccounted
  FeaturesOfOneWindow
CHECK_DEADLOCK FALSE
