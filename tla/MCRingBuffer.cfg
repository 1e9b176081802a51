CONSTANTS
  Capacity = 4
  MaxPush = 9
  NoItem = NoItem
SPECIFICATION FairSpec
INVARIANTS
  TypeOK
  SlotExclusive
  Accounting
  DeliveredInOrder
PROPERTIES
  ImplementsDropOldestQueue
  EmptyPopMeansEmpty
  PushReturns
