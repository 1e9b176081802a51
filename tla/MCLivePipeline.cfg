CONSTANTS
  Ids = {a, b}
  Qtys = {1, 2}
  Capacity = 2
  MaxEvents = 5
  KafkaOutcomes = {"ok", "error"}
SPECIFICATION Spec
INVARIANTS
  EveryEventAccounted
  DrainedWhenStopped
  
  
CHECK_DEADLOCK FALSE
