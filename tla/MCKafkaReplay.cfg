CONSTANTS
  Sessions <- MCSessions
  MlModes = {TRUE, FALSE}
  QueueLimit = 2
  MaxEmpty = 2
  Floor = 1
  Faults = {"produce", "health", "score", "astray", "duplicate", "consume"}
SPECIFICATION FairSpec
INVARIANTS
  
  ReadIsWhatWasWritten
  CapacityNeverBinds
PROPERTY ReplayEnds
CHECK_DEADLOCK FALSE
