CONSTANTS
  Sessions <- MCSessions
  MlModes = {TRUE, FALSE}
  QueueLimit = 2
  MaxEmpty = 2
  Floor = 1
  Faults = {"consume"}
SPECIFICATION Spec
INVARIANT NoThreadIsDestroyedJoinable
CHECK_DEADLOCK FALSE
