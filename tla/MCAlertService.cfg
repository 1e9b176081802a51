SPECIFICATION ServiceSpec
CONSTANTS
  Alerts <- MCAlerts
  Statuses = {"OPEN", "CLOSED"}
  None = None
  consumer = consumer
  worker = worker
  desk1 = desk1
  desk2 = desk2
  Writers = {consumer, worker}
  Clients = {desk1, desk2}
  Tab = tab
  Bounds <- MCBounds
  Filters <- MCFilters
  PageSize = 1
  Unparsable = Unparsable
INVARIANTS
  EveryAlertAccounted
  AnswersShowTheTable
  WalkMissesNothing
  ErrorsHaveACause
PROPERTY EveryRequestIsAnswered
CHECK_DEADLOCK FALSE
