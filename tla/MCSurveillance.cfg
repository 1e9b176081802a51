SPECIFICATION Spec
CONSTANTS
  a = a
  b = b
  c = c
  d = d
  i1 = i1
  i2 = i2
  Accounts = {a, b, c, d}
  Owners = {"owner1", "owner2"}
  NoOwner = "none"
  NoAccount = NoAccount
  Instruments = {i1}
  NoPrice = NoPrice
  Slow = 4
  DensityWindow = 4
  MinMove = 1
  Saturation = 2
  BonusPercent = 15
  AlertPercent = 60
  CloseTime <- MCCloseTime
  WindowDuration = 8
  ConcentrationPercent = 60
  MinAccountQty = 2
  MinTotalQty = 4
  Lookback = 2
  MinLarge = 10
  RatioPercent = 20
  Unit = 60
  ZScore = 2
  MinSamples = 2
  Feeds <- MCFeeds
CHECK_DEADLOCK FALSE
INVARIANTS
  CountsMatchTracked
  TrackedMirrorsBooks
  SpoofingAlertsNameOneLifecycle
  SamplesAreRecent
  RelatedDealingsAreExact
  StatsAreExact
  VolumesAndGroupsAreExact
  OneAlertPerGroup
