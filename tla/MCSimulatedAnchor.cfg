SPECIFICATION Spec
CONSTANTS
  a = a
  b = b
  c = c
  mkt = mkt
  equity = equity
  fx = fx
  Accounts = {a, b, c, mkt}
  Owners = {a, c}
  NoOwner = NoOwner
  NoAccount = NoAccount
  Instruments = {equity}
  NoPrice = NoPrice
  Slow = 250
  DensityWindow = 1500
  MinMove = 100
  Saturation = 3
  BonusPercent = 15
  AlertPercent = 60
  CloseTime <- MCCloseTime
  WindowDuration = 15000
  ConcentrationPercent = 40
  MinAccountQty = 1
  MinTotalQty = 5
  Lookback = 100
  MinLarge = 10
  RatioPercent = 20
  Unit = 60
  ZScore = 3
  MinSamples = 5
  Synthetic = mkt
  TickSize <- MCTick
  SessionClose = 30000
  Independent = {c}
  LinkedPairs <- MCPairs
  Configs <- MCSpoof
CHECK_DEADLOCK FALSE
INVARIANT AnchorMoveIsSeen
