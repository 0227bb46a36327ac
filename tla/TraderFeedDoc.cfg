SPECIFICATION Spec
CONSTANTS
  FailureThreshold = 3
  SuccessThreshold = 2
  TimeoutDuration = 1
  CountCap = 3
  MaxDailyTrades = 2
  TradeGap = 2
  StopLossPct = 2
  TakeProfitPct = 5
  Window = 2
  Prices = {90, 110}
  Inherited = {0}
  FaultKinds = {}
  MaxPosition = 1
  MaxFaults = 0
  MaxRestarts = 0
  MaxDays = 0
  MaxManualOrders = 0
INVARIANTS
  FeedsOriginalAction
