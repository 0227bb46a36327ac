SPECIFICATION Spec
CONSTANTS
  FailureThreshold = 3
  SuccessThreshold = 2
  TimeoutDuration = 1
  CountCap = 3
  MaxDailyTrades = 2
  TradeGap = 2
  StopLossPct = 2
  TakeProfitPct = 5
  Window = 2
  Prices = {90, 110}
  Inherited <- EitherWay
  FaultKinds = {"position", "refused", "lost_ack"}
  MaxPosition = 3
  MaxFaults = 2
  MaxRestarts = 1
  MaxDays = 1
  MaxManualOrders = 0
INVARIANTS
  DailyLimit
  CalendarLimit
  ClosedAreCounted
  OnePosition
  OpenTradeIsHeld
PROPERTIES
  EntrySpacing
