SPECIFICATION FairSpec
CONSTANTS
  FailureThreshold = 2
  SuccessThreshold = 1
  TimeoutDuration = 1
  CountCap = 2
  MaxDailyTrades = 1
  TradeGap = 1
  StopLossPct = 2
  TakeProfitPct = 5
  Window = 2
  Prices = {90, 110}
  Inherited = {0, 1}
  FaultKinds = {"position", "price", "outage", "refused", "lost_ack"}
  MaxPosition = 1
  MaxFaults = 1
  MaxRestarts = 1
  MaxDays = 0
  MaxManualOrders = 1
PROPERTIES
  SettledPriceIsActedUpon
  ReportIsSent
