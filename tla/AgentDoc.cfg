SPECIFICATION ModelsSpec
CONSTANTS
  TickPrices = {1, 2, 3}
  fast_window = 1
  slow_window = 2
  period = 2
  RegimeWindow = 2
  VoteSamples = 2
  StateWindow = 3
  maxlen = 4
  min_samples = 2
  MaxRetrains = 2
  MaxUnread = 2
  MaxDowns = 2
  Outcomes <- SomeOutcomes
  performance = 3
  min_performance = 2
  Enough = 1
  ValidateEvery = 2
  EvolveEvery = 4
  population_size = 3
  elite_count = 1
  MinTrades = 1
  MaxTrades = 5
  MaxGenerations = 2
  FillPrices = {6, 12}
  Sizes = {1, 2}
  MaxFills = 4
  fixed_size = 2
  MaxResting = 2
  MaxPosition = 4
  Operators = {t1, t2}
  Askers = {t3}
  Stops <- TwoStops
  Publishers = {t1, t2}
  Streams = {"market_data", "trades"}
  Cooldown = 2
  MaxClock = 4
  Requesters = {t1, t2}
  Minute = 2
  Hour = 5
  PerMinute = 2
  PerHour = 3
  MaxWait = 1
  MaxTime = 7
PROPERTIES SignalsAreValidated
CHECK_DEADLOCK FALSE
