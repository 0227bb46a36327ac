SPECIFICATION Spec
CONSTANTS
  Threads = {"main", "signal", "operator"}
  Types = {"start", "regime", "alert", "opened", "failed", "stop"}
  Handlers = {h1}
  NoThread = none
  MaxHistory = 2
  Touched = {"risk", "execution"}
  ValidateEvery = 1
  EvolveEvery = 2
  MaxPublished = 4
  MaxFaults = 1
  MaxOrders = 1
INVARIANTS OpenedIsFilled
PROPERTIES FailureLatches FillsAreChecked ShutdownEnds
CHECK_DEADLOCK FALSE
