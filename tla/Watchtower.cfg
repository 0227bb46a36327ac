SPECIFICATION Spec
CONSTANTS
  Admins = {a1}
  Requests = {"/long", "/close", "main", "trade_start", "trade_close", "trade_stop", "sys_on", "sys_off", "sys_restart", "confirm_yes", "confirm_no", "/systemon", "/systemoff"}
  MaxUpdates = 3
  MaxPosition = 2
  MaxKills = 1
INVARIANTS
  ButtonsAreBound
PROPERTIES
  RepeatedByLossOnly
  UpdatesAreConfirmed
CHECK_DEADLOCK FALSE
