SPECIFICATION Spec
CONSTANTS
  Loops = {l1, l2}
  Requests = {r1, r2}
  Nobody = Nobody
  OrderSize = 2
  MaxSize = 4
INVARIANTS
  PositionIsNet
  OneLoop
PROPERTIES
  TradingStops
