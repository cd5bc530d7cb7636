SPECIFICATION Spec
CONSTANTS
  Prices = {1, 2, 3}
  Cash = 12
  MaxBars = 6
  MaxAsset = 60
  MaxExposure = 80
  MaxNotional = 100000
  MaxDrawdown = 20
  Slip = 10
  Fee = 10
CHECK_DEADLOCK FALSE
INVARIANTS
  NoLookAhead
