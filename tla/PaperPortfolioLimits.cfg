SPECIFICATION Spec
CONSTANTS
  None = None
  Assets = {a1, a2}
  Prices = {1, 2, 4}
  Cash = 8
  MaxCandles = 8
  MaxAsset = 25
  MaxExposure = 60
  MaxNotional = 80000
  MaxDrawdown = 15
  Slip = 10
  Fee = 10
SYMMETRY Symmetry
CHECK_DEADLOCK FALSE
PROPERTIES
  FrozenLimits
