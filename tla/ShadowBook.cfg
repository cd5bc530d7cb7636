SPECIFICATION Spec
CONSTANTS
  None = None
  a1 = a1
  a2 = a2
  b1 = b1
  b2 = b2
  b3 = b3
  Assets = {a1, a2}
  Books = {b1, b2, b3}
  AssetOf <- MCAssetOf
  KindOf <- MCKindOf
  MaxBar = 3
  MaxCrashes = 2
  MaxRefused = 1
CHECK_DEADLOCK FALSE
INVARIANTS
  TypeOK
  OrdersFitHolding
  JournalMeetsBook
  ExecutesAtNextCandle
