SPECIFICATION Spec
CONSTANTS
  None = None
  Assets = {a1, a2}
  MaxBar = 3
  MaxLot = 1
  WarmBars = 1
  MaxShadowCount = 1
  MaxCrashes = 2
SYMMETRY Symmetry
CHECK_DEADLOCK FALSE
INVARIANTS
  NextBarExecution
  SalesCovered
  JournalBacksState
  CrashDamageBounded
  CycleIsAtomic
  GapsKnown
PROPERTIES
  OneCyclePerCandle
  BlockIsDurable
