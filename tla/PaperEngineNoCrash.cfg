SPECIFICATION FairSpec
CONSTANTS
  None = None
  Assets = {a1, a2}
  MaxBar = 3
  MaxLot = 1
  WarmBars = 2
  MaxShadowCount = 0
  MaxCrashes = 0
CHECK_DEADLOCK FALSE
PROPERTIES
  LedgerSpec
  PendingEventuallyEvaluated
