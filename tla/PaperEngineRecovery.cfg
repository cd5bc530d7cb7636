SPECIFICATION Spec
CONSTANTS
  None = None
  Assets = {a1}
  MaxBar = 3
  MaxLot = 1
  WarmBars = 1
  MaxShadowCount = 1
  MaxCrashes = 1
CHECK_DEADLOCK FALSE
INVARIANTS
  RecoveryReconciles
