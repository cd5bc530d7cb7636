SPECIFICATION Spec
CONSTANTS
  None = None
  NoStudy = NoStudy
  NoVersion = NoVersion
  MaxBar = 7
  Histories <- MCHistories
  Intervals <- MCIntervals
  Limit = 2
  Attempts = 3
  MaxAsks = 1
  Horizons = {1, 2}
  Embargoes = {0, 1}
  TrainSizes = {1}
  ValidationSizes = {1, 2}
  Steps = {1}
  FoldLimits = {9}
  HoldoutPercent = 20
  ValidationPercent = 20
  MinValidation = 1
  MaxIncomplete = 2
  Versions = {v1}
CHECK_DEADLOCK FALSE
INVARIANTS
  TypeOK
  FetchIsExact
  Purged
  SealHolds
PROPERTIES
  RegistryStands
  FetchTerminates
