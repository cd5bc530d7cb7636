SPECIFICATION Spec
CONSTANTS
  None = None
  Assets = {a1, a2}
  Configs = {c1, c2}
  Horizon = 1
  ReportHorizons = {2}
  MaxTime = 3
  MaxStarts = 2
  MaxReports = 1
SYMMETRY Symmetry
CHECK_DEADLOCK FALSE
INVARIANTS
  OneExperiment
  OneOutcome
  OutcomesStand
  NothingOverdue
PROPERTIES
  LedgerSpec
