SPECIFICATION Spec
CONSTANTS
  Assets = {a1}
  MaxClock = 4
  MaxBreaks = 1
  MaxDeaths = 0
CHECK_DEADLOCK FALSE
PROPERTIES
  NoInferencePastGap
