SPECIFICATION FairSpec
CONSTANTS
  Assets = {a1, a2}
  MaxClock = 4
  MaxBreaks = 2
  MaxDeaths = 1
CHECK_DEADLOCK FALSE
INVARIANTS
  FeedAccounted
  OnlyClosedCandles
  GapsAreOutages
  CaughtUp
PROPERTIES
  ReconcileFillsWindow
  HeardIsSettled
