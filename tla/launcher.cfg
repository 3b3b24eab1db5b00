CONSTANTS
  Rounds = 3
  Broken = {2}
  MayFail = {"fork", "report", "stop"}
SPECIFICATION FairSpec
INVARIANTS NobodyIsOrphaned RepeatsComeFromFailures
PROPERTY EndsUnlessMissed
CHECK_DEADLOCK FALSE
