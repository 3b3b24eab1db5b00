CONSTANTS
  Rounds = 3
  Publishers = 2
  MayFail = {"fork", "pthread_create"}
SPECIFICATION FairSpec
INVARIANTS FirstIsServed ServedUnlessRobbed OnlyServerForks
PROPERTY EndsUnlessRobbed
CHECK_DEADLOCK FALSE
