\* One test on two threads, which may end before wait_join waits.
CONSTANTS
  NumTests = 1
  MaxThreads = 2
  Outcomes = {"pass"}
  SpuriousWakeups = FALSE
  SpawnMayFail = FALSE
  MaxRuns = 1
SPECIFICATION FairSpec
CHECK_DEADLOCK FALSE
PROPERTY ExecuteAndWaitJoinReturns
