\* One test on two threads, which may end with an exception of another type.
CONSTANTS
  NumTests = 1
  MaxThreads = 2
  Outcomes = {"pass", "fail", "error"}
  SpuriousWakeups = FALSE
  SpawnMayFail = FALSE
  MaxRuns = 1
SPECIFICATION Spec
CHECK_DEADLOCK FALSE
INVARIANT NoFailureMeansAllPassed
