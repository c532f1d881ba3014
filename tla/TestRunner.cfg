\* Two tests on three threads, run, reset and run again under fair scheduling,
\* with spurious wakeups of the wait in wait_join.  The main thread is left for
\* ever in wait_join when it waits too late, and the workers are when it joins
\* them with m_mutex in its hands, so the pool may really stop.
CONSTANTS
  NumTests = 2
  MaxThreads = 3
  Outcomes = {"pass", "fail", "error"}
  SpuriousWakeups = TRUE
  SpawnMayFail = TRUE
  MaxRuns = 2
SPECIFICATION FairSpec
CHECK_DEADLOCK FALSE
INVARIANTS
  RunningCountsLiveThreads
  LastThreadNotifies
  ExecuteReturnsStarted
  FailedExecuteHangs
  DestroyedIsQuiet
PROPERTIES
  ImplementsBattery
  EveryTestIsRun
  WaitInTimeReturns
