\* Command lines of up to three arguments, seven of them executed with a battery
\* of one test on two threads, under fair scheduling.
CONSTANTS
  main = main
  w1 = w1
  w2 = w2
  Main <- MCMain
  Workers <- MCWorkers
  Names = {"ops.txt", "gone.txt", "a_test"}
  Tests = {"t1"}
  TestOutcomes = {"pass", "error"}
  TestNames = {"a_test"}
  Paths = {"ops.txt"}
  CommandLines <- MCCommandLines
  Executed <- MCExecuted
  MaxItems = 14
SPECIFICATION FairSpec
INVARIANTS
  ParsesTheGrammar
  NothingIsRefused
  BatteryIsBracketed
  AnnouncedDetailIsWritten
  ResultsAreShown
PROPERTY ProgramEnds
