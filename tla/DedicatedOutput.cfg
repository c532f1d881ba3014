\* Two producers, the console and the file by proxy and directly, a pause, a
\* restart and a second pause, under fair scheduling.
CONSTANTS
  p1 = p1
  p2 = p2
  Producers = {p1, p2}
  Routes = {"cout_proxy", "file_out_proxy", "enqueue_file_output"}
  MaxItems = 1
  MaxRestarts = 1
SPECIFICATION FairSpec
INVARIANTS
  TypeOK
  Conservation
  PausedMeansDrained
  NoStrandedItem
  LossIsLastOfItsThread
PROPERTIES
  ImplementsSink
  DeliversLikeSink
  PauseFromBacklogReturns
