\* Two configurations, either of which may be missing, whose programs write more
\* than a pipe holds.
CONSTANTS
  NumConfigs = 2
  Chunks = 2
  Capacity = 1
SPECIFICATION FairSpec
INVARIANTS
  LogIsComplete
  StreamsAreWhole
PROPERTY RunEnds
