SPECIFICATION FairSpec
CONSTANTS
  Main = Main
  NoThread = NoThread
  Fuzzers = {f1, f2}
  Iterations = 1
  MaxArgs = 3
  MaxSinks = 2
  MaxDrops = 1
INVARIANTS
  RecordsUnbroken
  OwnBacktrace
  FatalIsNewest
  NothingLost
PROPERTY Terminates
\* The program ends.
CHECK_DEADLOCK FALSE
