SPECIFICATION Spec
CONSTANTS
  Packages <- MCPackages
  Describe <- MCDescribe
  MaxFiles = 3
  Concurrency = 1
  Here = Here
  File = File
  Setups <- MCSetups
  StackLimit = 9
  MaxRuns = 2
INVARIANTS
  CacheWhole
  LateThreadIsOverflow
  
  NestingBounded
PROPERTIES
  Ends
\* The program ends.
CHECK_DEADLOCK FALSE
