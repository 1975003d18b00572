SPECIFICATION Spec
CONSTANTS
  Packages <- MCPackages
  Cwd = "cwd"
  Concurrency = 2
  None = None
  Setups <- MCSetups
INVARIANTS
  NeverMakesItsAncestor
  CompleteAtExit
  PrefixOfRoot
PROPERTIES
  Terminates
\* The process ends.
CHECK_DEADLOCK FALSE
