SPECIFICATION Spec
CONSTANTS
  Threads <- MCThreads
  Calls <- MCCalls
  Published <- MCPublished
  NameIn <- MCNameIn
  Declared <- MCDeclared
  Retries = 2
  MaxKills = 1
  MaxShort = 1
  None = None
INVARIANTS
  ManifestsWhole
  HitMatchesSlug
PROPERTIES
  CallsEnd
\* The threads end.
CHECK_DEADLOCK FALSE
