SPECIFICATION FairSpec
CONSTANTS
  Conns = {c1, c2}
  MaxClients = 2
  None = None
  Paths <- MCPaths
  Files <- MCFiles
  Links <- MCLinks
  LinkTo <- MCLinkTo
  Names <- MCNames
  Socks <- MCSocks
  Texts <- MCTexts
  MaxEvents = 3
  MaxRuns = 1
INVARIANTS
  KeepsItsSlot
  SameNews
  NewsAboutOneFile
PROPERTIES
  Answered
  RemovalEnds
\* The last server ends.
CHECK_DEADLOCK FALSE
