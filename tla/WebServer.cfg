\* Two workers; one client sends its request in pieces and may leave, the other
\* only connects.  A socket's buffers hold one unit.
SPECIFICATION FairSpec
CONSTANTS
  w1 = w1  w2 = w2  c1 = c1  c2 = c2
  Workers <- TwoWorkers
  Clients <- TwoClients
  Pieces <- OneRequest
  Leavers = {c1}
  None = None
  Listen = Listen
  MaxEvents = 2
  Cap = 1
  Full = 2
  HeaderSize = 2
  ErrorSize = 1
  Sizes <- EmptyOrTwo
  Requests = {"file"}
  Faults = {"accept", "create", "register", "input", "prepare", "resize"}
  MaxFaults = 1
INVARIANTS
  AnswerIntact
  NoLostEvent
  NoDanglingEvent
  ClosedWhenDone
PROPERTIES
  Answered
\* The clients end.
CHECK_DEADLOCK FALSE
