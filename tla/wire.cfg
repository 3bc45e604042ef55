SPECIFICATION Spec
CONSTANTS
  Conns = {c1, c2}
  None = None
  Scripts <- Programs
  Room = 1
  Backlog = 1
  BodySize = 3
  Longest = 5
  Budget = 1
INVARIANTS
  TypeOK
  RepliesMatch
  AckedWasDone
  NoMutualBlock
  MutexHolderCanSend
PROPERTIES
  ClientsEnd
\* A behaviour ends when every connection has.
CHECK_DEADLOCK FALSE
