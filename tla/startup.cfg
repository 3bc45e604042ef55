SPECIFICATION Spec
CONSTANTS
  HostSets <- Names
  Lifetime = 3
  Margin = 1
  CaLifetime = 3
  MaxClock = 3
  MaxStarts = 4
  MaxIds = 8
  Budget = 2
INVARIANTS
  TypeOK
  ComesUpFresh
  TrustHolds
  TokenKept
PROPERTIES
  ComesUp
\* A behaviour ends when MaxStarts starts have been made.
CHECK_DEADLOCK FALSE
