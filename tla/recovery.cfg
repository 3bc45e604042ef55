SPECIFICATION Spec
CONSTANTS
  BlockSize = 2
  MaxSize = 3
  Masks <- Basis
  Budget = 1
INVARIANTS
  RoundTrip
  RecoveredUnlessLost
  NoHalfFile
\* A behaviour ends when the file is opened or given up.
CHECK_DEADLOCK FALSE
