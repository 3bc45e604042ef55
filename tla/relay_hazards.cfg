SPECIFICATION Spec
CONSTANTS
  Names = {n1}
  Tags = {t1, t2}
  NoTag = NoTag
  Uploaders = {cli}
  Syncers = {autosync}
  DataShards = 1
  ParityShards = 1
  MaxSeals = 2
  Budget <- AnyHazard
INVARIANTS
  ReleasedOnlyAfterHeld
  ServerHoldsWholeStreams
  PendingIsRecoverable
  AckedNameRetrievable
  Standing
PROPERTY RemovedOnlyAfterHeld
SYMMETRY Contents
\* A behaviour ends when every upload has been made and nothing is pending.
CHECK_DEADLOCK FALSE
