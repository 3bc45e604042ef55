SPECIFICATION Spec
CONSTANTS
  Names = {n1}
  Tags = {t1, t2}
  NoTag = NoTag
  Uploaders = {watch}
  Syncers = {watch}
  DataShards = 2
  ParityShards = 2
  MaxSeals = 2
  Budget <- OneOutage
PROPERTY LatestUploadWins
\* A behaviour ends when every upload has been made and nothing is pending.
CHECK_DEADLOCK FALSE
