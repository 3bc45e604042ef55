SPECIFICATION FairSpec
CONSTANTS
  Sessions = {s1, s2, s3}
  Keys = {photo}
  Chunks = {}
  Tags = {t1, t2}
  Sizes = {1}
  NoTag = NoTag
  MaxRequests = 3
  Budget <- DropAndAccount
PROPERTIES
  ImplementsRegister
  LockIsGranted
\* A behaviour ends when MaxRequests commands have been answered.
CHECK_DEADLOCK FALSE
