SPECIFICATION Spec
CONSTANTS
  Sessions = {s1, s2}
  Keys = {photo}
  Chunks = {}
  Tags = {t1, t2}
  Sizes = {1, 2}
  NoTag = NoTag
  MaxRequests = 3
  Budget <- NoHazards
INVARIANT GetIsWhole
\* A behaviour ends when MaxRequests commands have been answered.
CHECK_DEADLOCK FALSE
