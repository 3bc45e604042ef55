SPECIFICATION Spec
CONSTANTS
  Sessions = {s1, s2}
  Keys = {photo, shard}
  Chunks = {shard}
  Tags = {t1, t2}
  Sizes = {2}
  NoTag = NoTag
  MaxRequests = 3
  Budget <- AnyHazard
INVARIANTS
  WholeFiles
  TagMatchesFile
  TmpOwned
  Sound
SYMMETRY Alike
\* A behaviour ends when MaxRequests commands have been answered.
CHECK_DEADLOCK FALSE
