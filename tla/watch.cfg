SPECIFICATION Spec
CONSTANTS
  Names = {f1, f2}
  MaxEdits = 2
  Budget = 3
INVARIANTS
  TypeOK
  RecordedWasUploaded
  DownloadIsNewest
PROPERTIES
  EditsAreStored
\* Next always has a step: the watcher can be started or goes on.
