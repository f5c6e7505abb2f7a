SPECIFICATION Spec
CONSTANTS
  Chapters = {1, 2}
  Users = {u1}
  Base = Base
  Workers = {w1, w2}
  Unready = {2}
  MaxBatch = 2
  Limit = 2
  Forced = {TRUE}
  MaxJobs = 2
  Edits = 1
  Faults = 1
CHECK_DEADLOCK FALSE
INVARIANTS
  ManifestDescribesAudio
  
  OnlyForcedWorkIsRepeated
  
