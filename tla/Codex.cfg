SPECIFICATION Spec
CONSTANTS
  N = 2
  Width = 2
  Entities = {e1, e2}
  Builders = {b1, b2}
  NoOne = NoOne
  MaxJobs = 2
  MaxRuns = 3
  MaxActs = 1
  MaxFaults = 1
  Ops = {"edit", "replace", "merge", "reset", "ask"}
SYMMETRY Symmetric
CHECK_DEADLOCK FALSE
INVARIANTS
  VectorIsOfItsText
  MemoryIsCurrent
  NoSpoilers
