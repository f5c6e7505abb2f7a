CONSTANTS
  Hosts = {h1, h2}
  Jobs = {j1}
  Works = {translate}
  Batches = {1, 2}
  Backends = {"agy", "openai_codex"}
  Nobody = nobody
  MaxRuns = 2
  MaxAttempts = 2
  MaxFaults = 1
  MaxChanges = 1
SPECIFICATION Spec
INVARIANTS
  OneProviderProcess
  
PROPERTIES
  CancelStopsTheProvider
CHECK_DEADLOCK FALSE
