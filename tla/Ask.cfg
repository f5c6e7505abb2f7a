CONSTANTS
  ChunkIds = {1, 2}
  Facts = {3}
  ChapOf <- MCChapOf
  Ceilings = {1, 2}
  Requests = {r1, r2}
  Web = web
  Procs = {web}
  NoRow = noRow
  None = None
  MaxText = 2
  MaxIterations = 1
  MaxCalls = 2
  EvidenceTokens = 1
  DigestTokens = 1
  PrefixSize = 1
SPECIFICATION AskSpec
INVARIANTS
  
  CachedIsGrounded
  LockIsAttended
