SPECIFICATION FairSpec
CONSTANTS
  j1 = j1
  j2 = j2
  k1 = k1
  k2 = k2
  NoWorker = NoWorker
  NoJob = NoJob
  Keys = {k1, k2}
  Limit <- Limits
  Jobs = {j1, j2}
  Workers = {a1, a2}
  SubWorkers = {}
  Clients = {c1, c2}
  Request <- ApiTwins
  ApiMaxAttempts = 2
  SubMaxAttempts = 2
  SubActiveLimit = 1
  Faults = {"crash", "webcrash", "dberror", "stall"}
  MaxFaults = 2
  MaxClaims = 3
CHECK_DEADLOCK FALSE
INVARIANTS
  SettlementIsExact
  LedgerBalances
  OneActiveJobPerKey
PROPERTIES
  TerminalIsFinal
  EveryJobEnds
