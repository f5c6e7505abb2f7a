SPECIFICATION Spec
CONSTANTS
  j1 = j1
  j2 = j2
  k1 = k1
  k2 = k2
  NoWorker = NoWorker
  NoJob = NoJob
  Keys = {k1, k2}
  Limit <- Limits
  Jobs = {j1, j2}
  Workers = {a1, s1}
  SubWorkers = {s1}
  Clients = {c1, c2}
  Request <- SubPair
  ApiMaxAttempts = 2
  SubMaxAttempts = 2
  SubActiveLimit = 1
  Faults = {"crash", "webcrash", "dberror", "stall"}
  MaxFaults = 1
  MaxClaims = 3
CHECK_DEADLOCK FALSE
INVARIANTS
  SubQueueWithinLimit
PROPERTIES
  ConsumptionFrozenOnceSettled
  ImplementsReservation
