SPECIFICATION FairSpec
CONSTANTS
  Jobs = {b1, b2}
  Workers = {w1, w2}
  NoOne = NoOne
  Scanned = {b2}
  AutoCommit = {b1, b2}
  FileSize = 2
  Pages = 1
  Length = 1
  MaxRequests = 1
  Faults = {"crash", "stall", "error", "budget", "lost reply", "abandon"}
  MaxFaults = 2
CHECK_DEADLOCK FALSE
INVARIANTS
  BlobIsThePrefix
  VolumesAreDisjoint
PROPERTIES
  EveryClaimEnds
