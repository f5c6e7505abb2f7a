SPECIFICATION ArtSpec
CONSTANTS
  k = k
  N = 2
  Versions = {1, 2}
  Keys = {k}
  MaxJobs = 2
  Attempts = {a1, a2}
  ScenePlans <- MCScenePlans
  ArtRequests <- MCRequests
  MaxContext = 1
  MaxArt = 4
  MaxPlans = 2
  MaxChanges = 1
  MaxFaults = 1
SYMMETRY AttemptSymmetry
INVARIANTS
  NoSpoilerArt
  
  GalleryIsOnePlan
CHECK_DEADLOCK FALSE
