SPECIFICATION Spec
CONSTANTS
  Chunks = {1, 2}
  Roster = {"e1", "e2"}
  New = "m1"
  Later = {"e9"}
  Matches <- MCMatches
  Titles = {"war"}
  Surfaces = {"named", "generic", "absent"}
  Pool <- MCPool
  MaxClaims = 3
  MaxQuarantined = 2
  RatioNum = 3
  RatioDen = 4
  Paths = {"api", "api_verify", "single", "separate"}
INVARIANTS
  CommittedIsSound
  VerifiedIsCommittable
  MergedIsOffered
