SPECIFICATION Spec
CONSTANTS
  Users = {owner, admin, reader}
  Admins = {admin}
  NoOne = NoOne
  MaxVersion = 3
  MaxRequests = 5
  MaxContributions = 1
CHECK_DEADLOCK FALSE
INVARIANTS
  
  MergedIsAccepted
