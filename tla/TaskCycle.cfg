CONSTANTS
  p1 = p1
  p2 = p2
  Tasks = {1, 2, 3, 4, 5}
  Members = {"ann"}
  Admins = {}
  ProjectOwner = "ann"
  Inherit = "inherit"
  Clients = {p1, p2}
  Operations = {"move"}
  Seeds <- MCBranches
  MaxRequests = 2
  MaxTries = 1
SYMMETRY Symmetry
SPECIFICATION Spec
CHECK_DEADLOCK FALSE
INVARIANTS TreeIsForest
