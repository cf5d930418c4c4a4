CONSTANTS
  p1 = p1
  p2 = p2
  Tasks = {1, 2, 3, 4}
  Members = {"ann", "bob"}
  Admins = {}
  ProjectOwner = "ann"
  Inherit = "inherit"
  Clients = {p1, p2}
  Operations = {"create", "update", "start", "block", "unblock", "link", "unlink", "accept", "reject", "follow", "unfollow", "move", "complete", "reopen", "own", "archive", "delete"}
  Seeds <- MCFamily
  MaxRequests = 2
  MaxTries = 2
SYMMETRY Symmetry
SPECIFICATION Spec
CHECK_DEADLOCK FALSE
INVARIANTS TypeOK DependenciesAreSound AppliedOnce
PROPERTIES VersionsAdvance
