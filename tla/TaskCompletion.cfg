CONSTANTS
  p1 = p1
  p2 = p2
  Tasks = {1, 2, 3}
  Members = {"ann", "bob"}
  Admins = {}
  ProjectOwner = "ann"
  Inherit = "inherit"
  Clients = {p1, p2}
  Operations = {"block", "link", "unlink", "accept", "complete", "move", "archive"}
  Seeds <- MCCompleting
  MaxRequests = 3
  MaxTries = 1
SYMMETRY Symmetry
SPECIFICATION Spec
CHECK_DEADLOCK FALSE
INVARIANTS CompletionHolds
