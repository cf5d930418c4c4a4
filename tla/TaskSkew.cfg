CONSTANTS
  p1 = p1
  p2 = p2
  Tasks = {1, 2, 3}
  Members = {"ann"}
  Admins = {}
  ProjectOwner = "ann"
  Inherit = "inherit"
  Clients = {p1, p2}
  Operations = {"complete", "reopen"}
  Seeds <- MCCompleted
  MaxRequests = 2
  MaxTries = 1
SPECIFICATION Spec
CHECK_DEADLOCK FALSE
INVARIANTS CompletionHolds
