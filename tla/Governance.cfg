SPECIFICATION Spec
CONSTANTS
  Users = {u1, u2}
  SessionsOfUser = 1
  Tasks = {t1}
  Roles = {r1}
  Nobody = Nobody
  NoTask = NoTask
  NoTransfer = NoTransfer
  NoRequest = NoRequest
  LateOps = {"approve", "demote", "remove", "offer", "accept", "open", "createRole"}
SYMMETRY Symmetry
CONSTRAINT Bounded
INVARIANTS
  OwnerIsActive
  MembershipsAgree
  ModesFollowStanding
  LeasesFollowStanding
  RemovedOwnsNothingOpen
  OncePerRequest
