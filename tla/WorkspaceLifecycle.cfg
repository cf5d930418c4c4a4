SPECIFICATION Spec
CONSTANTS
  d1 = d1  d2 = d2  u1 = u1  u2 = u2
  a = a b = b k1 = k1
  Devices = {d1, d2}
  NoDevice = NoDevice
  Users = {u1, u2}
  UserOf <- MCTwoUsers
  Contents = {a}
  Preloaded = {}
  Keys = {k1}
  LeaseTtl = 1
  MaxAge = 0
  MaxTime = 1
  MaxVersion = 2
  MaxLeases = 2
  MaxCycle = 2
INVARIANTS SnapshotIsFinal VersionsReadable
PROPERTIES OwnerChangeFences
