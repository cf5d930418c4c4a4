SPECIFICATION Spec
CONSTANTS
  d1 = d1  d2 = d2  u1 = u1  u2 = u2
  a = a b = b k1 = k1
  Devices = {d1, d2}
  NoDevice = NoDevice
  Users = {u1}
  UserOf <- MCOneUser
  Contents = {a, b}
  Preloaded = {a, b}
  Keys = {k1}
  LeaseTtl = 2
  MaxAge = 1
  MaxTime = 2
  MaxVersion = 2
  MaxLeases = 2
  MaxCycle = 1
INVARIANTS TypeOK OneWriter LeaseAtHead AnsweredCommitsStand
PROPERTIES NewestLeaseWrites ImplementsHistory
SYMMETRY MCSymmetry
