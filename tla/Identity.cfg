SPECIFICATION Spec
CONSTANTS
  Users = {u1, u2}
  Commands = {c1, c2}
  Pairings = {p1, p2}
  Devices = {d1, d2}
  MaxAttempts = 2
  None = None
SYMMETRY Symmetry
INVARIANTS
  OneDeviceEach
  RevokedIsSilent
PROPERTY PairingOnlyMovesOn
