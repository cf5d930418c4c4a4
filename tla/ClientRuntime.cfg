SPECIFICATION Spec
CONSTANTS
  p1 = p1
  p2 = p2
  none = none
  one = one
  Free = Free
  Procs = {p1, p2}
  Contents = {none, one}
  Empty = none
  MaxVersion = 2
  MaxLeases = 2
INVARIANTS BaseIsPublished LockIsGivenBack
PROPERTIES SyncBuildsOnHead BaseNeverGoesBack
SYMMETRY MCSymmetry
