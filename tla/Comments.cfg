SPECIFICATION Spec
CONSTANTS
  Members = {m1, m2}
  PagesOfMember = 1
  Comments = {k1, k2}
  Texts = {t1}
  None = None
  MaxTaskVersion = 3
  MaxKey = 2
  MaxCalls = 2
  MaxIntents = 3
SYMMETRY Symmetry
CONSTRAINT Bounded
INVARIANT OneCommentPerIntent
PROPERTIES CompletedCommentsStand LastWordStands
CHECK_DEADLOCK FALSE
