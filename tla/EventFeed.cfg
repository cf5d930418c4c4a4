SPECIFICATION FairSpec
CONSTANTS
  w1 = w1
  w2 = w2
  s1 = s1
  s2 = s2
  NoEvent = NoEvent
  Workers = {w1, w2}
  Sources = {s1, s2}
  Notifying = {s1}
  Poison = {s2}
  Visible = {s1, s2}
  BatchLimit = 1
  MaxFaults = 1
INVARIANTS NotifiedOnce FeedIsProcessed
PROPERTIES BacklogDrains ViewCatchesUp ImplementsDelivery
