----------------------------- MODULE MCComments -----------------------------
EXTENDS Comments, TLC

CONSTANTS MaxCalls, MaxIntents

Symmetry == Permutations(Members) \cup Permutations(Comments)

\* How much happens: calls under way, and intents that were served or are not
\* answered yet.
Bounded ==
  /\ Cardinality(wire) <= MaxCalls
  /\ LET open == {x \in Pages \X Operations : intent[x[1]][x[2]].payload /= None}
     IN  Cardinality(open) + Cardinality(records) <= MaxIntents
=============================================================================
