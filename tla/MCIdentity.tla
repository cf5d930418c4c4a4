----------------------------- MODULE MCIdentity -----------------------------
EXTENDS Identity, TLC

Symmetry == Permutations(Users) \cup Permutations(Commands)
              \cup Permutations(Pairings) \cup Permutations(Devices)
=============================================================================
