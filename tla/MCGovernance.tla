---------------------------- MODULE MCGovernance ----------------------------
EXTENDS Governance, TLC

Symmetry == Permutations(Users)

\* A request that took effect twice has shown all it can show.
Bounded == late = NoRequest \/ late.effects <= 2
=============================================================================
