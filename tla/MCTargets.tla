----------------------------- MODULE MCTargets -----------------------------
EXTENDS Targets, TLC

Symmetry == Permutations(Hits)
=============================================================================
