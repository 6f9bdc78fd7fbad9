----------------------------- MODULE MCSequence -----------------------------
EXTENDS Sequence, TLC

Symmetry == Permutations(Callers)
=============================================================================
