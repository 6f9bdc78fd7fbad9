-------------------------------- MODULE MCHub --------------------------------
EXTENDS Hub, TLC

CONSTANTS alice, bob, a1, a2, b1

MCOwner(c) == IF c = b1 THEN bob ELSE alice

Symmetry == Permutations({a1, a2})
=============================================================================
