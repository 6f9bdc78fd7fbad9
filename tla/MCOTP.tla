------------------------------- MODULE MCOTP -------------------------------
EXTENDS OTP, TLC

Symmetry == Permutations(Senders) \cup Permutations(Codes)
=============================================================================
