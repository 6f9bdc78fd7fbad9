-------------------------- MODULE MCMembershipCache --------------------------
EXTENDS MembershipCache, TLC

Symmetry == Permutations(Callers) \cup Permutations(Tokens) \cup Permutations(Users)
=============================================================================
