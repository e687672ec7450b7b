---------------------------- MODULE MCMemLease ----------------------------
EXTENDS MemLease, TLC
Perms == Permutations(Owners)
===========================================================================
