---------------------------- MODULE MCK8sLease ----------------------------
EXTENDS K8sLease, TLC
Perms == Permutations(Owners)
===========================================================================
