---------------------------- MODULE MCOwnership ----------------------------
(***************************************************************************)
(* Ownership for TLC.  Each configuration enables the operations one       *)
(* question is about.                                                      *)
(***************************************************************************)
EXTENDS Ownership, TLC

Perms == Permutations(Replicas)

=============================================================================
