----------------------------- MODULE MCScheduler -----------------------------
(* Small instances of Scheduler. *)
EXTENDS Scheduler, TLC

Perms == Permutations(Replicas)
=============================================================================
