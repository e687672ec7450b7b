---------------------------- MODULE MCFlockLease ----------------------------
(* An instance of FlockLease: one process acts as session owner ownA and, for *)
(* its trial leases, as ownT; another process acts as ownB.                   *)
EXTENDS FlockLease

CONSTANTS ownA, ownT, ownB, procA, procB

MCProcOf == [o \in Owners |-> IF o = ownB THEN procB ELSE procA]
=============================================================================
