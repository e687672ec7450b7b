---------------------------- MODULE MCResilience ----------------------------
(***************************************************************************)
(* Instances of Resilience for TLC.                                        *)
(***************************************************************************)
EXTENDS Resilience, TLC

CONSTANTS callA, callB

\* The provider streams to callA; to callB it only fails or ends an empty turn.
MCKinds == (callA :> {"text", "usage"}) @@ (callB :> {})

=============================================================================
