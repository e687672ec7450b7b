----------------------------- MODULE MCExecEnv -----------------------------
(* Instances of ExecEnv: two operations, two controller workers.            *)
EXTENDS ExecEnv, TLC

CONSTANTS c1, c2, r1, r2, b1, b2, q1, q2

\* A replacement and a recovery; a replacement or a retirement, and a deletion.
Recovery == (q1 :> {"replace"}) @@ (q2 :> {"recover"})
Disposal == (q1 :> {"replace", "retire"}) @@ (q2 :> {"delete"})

\* Sound without fairness.
Symmetry == Permutations({c1, c2}) \cup Permutations({r1, r2})
=============================================================================
