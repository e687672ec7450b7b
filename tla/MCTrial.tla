------------------------------ MODULE MCTrial ------------------------------
(***************************************************************************)
(* Resilience with a history variable: the callers whose attempt in flight *)
(* was admitted by an open breaker, as a trial.                            *)
(***************************************************************************)
EXTENDS MCResilience

VARIABLE trials

TrialInit == Init /\ trials = {}

TrialNext ==
  /\ Next
  /\ trials' = {c \in Callers :
       /\ call'[c].pc \notin {"idle", "admit", "backoff"}
       /\ c \in trials \/ (call[c].pc = "admit" /\ breaker.open)}

TrialSpec == TrialInit /\ [][TrialNext]_<<vars, trials>>

\* A half-open breaker admits a single trial (the package comment): never two
\* attempts in flight that an open breaker admitted.
SingleTrial == Cardinality({c \in trials : call[c].pc \in {"pump", "rest"}}) <= 1

\* The failure of an attempt that was in flight when the breaker opened does
\* not restart the cooldown (the comment in recordFailure).
OldFailureIgnored ==
  [][\A c \in Callers :
       /\ call[c].pc \in {"record", "late"} /\ call'[c].pc # call[c].pc
       /\ breaker.open /\ c \notin trials
       => breaker'.age = breaker.age]_<<vars, trials>>
=============================================================================
