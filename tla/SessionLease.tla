---------------------------- MODULE SessionLease ----------------------------
(***************************************************************************)
(* What engine/port/lease.go promises of any session-lease backend, with   *)
(* no clock, no calls in flight and no storage: per session there is at    *)
(* most one recorded holder, a fencing token that only a takeover          *)
(* advances, and a flag saying that the hold has lapsed.  The backends     *)
(* implement this specification under a refinement mapping.                *)
(***************************************************************************)
EXTENDS Naturals

CONSTANTS Sessions,   \* session ids
          Owners,     \* owner-identity strings of the leasing processes
          NoOwner     \* "nobody holds the lease"

VARIABLES holder,     \* holder[s]: owner recorded for s, or NoOwner
          token,      \* token[s]: highest fencing token ever granted for s
          lapsed      \* lapsed[s]: the recorded hold is past its expiry

avars == <<holder, token, lapsed>>

AInit == /\ holder = [s \in Sessions |-> NoOwner]
         /\ token = [s \in Sessions |-> 0]
         /\ lapsed = [s \in Sessions |-> FALSE]

\* Acquire of a free or lapsed lease: a strictly greater token.
Takeover(s, o) ==
    /\ holder[s] = NoOwner \/ lapsed[s]
    /\ holder' = [holder EXCEPT ![s] = o]
    /\ token' = [token EXCEPT ![s] = @ + 1]
    /\ \E b \in BOOLEAN : lapsed' = [lapsed EXCEPT ![s] = b]

\* Renew, or Acquire by the recorded holder: same holder, same token.
Refresh(s) ==
    /\ holder[s] # NoOwner
    /\ \E b \in BOOLEAN : lapsed' = [lapsed EXCEPT ![s] = b]
    /\ UNCHANGED <<holder, token>>

\* Release by the recorded holder; the token is never given back.
Relinquish(s) ==
    /\ holder[s] # NoOwner
    /\ holder' = [holder EXCEPT ![s] = NoOwner]
    /\ lapsed' = [lapsed EXCEPT ![s] = FALSE]
    /\ UNCHANGED token

\* Time passes: some holds lapse, none comes back to life by itself.
Lapse ==
    /\ lapsed' \in [Sessions -> BOOLEAN]
    /\ \A s \in Sessions : lapsed[s] => lapsed'[s]
    /\ \A s \in Sessions : lapsed'[s] => holder[s] # NoOwner
    /\ UNCHANGED <<holder, token>>

ANext == \/ \E s \in Sessions, o \in Owners : Takeover(s, o)
         \/ \E s \in Sessions : Refresh(s) \/ Relinquish(s)
         \/ Lapse

ASpec == AInit /\ [][ANext]_avars
=============================================================================
