---------------------------- MODULE ScheduleStore ----------------------------
(***************************************************************************)
(* engine/adapter/memschedulestore: the durable record of one schedule and *)
(* its fire records.  Every method runs under the store's mutex (in the    *)
(* Redis store, as one Lua script), so each is one operator on the record: *)
(* the condition under which it acts and the record it leaves.             *)
(*                                                                         *)
(* LastFireProgressAt is informational and left out; FireDeadline is       *)
(* always a fixed distance from LastFireStartedAt, which a reader adds.    *)
(***************************************************************************)
EXTENDS Integers

CONSTANTS MaxFires,   \* ScheduleSpec.MaxFires; 0 is unlimited
          FireIds     \* fire ids, which are also the fires' session ids

ASSUME FireIdsAssumption == FireIds \subseteq Nat \ {0} /\ MaxFires \in Nat

NoFire == 0           \* LastFireSessionID "" and the zero time
Pending == -1         \* port.PendingFireSessionID

Stops == {"none", "inflight", "ok", "error"}   \* no record, no Stop yet, terminal

\* ScheduleState.  gen numbers the incarnations of the name, 0 when there is no
\* record; del is DeletionID.
State == [gen: Nat, enabled: BOOLEAN, next: Nat, last: Nat, count: Nat,
          sess: FireIds \cup {NoFire, Pending}, started: Nat, retries: Nat, del: Nat]

Absent == [gen |-> 0, enabled |-> FALSE, next |-> 0, last |-> 0, count |-> 0,
           sess |-> NoFire, started |-> 0, retries |-> 0, del |-> 0]

\* Create (and Save of a new name) with the first fire instant already computed.
Created(g, first) == [Absent EXCEPT !.gen = g, !.enabled = TRUE, !.next = first]

\* Save: a stored state is kept (a marked one refuses), and the state u that came with
\* the call is stored under a name that is gone.  (Overwrites: a variant that stores u.)
SavedOverwrites(s, u) == IF s.del # 0 THEN s ELSE u
Saved(s, u) == IF s.gen = 0 THEN u ELSE s

UnderMax(s) == MaxFires = 0 \/ s.count < MaxFires

\* Due.
IsDue(s, now) == s.gen # 0 /\ s.enabled /\ s.next # 0 /\ s.next <= now /\ UnderMax(s)

\* Claim re-checks all of that.  (Trusting: a variant that trusts the caller's Due;
\* Undue: one that trusts it for the instant only.)
ClaimableTrusting(s, now) == s.gen # 0 /\ s.enabled /\ s.del = 0
ClaimableUndue(s, now) == s.gen # 0 /\ s.enabled /\ s.next # 0 /\ UnderMax(s) /\ s.del = 0
Claimable(s, now) == IsDue(s, now) /\ s.del = 0

\* ClaimNow: no due-check; LastFireAt is the fence.
ClaimableNow(s, now) == s.gen # 0 /\ s.enabled /\ s.del = 0 /\ UnderMax(s) /\ s.last # now

\* The claim-before-fire advance.  (Uncounted: a variant that forgets FireCount.)
ClaimedUncounted(s, now, nextFire) ==
    [s EXCEPT !.last = now, !.next = nextFire, !.sess = Pending,
              !.started = 0, !.enabled = nextFire # 0]
Claimed(s, now, nextFire) ==
    [s EXCEPT !.last = now, !.next = nextFire, !.count = @ + 1, !.sess = Pending,
              !.started = 0, !.enabled = nextFire # 0]

\* RecordFireStart of fire f: no record, or f is known already, and nothing happens.
Starts(s, fs, f) == s.gen # 0 /\ fs[f] = "none"
Started(s, f, at) == [s EXCEPT !.sess = f, !.started = at]

\* RecordFire: f's record becomes terminal once; the schedule points to the
\* session sid of whichever fire was recorded last.  (Again: a variant that is not
\* idempotent.  Enables: a variant that derives Enabled from NextFireAt.)
RecordsAgain(s, fs, f) == s.gen # 0
Records(s, fs, f) == s.gen # 0 /\ fs[f] \notin {"ok", "error"}
RecordedEnables(s, sid) ==
    [s EXCEPT !.sess = sid, !.started = 0, !.enabled = s.next # 0]
Recorded(s, sid) == [s EXCEPT !.sess = sid, !.started = 0]

\* ReArmOneShot.
ReArmable(s) == s.gen # 0 /\ s.del = 0
ReArmed(s, nextFire) == [s EXCEPT !.enabled = TRUE, !.next = nextFire, !.retries = @ + 1]

\* SetEnabled, Delete.
Settable(s) == s.gen # 0 /\ s.del = 0
Deletable(s) == s.gen # 0 /\ s.del = 0

\* BeginDelete marks a record without an active fire; a marked one is returned as
\* it is.
DeleteBegins(s) == s.gen # 0 /\ s.del = 0 /\ s.sess # Pending /\ s.started = 0
Deleting(s) == [s EXCEPT !.enabled = FALSE, !.del = s.gen]

\* CompleteDelete removes the incarnation its token names.  (Any: a variant that
\* removes whatever is stored under the name.)
CompletesAny(s, token) == s.gen # 0
Completes(s, token) == s.gen # 0 /\ s.del # 0 /\ s.del = token
=============================================================================
