------------------------------ MODULE MemLease ------------------------------
(***************************************************************************)
(* engine/adapter/memlease (and its twin engine/adapter/memstore/lease.go):*)
(* the in-memory SessionLease.  Acquire and Renew read the clock BEFORE    *)
(* taking the mutex, so a call is two steps: Begin* reads the clock, the   *)
(* matching Acquire/Renew step is the critical section, and time and other *)
(* callers may move in between.  Release reads no clock and is one step.   *)
(*                                                                         *)
(* `handle' is the lease value the caller keeps (port.Lease), with what    *)
(* the caller believes of it.  Callers follow the port's rule that one     *)
(* process serialises its calls for an id, with the one exception the      *)
(* server makes: a Release cancels the renewer without waiting for it, so  *)
(* an old Renew may still be in flight after it.                           *)
(***************************************************************************)
EXTENDS Naturals

CONSTANTS Sessions, Owners, NoOwner,
          TTL,        \* lease duration in clock ticks
          MaxClock,   \* bound on the clock
          MaxToken    \* no Acquire begins once this token has been granted

ASSUME NoOwnerAssumption == NoOwner \notin Owners
ASSUME TTLAssumption == TTL \in Nat \ {0}
ASSUME BoundsAssumption == MaxClock \in Nat /\ MaxToken \in Nat

VARIABLES clock,      \* wall clock
          leases,     \* leases[s]: the record, owner NoOwner when absent
          maxTok,     \* maxTok[s]: highest token ever granted
          acq,        \* acq[o][s]: an Acquire in flight and the time it read
          ren,        \* ren[o][s]: a Renew in flight, its time and its token
          handle      \* handle[o][s]: the value the caller stored

vars == <<clock, leases, maxTok, acq, ren, handle>>

Record == [owner : Owners \cup {NoOwner}, token : Nat, expiry : Nat]
NoLease == [owner |-> NoOwner, token |-> 0, expiry |-> 0]
AcqCall == [busy : BOOLEAN, now : Nat]
RenCall == [busy : BOOLEAN, now : Nat, token : Nat]
NoCall == [busy |-> FALSE, now |-> 0]
NoRenew == [busy |-> FALSE, now |-> 0, token |-> 0]
\* live: the caller relies on it; dropped: it stopped without releasing
\* (a declared loss); released: it called Release.
Handle == [st : {"none", "live", "dropped", "released"},
           token : Nat, expiry : Nat]
NoHandle == [st |-> "none", token |-> 0, expiry |-> 0]

Init ==
    /\ clock = 0
    /\ leases = [s \in Sessions |-> NoLease]
    /\ maxTok = [s \in Sessions |-> 0]
    /\ acq = [o \in Owners |-> [s \in Sessions |-> NoCall]]
    /\ ren = [o \in Owners |-> [s \in Sessions |-> NoRenew]]
    /\ handle = [o \in Owners |-> [s \in Sessions |-> NoHandle]]

Held(s) == leases[s].owner # NoOwner
\* Mutant: the expiry test is one tick early.
ExpiredEarly(s, now) == now + 1 >= leases[s].expiry
Expired(s, now) == now >= leases[s].expiry

\* grant: write the record, keep the high-water token, return the lease.
Grant(s, o, tok, now) ==
    /\ leases' = [leases EXCEPT ![s] =
                    [owner |-> o, token |-> tok, expiry |-> now + TTL]]
    /\ maxTok' = [maxTok EXCEPT ![s] = IF tok > @ THEN tok ELSE @]

\* What the caller keeps: a fresh value, or an old one it no longer relies on.
Stored(tok, now) == [st |-> "live", token |-> tok, expiry |-> now + TTL]
Marked(h, st) == [st |-> st, token |-> h.token, expiry |-> h.expiry]

\* Acquire, first half: the clock is read outside the mutex.
BeginAcquire(o, s) ==
    /\ ~acq[o][s].busy
    /\ handle[o][s].st # "live"
    /\ ren[o][s].busy => handle[o][s].st = "released"
    /\ maxTok[s] < MaxToken
    /\ acq' = [acq EXCEPT ![o][s] = [busy |-> TRUE, now |-> clock]]
    /\ UNCHANGED <<clock, leases, maxTok, ren, handle>>

\* Mutant: the next token is taken from the record, which a Release deletes.
AcquireTokenFromRecord(o, s, now) ==
    IF ~Held(s) \/ Expired(s, now) THEN leases[s].token + 1 ELSE leases[s].token

\* The token an Acquire at time `now' is given, when it is given one.
AcquireToken(o, s, now) ==
    IF ~Held(s) \/ Expired(s, now) THEN maxTok[s] + 1 ELSE leases[s].token

\* Acquire, the critical section: takeover, same-owner refresh, or ErrLeaseHeld.
Acquire(o, s) ==
    LET now == acq[o][s].now
        tok == AcquireToken(o, s, now)
    IN  /\ acq[o][s].busy
        /\ acq' = [acq EXCEPT ![o][s] = NoCall]
        /\ \/ /\ ~Held(s) \/ Expired(s, now) \/ leases[s].owner = o
              /\ Grant(s, o, tok, now)
              /\ handle' = [handle EXCEPT ![o][s] = Stored(tok, now)]
           \/ /\ Held(s) /\ ~Expired(s, now) /\ leases[s].owner # o
              /\ UNCHANGED <<leases, maxTok, handle>>
        /\ UNCHANGED <<clock, ren>>

BeginRenew(o, s) ==
    /\ handle[o][s].st = "live"
    /\ ~ren[o][s].busy
    /\ ren' = [ren EXCEPT ![o][s] = [busy |-> TRUE, now |-> clock,
                                     token |-> handle[o][s].token]]
    /\ UNCHANGED <<clock, leases, maxTok, acq, handle>>

\* Mutant: an absent record is renewed back into existence.
RenewHoldsAbsent(o, s, tok, now) ==
    ~Held(s) \/ (leases[s].owner = o /\ leases[s].token = tok /\ ~Expired(s, now))

RenewHolds(o, s, tok, now) ==
    /\ Held(s)
    /\ leases[s].owner = o
    /\ leases[s].token = tok
    /\ ~Expired(s, now)

\* Renew, the critical section.  A refreshed value is stored, a loss drops the
\* handle, but only when the handle is still the one this call was made for.
Renew(o, s) ==
    LET now == ren[o][s].now
        tok == ren[o][s].token
        current == handle[o][s].st = "live" /\ handle[o][s].token = tok
    IN  /\ ren[o][s].busy
        /\ ren' = [ren EXCEPT ![o][s] = NoRenew]
        /\ \/ /\ RenewHolds(o, s, tok, now)
              /\ Grant(s, o, tok, now)
              /\ handle' = IF current
                             THEN [handle EXCEPT ![o][s] = Stored(tok, now)]
                             ELSE handle
           \/ /\ ~RenewHolds(o, s, tok, now)
              /\ handle' = IF current
                             THEN [handle EXCEPT ![o][s] = Marked(@, "dropped")]
                             ELSE handle
              /\ UNCHANGED <<leases, maxTok>>
        /\ UNCHANGED <<clock, acq>>

\* Release drops the record only when owner and token still match.
Release(o, s) ==
    /\ handle[o][s].st # "none"
    /\ handle' = [handle EXCEPT ![o][s] = Marked(@, "released")]
    /\ leases' = IF leases[s].owner = o /\ leases[s].token = handle[o][s].token
                   THEN [leases EXCEPT ![s] = NoLease]
                   ELSE leases
    /\ UNCHANGED <<clock, maxTok, acq, ren>>

\* The caller stops relying on the hold without releasing it.
Drop(o, s) ==
    /\ handle[o][s].st = "live"
    /\ handle' = [handle EXCEPT ![o][s] = Marked(@, "dropped")]
    /\ UNCHANGED <<clock, leases, maxTok, acq, ren>>

Tick ==
    /\ clock < MaxClock
    /\ clock' = clock + 1
    /\ UNCHANGED <<leases, maxTok, acq, ren, handle>>

Next ==
    \/ \E o \in Owners, s \in Sessions :
          \/ BeginAcquire(o, s) \/ Acquire(o, s)
          \/ BeginRenew(o, s) \/ Renew(o, s)
          \/ Release(o, s) \/ Drop(o, s)
    \/ Tick

Spec == Init /\ [][Next]_vars

-----------------------------------------------------------------------------
\* Type invariant of the lease table, the calls in flight and the handles.
TypeOK ==
    /\ clock \in Nat
    /\ leases \in [Sessions -> Record]
    /\ maxTok \in [Sessions -> Nat]
    /\ acq \in [Owners -> [Sessions -> AcqCall]]
    /\ ren \in [Owners -> [Sessions -> RenCall]]
    /\ handle \in [Owners -> [Sessions -> Handle]]

\* The exclusion the run-entry gate relies on: two owners never both keep a
\* lease value for one session that neither has given up and whose Expiry is
\* still in the future, however their calls' clock reads, critical sections and
\* releases interleave.
Relying(o, s) == handle[o][s].st = "live" /\ clock < handle[o][s].expiry
Exclusion ==
    \A s \in Sessions : \A o, p \in Owners :
        Relying(o, s) /\ Relying(p, s) => o = p

\* A fencing token identifies its holder: no token is ever handed to two
\* different owners of one session, not even after releases and expiries
\* (grant keeps maxTok across a Release for exactly this).
TokenIdentifiesOwner ==
    \A s \in Sessions : \A o, p \in Owners :
        /\ handle[o][s].st # "none" /\ handle[p][s].st # "none"
        /\ handle[o][s].token = handle[p][s].token
        => o = p

\* A step of one owner never takes away another owner's unexpired record:
\* a stale Renew or a late Release of an old handle leaves a successor alone.
NoStealing ==
    \A s \in Sessions :
        (Held(s) /\ clock < leases[s].expiry /\ leases'[s].owner # leases[s].owner)
           => leases'[s].owner = NoOwner /\ handle'[leases[s].owner][s].st = "released"
LiveRecordKept == [][NoStealing]_vars

\* Why those three hold, as an invariant of every step.  The caller's handle and
\* the table stay in step: the record's owner still has the record's token in
\* its handle, a live handle is the record or has already expired, no call
\* carries a clock read from the future, and tokens never pass maxTok.
TokensBounded ==
    \A s \in Sessions :
        /\ leases[s].token <= maxTok[s]
        /\ \A o \in Owners : handle[o][s].token <= maxTok[s]
RecordHasHandle ==
    \A s \in Sessions : Held(s) =>
        /\ handle[leases[s].owner][s].st \in {"live", "dropped"}
        /\ handle[leases[s].owner][s].token = leases[s].token
LiveHandleIsRecord ==
    \A s \in Sessions, o \in Owners : handle[o][s].st = "live" =>
        \/ clock >= handle[o][s].expiry
        \/ /\ leases[s].owner = o
           /\ leases[s].token = handle[o][s].token
           /\ handle[o][s].expiry <= leases[s].expiry
ReadsInPast ==
    \A s \in Sessions, o \in Owners :
        acq[o][s].now <= clock /\ ren[o][s].now <= clock
LeaseInv ==
    /\ TypeOK
    /\ TokensBounded
    /\ TokenIdentifiesOwner
    /\ RecordHasHandle
    /\ LiveHandleIsRecord
    /\ ReadsInPast

\* The in-memory backend implements the port's contract.
Port == INSTANCE SessionLease WITH
            holder <- [s \in Sessions |-> leases[s].owner],
            token <- maxTok,
            lapsed <- [s \in Sessions |-> Held(s) /\ clock >= leases[s].expiry]
PortSpec == Port!ASpec
=============================================================================
