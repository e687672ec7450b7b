------------------------------ MODULE K8sLease ------------------------------
(***************************************************************************)
(* internal/adapter/k8slease: the session lease kept in a                  *)
(* coordination.k8s.io Lease object, for replicas on different hosts.  A   *)
(* call reads its host's clock, Gets the object, decides, and Updates (or  *)
(* Creates) it under the resourceVersion it read; everything may move      *)
(* between those steps, and a reply may be lost after the API server did   *)
(* the work.  Host clocks differ by at most Skew.  One session id: each id *)
(* has an object of its own.                                               *)
(*                                                                         *)
(* `handle' is the port.Lease value the caller keeps.  As in the server, a *)
(* process makes one Acquire or Release at a time, one Renew at a time,    *)
(* and giving a hold up cancels the renewer's context without waiting for  *)
(* it: only an Update already sent can still arrive.                       *)
(***************************************************************************)
EXTENDS Integers

CONSTANTS Owners, NoOwner,
          Sid,          \* the session id
          TTL,          \* lease duration in clock ticks
          Second,       \* ticks in a second: leaseDurationSeconds is whole seconds
          Skew,         \* largest difference between two host clocks
          MaxClock,     \* bound on every clock
          MaxVersion    \* no call begins once the object has this resourceVersion

ASSUME NoOwnerAssumption == NoOwner \notin Owners
ASSUME TimeAssumption == TTL \in Nat /\ Second \in Nat \ {0} /\ Skew \in Nat
ASSUME BoundsAssumption == MaxClock \in Nat /\ MaxVersion \in Nat

VARIABLES clock,    \* clock[o]: o's host clock
          obj,      \* the Lease object; rv 0 when absent
          call,     \* call[o][k]: the call in flight in o's slot k
          handle    \* handle[o]: the value the caller stored

vars == <<clock, obj, call, handle>>

\* "main" is the slot of Acquire and Release, "renew" the renewer's.
Slots == {"main", "renew"}

\* holderIdentity, renewTime + leaseDurationSeconds, leaseTransitions,
\* resourceVersion.
Object == [holder : Owners \cup {NoOwner}, expiry : Int, token : Nat, rv : Nat]
Absent == [holder |-> NoOwner, expiry |-> 0, token |-> 0, rv |-> 0]

Call == [op : {"none", "acquire", "renew", "release"}, pc : {"get", "put"},
         now : Int, token : Nat, seen : Object]
NoCall == [op |-> "none", pc |-> "get", now |-> 0, token |-> 0, seen |-> Absent]

\* As in MemLease: live, given up without a Release, or released.
Handle == [st : {"none", "live", "dropped", "released"}, token : Nat, expiry : Int]
NoHandle == [st |-> "none", token |-> 0, expiry |-> 0]

Init ==
    /\ clock = [o \in Owners |-> 0]
    /\ obj = Absent
    /\ call = [o \in Owners |-> [k \in Slots |-> NoCall]]
    /\ handle = [o \in Owners |-> NoHandle]

\* durationSeconds: the TTL truncated to whole seconds.
Duration == (TTL \div Second) * Second

\* (Early: a variant that is a tick early.)
ExpiredEarly(c) == c.now + 1 >= c.seen.expiry
Expired(c) == c.now >= c.seen.expiry

-----------------------------------------------------------------------------
(* Calls begin: Acquire and Renew read the clock first *)

Begins(o, k, op, tok) ==
    /\ call[o][k].op = "none"
    /\ obj.rv < MaxVersion
    /\ call' = [call EXCEPT ![o][k] = [op |-> op, pc |-> "get", now |-> clock[o], token |-> tok,
                                       seen |-> Absent]]
    /\ UNCHANGED <<clock, obj>>

BeginAcquire(o) ==
    /\ handle[o].st # "live"
    /\ call[o]["renew"].op # "none" => handle[o].st = "released"
    /\ Begins(o, "main", "acquire", 0)
    /\ UNCHANGED handle

BeginRenew(o) ==
    /\ handle[o].st = "live"
    /\ Begins(o, "renew", "renew", handle[o].token)
    /\ UNCHANGED handle

\* The renewer's slot once its context is cancelled.
Cancelled(c) == IF c.pc = "get" THEN NoCall ELSE c

BeginRelease(o) ==
    /\ handle[o].st \in {"live", "dropped"}
    /\ call[o]["main"].op = "none"
    /\ call' = [call EXCEPT ![o] =
                  [k \in Slots |->
                     IF k = "main"
                     THEN [op |-> "release", pc |-> "get", now |-> clock[o],
                           token |-> handle[o].token, seen |-> Absent]
                     ELSE Cancelled(call[o][k])]]
    /\ handle' = [handle EXCEPT ![o].st = "released"]
    /\ UNCHANGED <<clock, obj>>

-----------------------------------------------------------------------------
(* Get, decide, CAS *)

Finish(o, k) == call' = [call EXCEPT ![o][k] = NoCall]

\* ErrLeaseHeld: the loss signal drops the handle the Renew was made for.
Refuse(o, k) ==
    /\ Finish(o, k)
    /\ handle' = IF call[o][k].op = "renew" /\ handle[o].st = "live"
                       /\ handle[o].token = call[o][k].token
                 THEN [handle EXCEPT ![o].st = "dropped"]
                 ELSE handle

\* What Acquire, Renew and Release go on with after a Get.  A tombstone and an
\* expired object are free, to anyone; Renew and Release want their own record.
Proceeds(o, c) ==
    CASE c.op = "acquire" -> c.seen.rv = 0 \/ Expired(c) \/ c.seen.holder = o
      [] c.op = "renew" -> c.seen.rv # 0 /\ c.seen.holder = o /\ c.seen.token = c.token /\ ~Expired(c)
      [] c.op = "release" -> c.seen.rv # 0 /\ c.seen.holder = o /\ c.seen.token = c.token

\* Release reads the clock only now.
Get(o, k) ==
    LET c == [call[o][k] EXCEPT !.pc = "put", !.seen = obj,
                                !.now = IF call[o][k].op = "release" THEN clock[o] ELSE @]
    IN  /\ call[o][k].op # "none" /\ call[o][k].pc = "get"
        /\ \/ Proceeds(o, c) /\ call' = [call EXCEPT ![o][k] = c] /\ UNCHANGED handle
           \/ ~Proceeds(o, c) /\ Refuse(o, k)
        /\ UNCHANGED <<clock, obj>>

\* A variant that takes a released lease over with the token it had.
NextTokenReleased(o, c) ==
    IF c.op = "acquire" /\ (c.seen.rv = 0 \/ (Expired(c) /\ c.seen.holder # NoOwner))
    THEN c.seen.token + 1 ELSE c.seen.token

\* The token written: a takeover advances it.
NextToken(o, c) ==
    IF c.op = "acquire" /\ (c.seen.rv = 0 \/ Expired(c) \/ c.seen.holder # o)
    THEN c.seen.token + 1 ELSE c.seen.token

\* A variant that winds the tombstone back by the TTL alone.
TombstoneExpiryTTL(c) == c.now - TTL + Duration

\* Release winds renewTime back past the TTL; leaseDurationSeconds stays.
TombstoneExpiry(c) == c.now - TTL - Second + Duration

\* createLease, updateLease, and Release's tombstone.
Written(o, c) ==
    [holder |-> IF c.op = "release" THEN NoOwner ELSE o,
     expiry |-> IF c.op = "release" THEN TombstoneExpiry(c) ELSE c.now + Duration,
     token |-> NextToken(o, c),
     rv |-> obj.rv + 1]

\* Create wants the object absent, Update the resourceVersion that was read.
VersionMatches(c) == obj.rv = c.seen.rv

\* The API server applies the write; its reply arrives or is lost.
Put(o, k) ==
    LET c == call[o][k]
        w == Written(o, c)
        current == handle[o].st = "live" /\ handle[o].token = c.token
    IN  /\ c.op # "none" /\ c.pc = "put" /\ VersionMatches(c)
        /\ obj' = w
        /\ Finish(o, k)
        /\ \/ handle' = IF c.op = "acquire" \/ (c.op = "renew" /\ current)
                        THEN [handle EXCEPT ![o] = [st |-> "live", token |-> w.token,
                                                    expiry |-> w.expiry]]
                        ELSE handle
           \/ UNCHANGED handle
        /\ UNCHANGED clock

\* 409 Conflict or AlreadyExists: ErrLeaseHeld; for a Release, nothing to do.
Conflict(o, k) ==
    /\ call[o][k].op # "none" /\ call[o][k].pc = "put" /\ ~VersionMatches(call[o][k])
    /\ Refuse(o, k)
    /\ UNCHANGED <<clock, obj>>

\* The API server cannot be reached: an error that says nothing about the lease.
Unreachable(o, k) ==
    /\ call[o][k].op # "none"
    /\ Finish(o, k)
    /\ UNCHANGED <<clock, obj, handle>>

\* The caller stops relying on the hold without releasing it.
Drop(o) ==
    /\ handle[o].st = "live"
    /\ handle' = [handle EXCEPT ![o].st = "dropped"]
    /\ call' = [call EXCEPT ![o]["renew"] = Cancelled(@)]
    /\ UNCHANGED <<clock, obj>>

\* A host clock ticks, within the skew.
Tick(o) ==
    /\ clock[o] < MaxClock
    /\ \A p \in Owners : clock[o] + 1 <= clock[p] + Skew
    /\ clock' = [clock EXCEPT ![o] = @ + 1]
    /\ UNCHANGED <<obj, call, handle>>

Next ==
    \E o \in Owners :
        \/ BeginAcquire(o) \/ BeginRenew(o) \/ BeginRelease(o) \/ Drop(o) \/ Tick(o)
        \/ \E k \in Slots : Get(o, k) \/ Put(o, k) \/ Conflict(o, k) \/ Unreachable(o, k)

Spec == Init /\ [][Next]_vars

-----------------------------------------------------------------------------
\* Type invariant of the object, the calls in flight and the handles.
TypeOK ==
    /\ clock \in [Owners -> Nat]
    /\ obj \in Object
    /\ call \in [Owners -> [Slots -> Call]]
    /\ handle \in [Owners -> Handle]

\* Two owners never both rely on a lease value, when each stops relying Skew
\* before its expiry: however Gets, CAS Updates, lost replies, releases and
\* unequal clocks interleave (Acquire, Renew, updateLease).
Relying(o) == handle[o].st = "live" /\ clock[o] + Skew < handle[o].expiry
Exclusion == \A o, p \in Owners : Relying(o) /\ Relying(p) => o = p

\* No two owners were ever given the same leaseTransitions, and a tombstone
\* keeps the count (Acquire, Release).
TokenIdentifiesOwner ==
    \A o, p \in Owners :
        /\ handle[o].st # "none" /\ handle[p].st # "none"
        /\ handle[o].token = handle[p].token
        => o = p

\* A released lease can be taken at once by every replica whose clock is at most
\* a second off: the tombstone reads as expired to all of them (Release).
ReleasedIsFree ==
    obj.rv # 0 /\ obj.holder = NoOwner /\ Skew <= Second =>
        \A o \in Owners : clock[o] >= obj.expiry

\* Why these hold, as an invariant of every step: a call in flight read its
\* host's clock in the past and what it saw is the object unless that has been
\* written since, and let the call go on; a live handle is the object or some clock is past it; the
\* count never falls behind a handle, and is shared with one holder only; a
\* tombstone has expired by the clock of whoever wrote it.
ReadsInPast == \A o \in Owners, k \in Slots : call[o][k].now <= clock[o]
SnapshotsTrue ==
    \A o \in Owners, k \in Slots :
        /\ call[o][k].seen.rv <= obj.rv
        /\ call[o][k].seen.rv = obj.rv /\ call[o][k].pc = "put" => call[o][k].seen = obj
        /\ call[o][k].op # "none" /\ call[o][k].pc = "put" => Proceeds(o, call[o][k])
LiveHandleIsObject ==
    \A o \in Owners : handle[o].st = "live" =>
        \/ \E p \in Owners : clock[p] >= handle[o].expiry
        \/ obj.holder = o /\ obj.token = handle[o].token /\ handle[o].expiry <= obj.expiry
TokensBounded ==
    /\ obj.rv = 0 => obj = Absent
    /\ \A o \in Owners :
          /\ handle[o].token <= obj.token
          /\ handle[o].st # "none" /\ handle[o].token = obj.token => obj.holder \in {o, NoOwner}
\* (No call relies on a slot the caller has given up, and a Renew that can still be
\* written extends the hold it was made for.)
SlotsAgreeOf(o) ==
    /\ call[o]["main"].op \in {"none", "acquire", "release"}
    /\ call[o]["renew"].op \in {"none", "renew"}
    /\ call[o]["main"].op # "none" => handle[o].st # "live"
    /\ /\ call[o]["main"].op = "acquire" \/ handle[o].st = "released"
       /\ call[o]["renew"].op = "renew"
       => call[o]["renew"].pc = "put"
    /\ handle[o].st = "live" => handle[o].expiry <= clock[o] + Duration
    /\ /\ call[o]["renew"].op = "renew"
       /\ handle[o].st = "live" /\ handle[o].token = call[o]["renew"].token
       /\ call[o]["renew"].pc = "get" \/ call[o]["renew"].seen.rv = obj.rv
       => handle[o].expiry <= call[o]["renew"].now + Duration
SlotsAgree == \A o \in Owners : SlotsAgreeOf(o)
TombstoneExpired ==
    obj.rv # 0 /\ obj.holder = NoOwner => \E o \in Owners : obj.expiry + Second <= clock[o]
SkewBounded == \A o, p \in Owners : clock[o] <= clock[p] + Skew
LeaseInv ==
    /\ TypeOK
    /\ ReadsInPast
    /\ SnapshotsTrue
    /\ LiveHandleIsObject
    /\ TokensBounded
    /\ TokenIdentifiesOwner
    /\ SlotsAgree
    /\ TombstoneExpired
    /\ SkewBounded

\* The Kubernetes backend implements the port's contract; a hold has lapsed once
\* the fastest clock says so.
Port == INSTANCE SessionLease WITH
            Sessions <- {Sid},
            holder <- [s \in {Sid} |-> obj.holder],
            token <- [s \in {Sid} |-> obj.token],
            lapsed <- [s \in {Sid} |-> obj.holder # NoOwner
                                       /\ \E o \in Owners : clock[o] >= obj.expiry]
PortSpec == Port!ASpec
=============================================================================
