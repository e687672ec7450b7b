----------------------------- MODULE FlockLease -----------------------------
(***************************************************************************)
(* internal/adapter/flocklease: the session lease of processes that share  *)
(* a directory on one host.  A JSON record names the owner, the token and  *)
(* the expiry; a stable advisory lock serialises every transition; and the *)
(* holding process keeps the advisory lock of its own generation, so that  *)
(* the kernel tells a crashed holder from a live one.  One session id:     *)
(* each id has files of its own.                                           *)
(*                                                                         *)
(* A process acts under several owner strings (the server's own, and the   *)
(* suffixed ones of its trial and maintenance leases), all through one     *)
(* adapter.  `handle' is the port.Lease value a caller keeps.  Writing the *)
(* record and closing a lock may fail, and a process may crash at any      *)
(* step; it comes back with the same names, which only makes more records  *)
(* look like its own.  Files of superseded generations are never opened    *)
(* again, so their removal is left out.                                    *)
(***************************************************************************)
EXTENDS Naturals

CONSTANTS Owners, NoOwner,
          Procs,        \* operating-system processes
          ProcOf,       \* ProcOf[o]: the process that acts as o
          Sid,          \* the session id
          TTL,          \* lease duration in clock ticks
          CloseFails,   \* whether closing a lock file may fail
          MaxClock,     \* bound on the clock
          MaxToken      \* bound on tokens (math.MaxUint64 in the code)

ASSUME NoOwnerAssumption == NoOwner \notin Owners
ASSUME ProcAssumption == ProcOf \in [Owners -> Procs]
ASSUME TimeAssumption == TTL \in Nat /\ CloseFails \in BOOLEAN
ASSUME BoundsAssumption == MaxClock \in Nat /\ MaxToken \in Nat

VARIABLES clock,    \* the host clock
          rec,      \* the record file; token 0 when absent
          op,       \* the transition that holds the stable lock
          held,     \* held[p]: generations whose lock p retains
          stuck,    \* stuck[p]: locks p failed to close, kept for cleanup
          pend,     \* pend[o]: tokens of the Renew and Release calls waiting
          handle    \* handle[o]: the value the caller stored

vars == <<clock, rec, op, held, stuck, pend, handle>>

Record == [owner : Owners \cup {NoOwner}, token : Nat, expiry : Nat]
NoRecord == [owner |-> NoOwner, token |-> 0, expiry |-> 0]

\* What a transition is about to write, and for whom.
Op == [kind : {"none", "take", "refresh", "tombstone"}, owner : Owners \cup {NoOwner},
       token : Nat, expiry : Nat, call : {"acquire", "renew", "release"}]
Idle == [kind |-> "none", owner |-> NoOwner, token |-> 0, expiry |-> 0, call |-> "acquire"]

Stuck == [stable : BOOLEAN, gens : SUBSET Nat]
NoStuck == [stable |-> FALSE, gens |-> {}]

Pend == [renew : Nat, release : Nat]
NoPend == [renew |-> 0, release |-> 0]

\* As in MemLease: live, given up without a Release, or released.
Handle == [st : {"none", "live", "dropped", "released"}, token : Nat, expiry : Nat]
NoHandle == [st |-> "none", token |-> 0, expiry |-> 0]

Init ==
    /\ clock = 0
    /\ rec = NoRecord
    /\ op = Idle
    /\ held = [p \in Procs |-> {}]
    /\ stuck = [p \in Procs |-> NoStuck]
    /\ pend = [o \in Owners |-> NoPend]
    /\ handle = [o \in Owners |-> NoHandle]

\* Some process has the generation's lock: as its hold, through a handle it could
\* not close, or because a takeover has just locked it.
Locked(t) ==
    \/ \E p \in Procs : t \in held[p] \cup stuck[p].gens
    \/ op.kind = "take" /\ op.token = t

Unexpired == clock < rec.expiry

\* generationLive: the probe finds the recorded generation's lock taken.
\* (Here: a variant that asks whether it is retained by this process.)
GenerationLiveHere(p) == rec.token \in held[p]
GenerationLive(p) == Locked(rec.token)

-----------------------------------------------------------------------------
(* The brackets of every call: gate, retryCleanup, stable lock; finishStable *)

\* retryCleanup leaves `left' of p's kept handles; then the stable lock is free.
Enters(p, left) ==
    /\ op = Idle
    /\ left.stable => stuck[p].stable
    /\ left.gens \subseteq stuck[p].gens
    /\ ~CloseFails => left = NoStuck
    /\ ~left.stable
    /\ \A q \in Procs \ {p} : ~stuck[q].stable

\* The handles p keeps once the stable lock's Close worked or failed, `gens'
\* being the generation locks it could not close.
Leaves(p, left, gens) ==
    \E b \in {FALSE, CloseFails} :
        stuck' = [stuck EXCEPT ![p] = [stable |-> b, gens |-> left.gens \cup gens]]

\* relinquish: the lock of generation t is closed and forgotten, or stays retained.
Relinquish(p, t) == held' = [held EXCEPT ![p] = @ \ {t}]
RelinquishFails(p, t) == CloseFails /\ t \in held[p] /\ UNCHANGED held

-----------------------------------------------------------------------------
(* Acquire *)

\* Acquire by the recorded owner whose generation this process retains.
RefreshesOwn(o) == rec.owner = o /\ Unexpired /\ rec.token \in held[ProcOf[o]]

AcquireRefresh(o, left) ==
    /\ RefreshesOwn(o)
    /\ op' = [kind |-> "refresh", owner |-> o, token |-> rec.token, expiry |-> clock + TTL,
              call |-> "acquire"]
    /\ stuck' = [stuck EXCEPT ![ProcOf[o]] = left]
    /\ UNCHANGED held

\* Someone's unexpired hold: the probe finds its process alive (ErrLeaseHeld) or
\* dead; a probe that cannot be closed keeps the lock and ends the call.
Contested(o) == ~RefreshesOwn(o) /\ rec.owner # NoOwner /\ Unexpired

AcquireRefused(o, left) ==
    /\ Contested(o)
    /\ \/ GenerationLive(ProcOf[o]) /\ Leaves(ProcOf[o], left, {})
       \/ CloseFails /\ ~GenerationLive(ProcOf[o]) /\ Leaves(ProcOf[o], left, {rec.token})
    /\ UNCHANGED <<held, op>>

NextToken == rec.token + 1

\* The takeover lets a predecessor retained by this process go, locks the next
\* generation, and goes on to write; without the lock it gives up.
AcquireTake(o, left) ==
    LET p == ProcOf[o]
    IN  /\ ~RefreshesOwn(o) /\ (Contested(o) => ~GenerationLive(p))
        /\ rec.token < MaxToken
        /\ \/ Relinquish(p, rec.token) /\ ~Locked(NextToken)
              /\ op' = [kind |-> "take", owner |-> o, token |-> NextToken,
                        expiry |-> clock + TTL, call |-> "acquire"]
              /\ stuck' = [stuck EXCEPT ![p] = left]
           \/ Relinquish(p, rec.token) /\ Locked(NextToken)
              /\ Leaves(p, left, {}) /\ UNCHANGED op
           \/ RelinquishFails(p, rec.token)
              /\ Leaves(p, left, {}) /\ UNCHANGED op

\* One Acquire or Release at a time for an owner, none while it relies on a hold.
Acquire(o) ==
    /\ handle[o].st # "live" /\ pend[o].release = 0
    /\ \E left \in [stable : {FALSE}, gens : SUBSET stuck[ProcOf[o]].gens] :
          /\ Enters(ProcOf[o], left)
          /\ AcquireRefresh(o, left) \/ AcquireRefused(o, left) \/ AcquireTake(o, left)
    /\ UNCHANGED <<clock, rec, pend, handle>>

-----------------------------------------------------------------------------
(* Renew and Release: the caller's lease value is fixed when it calls *)

BeginRenew(o) ==
    /\ handle[o].st = "live" /\ pend[o].renew = 0
    /\ pend' = [pend EXCEPT ![o].renew = handle[o].token]
    /\ UNCHANGED <<clock, rec, op, held, stuck, handle>>

BeginRelease(o) ==
    /\ handle[o].st \in {"live", "dropped"} /\ pend[o].release = 0
    /\ ~(op.owner = o /\ op.call = "acquire")
    /\ pend' = [pend EXCEPT ![o].release = handle[o].token]
    /\ handle' = [handle EXCEPT ![o].st = "released"]
    /\ UNCHANGED <<clock, rec, op, held, stuck>>

\* A context ends before the call gets the gate and the stable lock.
GiveUp(o) ==
    /\ \/ pend[o].renew # 0 /\ pend' = [pend EXCEPT ![o].renew = 0]
       \/ pend[o].release # 0 /\ pend' = [pend EXCEPT ![o].release = 0]
    /\ UNCHANGED <<clock, rec, op, held, stuck, handle>>

\* A variant that looks at the owner alone.
IsCurrentOwner(o, t) == rec.owner = o
\* The record still names this owner at this token.
IsCurrent(o, t) == rec.owner = o /\ rec.token = t

\* ErrLeaseHeld: the loss signal drops the handle the Renew was made for.
Lost(o, t) ==
    handle' = IF handle[o].st = "live" /\ handle[o].token = t
              THEN [handle EXCEPT ![o].st = "dropped"] ELSE handle

\* Expiry by itself is no loss: a matching record is written afresh.
Renew(o) ==
    LET p == ProcOf[o]
        t == pend[o].renew
    IN  /\ t # 0
        /\ pend' = [pend EXCEPT ![o].renew = 0]
        /\ \E left \in [stable : {FALSE}, gens : SUBSET stuck[p].gens] :
              /\ Enters(p, left)
              /\ \/ /\ t \in held[p] /\ IsCurrent(o, t)
                    /\ op' = [kind |-> "refresh", owner |-> o, token |-> t,
                              expiry |-> clock + TTL, call |-> "renew"]
                    /\ stuck' = [stuck EXCEPT ![p] = left]
                    /\ UNCHANGED <<held, handle>>
                 \/ /\ ~(t \in held[p] /\ IsCurrent(o, t))
                    /\ Relinquish(p, t) \/ RelinquishFails(p, t)
                    /\ Leaves(p, left, {})
                    /\ Lost(o, t)
                    /\ UNCHANGED op
        /\ UNCHANGED <<clock, rec>>

Release(o) ==
    LET p == ProcOf[o]
        t == pend[o].release
    IN  /\ t # 0
        /\ pend' = [pend EXCEPT ![o].release = 0]
        /\ \E left \in [stable : {FALSE}, gens : SUBSET stuck[p].gens] :
              /\ Enters(p, left)
              /\ \/ /\ t \in held[p] /\ IsCurrent(o, t)
                    /\ op' = [kind |-> "tombstone", owner |-> o, token |-> t,
                              expiry |-> clock, call |-> "release"]
                    /\ stuck' = [stuck EXCEPT ![p] = left]
                    /\ UNCHANGED held
                 \/ /\ ~(t \in held[p] /\ IsCurrent(o, t))
                    /\ Relinquish(p, t) \/ RelinquishFails(p, t)
                    /\ Leaves(p, left, {})
                    /\ UNCHANGED op
        /\ UNCHANGED <<clock, rec, handle>>

-----------------------------------------------------------------------------
(* writeRecord, and the end of the transition *)

Written == [owner |-> IF op.kind = "tombstone" THEN NoOwner ELSE op.owner,
            token |-> op.token, expiry |-> op.expiry]

\* setHeld after a takeover, relinquish after a tombstone.
HeldAfter(p) ==
    CASE op.kind = "take" -> held[p] \cup {op.token}
      [] op.kind = "tombstone" -> held[p] \ {op.token}
      [] OTHER -> held[p]

\* The rename succeeds; the caller stores the lease it is given, a renewer only
\* while the hold it renewed is still the one it has.
Commit ==
    LET p == ProcOf[op.owner]
        o == op.owner
        stores == \/ op.call = "acquire"
                  \/ op.call = "renew" /\ handle[o].st = "live" /\ handle[o].token = op.token
    IN  /\ op # Idle
        /\ rec' = Written
        /\ \/ held' = [held EXCEPT ![p] = HeldAfter(p)]
           \/ op.kind = "tombstone" /\ RelinquishFails(p, op.token)
        /\ Leaves(p, stuck[p], {})
        /\ handle' = IF stores THEN [handle EXCEPT ![o] = [st |-> "live", token |-> op.token,
                                                           expiry |-> op.expiry]]
                     ELSE handle
        /\ op' = Idle
        /\ UNCHANGED <<clock, pend>>

\* The write fails: nothing changed on disk, and a new generation's lock is closed
\* or kept for cleanup.
WriteFails ==
    LET p == ProcOf[op.owner]
    IN  /\ op # Idle
        /\ \/ Leaves(p, stuck[p], {})
           \/ CloseFails /\ op.kind = "take" /\ Leaves(p, stuck[p], {op.token})
        /\ op' = Idle
        /\ UNCHANGED <<clock, rec, held, pend, handle>>

\* The process dies and the kernel frees its locks; a transition of its own may
\* have renamed the record already.
Crash(p) ==
    LET mine == op # Idle /\ ProcOf[op.owner] = p
    IN  /\ op' = IF mine THEN Idle ELSE op
        /\ rec' = rec \/ (mine /\ rec' = Written)
        /\ held' = [held EXCEPT ![p] = {}]
        /\ stuck' = [stuck EXCEPT ![p] = NoStuck]
        /\ pend' = [o \in Owners |-> IF ProcOf[o] = p THEN NoPend ELSE pend[o]]
        /\ handle' = [o \in Owners |-> IF ProcOf[o] = p THEN NoHandle ELSE handle[o]]
        /\ UNCHANGED clock

\* The caller stops relying on the hold without releasing it.
Drop(o) ==
    /\ handle[o].st = "live"
    /\ handle' = [handle EXCEPT ![o].st = "dropped"]
    /\ UNCHANGED <<clock, rec, op, held, stuck, pend>>

Tick ==
    /\ clock < MaxClock
    /\ clock' = clock + 1
    /\ UNCHANGED <<rec, op, held, stuck, pend, handle>>

Next ==
    \/ Tick \/ Commit \/ WriteFails
    \/ \E p \in Procs : Crash(p)
    \/ \E o \in Owners : \/ Acquire(o) \/ BeginRenew(o) \/ BeginRelease(o) \/ GiveUp(o)
                         \/ Renew(o) \/ Release(o) \/ Drop(o)

Spec == Init /\ [][Next]_vars

-----------------------------------------------------------------------------
\* Type invariant of the files, the locks and the calls.
TypeOK ==
    /\ clock \in Nat
    /\ rec \in Record
    /\ op \in Op
    /\ held \in [Procs -> SUBSET Nat]
    /\ stuck \in [Procs -> Stuck]
    /\ pend \in [Owners -> Pend]
    /\ handle \in [Owners -> Handle]

\* Two owners never both rely on an unexpired lease value, in one process or in
\* two, however calls, failed writes, failed closes and crashes interleave, and
\* although an expired hold may be renewed back to life (Acquire, Renew).
Relying(o) == handle[o].st = "live" /\ clock < handle[o].expiry
Exclusion == \A o, p \in Owners : Relying(o) /\ Relying(p) => o = p

\* No two owners were ever given the same token, failed takeovers and releases
\* included (Acquire, writeRecord, Release).
TokenIdentifiesOwner ==
    \A o, p \in Owners :
        /\ handle[o].st # "none" /\ handle[p].st # "none"
        /\ handle[o].token = handle[p].token
        => o = p

\* "A crashed holder can be replaced immediately": unless a lock could not be
\* closed, the recorded generation is locked by the very process that acquired it,
\* so an unexpired record refuses nobody after that process is gone; and the next
\* generation is never found locked (Acquire, generationLive).
LockIsTheHolders ==
    (\A p \in Procs : stuck[p] = NoStuck) =>
        /\ rec.owner # NoOwner /\ Locked(rec.token) => rec.token \in held[ProcOf[rec.owner]]
        /\ op.kind # "take" => ~Locked(rec.token + 1)

\* Why these hold, as an invariant of every step.  A token is locked or known only
\* if it was written, or is the one being taken; the record's own token belongs to
\* the recorded owner.  A live handle is expired or is the record with its lock
\* retained.  What a transition decided under the stable lock stays true until it
\* writes.
TokensOf(o) == {handle[o].token, pend[o].renew, pend[o].release}
TokensBounded ==
    /\ \A p \in Procs : \A t \in held[p] : t # 0 /\ t <= rec.token
    /\ \A p \in Procs : \A t \in stuck[p].gens : t <= rec.token + 1
    /\ \A o \in Owners :
          /\ \A t \in TokensOf(o) : t <= rec.token
          /\ handle[o].st # "none" => handle[o].token # 0
          /\ rec.token \in TokensOf(o) \ {0} => rec.owner \in {o, NoOwner}
HeldByOwner ==
    \A p \in Procs : rec.owner # NoOwner /\ rec.token \in held[p] => p = ProcOf[rec.owner]
LiveHandleIsRecord ==
    \A o \in Owners : handle[o].st = "live" =>
        \/ clock >= handle[o].expiry
        \/ /\ rec.owner = o /\ rec.token = handle[o].token
           /\ handle[o].expiry <= rec.expiry
           /\ rec.token \in held[ProcOf[o]]
ReleaseForgets == \A o \in Owners : pend[o].release # 0 => handle[o].st = "released"
DecisionHolds ==
    /\ op.kind = "none" => op = Idle
    /\ op.kind # "none" => op.owner \in Owners
    /\ op.kind # "none" /\ op.call = "acquire" =>
          handle[op.owner].st # "live" /\ pend[op.owner].release = 0
    /\ op.kind = "take" =>
          /\ op.token = rec.token + 1 /\ op.call = "acquire"
          /\ rec.owner = NoOwner \/ clock >= rec.expiry \/ ~Locked(rec.token)
    /\ op.kind \in {"refresh", "tombstone"} =>
          /\ rec.owner = op.owner /\ op.token = rec.token
          /\ rec.token \in held[ProcOf[op.owner]]
    /\ op.kind = "refresh" => op.call # "release"
    /\ op.kind = "tombstone" => op.call = "release" /\ handle[op.owner].st = "released"
LeaseInv ==
    /\ TypeOK
    /\ TokensBounded
    /\ TokenIdentifiesOwner
    /\ HeldByOwner
    /\ LiveHandleIsRecord
    /\ ReleaseForgets
    /\ DecisionHolds

\* The file-lock backend implements the port's contract: a hold has lapsed once it
\* is past its expiry or its generation's lock is free.
Port == INSTANCE SessionLease WITH
            Sessions <- {Sid},
            holder <- [s \in {Sid} |-> rec.owner],
            token <- [s \in {Sid} |-> rec.token],
            lapsed <- [s \in {Sid} |-> rec.owner # NoOwner /\ ~(Unexpired /\ Locked(rec.token))]
PortSpec == Port!ASpec
=============================================================================
