--------------------------- MODULE MemLeaseProofs ---------------------------
(***************************************************************************)
(* Proofs about the in-memory lease for every set of owners and sessions   *)
(* and every TTL.  LeaseInv is inductive; exclusion, token uniqueness, the *)
(* action property and the refinement of the port contract follow from it. *)
(***************************************************************************)
EXTENDS MemLease, TLAPS

USE NoOwnerAssumption, TTLAssumption, BoundsAssumption

\* The empty lease table, with no call in flight and no handle, satisfies the
\* inductive invariant.
LEMMA InitLeaseInv == Init => LeaseInv
  BY DEF Init, LeaseInv, TypeOK, TokensBounded, TokenIdentifiesOwner,
         RecordHasHandle, LiveHandleIsRecord, ReadsInPast, Held, Record, NoLease,
         AcqCall, RenCall, NoCall, NoRenew, Handle, NoHandle

\* Begin steps and ticks only read the clock or move it forward.
LEMMA BeginAcquireInv ==
  ASSUME LeaseInv, NEW o \in Owners, NEW s \in Sessions, BeginAcquire(o, s)
  PROVE  LeaseInv'
  BY DEF BeginAcquire, LeaseInv, TypeOK, TokensBounded, TokenIdentifiesOwner,
         RecordHasHandle, LiveHandleIsRecord, ReadsInPast, Held, Record,
         AcqCall, RenCall, Handle

LEMMA BeginRenewInv ==
  ASSUME LeaseInv, NEW o \in Owners, NEW s \in Sessions, BeginRenew(o, s)
  PROVE  LeaseInv'
  BY DEF BeginRenew, LeaseInv, TypeOK, TokensBounded, TokenIdentifiesOwner,
         RecordHasHandle, LiveHandleIsRecord, ReadsInPast, Held, Record,
         AcqCall, RenCall, Handle

LEMMA TickInv ==
  ASSUME LeaseInv, Tick
  PROVE  LeaseInv'
  BY DEF Tick, LeaseInv, TypeOK, TokensBounded, TokenIdentifiesOwner,
         RecordHasHandle, LiveHandleIsRecord, ReadsInPast, Held, Record,
         AcqCall, RenCall, Handle

LEMMA DropInv ==
  ASSUME LeaseInv, NEW o \in Owners, NEW s \in Sessions, Drop(o, s)
  PROVE  LeaseInv'
<1>1. TypeOK' /\ TokensBounded' /\ ReadsInPast'
  BY DEF Drop, Marked, LeaseInv, TypeOK, TokensBounded, ReadsInPast, Record, AcqCall, RenCall,
         Handle
<1>2. TokenIdentifiesOwner' /\ RecordHasHandle'
  BY DEF Drop, Marked, LeaseInv, TypeOK, TokenIdentifiesOwner, RecordHasHandle, Held, Record,
         Handle
<1>3. LiveHandleIsRecord'
  BY DEF Drop, Marked, LeaseInv, TypeOK, LiveHandleIsRecord, Record, Handle
<1> QED BY <1>1, <1>2, <1>3 DEF LeaseInv

LEMMA ReleaseInv ==
  ASSUME LeaseInv, NEW o \in Owners, NEW s \in Sessions, Release(o, s)
  PROVE  LeaseInv'
<1>1. TypeOK' /\ TokensBounded' /\ ReadsInPast'
  BY DEF Release, Marked, LeaseInv, TypeOK, TokensBounded, ReadsInPast, Record, NoLease, AcqCall,
         RenCall, Handle
<1>2. TokenIdentifiesOwner' /\ RecordHasHandle'
  BY DEF Release, Marked, LeaseInv, TypeOK, TokenIdentifiesOwner, RecordHasHandle, Held, Record,
         NoLease, Handle
<1>3. LiveHandleIsRecord'
  BY DEF Release, Marked, LeaseInv, TypeOK, TokenIdentifiesOwner, LiveHandleIsRecord, Record,
         NoLease, Handle
<1> QED BY <1>1, <1>2, <1>3 DEF LeaseInv

LEMMA RenewInv ==
  ASSUME LeaseInv, NEW o \in Owners, NEW s \in Sessions, Renew(o, s)
  PROVE  LeaseInv'
<1> DEFINE now == ren[o][s].now
           tok == ren[o][s].token
           current == handle[o][s].st = "live" /\ handle[o][s].token = tok
<1>0. /\ clock' = clock /\ acq' = acq
      /\ ren' = [ren EXCEPT ![o][s] = NoRenew]
      /\ now \in Nat /\ tok \in Nat /\ now <= clock
  BY DEF Renew, LeaseInv, TypeOK, ReadsInPast, RenCall
<1>1. CASE RenewHolds(o, s, tok, now)
  <2>1. /\ leases[s].owner = o /\ leases[s].token = tok
        /\ handle[o][s].st \in {"live", "dropped"} /\ handle[o][s].token = tok
    BY <1>1 DEF RenewHolds, Held, LeaseInv, RecordHasHandle
  <2>2. /\ leases' = [leases EXCEPT ![s] =
              [owner |-> o, token |-> tok, expiry |-> now + TTL]]
        /\ maxTok' = maxTok
    BY <1>1, <2>1 DEF Renew, Grant, LeaseInv, TypeOK, TokensBounded, Record
  <2>3. CASE current
    <3>1. handle' = [handle EXCEPT ![o][s] =
              [st |-> "live", token |-> tok, expiry |-> now + TTL]]
      BY <1>1, <2>3 DEF Renew, Stored
    <3>2. TypeOK'
      BY <1>0, <2>2, <3>1 DEF LeaseInv, TypeOK, Record, AcqCall, RenCall, NoRenew, Handle
    <3>3. TokensBounded' /\ ReadsInPast'
      BY <1>0, <2>1, <2>2, <3>1 DEF LeaseInv, TypeOK, TokensBounded, ReadsInPast,
                  Record, AcqCall, RenCall, NoRenew, Handle
    <3>4. TokenIdentifiesOwner' /\ RecordHasHandle'
      BY <2>1, <2>2, <3>1 DEF LeaseInv, TypeOK, TokenIdentifiesOwner,
                  RecordHasHandle, Held, Record, Handle
    <3>5. LiveHandleIsRecord'
      BY <1>0, <2>1, <2>2, <3>1 DEF LeaseInv, TypeOK, LiveHandleIsRecord, Record, Handle
    <3> QED BY <3>2, <3>3, <3>4, <3>5 DEF LeaseInv
  <2>4. CASE ~current
    <3>1. handle' = handle
      BY <1>1, <2>4 DEF Renew
    <3>2. TypeOK'
      BY <1>0, <2>2, <3>1 DEF LeaseInv, TypeOK, Record, AcqCall, RenCall, NoRenew, Handle
    <3>3. TokensBounded' /\ ReadsInPast'
      BY <1>0, <2>1, <2>2, <3>1 DEF LeaseInv, TypeOK, TokensBounded, ReadsInPast,
                  Record, AcqCall, RenCall, NoRenew, Handle
    <3>4. TokenIdentifiesOwner' /\ RecordHasHandle'
      BY <2>1, <2>2, <3>1 DEF LeaseInv, TypeOK, TokenIdentifiesOwner,
                  RecordHasHandle, Held, Record, Handle
    <3>5. LiveHandleIsRecord'
      BY <1>0, <2>1, <2>2, <2>4, <3>1 DEF LeaseInv, TypeOK, LiveHandleIsRecord,
                  Record, Handle
    <3> QED BY <3>2, <3>3, <3>4, <3>5 DEF LeaseInv
  <2> QED BY <2>3, <2>4
<1>2. CASE ~RenewHolds(o, s, tok, now)
  <2>1. leases' = leases /\ maxTok' = maxTok
    BY <1>2 DEF Renew
  <2>2. CASE current
    <3>1. handle' = [handle EXCEPT ![o][s] = [st |-> "dropped",
                       token |-> handle[o][s].token, expiry |-> handle[o][s].expiry]]
      BY <1>2, <2>2 DEF Renew, Marked
    <3>2. TypeOK'
      BY <1>0, <2>1, <3>1 DEF LeaseInv, TypeOK, Record, AcqCall, RenCall, NoRenew, Handle
    <3>3. TokensBounded' /\ ReadsInPast'
      BY <1>0, <2>1, <3>1 DEF LeaseInv, TypeOK, TokensBounded, ReadsInPast, Record,
                AcqCall, RenCall, NoRenew, Handle
    <3>4. TokenIdentifiesOwner' /\ RecordHasHandle'
      BY <2>1, <2>2, <3>1 DEF LeaseInv, TypeOK, TokenIdentifiesOwner, RecordHasHandle,
                Held, Record, Handle
    <3>5. LiveHandleIsRecord'
      BY <1>0, <2>1, <3>1 DEF LeaseInv, TypeOK, LiveHandleIsRecord, Record, Handle
    <3> QED BY <3>2, <3>3, <3>4, <3>5 DEF LeaseInv
  <2>3. CASE ~current
    <3>1. handle' = handle
      BY <1>2, <2>3 DEF Renew
    <3> QED BY <1>0, <2>1, <3>1 DEF LeaseInv, TypeOK, TokensBounded,
          TokenIdentifiesOwner, RecordHasHandle, LiveHandleIsRecord, ReadsInPast,
          Held, RenCall, NoRenew
  <2> QED BY <2>2, <2>3
<1> QED BY <1>1, <1>2

LEMMA AcquireInv ==
  ASSUME LeaseInv, NEW o \in Owners, NEW s \in Sessions, Acquire(o, s)
  PROVE  LeaseInv'
<1> DEFINE now == acq[o][s].now
<1>0. clock' = clock
  BY DEF Acquire
<1>1. CASE ~Held(s) \/ Expired(s, now)
  <2>1. /\ leases' = [leases EXCEPT ![s] =
              [owner |-> o, token |-> maxTok[s] + 1, expiry |-> now + TTL]]
        /\ maxTok' = [maxTok EXCEPT ![s] = @ + 1]
        /\ handle' = [handle EXCEPT ![o][s] =
              [st |-> "live", token |-> maxTok[s] + 1, expiry |-> now + TTL]]
    BY <1>1 DEF Acquire, AcquireToken, Grant, Stored, LeaseInv, TypeOK
  <2>2. TypeOK'
    BY <2>1 DEF Acquire, LeaseInv, TypeOK, Record, AcqCall, RenCall, NoCall, Handle
  <2>3. TokensBounded' /\ ReadsInPast'
    BY <2>1 DEF Acquire, LeaseInv, TypeOK, TokensBounded, ReadsInPast, Record,
                AcqCall, RenCall, NoCall, Handle
  <2>4. TokenIdentifiesOwner' /\ RecordHasHandle'
    BY <2>1 DEF LeaseInv, TypeOK, TokensBounded, TokenIdentifiesOwner,
                RecordHasHandle, Held, Record, Handle
  <2>5. LiveHandleIsRecord'
    BY <1>1, <2>1 DEF Acquire, LeaseInv, TypeOK, LiveHandleIsRecord, ReadsInPast,
                Held, Expired, Record, AcqCall, Handle
  <2> QED BY <2>2, <2>3, <2>4, <2>5 DEF LeaseInv
<1>2. CASE Held(s) /\ ~Expired(s, now) /\ leases[s].owner = o
  <2>0. handle[o][s].st \in {"live", "dropped"} /\ handle[o][s].token = leases[s].token
    BY <1>2 DEF LeaseInv, RecordHasHandle
  <2>1. /\ leases' = [leases EXCEPT ![s] =
              [owner |-> o, token |-> leases[s].token, expiry |-> now + TTL]]
        /\ maxTok' = maxTok
        /\ handle' = [handle EXCEPT ![o][s] =
              [st |-> "live", token |-> leases[s].token, expiry |-> now + TTL]]
    BY <1>2 DEF Acquire, AcquireToken, Grant, Stored, LeaseInv, TypeOK, TokensBounded, Record
  <2>2. TypeOK'
    BY <2>1 DEF Acquire, LeaseInv, TypeOK, Record, AcqCall, RenCall, NoCall, Handle
  <2>3. TokensBounded' /\ ReadsInPast'
    BY <2>1 DEF Acquire, LeaseInv, TypeOK, TokensBounded, ReadsInPast, Record,
                AcqCall, RenCall, NoCall, Handle
  <2>4. TokenIdentifiesOwner' /\ RecordHasHandle'
    BY <1>2, <2>0, <2>1 DEF LeaseInv, TypeOK, TokenIdentifiesOwner,
                RecordHasHandle, Held, Record, Handle
  <2>5. LiveHandleIsRecord'
    BY <1>0, <1>2, <2>1 DEF LeaseInv, TypeOK, LiveHandleIsRecord, AcqCall, Record, Handle
  <2> QED BY <2>2, <2>3, <2>4, <2>5 DEF LeaseInv
<1>3. CASE Held(s) /\ ~Expired(s, now) /\ leases[s].owner # o
  <2>1. TypeOK' /\ ReadsInPast'
    BY <1>3 DEF Acquire, LeaseInv, TypeOK, ReadsInPast, Held, Expired, Record, AcqCall, RenCall,
                NoCall, Handle
  <2>2. UNCHANGED <<leases, maxTok, clock, handle>>
    BY <1>3 DEF Acquire, Held, Expired
  <2>3. TokensBounded' /\ TokenIdentifiesOwner' /\ RecordHasHandle' /\ LiveHandleIsRecord'
    BY <2>2 DEF LeaseInv, TokensBounded, TokenIdentifiesOwner, RecordHasHandle,
                LiveHandleIsRecord, Held
  <2> QED BY <2>1, <2>3 DEF LeaseInv
<1> QED BY <1>1, <1>2, <1>3

\* No step of the protocol breaks the inductive invariant.
LEMMA NextLeaseInv == LeaseInv /\ [Next]_vars => LeaseInv'
<1> SUFFICES ASSUME LeaseInv, [Next]_vars PROVE LeaseInv'
  OBVIOUS
<1>1. CASE UNCHANGED vars
  BY <1>1 DEF vars, LeaseInv, TypeOK, TokensBounded, TokenIdentifiesOwner,
         RecordHasHandle, LiveHandleIsRecord, ReadsInPast, Held
<1>2. CASE Next
  BY <1>2, BeginAcquireInv, AcquireInv, BeginRenewInv, RenewInv, ReleaseInv,
     DropInv, TickInv DEF Next
<1> QED BY <1>1, <1>2

\* Type correctness and the whole inductive invariant hold of every execution.
THEOREM LeaseInvariant == Spec => []LeaseInv
  BY InitLeaseInv, NextLeaseInv, PTL DEF Spec

\* Two owners never both rely on an unexpired lease of one session: the
\* single-writer guarantee the server's run-entry gate is built on.
THEOREM ExclusionTheorem == Spec => []Exclusion
<1>1. LeaseInv => Exclusion
  <2> SUFFICES ASSUME LeaseInv, NEW s \in Sessions, NEW o \in Owners, NEW p \in Owners,
                      Relying(o, s), Relying(p, s)
               PROVE  o = p
    BY DEF Exclusion
  <2>1. clock \in Nat /\ handle[o][s].expiry \in Nat /\ handle[p][s].expiry \in Nat
    BY DEF LeaseInv, TypeOK, Handle
  <2>2. leases[s].owner = o /\ leases[s].owner = p
    BY <2>1 DEF LeaseInv, LiveHandleIsRecord, Relying
  <2> QED BY <2>2
<1> QED BY <1>1, InitLeaseInv, NextLeaseInv, PTL DEF Spec

\* No fencing token is handed to two owners of one session.
THEOREM TokenTheorem == Spec => []TokenIdentifiesOwner
<1>1. LeaseInv => TokenIdentifiesOwner
  BY DEF LeaseInv
<1> QED BY <1>1, InitLeaseInv, NextLeaseInv, PTL DEF Spec

\* A record that has not expired changes hands only through a Release by its
\* own owner.
THEOREM LiveRecordTheorem == Spec => LiveRecordKept
<1>1. ASSUME LeaseInv, [Next]_vars PROVE [NoStealing]_vars
  <2>1. CASE UNCHANGED vars
    BY <2>1
  <2>2. ASSUME NEW o \in Owners, NEW t \in Sessions, Acquire(o, t)
        PROVE  NoStealing
    <3>1. CASE leases' = leases
      BY <3>1 DEF NoStealing
    <3>2. CASE leases[t].owner # o /\ (~Held(t) \/ Expired(t, acq[o][t].now))
      <4>1. ~Held(t) \/ ~(clock < leases[t].expiry)
        BY <1>1, <3>2 DEF Expired, LeaseInv, TypeOK, ReadsInPast, Record, AcqCall
      <4>2. \A s \in Sessions : s # t => leases'[s] = leases[s]
        BY <1>1, <2>2 DEF Acquire, Grant, LeaseInv, TypeOK
      <4> QED BY <4>1, <4>2 DEF NoStealing
    <3>3. CASE leases[t].owner = o
      <4>1. \A s \in Sessions : leases'[s].owner = leases[s].owner
        BY <1>1, <2>2, <3>3 DEF Acquire, Grant, LeaseInv, TypeOK
      <4> QED BY <4>1 DEF NoStealing
    <3> QED BY <2>2, <3>1, <3>2, <3>3 DEF Acquire
  <2>3. ASSUME NEW o \in Owners, NEW t \in Sessions, Renew(o, t)
        PROVE  NoStealing
    <3>1. \A s \in Sessions : leases'[s].owner = leases[s].owner
      BY <1>1, <2>3 DEF Renew, RenewHolds, Grant, LeaseInv, TypeOK
    <3> QED BY <3>1 DEF NoStealing
  <2>4. ASSUME NEW o \in Owners, NEW t \in Sessions, Release(o, t)
        PROVE  NoStealing
    BY <1>1, <2>4 DEF Release, Marked, NoLease, Held, NoStealing, LeaseInv, TypeOK,
         Record, Handle
  <2>5. ASSUME leases' = leases
        PROVE  NoStealing
    BY <2>5 DEF NoStealing
  <2> QED
    BY <1>1, <2>1, <2>2, <2>3, <2>4, <2>5 DEF Next, BeginAcquire, BeginRenew, Drop, Tick
<1> QED BY <1>1, InitLeaseInv, NextLeaseInv, PTL DEF Spec, LiveRecordKept

-----------------------------------------------------------------------------
\* The abstract holder and lapsed flag of the refinement mapping.
pholder == [s \in Sessions |-> leases[s].owner]
plapsed == [s \in Sessions |-> Held(s) /\ clock >= leases[s].expiry]

\* An Acquire is a takeover, a refresh of the owner's own hold, or a refusal
\* that the port's contract does not see.
LEMMA AcquireRefines ==
  ASSUME LeaseInv, NEW o \in Owners, NEW s \in Sessions, Acquire(o, s)
  PROVE  [Port!ANext]_(Port!avars)
<1> DEFINE now == acq[o][s].now
<1>0. clock' = clock /\ clock \in Nat /\ now \in Nat /\ now <= clock
  BY DEF Acquire, LeaseInv, TypeOK, ReadsInPast, AcqCall
<1>1. CASE ~Held(s) \/ Expired(s, now)
  <2>1. /\ leases' = [leases EXCEPT ![s] =
              [owner |-> o, token |-> maxTok[s] + 1, expiry |-> now + TTL]]
        /\ maxTok' = [maxTok EXCEPT ![s] = @ + 1]
    BY <1>1 DEF Acquire, AcquireToken, Grant, LeaseInv, TypeOK
  <2>2. leases[s].owner = NoOwner \/ (Held(s) /\ clock >= leases[s].expiry)
    BY <1>0, <1>1 DEF Held, Expired, LeaseInv, TypeOK, Record
  <2>3. pholder' = [pholder EXCEPT ![s] = o]
    BY <2>1 DEF pholder, LeaseInv, TypeOK
  <2>4. plapsed' = [plapsed EXCEPT ![s] = plapsed'[s]]
    BY <1>0, <2>1 DEF plapsed, Held, LeaseInv, TypeOK
  <2>5. plapsed'[s] \in BOOLEAN
    BY DEF plapsed
  <2>6. Port!Takeover(s, o)
    BY <2>1, <2>2, <2>3, <2>4, <2>5 DEF Port!Takeover, pholder, plapsed
  <2> QED BY <2>6 DEF Port!ANext
<1>2. CASE Held(s) /\ ~Expired(s, now) /\ leases[s].owner = o
  <2>1. /\ leases' = [leases EXCEPT ![s] =
              [owner |-> o, token |-> leases[s].token, expiry |-> now + TTL]]
        /\ maxTok' = maxTok
    BY <1>2 DEF Acquire, AcquireToken, Grant, LeaseInv, TypeOK, TokensBounded, Record
  <2>3. pholder' = pholder
    BY <1>2, <2>1 DEF pholder, LeaseInv, TypeOK
  <2>4. plapsed' = [plapsed EXCEPT ![s] = plapsed'[s]]
    BY <1>0, <2>1 DEF plapsed, Held, LeaseInv, TypeOK
  <2>5. plapsed'[s] \in BOOLEAN
    BY DEF plapsed
  <2>6. Port!Refresh(s)
    BY <1>2, <2>1, <2>3, <2>4, <2>5 DEF Port!Refresh, pholder, plapsed, Held
  <2> QED BY <2>6 DEF Port!ANext
<1>3. CASE Held(s) /\ ~Expired(s, now) /\ leases[s].owner # o
  BY <1>0, <1>3 DEF Acquire, Held, Expired, Port!avars
<1> QED BY <1>1, <1>2, <1>3

\* A successful Renew is a refresh; a refused one changes nothing recorded.
LEMMA RenewRefines ==
  ASSUME LeaseInv, NEW o \in Owners, NEW s \in Sessions, Renew(o, s)
  PROVE  [Port!ANext]_(Port!avars)
<1> DEFINE now == ren[o][s].now
           tok == ren[o][s].token
<1>0. clock' = clock
  BY DEF Renew
<1>1. CASE RenewHolds(o, s, tok, now)
  <2>1. /\ leases' = [leases EXCEPT ![s] =
              [owner |-> o, token |-> tok, expiry |-> now + TTL]]
        /\ maxTok' = maxTok
    <3>1. Grant(s, o, tok, now)
      BY <1>1 DEF Renew
    <3>2. leases[s] \in Record /\ maxTok \in [Sessions -> Nat]
      BY DEF LeaseInv, TypeOK
    <3>3. leases[s].token = tok /\ leases[s].token <= maxTok[s]
      BY <1>1 DEF RenewHolds, LeaseInv, TokensBounded
    <3>4. tok \in Nat /\ maxTok[s] \in Nat /\ tok <= maxTok[s]
      BY <3>2, <3>3 DEF Record
    <3> HIDE DEF tok, now
    <3>5. (IF tok > maxTok[s] THEN tok ELSE maxTok[s]) = maxTok[s]
      BY ONLY <3>4
    <3>6. maxTok' = [maxTok EXCEPT ![s] = maxTok[s]]
      BY <3>1, <3>5 DEF Grant
    <3> QED BY <3>1, <3>2, <3>6 DEF Grant
  <2>3. pholder' = pholder
    BY <1>1, <2>1 DEF RenewHolds, pholder, LeaseInv, TypeOK
  <2>4. plapsed' = [plapsed EXCEPT ![s] = plapsed'[s]]
    BY <1>0, <2>1 DEF plapsed, Held, LeaseInv, TypeOK
  <2>5. plapsed'[s] \in BOOLEAN
    BY DEF plapsed
  <2>6. Port!Refresh(s)
    BY <1>1, <2>1, <2>3, <2>4, <2>5 DEF RenewHolds, Port!Refresh, pholder, plapsed, Held
  <2> QED BY <2>6 DEF Port!ANext
<1>2. CASE ~RenewHolds(o, s, tok, now)
  BY <1>0, <1>2 DEF Renew, Held, Port!avars
<1> QED BY <1>1, <1>2

\* A Release drops the caller's own hold or does nothing.
LEMMA ReleaseRefines ==
  ASSUME LeaseInv, NEW o \in Owners, NEW s \in Sessions, Release(o, s)
  PROVE  [Port!ANext]_(Port!avars)
<1>0. clock' = clock /\ maxTok' = maxTok
  BY DEF Release
<1>1. CASE leases[s].owner = o /\ leases[s].token = handle[o][s].token
  <2>1. leases' = [leases EXCEPT ![s] = NoLease]
    BY <1>1 DEF Release
  <2>3. pholder' = [pholder EXCEPT ![s] = NoOwner]
    BY <2>1 DEF pholder, NoLease, LeaseInv, TypeOK
  <2>4. plapsed' = [plapsed EXCEPT ![s] = FALSE]
    BY <1>0, <2>1 DEF plapsed, Held, NoLease, LeaseInv, TypeOK
  <2>6. Port!Relinquish(s)
    BY <1>0, <1>1, <2>3, <2>4 DEF Port!Relinquish, pholder, plapsed
  <2> QED BY <2>6 DEF Port!ANext
<1>2. CASE ~(leases[s].owner = o /\ leases[s].token = handle[o][s].token)
  BY <1>0, <1>2 DEF Release, Held, Port!avars
<1> QED BY <1>1, <1>2

\* A tick of the clock only lets holds lapse.
LEMMA TickRefines ==
  ASSUME LeaseInv, Tick
  PROVE  [Port!ANext]_(Port!avars)
<1>1. leases' = leases /\ maxTok' = maxTok /\ clock' = clock + 1
  BY DEF Tick
<1>2. \A s \in Sessions : plapsed[s] => plapsed'[s]
  <2> SUFFICES ASSUME NEW s \in Sessions, plapsed[s] PROVE plapsed'[s]
    OBVIOUS
  <2>1. Held(s) /\ clock >= leases[s].expiry
    BY DEF plapsed
  <2>2. clock + 1 >= leases[s].expiry
    BY <2>1 DEF LeaseInv, TypeOK, Record
  <2>3. Held(s)' /\ clock' >= leases'[s].expiry
    BY <1>1, <2>1, <2>2 DEF Held
  <2> QED BY <2>3, Zenon DEF plapsed
<1>3. \A s \in Sessions : plapsed'[s] => leases[s].owner # NoOwner
  BY <1>1 DEF plapsed, Held
<1>4. plapsed' \in [Sessions -> BOOLEAN]
  BY DEF plapsed
<1>5. Port!Lapse
  BY <1>1, <1>2, <1>3, <1>4 DEF Port!Lapse, plapsed, Held
<1> QED BY <1>5 DEF Port!ANext

\* The in-memory backend implements the contract of port.SessionLease: every
\* execution, with the clock read outside the mutex and calls overlapping, is
\* under the mapping an execution of the abstract lease.
THEOREM RefinesPort == Spec => PortSpec
<1>1. Init => Port!AInit
  <2> SUFFICES ASSUME Init PROVE Port!AInit
    OBVIOUS
  <2>1. \A s \in Sessions : leases[s].owner = NoOwner
    BY DEF Init, NoLease
  <2>2. maxTok = [s \in Sessions |-> 0]
    BY DEF Init
  <2> QED BY <2>1, <2>2, Zenon DEF Port!AInit, Held
<1>2. ASSUME LeaseInv, [Next]_vars PROVE [Port!ANext]_(Port!avars)
  <2>1. ASSUME leases' = leases, maxTok' = maxTok, clock' = clock
        PROVE  [Port!ANext]_(Port!avars)
    BY <2>1 DEF Port!avars, Held
  <2> QED
    BY <1>2, <2>1, AcquireRefines, RenewRefines, ReleaseRefines, TickRefines
       DEF Next, vars, BeginAcquire, BeginRenew, Drop
<1> QED BY <1>1, <1>2, InitLeaseInv, NextLeaseInv, PTL DEF Spec, PortSpec, Port!ASpec
=============================================================================
