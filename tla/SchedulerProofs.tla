-------------------------- MODULE SchedulerProofs --------------------------
(***************************************************************************)
(* Theorems about the scheduler, for any number of replicas, any policy    *)
(* and any bounds: no slot is claimed twice, the budget of fires, the      *)
(* placement of a deleted schedule, outcomes, pauses and overlap.          *)
(*                                                                         *)
(* The steps are sorted once, by what they do to a thread (ThreadSteps)    *)
(* and to the record and its history (StoreSteps); each invariant is then  *)
(* proved over those few kinds of steps.                                   *)
(***************************************************************************)
EXTENDS Scheduler, FiniteSetTheorems, TLAPS

-----------------------------------------------------------------------------
(* The store's operators *)

LEMMA FireIdFacts ==
    /\ Pending \notin FireIds /\ NoFire \notin FireIds /\ Pending # NoFire
    /\ \A f \in FireIds : f \in Nat
    /\ MaxFires \in Nat
BY FireIdsAssumption DEF Pending, NoFire

LEMMA StateFields ==
    ASSUME NEW s \in State
    PROVE  /\ s.gen \in Nat /\ s.enabled \in BOOLEAN /\ s.next \in Nat /\ s.last \in Nat
           /\ s.count \in Nat /\ s.sess \in FireIds \cup {NoFire, Pending}
           /\ s.started \in Nat /\ s.retries \in Nat /\ s.del \in Nat
BY DEF State

LEMMA AbsentType ==
    /\ Absent \in State /\ Absent.gen = 0 /\ Absent.del = 0 /\ ~Absent.enabled
    /\ Absent.next = 0 /\ Absent.count = 0 /\ Absent.retries = 0
BY DEF Absent, State

LEMMA CreatedType ==
    ASSUME NEW g \in Nat, NEW n \in Nat
    PROVE  /\ Created(g, n) \in State
           /\ Created(g, n).gen = g /\ Created(g, n).next = n
           /\ Created(g, n).count = 0 /\ Created(g, n).del = 0 /\ Created(g, n).retries = 0
BY Zenon DEF Created, Absent, State

LEMMA ClaimedType ==
    ASSUME NEW s \in State, NEW now \in Nat, NEW n \in Nat
    PROVE  /\ Claimed(s, now, n) \in State
           /\ Claimed(s, now, n).gen = s.gen /\ Claimed(s, now, n).next = n
           /\ Claimed(s, now, n).count = s.count + 1 /\ Claimed(s, now, n).del = s.del
           /\ Claimed(s, now, n).sess = Pending /\ Claimed(s, now, n).retries = s.retries
           /\ Claimed(s, now, n).last = now /\ Claimed(s, now, n).started = 0
<1> DEFINE c(m, b) == [s EXCEPT !.last = now, !.next = n, !.count = m, !.sess = Pending,
                                !.started = 0, !.enabled = b]
<1>1. ASSUME NEW m \in Nat, NEW b \in BOOLEAN
      PROVE  /\ c(m, b) \in State /\ c(m, b).gen = s.gen /\ c(m, b).next = n
             /\ c(m, b).count = m /\ c(m, b).del = s.del /\ c(m, b).sess = Pending
             /\ c(m, b).enabled = b /\ c(m, b).retries = s.retries
             /\ c(m, b).last = now /\ c(m, b).started = 0
  BY Zenon DEF State
<1>2. s.count + 1 \in Nat  BY StateFields
<1> DEFINE k == s.count + 1
           armed == n # 0
           e == c(k, armed)
<1>3. armed \in BOOLEAN /\ Claimed(s, now, n) = e  BY Zenon DEF Claimed
<1> HIDE DEF c, k, armed
<1>4. /\ e \in State /\ e.gen = s.gen /\ e.next = n /\ e.count = k /\ e.del = s.del
      /\ e.sess = Pending /\ e.enabled = armed /\ e.retries = s.retries
      /\ e.last = now /\ e.started = 0
  BY <1>1, <1>2, <1>3, ZenonT(30) DEF k
<1> HIDE DEF e
<1> QED  BY <1>3, <1>4, Zenon DEF k, armed

\* What RecordFireStart, RecordFire and SetEnabled leave alone.
SameClaims(s, u) ==
    u.gen = s.gen /\ u.next = s.next /\ u.count = s.count /\ u.del = s.del /\ u.retries = s.retries

LEMMA StartedType ==
    ASSUME NEW s \in State, NEW f \in MaybeFire, NEW at \in Nat
    PROVE  /\ Started(s, f, at) \in State /\ SameClaims(s, Started(s, f, at))
           /\ Started(s, f, at).enabled = s.enabled /\ Started(s, f, at).retries = s.retries
           /\ Started(s, f, at).sess = f /\ Started(s, f, at).started = at
           /\ Started(s, f, at).last = s.last
BY Zenon DEF Started, State, MaybeFire, SameClaims

LEMMA RecordedType ==
    ASSUME NEW s \in State, NEW f \in FireIds \cup {NoFire, Pending}
    PROVE  /\ Recorded(s, f) \in State /\ SameClaims(s, Recorded(s, f))
           /\ Recorded(s, f).enabled = s.enabled /\ Recorded(s, f).retries = s.retries
           /\ Recorded(s, f).sess = f /\ Recorded(s, f).started = 0
           /\ Recorded(s, f).last = s.last
BY Zenon DEF Recorded, State, SameClaims

LEMMA EnabledType ==
    ASSUME NEW s \in State, NEW b \in BOOLEAN
    PROVE  /\ [s EXCEPT !.enabled = b] \in State /\ SameClaims(s, [s EXCEPT !.enabled = b])
           /\ [s EXCEPT !.enabled = b].enabled = b /\ [s EXCEPT !.enabled = b].sess = s.sess
           /\ [s EXCEPT !.enabled = b].started = s.started
BY DEF State, SameClaims

LEMMA ReArmedType ==
    ASSUME NEW s \in State, NEW n \in Nat
    PROVE  /\ ReArmed(s, n) \in State
           /\ ReArmed(s, n).gen = s.gen /\ ReArmed(s, n).count = s.count
           /\ ReArmed(s, n).del = s.del /\ ReArmed(s, n).retries = s.retries + 1
           /\ ReArmed(s, n).sess = s.sess
<1> DEFINE c(m) == [s EXCEPT !.enabled = TRUE, !.next = n, !.retries = m]
<1>1. ASSUME NEW m \in Nat
      PROVE  /\ c(m) \in State /\ c(m).gen = s.gen /\ c(m).count = s.count
             /\ c(m).del = s.del /\ c(m).retries = m /\ c(m).sess = s.sess
  BY Zenon DEF State
<1>2. s.retries + 1 \in Nat  BY StateFields
<1> QED  BY ONLY <1>1, <1>2, Zenon DEF ReArmed

LEMMA DeletingType ==
    ASSUME NEW s \in State
    PROVE  /\ Deleting(s) \in State /\ Deleting(s).gen = s.gen /\ Deleting(s).next = s.next
           /\ Deleting(s).count = s.count /\ Deleting(s).del = s.gen /\ ~Deleting(s).enabled
           /\ Deleting(s).retries = s.retries /\ Deleting(s).sess = s.sess /\ Deleting(s).started = s.started
BY Zenon DEF Deleting, State

\* A cron's next fire comes after the instant it is computed for.
LEMMA CronNextLater ==
    ASSUME NEW now \in Nat
    PROVE  CronNext(now) \in Nat /\ now < CronNext(now)
<1>1. Period \in Nat /\ Period > 0  BY SchedulerAssumption
<1> DEFINE q == now \div Period
<1>2. q \in Nat /\ now % Period \in 0..(Period - 1) /\ now = Period * q + (now % Period)  BY <1>1
<1>3. (q + 1) * Period = Period * q + Period /\ Period * q \in Nat  BY <1>1, <1>2
<1> HIDE DEF q
<1>4. (q + 1) * Period \in Nat /\ now < (q + 1) * Period
  BY <1>1, <1>2, <1>3
<1> QED  BY <1>4 DEF CronNext, q

LEMMA NextFireType ==
    ASSUME NEW now \in Nat, NEW s
    PROVE  ComputeNextFire(s, now) = 0 \/
             (Kind # "oneshot" /\ ComputeNextFire(s, now) \in Nat /\ now < ComputeNextFire(s, now))
BY CronNextLater DEF ComputeNextFire

LEMMA FirstType ==
    ASSUME NEW now \in Nat
    PROVE  First(now) \in Nat
BY CronNextLater DEF First

-----------------------------------------------------------------------------
(* Threads *)

ThreadFun == [Replicas -> [Threads -> Thread]]

LEMMA SetThread ==
    ASSUME NEW f \in ThreadFun, NEW r \in Replicas, NEW k \in Threads, NEW x \in Thread
    PROVE  /\ [f EXCEPT ![r][k] = x] \in ThreadFun
           /\ \A q \in Replicas, l \in Threads :
                [f EXCEPT ![r][k] = x][q][l] = IF q = r /\ l = k THEN x ELSE f[q][l]
BY DEF ThreadFun

LEMMA ThreadFields ==
    ASSUME NEW t \in Thread
    PROVE  /\ t.pc \in ThreadPc /\ t.now \in Nat /\ t.due \in BOOLEAN
           /\ t.tgt \in FireIds \cup {NoFire, Pending}
           /\ t.id \in MaybeFire /\ t.got \in MaybeFire /\ t.stop \in Stops
           /\ t.trial \in MaybeFire
           /\ t.snap \in [count: Nat, next: Nat, sess: FireIds \cup {NoFire, Pending}]
           /\ t.snap.count \in Nat /\ t.snap.next \in Nat
           /\ t.snap.sess \in FireIds \cup {NoFire, Pending}
BY DEF Thread

LEMMA SnapType ==
    ASSUME NEW s \in State
    PROVE  Snap(s) \in [count: Nat, next: Nat, sess: FireIds \cup {NoFire, Pending}]
BY DEF Snap, State

LEMMA OffType == Off \in Thread /\ Off.pc = "off" /\ Off.id = NoFire /\ Off.tgt = NoFire
<1>1. Snap(Absent) \in [count: Nat, next: Nat, sess: FireIds \cup {NoFire, Pending}]
  BY AbsentType, SnapType
<1> QED  BY <1>1 DEF Off, Thread, ThreadPc, MaybeFire, Stops

LEMMA AfterScansType ==
    ASSUME NEW t \in Thread
    PROVE  AfterScans(t) \in Thread /\ AfterScans(t).pc \in {"lock", "off"}
<1>1. [t EXCEPT !.pc = "lock"] \in Thread /\ [t EXCEPT !.pc = "lock"].pc = "lock"
  BY DEF Thread, ThreadPc
<1> QED  BY <1>1, OffType DEF AfterScans

\* Where a thread has the mutex of the schedule's name.
LockedPc == {"claim", "create", "start", "enter", "run", "record"}

\* Steps that write neither the store nor the operator's calls nor the history.
Quiet == UNCHANGED <<store, operator, history>>

\* A fire from its claim to its record, and a session once it has been created.
Driving == {"create", "start", "enter", "run", "record"}
HasSession(t) ==
    t.pc \in {"start", "enter", "run"} \/ (t.pc = "record" /\ t.stop = "ok") => t.got = t.id

\* What a step that leaves thread k of replica r as x has seen and done.
Follows(r, k, x) ==
    /\ x.pc = "rearm" => ShouldReArm(rec) /\ Quiet
    /\ x.pc = "settle" => Quiet /\ (rec.sess = Pending \/ rec.started # 0)
    /\ x.pc \in Driving => \/ /\ th[r][k].pc \in Driving /\ x.id = th[r][k].id
                              /\ UNCHANGED claims /\ rec'.gen = rec.gen /\ rec'.next = rec.next
                           \/ x.id = Len(claims) + 1 /\ Claim(r, k) /\ rec' # rec
    /\ HasSession(th[r][k]) => HasSession(x)

\* A step of thread k of replica r, which leaves it as x.
Moves(r, k, x) ==
    /\ x \in Thread
    /\ th' = [th EXCEPT ![r][k] = x]
    /\ x.pc \in LockedPc => th[r][k].pc \in LockedPc \/ LockFree(r)
    /\ k = "now" => "firenow" \in Ops \/ th[r][k].pc # "off"
    /\ Follows(r, k, x)

\* Where a thread has neither a decision to act on nor a fire.
Plain == ThreadPc \ (Driving \cup {"rearm", "settle"})

LEMMA PlainFollows ==
    ASSUME NEW r, NEW k, NEW x, x.pc \in Plain
    PROVE  Follows(r, k, x)
BY DEF Follows, Plain, Driving, HasSession

LEMMA GotoMoves ==
    ASSUME TypeOK, NEW r \in Replicas, NEW k \in Threads, NEW p \in ThreadPc, Goto(r, k, p),
           p \in LockedPc => th[r][k].pc \in LockedPc \/ LockFree(r),
           th[r][k].pc # "off", p \in Plain \/ (p = "rearm" /\ ShouldReArm(rec) /\ Quiet)
    PROVE  Moves(r, k, [th[r][k] EXCEPT !.pc = p])
<1>1. th[r][k] \in Thread  BY DEF TypeOK
<1>2. [th[r][k] EXCEPT !.pc = p] \in Thread /\ [th[r][k] EXCEPT !.pc = p].pc = p
  BY <1>1 DEF Thread
<1>3. Follows(r, k, [th[r][k] EXCEPT !.pc = p])
  <2>1. PICK x : x = [th[r][k] EXCEPT !.pc = p]  BY Zenon
  <2>2. x.pc = p  BY <1>2, <2>1
  <2>3. CASE p \in Plain  BY <2>1, <2>2, <2>3, PlainFollows, Zenon
  <2>4. CASE p = "rearm" /\ ShouldReArm(rec) /\ Quiet
    <3>1. Follows(r, k, x)  BY <2>2, <2>4 DEF Follows, Driving, HasSession
    <3> QED  BY <2>1, <3>1
  <2> QED  BY <2>3, <2>4
<1> QED  BY <1>2, <1>3 DEF Goto, Moves

LEMMA ReturnMoves ==
    ASSUME NEW r \in Replicas, NEW k \in Threads, Return(r, k), th[r][k].pc # "off"
    PROVE  Moves(r, k, Off)
BY OffType, PlainFollows DEF Return, Moves, LockedPc, Plain, ThreadPc, Driving

LEMMA TickDueMoves ==
    ASSUME TypeOK, NEW r \in Replicas, TickDue(r)
    PROVE  \E x : Moves(r, "tick", x)
<1> DEFINE x == [Off EXCEPT !.pc = "list", !.now = clock, !.snap = Snap(rec),
                            !.due = IsDue(rec, clock)]
<1>1. IsDue(rec, clock) \in BOOLEAN  BY DEF IsDue
<1>2. rec \in State /\ clock \in Nat  BY DEF TypeOK
<1>3. x \in Thread /\ x.pc = "list"
  <2>1. ASSUME NEW b \in BOOLEAN,
               NEW s \in [count: Nat, next: Nat, sess: FireIds \cup {NoFire, Pending}]
        PROVE  /\ [Off EXCEPT !.pc = "list", !.now = clock, !.snap = s, !.due = b] \in Thread
               /\ [Off EXCEPT !.pc = "list", !.now = clock, !.snap = s, !.due = b].pc = "list"
    BY <1>2, OffType, Zenon DEF Thread, ThreadPc
  <2> QED  BY <1>1, <1>2, <2>1, SnapType, Zenon
<1>4. th' = [th EXCEPT ![r]["tick"] = x]  BY DEF TickDue
<1> HIDE DEF x
<1>5. Moves(r, "tick", x)
  BY <1>3, <1>4, PlainFollows DEF Moves, LockedPc, Plain, ThreadPc, Driving
<1> QED  BY <1>5

LEMMA ReArmScanMoves ==
    ASSUME TypeOK, NEW r \in Replicas, ReArmScan(r)
    PROVE  \E x : Moves(r, "tick", x)
<1>1. Quiet /\ th[r]["tick"].pc = "list"  BY DEF ReArmScan, Quiet
<1>2. PICK p \in {"rearm", "stale"} : Goto(r, "tick", p) /\ (p = "rearm" => ShouldReArm(rec))
  BY DEF ReArmScan
<1> QED  BY <1>1, <1>2, GotoMoves, Zenon DEF Threads, ThreadPc, LockedPc, Plain, Driving

LEMMA ReArmMoves ==
    ASSUME TypeOK, NEW r \in Replicas, ReArm(r)
    PROVE  \E x : Moves(r, "tick", x)
BY GotoMoves, Zenon DEF ReArm, Threads, ThreadPc, LockedPc, Plain, Driving

LEMMA StaleScanMoves ==
    ASSUME TypeOK, NEW r \in Replicas, StaleScan(r)
    PROVE  \E x : Moves(r, "tick", x)
<1> DEFINE t == th[r]["tick"]
           got == IF rec.sess = Pending THEN Len(claims) ELSE rec.sess
           found == [t EXCEPT !.pc = "settle", !.tgt = rec.sess, !.got = got]
<1>1. t \in Thread /\ rec \in State  BY DEF TypeOK, Threads
<1>2. rec.sess \in FireIds \cup {NoFire, Pending} /\ got \in MaybeFire
  BY <1>1, StateFields DEF TypeOK, MaybeFire
<1>3. found \in Thread /\ found.pc = "settle"
  <2> HIDE DEF got
  <2> QED  BY <1>1, <1>2, Zenon DEF Thread, ThreadPc
<1>4. AfterScans(t) \in Thread /\ AfterScans(t).pc \in {"lock", "off"}
  BY <1>1, AfterScansType
<1>5. \/ th' = [th EXCEPT ![r]["tick"] = found] /\ (Stale(r, rec, t.now) \/ OldStarted(rec, t.now))
      \/ th' = [th EXCEPT ![r]["tick"] = AfterScans(t)]
  BY Zenon DEF StaleScan
<1>6. Quiet  BY DEF StaleScan, Quiet
<1> HIDE DEF found
<1>7. CASE /\ th' = [th EXCEPT ![r]["tick"] = found]
           /\ Stale(r, rec, t.now) \/ OldStarted(rec, t.now)
  <2>1. Follows(r, "tick", found)
    BY <1>3, <1>6, <1>7 DEF Follows, Stale, OldStarted, OldPending, Driving, HasSession
  <2>2. Moves(r, "tick", found)  BY <1>3, <1>7, <2>1 DEF Moves, LockedPc
  <2> QED  BY <2>2, Zenon
<1>8. CASE th' = [th EXCEPT ![r]["tick"] = AfterScans(t)]
  <2>1. Moves(r, "tick", AfterScans(t))
    BY <1>4, <1>8, PlainFollows DEF Moves, LockedPc, Plain, ThreadPc, Driving
  <2> QED  BY <2>1, Zenon
<1> QED  BY <1>5, <1>7, <1>8

LEMMA SettleMoves ==
    ASSUME TypeOK, NEW r \in Replicas, Settle(r)
    PROVE  \E x : Moves(r, "tick", x)
<1> DEFINE t == th[r]["tick"]
           u == [t EXCEPT !.tgt = NoFire, !.got = NoFire]
<1>1. t \in Thread  BY DEF TypeOK, Threads
<1>2. u \in Thread  BY <1>1, Zenon DEF Thread, MaybeFire
<1>3. AfterScans(u) \in Thread /\ AfterScans(u).pc \in {"lock", "off"}
  BY <1>2, AfterScansType
<1>4. th' = [th EXCEPT ![r]["tick"] = AfterScans(u)]  BY Zenon DEF Settle
<1> HIDE DEF u
<1>5. Moves(r, "tick", AfterScans(u))
  BY <1>3, <1>4, PlainFollows DEF Moves, LockedPc, Plain, ThreadPc, Driving
<1> QED  BY <1>5, Zenon

\* The probe of the prior fire: on to the claim, or back.
LEMMA ProbeMoves ==
    ASSUME NEW r \in Replicas, NEW k \in Threads, NEW t \in Thread, Probe(r, k, t),
           LockFree(r), th[r][k].pc # "off"
    PROVE  \E x : Moves(r, k, x)
<1> DEFINE c == [t EXCEPT !.pc = "claim"]
           d == [t EXCEPT !.pc = "claim", !.trial = t.snap.sess]
<1>1. c \in Thread /\ c.pc = "claim"  BY DEF Thread, ThreadPc
<1>2. t.snap.sess \in FireIds => d \in Thread /\ d.pc = "claim"
  BY Zenon DEF Thread, ThreadPc, MaybeFire
<1>3. \/ th' = [th EXCEPT ![r][k] = c]
      \/ t.snap.sess \in FireIds /\ th' = [th EXCEPT ![r][k] = d]
      \/ Return(r, k)
  BY Zenon DEF Probe, Probes
<1> HIDE DEF c, d
<1>4. Moves(r, k, c) \/ Moves(r, k, d) \/ Moves(r, k, Off)
  BY <1>1, <1>2, <1>3, ReturnMoves, PlainFollows DEF Moves, Plain, ThreadPc, Driving
<1> QED  BY <1>4, Zenon

LEMMA FireOneMoves ==
    ASSUME TypeOK, NEW r \in Replicas, FireOne(r)
    PROVE  \E x : Moves(r, "tick", x)
<1>1. th[r]["tick"] \in Thread /\ th[r]["tick"].pc = "lock" /\ LockFree(r)
  BY DEF TypeOK, Threads, FireOne
<1>2. CASE Goto(r, "tick", "claim")
  BY <1>1, <1>2, GotoMoves, Zenon DEF Threads, ThreadPc, Plain, Driving
<1>3. CASE Probe(r, "tick", th[r]["tick"])
  BY <1>1, <1>3, ProbeMoves DEF Threads
<1> QED  BY <1>2, <1>3, Zenon DEF FireOne

LEMMA FireNowMoves ==
    ASSUME TypeOK, NEW r \in Replicas, FireNow(r)
    PROVE  \E x : Moves(r, "now", x)
<1> DEFINE x == [Off EXCEPT !.pc = "lock", !.now = clock]
<1>1. x \in Thread /\ x.pc = "lock"  BY OffType, Zenon DEF TypeOK, Thread, ThreadPc
<1>2. th' = [th EXCEPT ![r]["now"] = x] /\ "firenow" \in Ops  BY DEF FireNow
<1> HIDE DEF x
<1>3. Moves(r, "now", x)
  BY <1>1, <1>2, PlainFollows DEF Moves, LockedPc, Plain, ThreadPc, Driving
<1> QED  BY <1>3, Zenon

LEMMA FireNowLoadsMoves ==
    ASSUME TypeOK, NEW r \in Replicas, FireNowLoads(r)
    PROVE  \E x : Moves(r, "now", x)
<1> DEFINE t == [th[r]["now"] EXCEPT !.snap = Snap(rec)]
<1>1. th[r]["now"] \in Thread /\ th[r]["now"].pc = "lock" /\ LockFree(r) /\ rec \in State
  BY DEF TypeOK, Threads, FireNowLoads
<1>2. t \in Thread
  <2>1. Snap(rec) \in [count: Nat, next: Nat, sess: FireIds \cup {NoFire, Pending}]
    BY <1>1, SnapType, Zenon
  <2> QED  BY <1>1, <2>1 DEF Thread
<1>3. Return(r, "now") \/ Probe(r, "now", t)  BY Zenon DEF FireNowLoads
<1> HIDE DEF t
<1>4. "now" \in Threads /\ th[r]["now"].pc # "off"  BY <1>1 DEF Threads
<1> QED  BY <1>1, <1>2, <1>3, <1>4, ProbeMoves, ReturnMoves, Zenon

LEMMA ClaimMoves ==
    ASSUME TypeOK, NEW r \in Replicas, NEW k \in Threads, Claim(r, k)
    PROVE  \E x : Moves(r, k, x)
<1> DEFINE t == th[r][k]
           id == Len(claims) + 1
           x == [t EXCEPT !.pc = "create", !.id = id]
           n == ComputeNextFire(t.snap, t.now)
<1>1. t \in Thread /\ t.pc = "claim"  BY DEF TypeOK, Claim
<1>2. \/ Return(r, k)
      \/ id \in FireIds /\ th' = [th EXCEPT ![r][k] = x] /\ rec' = Claimed(rec, t.now, n)
  BY Zenon DEF Claim
<1>3. rec' = Claimed(rec, t.now, n) => rec' # rec
  <2>1. rec \in State /\ t.now \in Nat  BY <1>1, ThreadFields DEF TypeOK
  <2>2. n \in Nat  BY <2>1, NextFireType
  <2> HIDE DEF n
  <2>3. ASSUME NEW s \in State, NEW m \in Nat, NEW i \in Nat PROVE Claimed(s, m, i).count = s.count + 1
    BY ClaimedType, SMT
  <2>4. rec.count \in Nat  BY <2>1, StateFields
  <2>5. Claimed(rec, t.now, n).count = rec.count + 1  BY <2>1, <2>2, <2>3, Zenon
  <2> QED  BY <2>4, <2>5
<1> HIDE DEF id, n
<1>4. id \in FireIds => x \in Thread /\ x.pc = "create" /\ x.id = id
  BY <1>1, Zenon DEF Thread, ThreadPc, MaybeFire
<1> HIDE DEF x
<1>5. CASE id \in FireIds /\ th' = [th EXCEPT ![r][k] = x] /\ rec' = Claimed(rec, t.now, n)
  <2>1. Follows(r, k, x)  BY <1>3, <1>4, <1>5 DEF Follows, Driving, HasSession, id
  <2>2. Moves(r, k, x)  BY <1>1, <1>4, <1>5, <2>1 DEF Moves, LockedPc
  <2> QED  BY <2>2, Zenon
<1>6. CASE Return(r, k)  BY <1>1, <1>6, ReturnMoves, Zenon
<1> QED  BY <1>2, <1>5, <1>6

\* A thread that holds the mutex goes on to its next step, or to the record.
LEMMA LockedMoves ==
    ASSUME TypeOK, NEW r \in Replicas, NEW k \in Threads, th[r][k].pc \in LockedPc,
           NEW x \in Thread, x.pc \in LockedPc, th' = [th EXCEPT ![r][k] = x], Follows(r, k, x)
    PROVE  Moves(r, k, x)
BY DEF Moves, LockedPc

LEMMA FireMoves ==
    ASSUME TypeOK, NEW r \in Replicas, NEW k \in Threads,
           Create(r, k) \/ Start(r, k) \/ Enter(r, k) \/ RunEnds(r, k)
    PROVE  \E x : Moves(r, k, x)
<1> DEFINE t == th[r][k]
           to(p) == [t EXCEPT !.pc = p]
           created == [t EXCEPT !.pc = "start", !.got = t.id]
           ended(st) == [t EXCEPT !.pc = "record", !.stop = st]
<1>1. t \in Thread /\ t.pc \in Driving /\ UNCHANGED claims
  BY DEF TypeOK, Create, Start, Enter, RunEnds, Driving, history
<1>2. /\ created \in Thread /\ created.pc = "start" /\ created.id = t.id /\ created.got = t.id
      /\ \A st \in {"ok", "error"} :
            /\ ended(st) \in Thread /\ ended(st).pc = "record" /\ ended(st).stop = st
            /\ ended(st).id = t.id /\ ended(st).got = t.got
      /\ \A p \in {"enter", "run"} :
            to(p) \in Thread /\ to(p).pc = p /\ to(p).id = t.id /\ to(p).got = t.got
  BY <1>1, Zenon DEF Thread, ThreadPc, Stops
<1>3. \/ th' = [th EXCEPT ![r][k] = created]
      \/ th' = [th EXCEPT ![r][k] = ended("ok")] /\ t.pc = "run"
      \/ th' = [th EXCEPT ![r][k] = ended("error")]
      \/ th' = [th EXCEPT ![r][k] = to("enter")] /\ t.pc = "start"
      \/ th' = [th EXCEPT ![r][k] = to("run")] /\ t.pc = "enter"
  BY DEF Create, Start, Enter, RunEnds, Goto
<1> HIDE DEF created, ended, to
<1>4. PICK x \in Thread :
        /\ th' = [th EXCEPT ![r][k] = x] /\ x.pc \in Driving /\ x.id = t.id
        /\ HasSession(t) => HasSession(x)
  <2>1. CASE th' = [th EXCEPT ![r][k] = created]
    BY <1>2, <2>1, Zenon DEF HasSession, Driving
  <2>2. CASE th' = [th EXCEPT ![r][k] = ended("ok")] /\ t.pc = "run"
    BY <1>2, <2>2, Zenon DEF HasSession, Driving
  <2>3. CASE th' = [th EXCEPT ![r][k] = ended("error")]
    BY <1>2, <2>3, Zenon DEF HasSession, Driving
  <2>4. CASE th' = [th EXCEPT ![r][k] = to("enter")] /\ t.pc = "start"
    BY <1>2, <2>4, Zenon DEF HasSession, Driving
  <2>5. CASE th' = [th EXCEPT ![r][k] = to("run")] /\ t.pc = "enter"
    BY <1>2, <2>5, Zenon DEF HasSession, Driving
  <2> QED  BY <1>3, <2>1, <2>2, <2>3, <2>4, <2>5
<1>5. rec'.gen = rec.gen /\ rec'.next = rec.next
  <2>1. rec' = rec \/ rec' = Started(rec, t.id, t.now)
    BY Zenon DEF Create, Start, Enter, RunEnds, store
  <2>2. rec \in State /\ t.id \in MaybeFire /\ t.now \in Nat  BY <1>1, ThreadFields DEF TypeOK
  <2> QED  BY <2>1, <2>2, StartedType DEF SameClaims
<1>6. Follows(r, k, x)  BY <1>1, <1>4, <1>5 DEF Follows, Driving
<1>7. Moves(r, k, x)  BY <1>1, <1>4, <1>6, LockedMoves, Zenon DEF LockedPc, Driving
<1> QED  BY <1>7, Zenon

LEMMA RecordMoves ==
    ASSUME TypeOK, NEW r \in Replicas, NEW k \in Threads, Record(r, k)
    PROVE  \E x : Moves(r, k, x)
<1>1. th[r][k].pc # "off" /\ Return(r, k)  BY DEF Record
<1> QED  BY <1>1, ReturnMoves, Zenon

LEMMA TickMoves ==
    ASSUME TypeOK, NEW r \in Replicas, TickDue(r) \/ ScanStep(r)
    PROVE  \E x : Moves(r, "tick", x)
BY TickDueMoves, ReArmScanMoves, ReArmMoves, StaleScanMoves, SettleMoves, FireOneMoves, Zenon DEF ScanStep

LEMMA FireStepMoves ==
    ASSUME TypeOK, NEW r \in Replicas, NEW k \in Threads, FireStep(r, k)
    PROVE  \E x : Moves(r, k, x)
BY ClaimMoves, FireMoves, RecordMoves, Zenon DEF FireStep

\* Every step moves one thread, stops all threads of a process, or leaves them alone.
LEMMA ThreadSteps ==
    ASSUME TypeOK, Next
    PROVE  \/ UNCHANGED th
           \/ \E r \in Replicas : th' = [th EXCEPT ![r] = [k \in Threads |-> Off]]
           \/ \E r \in Replicas, k \in Threads, x \in Thread : Moves(r, k, x)
<1>1. CASE Tick \/ LeaderLapses \/ OperatorStep \/ \E f \in FireIds : LeaseLapses(f)
  BY <1>1 DEF Tick, LeaderLapses, OperatorStep, Pause, Resume, CreateSchedule, UpdateLoads,
     UpdateSaves, Delete, BeginDelete, DeletePlacement, CompleteDelete, LeaseLapses
<1>2. ASSUME NEW r \in Replicas, LeaderStep(r)
      PROVE  UNCHANGED th \/ th' = [th EXCEPT ![r] = [k \in Threads |-> Off]]
  BY <1>2, Zenon DEF LeaderStep, Promote, Renew, Demote, Drain, StopBegins, ReleaseLeader,
     StoppedLapses, Crash
<1>3. ASSUME NEW r \in Replicas, TickDue(r) \/ ScanStep(r)
      PROVE  \E x : Moves(r, "tick", x)
  BY <1>3, TickMoves
<1>4. ASSUME NEW r \in Replicas, FireNow(r) \/ FireNowLoads(r)
      PROVE  \E x : Moves(r, "now", x)
  BY <1>4, FireNowMoves, FireNowLoadsMoves, Zenon
<1>5. ASSUME NEW r \in Replicas, NEW k \in Threads, FireStep(r, k)
      PROVE  \E x : Moves(r, k, x)
  BY <1>5, FireStepMoves
<1>6. \A r, k, x : Moves(r, k, x) => x \in Thread  BY DEF Moves
<1>7. "tick" \in Threads /\ "now" \in Threads  BY DEF Threads
<1> QED  BY <1>1, <1>2, <1>3, <1>4, <1>5, <1>6, <1>7, Zenon DEF Next

LEMMA ThreadsTyped ==
    ASSUME TypeOK, Next
    PROVE  th' \in ThreadFun
<1>1. th \in ThreadFun  BY DEF TypeOK, ThreadFun
<1>2. ASSUME NEW r \in Replicas, th' = [th EXCEPT ![r] = [k \in Threads |-> Off]]
      PROVE  th' \in ThreadFun
  <2>1. [k \in Threads |-> Off] \in [Threads -> Thread]  BY OffType
  <2> QED  BY <1>1, <1>2, <2>1 DEF ThreadFun
<1>3. ASSUME NEW r \in Replicas, NEW k \in Threads, NEW x \in Thread, Moves(r, k, x)
      PROVE  th' \in ThreadFun
  BY <1>1, <1>3, SetThread, Zenon DEF Moves
<1> QED  BY <1>1, <1>2, <1>3, ThreadSteps, Zenon

-----------------------------------------------------------------------------
(* The record and its history *)

LEMMA StoreSteps ==
    ASSUME Next
    PROVE  \/ Quiet \/ OperatorStep
           \/ \E r \in Replicas : ReArm(r) \/ Settle(r)
           \/ \E r \in Replicas, k \in Threads : Claim(r, k) \/ Start(r, k) \/ Record(r, k)
<1>1. Tick \/ LeaderLapses \/ (\E f \in FireIds : LeaseLapses(f)) => Quiet
  BY DEF Tick, LeaderLapses, LeaseLapses, Quiet
<1>2. ASSUME NEW r \in Replicas, LeaderStep(r)
      PROVE  Quiet
  BY <1>2 DEF LeaderStep, Promote, Renew, Demote, Drain, StopBegins, ReleaseLeader,
     StoppedLapses, Crash, Quiet
<1>3. ASSUME NEW r \in Replicas,
             TickDue(r) \/ ReArmScan(r) \/ StaleScan(r) \/ FireOne(r) \/ FireNow(r) \/ FireNowLoads(r)
      PROVE  Quiet
  BY <1>3 DEF TickDue, ReArmScan, StaleScan, FireOne, FireNow, FireNowLoads, Quiet
<1>4. ASSUME NEW r \in Replicas, NEW k \in Threads, Create(r, k) \/ Enter(r, k) \/ RunEnds(r, k)
      PROVE  Quiet
  BY <1>4 DEF Create, Enter, RunEnds, Quiet
<1> QED  BY <1>1, <1>2, <1>3, <1>4, Zenon DEF Next, ScanStep, FireStep

LEMMA LeadershipSteps ==
    ASSUME Next
    PROVE  Tick \/ LeaderLapses \/ (\E r \in Replicas : LeaderStep(r)) \/ UNCHANGED <<clock, leadership>>
<1>1. OperatorStep \/ (\E f \in FireIds : LeaseLapses(f)) => UNCHANGED <<clock, leadership>>
  BY DEF OperatorStep, Pause, Resume, CreateSchedule, UpdateLoads, UpdateSaves, Delete,
     BeginDelete, DeletePlacement, CompleteDelete, LeaseLapses
<1>2. ASSUME NEW r \in Replicas, TickDue(r) \/ ScanStep(r) \/ FireNow(r) \/ FireNowLoads(r)
      PROVE  UNCHANGED <<clock, leadership>>
  BY <1>2 DEF TickDue, ScanStep, ReArmScan, ReArm, StaleScan, Settle, FireOne, FireNow, FireNowLoads
<1>3. ASSUME NEW r \in Replicas, NEW k \in Threads, FireStep(r, k)
      PROVE  UNCHANGED <<clock, leadership>>
  BY <1>3, Zenon DEF FireStep, Claim, Create, Start, Enter, RunEnds, Record
<1> QED  BY <1>1, <1>2, <1>3, Zenon DEF Next

LEMMA LeadershipTyped ==
    ASSUME TypeOK, Next
    PROVE  /\ clock' \in Nat /\ lead' \in Replicas \cup {NoOwner} /\ leadLapsed' \in BOOLEAN
           /\ up' \in [Replicas -> BOOLEAN] /\ draining' \in [Replicas -> BOOLEAN]
           /\ role' \in [Replicas -> {"standby", "leader", "stopping", "stopped"}]
<1> USE DEF TypeOK
<1>1. CASE Tick  BY <1>1 DEF Tick, leadership
<1>2. CASE LeaderLapses  BY <1>2 DEF LeaderLapses
<1>3. ASSUME NEW r \in Replicas, LeaderStep(r)
      PROVE  /\ clock' \in Nat /\ lead' \in Replicas \cup {NoOwner} /\ leadLapsed' \in BOOLEAN
             /\ up' \in [Replicas -> BOOLEAN] /\ draining' \in [Replicas -> BOOLEAN]
             /\ role' \in [Replicas -> {"standby", "leader", "stopping", "stopped"}]
  <2>1. CASE Promote(r)  BY <2>1, Zenon DEF Promote
  <2>5. CASE Renew(r) \/ Demote(r)  BY <2>5, Zenon DEF Renew, Demote
  <2>2. CASE Drain(r) \/ StopBegins(r) \/ ReleaseLeader(r)
    BY <2>2, Zenon DEF Drain, StopBegins, ReleaseLeader
  <2>3. CASE StoppedLapses(r)  BY <2>3 DEF StoppedLapses
  <2>4. CASE Crash(r)  BY <2>4 DEF Crash
  <2> QED  BY <1>3, <2>1, <2>2, <2>3, <2>4, <2>5 DEF LeaderStep
<1>4. CASE UNCHANGED <<clock, leadership>>  BY <1>4 DEF leadership
<1> QED  BY <1>1, <1>2, <1>3, <1>4, LeadershipSteps, Zenon

SlotsOk == sl \in [FireIds -> {"free", "run"} \cup Replicas]

LEMMA SessionLeasesTyped ==
    ASSUME TypeOK, Next
    PROVE  SlotsOk'
<1>0. SlotsOk  BY DEF TypeOK, SlotsOk
<1> USE DEF SlotsOk
<1>1. ASSUME NEW r \in Replicas, NEW t, ReturnTrial(r, t)
      PROVE  SlotsOk'
  BY <1>0, <1>1 DEF ReturnTrial
<1>2. ASSUME NEW r \in Replicas, NEW k, NEW t, Probe(r, k, t)
      PROVE  SlotsOk'
  <2>1. UNCHANGED sl \/ sl' = [sl EXCEPT ![t.snap.sess] = r]  BY <1>2 DEF Probe
  <2> QED  BY <1>0, <2>1
<1>3. CASE UNCHANGED sl  BY <1>0, <1>3
<1>4. Tick \/ LeaderLapses \/ OperatorStep => UNCHANGED sl
  BY DEF Tick, LeaderLapses, OperatorStep, Pause, Resume, CreateSchedule, UpdateLoads, UpdateSaves,
     Delete, BeginDelete, DeletePlacement, CompleteDelete
<1>5. ASSUME NEW f \in FireIds, LeaseLapses(f)
      PROVE  SlotsOk'
  BY <1>0, <1>5 DEF LeaseLapses
<1>6. ASSUME NEW r \in Replicas, LeaderStep(r) \/ TickDue(r) \/ FireNow(r)
      PROVE  UNCHANGED sl
  BY <1>6 DEF LeaderStep, Promote, Renew, Demote, Drain, StopBegins, ReleaseLeader, StoppedLapses,
     Crash, TickDue, FireNow
<1>7. ASSUME NEW r \in Replicas, ScanStep(r) \/ FireNowLoads(r)
      PROVE  SlotsOk'
  <2>1. ReArmScan(r) \/ ReArm(r) \/ Settle(r) => UNCHANGED sl  BY DEF ReArmScan, ReArm, Settle
  <2>2. CASE StaleScan(r)  BY <1>0, <2>2 DEF StaleScan
  <2>3. FireOne(r) => UNCHANGED sl \/ Probe(r, "tick", th[r]["tick"])  BY Zenon DEF FireOne
  <2>4. FireNowLoads(r) => UNCHANGED sl \/ \E t : Probe(r, "now", t)  BY Zenon DEF FireNowLoads
  <2> QED  BY <1>2, <1>3, <1>7, <2>1, <2>2, <2>3, <2>4, Zenon DEF ScanStep
<1>8. ASSUME NEW r \in Replicas, NEW k \in Threads, FireStep(r, k)
      PROVE  SlotsOk'
  <2>1. CASE Claim(r, k)
    <3>1. UNCHANGED sl \/ \E t : ReturnTrial(r, t)  BY <2>1, Zenon DEF Claim
    <3> QED  BY <1>1, <1>3, <3>1
  <2>2. CASE Create(r, k) \/ Start(r, k)  BY <1>3, <2>2 DEF Create, Start
  <2>3. CASE Enter(r, k)  BY <1>0, <2>3 DEF Enter
  <2>4. CASE RunEnds(r, k)  BY <1>0, <2>4, Zenon DEF RunEnds
  <2>5. CASE Record(r, k)  BY <1>1, <2>5 DEF Record
  <2> QED  BY <1>8, <2>1, <2>2, <2>3, <2>4, <2>5 DEF FireStep
<1> QED  BY <1>3, <1>4, <1>5, <1>6, <1>7, <1>8, Zenon DEF Next

\* The types of everything that StoreSteps may change.
StoreOk ==
    /\ rec \in State /\ upd \in State /\ gens \in Nat /\ fires \in [FireIds -> Stops]
    /\ dl \in [Deleters -> Deletion] /\ claims \in Seq(ClaimSet) /\ Len(claims) \in MaybeFire
    /\ lost \subseteq Nat /\ cleaned \subseteq Nat /\ removed \subseteq Nat /\ paused \in BOOLEAN

\* A claim: the record is advanced and one entry is appended to the history.
Entry(k, b) == [gen |-> rec.gen, slot |-> rec.next, via |-> k, fired |-> b,
                prior |-> rec.sess, carried |-> Pending]
Claims(r, k, n, b) ==
    /\ th[r][k].pc = "claim"
    /\ n = ComputeNextFire(th[r][k].snap, th[r][k].now) /\ rec' = Claimed(rec, th[r][k].now, n)
    /\ rec.gen # 0 /\ rec.enabled /\ rec.del = 0 /\ UnderMax(rec)
    /\ k = "tick" => rec.next # 0 /\ rec.next <= th[r][k].now
    /\ Len(claims) + 1 \in FireIds
    /\ claims' = Append(claims, Entry(k, b))
    /\ UNCHANGED <<fires, operator, gens, lost, cleaned, removed, paused>>

LEMMA ClaimWrites ==
    ASSUME TypeOK, NEW r \in Replicas, NEW k \in Threads, Claim(r, k), claims' # claims \/ rec' # rec
    PROVE  \E n \in Nat, b \in BOOLEAN : Claims(r, k, n, b)
<1> DEFINE t == th[r][k]
           n == ComputeNextFire(t.snap, t.now)
           b == ~(k = "tick" /\ Skips(t))
<1>1. t \in Thread /\ rec \in State  BY DEF TypeOK
<1>2. t.now \in Nat  BY <1>1, ThreadFields
<1>3. n \in Nat  BY <1>2, NextFireType
<1>4. b \in BOOLEAN  BY DEF Skips
<1>5. Claimed(rec, t.now, n).sess = Pending
  <2> HIDE DEF n
  <2> QED  BY <1>1, <1>2, <1>3, ClaimedType
<1>6. /\ IF k = "tick" THEN Claimable(rec, t.now) ELSE ClaimableNow(rec, t.now)
      /\ Len(claims) + 1 \in FireIds
      /\ rec' = Claimed(rec, t.now, n)
      /\ claims' = Append(claims, [gen |-> rec.gen, slot |-> rec.next, via |-> k, fired |-> b,
                          prior |-> rec.sess, carried |-> Claimed(rec, t.now, n).sess])
  BY Zenon DEF Claim
<1> HIDE DEF n, b
<1>7. /\ rec.gen # 0 /\ rec.enabled /\ rec.del = 0 /\ UnderMax(rec)
      /\ k = "tick" => rec.next # 0 /\ rec.next <= t.now
  BY <1>6, Zenon DEF Claimable, ClaimableNow, IsDue
<1>8. n = ComputeNextFire(t.snap, t.now) /\ t.pc = "claim"  BY Zenon DEF n, Claim
<1>9. UNCHANGED <<fires, operator, gens, lost, cleaned, removed, paused>>  BY DEF Claim
<1>10. Claims(r, k, n, b)  BY <1>5, <1>6, <1>7, <1>8, <1>9, Zenon DEF Claims, Entry
<1> QED  BY <1>3, <1>4, <1>10, Zenon

LEMMA AppendClaim ==
    ASSUME NEW cs \in Seq(ClaimSet), NEW e \in ClaimSet
    PROVE  /\ Append(cs, e) \in Seq(ClaimSet) /\ Len(cs) \in Nat
           /\ Len(Append(cs, e)) = Len(cs) + 1
           /\ DOMAIN cs = 1..Len(cs) /\ DOMAIN Append(cs, e) = 1..(Len(cs) + 1)
           /\ Append(cs, e)[Len(cs) + 1] = e /\ \A i \in 1..Len(cs) : Append(cs, e)[i] = cs[i]
OBVIOUS

LEMMA ClaimTyped ==
    ASSUME TypeOK, NEW r \in Replicas, NEW k \in Threads, Claim(r, k)
    PROVE  StoreOk'
<1>0. StoreOk  BY DEF TypeOK, StoreOk
<1>1. UNCHANGED <<fires, operator, gens, lost, cleaned, removed, paused>>  BY DEF Claim
<1>2. CASE claims' # claims \/ rec' # rec
  <2>1. PICK n \in Nat, b \in BOOLEAN : Claims(r, k, n, b)  BY <1>2, ClaimWrites
  <2>2. th[r][k].now \in Nat
    <3>1. th[r][k] \in Thread  BY DEF TypeOK
    <3> QED  BY <3>1, ThreadFields, Zenon
  <2>3. rec' \in State  BY <1>0, <2>1, <2>2, ClaimedType, Zenon DEF StoreOk, Claims
  <2>4. Entry(k, b) \in ClaimSet
    <3>1. rec.gen \in Nat /\ rec.next \in Nat /\ rec.sess \in FireIds \cup {NoFire, Pending}
      BY <1>0, StateFields DEF StoreOk
    <3> QED  BY <3>1 DEF ClaimSet, Entry
  <2>5. claims' = Append(claims, Entry(k, b))  BY <2>1, Zenon DEF Claims
  <2>6. claims' \in Seq(ClaimSet) /\ Len(claims') = Len(claims) + 1
    BY <1>0, <2>4, <2>5, AppendClaim DEF StoreOk
  <2> QED  BY <1>0, <1>1, <2>1, <2>3, <2>6 DEF StoreOk, operator, MaybeFire, Claims
<1>3. CASE claims' = claims /\ rec' = rec  BY <1>0, <1>1, <1>3 DEF StoreOk, operator
<1> QED  BY <1>2, <1>3

\* The other steps that write the store: ReArm, Settle, Start and Record.
LEMMA FireStoreTyped ==
    ASSUME TypeOK, NEW r \in Replicas, NEW k \in Threads,
           ReArm(r) \/ Settle(r) \/ Start(r, k) \/ Record(r, k)
    PROVE  /\ rec' \in State /\ fires' \in [FireIds -> Stops] /\ lost' \subseteq Nat
           /\ UNCHANGED <<upd, dl, gens, claims, cleaned, removed, paused>>
           /\ rec'.gen = rec.gen /\ rec'.count = rec.count /\ rec'.del = rec.del
           /\ ReArm(r) \/ SameClaims(rec, rec')
<1>0. /\ rec \in State /\ fires \in [FireIds -> Stops] /\ lost \subseteq Nat
      /\ th[r][k] \in Thread /\ th[r]["tick"] \in Thread
  BY DEF TypeOK, Threads
<1>1. CASE ReArm(r)
  <2>1. th[r]["tick"].now + Backoff \in Nat  BY <1>0, ThreadFields, SchedulerAssumption
  <2>2. rec' = rec \/ rec' = ReArmed(rec, th[r]["tick"].now + Backoff)  BY <1>1 DEF ReArm
  <2>3. UNCHANGED <<fires, operator, history>>  BY <1>1 DEF ReArm
  <2> QED  BY <1>0, <1>1, <2>1, <2>2, <2>3, ReArmedType DEF operator, history
<1>2. CASE Settle(r)
  <2> DEFINE t == th[r]["tick"]
  <2>1. t.tgt \in FireIds \cup {NoFire, Pending} /\ t.got \in MaybeFire  BY <1>0, ThreadFields
  <2> DEFINE g == IF t.tgt = Pending THEN NoFire ELSE t.tgt
  <2>2. g \in FireIds \cup {NoFire, Pending} /\ (rec' = rec \/ rec' = Recorded(rec, g))
    <3>1. rec' = rec \/ rec' = Recorded(rec, g)  BY <1>2, Zenon DEF Settle, store
    <3> QED  BY <2>1, <3>1
  <2>3. fires' = fires \/ fires' = [f \in FireIds |-> IF f = t.tgt THEN "error" ELSE fires[f]]
    BY <1>2 DEF Settle, store
  <2>4. lost' = lost \/ lost' = lost \cup {t.got}  BY <1>2, Zenon DEF Settle
  <2>5. UNCHANGED <<operator, gens, claims, cleaned, removed, paused>>  BY <1>2 DEF Settle
  <2>6. rec' \in State /\ SameClaims(rec, rec')
    <3> HIDE DEF g
    <3> QED  BY <1>0, <2>2, RecordedType DEF SameClaims
  <2>7. fires' \in [FireIds -> Stops]  BY <1>0, <2>3 DEF Stops
  <2>8. lost' \subseteq Nat
    <3>1. t.got \in Nat  BY <2>1, FireIdFacts DEF MaybeFire, NoFire
    <3> QED  BY <1>0, <2>4, <3>1, Zenon
  <2> QED  BY <2>5, <2>6, <2>7, <2>8 DEF operator, SameClaims
<1>3. CASE Start(r, k) \/ Record(r, k)
  <2> DEFINE t == th[r][k]
  <2>1. t.id \in MaybeFire /\ t.got \in MaybeFire /\ t.now \in Nat /\ t.stop \in Stops
    BY <1>0, ThreadFields
  <2>2. rec' = rec \/ rec' = Started(rec, t.id, t.now) \/ rec' = Recorded(rec, t.got)
    BY <1>3, Zenon DEF Start, Record, store
  <2>3. \/ fires' = fires \/ fires' = [fires EXCEPT ![t.id] = "inflight"]
        \/ fires' = [fires EXCEPT ![t.id] = t.stop]
    BY <1>3, Zenon DEF Start, Record, store
  <2>4. UNCHANGED <<operator, history>>  BY <1>3, Zenon DEF Start, Record
  <2>5. rec' \in State /\ SameClaims(rec, rec')
    <3>1. t.got \in FireIds \cup {NoFire, Pending}  BY <2>1 DEF MaybeFire
    <3>2. CASE rec' = Started(rec, t.id, t.now)  BY <1>0, <2>1, <3>2, StartedType, Zenon
    <3>3. CASE rec' = Recorded(rec, t.got)  BY <1>0, <3>1, <3>3, RecordedType, Zenon
    <3> QED  BY <1>0, <2>2, <3>2, <3>3 DEF SameClaims
  <2>6. fires' \in [FireIds -> Stops]  BY <1>0, <2>1, <2>3 DEF Stops
  <2> QED  BY <1>0, <2>4, <2>5, <2>6 DEF operator, history, SameClaims
<1> QED  BY <1>1, <1>2, <1>3

LEMMA OperatorTyped ==
    ASSUME TypeOK, OperatorStep
    PROVE  StoreOk'
<1>0. StoreOk  BY DEF TypeOK, StoreOk
<1>1. CASE Pause
  BY <1>0, <1>1, EnabledType, Zenon DEF Pause, StoreOk, operator
<1>2. CASE Resume
  BY <1>0, <1>2, EnabledType, Zenon DEF Resume, StoreOk, operator
<1>3. CASE CreateSchedule
  <2>1. First(clock) \in Nat  BY FirstType DEF TypeOK
  <2>2. gens + 1 \in Nat  BY <1>0 DEF StoreOk
  <2>3. rec' \in State  BY <1>3, <2>1, <2>2, CreatedType DEF CreateSchedule
  <2> QED  BY <1>0, <1>3, <2>2, <2>3, Zenon DEF CreateSchedule, StoreOk, operator
<1>4. CASE UpdateLoads
  BY <1>0, <1>4 DEF UpdateLoads, StoreOk, store, history
<1>5. CASE UpdateSaves
  BY <1>0, <1>5, AbsentType DEF UpdateSaves, Saved, StoreOk, history
<1>6. CASE Delete
  BY <1>0, <1>6, AbsentType, Zenon DEF Delete, StoreOk, operator
<1>7. ASSUME NEW d \in Deleters, BeginDelete(d)
      PROVE  StoreOk'
  <2>1. rec' \in State  BY <1>0, <1>7, DeletingType DEF BeginDelete, StoreOk
  <2>2. rec'.del \in Nat  BY <2>1, StateFields
  <2> DEFINE x == [pc |-> IF NeverFired(rec) THEN "clean" ELSE "complete", token |-> rec'.del]
  <2>3. x \in Deletion  BY <2>2 DEF Deletion
  <2>4. dl' = [dl EXCEPT ![d] = x]  BY <1>7 DEF BeginDelete
  <2> HIDE DEF x
  <2>5. dl' \in [Deleters -> Deletion]  BY <1>0, <2>3, <2>4 DEF StoreOk
  <2> QED  BY <1>0, <1>7, <2>1, <2>5 DEF BeginDelete, StoreOk, history
<1>8. ASSUME NEW d \in Deleters, DeletePlacement(d)
      PROVE  StoreOk'
  <2>1. dl[d] \in Deletion  BY <1>0 DEF StoreOk
  <2>2. dl[d].token \in Nat /\ [dl[d] EXCEPT !.pc = "complete"] \in Deletion /\ NoDeletion \in Deletion
    BY <2>1 DEF Deletion, NoDeletion
  <2>3. \/ dl' = [dl EXCEPT ![d] = [dl[d] EXCEPT !.pc = "complete"]]
        \/ dl' = [dl EXCEPT ![d] = NoDeletion]
    BY <1>8 DEF DeletePlacement
  <2>4. dl' \in [Deleters -> Deletion]  BY <1>0, <2>2, <2>3 DEF StoreOk
  <2>5. cleaned' = cleaned \/ cleaned' = cleaned \cup {dl[d].token}
    BY <1>8, Zenon DEF DeletePlacement
  <2>6. cleaned' \subseteq Nat  BY <1>0, <2>2, <2>5, Zenon DEF StoreOk
  <2> QED  BY <1>0, <1>8, <2>4, <2>6 DEF DeletePlacement, StoreOk, store
<1>9. ASSUME NEW d \in Deleters, CompleteDelete(d)
      PROVE  StoreOk'
  <2>1. NoDeletion \in Deletion /\ rec.gen \in Nat
    BY <1>0, StateFields DEF StoreOk, Deletion, NoDeletion
  <2>2. dl' \in [Deleters -> Deletion]  BY <1>0, <1>9, <2>1 DEF StoreOk, CompleteDelete
  <2>3. paused' \in BOOLEAN
    BY <1>0, <1>9, Zenon DEF CompleteDelete, StoreOk
  <2>4. rec' = rec \/ rec' = Absent  BY <1>9, Zenon DEF CompleteDelete
  <2>5. removed' = removed \/ removed' = removed \cup {rec.gen}  BY <1>9, Zenon DEF CompleteDelete
  <2>6. removed' \subseteq Nat  BY <1>0, <2>1, <2>5, Zenon DEF StoreOk
  <2>7. rec' \in State  BY <1>0, <2>4, AbsentType, Zenon DEF StoreOk
  <2> QED  BY <1>0, <1>9, <2>2, <2>3, <2>6, <2>7 DEF CompleteDelete, StoreOk
<1> QED  BY <1>1, <1>2, <1>3, <1>4, <1>5, <1>6, <1>7, <1>8, <1>9, Zenon DEF OperatorStep

LEMMA TypeInit == Init => TypeOK
<1> SUFFICES ASSUME Init PROVE TypeOK
  OBVIOUS
<1>1. First(1) \in Nat  BY FirstType
<1>2. rec \in State /\ upd \in State  BY <1>1, CreatedType, AbsentType DEF Init
<1>3. th \in [Replicas -> [Threads -> Thread]]  BY OffType DEF Init
<1>4. dl \in [Deleters -> Deletion]  BY DEF Init, Deletion, NoDeletion
<1>5. claims \in Seq(ClaimSet) /\ Len(claims) \in MaybeFire  BY DEF Init, MaybeFire, NoFire
<1>6. fires \in [FireIds -> Stops] /\ sl \in [FireIds -> {"free", "run"} \cup Replicas]
  BY DEF Init, Stops
<1> QED  BY <1>2, <1>3, <1>4, <1>5, <1>6, Zenon DEF Init, TypeOK

LEMMA TypeNext ==
    ASSUME TypeOK, [Next]_vars
    PROVE  TypeOK'
<1>1. CASE UNCHANGED vars
  BY <1>1 DEF vars, store, leadership, operator, history, TypeOK
<1>2. CASE Next
  <2>1. StoreOk'
    <3>0. StoreOk  BY DEF TypeOK, StoreOk
    <3>1. CASE Quiet  BY <3>0, <3>1 DEF Quiet, StoreOk, store, operator, history
    <3>2. ASSUME NEW r \in Replicas, NEW k \in Threads,
                 ReArm(r) \/ Settle(r) \/ Start(r, k) \/ Record(r, k)
          PROVE  StoreOk'
      BY <3>0, <3>2, FireStoreTyped, Zenon DEF StoreOk
    <3>3. "tick" \in Threads  BY DEF Threads
    <3> QED  BY <1>2, <3>1, <3>2, <3>3, StoreSteps, ClaimTyped, OperatorTyped, Zenon
  <2> QED
    BY <1>2, <2>1, ThreadsTyped, LeadershipTyped, SessionLeasesTyped DEF TypeOK, StoreOk, SlotsOk, ThreadFun
<1> QED  BY <1>1, <1>2

-----------------------------------------------------------------------------
(* Overlap and outcomes: no assumption on Ops *)

\* At most one thread of a process has the mutex.
LockInv == \A r \in Replicas : \A k, l \in Threads :
              th[r][k].pc \in LockedPc /\ th[r][l].pc \in LockedPc => k = l

\* Fires of one schedule never overlap within a process, whatever the operator does and
\* the leases report: FireNow and the tick are serialised by lockFireName.
THEOREM NoOverlapHolds == Spec => []NoOverlap
<1>1. Init => TypeOK /\ LockInv
  BY TypeInit, OffType DEF Init, LockInv, LockedPc
<1>2. TypeOK /\ LockInv /\ [Next]_vars => TypeOK' /\ LockInv'
  <2> SUFFICES ASSUME TypeOK, LockInv, [Next]_vars PROVE LockInv'
    BY TypeNext
  <2>0. th \in ThreadFun  BY DEF TypeOK, ThreadFun
  <2>1. CASE UNCHANGED th  BY <2>1 DEF LockInv
  <2>2. ASSUME NEW r \in Replicas, th' = [th EXCEPT ![r] = [k \in Threads |-> Off]]
        PROVE  LockInv'
    BY <2>0, <2>2, OffType DEF LockInv, LockedPc, ThreadFun
  <2>3. ASSUME NEW r \in Replicas, NEW k \in Threads, NEW x \in Thread, Moves(r, k, x)
        PROVE  LockInv'
    <3>1. \A q \in Replicas, l \in Threads :
             th'[q][l] = IF q = r /\ l = k THEN x ELSE th[q][l]
      BY <2>0, <2>3, SetThread DEF Moves
    <3>2. x.pc \in LockedPc => \A l \in Threads : th[r][l].pc \in LockedPc => l = k
      BY <2>3 DEF Moves, LockFree, LockInv, LockedPc
    <3> SUFFICES ASSUME NEW q \in Replicas, NEW l \in Threads, NEW m \in Threads,
                        th'[q][l].pc \in LockedPc, th'[q][m].pc \in LockedPc
                 PROVE  l = m
      BY DEF LockInv
    <3>3. CASE q = r  BY <3>1, <3>2, <3>3 DEF LockInv
    <3>4. CASE q # r  BY <3>1, <3>4 DEF LockInv
    <3> QED  BY <3>3, <3>4
  <2>4. CASE UNCHANGED vars  BY <2>1, <2>4 DEF vars
  <2> QED  BY <2>1, <2>2, <2>3, <2>4, ThreadSteps, Zenon
<1>3. LockInv => NoOverlap  BY DEF LockInv, NoOverlap, LockedPc
<1> QED  BY <1>1, <1>2, <1>3, PTL DEF Spec

\* No recorded outcome of a fire is ever changed or reopened, neither by the process
\* that ran it nor by a peer's stale-fire settle.
THEOREM OutcomesStay == Spec => OutcomeStays
<1>1. TypeOK /\ [Next]_vars =>
        [\A f \in FireIds : fires[f] \in {"ok", "error"} => fires'[f] = fires[f]]_vars
  <2> SUFFICES ASSUME TypeOK, Next, NEW f \in FireIds, fires[f] \in {"ok", "error"}
               PROVE  fires'[f] = fires[f]
    BY Zenon
  <2>0. fires \in [FireIds -> Stops]  BY DEF TypeOK
  <2>1. CASE UNCHANGED fires  BY <2>1
  <2>2. Quiet \/ OperatorStep => UNCHANGED fires
    BY DEF Quiet, store, OperatorStep, Pause, Resume, CreateSchedule, UpdateLoads, UpdateSaves,
       Delete, BeginDelete, DeletePlacement, CompleteDelete
  <2>3. ASSUME NEW r \in Replicas, ReArm(r) \/ Settle(r)
        PROVE  fires'[f] = fires[f]
    <3>1. CASE ReArm(r)  BY <3>1 DEF ReArm
    <3>2. CASE Settle(r) /\ ~UNCHANGED fires
      <4> DEFINE t == th[r]["tick"]
      <4>1. /\ IF t.tgt = Pending THEN rec.gen # 0 ELSE Records(rec, fires, t.tgt)
            /\ fires' = [g \in FireIds |-> IF g = t.tgt THEN "error" ELSE fires[g]]
        BY <3>2, Zenon DEF Settle, store
      <4>2. f # t.tgt  BY <4>1, FireIdFacts DEF Records
      <4> QED  BY <4>1, <4>2
    <3> QED  BY <2>1, <2>3, <3>1, <3>2
  <2>4. ASSUME NEW r \in Replicas, NEW k \in Threads, Claim(r, k) \/ Start(r, k) \/ Record(r, k)
        PROVE  fires'[f] = fires[f]
    <3>1. CASE Claim(r, k)  BY <3>1 DEF Claim
    <3>2. CASE Start(r, k)  BY <2>0, <3>2 DEF Start, Starts, store
    <3>3. CASE Record(r, k)  BY <2>0, <3>3 DEF Record, Records, store
    <3> QED  BY <2>4, <3>1, <3>2, <3>3
  <2> QED  BY <2>1, <2>2, <2>3, <2>4, StoreSteps, Zenon
<1> QED  BY <1>1, TypeInit, TypeNext, PTL DEF Spec, OutcomeStays

-----------------------------------------------------------------------------
(* Slots: what each step does to the incarnation, its count and its mark *)

\* An update that straddles a deletion stores the record it read again.
Separate == "update" \notin Ops \/ "delete" \notin Ops

Keeps ==
    /\ rec'.gen = rec.gen /\ rec'.count = rec.count /\ rec'.del = rec.del
    /\ UNCHANGED <<dl, gens, claims, cleaned, removed>>
    /\ upd' \in {upd, Absent} \/ "update" \in Ops
    /\ (rec'.next = rec.next /\ rec'.retries = rec.retries) \/ \E r \in Replicas : ReArm(r)

LEMMA RecordSteps ==
    ASSUME TypeOK, NoResurrection, Separate, Next
    PROVE  \/ Keeps \/ CreateSchedule \/ Delete
           \/ \E r \in Replicas, k \in Threads, n \in Nat, b \in BOOLEAN : Claims(r, k, n, b)
           \/ \E d \in Deleters : BeginDelete(d) \/ DeletePlacement(d) \/ CompleteDelete(d)
<1>0. rec \in State /\ upd \in State  BY DEF TypeOK
<1>1. CASE Quiet  BY <1>1 DEF Quiet, Keeps, store, operator, history
<1>2. CASE Pause \/ Resume
  <2>1. PICK b \in BOOLEAN : rec' = [rec EXCEPT !.enabled = b]  BY <1>2, Zenon DEF Pause, Resume
  <2>2. SameClaims(rec, rec')  BY <1>0, <2>1, EnabledType
  <2> QED  BY <1>2, <2>2 DEF Keeps, SameClaims, Pause, Resume, operator
<1>3. CASE UpdateLoads  BY <1>3 DEF Keeps, UpdateLoads, store, history
<1>4. CASE UpdateSaves
  <2>1. rec.gen # 0  BY <1>4, Zenon DEF UpdateSaves, NoResurrection, Separate
  <2> QED  BY <1>4, <2>1 DEF Keeps, UpdateSaves, Saved, history
<1>5. ASSUME NEW r \in Replicas, NEW k \in Threads,
             ReArm(r) \/ Settle(r) \/ Start(r, k) \/ Record(r, k)
      PROVE  Keeps
  BY <1>5, FireStoreTyped DEF Keeps, SameClaims
<1>6. ASSUME NEW r \in Replicas, NEW k \in Threads, Claim(r, k), claims' = claims /\ rec' = rec
      PROVE  Keeps
  BY <1>6 DEF Claim, Keeps, operator
<1>7. "tick" \in Threads  BY DEF Threads
<1> QED
  BY <1>1, <1>2, <1>3, <1>4, <1>5, <1>6, <1>7, StoreSteps, ClaimWrites, Zenon DEF OperatorStep

LEMMA ClaimedRecord ==
    ASSUME TypeOK, NEW r \in Replicas, NEW k \in Threads, NEW n \in Nat, NEW b \in BOOLEAN,
           Claims(r, k, n, b)
    PROVE  /\ rec'.gen = rec.gen /\ rec'.next = n /\ rec'.count = rec.count + 1 /\ rec'.del = rec.del
           /\ rec'.retries = rec.retries
           /\ DOMAIN claims = 1..Len(claims) /\ DOMAIN claims' = 1..(Len(claims) + 1)
           /\ Len(claims) \in Nat
           /\ claims'[Len(claims) + 1].gen = rec.gen /\ claims'[Len(claims) + 1].slot = rec.next
           /\ \A i \in 1..Len(claims) : claims'[i] = claims[i]
<1>1. rec \in State /\ claims \in Seq(ClaimSet)  BY DEF TypeOK
<1>2. /\ rec'.gen = rec.gen /\ rec'.next = n /\ rec'.count = rec.count + 1 /\ rec'.del = rec.del
      /\ rec'.retries = rec.retries
  <2> DEFINE c(m) == Claimed(rec, m, n)
  <2>1. ASSUME NEW m \in Nat
        PROVE  /\ c(m).gen = rec.gen /\ c(m).next = n /\ c(m).count = rec.count + 1
               /\ c(m).del = rec.del /\ c(m).retries = rec.retries
    BY ONLY <1>1, ClaimedType, m \in Nat, n \in Nat, SMT
  <2>2. rec' = c(th[r][k].now)  BY Zenon DEF Claims
  <2>3. th[r][k].now \in Nat
    <3>1. th[r][k] \in Thread  BY DEF TypeOK
    <3> QED  BY <3>1, ThreadFields, Zenon
  <2> HIDE DEF c
  <2> QED  BY ONLY <2>1, <2>2, <2>3
<1>3. Entry(k, b) \in ClaimSet /\ Entry(k, b).gen = rec.gen /\ Entry(k, b).slot = rec.next
  <2>1. rec.gen \in Nat /\ rec.next \in Nat /\ rec.sess \in FireIds \cup {NoFire, Pending}
    BY <1>1, StateFields
  <2> QED  BY <2>1, Zenon DEF ClaimSet, Entry
<1>4. claims' = Append(claims, Entry(k, b))  BY Zenon DEF Claims
<1> HIDE DEF Entry
<1> QED  BY <1>1, <1>2, <1>3, <1>4, AppendClaim

LEMMA NoResurrectionKept ==
    ASSUME TypeOK, NoResurrection, Separate, Next
    PROVE  NoResurrection'
<1> USE DEF NoResurrection
<1>0. rec \in State /\ gens \in Nat  BY DEF TypeOK
<1>1. CASE Keeps  BY <1>1 DEF Keeps
<1>2. CASE CreateSchedule
  <2>1. First(clock) \in Nat  BY FirstType DEF TypeOK
  <2>4. rec' = Created(gens + 1, First(clock))  BY <1>2, Zenon DEF CreateSchedule
  <2>5. gens + 1 \in Nat  BY <1>0
  <2>6. Created(gens + 1, First(clock)).gen = gens + 1  BY <2>1, <2>5, CreatedType, Zenon
  <2>2. rec'.gen = gens + 1  BY <2>4, <2>6, Zenon
  <2> QED  BY <1>0, <1>2, <2>2 DEF CreateSchedule, operator
<1>3. CASE Delete  BY <1>3 DEF Delete, operator
<1>4. ASSUME NEW r \in Replicas, NEW k \in Threads, NEW n \in Nat, NEW b \in BOOLEAN,
             Claims(r, k, n, b)
      PROVE  NoResurrection'
  BY <1>4, ClaimedRecord, Zenon DEF Claims, operator
<1>5. ASSUME NEW d \in Deleters, BeginDelete(d) \/ DeletePlacement(d) \/ CompleteDelete(d)
      PROVE  NoResurrection'
  <2>1. "delete" \in Ops  BY <1>5 DEF BeginDelete, DeletePlacement, CompleteDelete, NoDeletion
  <2>2. UNCHANGED upd  BY <1>5 DEF BeginDelete, DeletePlacement, CompleteDelete
  <2> QED  BY <2>1, <2>2
<1> QED  BY <1>1, <1>2, <1>3, <1>4, <1>5, RecordSteps, Zenon

\* What removes or marks the record.
LEMMA DeletionRecord ==
    ASSUME TypeOK, NEW d \in Deleters, BeginDelete(d) \/ DeletePlacement(d) \/ CompleteDelete(d)
    PROVE  /\ rec' = Absent \/
              (/\ rec'.gen = rec.gen /\ rec'.next = rec.next /\ rec'.count = rec.count
               /\ rec'.retries = rec.retries /\ rec'.sess = rec.sess /\ rec'.started = rec.started)
           /\ UNCHANGED <<claims, gens>>
<1>0. rec \in State  BY DEF TypeOK
<1>1. CASE BeginDelete(d)  BY <1>0, <1>1, DeletingType DEF BeginDelete, history
<1>2. CASE DeletePlacement(d)  BY <1>2 DEF DeletePlacement, store
<1>3. CASE CompleteDelete(d)
  <2>1. rec' = rec \/ rec' = Absent  BY <1>3, Zenon DEF CompleteDelete
  <2> QED  BY <1>3, <2>1 DEF CompleteDelete
<1> QED  BY <1>1, <1>2, <1>3, Zenon

\* A created record carries the next generation.
LEMMA CreateGives ==
    ASSUME TypeOK, CreateSchedule
    PROVE  rec'.gen = gens + 1
<1>1. clock \in Nat /\ gens + 1 \in Nat  BY DEF TypeOK
<1>2. First(clock) \in Nat  BY <1>1, FirstType, Zenon
<1>3. rec' = Created(gens + 1, First(clock))  BY Zenon DEF CreateSchedule
<1>4. Created(gens + 1, First(clock)).gen = gens + 1  BY <1>1, <1>2, CreatedType, Zenon
<1> QED  BY <1>3, <1>4, Zenon

LEMMA GenerationsStayKnown ==
    ASSUME TypeOK, NoResurrection, Separate, GenerationsKnown, Next
    PROVE  GenerationsKnown'
<1> USE DEF GenerationsKnown
<1>0. rec \in State /\ gens \in Nat  BY DEF TypeOK
<1>1. CASE Keeps  BY <1>0, <1>1 DEF Keeps
<1>2. CASE CreateSchedule
  <2>2. rec'.gen = gens + 1  BY <1>2, CreateGives, Zenon
  <2>3. UNCHANGED claims /\ gens' = gens + 1  BY <1>2, Zenon DEF CreateSchedule
  <2> QED  BY <1>0, <2>2, <2>3
<1>3. CASE Delete  BY <1>0, <1>3, AbsentType DEF Delete
<1>4. ASSUME NEW r \in Replicas, NEW k \in Threads, NEW n \in Nat, NEW b \in BOOLEAN,
             Claims(r, k, n, b)
      PROVE  GenerationsKnown'
  <2>1. rec.gen # 0 /\ gens' = gens  BY <1>4 DEF Claims
  <2>2. rec.gen \in 1..gens  BY <1>0, <2>1
  <2>3. /\ rec'.gen = rec.gen /\ Len(claims) \in Nat
        /\ DOMAIN claims = 1..Len(claims) /\ DOMAIN claims' = 1..(Len(claims) + 1)
        /\ claims'[Len(claims) + 1].gen = rec.gen
        /\ \A i \in 1..Len(claims) : claims'[i] = claims[i]
    BY <1>4, ClaimedRecord, Zenon
  <2> QED  BY <1>0, <2>1, <2>2, <2>3
<1>5. ASSUME NEW d \in Deleters, BeginDelete(d) \/ DeletePlacement(d) \/ CompleteDelete(d)
      PROVE  GenerationsKnown'
  BY <1>0, <1>5, DeletionRecord, AbsentType
<1> QED  BY <1>1, <1>2, <1>3, <1>4, <1>5, RecordSteps, Zenon

\* Where only ticks claim, no thread is in FireNow; a cron is never re-armed.
NoNow == \A r \in Replicas : th[r]["now"].pc = "off"
NoReArm == \A r \in Replicas : th[r]["tick"].pc # "rearm"

LEMMA NoNowKept ==
    ASSUME TypeOK, NoNow, Next, "firenow" \notin Ops
    PROVE  NoNow'
<1>0. th \in ThreadFun /\ "now" \in Threads  BY DEF TypeOK, ThreadFun, Threads
<1>1. CASE UNCHANGED th  BY <1>1 DEF NoNow
<1>2. ASSUME NEW r \in Replicas, th' = [th EXCEPT ![r] = [k \in Threads |-> Off]]
      PROVE  NoNow'
  BY <1>0, <1>2, OffType DEF NoNow, ThreadFun
<1>3. ASSUME NEW r \in Replicas, NEW k \in Threads, NEW x \in Thread, Moves(r, k, x)
      PROVE  NoNow'
  <2>1. \A q \in Replicas, l \in Threads :
           th'[q][l] = IF q = r /\ l = k THEN x ELSE th[q][l]
    BY <1>0, <1>3, SetThread DEF Moves
  <2>2. k # "now"  BY <1>3 DEF Moves, NoNow
  <2> QED  BY <1>0, <2>1, <2>2 DEF NoNow
<1> QED  BY <1>1, <1>2, <1>3, ThreadSteps, Zenon

LEMMA NoReArmKept ==
    ASSUME TypeOK, NoReArm, Next, Kind = "cron"
    PROVE  NoReArm'
<1>0. th \in ThreadFun /\ "tick" \in Threads  BY DEF TypeOK, ThreadFun, Threads
<1>1. CASE UNCHANGED th  BY <1>1 DEF NoReArm
<1>2. ASSUME NEW r \in Replicas, th' = [th EXCEPT ![r] = [k \in Threads |-> Off]]
      PROVE  NoReArm'
  BY <1>0, <1>2, OffType DEF NoReArm, ThreadFun
<1>3. ASSUME NEW r \in Replicas, NEW k \in Threads, NEW x \in Thread, Moves(r, k, x)
      PROVE  NoReArm'
  <2>1. \A q \in Replicas, l \in Threads :
           th'[q][l] = IF q = r /\ l = k THEN x ELSE th[q][l]
    BY <1>0, <1>3, SetThread DEF Moves
  <2>2. x.pc # "rearm"  BY <1>3 DEF Moves, Follows, ShouldReArm
  <2> QED  BY <1>0, <2>1, <2>2 DEF NoReArm
<1> QED  BY <1>1, <1>2, <1>3, ThreadSteps, Zenon

LEMMA SlotsStayBelowNext ==
    ASSUME TypeOK, NoResurrection, Separate, GenerationsKnown, NoNow, NoReArm,
           SlotOnce, SlotsBelowNext, Next
    PROVE  SlotsBelowNext' /\ SlotOnce'
<1> USE DEF SlotsBelowNext, SlotOnce
<1>0. /\ rec \in State /\ gens \in Nat /\ rec.next \in Nat
      /\ \A i \in DOMAIN claims : claims[i].gen \in 1..gens /\ claims[i].slot \in Nat
  <2>1. \A i \in DOMAIN claims : claims[i] \in ClaimSet  BY DEF TypeOK
  <2>2. \A c \in ClaimSet : c.slot \in Nat  BY DEF ClaimSet
  <2>3. rec \in State /\ gens \in Nat  BY DEF TypeOK
  <2> QED  BY <2>1, <2>2, <2>3, StateFields DEF GenerationsKnown
<1>1. CASE Keeps
  <2>1. rec'.next = rec.next  BY <1>1 DEF Keeps, ReArm, NoReArm
  <2> QED  BY <1>1, <2>1 DEF Keeps
<1>2. CASE CreateSchedule
  <2>2. rec'.gen = gens + 1  BY <1>2, CreateGives, Zenon
  <2>3. UNCHANGED claims  BY <1>2, Zenon DEF CreateSchedule
  <2>4. \A i \in DOMAIN claims' : claims'[i] = claims[i] /\ claims'[i].gen # rec'.gen
    BY ONLY <1>0, <2>2, <2>3
  <2>5. SlotsBelowNext'  BY <2>4
  <2> QED  BY <2>3, <2>5
<1>3. ASSUME UNCHANGED claims, rec' = Absent
      PROVE  SlotsBelowNext' /\ SlotOnce'
  BY <1>0, <1>3, AbsentType
<1>4. ASSUME NEW r \in Replicas, NEW k \in Threads, NEW n \in Nat, NEW b \in BOOLEAN,
             Claims(r, k, n, b)
      PROVE  SlotsBelowNext' /\ SlotOnce'
  <2>1. k = "tick"  BY <1>4 DEF Claims, NoNow, Threads
  <2>2. th[r][k].now \in Nat
    <3>1. th[r][k] \in Thread  BY DEF TypeOK
    <3> QED  BY <3>1, ThreadFields, Zenon
  <2>3. rec.next # 0 /\ (n = 0 \/ rec.next < n)
    <3>1. rec.next # 0 /\ rec.next <= th[r][k].now /\ n = ComputeNextFire(th[r][k].snap, th[r][k].now)
      BY <1>4, <2>1, Zenon DEF Claims
    <3>2. n = 0 \/ th[r][k].now < n  BY <2>2, <3>1, NextFireType
    <3> QED  BY ONLY <1>0, <2>2, <3>1, <3>2, n \in Nat
  <2>4. /\ rec'.gen = rec.gen /\ rec'.next = n /\ Len(claims) \in Nat
        /\ DOMAIN claims = 1..Len(claims) /\ DOMAIN claims' = 1..(Len(claims) + 1)
        /\ claims'[Len(claims) + 1].gen = rec.gen /\ claims'[Len(claims) + 1].slot = rec.next
        /\ \A i \in 1..Len(claims) : claims'[i] = claims[i]
    BY <1>4, ClaimedRecord, Zenon
  <2>5. \A i \in 1..Len(claims) : claims[i].gen = rec.gen => claims[i].slot < rec.next
    BY <2>3, <2>4, Zenon
  <2>6. SlotsBelowNext'
    <3>1. ASSUME NEW i \in 1..Len(claims), claims[i].gen = rec.gen
          PROVE  n = 0 \/ claims[i].slot < n
      <4>1. claims[i].slot < rec.next /\ claims[i].slot \in Nat  BY <1>0, <2>4, <2>5, <3>1, Zenon
      <4> QED  BY ONLY <1>0, <2>3, <4>1, n \in Nat
    <3>2. ASSUME NEW i \in DOMAIN claims', claims'[i].gen = rec'.gen
          PROVE  rec'.next = 0 \/ claims'[i].slot < rec'.next
      <4>1. i \in 1..Len(claims) \/ i = Len(claims) + 1  BY ONLY <2>4, <3>2
      <4>2. CASE i \in 1..Len(claims)  BY <2>4, <3>1, <3>2, <4>2, Zenon
      <4>3. CASE i = Len(claims) + 1  BY <2>3, <2>4, <4>3, Zenon
      <4> QED  BY <4>1, <4>2, <4>3
    <3> QED  BY <3>2, Zenon
  <2>7. SlotOnce'
    <3> SUFFICES ASSUME NEW i \in DOMAIN claims', NEW j \in DOMAIN claims', i < j,
                        claims'[i].gen = claims'[j].gen,
                        claims'[i].via = "tick", claims'[j].via = "tick"
                 PROVE  claims'[i].slot # claims'[j].slot
      OBVIOUS
    <3>1. i \in 1..Len(claims)  BY <2>4
    <3>2. CASE j \in 1..Len(claims)  BY <2>4, <3>1, <3>2
    <3>3. CASE j = Len(claims) + 1  BY <1>0, <2>4, <2>5, <3>1, <3>3
    <3> QED  BY <2>4, <3>2, <3>3
  <2> QED  BY <2>6, <2>7
<1>5. ASSUME NEW d \in Deleters, BeginDelete(d) \/ DeletePlacement(d) \/ CompleteDelete(d)
      PROVE  SlotsBelowNext' /\ SlotOnce'
  <2>1. UNCHANGED claims /\ (rec' = Absent \/ (rec'.gen = rec.gen /\ rec'.next = rec.next))
    BY <1>5, DeletionRecord, Zenon
  <2> QED  BY <1>3, <2>1
<1>6. Delete => UNCHANGED claims /\ rec' = Absent  BY Zenon DEF Delete
<1> QED  BY <1>1, <1>2, <1>3, <1>4, <1>5, <1>6, RecordSteps, Zenon

\* The inductive invariant of a cron that only ticks claim.
LEMMA SlotInvariant ==
    ASSUME Kind = "cron", "firenow" \notin Ops, Separate
    PROVE  Spec => []SlotInv
<1>1. Init => SlotInv
  <2> SUFFICES ASSUME Init PROVE SlotInv
    OBVIOUS
  <2>1. TypeOK  BY TypeInit
  <2>2. rec.gen = 1 /\ gens = 1 /\ claims = <<>> /\ upd = Absent
    BY FirstType, CreatedType DEF Init
  <2>3. NoNow /\ NoReArm  BY OffType DEF Init, NoNow, NoReArm, Threads
  <2>4. NoResurrection  BY <2>2 DEF Init, NoResurrection
  <2>5. GenerationsKnown /\ SlotOnce  BY <2>2 DEF GenerationsKnown, SlotOnce
  <2>6. SlotsBelowNext  BY <2>2 DEF SlotsBelowNext
  <2> QED  BY <2>1, <2>3, <2>4, <2>5, <2>6 DEF SlotInv, SlotsBelowNext, NoNow, NoReArm
<1>2. SlotInv /\ [Next]_vars => SlotInv'
  <2> SUFFICES ASSUME SlotInv, [Next]_vars PROVE SlotInv'
    OBVIOUS
  <2>0. /\ TypeOK /\ NoResurrection /\ GenerationsKnown /\ SlotOnce /\ SlotsBelowNext
      /\ NoNow /\ NoReArm
    BY DEF SlotInv, SlotsBelowNext, NoNow, NoReArm
  <2>1. TypeOK'  BY <2>0, TypeNext
  <2>2. CASE Next
    BY <2>0, <2>1, <2>2, NoResurrectionKept, GenerationsStayKnown, SlotsStayBelowNext,
       NoNowKept, NoReArmKept, Zenon DEF SlotInv, SlotsBelowNext, NoNow, NoReArm
  <2>3. CASE UNCHANGED vars
    BY <2>0, <2>1, <2>3, Zenon DEF vars, store, operator, history, SlotInv, NoResurrection,
       GenerationsKnown, SlotOnce, SlotsBelowNext, NoNow, NoReArm
  <2> QED  BY <2>2, <2>3
<1> QED  BY <1>1, <1>2, PTL DEF Spec

\* Where only ticks claim a cron, NextFireAt is always past every slot claimed of the
\* stored incarnation, or zero: for any number of replicas that overlap, lapse, stop
\* and crash, any Period, grace and misfire policy, pauses, deletions and re-creations.
THEOREM NextPastClaims ==
    ASSUME Kind = "cron", "firenow" \notin Ops, Separate
    PROVE  Spec => []SlotsBelowNext
<1>1. SlotInv => SlotsBelowNext  BY DEF SlotInv
<1> QED  BY <1>1, SlotInvariant, PTL

\* At most once: no slot of an incarnation is claimed twice, under those conditions.
THEOREM SlotClaimedOnce ==
    ASSUME Kind = "cron", "firenow" \notin Ops, Separate
    PROVE  Spec => []SlotOnce
<1>1. SlotInv => SlotOnce  BY DEF SlotInv
<1> QED  BY <1>1, SlotInvariant, PTL

-----------------------------------------------------------------------------
(* The count of fires and the placement of a deleted schedule *)

LEMMA ClaimsFinite ==
    ASSUME TypeOK, NEW g
    PROVE  /\ IsFiniteSet(ClaimsOf(g)) /\ Cardinality(ClaimsOf(g)) \in Nat
           /\ Cardinality(ClaimsOf(g)) = 0 <=> ClaimsOf(g) = {}
<1>1. DOMAIN claims = 1..Len(claims) /\ Len(claims) \in Nat  BY DEF TypeOK
<1>2. IsFiniteSet(1..Len(claims))  BY <1>1, FS_Interval
<1>3. IsFiniteSet(ClaimsOf(g))  BY <1>1, <1>2, FS_Subset DEF ClaimsOf
<1> QED  BY <1>3, FS_CardinalityType, FS_EmptySet

\* A claim adds one to its own incarnation h and leaves the others alone.
LEMMA ClaimCounted ==
    ASSUME TypeOK, NEW r \in Replicas, NEW k \in Threads, NEW n \in Nat, NEW b \in BOOLEAN,
           Claims(r, k, n, b), NEW h, h = rec.gen
    PROVE  /\ \A g : g # h => ClaimsOf(g)' = ClaimsOf(g)
           /\ ClaimsOf(h)' # {}
           /\ Cardinality(ClaimsOf(h)') = Cardinality(ClaimsOf(h)) + 1
<1> DEFINE m == Len(claims) + 1
<1>1. /\ DOMAIN claims = 1..Len(claims) /\ DOMAIN claims' = 1..m /\ Len(claims) \in Nat
      /\ claims'[m].gen = h /\ \A i \in 1..Len(claims) : claims'[i] = claims[i]
  BY ClaimedRecord
<1>2. 1..m = (1..Len(claims)) \cup {m} /\ m \notin 1..Len(claims)  BY <1>1
<1> HIDE DEF m
<1>3. \A g : g # h => ClaimsOf(g)' = ClaimsOf(g)  BY <1>1, <1>2 DEF ClaimsOf
<1>4. ClaimsOf(h)' = ClaimsOf(h) \cup {m} /\ m \notin ClaimsOf(h)  BY <1>1, <1>2 DEF ClaimsOf
<1>5. Cardinality(ClaimsOf(h) \cup {m}) = Cardinality(ClaimsOf(h)) + 1
  BY <1>4, ClaimsFinite, FS_AddElement, Zenon
<1> QED  BY <1>3, <1>4, <1>5

\* The claims of an incarnation that a step leaves the history of.
LEMMA SameHistory ==
    ASSUME UNCHANGED claims
    PROVE  \A g : ClaimsOf(g)' = ClaimsOf(g)
BY DEF ClaimsOf

BudgetInv == TypeOK /\ NoResurrection /\ GenerationsKnown /\ FireBudget

LEMMA FireBudgetKept ==
    ASSUME BudgetInv, Separate, Next
    PROVE  FireBudget'
<1>0. TypeOK /\ NoResurrection /\ GenerationsKnown /\ FireBudget  BY DEF BudgetInv
<1>1. /\ rec \in State /\ gens \in Nat /\ rec.gen \in Nat /\ rec.count \in Nat /\ MaxFires \in Nat
      /\ \A g : Cardinality(ClaimsOf(g)) \in Nat
  BY <1>0, StateFields, FireIdFacts, ClaimsFinite, Zenon DEF TypeOK
<1>2. ASSUME UNCHANGED <<claims, gens>>,
             rec' = Absent \/ (rec'.gen = rec.gen /\ rec'.count = rec.count)
      PROVE  FireBudget'
  <2>1. \A g : Cardinality(ClaimsOf(g)') = Cardinality(ClaimsOf(g))  BY <1>2, SameHistory
  <2>2. rec'.gen # 0 => rec'.gen = rec.gen /\ rec'.count = rec.count  BY <1>2, AbsentType
  <2>3. rec'.gen # 0 => rec'.count = Cardinality(ClaimsOf(rec.gen)) /\ ClaimsOf(rec.gen)' = ClaimsOf(rec.gen)
    BY <1>0, <1>2, <2>2 DEF FireBudget, ClaimsOf
  <2> QED  BY <1>0, <1>2, <2>1, <2>2, <2>3 DEF FireBudget
<1>3. CASE CreateSchedule
  <2>1. First(clock) \in Nat  BY <1>0, FirstType DEF TypeOK
  <2>2. rec'.gen = gens + 1 /\ rec'.count = 0  BY <1>1, <1>3, <2>1, CreatedType DEF CreateSchedule
  <2>3. UNCHANGED claims /\ gens' = gens + 1  BY <1>3 DEF CreateSchedule
  <2>4. ASSUME NEW g, g = gens + 1
        PROVE  Cardinality(ClaimsOf(g)') = 0
    <3>1. ClaimsOf(g) = {}  BY <1>0, <1>1, <2>4 DEF GenerationsKnown, ClaimsOf
    <3> QED  BY <2>3, <3>1, SameHistory, FS_EmptySet
  <2>5. rec'.gen # 0 => rec'.count = Cardinality(ClaimsOf(rec.gen))'
    BY <2>2, <2>4
  <2>6. \A g \in 1..gens' : g \in 1..gens \/ g = gens + 1  BY <1>1, <2>3
  <2>7. MaxFires > 0 => \A g \in 1..gens' : Cardinality(ClaimsOf(g)') <= MaxFires
    BY <1>0, <1>1, <2>3, <2>4, <2>6, SameHistory DEF FireBudget
  <2> QED  BY <2>5, <2>7 DEF FireBudget
<1>4. ASSUME NEW r \in Replicas, NEW k \in Threads, NEW n \in Nat, NEW b \in BOOLEAN,
             Claims(r, k, n, b)
      PROVE  FireBudget'
  <2>1. PICK h : h = rec.gen  OBVIOUS
  <2>2. h # 0 /\ UnderMax(rec) /\ gens' = gens  BY <1>4, <2>1 DEF Claims
  <2>3. rec'.gen = h /\ rec'.count = rec.count + 1  BY <1>0, <1>4, <2>1, ClaimedRecord, Zenon
  <2>4. /\ \A g : g # h => Cardinality(ClaimsOf(g)') = Cardinality(ClaimsOf(g))
        /\ Cardinality(ClaimsOf(h)') = Cardinality(ClaimsOf(h)) + 1
    BY <1>0, <1>4, <2>1, ClaimCounted
  <2>5. rec.count = Cardinality(ClaimsOf(h))  BY <1>0, <2>1, <2>2 DEF FireBudget
  <2>6. Cardinality(ClaimsOf(rec.gen))' = rec'.count  BY <2>3, <2>4, <2>5
  <2>7. MaxFires > 0 => \A g \in 1..gens : Cardinality(ClaimsOf(g)') <= MaxFires
    <3> SUFFICES ASSUME MaxFires > 0, NEW g \in 1..gens PROVE Cardinality(ClaimsOf(g)') <= MaxFires
      OBVIOUS
    <3>1. CASE g = h  BY <1>1, <2>2, <2>4, <2>5, <3>1 DEF UnderMax
    <3>2. CASE g # h  BY <1>0, <2>4, <3>2 DEF FireBudget
    <3> QED  BY <3>1, <3>2
  <2> QED  BY <2>2, <2>6, <2>7 DEF FireBudget
<1>5. ASSUME NEW d \in Deleters, BeginDelete(d) \/ DeletePlacement(d) \/ CompleteDelete(d)
      PROVE  FireBudget'
  BY <1>0, <1>2, <1>5, DeletionRecord
<1>6. Delete => UNCHANGED <<claims, gens>> /\ rec' = Absent  BY DEF Delete
<1>7. CASE Keeps  BY <1>2, <1>7 DEF Keeps
<1> QED  BY <1>0, <1>2, <1>3, <1>4, <1>5, <1>6, <1>7, RecordSteps, Zenon

CleanOk(g) == g \in 1..gens /\ ClaimsOf(g) = {} /\ MarkedFor(g)
CallOk(x) ==
    x.pc # "off" =>
        /\ x.token \in 1..gens /\ MarkedFor(x.token)
        /\ x.pc = "clean" => ClaimsOf(x.token) = {}
        /\ x.pc = "complete" => x.token \in cleaned \/ ClaimsOf(x.token) # {}
PlacementInv ==
    /\ rec.del \in {0, rec.gen} /\ NoPlacementLeak
    /\ \A g \in cleaned : CleanOk(g)
    /\ \A d \in Deleters : CallOk(dl[d])

\* A step that keeps the history, and the record or removes it, keeps what was known.
LEMMA PlacementStable ==
    ASSUME PlacementInv, gens \in Nat, UNCHANGED <<claims, gens>>, cleaned \subseteq cleaned',
           rec' = Absent \/ (rec'.gen = rec.gen /\ rec'.del \in {rec.del, rec.gen})
    PROVE  /\ rec'.del \in {0, rec'.gen}
           /\ \A g \in cleaned : CleanOk(g)'
           /\ \A x : CallOk(x) => CallOk(x)'
<1>1. \A g : ClaimsOf(g)' = ClaimsOf(g)  BY SameHistory
<1>2. \A g \in 1..gens : MarkedFor(g) => MarkedFor(g)'
  BY AbsentType DEF PlacementInv, MarkedFor
<1>3. \A g \in cleaned : CleanOk(g)'  BY <1>1, <1>2 DEF CleanOk, PlacementInv
<1>4. ASSUME NEW x, CallOk(x)
      PROVE  CallOk(x)'
  BY <1>1, <1>2, <1>4 DEF CallOk
<1> QED  BY <1>3, <1>4, AbsentType DEF PlacementInv

LEMMA PlacementsKept ==
    ASSUME BudgetInv, PlacementInv, Separate, Next
    PROVE  PlacementInv'
<1>0. TypeOK /\ NoResurrection /\ GenerationsKnown /\ FireBudget  BY DEF BudgetInv
<1>1. /\ rec \in State /\ gens \in Nat /\ rec.gen \in 0..gens /\ rec.del \in {0, rec.gen}
      /\ dl \in [Deleters -> Deletion]
  BY <1>0 DEF TypeOK, GenerationsKnown, PlacementInv
<1>2. ASSUME UNCHANGED <<claims, gens, cleaned, removed, dl>>,
             rec' = Absent \/ (rec'.gen = rec.gen /\ rec'.del = rec.del)
      PROVE  PlacementInv'
  <2>1. NoPlacementLeak'  BY <1>2, SameHistory DEF PlacementInv, NoPlacementLeak
  <2> QED  BY <1>1, <1>2, <2>1, PlacementStable DEF PlacementInv
<1>3. CASE CreateSchedule
  <2>1. First(clock) \in Nat  BY <1>0, FirstType DEF TypeOK
  <2>2. rec'.gen = gens + 1 /\ rec'.del = 0  BY <1>1, <1>3, <2>1, CreatedType DEF CreateSchedule
  <2>3. UNCHANGED <<claims, cleaned, removed, dl>> /\ gens' = gens + 1
    BY <1>3 DEF CreateSchedule, operator
  <2>4. \A g : ClaimsOf(g)' = ClaimsOf(g)  BY <2>3, SameHistory
  <2>5. \A g \in 1..gens : MarkedFor(g)' /\ g \in 1..gens'  BY <1>1, <2>2, <2>3 DEF MarkedFor
  <2>6. \A g \in cleaned : CleanOk(g)'  BY <2>4, <2>5 DEF CleanOk, PlacementInv
  <2>7. \A d \in Deleters : CallOk(dl[d])'  BY <2>3, <2>4, <2>5, Zenon DEF CallOk, PlacementInv
  <2> QED  BY <2>2, <2>3, <2>4, <2>6, <2>7 DEF PlacementInv, NoPlacementLeak
<1>4. ASSUME NEW r \in Replicas, NEW k \in Threads, NEW n \in Nat, NEW b \in BOOLEAN,
             Claims(r, k, n, b)
      PROVE  PlacementInv'
  <2>1. PICK h : h = rec.gen  OBVIOUS
  <2>2. h # 0 /\ rec.del = 0 /\ UNCHANGED <<gens, dl, cleaned, removed>>
    BY <1>4, <2>1, Zenon DEF Claims, operator
  <2>3. rec'.gen = h /\ rec'.del = 0  BY <1>0, <1>4, <2>1, <2>2, ClaimedRecord
  <2>4. (\A g : g # h => ClaimsOf(g)' = ClaimsOf(g)) /\ ClaimsOf(h)' # {}
    BY <1>0, <1>4, <2>1, ClaimCounted
  <2>5. \A g : MarkedFor(g) /\ g # 0 => g # h /\ MarkedFor(g)'
    BY <2>1, <2>2, <2>3 DEF MarkedFor
  <2>6. \A g \in 1..gens : g # 0  BY <1>1
  <2>7. \A g \in cleaned : CleanOk(g)'  BY <2>2, <2>4, <2>5, <2>6 DEF CleanOk, PlacementInv
  <2>8. ASSUME NEW d \in Deleters PROVE CallOk(dl[d])'
    BY <2>2, <2>4, <2>5, <2>6, Zenon DEF CallOk, PlacementInv
  <2>9. NoPlacementLeak'  BY <2>2, <2>4 DEF NoPlacementLeak, PlacementInv
  <2> QED  BY <2>2, <2>3, <2>7, <2>8, <2>9 DEF PlacementInv
<1>5. ASSUME NEW d \in Deleters, BeginDelete(d)
      PROVE  PlacementInv'
  <2>1. PICK h : h = rec.gen  OBVIOUS
  <2>2. h # 0 /\ UNCHANGED <<claims, gens, cleaned, removed>>  BY <1>5, <2>1 DEF BeginDelete, history
  <2>3. rec'.gen = h /\ rec'.del = h
    BY <1>1, <1>5, <2>1, DeletingType DEF BeginDelete
  <2> PICK x : x = [pc |-> IF NeverFired(rec) THEN "clean" ELSE "complete", token |-> h]
    BY Zenon
  <2>4. dl' = [dl EXCEPT ![d] = x]  BY <1>5, <2>3, Zenon DEF BeginDelete
  <2>5. x.token = h /\ (x.pc = "clean" => rec.count = 0) /\ (x.pc = "complete" => rec.count # 0)
    BY DEF NeverFired
  <2>6. rec.count = 0 <=> ClaimsOf(h) = {}
    BY <1>0, <2>1, <2>2, ClaimsFinite DEF FireBudget
  <2>7. h \in 1..gens  BY <1>1, <2>1, <2>2
  <2>8. CallOk(x)'  BY <2>2, <2>3, <2>5, <2>6, <2>7, SameHistory DEF CallOk, MarkedFor
  <2>9. /\ rec'.del \in {0, rec'.gen} /\ (\A g \in cleaned : CleanOk(g)')
        /\ \A y : CallOk(y) => CallOk(y)'
    BY <1>1, <2>1, <2>2, <2>3, PlacementStable
  <2>10. ASSUME NEW e \in Deleters PROVE CallOk(dl[e])'
    BY <1>1, <2>4, <2>8, <2>9 DEF PlacementInv
  <2>11. NoPlacementLeak'  BY <2>2, SameHistory DEF NoPlacementLeak, PlacementInv
  <2> QED  BY <2>2, <2>9, <2>10, <2>11, Zenon DEF PlacementInv
<1>6. ASSUME NEW d \in Deleters, DeletePlacement(d)
      PROVE  PlacementInv'
  <2>1. PICK x : x = dl[d]  OBVIOUS
  <2>2. /\ UNCHANGED <<rec, claims, gens, removed>> /\ x.pc = "clean" /\ x \in Deletion
        /\ \/ cleaned' = cleaned \cup {x.token} /\ dl' = [dl EXCEPT ![d].pc = "complete"]
           \/ dl' = [dl EXCEPT ![d] = NoDeletion] /\ UNCHANGED cleaned
    BY <1>1, <1>6, <2>1 DEF DeletePlacement, store
  <2>3. CallOk(x)  BY <2>1 DEF PlacementInv
  <2>4. cleaned \subseteq cleaned'  BY <2>2
  <2>5. /\ rec'.del \in {0, rec'.gen} /\ (\A g \in cleaned : CleanOk(g)')
        /\ \A y : CallOk(y) => CallOk(y)'
    BY <1>1, <2>2, <2>4, PlacementStable
  <2>6. CleanOk(x.token)'
    <3>1. CallOk(x)'  BY <2>3, <2>5
    <3> QED  BY <2>2, <3>1 DEF CallOk, CleanOk
  <2>7. \A g \in cleaned' : CleanOk(g)'  BY <2>2, <2>5, <2>6
  <2>8. NoPlacementLeak'  BY <2>2, <2>4, SameHistory DEF NoPlacementLeak, PlacementInv
  <2>9. \A e \in Deleters : e # d => dl'[e] = dl[e]  BY <1>1, <2>2
  <2>10. CallOk(dl[d])'
    <3>1. CASE dl' = [dl EXCEPT ![d] = NoDeletion]  BY <1>1, <3>1 DEF CallOk, NoDeletion
    <3>2. CASE cleaned' = cleaned \cup {x.token} /\ dl' = [dl EXCEPT ![d].pc = "complete"]
      <4> PICK y : y = [x EXCEPT !.pc = "complete"]
        BY Zenon
      <4>1. dl'[d] = y  BY <1>1, <2>1, <3>2
      <4>2. y.pc = "complete" /\ y.token = x.token  BY <2>2 DEF Deletion
      <4>3. CallOk(y)'
        <5>1. x.token \in 1..gens' /\ MarkedFor(x.token)' /\ x.token \in cleaned'
          BY <2>6, <3>2 DEF CleanOk
        <5>2. MarkedFor(y.token)'  BY <4>2, <5>1 DEF MarkedFor
        <5> QED  BY <4>2, <5>1, <5>2 DEF CallOk
      <4> QED  BY <4>1, <4>3
    <3> QED  BY <2>2, <3>1, <3>2
  <2>11. ASSUME NEW e \in Deleters PROVE CallOk(dl[e])'
    BY <2>5, <2>9, <2>10 DEF PlacementInv
  <2> QED  BY <2>5, <2>7, <2>8, <2>11 DEF PlacementInv
<1>7. ASSUME NEW d \in Deleters, CompleteDelete(d)
      PROVE  PlacementInv'
  <2>1. PICK x : x = dl[d]  OBVIOUS
  <2>2. /\ UNCHANGED <<claims, gens, cleaned>> /\ x.pc = "complete"
        /\ dl' = [dl EXCEPT ![d] = NoDeletion]
    BY <1>7, <2>1 DEF CompleteDelete
  <2>3. \/ rec' = Absent /\ removed' = removed \cup {rec.gen} /\ Completes(rec, x.token)
        \/ rec' = rec /\ removed' = removed
    BY <1>7, <2>1, Zenon DEF CompleteDelete
  <2>4. CallOk(x)  BY <2>1 DEF PlacementInv
  <2>5. /\ rec'.del \in {0, rec'.gen} /\ (\A g \in cleaned : CleanOk(g)')
        /\ \A y : CallOk(y) => CallOk(y)'
    BY <1>1, <2>2, <2>3, PlacementStable
  <2>6. NoPlacementLeak'
    <3>1. Completes(rec, x.token) => rec.gen = x.token  BY <1>1 DEF Completes
    <3>2. x.token \in cleaned \/ ClaimsOf(x.token) # {}  BY <2>2, <2>4 DEF CallOk
    <3> QED  BY <2>2, <2>3, <3>1, <3>2, SameHistory DEF NoPlacementLeak, PlacementInv
  <2>7. ASSUME NEW e \in Deleters PROVE CallOk(dl[e])'
    BY <1>1, <2>2, <2>5, Zenon DEF PlacementInv, CallOk, NoDeletion
  <2> QED  BY <2>2, <2>5, <2>6, <2>7 DEF PlacementInv
<1>8. Delete => UNCHANGED <<claims, gens, cleaned, removed, dl>> /\ rec' = Absent  BY DEF Delete, operator
<1>9. CASE Keeps  BY <1>2, <1>9, Zenon DEF Keeps
<1> QED  BY <1>0, <1>2, <1>3, <1>4, <1>5, <1>6, <1>7, <1>8, <1>9, RecordSteps, Zenon

LEMMA LedgerParts == LedgerInv <=> BudgetInv /\ PlacementInv
BY Zenon DEF LedgerInv, BudgetInv, PlacementInv, CleanOk, CallOk

LEMMA LedgerInit == Init => LedgerInv
<1> SUFFICES ASSUME Init PROVE LedgerInv
  OBVIOUS
<1>1. TypeOK  BY TypeInit
<1>2. rec.gen = 1 /\ rec.count = 0 /\ rec.del = 0 /\ gens = 1 /\ claims = <<>> /\ upd = Absent
  BY FirstType, CreatedType DEF Init
<1>3. \A g : ClaimsOf(g) = {} /\ Cardinality(ClaimsOf(g)) = 0
  BY <1>2, FS_EmptySet DEF ClaimsOf
<1>4. BudgetInv
  BY <1>1, <1>2, <1>3, FireIdFacts DEF Init, BudgetInv, NoResurrection, GenerationsKnown, FireBudget
<1>5. PlacementInv  BY <1>2 DEF Init, PlacementInv, NoPlacementLeak, CallOk, NoDeletion
<1> QED  BY <1>4, <1>5, LedgerParts

LEMMA LedgerStep ==
    ASSUME Separate, LedgerInv, [Next]_vars
    PROVE  LedgerInv'
<1> SUFFICES ASSUME BudgetInv, PlacementInv PROVE BudgetInv' /\ PlacementInv'
  <2>1. LedgerInv' <=> BudgetInv' /\ PlacementInv'  BY LedgerParts, PTL
  <2> QED  BY <2>1, LedgerParts
<1>0. TypeOK /\ NoResurrection /\ GenerationsKnown /\ FireBudget  BY DEF BudgetInv
<1>1. TypeOK'  BY <1>0, TypeNext
<1>2. CASE Next
  BY <1>0, <1>1, <1>2, NoResurrectionKept, GenerationsStayKnown, FireBudgetKept, PlacementsKept
     DEF BudgetInv
<1>3. CASE UNCHANGED vars
  <2>1. UNCHANGED <<rec, claims, gens, cleaned, removed, dl, upd>>
    BY <1>3 DEF vars, store, operator, history
  <2>2. \A g : ClaimsOf(g)' = ClaimsOf(g)  BY <2>1, SameHistory
  <2>3. BudgetInv'
    BY <1>0, <1>1, <2>1, Zenon DEF BudgetInv, NoResurrection, GenerationsKnown, FireBudget, ClaimsOf
  <2>4. PlacementInv'
    BY <2>1, Zenon DEF PlacementInv, NoPlacementLeak, CleanOk, CallOk, MarkedFor, ClaimsOf
  <2> QED  BY <2>3, <2>4
<1> QED  BY <1>2, <1>3

\* The ledger of a schedule: the count in the record is the number of claims of its
\* incarnation; an incarnation whose placement was deleted was never claimed and cannot
\* be; a deletion under way knows whether its incarnation was.  For any replicas,
\* policies and bounds, and either kind of schedule.
THEOREM LedgerInvariant ==
    ASSUME Separate
    PROVE  Spec => []LedgerInv
BY LedgerInit, LedgerStep, PTL DEF Spec

\* MaxFires bounds the fires of every incarnation whoever claims them, ticks with stale
\* snapshots and FireNow included, and FireCount is exact.
THEOREM FireBudgetHolds ==
    ASSUME Separate
    PROVE  Spec => []FireBudget
<1>1. LedgerInv => FireBudget  BY Zenon DEF LedgerInv
<1> QED  BY <1>1, LedgerInvariant, PTL

\* The placement of an owned schedule is deleted only if no fire ever claimed its
\* incarnation, and no fire claims it afterwards.
THEOREM PlacementIsKept ==
    ASSUME Separate
    PROVE  Spec => []PlacementKept
<1>1. LedgerInv => PlacementKept  BY DEF LedgerInv, PlacementKept, ClaimsOf
<1> QED  BY <1>1, LedgerInvariant, PTL

\* A removed incarnation has had its placement deleted, or its fires own it, although
\* two deletions and a re-creation of the name overlap.
THEOREM NoPlacementIsLeaked ==
    ASSUME Separate
    PROVE  Spec => []NoPlacementLeak
<1>1. LedgerInv => NoPlacementLeak  BY DEF LedgerInv
<1> QED  BY <1>1, LedgerInvariant, PTL

-----------------------------------------------------------------------------
(* Pauses *)

\* A removed schedule is not paused.
PauseInv == TypeOK /\ NoReArm /\ PausedStays /\ (rec.gen = 0 => ~paused)

LEMMA PauseKept ==
    ASSUME PauseInv, Kind = "cron", Next
    PROVE  PausedStays' /\ (rec'.gen = 0 => ~paused')
<1> DEFINE Goal == PausedStays' /\ (rec'.gen = 0 => ~paused')
<1>0. TypeOK /\ NoReArm /\ PausedStays /\ (rec.gen = 0 => ~paused)  BY DEF PauseInv
<1>1. rec \in State /\ paused \in BOOLEAN  BY <1>0 DEF TypeOK
<1>2. ASSUME UNCHANGED paused, rec'.gen = rec.gen, ~rec.enabled => ~rec'.enabled
      PROVE  Goal
  BY <1>0, <1>2 DEF PausedStays
<1>3. ASSUME ~paused'
      PROVE  Goal
  BY <1>3 DEF PausedStays
<1>4. CASE Quiet  BY <1>2, <1>4 DEF Quiet, store, history
<1>5. CASE Pause
  <2>1. rec' = [rec EXCEPT !.enabled = FALSE] /\ rec.gen # 0  BY <1>5 DEF Pause, Settable
  <2>2. rec'.gen = rec.gen /\ ~rec'.enabled
    BY <1>1, <2>1, EnabledType DEF SameClaims
  <2> QED  BY <2>1, <2>2 DEF PausedStays
<1>6. Resume \/ CreateSchedule \/ Delete => ~paused'  BY DEF Resume, CreateSchedule, Delete
<1>7. CASE UpdateLoads  BY <1>2, <1>7 DEF UpdateLoads, store, history
<1>8. CASE UpdateSaves
  <2>1. UNCHANGED paused /\ rec' = Saved(rec, upd)  BY <1>8 DEF UpdateSaves, history
  <2>2. CASE rec.gen = 0  BY <1>0, <1>3, <2>1, <2>2
  <2>3. CASE rec.gen # 0  BY <1>2, <2>1, <2>3 DEF Saved
  <2> QED  BY <2>2, <2>3
<1>9. ASSUME NEW d \in Deleters, BeginDelete(d) \/ DeletePlacement(d) \/ CompleteDelete(d)
      PROVE  Goal
  <2>1. CASE BeginDelete(d)
    <3>1. rec' = rec \/ rec' = Deleting(rec)  BY <2>1 DEF BeginDelete
    <3>2. rec'.gen = rec.gen /\ (~rec.enabled => ~rec'.enabled)  BY <1>1, <3>1, DeletingType
    <3> QED  BY <1>2, <2>1, <3>2 DEF BeginDelete, history
  <2>2. CASE DeletePlacement(d)  BY <1>2, <2>2 DEF DeletePlacement, store
  <2>3. CASE CompleteDelete(d)
    <3>1. ~paused' \/ UNCHANGED <<rec, paused>>  BY <2>3, Zenon DEF CompleteDelete
    <3> QED  BY <1>2, <1>3, <3>1
  <2> QED  BY <1>9, <2>1, <2>2, <2>3
<1>10. ASSUME NEW r \in Replicas, ReArm(r)
       PROVE  Goal
  BY <1>0, <1>10, Zenon DEF ReArm, NoReArm
<1>11. ASSUME NEW r \in Replicas, NEW k \in Threads, Settle(r) \/ Start(r, k) \/ Record(r, k)
       PROVE  Goal
  <2>0. th[r][k] \in Thread /\ th[r]["tick"] \in Thread  BY <1>0 DEF TypeOK, Threads
  <2>1. UNCHANGED paused /\ rec'.gen = rec.gen  BY <1>0, <1>11, FireStoreTyped, Zenon
  <2>2. \/ rec' = rec
        \/ \E f \in MaybeFire, at \in Nat : rec' = Started(rec, f, at)
        \/ \E f \in FireIds \cup {NoFire, Pending} : rec' = Recorded(rec, f)
    <3>1. CASE Settle(r)
      <4> DEFINE t == th[r]["tick"]
                 g == IF t.tgt = Pending THEN NoFire ELSE t.tgt
      <4>1. rec' = rec \/ rec' = Recorded(rec, g)  BY <3>1, Zenon DEF Settle, store
      <4>2. g \in FireIds \cup {NoFire, Pending}  BY <2>0, ThreadFields
      <4> QED  BY <4>1, <4>2, Zenon
    <3>2. CASE Start(r, k)
      <4>1. rec' = rec \/ rec' = Started(rec, th[r][k].id, th[r][k].now)
        BY <3>2, Zenon DEF Start, store
      <4> QED  BY <2>0, <4>1, ThreadFields, Zenon
    <3>3. CASE Record(r, k)
      <4>1. rec' = rec \/ rec' = Recorded(rec, th[r][k].got)  BY <3>3, Zenon DEF Record, store
      <4>2. th[r][k].got \in FireIds \cup {NoFire, Pending}  BY <2>0, ThreadFields DEF MaybeFire
      <4> QED  BY <4>1, <4>2, Zenon
    <3> QED  BY <1>11, <3>1, <3>2, <3>3
  <2>3. rec'.enabled = rec.enabled
    <3>1. \A f \in MaybeFire, at \in Nat : Started(rec, f, at).enabled = rec.enabled
      BY <1>1, StartedType, Zenon
    <3>2. \A f \in FireIds \cup {NoFire, Pending} : Recorded(rec, f).enabled = rec.enabled
      BY <1>1, RecordedType, Zenon
    <3>3. ASSUME NEW f \in MaybeFire, NEW at \in Nat, rec' = Started(rec, f, at)
          PROVE  rec'.enabled = rec.enabled
      BY ONLY <3>1, <3>3
    <3>4. ASSUME NEW f \in FireIds \cup {NoFire, Pending}, rec' = Recorded(rec, f)
          PROVE  rec'.enabled = rec.enabled
      BY ONLY <3>2, <3>4
    <3> QED  BY <2>2, <3>3, <3>4
  <2>4. ~rec.enabled => ~rec'.enabled  BY <2>3, Zenon
  <2> QED  BY <1>2, <2>1, <2>4
<1>12. ASSUME NEW r \in Replicas, NEW k \in Threads, Claim(r, k)
       PROVE  Goal
  <2>1. UNCHANGED paused  BY <1>12 DEF Claim
  <2>2. CASE claims' = claims /\ rec' = rec  BY <1>2, <2>1, <2>2
  <2>3. CASE claims' # claims \/ rec' # rec
    <3>1. rec.enabled  BY <1>0, <1>12, <2>3, ClaimWrites, Zenon DEF Claims
    <3> QED  BY <1>0, <1>3, <2>1, <3>1 DEF PausedStays
  <2> QED  BY <2>2, <2>3
<1>13. "tick" \in Threads  BY DEF Threads
<1> QED
  BY <1>3, <1>4, <1>5, <1>6, <1>7, <1>8, <1>9, <1>10, <1>11, <1>12, <1>13, StoreSteps, Zenon
     DEF OperatorStep

\* A paused cron stays disabled until the operator resumes or replaces it, whatever fire
\* was under way and whatever update had read it before (the re-arm scan enables a
\* one-shot, so a one-shot is not covered).
THEOREM PauseHolds ==
    ASSUME Kind = "cron"
    PROVE  Spec => []PausedStays
<1>1. Init => PauseInv
  <2>1. Init => NoReArm
    <3>1. Init => th = [r \in Replicas |-> [k \in Threads |-> Off]]  BY Zenon DEF Init
    <3>2. "tick" \in Threads /\ Off.pc # "rearm"  BY OffType DEF Threads
    <3> QED  BY <3>1, <3>2 DEF NoReArm
  <2>2. Init => ~paused  BY Zenon DEF Init
  <2> QED  BY <2>1, <2>2, TypeInit DEF PauseInv, PausedStays
<1>2. PauseInv /\ [Next]_vars => PauseInv'
  <2> SUFFICES ASSUME PauseInv, [Next]_vars PROVE PauseInv'
    OBVIOUS
  <2>0. TypeOK /\ NoReArm /\ TypeOK'  BY TypeNext DEF PauseInv
  <2>1. CASE Next  BY <2>0, <2>1, NoReArmKept, PauseKept DEF PauseInv
  <2>2. CASE UNCHANGED vars
    BY <2>0, <2>2 DEF vars, store, history, PauseInv, NoReArm, PausedStays
  <2> QED  BY <2>1, <2>2
<1>3. PauseInv => PausedStays  BY DEF PauseInv
<1> QED  BY <1>1, <1>2, <1>3, PTL DEF Spec
=============================================================================
