--------------------------- MODULE OneShotProofs ---------------------------
(***************************************************************************)
(* Theorems about one-shot schedules with retries, for any number of       *)
(* replicas that may crash and any bounds: the retry budget, and that a    *)
(* success is not repeated.  Where a stop or a lapsed leader lease makes   *)
(* two leaders tick, both fail (SchedRefire), so those are excluded.       *)
(***************************************************************************)
EXTENDS SchedulerProofs

OneLeader == "lapse" \notin Ops /\ "stop" \notin Ops /\ "firenow" \notin Ops

-----------------------------------------------------------------------------
(* One tick at a time *)

\* Steps of the operator, of time and of the fires' leases.
Outside == Tick \/ OperatorStep \/ \E f \in FireIds : LeaseLapses(f)

LEMMA SoleSteps ==
    ASSUME TypeOK, SoleTick, OneLeader, Next
    PROVE  \/ Outside /\ UNCHANGED <<leadership, th>>
           \/ \E r \in Replicas : LeaderStep(r)
           \/ /\ UNCHANGED leadership
              /\ \E r \in Replicas, x \in Thread :
                    Moves(r, "tick", x) /\ (TickDue(r) \/ th[r]["tick"].pc # "off")
<1>1. Outside => UNCHANGED <<leadership, th>>
  BY DEF Outside, Tick, OperatorStep, Pause, Resume, CreateSchedule, UpdateLoads, UpdateSaves, Delete,
     BeginDelete, DeletePlacement, CompleteDelete, LeaseLapses
<1>2. ~LeaderLapses  BY DEF LeaderLapses, OneLeader
<1>3. ASSUME NEW r \in Replicas
      PROVE  ~FireNow(r) /\ ~FireNowLoads(r) /\ ~FireStep(r, "now")
  BY DEF FireNow, FireNowLoads, FireStep, Claim, Create, Start, Enter, RunEnds, Record,
     OneLeader, SoleTick
<1>4. ASSUME NEW r \in Replicas, TickDue(r) \/ ScanStep(r) \/ FireStep(r, "tick")
      PROVE  /\ UNCHANGED leadership
             /\ \E x \in Thread : Moves(r, "tick", x) /\ (TickDue(r) \/ th[r]["tick"].pc # "off")
  <2>1. "tick" \in Threads  BY DEF Threads
  <2>2. PICK x : Moves(r, "tick", x)  BY <1>4, <2>1, TickMoves, FireStepMoves
  <2>3. x \in Thread  BY <2>2 DEF Moves
  <2>4. TickDue(r) \/ th[r]["tick"].pc # "off"
    BY <1>4 DEF ScanStep, ReArmScan, ReArm, StaleScan, Settle, FireOne, FireStep, Claim, Create,
       Start, Enter, RunEnds, Record
  <2>5. UNCHANGED leadership
    BY <1>4 DEF TickDue, ScanStep, ReArmScan, ReArm, StaleScan, Settle, FireOne, FireStep, Claim,
       Create, Start, Enter, RunEnds, Record
  <2> QED  BY <2>2, <2>3, <2>4, <2>5
<1>5. \A k \in Threads : k = "tick" \/ k = "now"  BY DEF Threads
<1> QED  BY <1>1, <1>2, <1>3, <1>4, <1>5, Zenon DEF Next, Outside

LEMMA MovedThreads ==
    ASSUME TypeOK, NEW r \in Replicas, NEW k \in Threads, NEW x \in Thread, Moves(r, k, x)
    PROVE  \A q \in Replicas, l \in Threads :
             th'[q][l] = IF q = r /\ l = k THEN x ELSE th[q][l]
<1>1. th \in ThreadFun  BY DEF TypeOK, ThreadFun
<1>2. th' = [th EXCEPT ![r][k] = x]  BY DEF Moves
<1> QED  BY <1>1, <1>2, SetThread

LEMMA SoleTickKept ==
    ASSUME TypeOK, SoleTick, OneLeader, Next
    PROVE  SoleTick'
<1> USE DEF SoleTick
<1>0. /\ th \in ThreadFun /\ "tick" \in Threads /\ "now" \in Threads
      /\ up \in [Replicas -> BOOLEAN] /\ draining \in [Replicas -> BOOLEAN]
      /\ role \in [Replicas -> {"standby", "leader", "stopping", "stopped"}]
  BY DEF TypeOK, ThreadFun, Threads
<1>1. CASE UNCHANGED <<leadership, th>>  BY <1>1 DEF leadership
<1>2. ASSUME NEW r \in Replicas, LeaderStep(r)
      PROVE  SoleTick'
  <2>1. CASE Promote(r)
    <3>1. /\ up[r] /\ role[r] = "standby" /\ th[r]["tick"].pc = "off" /\ LeadFree(r)
          /\ lead' = r /\ ~leadLapsed' /\ role' = [role EXCEPT ![r] = "leader"]
          /\ UNCHANGED <<up, draining, th>>
      BY <2>1 DEF Promote
    <3>2. \A q \in Replicas : q # r => ~(up[q] /\ role[q] = "leader")
      BY <3>1, SchedulerAssumption, Zenon DEF LeadFree
    <3>3. role'[r] = "leader" /\ \A q \in Replicas : q # r => role'[q] = role[q]  BY <1>0, <3>1
    <3> SUFFICES ASSUME NEW q \in Replicas
                 PROVE  /\ ~draining'[q] /\ role'[q] \in {"standby", "leader"} /\ th'[q]["now"].pc = "off"
                        /\ up'[q] /\ role'[q] = "leader" => lead' = q /\ ~leadLapsed'
                        /\ th'[q]["tick"].pc # "off" => up'[q] /\ role'[q] = "leader"
      OBVIOUS
    <3>4. CASE q = r  BY <3>1, <3>3, <3>4
    <3>5. CASE q # r  BY <3>1, <3>2, <3>3, <3>5
    <3> QED  BY <3>4, <3>5
  <2>2. CASE Renew(r)  BY <2>2 DEF Renew
  <2>3. CASE Crash(r)
    <3>1. /\ up' = [up EXCEPT ![r] = FALSE] /\ leadLapsed' = (leadLapsed \/ lead = r)
          /\ th' = [th EXCEPT ![r] = [k \in Threads |-> Off]]
          /\ UNCHANGED <<lead, role, draining>>
      BY <2>3 DEF Crash
    <3>2. \A q \in Replicas : q # r => th'[q] = th[q] /\ up'[q] = up[q]  BY <1>0, <3>1 DEF ThreadFun
    <3>3. th'[r]["tick"].pc = "off" /\ th'[r]["now"].pc = "off" /\ ~up'[r]
      BY <1>0, <3>1, OffType DEF ThreadFun
    <3> SUFFICES ASSUME NEW q \in Replicas
                 PROVE  /\ ~draining'[q] /\ role'[q] \in {"standby", "leader"} /\ th'[q]["now"].pc = "off"
                        /\ up'[q] /\ role'[q] = "leader" => lead' = q /\ ~leadLapsed'
                        /\ th'[q]["tick"].pc # "off" => up'[q] /\ role'[q] = "leader"
      OBVIOUS
    <3>4. CASE q = r  BY <3>1, <3>3, <3>4
    <3>5. CASE q # r  BY ZenonT(30), <3>1, <3>2, <3>5
    <3> QED  BY <3>4, <3>5
  <2>4. ~Demote(r) /\ ~Drain(r) /\ ~StopBegins(r) /\ ~ReleaseLeader(r) /\ ~StoppedLapses(r)
    <3>1. ~draining[r] /\ (role[r] = "standby" \/ role[r] = "leader")  OBVIOUS
    <3>2. up[r] /\ role[r] = "leader" => lead = r /\ ~leadLapsed  BY Zenon
    <3>3. ~Demote(r) /\ ~StopBegins(r)  BY <3>1, <3>2, Zenon DEF Demote, StopBegins
    <3>4. ~Drain(r)  BY Zenon DEF Drain, OneLeader
    <3>5. ~ReleaseLeader(r) /\ ~StoppedLapses(r)  BY <3>1 DEF ReleaseLeader, StoppedLapses
    <3> QED  BY <3>3, <3>4, <3>5
  <2> QED  BY <1>2, <2>1, <2>2, <2>3, <2>4 DEF LeaderStep
<1>3. ASSUME UNCHANGED leadership, NEW r \in Replicas, NEW x \in Thread, Moves(r, "tick", x),
             TickDue(r) \/ th[r]["tick"].pc # "off"
      PROVE  SoleTick'
  <2>1. \A q \in Replicas, l \in Threads :
           th'[q][l] = IF q = r /\ l = "tick" THEN x ELSE th[q][l]
    BY <1>0, <1>3, MovedThreads
  <2>2. up[r] /\ role[r] = "leader"  BY <1>3 DEF TickDue, IsLeader
  <2> QED  BY <1>0, <1>3, <2>1, <2>2 DEF leadership
<1> QED  BY <1>1, <1>2, <1>3, SoleSteps, Zenon

\* A tick that moves is the only one there is.
LEMMA SoleMover ==
    ASSUME TypeOK, SoleTick, NEW r \in Replicas, TickDue(r) \/ th[r]["tick"].pc # "off"
    PROVE  \A q \in Replicas : q # r => th[q]["tick"].pc = "off"
BY DEF SoleTick, TickDue, IsLeader

-----------------------------------------------------------------------------
(* The retry budget *)

RetryInv ==
    /\ rec.retries <= MaxRetries /\ rec.count <= rec.retries + 1
    /\ rec.next # 0 => rec.count <= rec.retries
SuccessInv ==
    /\ DOMAIN claims \subseteq FireIds
    /\ \A i \in FireIds : fires[i] = "ok" => i <= Len(claims)
    /\ \A i \in FireIds : Succeeded(i) =>
          i = Len(claims) /\ rec.next = 0 /\ rec.sess = i /\ rec.started = 0
TicksInv == \A r \in Replicas : TickInv(th[r]["tick"])

\* What the steps start from.
Before == LedgerInv /\ SoleTick /\ RetryBudget /\ RetryInv /\ SuccessInv /\ TicksInv

LEMMA BeforeFacts ==
    ASSUME Before
    PROVE  /\ TypeOK /\ NoResurrection /\ GenerationsKnown /\ FireBudget
           /\ rec \in State /\ gens \in Nat /\ rec.gen \in Nat /\ rec.next \in Nat
           /\ rec.count \in Nat /\ rec.retries \in Nat /\ MaxRetries \in Nat
           /\ Len(claims) \in Nat /\ DOMAIN claims = 1..Len(claims)
<1>1. TypeOK /\ NoResurrection /\ GenerationsKnown /\ FireBudget  BY DEF Before, LedgerInv
<1>2. rec \in State /\ gens \in Nat /\ claims \in Seq(ClaimSet)  BY <1>1 DEF TypeOK
<1> QED  BY <1>1, <1>2, StateFields, SchedulerAssumption

\* A tick claims an armed one-shot, and disarms it.
LEMMA OneShotClaims ==
    ASSUME Before, Kind = "oneshot", NEW r \in Replicas, NEW k \in Threads, NEW n \in Nat,
           NEW b \in BOOLEAN, Claims(r, k, n, b)
    PROVE  /\ k = "tick" /\ n = 0 /\ rec.next # 0 /\ rec.count <= rec.retries
           /\ \A i \in FireIds : ~Succeeded(i)
<1>1. k = "tick"  BY DEF Claims, SoleTick, Before, Threads
<1>2. rec.next # 0  BY <1>1 DEF Claims
<1>3. n = 0  BY DEF Claims, ComputeNextFire
<1> QED  BY <1>1, <1>2, <1>3 DEF Before, RetryInv, SuccessInv

LEMMA ReArmsOnce ==
    ASSUME Before, NEW r \in Replicas, ReArm(r)
    PROVE  /\ rec' = rec \/ (rec'.retries = rec.retries + 1 /\ rec'.count = rec.count /\ rec'.gen = rec.gen)
           /\ rec.retries < MaxRetries /\ \A i \in FireIds : ~Succeeded(i)
           /\ UNCHANGED <<fires, claims, gens>>
<1>1. th[r]["tick"].pc = "rearm" /\ UNCHANGED <<fires, claims, gens>>  BY DEF ReArm, history
<1>2. rec.retries < MaxRetries /\ \A i \in FireIds : ~Succeeded(i)
  BY <1>1 DEF Before, TicksInv, TickInv
<1>3. rec' = rec \/ rec' = ReArmed(rec, th[r]["tick"].now + Backoff)  BY DEF ReArm
<1>4. th[r]["tick"].now + Backoff \in Nat
  <2>1. th[r]["tick"] \in Thread  BY BeforeFacts DEF TypeOK, Threads
  <2> QED  BY <2>1, ThreadFields, SchedulerAssumption
<1>5. \A m \in Nat : /\ ReArmed(rec, m).retries = rec.retries + 1
                     /\ ReArmed(rec, m).count = rec.count /\ ReArmed(rec, m).gen = rec.gen
  BY BeforeFacts, ReArmedType
<1> QED  BY ONLY <1>1, <1>2, <1>3, <1>4, <1>5

LEMMA RetryKept ==
    ASSUME Before, Kind = "oneshot", Separate, Next
    PROVE  RetryInv' /\ RetryBudget'
<1>0. /\ TypeOK /\ NoResurrection /\ GenerationsKnown /\ FireBudget /\ RetryInv /\ RetryBudget
      /\ rec \in State /\ gens \in Nat /\ rec.gen \in Nat /\ rec.count \in Nat
      /\ rec.retries \in Nat /\ MaxRetries \in Nat
      /\ \A g : Cardinality(ClaimsOf(g)) \in Nat
  BY BeforeFacts, ClaimsFinite DEF Before
<1>1. ASSUME UNCHANGED <<claims, gens>>
      PROVE  RetryBudget'
  BY <1>0, <1>1, SameHistory DEF RetryBudget
<1>2. ASSUME rec' = Absent
      PROVE  RetryInv'
  BY <1>0, <1>2, AbsentType DEF RetryInv
<1>3. CASE Keeps
  <2>1. RetryBudget'  BY <1>1, <1>3 DEF Keeps
  <2>2. CASE rec'.next = rec.next /\ rec'.retries = rec.retries
    BY <1>0, <1>3, <2>1, <2>2 DEF Keeps, RetryInv
  <2>3. ASSUME NEW r \in Replicas, ReArm(r)
        PROVE  RetryInv'
    BY <1>0, <2>3, ReArmsOnce DEF RetryInv
  <2> QED  BY <1>3, <2>1, <2>2, <2>3 DEF Keeps
<1>4. CASE CreateSchedule
  <2>1. First(clock) \in Nat  BY <1>0, FirstType DEF TypeOK
  <2>2. rec'.count = 0 /\ rec'.retries = 0  BY <1>0, <1>4, <2>1, CreatedType DEF CreateSchedule
  <2>3. UNCHANGED claims /\ gens' = gens + 1  BY <1>4 DEF CreateSchedule
  <2>4. ASSUME NEW g, g = gens + 1
        PROVE  Cardinality(ClaimsOf(g)') = 0
    <3>1. ClaimsOf(g) = {}  BY <1>0, <2>4 DEF GenerationsKnown, ClaimsOf
    <3> QED  BY <2>3, <3>1, SameHistory, FS_EmptySet
  <2>5. \A g \in 1..gens' : g \in 1..gens \/ g = gens + 1  BY <1>0, <2>3
  <2>6. RetryBudget'  BY <1>0, <2>3, <2>4, <2>5, SameHistory DEF RetryBudget
  <2> QED  BY <1>0, <2>2, <2>6 DEF RetryInv
<1>5. ASSUME NEW r \in Replicas, NEW k \in Threads, NEW n \in Nat, NEW b \in BOOLEAN,
             Claims(r, k, n, b)
      PROVE  RetryInv' /\ RetryBudget'
  <2>1. PICK h : h = rec.gen  OBVIOUS
  <2>2. n = 0 /\ rec.count <= rec.retries  BY <1>5, OneShotClaims
  <2>3. rec'.next = 0 /\ rec'.count = rec.count + 1 /\ rec'.retries = rec.retries
    BY <1>0, <1>5, <2>2, ClaimedRecord
  <2>4. /\ \A g : g # h => Cardinality(ClaimsOf(g)') = Cardinality(ClaimsOf(g))
        /\ Cardinality(ClaimsOf(h)') = Cardinality(ClaimsOf(h)) + 1
    BY <1>0, <1>5, <2>1, ClaimCounted
  <2>5. h # 0 /\ gens' = gens  BY <1>5, <2>1 DEF Claims
  <2>6. rec.count = Cardinality(ClaimsOf(h))  BY <1>0, <2>1, <2>5 DEF FireBudget
  <2>7. RetryBudget'
    <3> SUFFICES ASSUME NEW g \in 1..gens PROVE Cardinality(ClaimsOf(g)') <= 1 + MaxRetries
      BY <2>5 DEF RetryBudget
    <3>1. CASE g = h  BY <1>0, <2>2, <2>4, <2>6, <3>1 DEF RetryInv
    <3>2. CASE g # h  BY <1>0, <2>4, <3>2 DEF RetryBudget
    <3> QED  BY <3>1, <3>2
  <2> QED  BY <1>0, <2>2, <2>3, <2>7 DEF RetryInv
<1>6. ASSUME NEW d \in Deleters, BeginDelete(d) \/ DeletePlacement(d) \/ CompleteDelete(d)
      PROVE  RetryInv' /\ RetryBudget'
  BY <1>0, <1>1, <1>2, <1>6, DeletionRecord DEF RetryInv
<1>7. Delete => UNCHANGED <<claims, gens>> /\ rec' = Absent  BY DEF Delete
<1> QED  BY <1>0, <1>1, <1>2, <1>3, <1>4, <1>5, <1>6, <1>7, RecordSteps, Zenon

-----------------------------------------------------------------------------
(* Success is what the record points to *)

NoneSucceeded == \A i \in FireIds : ~Succeeded(i)

\* A removed or new record: none of the claims is of its incarnation.
LEMMA FreshRecord ==
    ASSUME Before, UNCHANGED claims, rec' = Absent \/ CreateSchedule
    PROVE  \A i \in DOMAIN claims : claims[i].gen # rec'.gen
<1>1. rec'.gen = 0 \/ rec'.gen = gens + 1
  <2>1. First(clock) \in Nat  BY BeforeFacts, FirstType DEF TypeOK
  <2>2. gens + 1 \in Nat  BY BeforeFacts
  <2> QED  BY <2>1, <2>2, AbsentType, CreatedType DEF CreateSchedule
<1> QED  BY <1>1, BeforeFacts DEF GenerationsKnown

LEMMA SuccessStable ==
    ASSUME Before, UNCHANGED <<claims, fires>>,
           \/ \A i \in DOMAIN claims : claims[i].gen # rec'.gen
           \/ rec'.gen = rec.gen /\ NoneSucceeded
           \/ /\ rec'.gen = rec.gen /\ rec'.next = rec.next
              /\ rec'.sess = rec.sess /\ rec'.started = rec.started
    PROVE  SuccessInv'
BY DEF Before, SuccessInv, Succeeded, ClaimsOf, NoneSucceeded

\* The fire that the tick drives is the last claim.
LEMMA DrivenIsLast ==
    ASSUME Before, NEW r \in Replicas, NEW k \in Threads, th[r][k].pc \in Driving
    PROVE  /\ k = "tick" /\ th[r][k].id = Len(claims) /\ claims # <<>>
           /\ claims[th[r][k].id].gen = rec.gen => rec.next = 0
           /\ HasSession(th[r][k])
<1>1. k = "tick"  BY DEF Before, SoleTick, Threads, Driving
<1> QED  BY <1>1 DEF Before, TicksInv, TickInv, Driving, HasSession

LEMMA SuccessKept ==
    ASSUME Before, Kind = "oneshot", Separate, Next
    PROVE  SuccessInv'
<1>0. /\ TypeOK /\ NoResurrection /\ SuccessInv /\ rec \in State /\ fires \in [FireIds -> Stops]
      /\ Len(claims) \in Nat /\ DOMAIN claims = 1..Len(claims) /\ DOMAIN claims \subseteq FireIds
  BY BeforeFacts DEF Before, SuccessInv, TypeOK
<1>1. CASE Quiet  BY <1>1, SuccessStable DEF Quiet, store, history
<1>2. CASE Pause \/ Resume
  <2>1. PICK b \in BOOLEAN : rec' = [rec EXCEPT !.enabled = b]  BY <1>2, Zenon DEF Pause, Resume
  <2>2. rec'.gen = rec.gen /\ rec'.next = rec.next /\ rec'.sess = rec.sess /\ rec'.started = rec.started
    BY <1>0, <2>1, EnabledType DEF SameClaims
  <2> QED  BY <1>2, <2>2, SuccessStable DEF Pause, Resume
<1>3. CASE UpdateLoads  BY <1>3, SuccessStable DEF UpdateLoads, store, history
<1>4. CASE UpdateSaves
  <2>1. rec.gen # 0  BY <1>0, <1>4, Zenon DEF UpdateSaves, NoResurrection, Separate
  <2> QED  BY <1>4, <2>1, SuccessStable DEF UpdateSaves, Saved, history
<1>5. CASE CreateSchedule \/ Delete
  <2>1. UNCHANGED <<claims, fires>> /\ (rec' = Absent \/ CreateSchedule)
    BY <1>5 DEF CreateSchedule, Delete
  <2> QED  BY <2>1, FreshRecord, SuccessStable
<1>6. ASSUME NEW d \in Deleters, BeginDelete(d) \/ DeletePlacement(d) \/ CompleteDelete(d)
      PROVE  SuccessInv'
  <2>1. UNCHANGED fires  BY <1>6 DEF BeginDelete, DeletePlacement, CompleteDelete, store
  <2>2. UNCHANGED claims /\ (rec' = Absent \/
                              (/\ rec'.gen = rec.gen /\ rec'.next = rec.next
                               /\ rec'.sess = rec.sess /\ rec'.started = rec.started))
    BY <1>0, <1>6, DeletionRecord
  <2> QED  BY <2>1, <2>2, FreshRecord, SuccessStable
<1>7. ASSUME NEW r \in Replicas, ReArm(r)
      PROVE  SuccessInv'
  BY <1>7, ReArmsOnce, SuccessStable DEF NoneSucceeded
<1>8. ASSUME NEW r \in Replicas, Settle(r)
      PROVE  SuccessInv'
  <2>1. NoneSucceeded  BY <1>8 DEF Settle, Before, TicksInv, TickInv, NoneSucceeded
  <2>2. \A f \in FireIds : fires'[f] = fires[f] \/ fires'[f] = "error"  BY <1>8 DEF Settle, store
  <2>3. "tick" \in Threads  BY DEF Threads
  <2>4. UNCHANGED claims /\ rec'.gen = rec.gen  BY <1>0, <1>8, <2>3, FireStoreTyped
  <2> QED  BY <1>0, <2>1, <2>2, <2>4 DEF SuccessInv, NoneSucceeded, Succeeded, ClaimsOf
<1>9. ASSUME NEW r \in Replicas, NEW k \in Threads, Claim(r, k)
      PROVE  SuccessInv'
  <2>1. CASE claims' = claims /\ rec' = rec  BY <1>9, <2>1, SuccessStable DEF Claim
  <2>2. CASE claims' # claims \/ rec' # rec
    <3>1. PICK n \in Nat, b \in BOOLEAN : Claims(r, k, n, b)  BY <1>0, <1>9, <2>2, ClaimWrites
    <3>2. NoneSucceeded  BY <3>1, OneShotClaims DEF NoneSucceeded
    <3>3. /\ rec'.gen = rec.gen /\ DOMAIN claims' = 1..(Len(claims) + 1)
          /\ \A i \in 1..Len(claims) : claims'[i] = claims[i]
      BY <1>0, <3>1, ClaimedRecord
    <3>4. UNCHANGED fires /\ Len(claims) + 1 \in FireIds  BY <3>1 DEF Claims
    <3>5. DOMAIN claims' \subseteq FireIds  BY <1>0, <3>3, <3>4
    <3>6. Len(claims') = Len(claims) + 1
      <4>1. TypeOK'  BY <1>0, TypeNext
      <4>2. Len(claims') \in Nat /\ DOMAIN claims' = 1..Len(claims')  BY <4>1 DEF TypeOK
      <4> QED  BY <1>0, <3>3, <4>2
    <3>7. \A i \in FireIds : fires'[i] = "ok" => i \in Nat /\ i <= Len(claims)
      BY <1>0, <3>4, FireIdFacts DEF SuccessInv
    <3>8. NoneSucceeded'
      BY <1>0, <3>2, <3>3, <3>4, <3>7 DEF NoneSucceeded, Succeeded, ClaimsOf
    <3> QED  BY <1>0, <3>5, <3>6, <3>7, <3>8 DEF SuccessInv, NoneSucceeded
  <2> QED  BY <2>1, <2>2
<1>10. ASSUME NEW r \in Replicas, NEW k \in Threads, Start(r, k) \/ Record(r, k)
       PROVE  SuccessInv'
  <2> DEFINE t == th[r][k]
  <2>1. t.pc \in Driving  BY <1>10 DEF Start, Record, Driving
  <2>2. /\ t.id = Len(claims) /\ t.id \in FireIds
        /\ claims[t.id].gen = rec.gen => rec.next = 0
        /\ HasSession(t)
    <3>1. t.id = Len(claims) /\ claims # <<>>  BY <2>1, DrivenIsLast
    <3>2. Len(claims) \in DOMAIN claims
      <4>1. claims \in Seq(ClaimSet)  BY <1>0 DEF TypeOK
      <4> QED  BY <1>0, <3>1, <4>1
    <3> QED  BY <1>0, <2>1, <3>1, <3>2, DrivenIsLast
  <2>3. UNCHANGED claims /\ rec'.gen = rec.gen /\ rec'.next = rec.next
    <3>1. k = "tick"  BY <2>1, DrivenIsLast
    <3>2. ~ReArm(r)  BY <2>1, <3>1 DEF ReArm, Driving
    <3>3. UNCHANGED claims /\ SameClaims(rec, rec')  BY <1>0, <1>10, <3>2, FireStoreTyped
    <3> QED  BY <3>3 DEF SameClaims
  <2>4. CASE UNCHANGED store  BY <2>4, SuccessStable, <2>3 DEF store
  <2>5. CASE Start(r, k) /\ ~UNCHANGED store
    <3>1. fires[t.id] = "none" /\ fires' = [fires EXCEPT ![t.id] = "inflight"]
      BY <2>5, Zenon DEF Start, Starts
    <3>2. NoneSucceeded  BY <1>0, <2>2, <3>1 DEF SuccessInv, NoneSucceeded, Succeeded
    <3>3. \A f \in FireIds : fires'[f] = "ok" => fires[f] = "ok"  BY <1>0, <2>2, <3>1
    <3> QED  BY <1>0, <2>3, <3>2, <3>3 DEF SuccessInv, NoneSucceeded, Succeeded, ClaimsOf
  <2>6. CASE Record(r, k) /\ ~UNCHANGED store
    <3>1. /\ fires[t.id] # "ok" /\ fires' = [fires EXCEPT ![t.id] = t.stop] /\ rec' = Recorded(rec, t.got)
          /\ t.pc = "record"
      BY <2>6, Zenon DEF Record, Records
    <3>2. NoneSucceeded  BY <1>0, <2>2, <3>1 DEF SuccessInv, NoneSucceeded, Succeeded
    <3>3. \A f \in FireIds : fires'[f] = "ok" => fires[f] = "ok" \/ (f = t.id /\ t.stop = "ok")
      BY <1>0, <2>2, <3>1
    <3>4. rec'.sess = t.got /\ rec'.started = 0
      <4>1. t \in Thread  BY <1>0 DEF TypeOK
      <4>2. t.got \in FireIds \cup {NoFire, Pending}  BY <4>1, ThreadFields DEF MaybeFire
      <4> QED  BY <1>0, <3>1, <4>2, RecordedType
    <3>5. t.stop = "ok" => t.got = t.id  BY <2>2, <3>1 DEF HasSession
    <3> HIDE DEF t
    <3>6. \A f \in FireIds : fires'[f] = "ok" => f <= Len(claims)
      BY <1>0, <2>2, <3>3 DEF SuccessInv
    <3>7. ASSUME NEW f \in FireIds, Succeeded(f)'
          PROVE  f = Len(claims) /\ rec'.next = 0 /\ rec'.sess = f /\ rec'.started = 0
      <4>1. f \in ClaimsOf(rec.gen) /\ fires'[f] = "ok" /\ claims[f].gen = rec.gen
        BY <2>3, <3>7 DEF Succeeded, ClaimsOf
      <4>2. f = t.id /\ t.stop = "ok"  BY <3>2, <3>3, <4>1 DEF NoneSucceeded, Succeeded
      <4> QED  BY <2>2, <2>3, <3>4, <3>5, <4>1, <4>2
    <3> QED  BY <1>0, <2>3, <3>6, <3>7 DEF SuccessInv
  <2> QED  BY <1>10, <2>4, <2>5, <2>6
<1> QED
  BY <1>1, <1>2, <1>3, <1>4, <1>5, <1>6, <1>7, <1>8, <1>9, <1>10, StoreSteps, Zenon DEF OperatorStep

-----------------------------------------------------------------------------
(* What the tick is about to do is still right when it does it *)

\* A step that moves no thread and writes no fire.
LEMMA TickStable ==
    ASSUME Before, UNCHANGED <<claims, fires>>,
           \/ rec'.gen = rec.gen /\ rec'.next = rec.next /\ rec'.retries = rec.retries
           \/ rec'.retries = 0 /\ \A i \in DOMAIN claims : claims[i].gen # rec'.gen
    PROVE  \A t \in Thread : TickInv(t) => TickInv(t)'
<1> SUFFICES ASSUME NEW t \in Thread, TickInv(t)
             PROVE  TickInv(t)'
  OBVIOUS
<1>0. /\ rec.retries \in Nat /\ MaxRetries \in Nat /\ claims \in Seq(ClaimSet)
      /\ Len(claims) \in Nat /\ DOMAIN claims = 1..Len(claims)
  BY BeforeFacts DEF TypeOK
<1>1. t.pc = "rearm" => rec'.retries < MaxRetries  BY <1>0 DEF TickInv
<1>2. t.pc \in {"rearm", "settle"} => \A i \in FireIds : ~Succeeded(i)'
  BY DEF TickInv, Succeeded, ClaimsOf
<1>3. t.pc \in Driving => t.id = Len(claims') /\ claims' # <<>> /\ (claims'[t.id].gen = rec'.gen => rec'.next = 0)
  <2> SUFFICES ASSUME t.pc \in Driving
               PROVE  t.id = Len(claims) /\ claims # <<>> /\ (claims[t.id].gen = rec'.gen => rec'.next = 0)
    OBVIOUS
  <2>1. t.id = Len(claims) /\ claims # <<>> /\ (claims[t.id].gen = rec.gen => rec.next = 0)
    BY DEF TickInv, Driving
  <2>2. t.id \in DOMAIN claims  BY <1>0, <2>1
  <2> QED  BY <2>1, <2>2
<1> QED  BY <1>1, <1>2, <1>3 DEF TickInv, Driving

\* The steps of the operator, of leadership and of leases.
LEMMA TickUndisturbed ==
    ASSUME Before, Separate, Outside \/ \E r \in Replicas : LeaderStep(r)
    PROVE  \A t \in Thread : TickInv(t) => TickInv(t)'
<1>0. TypeOK /\ NoResurrection /\ rec \in State  BY BeforeFacts
<1>1. CASE Quiet  BY <1>1, TickStable DEF Quiet, store, history
<1>2. CASE Pause \/ Resume
  <2>1. PICK b \in BOOLEAN : rec' = [rec EXCEPT !.enabled = b]  BY <1>2, Zenon DEF Pause, Resume
  <2>2. SameClaims(rec, rec')  BY <1>0, <2>1, EnabledType
  <2> QED  BY <1>2, <2>2, TickStable DEF SameClaims, Pause, Resume
<1>3. CASE UpdateLoads  BY <1>3, TickStable DEF UpdateLoads, store, history
<1>4. CASE UpdateSaves
  <2>1. rec.gen # 0  BY <1>0, <1>4, Zenon DEF UpdateSaves, NoResurrection, Separate
  <2> QED  BY <1>4, <2>1, TickStable DEF UpdateSaves, Saved, history
<1>5. CASE CreateSchedule \/ Delete
  <2>1. UNCHANGED <<claims, fires>> /\ (rec' = Absent \/ CreateSchedule)
    BY <1>5 DEF CreateSchedule, Delete
  <2>2. rec'.retries = 0
    <3>1. First(clock) \in Nat /\ gens + 1 \in Nat  BY <1>0, FirstType DEF TypeOK
    <3> QED  BY <2>1, <3>1, AbsentType, CreatedType DEF CreateSchedule
  <2> QED  BY <2>1, <2>2, FreshRecord, TickStable
<1>6. ASSUME NEW d \in Deleters, BeginDelete(d) \/ DeletePlacement(d) \/ CompleteDelete(d)
      PROVE  \A t \in Thread : TickInv(t) => TickInv(t)'
  <2>1. UNCHANGED fires  BY <1>6 DEF BeginDelete, DeletePlacement, CompleteDelete, store
  <2>2. UNCHANGED claims /\ (rec' = Absent \/
          (rec'.gen = rec.gen /\ rec'.next = rec.next /\ rec'.retries = rec.retries))
    BY <1>0, <1>6, DeletionRecord
  <2> QED  BY <2>1, <2>2, FreshRecord, AbsentType, TickStable
<1>7. ASSUME NEW r \in Replicas, LeaderStep(r)
      PROVE  Quiet
  BY <1>7 DEF LeaderStep, Promote, Renew, Demote, Drain, StopBegins, ReleaseLeader,
     StoppedLapses, Crash, Quiet
<1>8. Tick \/ (\E f \in FireIds : LeaseLapses(f)) => Quiet  BY DEF Tick, LeaseLapses, Quiet
<1> QED
  BY <1>1, <1>2, <1>3, <1>4, <1>5, <1>6, <1>7, <1>8, Zenon DEF Outside, OperatorStep

LEMMA TicksKept ==
    ASSUME Before, Kind = "oneshot", Separate, OneLeader, Next
    PROVE  TicksInv'
<1>0. /\ TypeOK /\ SoleTick /\ TicksInv /\ SuccessInv /\ "tick" \in Threads
      /\ \A r \in Replicas : th[r]["tick"] \in Thread /\ TickInv(th[r]["tick"])
  BY BeforeFacts DEF Before, TypeOK, Threads, TicksInv
<1>1. CASE Outside /\ UNCHANGED <<leadership, th>>
  BY <1>0, <1>1, TickUndisturbed DEF TicksInv
<1>2. \A t : t.pc = "off" => TickInv(t)'  BY DEF TickInv
<1>3. ASSUME NEW r \in Replicas, LeaderStep(r)
      PROVE  TicksInv'
  <2>1. UNCHANGED th \/ th' = [th EXCEPT ![r] = [k \in Threads |-> Off]]
    BY <1>3, Zenon DEF LeaderStep, Promote, Renew, Demote, Drain, StopBegins, ReleaseLeader,
       StoppedLapses, Crash
  <2>2. \A q \in Replicas : th'[q]["tick"] = th[q]["tick"] \/ th'[q]["tick"].pc = "off"
    <3>1. th \in ThreadFun  BY <1>0 DEF TypeOK, ThreadFun
    <3> QED  BY <1>0, <2>1, <3>1, OffType DEF ThreadFun
  <2>3. \A t \in Thread : TickInv(t) => TickInv(t)'  BY <1>3, TickUndisturbed
  <2> SUFFICES ASSUME NEW q \in Replicas PROVE TickInv(th[q]["tick"])'
    BY DEF TicksInv
  <2>4. PICK t : t = th'[q]["tick"]  OBVIOUS
  <2>5. TickInv(t)'  BY <1>0, <1>2, <2>2, <2>3, <2>4
  <2> QED  BY <2>4, <2>5 DEF TickInv
<1>4. ASSUME NEW r \in Replicas, NEW x \in Thread, Moves(r, "tick", x),
             TickDue(r) \/ th[r]["tick"].pc # "off"
      PROVE  TicksInv'
  <2> DEFINE t == th[r]["tick"]
  <2>1. Follows(r, "tick", x)  BY <1>4 DEF Moves
  <2>2. TickInv(t) /\ HasSession(t)  BY <1>0 DEF TickInv, HasSession
  <2>3. x.pc = "rearm" => rec'.retries < MaxRetries /\ NoneSucceeded'
    <3> SUFFICES ASSUME x.pc = "rearm" PROVE rec'.retries < MaxRetries /\ NoneSucceeded'
      OBVIOUS
    <3>1. ShouldReArm(rec) /\ UNCHANGED <<rec, fires, claims>>
      BY <2>1 DEF Follows, Quiet, store, history
    <3>2. NoneSucceeded
      BY <1>0, <3>1, FireIdFacts DEF ShouldReArm, SuccessInv, NoneSucceeded, Succeeded
    <3> QED  BY <3>1, <3>2 DEF ShouldReArm, NoneSucceeded, Succeeded, ClaimsOf
  <2>4. x.pc = "settle" => NoneSucceeded'
    <3> SUFFICES ASSUME x.pc = "settle" PROVE NoneSucceeded'
      OBVIOUS
    <3>1. (rec.sess = Pending \/ rec.started # 0) /\ UNCHANGED <<rec, fires, claims>>
      BY <2>1 DEF Follows, Quiet, store, history
    <3>2. NoneSucceeded  BY <1>0, <3>1, FireIdFacts DEF SuccessInv, NoneSucceeded, Succeeded
    <3> QED  BY <3>1, <3>2 DEF NoneSucceeded, Succeeded, ClaimsOf
  <2>5. x.pc \in Driving =>
          x.id = Len(claims') /\ claims' # <<>> /\ (claims'[x.id].gen = rec'.gen => rec'.next = 0)
    <3>1. CASE /\ t.pc \in Driving /\ x.id = t.id
               /\ UNCHANGED claims /\ rec'.gen = rec.gen /\ rec'.next = rec.next
      BY <2>2, <3>1 DEF TickInv, Driving
    <3>2. CASE x.id = Len(claims) + 1 /\ Claim(r, "tick") /\ rec' # rec
      <4>1. PICK n \in Nat, b \in BOOLEAN : Claims(r, "tick", n, b)  BY <1>0, <3>2, ClaimWrites
      <4>2. n = 0  BY <1>0, <4>1, OneShotClaims
      <4>3. rec'.next = 0 /\ DOMAIN claims' = 1..(Len(claims) + 1) /\ Len(claims) \in Nat
        BY <1>0, <4>1, <4>2, ClaimedRecord
      <4>4. claims' \in Seq(ClaimSet)  BY <1>0, TypeNext DEF TypeOK
      <4>5. Len(claims') = Len(claims) + 1  BY <4>3, <4>4
      <4> QED  BY <3>2, <4>3, <4>4, <4>5
    <3> QED  BY <2>1, <3>1, <3>2 DEF Follows
  <2>6. HasSession(x)  BY <2>1, <2>2 DEF Follows
  <2>7. TickInv(x)'
    BY <2>3, <2>4, <2>5, <2>6 DEF TickInv, NoneSucceeded, HasSession, Driving
  <2> SUFFICES ASSUME NEW q \in Replicas PROVE TickInv(th[q]["tick"])'
    BY DEF TicksInv
  <2>8. th'[q]["tick"] = x \/ th'[q]["tick"].pc = "off"
    <3>1. th'[q]["tick"] = IF q = r THEN x ELSE th[q]["tick"]  BY <1>0, <1>4, MovedThreads
    <3>2. q # r => th[q]["tick"].pc = "off"  BY <1>0, <1>4, SoleMover
    <3> QED  BY <3>1, <3>2
  <2>9. PICK u : u = th'[q]["tick"]  OBVIOUS
  <2>10. TickInv(u)'  BY <1>2, <2>7, <2>8, <2>9
  <2> QED  BY <2>9, <2>10 DEF TickInv
<1> QED  BY <1>0, <1>1, <1>3, <1>4, SoleSteps, Zenon

-----------------------------------------------------------------------------

LEMMA OneShotParts == OneShotInv <=> Before
BY DEF OneShotInv, Before, RetryInv, SuccessInv, TicksInv

\* There is one tick at a time; what it decided to re-arm or settle, and the fire it
\* drives, are still what it saw when it acts; an armed one-shot has a retry for every
\* claim.  For any replicas that may crash, pauses, updates or deletions, and any bounds.
THEOREM OneShotInvariant ==
    ASSUME Kind = "oneshot", OneLeader, Separate
    PROVE  Spec => []OneShotInv
<1>1. Init => OneShotInv
  <2> SUFFICES ASSUME Init PROVE Before
    BY OneShotParts
  <2>1. LedgerInv  BY LedgerInit
  <2>2. SoleTick  BY OffType DEF Init, SoleTick, Threads
  <2>3. \A g : ClaimsOf(g) = {} /\ Cardinality(ClaimsOf(g)) = 0  BY FS_EmptySet DEF Init, ClaimsOf
  <2>4. RetryBudget  BY <2>3, SchedulerAssumption DEF RetryBudget
  <2>5. RetryInv
    <3>1. rec.count = 0 /\ rec.retries = 0  BY FirstType, CreatedType DEF Init
    <3> QED  BY <3>1, SchedulerAssumption DEF RetryInv
  <2>6. SuccessInv  BY <2>3 DEF Init, SuccessInv, Succeeded
  <2>7. TicksInv  BY OffType DEF Init, TicksInv, TickInv, Threads
  <2> QED  BY <2>1, <2>2, <2>4, <2>5, <2>6, <2>7 DEF Before
<1>2. OneShotInv /\ [Next]_vars => OneShotInv'
  <2> SUFFICES ASSUME Before, [Next]_vars PROVE Before'
    <3>1. OneShotInv' <=> Before'  BY OneShotParts, PTL
    <3> QED  BY <3>1, OneShotParts
  <2>1. LedgerInv'  BY LedgerStep DEF Before
  <2>2. CASE Next
    <3>1. SoleTick'  BY <2>2, BeforeFacts, SoleTickKept DEF Before
    <3> QED  BY <2>1, <2>2, <3>1, RetryKept, SuccessKept, TicksKept DEF Before
  <2>3. CASE UNCHANGED vars
    BY <2>1, <2>3 DEF vars, store, leadership, history, Before, SoleTick, RetryBudget, RetryInv,
       SuccessInv, TicksInv, TickInv, Succeeded, ClaimsOf
  <2> QED  BY <2>2, <2>3
<1> QED  BY <1>1, <1>2, PTL DEF Spec

\* A one-shot is claimed at most once, plus once for every re-arm its budget allows.
THEOREM RetryBudgetHolds ==
    ASSUME Kind = "oneshot", OneLeader, Separate
    PROVE  Spec => []RetryBudget
<1>1. OneShotInv => RetryBudget  BY DEF OneShotInv
<1> QED  BY <1>1, OneShotInvariant, PTL

\* A one-shot whose fire has succeeded is not fired again.
THEOREM SuccessIsFinal ==
    ASSUME Kind = "oneshot", OneLeader, Separate
    PROVE  Spec => DoneIsDone
<1>1. OneShotInv /\ [Next]_vars =>
        [Kind = "oneshot" /\ (\E i \in ClaimsOf(rec.gen) : fires[i] = "ok") => claims' = claims]_vars
  <2> SUFFICES ASSUME Before, Next, NEW i \in ClaimsOf(rec.gen), fires[i] = "ok"
               PROVE  claims' = claims
    BY OneShotParts, Zenon
  <2>1. i \in FireIds /\ Succeeded(i)  BY DEF Before, SuccessInv, Succeeded, ClaimsOf
  <2>2. ASSUME NEW r \in Replicas, NEW k \in Threads, NEW n \in Nat, NEW b \in BOOLEAN
        PROVE  ~Claims(r, k, n, b)
    BY <2>1, OneShotClaims
  <2>3. Keeps \/ CreateSchedule \/ Delete => claims' = claims  BY DEF Keeps, CreateSchedule, Delete
  <2>4. ASSUME NEW d \in Deleters, BeginDelete(d) \/ DeletePlacement(d) \/ CompleteDelete(d)
        PROVE  claims' = claims
    BY <2>4 DEF BeginDelete, DeletePlacement, CompleteDelete, history
  <2> QED  BY <2>2, <2>3, <2>4, BeforeFacts, RecordSteps, Zenon
<1> QED  BY <1>1, OneShotInvariant, PTL DEF Spec, DoneIsDone
=============================================================================
