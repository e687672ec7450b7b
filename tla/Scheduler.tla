------------------------------ MODULE Scheduler ------------------------------
(***************************************************************************)
(* internal/adapter/scheduler over a shared schedule store: how one        *)
(* schedule fires when several replicas run a scheduler, with the fire     *)
(* body and the stale-fire settle that internal/app injects and the        *)
(* operator's calls of internal/adapter/server/schedule_manager.go.        *)
(* Schedules do not interact: the store, the per-name mutex and the fire   *)
(* sessions are all keyed by name, so one name is modelled.                *)
(*                                                                         *)
(* A replica has two threads: the tick goroutine and a FireNow call.  The  *)
(* leader lease and the fires' session leases are SessionLease records     *)
(* seen from outside: who holds them, and whether they lapsed.             *)
(***************************************************************************)
EXTENDS ScheduleStore, Sequences, FiniteSets

CONSTANTS Replicas, NoOwner,
          Kind,         \* "cron" or "oneshot"
          Owned,        \* ScheduleSpec.PlacementOwned
          Singleton,    \* ScheduleSpec.Singleton
          MisfireSkip,  \* ScheduleSpec.Misfire = MisfireSkip
          MaxRetries,   \* OneShotMaxRetries; 0 when OneShotRetry is off
          Period,       \* cron: fires at the multiples of Period
          Grace,        \* misfireGraceWindow
          Backoff,      \* oneShotReArmBackoff
          StaleWindow,  \* staleFireThreshold
          Ops,          \* operator calls and faults that may happen
          MaxClock,     \* bound: time
          MaxGen        \* bound: incarnations of the name

ASSUME SchedulerAssumption ==
    /\ Kind \in {"cron", "oneshot"} /\ {Owned, Singleton, MisfireSkip} \subseteq BOOLEAN
    /\ Period \in Nat \ {0} /\ Grace \in Nat /\ Backoff \in Nat /\ StaleWindow \in Nat
    /\ MaxRetries \in Nat /\ MaxClock \in Nat /\ MaxGen \in Nat
    /\ NoOwner \notin Replicas

VARIABLES clock,
          rec, fires,   \* the store: ScheduleState and the fires' stops
          lead,         \* holder of the leader lease
          leadLapsed,   \* its TTL has passed
          up, role, draining,   \* per replica
          th,           \* th[r][k]: thread k of replica r
          sl,           \* sl[f]: session lease of fire f: "free", "run", or the replica on trial
          dl,           \* dl[d]: the DeleteSchedule calls of an owned schedule
          upd,          \* the schedule an UpdateSchedule call has read, Absent when there is none
          gens,         \* history: incarnations created
          claims,       \* history: every claim made, in order; its index is the fire id
          lost,         \* history: claims the stale-fire settle recorded as lost
          cleaned,      \* history: incarnations whose placement was deleted
          removed,      \* history: incarnations removed by CompleteDelete
          paused        \* history: the operator's last word is Pause

store == <<rec, fires>>
leadership == <<lead, leadLapsed, up, role, draining>>
operator == <<dl, upd>>
history == <<gens, claims, lost, cleaned, removed, paused>>
vars == <<clock, store, leadership, th, sl, operator, history>>

Threads == {"tick", "now"}
Deleters == {1, 2}

\* What a thread keeps of the schedule it read.
Snap(s) == [count |-> s.count, next |-> s.next, sess |-> s.sess]

\* A thread: now is the instant it works with, snap the schedule it read, due
\* whether Due returned it, tgt the stale fire it decided to settle, id its fire,
\* got the session it records or the claim it settles, stop the outcome, trial the
\* prior fire whose session lease it holds as a trial.
ThreadPc == {"off", "list", "rearm", "stale", "settle", "lock", "claim", "create",
             "start", "enter", "run", "record"}
MaybeFire == FireIds \cup {NoFire}
Thread == [pc: ThreadPc, now: Nat,
           snap: [count: Nat, next: Nat, sess: FireIds \cup {NoFire, Pending}],
           due: BOOLEAN, tgt: FireIds \cup {NoFire, Pending},
           id: MaybeFire, got: MaybeFire, stop: Stops, trial: MaybeFire]
Off == [pc |-> "off", now |-> 0, snap |-> Snap(Absent), due |-> FALSE, tgt |-> NoFire,
        id |-> NoFire, got |-> NoFire, stop |-> "none", trial |-> NoFire]

\* A DeleteSchedule call, with the DeletionID that BeginDelete returned.
Deletion == [pc: {"off", "clean", "complete"}, token: Nat]
NoDeletion == [pc |-> "off", token |-> 0]

\* cronparse.NextFire: strictly after now.  An expression that parses and never fires
\* is an error there and refused at Save, so there always is a next instant; the cron
\* modelled fires at the multiples of Period.
CronNext(now) == ((now \div Period) + 1) * Period

\* computeNextFire on the schedule as it was read.
ComputeNextFire(s, now) ==
    IF Kind = "oneshot" \/ (MaxFires > 0 /\ s.count + 1 >= MaxFires) THEN 0 ELSE CronNext(now)

\* The first fire of a schedule created at now.
First(now) == IF Kind = "oneshot" THEN now + 1 ELSE CronNext(now)

Init ==
    /\ clock = 1
    /\ rec = Created(1, First(1))
    /\ fires = [f \in FireIds |-> "none"]
    /\ lead = NoOwner /\ leadLapsed = FALSE
    /\ up = [r \in Replicas |-> TRUE]
    /\ role = [r \in Replicas |-> "standby"]
    /\ draining = [r \in Replicas |-> FALSE]
    /\ th = [r \in Replicas |-> [k \in Threads |-> Off]]
    /\ sl = [f \in FireIds |-> "free"]
    /\ dl = [d \in Deleters |-> NoDeletion]
    /\ upd = Absent
    /\ gens = 1 /\ claims = <<>> /\ lost = {} /\ cleaned = {} /\ removed = {} /\ paused = FALSE

Goto(r, k, pc) == th' = [th EXCEPT ![r][k].pc = pc]
Return(r, k) == th' = [th EXCEPT ![r][k] = Off]

-----------------------------------------------------------------------------
(* Leadership: role is "standby", "leader", "stopping" once Stop cancelled the  *)
(* epoch's context, and "stopped".                                              *)

IsLeader(r) == up[r] /\ role[r] \in {"leader", "stopping"}   \* LeaderOwner

\* acquireLeader: the lease is free, has lapsed, or is still ours.  (FreeOnly: a
\* variant that never takes a lapsed lease over.)
LeadFreeFreeOnly(r) == lead \in {NoOwner, r}
LeadFree(r) == lead \in {NoOwner, r} \/ leadLapsed

\* leadershipLoop starts an epoch once the previous one is over.
Promote(r) ==
    /\ up[r] /\ role[r] = "standby" /\ th[r]["tick"].pc = "off" /\ LeadFree(r)
    /\ lead' = r /\ leadLapsed' = FALSE
    /\ role' = [role EXCEPT ![r] = "leader"]
    /\ UNCHANGED <<clock, store, up, draining, th, sl, operator, history>>

\* renewLeader: refreshed, or, the lease lost or its renewals failing, demoted.
Renew(r) ==
    /\ up[r] /\ role[r] = "leader" /\ lead = r /\ leadLapsed
    /\ leadLapsed' = FALSE
    /\ UNCHANGED <<clock, store, lead, up, role, draining, th, sl, operator, history>>

Demote(r) ==
    /\ up[r] /\ role[r] = "leader" /\ (lead # r \/ leadLapsed)
    /\ role' = [role EXCEPT ![r] = "standby"]
    /\ UNCHANGED <<clock, store, lead, leadLapsed, up, draining, th, sl, operator, history>>

LeaderLapses ==
    /\ "lapse" \in Ops /\ lead # NoOwner /\ ~leadLapsed
    /\ leadLapsed' = TRUE
    /\ UNCHANGED <<clock, store, lead, up, role, draining, th, sl, operator, history>>

\* Replicas are drained, stopped or lost one after the other: one other goes on.
Survives(r) ==
    \E q \in Replicas \ {r} : up[q] /\ ~draining[q] /\ role[q] \in {"standby", "leader"}

Drain(r) ==
    /\ "stop" \in Ops /\ up[r] /\ ~draining[r] /\ Survives(r)
    /\ draining' = [draining EXCEPT ![r] = TRUE]
    /\ UNCHANGED <<clock, store, lead, leadLapsed, up, role, th, sl, operator, history>>

\* Stop cancels the epoch, and after bounded joins, which may leave a tick at work,
\* calls releaseLeader.
StopBegins(r) ==
    /\ up[r] /\ draining[r] /\ role[r] \in {"standby", "leader"}
    /\ role' = [role EXCEPT ![r] = IF @ = "leader" THEN "stopping" ELSE "stopped"]
    /\ UNCHANGED <<clock, store, lead, leadLapsed, up, draining, th, sl, operator, history>>

\* releaseLeader calls demote first, which forgets the lease, so that the handle it
\* reads next is nil and nothing is released: the lease stays until its TTL.
ReleaseLeader(r) ==
    /\ up[r] /\ role[r] = "stopping"
    /\ role' = [role EXCEPT ![r] = "stopped"]
    /\ UNCHANGED <<clock, store, lead, leadLapsed, up, draining, th, sl, operator, history>>

\* The TTL of a lease nobody renews passes.
StoppedLapses(r) ==
    /\ lead = r /\ ~leadLapsed /\ up[r] /\ role[r] = "stopped"
    /\ leadLapsed' = TRUE
    /\ UNCHANGED <<clock, store, lead, up, role, draining, th, sl, operator, history>>

\* A process dies; a restarted one is another replica.  Its leases lapse.
Crash(r) ==
    /\ "crash" \in Ops /\ up[r] /\ Survives(r)
    /\ up' = [up EXCEPT ![r] = FALSE]
    /\ leadLapsed' = (leadLapsed \/ lead = r)
    /\ th' = [th EXCEPT ![r] = [k \in Threads |-> Off]]
    /\ UNCHANGED <<clock, store, lead, role, draining, sl, operator, history>>

\* The session lease of a fire that no live thread renews.
LeaseLapses(f) ==
    /\ sl[f] # "free"
    /\ \A r \in Replicas, k \in Threads :
          /\ ~(th[r][k].pc = "run" /\ th[r][k].id = f)
          /\ "trialttl" \in Ops \/ th[r][k].trial # f
    /\ sl' = [sl EXCEPT ![f] = "free"]
    /\ UNCHANGED <<clock, store, leadership, th, operator, history>>

-----------------------------------------------------------------------------
(* tickOnce: Due, the re-arm scan, the stale-fire scan, then fireOne *)

\* A store or lease call made under a cancelled epoch context, or one that meets a
\* fault, may fail.
MayFail(r, k) == "fault" \in Ops \/ (k = "tick" /\ role[r] # "leader")

TickDue(r) ==
    /\ IsLeader(r) /\ ~draining[r] /\ th[r]["tick"].pc = "off"
    /\ th' = [th EXCEPT ![r]["tick"] =
                [Off EXCEPT !.pc = "list", !.now = clock, !.snap = Snap(rec),
                            !.due = IsDue(rec, clock)]]
    /\ UNCHANGED <<clock, store, leadership, sl, operator, history>>

\* shouldReArmOneShot.  (Unbudgeted: a variant without the retry budget.)
ShouldReArmUnbudgeted(s) ==
    /\ Kind = "oneshot" /\ MaxRetries > 0 /\ s.gen # 0 /\ ~s.enabled
    /\ \/ s.sess = Pending
       \/ s.sess \in FireIds /\ fires[s.sess] \in {"none", "error"}
ShouldReArm(s) ==
    /\ Kind = "oneshot" /\ s.gen # 0 /\ ~s.enabled /\ s.retries < MaxRetries
    /\ \/ s.sess = Pending
       \/ s.sess \in FireIds /\ fires[s.sess] \in {"none", "error"}

\* maybeReArmOneShots: List, LoadFire and decide, as one read ...
ReArmScan(r) ==
    /\ up[r] /\ th[r]["tick"].pc = "list"
    /\ \/ Goto(r, "tick", IF ShouldReArm(rec) THEN "rearm" ELSE "stale")
       \/ MayFail(r, "tick") /\ Goto(r, "tick", "stale")
    /\ UNCHANGED <<clock, store, leadership, sl, operator, history>>

\* ... then re-arm.
ReArm(r) ==
    /\ up[r] /\ th[r]["tick"].pc = "rearm"
    /\ \/ rec' = IF ReArmable(rec) THEN ReArmed(rec, th[r]["tick"].now + Backoff) ELSE rec
       \/ MayFail(r, "tick") /\ UNCHANGED rec
    /\ Goto(r, "tick", "stale")
    /\ UNCHANGED <<clock, fires, leadership, sl, operator, history>>

AfterScans(t) == IF t.due THEN [t EXCEPT !.pc = "lock"] ELSE Off

\* A trial acquire on fire f's session lease succeeds: free, or our own trial.
TrialFree(r, f) == sl[f] \in {"free", r}

\* shouldReconcileStaleFire.  An unreachable lease backend counts as no live fire.
\* (NoLease: a variant that goes by the window alone; StartedOnly: one without the
\* fires that never started.)
OldPending(s, now) == s.sess = Pending /\ s.last # 0 /\ now - s.last > StaleWindow
OldStarted(s, now) == s.sess \in FireIds /\ s.started # 0 /\ now - s.started > StaleWindow
StaleNoLease(r, s, now) == s.gen # 0 /\ (OldPending(s, now) \/ OldStarted(s, now))
StaleStartedOnly(r, s, now) == s.gen # 0 /\ OldStarted(s, now) /\ TrialFree(r, s.sess)
Stale(r, s, now) ==
    /\ s.gen # 0
    /\ \/ OldPending(s, now)
       \/ OldStarted(s, now) /\ TrialFree(r, s.sess)

\* reconcileStaleFires: List and decide, giving the trial lease back ...
StaleScan(r) ==
    LET t == th[r]["tick"]
        found == [t EXCEPT !.pc = "settle", !.tgt = rec.sess,
                           !.got = IF rec.sess = Pending THEN Len(claims) ELSE rec.sess]
    IN  /\ up[r] /\ t.pc = "stale"
        /\ \/ /\ Stale(r, rec, t.now)
              /\ th' = [th EXCEPT ![r]["tick"] = found]
              /\ sl' = [f \in FireIds |-> IF f = rec.sess THEN "free" ELSE sl[f]]
           \/ /\ ~Stale(r, rec, t.now) \/ MayFail(r, "tick")
              /\ th' = [th EXCEPT ![r]["tick"] = AfterScans(t)]
              /\ UNCHANGED sl
           \/ /\ MayFail(r, "tick") /\ rec.gen # 0 /\ OldStarted(rec, t.now)
              /\ th' = [th EXCEPT ![r]["tick"] = found]
              /\ UNCHANGED sl
        /\ UNCHANGED <<clock, store, leadership, operator, history>>

\* ... then makeReconcileStaleFire records the fire as lost: under its own id, or,
\* for a claim without a session, under a new id and no session.  (It also cancels the
\* fire's stored session, which no part of the model reads.)
Settle(r) ==
    LET t == th[r]["tick"]
        pending == t.tgt = Pending
        done == IF pending THEN rec.gen # 0 ELSE Records(rec, fires, t.tgt)
    IN  /\ up[r] /\ t.pc = "settle"
        /\ \/ /\ done
              /\ rec' = Recorded(rec, IF pending THEN NoFire ELSE t.tgt)
              /\ fires' = [f \in FireIds |-> IF f = t.tgt THEN "error" ELSE fires[f]]
              /\ lost' = lost \cup {t.got}
           \/ /\ ~done \/ MayFail(r, "tick")
              /\ UNCHANGED <<store, lost>>
        /\ th' = [th EXCEPT ![r]["tick"] = AfterScans([t EXCEPT !.tgt = NoFire, !.got = NoFire])]
        /\ UNCHANGED <<clock, leadership, sl, operator, gens, claims, cleaned, removed, paused>>

-----------------------------------------------------------------------------
(* fireOne and FireNow *)

\* lockFireName, held until fireOne or FireNow returns.  (Unlocked: a variant
\* without it.)
LockFreeUnlocked(r) == TRUE
LockFree(r) ==
    \A k \in Threads : th[r][k].pc \notin {"claim", "create", "start", "enter", "run", "record"}

Skips(t) == MisfireSkip /\ t.now - t.snap.next > Grace

\* The singleton check: a trial acquire on the prior fire's session lease.  A held
\* lease ends the attempt; a free one is kept until the thread returns; an
\* unreachable backend does not stop the fire.
Probes(t) == Singleton /\ t.snap.sess \in FireIds

Probe(r, k, t) ==
    \/ /\ ~Probes(t) \/ MayFail(r, k)
       /\ th' = [th EXCEPT ![r][k] = [t EXCEPT !.pc = "claim"]]
       /\ UNCHANGED sl
    \/ /\ Probes(t) /\ TrialFree(r, t.snap.sess)
       /\ th' = [th EXCEPT ![r][k] = [t EXCEPT !.pc = "claim", !.trial = t.snap.sess]]
       /\ sl' = [sl EXCEPT ![t.snap.sess] = r]
    \/ Probes(t) /\ ~TrialFree(r, t.snap.sess) /\ Return(r, k) /\ UNCHANGED sl

FireOne(r) ==
    LET t == th[r]["tick"]
    IN  /\ up[r] /\ t.pc = "lock" /\ LockFree(r)
        /\ IF Skips(t) THEN Goto(r, "tick", "claim") /\ UNCHANGED sl ELSE Probe(r, "tick", t)
        /\ UNCHANGED <<clock, store, leadership, operator, history>>

\* FireNow reads its clock, then waits for the mutex ...
FireNow(r) ==
    /\ "firenow" \in Ops /\ IsLeader(r) /\ th[r]["now"].pc = "off"
    /\ th' = [th EXCEPT ![r]["now"] = [Off EXCEPT !.pc = "lock", !.now = clock]]
    /\ UNCHANGED <<clock, store, leadership, sl, operator, history>>

\* ... and loads the schedule under it.
FireNowLoads(r) ==
    LET refused == rec.gen = 0 \/ ~rec.enabled \/ (Kind = "oneshot" /\ rec.count > 0)
    IN  /\ up[r] /\ th[r]["now"].pc = "lock" /\ LockFree(r)
        /\ IF refused THEN Return(r, "now") /\ UNCHANGED sl
           ELSE Probe(r, "now", [th[r]["now"] EXCEPT !.snap = Snap(rec)])
        /\ UNCHANGED <<clock, store, leadership, operator, history>>

\* The deferred release of the trial lease.
ReturnTrial(r, t) ==
    sl' = [f \in FireIds |-> IF f = t.trial /\ sl[f] = r THEN "free" ELSE sl[f]]

\* Claim or ClaimNow.  A claim refused, failed or made only to skip a missed slot
\* ends the attempt, and so does one past the bound FireIds.
Claim(r, k) ==
    LET t == th[r][k]
        nextFire == ComputeNextFire(t.snap, t.now)
        won == IF k = "tick" THEN Claimable(rec, t.now) ELSE ClaimableNow(rec, t.now)
        fire == ~(k = "tick" /\ Skips(t))
        id == Len(claims) + 1
        claimed == Claimed(rec, t.now, nextFire)
    IN  /\ up[r] /\ t.pc = "claim"
        /\ \/ /\ won /\ id \in FireIds
              /\ rec' = claimed
              /\ claims' = Append(claims, [gen |-> rec.gen, slot |-> rec.next, via |-> k, fired |-> fire,
                                           prior |-> rec.sess, carried |-> claimed.sess])
              /\ IF fire
                 THEN /\ th' = [th EXCEPT ![r][k] = [t EXCEPT !.pc = "create", !.id = id]]
                      /\ UNCHANGED sl
                 ELSE Return(r, k) /\ ReturnTrial(r, t)
           \/ /\ ~won \/ MayFail(r, k) \/ id \notin FireIds
              /\ Return(r, k) /\ ReturnTrial(r, t)
              /\ UNCHANGED <<rec, claims>>
        /\ UNCHANGED <<clock, fires, leadership, operator, gens, lost, cleaned, removed, paused>>

\* makeFireFunc: create the session ...
Create(r, k) ==
    /\ up[r] /\ th[r][k].pc = "create"
    /\ \/ th' = [th EXCEPT ![r][k] = [@ EXCEPT !.pc = "start", !.got = th[r][k].id]]
       \/ /\ MayFail(r, k) \/ "nosession" \in Ops
          /\ th' = [th EXCEPT ![r][k] = [@ EXCEPT !.pc = "record", !.stop = "error"]]
    /\ UNCHANGED <<clock, store, leadership, sl, operator, history>>

\* ... RecordFireStart, best effort ...
Start(r, k) ==
    LET t == th[r][k]
        done == Starts(rec, fires, t.id)
    IN  /\ up[r] /\ t.pc = "start"
        /\ \/ /\ done
              /\ rec' = Started(rec, t.id, t.now)
              /\ fires' = [fires EXCEPT ![t.id] = "inflight"]
           \/ (~done \/ MayFail(r, k)) /\ UNCHANGED store
        /\ Goto(r, k, "enter")
        /\ UNCHANGED <<clock, leadership, sl, operator, history>>

\* ... StartScheduledRunContent, whose run entry acquires the session lease ...
Enter(r, k) ==
    LET t == th[r][k]
    IN  /\ up[r] /\ t.pc = "enter"
        /\ \/ /\ sl[t.id] = "free"
              /\ sl' = [sl EXCEPT ![t.id] = "run"]
              /\ Goto(r, k, "run")
           \/ /\ sl[t.id] # "free" \/ MayFail(r, k)
              /\ th' = [th EXCEPT ![r][k] = [t EXCEPT !.pc = "record", !.stop = "error"]]
              /\ UNCHANGED sl
        /\ UNCHANGED <<clock, store, leadership, operator, history>>

\* ... the run ends, and CloseSession gives the session lease back.
RunEnds(r, k) ==
    LET t == th[r][k]
    IN  /\ up[r] /\ t.pc = "run"
        /\ \E stop \in {"ok", "error"} :
              th' = [th EXCEPT ![r][k] = [t EXCEPT !.pc = "record", !.stop = stop]]
        /\ sl' = [sl EXCEPT ![t.id] = "free"]
        /\ UNCHANGED <<clock, store, leadership, operator, history>>

\* fireClaimed: RecordFire, best effort, then return.
Record(r, k) ==
    LET t == th[r][k]
        done == Records(rec, fires, t.id)
    IN  /\ up[r] /\ t.pc = "record"
        /\ \/ /\ done
              /\ rec' = Recorded(rec, t.got)
              /\ fires' = [fires EXCEPT ![t.id] = t.stop]
           \/ (~done \/ MayFail(r, k)) /\ UNCHANGED store
        /\ Return(r, k) /\ ReturnTrial(r, t)
        /\ UNCHANGED <<clock, leadership, operator, history>>

-----------------------------------------------------------------------------
(* The operator: schedule_manager.go *)

Pause ==
    /\ "pause" \in Ops /\ Settable(rec)
    /\ rec' = [rec EXCEPT !.enabled = FALSE]
    /\ paused' = TRUE
    /\ UNCHANGED <<clock, fires, leadership, th, sl, operator, gens, claims, lost, cleaned, removed>>

Resume ==
    /\ "pause" \in Ops /\ Settable(rec)
    /\ rec' = [rec EXCEPT !.enabled = TRUE]
    /\ paused' = FALSE
    /\ UNCHANGED <<clock, fires, leadership, th, sl, operator, gens, claims, lost, cleaned, removed>>

\* CreateSchedule.  (The provisioning of an owned placement, and its rollback when Create
\* fails, are left out.)
CreateSchedule ==
    /\ "create" \in Ops /\ rec.gen = 0 /\ gens < MaxGen
    /\ gens' = gens + 1
    /\ rec' = Created(gens + 1, First(clock))
    /\ paused' = FALSE
    /\ UNCHANGED <<clock, fires, leadership, th, sl, operator, claims, lost, cleaned, removed>>

\* UpdateSchedule: Load ...
UpdateLoads ==
    /\ "update" \in Ops /\ upd = Absent /\ rec.gen # 0 /\ rec.del = 0
    /\ upd' = rec
    /\ UNCHANGED <<clock, store, leadership, th, sl, dl, history>>

\* ... then Save with the state it loaded.
UpdateSaves ==
    /\ upd # Absent
    /\ rec' = Saved(rec, upd)
    /\ upd' = Absent
    /\ UNCHANGED <<clock, fires, leadership, th, sl, dl, history>>

\* DeleteSchedule without an owned placement.
Delete ==
    /\ "delete" \in Ops /\ ~Owned /\ Deletable(rec)
    /\ rec' = Absent
    /\ paused' = FALSE
    /\ UNCHANGED <<clock, fires, leadership, th, sl, operator, gens, claims, lost, cleaned, removed>>

\* FireCount in the record BeginDelete returned.  (Idle: a variant that asks whether a
\* fire is active instead.)
NeverFiredIdle(s) == s.sess # Pending /\ s.started = 0
NeverFired(s) == s.count = 0

\* DeleteSchedule with one: BeginDelete ...
BeginDelete(d) ==
    /\ "delete" \in Ops /\ Owned /\ dl[d].pc = "off" /\ rec.gen # 0
    /\ rec.del # 0 \/ DeleteBegins(rec)
    /\ rec' = IF rec.del # 0 THEN rec ELSE Deleting(rec)
    /\ dl' = [dl EXCEPT ![d] = [pc |-> IF NeverFired(rec) THEN "clean" ELSE "complete",
                                token |-> rec'.del]]
    /\ UNCHANGED <<clock, fires, leadership, th, sl, upd, history>>

\* ... deletePlacement for a schedule that never fired, which may fail for a later call to retry ...
DeletePlacement(d) ==
    /\ dl[d].pc = "clean"
    /\ \/ /\ cleaned' = cleaned \cup {dl[d].token}
          /\ dl' = [dl EXCEPT ![d].pc = "complete"]
       \/ dl' = [dl EXCEPT ![d] = NoDeletion] /\ UNCHANGED cleaned
    /\ UNCHANGED <<clock, store, leadership, th, sl, upd, gens, claims, lost, removed, paused>>

\* ... and CompleteDelete.
CompleteDelete(d) ==
    /\ dl[d].pc = "complete"
    /\ IF Completes(rec, dl[d].token)
       THEN rec' = Absent /\ removed' = removed \cup {rec.gen} /\ paused' = FALSE
       ELSE UNCHANGED <<rec, removed, paused>>
    /\ dl' = [dl EXCEPT ![d] = NoDeletion]
    /\ UNCHANGED <<clock, fires, leadership, th, sl, upd, gens, claims, lost, cleaned>>

-----------------------------------------------------------------------------

\* A fire that has read its clock enters its run within the stale window, unless
\* "slow" is among Ops.
Prompt(t) ==
    t.pc \in {"lock", "claim", "create", "start", "enter"} => clock - t.now < StaleWindow

Tick ==
    /\ clock < MaxClock
    /\ "slow" \in Ops \/ \A r \in Replicas, k \in Threads : Prompt(th[r][k])
    /\ clock' = clock + 1
    /\ UNCHANGED <<store, leadership, th, sl, operator, history>>

LeaderStep(r) ==
    Promote(r) \/ Renew(r) \/ Demote(r) \/ Drain(r) \/ StopBegins(r) \/ ReleaseLeader(r)
        \/ StoppedLapses(r) \/ Crash(r)
ScanStep(r) == ReArmScan(r) \/ ReArm(r) \/ StaleScan(r) \/ Settle(r) \/ FireOne(r)
FireStep(r, k) ==
    Claim(r, k) \/ Create(r, k) \/ Start(r, k) \/ Enter(r, k) \/ RunEnds(r, k) \/ Record(r, k)
OperatorStep ==
    \/ Pause \/ Resume \/ CreateSchedule \/ UpdateLoads \/ UpdateSaves \/ Delete
    \/ \E d \in Deleters : BeginDelete(d) \/ DeletePlacement(d) \/ CompleteDelete(d)

Next ==
    \/ Tick \/ LeaderLapses \/ OperatorStep
    \/ \E f \in FireIds : LeaseLapses(f)
    \/ \E r \in Replicas :
          \/ LeaderStep(r) \/ TickDue(r) \/ ScanStep(r) \/ FireNow(r) \/ FireNowLoads(r)
          \/ \E k \in Threads : FireStep(r, k)

Spec == Init /\ [][Next]_vars

\* The ticker, the standby retry, the renewer and every goroutine that has begun keep
\* going while the process lives; time and leases' TTLs pass; a run ends (it has turn
\* and tool-call budgets).
Fairness ==
    /\ WF_vars(Tick)
    /\ \A f \in FireIds : WF_vars(LeaseLapses(f))
    /\ \A r \in Replicas :
          /\ WF_vars(Promote(r)) /\ WF_vars(Demote(r))
          /\ WF_vars(StopBegins(r)) /\ WF_vars(ReleaseLeader(r)) /\ WF_vars(StoppedLapses(r))
          /\ WF_vars(TickDue(r)) /\ WF_vars(ScanStep(r)) /\ WF_vars(FireNowLoads(r))
          /\ \A k \in Threads : WF_vars(FireStep(r, k))
FairSpec == Spec /\ Fairness

-----------------------------------------------------------------------------
(* Properties *)

ClaimSet == [gen: Nat, slot: Nat, via: Threads, fired: BOOLEAN,
             prior: FireIds \cup {NoFire, Pending}, carried: FireIds \cup {NoFire, Pending}]

\* Every variable keeps its type.
TypeOK ==
    /\ clock \in Nat /\ rec \in State /\ upd \in State /\ gens \in Nat
    /\ fires \in [FireIds -> Stops]
    /\ lead \in Replicas \cup {NoOwner} /\ leadLapsed \in BOOLEAN
    /\ up \in [Replicas -> BOOLEAN] /\ draining \in [Replicas -> BOOLEAN]
    /\ role \in [Replicas -> {"standby", "leader", "stopping", "stopped"}]
    /\ th \in [Replicas -> [Threads -> Thread]]
    /\ sl \in [FireIds -> {"free", "run"} \cup Replicas]
    /\ dl \in [Deleters -> Deletion]
    /\ claims \in Seq(ClaimSet) /\ Len(claims) \in MaybeFire /\ lost \subseteq Nat
    /\ cleaned \subseteq Nat /\ removed \subseteq Nat /\ paused \in BOOLEAN

ClaimsOf(g) == {i \in DOMAIN claims : claims[i].gen = g}

\* MaxFires bounds the fires of an incarnation whoever claims them: the count in the
\* record is the number of claims ever made and never passes MaxFires, although the
\* replicas compute the next fire from snapshots (memschedulestore Claim, ClaimNow).
FireBudget ==
    /\ rec.gen # 0 => rec.count = Cardinality(ClaimsOf(rec.gen))
    /\ MaxFires > 0 => \A g \in 1..gens : Cardinality(ClaimsOf(g)) <= MaxFires

\* At most once: no slot of a schedule is claimed twice by tick loops, whatever
\* leaders overlap, lapse, crash or are replaced (claim-before-fire in Claim).  The
\* clock of a FireNow may be older than the slot a tick claimed while FireNow waited
\* for lockFireName, which rewinds NextFireAt.
SlotOnce ==
    \A i, j \in DOMAIN claims :
        i < j /\ claims[i].gen = claims[j].gen /\ claims[i].via = "tick" /\ claims[j].via = "tick"
            => claims[i].slot # claims[j].slot

\* What UpdateSchedule and DeleteSchedule leave alone where only one of them is called.
NoResurrection ==
    /\ "update" \notin Ops => upd = Absent
    /\ "delete" \notin Ops => rec.gen # 0 /\ \A d \in Deleters : dl[d] = NoDeletion

\* Incarnations of the name are numbered in the order of their creation.
GenerationsKnown == rec.gen \in 0..gens /\ \A i \in DOMAIN claims : claims[i].gen \in 1..gens

\* A leader that fell behind never sets NextFireAt back: although every leader computes
\* it from an instant and a snapshot of its own, it is past every slot that was claimed
\* of the stored incarnation, or zero.
SlotsBelowNext ==
    \A i \in DOMAIN claims : claims[i].gen = rec.gen => rec.next = 0 \/ claims[i].slot < rec.next

\* Why the two above hold where only ticks claim a cron: no FireNow and no re-arm sets
\* NextFireAt, and incarnations are never reused.
SlotInv ==
    /\ TypeOK /\ NoResurrection /\ GenerationsKnown /\ SlotOnce /\ SlotsBelowNext
    /\ \A r \in Replicas : th[r]["now"].pc = "off" /\ th[r]["tick"].pc # "rearm"

\* A fire's outcome, once recorded, is never changed or reopened: neither by a late
\* RecordFireStart or RecordFire of the process that ran it nor by the stale-fire
\* settle of a peer.
OutcomeStays ==
    [][\A f \in FireIds : fires[f] \in {"ok", "error"} => fires'[f] = fires[f]]_vars

InRun(f) == \E r \in Replicas, k \in Threads : th[r][k].pc = "run" /\ th[r][k].id = f

\* The stale-fire settle never declares lost a fire whose run is under way: the run
\* holds its session lease and shouldReconcileStaleFire tries that lease.
SettleSparesRun ==
    [][\A f \in FireIds : InRun(f) => (f \in lost' => f \in lost)]_vars

\* Nor one whose process is alive and about to record the outcome.
LostIsDead ==
    \A r \in Replicas, k \in Threads :
        th[r][k].pc \in {"enter", "run", "record"} => th[r][k].id \notin lost

\* What the stale-fire settle records as lost was a fire, not a slot that
\* MisfireSkip claimed in order not to fire it.
LostWasFired == \A i \in lost \cap DOMAIN claims : claims[i].fired

\* An owned placement is deleted only if no fire ever claimed its incarnation of the
\* schedule, and no fire claims it afterwards (BeginDelete against Claim).
PlacementKept == \A i \in DOMAIN claims : claims[i].gen \notin cleaned

\* No owned placement leaks: an incarnation that DeleteSchedule removed has had its
\* placement deleted, or its fires own it; two deletions and a re-creation of the
\* name may overlap.
NoPlacementLeak == \A g \in removed : g \in cleaned \/ ClaimsOf(g) # {}

\* Why FireBudget and the two above hold: a cleaned incarnation was never claimed and,
\* if it is still there, is marked, so that it never will be; a deletion that goes on
\* to clean has an unclaimed incarnation, and one about to complete has cleaned it or
\* leaves its placement to its fires.
MarkedFor(g) == rec.gen = g => rec.del = g
LedgerInv ==
    /\ TypeOK /\ NoResurrection /\ GenerationsKnown /\ FireBudget /\ NoPlacementLeak
    /\ rec.del \in {0, rec.gen}
    /\ \A g \in cleaned : g \in 1..gens /\ ClaimsOf(g) = {} /\ MarkedFor(g)
    /\ \A d \in Deleters : dl[d].pc # "off" =>
          /\ dl[d].token \in 1..gens /\ MarkedFor(dl[d].token)
          /\ dl[d].pc = "clean" => ClaimsOf(dl[d].token) = {}
          /\ dl[d].pc = "complete" => dl[d].token \in cleaned \/ ClaimsOf(dl[d].token) # {}

\* A removed incarnation does not come back.
RemovedStaysGone == rec.gen \notin removed

\* Deletion of an owned schedule waits for its fires: once the record is marked, no
\* live thread is between claiming and recording one of its fires.
Claimant(t) == t.pc \in {"create", "start", "enter", "run", "record"}
MarkedIsQuiet ==
    rec.del # 0 => \A r \in Replicas, k \in Threads :
                     Claimant(th[r][k]) => claims[th[r][k].id].gen # rec.gen

\* Fires of one schedule do not overlap within a process, even when the lease backend
\* is unreachable and the singleton check lets every fire pass: FireNow and the tick
\* are serialised by lockFireName.
NoOverlap ==
    \A r \in Replicas, k, l \in Threads :
        th[r][k].pc = "run" /\ th[r][l].pc = "run" => k = l

\* A paused schedule stays disabled until the operator resumes it or replaces it: no
\* claim, record or settle of a fire that was under way enables it, and no update that
\* had read it before the pause.
PausedStays == paused => ~rec.enabled

\* A one-shot is claimed at most once, plus once for each re-arm its budget allows.
RetryBudget == Kind = "oneshot" => \A g \in 1..gens : Cardinality(ClaimsOf(g)) <= 1 + MaxRetries

\* A one-shot whose fire has succeeded is not fired again.
DoneIsDone ==
    [][Kind = "oneshot" /\ (\E i \in ClaimsOf(rec.gen) : fires[i] = "ok") => claims' = claims]_vars

\* Why the two above hold where neither a stop nor a lapsed lease makes two leaders and
\* only ticks fire: there is one tick at a time; an armed one-shot has a retry for every
\* claim; a fire that is driven is the last claim, and the slot it took is gone; one that
\* succeeded is what the record points to, so that no scan re-arms or settles it.
SoleTick ==
    \A r \in Replicas :
        /\ ~draining[r] /\ role[r] \in {"standby", "leader"} /\ th[r]["now"].pc = "off"
        /\ up[r] /\ role[r] = "leader" => lead = r /\ ~leadLapsed
        /\ th[r]["tick"].pc # "off" => up[r] /\ role[r] = "leader"
Succeeded(i) == i \in ClaimsOf(rec.gen) /\ fires[i] = "ok"
TickInv(t) ==
    /\ t.pc = "rearm" => rec.retries < MaxRetries
    /\ t.pc \in {"rearm", "settle"} => \A i \in FireIds : ~Succeeded(i)
    /\ t.pc \in {"create", "start", "enter", "run", "record"} =>
          /\ t.id = Len(claims) /\ claims # <<>>
          /\ claims[t.id].gen = rec.gen => rec.next = 0
    /\ t.pc \in {"start", "enter", "run"} \/ (t.pc = "record" /\ t.stop = "ok") => t.got = t.id
OneShotInv ==
    /\ LedgerInv /\ SoleTick /\ RetryBudget /\ DOMAIN claims \subseteq FireIds
    /\ rec.retries <= MaxRetries /\ rec.count <= rec.retries + 1
    /\ rec.next # 0 => rec.count <= rec.retries
    /\ \A i \in FireIds : fires[i] = "ok" => i <= Len(claims)
    /\ \A i \in FireIds : Succeeded(i) =>
          i = Len(claims) /\ rec.next = 0 /\ rec.sess = i /\ rec.started = 0
    /\ \A r \in Replicas : TickInv(th[r]["tick"])

\* A one-shot with retries left whose fire failed is armed again or has been retried:
\* it does not rest disabled.
FailedIsRetried ==
    (Kind = "oneshot" /\ rec.gen # 0 /\ claims # <<>> /\ fires[Len(claims)] = "error")
        ~> (rec.enabled \/ rec.retries >= MaxRetries \/ Len(claims) > 1)

\* A cron that has used up MaxFires is disabled.
ExhaustedIsDone == Kind = "cron" /\ MaxFires > 0 /\ rec.count >= MaxFires => ~rec.enabled

\* With CarryContext the fire sees the session of the fire before it.
CarriesPrior == \A i \in DOMAIN claims : claims[i].prior \in FireIds => claims[i].carried = claims[i].prior

\* A scheduler that has stopped has given its leader lease back.
StoppedReleases == \A r \in Replicas : up[r] /\ role[r] = "stopped" => lead # r \/ leadLapsed

\* A due slot is claimed in the end although leaders crash, the leader in the middle
\* of a singleton fire included (Promote on the lapsed lease, the trial acquire).
Room == Len(claims) + 1 \in FireIds
DueFires == (IsDue(rec, clock) /\ Room) ~> ~(IsDue(rec, clock) /\ Room)

\* A fire whose process died is settled in the end: the record does not keep an
\* active fire, which would make every deletion of the schedule fail.
Driven(i) == \E r \in Replicas, k \in Threads : th[r][k].id = i
Orphaned ==
    /\ rec.gen # 0 /\ ~Driven(Len(claims))
    /\ \/ rec.sess = Pending /\ rec.last + StaleWindow < MaxClock
       \/ rec.started # 0 /\ rec.started + StaleWindow < MaxClock
OrphansSettle == Orphaned ~> ~Orphaned
=============================================================================
