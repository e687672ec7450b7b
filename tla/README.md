# Formal models of mecatl

mecatl is an agent harness: a server runs conversational sessions that call
language models and tools, several replicas of it may serve the same sessions
from a shared store, and a scheduler starts sessions by itself. This directory
holds TLA+ models of the parts of it in which several actors meet, the
configurations that check them on small instances with TLC, and theorems about
them that TLAPS has checked for every value of the constants.

`PROJECT.json` maps every definition that stands for code to the lines it stands
for, and lists the runs with their mutants, the hazards and the theorems.

## The system and what is modelled

| Part | Code | Module |
| --- | --- | --- |
| Contract of a session lease | `engine/port/lease.go` | `SessionLease` |
| In-memory lease backend | `engine/adapter/memlease` | `MemLease`, `MemLeaseProofs` |
| Kubernetes lease backend | `internal/adapter/k8slease` | `K8sLease`, `K8sLeaseProofs` |
| File-lock lease backend | `internal/adapter/flocklease` | `FlockLease`, `FlockLeaseProofs` |
| Session ownership in the server | `internal/adapter/server/service.go`, `mutation_capability.go` | `Ownership`, `OwnershipProofs` |
| Schedule records | `engine/adapter/memschedulestore` | `ScheduleStore` |
| Scheduler, fires, schedule management | `internal/adapter/scheduler`, `internal/app/scheduler_*.go`, `server/schedule_manager.go` | `Scheduler`, `SchedulerProofs`, `OneShotProofs` |
| Resilience of model calls | `internal/adapter/llmresilience` | `Resilience`, `ResilienceProofs` |
| Execution environments on Kubernetes | `internal/adapter/executioncontroller` | `ExecEnv`, `ExecEnvProofs` |

The `MC*` modules give the models to TLC: symmetry sets, functions that a
configuration cannot write, and the properties of the counterexample
configurations that need a history of their own (`MCTrial`).

How they interact: a replica acquires a *session lease* before it changes a
session; the store does not know about leases, so nothing but that discipline
keeps two replicas from overwriting each other. The scheduler elects a leader
with a lease of the same port, claims a due slot in the schedule record and
drives a session for it; the session's lease tells other replicas whether the
fire is still running. A run calls a model through the resilience decorator and a
tool through an execution environment; both are modelled on their own.

```
SessionLease  <- implemented by -  MemLease, K8sLease, FlockLease
     |
     +-- used by Ownership   (actions BackendGrant, BackendRelease, Expire)
ScheduleStore <- extended by -     Scheduler  (leader lease and session leases
                                               as owner or lapsed)
```

### SessionLease: the port

State: for every id an owner or nobody, the token of the last grant, whether the
grant has lapsed. `Takeover` grants a free or lapsed lease with a greater token,
`Refresh` extends the owner's own, `Relinquish` frees it, `Lapse` is the passing
of its expiry. `ASpec` is what the backends refine.

### MemLease: `memlease.go`

`Acquire` and `Renew` read the clock *before* they take the mutex, so each is two
actions (`BeginAcquire`/`Acquire`, `BeginRenew`/`Renew`) with time passing in
between. `leases` is the map of records, `tokens` the high-water per id, and each
owner keeps the handles it was given, as the callers in `service.go` do, until it
drops them. `Exclusion` says that two owners never rely on a lease at the same
time; `LeaseInv` is the inductive invariant that explains it; `PortSpec` is
refinement of the port.

### K8sLease: `k8slease.go`

Acquire, Renew and Release are a `Get`, a decision and a conditional `Put` on one
Lease object with a resource version; a peer may write in between, which the API
server answers with a conflict. Every host has its own clock, at most `Skew`
apart. A call may fail before or after its write took effect, or be cancelled.

### FlockLease: `flocklease.go`

Processes that share a directory. A transition takes the stable lock, decides
(`Acquire`, `Renew`, `Release`) and then writes the record (`Commit`, or
`WriteFails`); in between the process may crash. The lock of the recorded
generation, kept by the holder (`held`), lets a peer tell a crashed holder from a
live one before its lease has expired. A lock whose closing failed is kept for a
later cleanup (`stuck`). One process acts under several owner names (`ProcOf`).

### Ownership: `service.go`

One session, several replicas. Per replica:

| Variable | Code |
| --- | --- |
| `held`, `valid`, `tok`, `ngen` | `heldLeases[id]`: generation, `valid`, the lease's token, generations given out |
| `lost` | `lostOwnership[id]`, the tombstone of a lost hold |
| `cap` | `SessionMutationCapability`: none, granted, denied |
| `run` | `runs[id]`: provisional (an admission), active, ended; its hold's generation, its copy of the session |
| `rmq` | calls of `Remove` that have left the lock and not yet taken effect |
| `ent` | the entry transaction under `runEntryMu`: which operation and how far |
| `ren`, `loss`, `rec` | renewer goroutines, `onLeaseLost`, `ReconcileLeaseLossTombstone` |
| `dr`, `draining` | `GracefulDrain` |

`store` is the saved session, reduced to a version and a lifecycle state, and
`writes` are saves on their way to it, each with the version it was made from.
The entry operations are `prompt` (startRunContent), `approve`
(resumeFromAwaiting), `ask` (resolvePersistedRunAsk), `load`, `settle`
(SettleIfStale), `end` and `close`. An action is what happens between two points
at which the code lets others in: an unlock, a call to the backend, a call to the
store. `Timely` is the assumption that a process learns of the end of its hold
before the backend would let another have it (renewal interval well below the
TTL); runs and theorems that need it set it, `loss` and the other theorems do not.

### ScheduleStore and Scheduler

`ScheduleStore` holds the conditional updates of one schedule record as operators
on the record: `Claimable`/`Claimed`, `Starts`/`Started`, `Records`/`Recorded`,
`ReArmable`/`ReArmed`, `DeleteBegins`/`Deleting`, `Completes`, `Saved`. A session
id is the number of the claim it belongs to, `NoFire` for none, `Pending` for the
sentinel. The stop `"ok"` stands for every terminal stop other than `StopError`.

`Scheduler` has the replicas: leadership (`Promote`, `Renew`, `Demote`,
`ReleaseLeader`, `Drain`, `StopBegins`), the tick thread (`TickDue`, `ReArmScan`,
`ReArm`, `StaleScan`, `Settle`, `FireOne`), the fire-now thread (`FireNow`,
`FireNowLoads`), the tail they share (`Probe`, `Claim`, `Create`, `Start`,
`Enter`, `RunEnds`, `Record`) and the operator (`Pause`, `Resume`,
`CreateSchedule`, `UpdateLoads`/`UpdateSaves`, `Delete`,
`BeginDelete`/`DeletePlacement`/`CompleteDelete`). What a thread read and still
uses is in its record (`Snap`, `now`, `next`). `claims`, `lost`, `cleaned`,
`removed` and `paused` are history the properties speak of.

### Resilience: `llmresilience.go`

The record `call[c]` is one Stream call: how far it is (`pc`), what the provider
sent in this attempt, what is buffered, what the consumer received, and the usage
that was reported, carried over and paid. Its actions follow the goroutine
(admission by the breaker, pump, failure, backoff, flush, rest), the watchdogs,
the caller's cancellation and the provider. `breaker` is shared; a breaker call
reads the clock before it takes the lock (`lag`).

### ExecEnv: `executioncontroller`

One environment: the fields of its status, the Pod of its name and the volume
claim, the progress of every `execute`, of every reconciler (what it read, and
which write it is about to make) and of every administrator request. A status
mutation is one step, since `retryUpdateStatus` repeats it until nobody wrote in
between; a reconciler's read, its action on the Pod and its write are three.
`Prompt` is the assumption that a post reaches the Pod while its operation is
recorded; `Faults` are crashes of a call, evictions and forced removals of the Pod
and restarts of a worker.

## What the runs check

`Ops` in a configuration names the operations and faults of the run, so that each
run asks one question with the actors it needs.

| Run | Situation | Properties |
| --- | --- | --- |
| `memlease` | two owners, calls that wait for the mutex with an old instant | `Exclusion`, `TokenIdentifiesOwner`, `PortSpec` |
| `k8slease` | two hosts with skewed clocks, conflicts, failed and cancelled calls | `Exclusion`, `ReleasedIsFree`, `PortSpec` |
| `flocklease` | three owners in two processes, failing writes and closes, crashes | `Exclusion`, `LockIsTheHolders`, `PortSpec` |
| `handover` | a replica drains, perhaps past its deadline, or crashes, while the other answers the parked ask | `OwnersAgree`, `LeasedNoLostUpdate`, `AskIsCurrent`, `HandoffPreserved` |
| `loss` | one process: failing renewals, the loss handler, the sweep and re-entry over several generations | `TombstoneClears`, `SavesUnderOwnHold`, `OnlyOwnRenewerEndsHold` |
| `drain_live` | a drain meets prompts, loads, ends and closes | `DrainLetsGo` |
| `sched_failover` | leaders of a cron lapse, overlap and stop | `SlotsBelowNext`, `SlotOnce`, `FireBudget` |
| `sched_operator` | fire-now, pause, deletion and re-creation of an owned cron against the tick and the stale-fire scan | `NoOverlap`, `PausedStays`, `PlacementKept`, `NoPlacementLeak`, `SettleSparesRun`, `OutcomeStays` |
| `sched_live` | a one-shot with retries on two replicas that crash, edited by an operator | `RetryBudget`, `DoneIsDone`, `DueFires`, `OrphansSettle` |
| `resilience` | two calls share a breaker over a provider that fails, stalls or ends early | `WireOrder`, `UsageConserved`, `RecoveryEarned`, `CallEnds`, `Recovers` |
| `execenv` | operations, a revocation, a recovery and a replacement against a reconciler, with evictions and restarts | `OneWriter`, `FenceLifted` |
| `execenv_live` | references, renewals, a replacement or a retirement and the deletion of the volume, with a Pod that is removed by force | `RetiredIsFree`, `OperationResolves`, `LifecycleResolves` |

The inductive invariants of the proofs were checked on the same instances before
they were proved (`LeaseInv` of the three backends, `HoldInv`, `ResInv`, `ExecInv`,
`LedgerInv`, `OneShotInv`); the runs keep the properties that a reader asks about.

A passing run leaves out the operations with which the code does not keep its
properties; those combinations are the configurations of the next section, and
the two are to be read together.

### Where the code and its comments disagree

The configurations below end with a counterexample. They are run like the others
(`tlc -config X.cfg M`, with `M` the module `MCOwnership`, `MCScheduler`,
`MCResilience`, `MCTrial` or `MCExecEnv` of the part). Paths are under `src/`.

| Configuration | Property | The code | The comment |
| --- | --- | --- | --- |
| `OwnershipStalePrompt` | `PromptIsCurrent` | a prompt loads the session before the lease is granted and not again, unlike `resolvePersistedRunAsk` (`internal/adapter/server/service.go:5110`) | `service.go:5116`: "The lock was acquired before loading so the entire run-entry transaction observes one authoritative snapshot." |
| `OwnershipStaleApprove` | `ApproveIsCurrent` | `resumeFromAwaiting` checks the ask before the lease and does not reload: an ask a peer resolved is resumed again (`internal/adapter/server/service.go:6900`) | `service.go:5439`: "The snapshot read before Acquire was only a preflight." |
| `OwnershipCapabilityRace` | `RunHasCapability` | `removeRunState` calls `Remove` after unlocking, and takes the capability of the next run (`service.go:8668`) | `mutation_capability.go:47`: "safe only after every owner using the capability has settled" |
| `OwnershipDrainLoad` | `LeasedNoLostUpdate` | drain releases the lease a mutation saves under (`service.go:3427`) | `service.go:3469`: "Ownership with no local run is already settled" |
| `OwnershipDrainPreflight` | `NoLostUpdate` | drain saves the preflight snapshot of a cancelled ask resolution (`service.go:3511`) | `service.go:5138`: "it must be kept in sync or Persist/GracefulDrain would observe the stale object" |
| `OwnershipZombie` | `SavesUnderOwnHold` | the capability is per session: a later grant revives the saves of a run whose hold was lost (`mutation_capability.go:26`) | `mutation_capability.go:72`: "Explicit false entries retain denial during unwind." |
| `SchedStaleClock` | `SlotOnce` | `FireNow` reads the clock, waits for the name lock, and sets the next fire back to a slot a tick has claimed (`internal/adapter/scheduler/scheduler.go:1239`) | `engine/port/schedule.go:605`: "a second Claim on the same slot is structurally impossible" |
| `SchedLateRecord` | `LostIsDead` | the run's lease is free once the run ended: a fire about to be recorded is declared lost (`scheduler.go:1563`) | `scheduler.go:1491`: "must NOT race a fire that is concurrently being recorded by a peer" |
| `SchedSkipLost` | `LostWasFired` | `Claim` leaves the pending mark on a slot claimed to be skipped (`memschedulestore.go:275`) | `schedule.go:201`: "MisfireSkip skips the missed slot entirely" |
| `SchedResurrect` | `RemovedStaysGone` | `UpdateSchedule` saves what it loaded, although it was deleted since (`schedule_manager.go:907`) | `schedule_manager.go:852`: "overwrites the Spec half while PRESERVING the State half" |
| `SchedMarkedBusy` | `MarkedIsQuiet` | after a lapse two fires are claimed, the record knows one, and deletion begins under the other (`memschedulestore.go:184`) | `schedule.go:813`: "atomically verifies there is no claimed/running fire" |
| `SchedUnpaused` | `PausedStays` | a one-shot paused after a failed fire is re-armed and so enabled (`scheduler.go:1415`) | `scheduler.go:1436`: "e.g. paused). Not a re-arm candidate." |
| `SchedRefire` | `DoneIsDone` | `ReArmOneShot` has no condition on the fire that was read (`memschedulestore.go:505`): while two leaders tick, a one-shot whose retry succeeded fires again (`scheduler.go:1385`) | `scheduler.go:1360`: "the one-shot is NOT re-armed" |
| `SchedNoRetry` | `FailedIsRetried` | a fire that failed without a session is never retried (`scheduler.go:1434`) | `schedule.go:269`: "or recorded a StopError" |
| `SchedCarry` | `CarriesPrior` | the claim overwrites the pointer to the prior fire (`internal/app/scheduler_fire.go:380`) | `schedule.go:283`: "the fire path loads the prior fire's session" |
| `SchedStopKeeps` | `StoppedReleases` | `releaseLeader` demotes first, which forgets the lease to release (`scheduler.go:754`) | `scheduler.go:1597`: "releases the leader lease (if held)" |
| `ResilienceTrial` | `SingleTrial` (`MCTrial`) | `allow` admits every call that finds the cooldown over (`internal/adapter/llmresilience/llmresilience.go:621`) | `llmresilience.go:28`: "it then half-opens to admit a single trial" |
| `ResilienceOldFailure` | `OldFailureIgnored` (`MCTrial`) | once a trial is admitted, the failure of an older attempt counts as the trial's (`llmresilience.go:655`) | `llmresilience.go:653`: "must not restart its cooldown or overwrite its opening state" |
| `ResilienceCancel` | `CancelIsNeutral` | a call whose caller cancelled after the whole answer was buffered resets the breaker (`llmresilience.go:1227`) | `llmresilience.go:25`: "caller cancellations are breaker-neutral: they neither open the breaker nor reset it" |
| `ExecEnvLate` | `OneWriter` | the post to the Pod is not conditional on the operation still being recorded: it may land after the operation expired, was fenced and the fence was lifted (`internal/adapter/executioncontroller/store.go:493`) | `docs/adr/0364-native-kubernetes-execution.md:136`: "Expiry retains uncertain operation identity; it does not authorize a second writer." |

Further variations of these configurations break a property too:

- `SchedRefire` with replicas `{r1, r2}`, `Ops = {"lapse"}` and `RetryBudget`: two
  leaders that read the same failed fire both re-arm it, against
  `engine/port/schedule.go:793` "two concurrent re-arms must not double-increment".
- Two replicas of a cron with `MaxFires = 2`, `Period = 2`, `StaleWindow = 2`,
  `MaxClock = 5`, `Ops = {"lapse"}` and `ExhaustedIsDone`: a cron whose budget is
  used up stays enabled, although it never fires again (`schedule.go:250`).
- A direct `CloseSession` releases the lease under an active run
  (`LeasedNoLostUpdate`, `SavesUnderOwnHold`), and a load's repair save races the
  relay's last save of an ended run (`LeasedNoLostUpdate`).
- `SettleSparesRun` needs a scheduler without faults, lapses and stops: the scan
  reads, the run enters, the scan settles.
- `PlacementKept` and `DoneIsDone` fail where an update straddles a deletion
  (`SchedResurrect`): the record comes back with its old fires.

Of `ExecEnv`, reading it for the model showed:

- `docs/adr/0027-cloud-native.md:1071` says "Startup marks any persisted active
  operation `FenceUnknown` before admitting mutations"; `Initialize`
  (`controller.go:56`) does not, the fence comes from the operation's expiry.
- An expired run of a revoked environment whose Pod is dead is not cleared by
  anything (`user-docs/features/execution-environments.md:241` speaks of "a fresh
  claim after the old claim is released or fenced"), and a replacement Pod that
  fails before it is ready leaves the lifecycle in `CreatingReplacement`.
- A worker that read the status before a forced removal of the Pod may write what
  it saw over the status of its successor. Hence the theorems exclude `"vanish"`,
  and `execenv_live`, which includes it, checks what does not depend on it.

## Bounds

- Two replicas or owners: every exclusion, overwriting and failover question is
  about two actors; `loss`, `drain_live` and `sched_operator` are about one
  process. Safety runs with symmetric replicas declare symmetry, liveness runs do
  not. `flocklease` has a third owner, a second name of the first process.
- `MaxVer`, `MaxToken`, `MaxGen` (Ownership) stop new saves, grants and
  generations; two generations let a process lose a hold and have another, three
  tokens let the session change hands twice.
- `MaxClock`, `FireIds`, `MaxGen` (Scheduler): a clock of three to six ticks with
  a period of one or two gives several slots; two or three claims allow a fire, a
  rival and a retry; two incarnations allow a re-creation.
- `MaxAttempts`, `MaxChunks`, `MaxLag` (Resilience): two attempts of two chunks
  give a discarded attempt and one that is relayed past the boundary.
- `MaxEpoch`, `MaxGen`, `MaxPod` (ExecEnv): four epochs allow a run, a recovery or a
  replacement of its Pod, and another run; two generations a revocation in between.
  A lifetime of two in `execenv_live` lets renewals keep a claim and an operation up
  for ever; `OperationResolves` is therefore about an operation that nobody renews.
  There `MaxPod` also keeps the replacement Pod from being removed by force.
- Deadlock is not checked except in `memlease`: at its bounds a model stops, and a
  drained or crashed system really does.

| Run | States | Larger instances that were checked once |
| --- | --- | --- |
| `flocklease` | 696,078 | |
| `k8slease` | 568,585 | |
| `handover` | 853,798 | `AgreeInv`, `HandoverInv`: with `prompt` and crashes 881,993; with `approve` and the sweep 452,962 |
| `loss` | 53,819 | |
| `sched_failover` | 720,288 | period 2, clock 4: 2,304,233; with crashes 2,578,167; singleton 2,883,172 |
| `sched_operator` | 824,080 | clock 4: 2,511,475, with `LedgerInv` |
| `sched_live` | 66,562 | `OneShotInv` and `DoneIsDone` with crash, pause, update, fault, slow: 156,316; with deletion and re-creation 94,452; owned, with faults and trial expiry 491,588 |
| `resilience` | 109,550 | safety with a lag and all kinds of chunk: 1,372,836 |
| `execenv` | 1,101,491 | two requests of either kind: 2,385,251; a replacement and two recoveries: 3,654,112 |
| `execenv_live` | 258,632 | two generations: 768,256 |

## Fairness

Weak fairness of what a goroutine does by itself: an entry transaction, a loss
handler, the sweep, a drain, a tick thread, a pending store call, the passing of
time. Go's scheduler runs every runnable goroutine and the code bounds its backend
calls by timeouts. Nothing forces a client to call, a run to end, a Renew to fail
or a process to crash. `drain_live` adds `RunsSettle`: a cancelled run ends and
its relay finishes it, which is what `GracefulDrain` waits for within its
deadline. In `resilience` a provider is fair only once its context is cancelled or
after `calm`; until then the watchdogs, which are timers, end an attempt. In
`execenv_live` the workers of the queue, the kubelet and the passing of time are
fair; administrators, clients and the calls of `execute` are not, so an operation
is resolved there without help from whoever started it.

## What is proved

`MemLeaseProofs`, from the assumptions on the constants in `MemLease` (positive
TTL, the reserved values are no owners):
- `LeaseInvariant`: `LeaseInv` is inductive. It says that a handle on which its
  owner may still rely is the record's, that a handle's token never exceeds the
  high-water, and that an instant a pending call has read is not in the future.
  The last part carries the argument: an old instant can only make a caller
  *refuse*.
- `ExclusionTheorem`, `TokenTheorem`, `LiveRecordTheorem` follow from it.
- `RefinesPort`: every step is a step of `SessionLease` or leaves its state alone.

`K8sLeaseProofs`, for any replicas, TTL and skew: `LeaseInvariant` (every call in
flight knows at most the version it read, so a write that the API server accepts
was decided on the present object), `ExclusionHolds` (replicas that stop relying on
a hold `Skew` before its expiry), `TokensUnique`, `TombstoneReaches`,
`RefinesPort`.

`FlockLeaseProofs`, for any owners and processes, with failing writes and closes:
`LeaseInvariant` (the record's generation is locked by its owner's process or by
nobody; what a half-done transition is about to write is past every token given
out), `ExclusionHolds`, `TokensUnique`, `CrashFreesSession`, `RefinesPort`.

`OwnershipProofs`, for any set of replicas and any bounds. For any operations and
faults and without the timing assumption:
- `HoldInvariant`: `HoldInv` is inductive: types, `CapabilityNeedsHold`,
  `InstallClean` (an entry about to install a hold found none, and no tombstone
  unless it is SettleIfStale) and `EntryOwnsRun` (a run entry in progress owns the
  provisional run). The last two are what makes the first inductive: they say why
  nobody can lose a hold between the check and the installation.
- `CapabilityTheorem`: the capability is granted only behind a valid hold and no
  tombstone. `RenewerTheorem`: only the renewer of the present generation ends a
  hold.

Still without the timing assumption, but without `load` and `close`:
- `SavesTheorem` (`SavesUnderOwnHold`). `GuardInv` says that the hold a process
  believes in, if a launched run is registered, is that run's, and that no entry
  acquires beside a launched run. `LoadSession` and `CloseSession` do acquire
  beside a run whose hold was lost (`OwnershipZombie`).

Under `Timely`:
- `AgreementTheorem` (`OwnersAgree`), for any operations that satisfy `Unbypassed`:
  `SettleIfStale`, which passes the drain gate and the tombstone, meets neither a
  drain nor a failing Renew. `AgreeInv` ties the belief in a hold, and a grant that
  is about to be installed, to the backend's live record. What makes it inductive
  is that a release that is still to be sent is never one of a present hold: while
  an entry, a drain or a loss handler is about to release, the process believes in
  nothing and is granted nothing.
- `LostUpdateTheorem`, `AskTheorem`, `HandoffTheorem` (`LeasedNoLostUpdate`,
  `AskIsCurrent`, `HandoffPreserved`), for `prompt`, `approve`, `ask` and `end` with
  drains, deadlines and crashes, and no failing call (`HandoverOps`). `HandoverInv` is built on
  `AgreeInv` and has four parts per replica: the sender of a save waits for it
  (`Waits`); entry, run and drain take turns (`Turns`); what was read under the
  present hold is what the store has (`Fresh`); a parked run has saved its ask and
  nothing overwrites it once the drain preserves it (`Parked`). Across replicas: a
  save in flight is the only one and its sender holds the lease. With `load` or
  `close` the first fails (`OwnershipDrainLoad`).

`AgreeInv`, `GuardInv` and `HandoverInv` are defined in `Ownership`, and TLC has
checked each on the operations its theorem is about.

`ResilienceProofs`, for any callers, thresholds, attempts and chunks: `ResInvariant`
(before the boundary the consumer has nothing and the buffer is what the provider
sent; while it is flushed it is what the consumer still lacks; the usage is always
complete), `NoReplay`, `UsageNeverLost`, `RecoveryIsEarned`.

`ExecEnvProofs`, for any calls, workers, bindings and requests, assuming `Prompt`
and no forced removal of Pods: `ExecInvariant` (the identities in the status, in
the views of the workers and in the requests agree, an old view can be recognised
by its epoch, lifecycle or Pod), `OneWriterHolds`, `AliveRecorded`, `RetiredFree`,
`FenceLiftedSafely`.

`SchedulerProofs`, for any replicas, policies, periods and bounds. Every step of the
scheduler is one of a few kinds, once by what it does to the threads
(`ThreadSteps`), once by what it does to the fires (`StoreSteps`), once by what it
does to the record (`RecordSteps`); each invariant is proved over the split that
matters to it.
- `NoOverlapHolds` and `OutcomesStay` need no assumption: whatever is lost, late,
  retried or stopped, fires do not overlap in a process and a recorded outcome
  stays.
- `NextPastClaims` and `SlotClaimedOnce`, from the inductive `SlotInv`: for a cron that
  only ticks claim, the next fire is past every slot claimed for the incarnation,
  nothing sets it back, and incarnations are not reused. `FireNow` is excluded because it does set it back
  (`SchedStaleClock`).
- `LedgerInvariant`: the count in the record is the number of claims of its
  incarnation; an incarnation whose placement was deleted was never claimed, and
  its record is marked so that it cannot be; a deletion under way knows whether its
  incarnation was. `FireBudgetHolds`, `PlacementIsKept` and `NoPlacementIsLeaked`
  follow. These and the slot theorems assume `Separate`: a schedule is not both
  updated and deleted, for an update that straddles a deletion writes the record
  back (`SchedResurrect`).
- `PauseHolds`: a paused cron stays disabled until it is resumed. For a one-shot the
  re-arm breaks it (`SchedUnpaused`).

`OneShotProofs`, for one-shots with any number of replicas that crash, with pauses,
updates or deletions, and any retry budget, assuming `Separate` and `OneLeader`:
no fire-now, and no stop or lapse that makes two leaders (with two, both results
fail: `SchedRefire`).
- `OneShotInvariant`: there is one tick at a time, and what it decided to re-arm or
  to settle, and the fire it drives, are still what it saw when it acts: between
  its read and its write nothing of this incarnation can succeed, and an armed
  one-shot has a retry for every claim. This is the condition that
  `ReArmOneShot` does not check and that leadership alone provides.
- `RetryBudgetHolds`, `SuccessIsFinal` (`DoneIsDone`) follow.

## What is only model-checked

- All liveness (`DrainLetsGo`, `TombstoneClears`, `DueFires`, `OrphansSettle`,
  `CallEnds`, `Recovers`, `OperationResolves`, `LifecycleResolves`): fairness is
  out of the prover's reach.
- `SettleSparesRun`: it rests on the stale window being longer than the time from a
  claim to the session's lease, which the clock of the model bounds only in the
  fault-free schedule of the run.

## What is not modelled

`PROJECT.json` lists every part with its reason. Within the modelled parts:
backends that report that leases are unsupported, restored authorizations, client
cancellation, `Service.Close`, the 32-bit clamp of the Kubernetes token, several
schedules and the bound on concurrent fires, delivery of results, the fire
watchdog, progress records, the provisioning of a schedule's placement, the session
that the stale-fire settle cancels, a drain's save that fails or times out (the
release follows it either way), resilience with one of its two timers disabled, and
the usage in a chunk that arrives after its attempt was cut, which the code drops.

## Plan

1. The handover theorems with `settle` and with failing calls.
2. The session event log with its cursors and followers.
3. The session aggregate and the agent loop: asks, steering, cancellation.
4. Teams, subagents, delivery of fire results.
5. Learning repositories, execution grants, microVM launch ownership.
