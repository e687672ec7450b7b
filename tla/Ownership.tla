------------------------------ MODULE Ownership ------------------------------
(***************************************************************************)
(* Who may write one session when several server replicas share a store:   *)
(* internal/adapter/server/service.go over a session-lease backend that    *)
(* honours engine/port/lease.go (module SessionLease) and an unfenced      *)
(* session store.  One session id is modelled; the Service keys every map  *)
(* and mutex used here by session id, so sessions do not interact.         *)
(*                                                                         *)
(* Threads of a replica: one run-entry transaction (they serialise on      *)
(* runEntryMu), the registered run with its relay, the renewers of past    *)
(* and present holds, the tombstone sweep, and graceful drain.  A save is  *)
(* two steps: admission, where SessionMutationCapability decides, and      *)
(* landing, which nothing can stop any more, not even a crash.             *)
(***************************************************************************)
EXTENDS Naturals, FiniteSets

CONSTANTS Replicas,   \* server processes; each is its own lease owner
          Sid,        \* the session id
          NoOwner,    \* "nobody" in the lease backend
          Ops,        \* operations and environment faults that may happen
          Timely,     \* the lease of a process that still relies on it never
                      \* lapses and its admitted saves land within the TTL
          Initial,    \* state of the stored session at the start
          MaxVer,     \* bound: saves
          MaxToken,   \* bound: fencing tokens
          MaxGen      \* bound: lease holds installed per replica

MaxRemovers == 2      \* bound: capability removals outstanding per replica

ASSUME BoundsAssumption == MaxVer \in Nat /\ MaxToken \in Nat /\ MaxGen \in Nat

VARIABLES holder, token, lapsed,   \* the lease backend
          store,      \* the durable session: [ver, st]
          writes,     \* saves admitted and not yet landed
          up,         \* up[r]: the process is alive
          draining,   \* draining[r]: Service.draining
          held,       \* held[r]: generation of heldLeases[id], 0 when absent
          valid,      \* valid[r]: heldLease.valid of that generation
          tok,        \* tok[r]: heldLease.lease.Token of that generation
          ngen,       \* ngen[r]: generations installed so far
          lost,       \* lost[r]: lostOwnership has the id
          cap,        \* cap[r]: SessionMutationCapability.states[id]
          rmq,        \* rmq[r]: removeRunState calls about to Remove the capability
          run,        \* run[r]: Service.runs[id]
          ent,        \* ent[r]: the transaction holding runEntryMu
          ren,        \* ren[r]: generations whose renewer got a failing Renew
          loss,       \* loss[r]: the onLeaseLost call in progress
          rec,        \* rec[r]: the ReconcileLeaseLossTombstone call in progress
          dr          \* dr[r]: the GracefulDrain call

lease == <<holder, token, lapsed>>
data == <<store, writes>>
hold == <<held, valid, tok, ngen, lost>>
vars == <<lease, data, up, draining, hold, cap, rmq, run, ent, ren, loss, rec, dr>>

\* The owner string of a trial acquire: LeaseOwner + staleTrialLeaseSuffix.
Trial(r) == <<r, "stale-trial">>

ASSUME OwnersAssumption ==
    NoOwner \notin Replicas /\ \A r \in Replicas : Trial(r) \notin Replicas \cup {NoOwner}

L == INSTANCE SessionLease WITH Sessions <- {Sid},
        Owners <- Replicas \cup {Trial(r) : r \in Replicas}

-----------------------------------------------------------------------------
(* State *)

\* session.State; "done" stands for completed and failed.
States == {"idle", "running", "awaiting", "done", "cancelled"}
Terminal == {"done", "cancelled"}

ASSUME InitialAssumption == Initial \in States

\* Run entries register a provisional run; the others do not.
RunOps == {"prompt", "approve", "ask"}
CloseOps == {"end", "close"}
EntryOps == RunOps \cup CloseOps \cup {"load", "settle"}

Capability == {"none", "yes", "no"}

Write == [by: Replicas, src: {"run", "ent", "drain"}, base: Nat, st: States, fresh: BOOLEAN]

\* runState: ph is the lifecycle (provisional, launched, finished driving),
\* base the store version its aggregate was read from or last saved as, fresh
\* whether that read happened under this hold, gen the hold its context is
\* bound to, parked runState.awaiting, stop a cancellation signal, preserve
\* preserveDurable, rmcap removeCapabilityOnSettle.
Run == [ph: {"prov", "active", "ended"}, st: States, base: Nat, fresh: BOOLEAN, gen: Nat,
        parked: BOOLEAN, stop: BOOLEAN, preserve: BOOLEAN, rmcap: BOOLEAN]
NoRun == [ph |-> "none"]

\* A run-entry transaction: pc is its next step, base/st/fresh the aggregate it
\* carries, gen the hold it bound to, tok the lease it acquired or releases,
\* flag "held before I came" until leased, then "the release is mine", then
\* "removeOnReturn".
EntryPc == {"off", "acquire", "install", "leased", "save", "saving", "launch",
            "cleanup", "lock", "drop", "release", "forget"}
Entry == [pc: EntryPc, op: EntryOps \cup {"none"}, base: Nat, st: States, fresh: BOOLEAN,
          gen: Nat, tok: Nat, flag: BOOLEAN]
NoEntry == [pc |-> "off", op |-> "none", base |-> 0, st |-> "idle", fresh |-> FALSE,
            gen |-> 0, tok |-> 0, flag |-> FALSE]

Loss == [pc: {"off", "cancel", "release"}, tok: Nat, keep: BOOLEAN, had: BOOLEAN]
NoLoss == [pc |-> "off", tok |-> 0, keep |-> FALSE, had |-> FALSE]

RecPc == {"off", "trial", "release", "check"}

\* st/base/fresh are the runState's aggregate, which drain keeps for its save.
Drain == [pc: {"off", "gate", "cancel", "wait", "saving", "drop", "release", "forget", "done"},
          base: Nat, st: States, fresh: BOOLEAN, tok: Nat, flag: BOOLEAN]
NoDrain == [pc |-> "off", base |-> 0, st |-> "idle", fresh |-> FALSE, tok |-> 0, flag |-> FALSE]

Init == /\ L!AInit
        /\ store = [ver |-> 0, st |-> Initial]
        /\ writes = {}
        /\ up = [r \in Replicas |-> TRUE]
        /\ draining = [r \in Replicas |-> FALSE]
        /\ held = [r \in Replicas |-> 0]
        /\ valid = [r \in Replicas |-> FALSE]
        /\ tok = [r \in Replicas |-> 0]
        /\ ngen = [r \in Replicas |-> 0]
        /\ lost = [r \in Replicas |-> FALSE]
        /\ cap = [r \in Replicas |-> "none"]
        /\ rmq = [r \in Replicas |-> 0]
        /\ run = [r \in Replicas |-> NoRun]
        /\ ent = [r \in Replicas |-> NoEntry]
        /\ ren = [r \in Replicas |-> {}]
        /\ loss = [r \in Replicas |-> NoLoss]
        /\ rec = [r \in Replicas |-> "off"]
        /\ dr = [r \in Replicas |-> NoDrain]

-----------------------------------------------------------------------------
(* The lease backend and the store, as the Service calls them *)

\* SessionLease.Acquire by owner o succeeds: a takeover of a free or lapsed
\* lease, or a refresh of the one o already holds.
BackendGrant(o) ==
    /\ \/ token[Sid] < MaxToken /\ L!Takeover(Sid, o)
       \/ holder[Sid] = o /\ ~lapsed[Sid] /\ L!Refresh(Sid)
    /\ ~lapsed'[Sid]

\* SessionLease.Release of token t by o: a no-op unless o still holds it.  A
\* call that fails changes nothing.
BackendRelease(o, t) ==
    \/ IF holder[Sid] = o /\ token[Sid] = t THEN L!Relinquish(Sid) ELSE UNCHANGED lease
    \/ "fault" \in Ops /\ UNCHANGED lease

\* The TTL runs out.  A process relies on its lease while it believes in it, is
\* about to install it, or has a save in flight.
Relies(r) == \/ \E w \in writes : w.by = r
             \/ up[r] /\ (valid[r] \/ ent[r].pc = "install")

Expire ==
    /\ holder[Sid] # NoOwner /\ ~lapsed[Sid]
    /\ Timely => ~(\E r \in Replicas : holder[Sid] = r /\ Relies(r))
    /\ L!Lapse /\ lapsed'[Sid]
    /\ UNCHANGED <<data, up, draining, hold, cap, rmq, run, ent, ren, loss, rec, dr>>

\* SessionMutationCapability.allows, and room under the model's bound.
SaveAllowed(r) == cap[r] = "yes"
Room == store.ver + Cardinality(writes) < MaxVer

\* A save reaches the store: last write wins.  The saver then carries on.
Land(w) ==
    LET v == store.ver + 1
        r == w.by
    IN /\ w \in writes
       /\ writes' = writes \ {w}
       /\ store' = [ver |-> v, st |-> w.st]
       /\ run' = IF up[r] /\ w.src = "run"
                 THEN [run EXCEPT ![r].base = v,
                                  ![r].parked = IF w.st = "awaiting" THEN TRUE ELSE @]
                 ELSE run
       /\ ent' = IF up[r] /\ w.src = "ent"
                 THEN [ent EXCEPT ![r].base = v,
                                  ![r].pc = IF ent[r].op \in RunOps THEN "launch" ELSE "drop"]
                 ELSE ent
       /\ dr' = IF up[r] /\ w.src = "drain" THEN [dr EXCEPT ![r].pc = "drop"] ELSE dr
       /\ UNCHANGED <<lease, up, draining, hold, cap, rmq, ren, loss, rec>>

-----------------------------------------------------------------------------
(* Shared pieces *)

\* leaseLossMu: held for the whole of onLeaseLost, of a reconcile and of
\* closeSessionLocal.
LossMuFree(r) ==
    /\ loss[r].pc = "off"
    /\ rec[r] = "off"
    /\ ~(ent[r].op \in CloseOps /\ ent[r].pc \in {"drop", "release", "forget"})

RunSaving(r) == \E w \in writes : w.by = r /\ w.src = "run"

\* removeRunState, its part under s.mu: the run leaves the registry and takes an
\* invalid hold with it.  The capability removal it decides on happens later.
RemoveRun(r) ==
    /\ rmq[r] < MaxRemovers
    /\ rmq' = [rmq EXCEPT ![r] =
                 IF run[r].rmcap \/ (held[r] # 0 /\ ~valid[r]) THEN @ + 1 ELSE @]
    /\ held' = [held EXCEPT ![r] = IF valid[r] THEN @ ELSE 0]
    /\ UNCHANGED <<valid, tok, ngen, lost>>

\* removeRunState, its last line, outside s.mu.
RemoveCapability(r) ==
    /\ up[r] /\ rmq[r] > 0
    /\ rmq' = [rmq EXCEPT ![r] = @ - 1]
    /\ cap' = [cap EXCEPT ![r] = "none"]
    /\ UNCHANGED <<lease, data, up, draining, hold, run, ent, ren, loss, rec, dr>>

\* A variant of ReleaseLocal that leaves the local hold in place.
ReleaseLocalKeepsHold(r) ==
    /\ run' = IF held[r] # 0 /\ run[r] # NoRun THEN [run EXCEPT ![r].rmcap = valid[r]] ELSE run
    /\ UNCHANGED <<hold, cap>>

\* releaseLease, its part under s.mu.
ReleaseLocal(r) ==
    /\ held' = [held EXCEPT ![r] = 0]
    /\ valid' = [valid EXCEPT ![r] = FALSE]
    /\ cap' = [cap EXCEPT ![r] = IF held[r] # 0 THEN "no" ELSE @]
    /\ run' = IF held[r] # 0 /\ run[r] # NoRun THEN [run EXCEPT ![r].rmcap = valid[r]] ELSE run
    /\ UNCHANGED <<tok, ngen, lost>>

\* GracefulDrain keeps the runState it waits for, hence its aggregate, past the
\* removal of the run; a is that aggregate.
DrainKeeps(r, a) ==
    dr' = IF dr[r].pc \in {"cancel", "wait"}
          THEN [dr EXCEPT ![r] = [@ EXCEPT !.base = a.base, !.st = a.st, !.fresh = a.fresh]]
          ELSE dr

Goto(r, pc) == ent' = [ent EXCEPT ![r].pc = pc]
Leave(r) == ent' = [ent EXCEPT ![r] = NoEntry]

\* An error return: a run entry still runs its deferred cleanupRunAdmission.
Fail(r) == IF ent[r].op \in RunOps THEN Goto(r, "cleanup") ELSE Leave(r)

-----------------------------------------------------------------------------
(* Run-entry transactions *)

\* A variant of Admits without SettleIfStale's liveness check.
AdmitsLiveSettle(r, o) ==
    CASE o = "prompt" -> run[r] = NoRun \/ (store.st \in Terminal /\ ~RunSaving(r))
      [] o \in {"approve", "ask"} -> run[r] = NoRun /\ store.st = "awaiting"
      [] o = "settle" -> store.st = "running"
      [] o = "end" -> run[r] = NoRun
      [] o \in {"load", "close"} -> TRUE

\* What each operation demands of the snapshot it reads first and of the
\* registry: startRunContentLocked retires only a run whose stored snapshot is
\* terminal, resumeFromAwaiting and resolvePersistedRunAsk want a stored ask and
\* no live run, SettleIfStale an orphaned running session, EndSession no run.
Admits(r, o) ==
    CASE o = "prompt" -> \/ run[r] = NoRun
                         \/ store.st \in Terminal /\ ~RunSaving(r)
      [] o \in {"approve", "ask"} -> run[r] = NoRun /\ store.st = "awaiting"
      [] o = "settle" -> run[r] = NoRun /\ store.st = "running"
      [] o = "end" -> run[r] = NoRun
      [] o \in {"load", "close"} -> TRUE

\* Take runEntryMu, read the snapshot and, for a run entry, register the
\* provisional run (beginRunAdmission).
Enter(r, o) ==
    /\ o \in Ops /\ up[r] /\ ent[r].pc = "off"
    /\ o \in RunOps => ~draining[r]
    /\ Admits(r, o)
    /\ ent' = [ent EXCEPT ![r] =
                 [pc |-> IF o \in CloseOps /\ lost[r] THEN "lock" ELSE "acquire",
                  op |-> o, base |-> store.ver, st |-> store.st, fresh |-> valid[r],
                  gen |-> 0, tok |-> 0, flag |-> held[r] # 0]]
    /\ IF o \in RunOps
       THEN /\ IF run[r] = NoRun THEN UNCHANGED <<hold, rmq>> ELSE RemoveRun(r)
            /\ run' = [run EXCEPT ![r] =
                         [ph |-> "prov", st |-> store.st, base |-> store.ver, fresh |-> valid[r],
                          gen |-> 0, parked |-> FALSE, stop |-> FALSE, preserve |-> FALSE,
                          rmcap |-> FALSE]]
       ELSE UNCHANGED <<hold, rmq, run>>
    /\ UNCHANGED <<lease, data, up, draining, cap, ren, loss, rec, dr>>

\* acquireLease's drain gate and acquireLeaseCore's local refusals.  Only
\* SettleIfStale bypasses them.
Refused(r) ==
    /\ ent[r].op # "settle"
    /\ \/ draining[r]
       \/ lost[r]
       \/ held[r] # 0 /\ ~valid[r]

AcquireRefused(r) ==
    /\ up[r] /\ ent[r].pc = "acquire" /\ Refused(r)
    /\ Fail(r)
    /\ UNCHANGED <<lease, data, up, draining, hold, cap, rmq, run, ren, loss, rec, dr>>

\* The id is already held by this process.
AcquireKept(r) ==
    /\ up[r] /\ ent[r].pc = "acquire" /\ ~Refused(r) /\ valid[r]
    /\ Goto(r, "leased")
    /\ UNCHANGED <<lease, data, up, draining, hold, cap, rmq, run, ren, loss, rec, dr>>

AcquireWon(r) ==
    /\ up[r] /\ ent[r].pc = "acquire" /\ ~Refused(r) /\ ~valid[r] /\ ngen[r] < MaxGen
    /\ BackendGrant(r)
    /\ ent' = [ent EXCEPT ![r] = [@ EXCEPT !.pc = "install", !.tok = token'[Sid], !.fresh = FALSE]]
    /\ UNCHANGED <<data, up, draining, hold, cap, rmq, run, ren, loss, rec, dr>>

\* ErrLeaseHeld, a backend error, or an answer that came after the timeout
\* although the backend had recorded the grant.
AcquireFailed(r) ==
    /\ up[r] /\ ent[r].pc = "acquire" /\ ~Refused(r) /\ ~valid[r]
    /\ UNCHANGED lease \/ ("fault" \in Ops /\ BackendGrant(r))
    /\ Fail(r)
    /\ UNCHANGED <<data, up, draining, hold, cap, rmq, run, ren, loss, rec, dr>>

\* acquireLeaseCore after Acquire: store the hold, grant the capability, start
\* the renewer.  (The duplicate-install case cannot arise: every caller of
\* acquireLease for the id is serialised by runEntryMu.)
Install(r) ==
    /\ up[r] /\ ent[r].pc = "install"
    /\ lost' = [lost EXCEPT ![r] = IF ent[r].op = "settle" THEN FALSE ELSE @]
    /\ ngen' = [ngen EXCEPT ![r] = @ + 1]
    /\ held' = [held EXCEPT ![r] = ngen[r] + 1]
    /\ valid' = [valid EXCEPT ![r] = TRUE]
    /\ tok' = [tok EXCEPT ![r] = ent[r].tok]
    /\ cap' = [cap EXCEPT ![r] = "yes"]
    /\ Goto(r, "leased")
    /\ UNCHANGED <<lease, data, up, draining, rmq, run, ren, loss, rec, dr>>

\* startRunContentLocked past acquireLease: bind to the hold and repair the
\* snapshot read BEFORE the lease (reopenLoadedSession, repairRunningSession).
BeginPrompt(r) ==
    /\ up[r] /\ ent[r].pc = "leased" /\ ent[r].op = "prompt"
    /\ LET repair == ent[r].st \in Terminal \cup {"running"}
       IN ent' = [ent EXCEPT ![r] = [@ EXCEPT !.pc = IF repair THEN "save" ELSE "launch",
                                              !.st = IF repair THEN "idle" ELSE ent[r].st,
                                              !.gen = held[r]]]
    /\ UNCHANGED <<lease, data, up, draining, hold, cap, rmq, run, ren, loss, rec, dr>>

\* resumeFromAwaiting past acquireLease: bind to the hold, keep the snapshot.
BeginApprove(r) ==
    /\ up[r] /\ ent[r].pc = "leased" /\ ent[r].op = "approve"
    /\ ent' = [ent EXCEPT ![r].pc = "launch", ![r].gen = held[r]]
    /\ UNCHANGED <<lease, data, up, draining, hold, cap, rmq, run, ren, loss, rec, dr>>

\* The snapshot a resumed ask runs on: read again under the lease.  (Preflight:
\* a variant that keeps the one read before.)
AskSnapshotPreflight(r) == [base |-> ent[r].base, st |-> ent[r].st, fresh |-> TRUE]
AskSnapshot(r) == [base |-> store.ver, st |-> store.st, fresh |-> TRUE]

\* resolvePersistedRunAsk past acquireLease: reload, repeat the proof.
BeginAsk(r) ==
    /\ up[r] /\ ent[r].pc = "leased" /\ ent[r].op = "ask"
    /\ LET s == AskSnapshot(r)
       IN IF s.st = "awaiting" /\ ~run[r].stop
          THEN /\ ent' = [ent EXCEPT ![r] = [@ EXCEPT !.pc = "launch", !.gen = held[r],
                                                      !.base = s.base, !.fresh = s.fresh]]
               /\ run' = [run EXCEPT ![r].base = s.base, ![r].fresh = s.fresh]
          ELSE Goto(r, "cleanup") /\ UNCHANGED run
    /\ UNCHANGED <<lease, data, up, draining, hold, cap, rmq, ren, loss, rec, dr>>

\* The aggregate a mutation repairs: read again under the lease.
MutationBase(r) == store.ver

\* loadSessionContext past acquireMutationLease: reload and repair a terminal
\* snapshot; SettleIfStale: reload and abandon a running one nobody drives here.
BeginMutation(r) ==
    /\ up[r] /\ ent[r].pc = "leased" /\ ent[r].op \in {"load", "settle"}
    /\ LET repair == \/ ent[r].op = "load" /\ store.st \in Terminal
                     \/ ent[r].op = "settle" /\ store.st = "running" /\ run[r] = NoRun
       IN ent' = [ent EXCEPT ![r] =
                    [pc |-> IF repair THEN "save" ELSE "drop", op |-> ent[r].op,
                     base |-> MutationBase(r), st |-> "idle", fresh |-> TRUE,
                     gen |-> held[r], tok |-> 0, flag |-> ~ent[r].flag /\ held[r] # 0]]
    /\ UNCHANGED <<lease, data, up, draining, hold, cap, rmq, run, ren, loss, rec, dr>>

\* closeSessionAuthorized past acquireLease.
BeginClose(r) ==
    /\ up[r] /\ ent[r].pc = "leased" /\ ent[r].op \in CloseOps
    /\ Goto(r, "lock")
    /\ UNCHANGED <<lease, data, up, draining, hold, cap, rmq, run, ren, loss, rec, dr>>

\* saveSession through capabilityStore.Save: admitted ...
SaveAdmitted(r) ==
    /\ up[r] /\ ent[r].pc = "save" /\ SaveAllowed(r) /\ Room
    /\ writes' = writes \cup {[by |-> r, src |-> "ent", base |-> ent[r].base, st |-> ent[r].st,
                               fresh |-> ent[r].fresh]}
    /\ Goto(r, "saving")
    /\ UNCHANGED <<lease, store, up, draining, hold, cap, rmq, run, ren, loss, rec, dr>>

\* ... or refused by the capability, or failed in the store.
SaveFailed(r) ==
    /\ up[r] /\ ent[r].pc = "save"
    /\ Goto(r, IF ent[r].op \in RunOps THEN "cleanup" ELSE "drop")
    /\ UNCHANGED <<lease, data, up, draining, hold, cap, rmq, run, ren, loss, rec, dr>>

\* leaseHeld and promoteRunAdmission's checks.
MayLaunch(r) == held[r] # 0 /\ held[r] = ent[r].gen /\ valid[r] /\ ~draining[r]

\* promoteRunAdmission: the engine starts on the carried snapshot.  A prompt on
\* an awaiting snapshot fails in BeginTurn.
Launch(r) ==
    /\ up[r] /\ ent[r].pc = "launch" /\ MayLaunch(r)
    /\ LET dead == ent[r].op = "prompt" /\ ent[r].st = "awaiting"
       IN run' = [run EXCEPT ![r] =
                    [ph |-> IF dead THEN "ended" ELSE "active",
                     st |-> IF dead THEN "done" ELSE "running",
                     base |-> ent[r].base, fresh |-> ent[r].fresh, gen |-> ent[r].gen,
                     parked |-> FALSE, stop |-> run[r].stop, preserve |-> FALSE,
                     rmcap |-> run[r].rmcap]]
    /\ Leave(r)
    /\ UNCHANGED <<lease, data, up, draining, hold, cap, rmq, ren, loss, rec, dr>>

\* The checks fail, or building the engine does.
LaunchFailed(r) ==
    /\ up[r] /\ ent[r].pc = "launch"
    /\ Goto(r, "cleanup")
    /\ UNCHANGED <<lease, data, up, draining, hold, cap, rmq, run, ren, loss, rec, dr>>

\* cleanupRunAdmission of an entry that was not promoted.
Cleanup(r) ==
    /\ up[r] /\ ent[r].pc = "cleanup"
    /\ RemoveRun(r)
    /\ DrainKeeps(r, ent[r])
    /\ run' = [run EXCEPT ![r] = NoRun]
    /\ Leave(r)
    /\ UNCHANGED <<lease, data, up, draining, cap, ren, loss, rec>>

\* closeSessionLocal: under leaseLossMu, forget the tombstone.
CloseLocal(r) ==
    /\ up[r] /\ ent[r].pc = "lock" /\ LossMuFree(r)
    /\ lost' = [lost EXCEPT ![r] = FALSE]
    /\ ent' = [ent EXCEPT ![r].pc = "drop", ![r].flag = TRUE]
    /\ UNCHANGED <<lease, data, up, draining, held, valid, tok, ngen, cap, rmq, run, ren, loss, rec, dr>>

\* releaseLease called by closeSessionLocal, or by the release closure of a
\* mutation that took the lease itself.
DropLease(r) ==
    /\ up[r] /\ ent[r].pc = "drop"
    /\ IF ent[r].flag
       THEN /\ ReleaseLocal(r)
            /\ IF valid[r]
               THEN ent' = [ent EXCEPT ![r] = [@ EXCEPT !.pc = "release", !.tok = tok[r],
                                                        !.flag = run[r] = NoRun]]
               ELSE Leave(r)
       ELSE Leave(r) /\ UNCHANGED <<hold, cap, run>>
    /\ UNCHANGED <<lease, data, up, draining, rmq, ren, loss, rec, dr>>

Release(r) ==
    /\ up[r] /\ ent[r].pc = "release"
    /\ BackendRelease(r, ent[r].tok)
    /\ IF ent[r].flag THEN Goto(r, "forget") ELSE Leave(r)
    /\ UNCHANGED <<data, up, draining, hold, cap, rmq, run, ren, loss, rec, dr>>

ForgetCapability(r) ==
    /\ up[r] /\ ent[r].pc = "forget"
    /\ cap' = [cap EXCEPT ![r] = "none"]
    /\ Leave(r)
    /\ UNCHANGED <<lease, data, up, draining, hold, rmq, run, ren, loss, rec, dr>>

EntryStep(r) ==
    \/ AcquireRefused(r) \/ AcquireKept(r) \/ AcquireWon(r) \/ AcquireFailed(r) \/ Install(r)
    \/ BeginPrompt(r) \/ BeginApprove(r) \/ BeginAsk(r) \/ BeginMutation(r) \/ BeginClose(r)
    \/ SaveAdmitted(r) \/ SaveFailed(r) \/ Launch(r) \/ LaunchFailed(r) \/ Cleanup(r)
    \/ CloseLocal(r) \/ DropLease(r) \/ Release(r) \/ ForgetCapability(r)

-----------------------------------------------------------------------------
(* The registered run and its relay *)

\* The engine asks for permission, or a live ask is answered (resolveLiveRunAsk)
\* and the relay clears runState.awaiting.
RunAsks(r) ==
    /\ up[r] /\ run[r].ph = "active" /\ run[r].st = "running" /\ ~run[r].stop
    /\ run' = [run EXCEPT ![r].st = "awaiting"]
    /\ UNCHANGED <<lease, data, up, draining, hold, cap, rmq, ent, ren, loss, rec, dr>>

RunAnswered(r) ==
    /\ up[r] /\ run[r].ph = "active" /\ run[r].st = "awaiting" /\ ~run[r].stop
    /\ valid[r] /\ ~draining[r] /\ ~RunSaving(r)
    /\ run' = [run EXCEPT ![r].st = "running", ![r].parked = FALSE]
    /\ UNCHANGED <<lease, data, up, draining, hold, cap, rmq, ent, ren, loss, rec, dr>>

\* The run ends by itself or because it was cancelled.
RunEnds(r) ==
    /\ up[r] /\ run[r].ph = "active" /\ ~RunSaving(r)
    /\ run[r].stop \/ run[r].st = "running"
    /\ run' = [run EXCEPT ![r] = [@ EXCEPT !.ph = "ended", !.parked = FALSE,
                                           !.st = IF run[r].stop THEN "cancelled" ELSE "done"]]
    /\ UNCHANGED <<lease, data, up, draining, hold, cap, rmq, ent, ren, loss, rec, dr>>

\* The engine's or the relay's save of the run's aggregate is admitted.  The relay
\* respects preserveDurable; the engine's terminal save only meets the capability.
RunSave(r) ==
    /\ up[r] /\ run[r].ph \in {"active", "ended"} /\ ~RunSaving(r)
    /\ run[r].preserve => run[r].ph = "ended"
    /\ SaveAllowed(r) /\ Room
    /\ writes' = writes \cup {[by |-> r, src |-> "run", base |-> run[r].base, st |-> run[r].st,
                               fresh |-> run[r].fresh]}
    /\ UNCHANGED <<lease, store, up, draining, hold, cap, rmq, run, ent, ren, loss, rec, dr>>

\* FinishRun: the relay has drained and removes the run.
FinishRun(r) ==
    /\ up[r] /\ run[r].ph = "ended" /\ ~RunSaving(r)
    /\ RemoveRun(r)
    /\ DrainKeeps(r, run[r])
    /\ run' = [run EXCEPT ![r] = NoRun]
    /\ UNCHANGED <<lease, data, up, draining, cap, ent, ren, loss, rec>>

RunStep(r) == RunAsks(r) \/ RunAnswered(r) \/ RunEnds(r) \/ RunSave(r) \/ FinishRun(r)

-----------------------------------------------------------------------------
(* Renewal, loss, and the tombstone sweep *)

\* renewLoop: Renew succeeds.
RenewOk(r) ==
    /\ up[r] /\ valid[r] /\ lapsed[Sid]
    /\ holder[Sid] = r /\ token[Sid] = tok[r]
    /\ L!Refresh(Sid) /\ ~lapsed'[Sid]
    /\ UNCHANGED <<data, up, draining, hold, cap, rmq, run, ent, ren, loss, rec, dr>>

\* renewLoop: Renew reports ErrLeaseHeld (another holder, or a bare expiry), or
\* keeps failing until the expiry is too close.  The call may return long after
\* the hold it was made for is gone.
RenewFailed(r) ==
    /\ up[r] /\ valid[r]
    /\ \/ "fault" \in Ops
       \/ holder[Sid] # r \/ token[Sid] # tok[r] \/ lapsed[Sid]
    /\ ren' = [ren EXCEPT ![r] = @ \cup {held[r]}]
    /\ UNCHANGED <<lease, data, up, draining, hold, cap, rmq, run, ent, loss, rec, dr>>

\* The generation fence: the hold the renewer was started for is the current one.
\* (ById: a variant that looks the hold up by session id only.)
StillCurrentById(r, g) == valid[r]
StillCurrent(r, g) == held[r] = g /\ valid[r]

\* MutationCapability.Invalidate on loss.
LostCapability(r) == "no"

\* onLeaseLost under leaseLossMu and s.mu.
LossDeclared(r, g) ==
    /\ up[r] /\ g \in ren[r] /\ LossMuFree(r)
    /\ ren' = [ren EXCEPT ![r] = @ \ {g}]
    /\ IF StillCurrent(r, g)
       THEN LET keep == run[r] # NoRun /\ run[r].parked
            IN /\ valid' = [valid EXCEPT ![r] = FALSE]
               /\ lost' = [lost EXCEPT ![r] = TRUE]
               /\ cap' = [cap EXCEPT ![r] = LostCapability(r)]
               /\ held' = [held EXCEPT ![r] = IF keep THEN @ ELSE 0]
               /\ loss' = [loss EXCEPT ![r] = [pc |-> "cancel", tok |-> tok[r], keep |-> keep,
                                               had |-> run[r] # NoRun]]
               /\ UNCHANGED <<tok, ngen>>
       ELSE UNCHANGED <<hold, cap, loss>>
    /\ UNCHANGED <<lease, data, up, draining, rmq, run, ent, rec, dr>>

\* onLeaseLost: cancelRegisteredRunState.  A save of the engine, which does not take
\* persistMu, may be on its way meanwhile.
LossCancels(r) ==
    /\ up[r] /\ loss[r].pc = "cancel"
    /\ run' = IF loss[r].had /\ run[r] # NoRun THEN [run EXCEPT ![r].stop = TRUE] ELSE run
    /\ loss' = [loss EXCEPT ![r] = IF loss[r].keep THEN NoLoss
                                   ELSE [pc |-> "release", tok |-> loss[r].tok, keep |-> FALSE,
                                         had |-> loss[r].had]]
    /\ UNCHANGED <<lease, data, up, draining, hold, cap, rmq, ent, ren, rec, dr>>

\* onLeaseLost: Release of the lost lease (a no-op when another owner has it).
LossReleases(r) ==
    /\ up[r] /\ loss[r].pc = "release"
    /\ BackendRelease(r, loss[r].tok)
    /\ loss' = [loss EXCEPT ![r] = NoLoss]
    /\ UNCHANGED <<data, up, draining, hold, cap, rmq, run, ent, ren, rec, dr>>

\* ReconcileLeaseLossTombstone: the sweep finds a tombstone ...
ReconcileStarts(r) ==
    /\ "reconcile" \in Ops /\ up[r] /\ LossMuFree(r) /\ lost[r] /\ ~valid[r]
    /\ rec' = [rec EXCEPT ![r] = "trial"]
    /\ UNCHANGED <<lease, data, up, draining, hold, cap, rmq, run, ent, ren, loss, dr>>

\* ... leaseTrial acquires under the trial owner ...
TrialFree(r) ==
    /\ up[r] /\ rec[r] = "trial"
    /\ BackendGrant(Trial(r))
    /\ rec' = [rec EXCEPT ![r] = "release"]
    /\ UNCHANGED <<data, up, draining, hold, cap, rmq, run, ent, ren, loss, dr>>

\* ... or is refused, or gets no clear answer ...
TrialHeld(r) ==
    /\ up[r] /\ rec[r] = "trial"
    /\ \/ "fault" \in Ops
       \/ holder[Sid] \notin {NoOwner, Trial(r)} /\ ~lapsed[Sid]
       \/ token[Sid] >= MaxToken
    /\ rec' = [rec EXCEPT ![r] = "off"]
    /\ UNCHANGED <<lease, data, up, draining, hold, cap, rmq, run, ent, ren, loss, dr>>

\* ... releases the trial ...
TrialReleases(r) ==
    /\ up[r] /\ rec[r] = "release"
    /\ BackendRelease(Trial(r), token[Sid])
    /\ rec' = [rec EXCEPT ![r] = "check"]
    /\ UNCHANGED <<data, up, draining, hold, cap, rmq, run, ent, ren, loss, dr>>

\* What stops the sweep from clearing the tombstone: a valid hold.  (AnyHold: a
\* variant that stops at the invalid hold of a parked run as well.)
ReacquiredAnyHold(r) == held[r] # 0
Reacquired(r) == valid[r]

\* ... and, if nobody re-acquired meanwhile, clears the tombstone and the stale
\* invalid hold.
ReconcileClears(r) ==
    /\ up[r] /\ rec[r] = "check"
    /\ IF lost[r] /\ ~Reacquired(r)
       THEN /\ lost' = [lost EXCEPT ![r] = FALSE]
            /\ held' = [held EXCEPT ![r] = 0]
       ELSE UNCHANGED <<lost, held>>
    /\ rec' = [rec EXCEPT ![r] = "off"]
    /\ UNCHANGED <<lease, data, up, draining, valid, tok, ngen, cap, rmq, run, ent, ren, loss, dr>>

LossWork(r) == \/ \E g \in ren[r] : LossDeclared(r, g)
               \/ LossCancels(r) \/ LossReleases(r)

Sweep(r) == \/ ReconcileStarts(r) \/ TrialFree(r) \/ TrialHeld(r) \/ TrialReleases(r)
            \/ ReconcileClears(r)

-----------------------------------------------------------------------------
(* Graceful drain, crash *)

\* Drain: close admission; a provisional run is cancelled.
DrainGate(r) ==
    /\ "drain" \in Ops /\ up[r] /\ dr[r].pc = "off"
    /\ draining' = [draining EXCEPT ![r] = TRUE]
    /\ run' = IF run[r].ph = "prov" THEN [run EXCEPT ![r].stop = TRUE] ELSE run
    /\ dr' = [dr EXCEPT ![r].pc = "gate"]
    /\ UNCHANGED <<lease, data, up, hold, cap, rmq, ent, ren, loss, rec>>

\* The holds without a run that drain hands off at once.  (None: a variant that
\* only looks at runs.)
LeaseOnlyNone(r) == FALSE
LeaseOnly(r) == held[r] # 0

\* snapshotDrainState: a registered run is to be waited for, and preserved when
\* its awaiting snapshot is the durable one and nothing else signalled it; a
\* hold without a run is released at once.
DrainSnapshot(r) ==
    /\ up[r] /\ dr[r].pc = "gate" /\ ~RunSaving(r)
    /\ IF run[r] = NoRun
       THEN /\ dr' = [dr EXCEPT ![r].pc = IF LeaseOnly(r) THEN "drop" ELSE "done"]
            /\ UNCHANGED run
       ELSE /\ dr' = [dr EXCEPT ![r].pc = "cancel"]
            /\ run' = [run EXCEPT ![r].preserve = run[r].parked /\ ~run[r].stop]
    /\ UNCHANGED <<lease, data, up, draining, hold, cap, rmq, ent, ren, loss, rec>>

\* MutationCapability.Invalidate of a preserved run.  (Kept: a variant that only
\* cancels it.)
PreservedCapabilityKept(r) == cap[r]
PreservedCapability(r) == "no"

\* GracefulDrain: deny the terminal save of a preserved run, then cancel it.
DrainCancels(r) ==
    /\ up[r] /\ dr[r].pc = "cancel"
    /\ dr' = [dr EXCEPT ![r].pc = "wait", ![r].flag = run[r] # NoRun /\ run[r].preserve]
    /\ IF run[r] = NoRun
       THEN UNCHANGED <<cap, run>>
       ELSE /\ cap' = [cap EXCEPT ![r] = IF run[r].preserve THEN PreservedCapability(r) ELSE @]
            /\ run' = [run EXCEPT ![r].stop = TRUE]
    /\ UNCHANGED <<lease, data, up, draining, hold, rmq, ent, ren, loss, rec>>

\* settle: the run is gone; save its aggregate unless it is preserved or the
\* lease is, then release.  (The save is taken to reach the store: one that fails is
\* logged and the release follows; one that timed out is taken not to land later.)
DrainSettles(r) ==
    /\ up[r] /\ dr[r].pc = "wait" /\ run[r] = NoRun
    /\ IF ~dr[r].flag /\ valid[r] /\ SaveAllowed(r) /\ Room
       THEN /\ writes' = writes \cup {[by |-> r, src |-> "drain", base |-> dr[r].base,
                                       st |-> dr[r].st, fresh |-> dr[r].fresh]}
            /\ dr' = [dr EXCEPT ![r].pc = "saving"]
       ELSE /\ dr' = [dr EXCEPT ![r].pc = "drop"]
            /\ UNCHANGED writes
    /\ UNCHANGED <<lease, store, up, draining, hold, cap, rmq, run, ent, ren, loss, rec>>

\* MutationCapability.Invalidate in retainLeaseForTTL.  (Kept: a variant that only
\* stops renewing.)
RetainedCapabilityKept(r) == cap[r]
RetainedCapability(r) == IF valid[r] THEN "no" ELSE cap[r]

\* The drain deadline: retainLeaseForTTL invalidates the hold without releasing
\* it, so that the run which did not settle keeps others out until the TTL.
DrainTimesOut(r) ==
    /\ "deadline" \in Ops /\ up[r] /\ dr[r].pc = "wait" /\ run[r] # NoRun
    /\ dr' = [dr EXCEPT ![r].pc = "done"]
    /\ valid' = [valid EXCEPT ![r] = FALSE]
    /\ cap' = [cap EXCEPT ![r] = RetainedCapability(r)]
    /\ UNCHANGED <<lease, data, up, draining, held, tok, ngen, lost, rmq, run, ent, ren, loss, rec>>

\* releaseLease called by drain.
DrainDrops(r) ==
    /\ up[r] /\ dr[r].pc = "drop"
    /\ ReleaseLocal(r)
    /\ dr' = [dr EXCEPT ![r] = [@ EXCEPT !.pc = IF valid[r] THEN "release" ELSE "done",
                                         !.tok = tok[r], !.flag = run[r] = NoRun]]
    /\ UNCHANGED <<lease, data, up, draining, rmq, ent, ren, loss, rec>>

DrainReleases(r) ==
    /\ up[r] /\ dr[r].pc = "release"
    /\ BackendRelease(r, dr[r].tok)
    /\ dr' = [dr EXCEPT ![r].pc = IF dr[r].flag THEN "forget" ELSE "done"]
    /\ UNCHANGED <<data, up, draining, hold, cap, rmq, run, ent, ren, loss, rec>>

DrainForgets(r) ==
    /\ up[r] /\ dr[r].pc = "forget"
    /\ cap' = [cap EXCEPT ![r] = "none"]
    /\ dr' = [dr EXCEPT ![r].pc = "done"]
    /\ UNCHANGED <<lease, data, up, draining, hold, rmq, run, ent, ren, loss, rec>>

DrainWork(r) ==
    \/ DrainSnapshot(r) \/ DrainCancels(r) \/ DrainSettles(r) \/ DrainTimesOut(r)
    \/ DrainDrops(r) \/ DrainReleases(r) \/ DrainForgets(r)

\* The process dies.  What it had sent to the store may still land.  A restarted
\* process has a new owner identity: it is another member of Replicas.
Crash(r) ==
    /\ "crash" \in Ops /\ up[r]
    /\ up' = [up EXCEPT ![r] = FALSE]
    /\ held' = [held EXCEPT ![r] = 0]
    /\ valid' = [valid EXCEPT ![r] = FALSE]
    /\ lost' = [lost EXCEPT ![r] = FALSE]
    /\ cap' = [cap EXCEPT ![r] = "none"]
    /\ rmq' = [rmq EXCEPT ![r] = 0]
    /\ run' = [run EXCEPT ![r] = NoRun]
    /\ ent' = [ent EXCEPT ![r] = NoEntry]
    /\ ren' = [ren EXCEPT ![r] = {}]
    /\ loss' = [loss EXCEPT ![r] = NoLoss]
    /\ rec' = [rec EXCEPT ![r] = "off"]
    /\ dr' = [dr EXCEPT ![r] = NoDrain]
    /\ UNCHANGED <<lease, data, draining, tok, ngen>>

Next == \/ Expire
        \/ \E w \in writes : Land(w)
        \/ \E r \in Replicas :
              \/ \E o \in EntryOps : Enter(r, o)
              \/ EntryStep(r) \/ RemoveCapability(r)
              \/ RunStep(r) \/ RenewOk(r) \/ RenewFailed(r) \/ LossWork(r) \/ Sweep(r)
              \/ DrainGate(r) \/ DrainWork(r) \/ Crash(r)

Spec == Init /\ [][Next]_vars

\* Go schedules every goroutine that can run: a transaction, a loss handler and
\* a drain go on, the sweep ticks, a store call returns,
\* and time passes.  Nothing forces a run to end, a client to call, a Renew to
\* fail or a process to stop.
Fairness ==
    /\ WF_vars(Expire)
    /\ WF_vars(\E w \in writes : Land(w))
    /\ \A r \in Replicas :
          /\ WF_vars(EntryStep(r)) /\ WF_vars(LossWork(r)) /\ WF_vars(Sweep(r))
          /\ WF_vars(DrainWork(r)) /\ WF_vars(RemoveCapability(r))

FairSpec == Spec /\ Fairness

\* What GracefulDrain waits for within its deadline: a cancelled run ends and its
\* relay finishes it.
RunsSettle ==
    \A r \in Replicas : WF_vars(RunEnds(r) /\ run[r].stop) /\ WF_vars(FinishRun(r))

DrainSpec == FairSpec /\ RunsSettle

-----------------------------------------------------------------------------
(* Properties *)

\* Every variable keeps the shape of the Service field it models.
TypeOK ==
    /\ holder \in [{Sid} -> Replicas \cup {Trial(r) : r \in Replicas} \cup {NoOwner}]
    /\ token \in [{Sid} -> Nat] /\ lapsed \in [{Sid} -> BOOLEAN]
    /\ store \in [ver: Nat, st: States]
    /\ writes \subseteq Write
    /\ up \in [Replicas -> BOOLEAN] /\ draining \in [Replicas -> BOOLEAN]
    /\ held \in [Replicas -> Nat] /\ valid \in [Replicas -> BOOLEAN]
    /\ tok \in [Replicas -> Nat] /\ ngen \in [Replicas -> Nat]
    /\ lost \in [Replicas -> BOOLEAN]
    /\ cap \in [Replicas -> Capability]
    /\ rmq \in [Replicas -> 0..MaxRemovers]
    /\ run \in [Replicas -> Run \cup {NoRun}]
    /\ ent \in [Replicas -> Entry]
    /\ ren \in [Replicas -> SUBSET Nat]
    /\ loss \in [Replicas -> Loss]
    /\ rec \in [Replicas -> RecPc]
    /\ dr \in [Replicas -> Drain]

\* A hold a process believes in is the backend's live record, so two processes
\* never believe at once (heldLease.valid against the lease backend).  Needs the
\* timing assumption.
OwnersAgree ==
    \A r \in Replicas :
        valid[r] => holder[Sid] = r /\ token[Sid] = tok[r] /\ ~lapsed[Sid]

\* Why OwnersAgree holds under Timely, unless SettleIfStale, which acquires past a
\* drain and past a tombstone, meets one of them: while a release of this process is
\* still to be sent, the process believes in no hold and is granted none.
Owns(r, t) == holder[Sid] = r /\ token[Sid] = t /\ ~lapsed[Sid]

Reliance(r) ==
    /\ valid[r] => up[r] /\ Owns(r, tok[r])
    /\ ent[r].pc = "install" => up[r] /\ Owns(r, ent[r].tok)
    /\ ent[r].pc = "release" => ~valid[r]
    /\ ent[r].op = "settle" => "settle" \in Ops
    /\ draining[r] => "drain" \in Ops
    /\ dr[r].pc # "off" => draining[r]
    /\ dr[r].pc = "release" => ~valid[r] /\ ent[r].pc # "install"
    /\ ren[r] # {} \/ loss[r].pc # "off" => "fault" \in Ops
    /\ loss[r].pc # "off" => lost[r] /\ ~valid[r] /\ ent[r].pc # "install" /\ rec[r] = "off"

AgreeInv ==
    /\ \A r \in Replicas : Reliance(r)
    /\ \A w \in writes : w.src = "drain" => draining[w.by]

\* The capability is granted only while the process holds the lease, and never
\* behind a lost-ownership tombstone: whatever sequence of losses, sweeps,
\* closes and drains precedes it, an admitted save had a hold behind it
\* (SessionMutationCapability against heldLeases and lostOwnership).
CapabilityNeedsHold ==
    \A r \in Replicas : cap[r] = "yes" => valid[r] /\ ~lost[r]

\* What makes CapabilityNeedsHold inductive: a valid hold is a recorded one, and
\* an entry about to install a hold found none and, unless it is SettleIfStale,
\* no tombstone; both can only appear through a hold, which nobody else installs.
InstallClean ==
    \A r \in Replicas :
        /\ valid[r] => held[r] # 0
        /\ ent[r].pc = "install" => ~valid[r] /\ (ent[r].op = "settle" \/ ~lost[r])

\* A run entry in progress owns the provisional run it registered, and nothing
\* else gets as far as launching.
EntryOwnsRun ==
    \A r \in Replicas : /\ ent[r].op \in RunOps => run[r].ph = "prov"
                        /\ ent[r].pc = "launch" => ent[r].op \in RunOps

HoldInv == TypeOK /\ CapabilityNeedsHold /\ InstallClean /\ EntryOwnsRun

\* No save of an aggregate that was read under the lease overwrites a save it has
\* not seen: the store is unfenced, the lease discipline is all there is.
LeasedNoLostUpdate == \A w \in writes : w.fresh => w.base = store.ver

\* The same of every save, those of pre-lease snapshots included.
NoLostUpdate == \A w \in writes : w.base = store.ver

\* A verdict is applied to the session as it is stored at that moment: when
\* resolvePersistedRunAsk (op "ask") is ready to launch, no other replica has
\* advanced the session since the snapshot it validated.
Current(r, o) ==
    ent[r].pc = "launch" /\ ent[r].op = o /\ MayLaunch(r) => ent[r].base = store.ver
AskIsCurrent == \A r \in Replicas : Current(r, "ask")

\* A run entry by prompt launches on the authoritative snapshot
\* (startRunContentLocked).
PromptIsCurrent == \A r \in Replicas : Current(r, "prompt")

\* resumeFromAwaiting applies a verdict only to the ask as it is stored.
ApproveIsCurrent == \A r \in Replicas : Current(r, "approve")

\* A run saves only under the hold it was launched under: once its lease was
\* lost, no later grant to the same process revives it.
SavesUnderOwnHold ==
    [][\A r \in Replicas : RunSave(r) => held[r] = run[r].gen]_vars

\* Why SavesUnderOwnHold holds where only operations that find no run, or replace it,
\* acquire the lease: no hold is installed while a launched run is registered.
Launched(r) == run[r].ph \in {"active", "ended"}

GuardInv ==
    \A r \in Replicas :
        /\ Launched(r) /\ valid[r] => held[r] = run[r].gen
        /\ ent[r].pc \in {"acquire", "install"} => ~Launched(r)

\* A launched run whose hold is intact can save: nobody else's teardown takes the
\* capability away from under it (SessionMutationCapability.Remove).
RunHasCapability ==
    \A r \in Replicas :
        run[r].ph = "active" /\ run[r].gen = held[r] /\ valid[r] /\ ~draining[r] => cap[r] = "yes"

\* A hold ends only by its own doing: a failing Renew of an earlier generation
\* never invalidates the present one (renewLoop, onLeaseLost).
OnlyOwnRenewerEndsHold ==
    [][\A r \in Replicas : ~lost[r] /\ lost'[r] => held[r] \in ren[r]]_vars

\* While drain hands over a parked ask, the stored session stays awaiting until
\* the lease is released (preserveDurable).
HandoffPreserved ==
    \A r \in Replicas :
        run[r].ph \in {"active", "ended"} /\ run[r].preserve /\ valid[r] => store.st = "awaiting"

\* Why LeasedNoLostUpdate, AskIsCurrent and HandoffPreserved hold under Timely, where
\* only prompt, approve, ask and end enter and no call fails.  The sender of a save waits
\* for it; ...
Waits(r) ==
    \A w \in writes : w.by = r /\ up[r] => \/ w.src = "run" /\ Launched(r)
                                           \/ w.src = "ent" /\ ent[r].pc = "saving"
                                           \/ w.src = "drain" /\ dr[r].pc = "saving"

\* ... an entry, the run and the drain take turns; ...
Turns(r) ==
    /\ ~lost[r] /\ rec[r] = "off"
    /\ \/ ent[r].op = "none" /\ ent[r].pc = "off"
       \/ /\ ent[r].op = "end" /\ run[r] = NoRun
          /\ ent[r].pc \in {"acquire", "install", "leased", "lock", "drop", "release", "forget"}
       \/ /\ ent[r].op \in RunOps
          /\ ent[r].pc \in {"acquire", "install", "leased", "launch", "cleanup"}
       \/ ent[r].op = "prompt" /\ ent[r].pc \in {"save", "saving"}
    /\ dr[r].pc \in {"cancel", "wait", "saving"} /\ ent[r].op = "end" => ent[r].pc = "acquire"
    /\ dr[r].pc \in {"saving", "drop", "release", "forget"} \/ dr[r].fresh => run[r] = NoRun
    /\ dr[r].fresh => dr[r].pc # "off"

\* ... what was read under the present hold is what the store has; ...
Fresh(r) ==
    /\ ent[r].pc = "install" => ~ent[r].fresh
    /\ ent[r].pc = "launch" /\ ent[r].op = "ask" => ent[r].fresh
    /\ valid[r] =>
          /\ Launched(r) /\ run[r].fresh => run[r].base = store.ver
          /\ ent[r].op \in RunOps /\ ent[r].fresh => ent[r].base = store.ver
          /\ dr[r].pc \in {"cancel", "wait"} /\ dr[r].fresh => dr[r].base = store.ver

\* ... a parked run has saved its ask, and nothing overwrites that once the drain has
\* decided to preserve it; ...
Parked(r) ==
    Launched(r) =>
        /\ run[r].ph = "ended" => run[r].st # "awaiting"
        /\ run[r].parked => run[r].ph = "active" /\ run[r].st = "awaiting"
        /\ run[r].parked /\ valid[r] => store.st = "awaiting"
        /\ \A w \in writes :
              w.by = r /\ w.src = "run" =>
                  /\ ~run[r].preserve
                  /\ run[r].parked => w.st = "awaiting"
                  /\ w.st = "awaiting" => run[r].ph = "active" /\ run[r].st = "awaiting"
        /\ run[r].preserve /\ valid[r] =>
              /\ store.st = "awaiting"
              /\ \/ /\ dr[r].pc = "cancel" /\ ~run[r].stop
                    /\ run[r].ph = "active" /\ run[r].st = "awaiting"
                 \/ dr[r].pc = "wait" /\ cap[r] # "yes"

\* ... and a save in flight is the only one, and its sender holds the lease.
HandoverInv ==
    /\ \A w \in writes : holder[Sid] = w.by /\ ~lapsed[Sid]
    /\ \A w, v \in writes : w = v
    /\ LeasedNoLostUpdate
    /\ \A r \in Replicas : Waits(r) /\ Turns(r) /\ Fresh(r) /\ Parked(r)

\* A replica that drains within its deadline lets go explicitly: the session
\* becomes acquirable by others, whatever its run and the entries in flight were
\* doing when the drain began (GracefulDrain).
DrainLetsGo ==
    \A r \in Replicas : draining[r] ~> (holder[Sid] # r \/ lapsed[Sid])

\* A lost-ownership tombstone does not outlive its reason: it is cleared, unless
\* another owner has the session (ReconcileLeaseLossTombstone).
TombstoneClears ==
    \A r \in Replicas :
        lost[r] ~> (~lost[r] \/ (holder[Sid] \notin {NoOwner, r, Trial(r)} /\ ~lapsed[Sid]))
=============================================================================
