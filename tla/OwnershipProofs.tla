--------------------------- MODULE OwnershipProofs ---------------------------
(***************************************************************************)
(* Proofs about lease ownership for every set of replicas and every bound. *)
(* For every choice of operations and faults, timely or not: the types,    *)
(* that the mutation capability never outlives the hold behind it, and     *)
(* that only its own renewer ends a hold.  Without load and close: a run   *)
(* saves only under the hold it was launched under.  With timely leases:   *)
(* who believes in a hold is the backend's holder.  With timely leases and *)
(* calls that do not fail, for prompt, approve, ask and end, drains and    *)
(* crashes: no lost update, no verdict on a stale ask, and a parked ask    *)
(* survives the handover.  The invariants behind them are AgreeInv,        *)
(* GuardInv and HandoverInv of module Ownership.                           *)
(***************************************************************************)
EXTENDS Ownership, TLAPS

USE BoundsAssumption, InitialAssumption

LeaseType ==
    /\ holder \in [{Sid} -> Replicas \cup {Trial(r) : r \in Replicas} \cup {NoOwner}]
    /\ token \in [{Sid} -> Nat] /\ lapsed \in [{Sid} -> BOOLEAN]
EntType == ent \in [Replicas -> Entry]
RunType == run \in [Replicas -> Run \cup {NoRun}]
DrType == dr \in [Replicas -> Drain]
LossType == loss \in [Replicas -> Loss]
WritesType == writes \subseteq Write
CapType == cap \in [Replicas -> Capability]
HoldType ==
    /\ held \in [Replicas -> Nat] /\ valid \in [Replicas -> BOOLEAN]
    /\ tok \in [Replicas -> Nat] /\ ngen \in [Replicas -> Nat]
    /\ lost \in [Replicas -> BOOLEAN]
OtherType ==
    /\ store \in [ver: Nat, st: States]
    /\ up \in [Replicas -> BOOLEAN] /\ draining \in [Replicas -> BOOLEAN]
    /\ rmq \in [Replicas -> 0..MaxRemovers]
    /\ ren \in [Replicas -> SUBSET Nat]
    /\ rec \in [Replicas -> RecPc]

Core == CapabilityNeedsHold /\ InstallClean /\ EntryOwnsRun

\* TypeOK in groups: a step's proof opens only the groups it disturbs.
LEMMA TypeGroups ==
  TypeOK <=> /\ LeaseType /\ EntType /\ RunType /\ DrType /\ LossType
             /\ WritesType /\ CapType /\ HoldType /\ OtherType
  BY DEF TypeOK, LeaseType, EntType, RunType, DrType, LossType, WritesType, CapType,
         HoldType, OtherType

LEMMA TypeGroupsPrime ==
  /\ LeaseType' /\ EntType' /\ RunType' /\ DrType' /\ LossType'
  /\ WritesType' /\ CapType' /\ HoldType' /\ OtherType'
  => TypeOK'
  BY DEF TypeOK, LeaseType, EntType, RunType, DrType, LossType, WritesType, CapType,
         HoldType, OtherType

\* No run, no transaction, no loss in hand, no drain.
LEMMA Blank ==
  /\ NoRun.ph = "none"
  /\ NoEntry.pc = "off" /\ NoEntry.op = "none"
  /\ NoLoss.pc = "off"
  /\ NoDrain.pc = "off" /\ ~NoDrain.fresh
  BY DEF NoRun, NoEntry, NoLoss, NoDrain

LEMMA InitParts ==
  ASSUME Init, NEW r \in Replicas
  PROVE  /\ writes = {} /\ up[r] /\ ~draining[r]
         /\ held[r] = 0 /\ ~valid[r] /\ ~lost[r] /\ cap[r] = "none" /\ ren[r] = {}
         /\ run[r] = NoRun /\ ent[r] = NoEntry /\ loss[r] = NoLoss /\ dr[r] = NoDrain
         /\ rec[r] = "off"
  BY Zenon DEF Init

\* The empty system satisfies the inductive invariant.
LEMMA InitHoldInv == Init => HoldInv
<1> SUFFICES ASSUME Init PROVE HoldInv
  OBVIOUS
<1>1. LeaseType /\ RunType /\ WritesType /\ CapType /\ HoldType /\ OtherType
  BY DEF Init, L!AInit, LeaseType, RunType, WritesType, CapType, HoldType, OtherType,
         Capability, RecPc, MaxRemovers, States
<1>2. EntType /\ DrType /\ LossType
  BY DEF Init, EntType, DrType, LossType, Entry, NoEntry, EntryPc, Drain, NoDrain, Loss, NoLoss,
         States
<1>3. CapabilityNeedsHold /\ InstallClean /\ EntryOwnsRun
  BY DEF Init, CapabilityNeedsHold, InstallClean, EntryOwnsRun, NoEntry, RunOps
<1> QED
  BY <1>1, <1>2, <1>3, TypeGroups DEF HoldInv

-----------------------------------------------------------------------------
(* What the shared pieces preserve *)

LEMMA BackendGrantType ==
  ASSUME LeaseType, NEW r \in Replicas, NEW o \in {r, Trial(r)}, BackendGrant(o)
  PROVE  LeaseType'
<1>1. o \in Replicas \cup {Trial(q) : q \in Replicas} \cup {NoOwner}
  OBVIOUS
<1>2. CASE L!Takeover(Sid, o)
  BY <1>1, <1>2 DEF L!Takeover, LeaseType
<1>3. CASE L!Refresh(Sid)
  BY <1>3 DEF L!Refresh, LeaseType
<1> QED
  BY <1>2, <1>3 DEF BackendGrant

LEMMA BackendReleaseType ==
  ASSUME LeaseType, NEW o, NEW t, BackendRelease(o, t)
  PROVE  LeaseType'
<1>1. CASE L!Relinquish(Sid)
  BY <1>1 DEF L!Relinquish, LeaseType
<1>2. CASE UNCHANGED lease
  BY <1>2 DEF LeaseType, lease
<1> QED
  BY <1>1, <1>2 DEF BackendRelease

\* The program counters and states the actions name are of their types.
LEMMA Names ==
  /\ {"off", "acquire", "install", "leased", "save", "saving", "launch", "cleanup",
      "lock", "drop", "release", "forget"} \subseteq EntryPc
  /\ {"idle", "running", "awaiting", "done", "cancelled"} \subseteq States
  /\ EntryOps \subseteq EntryOps \cup {"none"}
  BY DEF EntryPc, States

LEMMA GotoType ==
  ASSUME EntType, NEW r \in Replicas, NEW pc \in EntryPc, Goto(r, pc)
  PROVE  EntType'
  BY DEF Goto, EntType, Entry

LEMMA LeaveType ==
  ASSUME EntType, NEW r \in Replicas, Leave(r)
  PROVE  EntType'
<1>1. NoEntry \in Entry
  BY DEF NoEntry, Entry, EntryPc, States
<1> QED
  BY <1>1 DEF Leave, EntType

LEMMA FailType ==
  ASSUME EntType, NEW r \in Replicas, Fail(r)
  PROVE  EntType'
  BY Names, GotoType, LeaveType DEF Fail

\* A registered run is a full runState.
LEMMA RegisteredRun ==
  ASSUME RunType, NEW r \in Replicas, run[r] # NoRun \/ run[r].ph # "none"
  PROVE  run[r] \in Run
  BY DEF RunType, NoRun

\* Cancelling a registered run.
LEMMA StopType ==
  ASSUME RunType, NEW r \in Replicas, run[r] # NoRun, run' = [run EXCEPT ![r].stop = TRUE]
  PROVE  RunType'
<1> DEFINE q == [run[r] EXCEPT !.stop = TRUE]
<1>1. q \in Run
  BY RegisteredRun, Zenon DEF Run
<1>2. run' = [run EXCEPT ![r] = q]
  BY DEF RunType
<1> HIDE DEF q
<1> QED
  BY <1>1, <1>2, Zenon DEF RunType

LEMMA RemoveRunType ==
  ASSUME HoldType, OtherType, NEW r \in Replicas, RemoveRun(r)
  PROVE  HoldType' /\ rmq' \in [Replicas -> 0..MaxRemovers]
<1>1. HoldType'
  BY DEF HoldType, RemoveRun
<1>2. rmq \in [Replicas -> 0..MaxRemovers]
  BY DEF OtherType
<1> QED
  BY <1>1, <1>2 DEF RemoveRun, MaxRemovers

LEMMA ReleaseLocalType ==
  ASSUME HoldType, CapType, RunType, NEW r \in Replicas, ReleaseLocal(r)
  PROVE  HoldType' /\ CapType' /\ RunType'
<1>1. HoldType'
  BY DEF ReleaseLocal, HoldType
<1>2. CapType'
  BY DEF ReleaseLocal, CapType, Capability
<1>3. RunType'
  <2>1. CASE run[r] = NoRun
    BY <2>1 DEF ReleaseLocal, RunType
  <2>2. CASE run[r] # NoRun
    BY <2>2, RegisteredRun, SMTT(30) DEF ReleaseLocal, RunType, HoldType, Run
  <2> QED
    BY <2>1, <2>2
<1> QED
  BY <1>1, <1>2, <1>3

LEMMA DrainKeepsType ==
  ASSUME DrType, NEW r \in Replicas, NEW a, a.base \in Nat, a.st \in States,
         a.fresh \in BOOLEAN, DrainKeeps(r, a)
  PROVE  DrType'
<1> DEFINE d == [dr[r] EXCEPT !.base = a.base, !.st = a.st, !.fresh = a.fresh]
<1>1. d \in Drain
  BY Zenon DEF DrType, Drain
<1>2. CASE dr[r].pc \in {"cancel", "wait"}
  <2>1. dr' = [dr EXCEPT ![r] = d]
    BY <1>2 DEF DrainKeeps
  <2> QED
    BY <1>1, <2>1 DEF DrType
<1>3. CASE dr[r].pc \notin {"cancel", "wait"}
  BY <1>3 DEF DrainKeeps, DrType
<1> QED
  BY <1>2, <1>3

-----------------------------------------------------------------------------
(* Every action keeps the types *)

USE TypeGroups

LEMMA ExpireType ==
  ASSUME TypeOK, Expire
  PROVE  TypeOK'
<1>1. LeaseType'
  BY DEF Expire, L!Lapse, LeaseType
<1> QED
  BY <1>1 DEF Expire, L!Lapse, TypeOK, lease, data, hold, LeaseType

LEMMA LandType ==
  ASSUME TypeOK, NEW w \in writes, Land(w)
  PROVE  TypeOK'
<1>1. w \in Write
  BY DEF Land, WritesType
<1>2. OtherType' /\ WritesType'
  BY <1>1 DEF Land, OtherType, WritesType, Write
<1>3. RunType'
  <2>1. CASE run[w.by] = NoRun
    BY <2>1, Zenon DEF Land, RunType, NoRun
  <2>2. CASE run[w.by] # NoRun
    <3>1. run[w.by] \in Run /\ store.ver + 1 \in Nat
      BY <2>2, <1>1, RegisteredRun DEF OtherType, Write
    <3> QED
      BY <3>1, <1>1, Zenon DEF Land, RunType, Run
  <2> QED
    BY <2>1, <2>2
<1>4. EntType'
  <2>1. store.ver + 1 \in Nat /\ w.by \in Replicas
    BY <1>1 DEF OtherType, Write
  <2> QED
    BY <2>1, Names, SMTT(30) DEF Land, EntType, Entry
<1>5. DrType'
  BY <1>1 DEF Land, DrType, Drain, Write
<1> QED
  BY <1>1, <1>2, <1>3, <1>4, <1>5, Zenon DEF Land, TypeOK, lease, data, hold, WritesType, OtherType,
     RunType, EntType, DrType

LEMMA EnterType ==
  ASSUME TypeOK, NEW r \in Replicas, NEW o \in EntryOps, Enter(r, o)
  PROVE  TypeOK'
<1>1. EntType'
  <2> DEFINE e == [pc |-> IF o \in CloseOps /\ lost[r] THEN "lock" ELSE "acquire",
                 op |-> o, base |-> store.ver, st |-> store.st, fresh |-> valid[r],
                 gen |-> 0, tok |-> 0, flag |-> held[r] # 0]
  <2>1. e \in Entry
    BY Names DEF Entry, HoldType, OtherType
  <2>2. ent' = [ent EXCEPT ![r] = e]
    BY DEF Enter
  <2> QED
    BY <2>1, <2>2 DEF EntType
<1>2. RunType'
  <2> DEFINE q == [ph |-> "prov", st |-> store.st, base |-> store.ver, fresh |-> valid[r],
                 gen |-> 0, parked |-> FALSE, stop |-> FALSE, preserve |-> FALSE,
                 rmcap |-> FALSE]
  <2>1. q \in Run
    BY DEF Run, HoldType, OtherType
  <2>2. run' = run \/ run' = [run EXCEPT ![r] = q]
    BY DEF Enter
  <2> QED
    BY <2>1, <2>2, Zenon DEF RunType
<1>3. HoldType' /\ rmq' \in [Replicas -> 0..MaxRemovers]
  <2>1. CASE RemoveRun(r)
    BY <2>1, RemoveRunType
  <2>2. CASE UNCHANGED <<hold, rmq>>
    BY <2>2 DEF HoldType, OtherType, hold
  <2> QED
    BY <2>1, <2>2 DEF Enter
<1> QED
  BY <1>1, <1>2, <1>3, Zenon DEF Enter, RemoveRun, TypeOK, lease, data, hold, EntType, RunType,
     HoldType

\* The steps of a run-entry transaction.
LEMMA EntryStepType ==
  ASSUME TypeOK, EntryOwnsRun, NEW r \in Replicas, EntryStep(r)
  PROVE  TypeOK'
<1>1. CASE AcquireRefused(r)
  <2> USE <1>1
  <2>1. EntType'
    BY FailType DEF AcquireRefused
  <2> QED
    BY <2>1 DEF AcquireRefused, TypeOK, lease, data, hold, EntType
<1>2. CASE AcquireKept(r)
  <2> USE <1>2
  <2>1. EntType'
    BY Names, GotoType DEF AcquireKept
  <2> QED
    BY <2>1 DEF AcquireKept, TypeOK, lease, data, hold, EntType
<1>3. CASE AcquireWon(r)
  <2> USE <1>3
  <2>1. LeaseType'
    BY BackendGrantType DEF AcquireWon
  <2>2. EntType'
    <3> DEFINE e == [ent[r] EXCEPT !.pc = "install", !.tok = token'[Sid], !.fresh = FALSE]
    <3>1. token'[Sid] \in Nat
      BY <2>1 DEF LeaseType
    <3>2. e \in Entry
      BY <3>1, Names, Zenon DEF EntType, Entry
    <3>3. ent' = [ent EXCEPT ![r] = e]
      BY DEF AcquireWon
    <3> QED
      BY <3>2, <3>3 DEF EntType
  <2> QED
    BY <2>1, <2>2 DEF AcquireWon, TypeOK, lease, data, hold, LeaseType, EntType
<1>4. CASE AcquireFailed(r)
  <2> USE <1>4
  <2>1. LeaseType'
    <3>1. CASE UNCHANGED lease
      BY <3>1 DEF lease, LeaseType
    <3>2. CASE BackendGrant(r)
      BY <3>2, BackendGrantType, Zenon
    <3> QED
      BY <3>1, <3>2 DEF AcquireFailed
  <2>2. EntType'
    BY FailType DEF AcquireFailed
  <2> QED
    BY <2>1, <2>2 DEF AcquireFailed, TypeOK, lease, data, hold, LeaseType, EntType
<1>5. CASE Install(r)
  <2> USE <1>5
  <2>1. EntType'
    BY Names, GotoType DEF Install
  <2>2. HoldType'
    <3>1. ent[r].tok \in Nat
      BY DEF EntType, Entry
    <3>2. held' \in [Replicas -> Nat] /\ ngen' \in [Replicas -> Nat]
      BY SMTT(30) DEF Install, HoldType
    <3>3. tok' \in [Replicas -> Nat]
      BY <3>1 DEF Install, HoldType
    <3>4. valid' \in [Replicas -> BOOLEAN] /\ lost' \in [Replicas -> BOOLEAN]
      BY Zenon DEF Install, HoldType
    <3> QED
      BY <3>2, <3>3, <3>4 DEF HoldType
  <2>3. CapType'
    BY DEF Install, CapType, Capability
  <2> QED
    BY <2>1, <2>2, <2>3, Zenon DEF Install, TypeOK, lease, data, hold, EntType, HoldType, CapType
<1>6. CASE BeginPrompt(r)
  <2> USE <1>6
  <2>1. EntType'
    <3> DEFINE repair == ent[r].st \in Terminal \cup {"running"}
    <3> DEFINE e == [ent[r] EXCEPT !.pc = IF repair THEN "save" ELSE "launch",
                                 !.st = IF repair THEN "idle" ELSE ent[r].st,
                                 !.gen = held[r]]
    <3>1. held[r] \in Nat /\ ent[r] \in Entry
      BY DEF HoldType, EntType
    <3>2. e \in Entry
      BY <3>1, Names, Zenon DEF Entry
    <3>3. ent' = [ent EXCEPT ![r] = e]
      BY DEF BeginPrompt
    <3> QED
      BY <3>2, <3>3 DEF EntType
  <2> QED
    BY <2>1 DEF BeginPrompt, TypeOK, lease, data, hold, EntType
<1>7. CASE BeginApprove(r)
  <2> USE <1>7
  <2>1. EntType'
    <3> DEFINE e == [ent[r] EXCEPT !.pc = "launch", !.gen = held[r]]
    <3>1. held[r] \in Nat /\ ent[r] \in Entry
      BY DEF HoldType, EntType
    <3>2. e \in Entry
      BY <3>1, Names, Zenon DEF Entry
    <3>3. ent' = [ent EXCEPT ![r] = e]
      BY <3>1, Zenon DEF BeginApprove, Entry
    <3> HIDE DEF e
    <3> QED
      BY <3>2, <3>3 DEF EntType
  <2> QED
    BY <2>1 DEF BeginApprove, TypeOK, lease, data, hold, EntType
<1>8. CASE BeginAsk(r)
  <2> USE <1>8
  <2>1. EntType'
    <3> DEFINE e == [ent[r] EXCEPT !.pc = "launch", !.gen = held[r], !.base = store.ver,
                                 !.fresh = TRUE]
    <3>1. held[r] \in Nat /\ store.ver \in Nat /\ ent[r] \in Entry
      BY DEF HoldType, OtherType, EntType
    <3>2. e \in Entry
      BY <3>1, Names, Zenon DEF Entry
    <3>3. CASE ent' = [ent EXCEPT ![r] = e]
      BY <3>2, <3>3 DEF EntType
    <3>4. CASE Goto(r, "cleanup")
      BY <3>4, Names, GotoType
    <3> QED
      BY <3>3, <3>4 DEF BeginAsk, AskSnapshot
  <2>2. RunType'
    <3>1. CASE run' = run
      BY <3>1 DEF RunType
    <3>2. CASE run' = [run EXCEPT ![r].base = store.ver, ![r].fresh = TRUE] /\ run[r] = NoRun
      BY <3>2, Zenon DEF RunType, NoRun
    <3>3. CASE run' = [run EXCEPT ![r].base = store.ver, ![r].fresh = TRUE] /\ run[r] # NoRun
      <4>1. run[r] \in Run /\ store.ver \in Nat
        BY <3>3, RegisteredRun, Zenon DEF OtherType
      <4> QED
        BY <4>1, <3>3, Zenon DEF RunType, Run
    <3> QED
      BY <3>1, <3>2, <3>3 DEF BeginAsk, AskSnapshot
  <2> QED
    BY <2>1, <2>2 DEF BeginAsk, TypeOK, lease, data, hold, EntType, RunType
<1>9. CASE BeginMutation(r)
  <2> USE <1>9
  <2>1. EntType'
    <3>1. held[r] \in Nat /\ store.ver \in Nat /\ ent[r] \in Entry
      BY DEF HoldType, OtherType, EntType
    <3>2. PICK p \in {"save", "drop"} :
            ent' = [ent EXCEPT ![r] =
                      [pc |-> p, op |-> ent[r].op, base |-> store.ver, st |-> "idle", fresh |-> TRUE,
                       gen |-> held[r], tok |-> 0, flag |-> ~ent[r].flag /\ held[r] # 0]]
      BY Zenon DEF BeginMutation, MutationBase
    <3> QED
      BY <3>1, <3>2, Names DEF EntType, Entry
  <2> QED
    BY <2>1 DEF BeginMutation, TypeOK, lease, data, hold, EntType
<1>10. CASE BeginClose(r)
  <2> USE <1>10
  <2>1. EntType'
    BY Names, GotoType, Zenon DEF BeginClose
  <2> QED
    BY <2>1 DEF BeginClose, TypeOK, lease, data, hold, EntType
<1>11. CASE SaveAdmitted(r)
  <2> USE <1>11
  <2>1. EntType'
    BY Names, GotoType, Zenon DEF SaveAdmitted
  <2>2. WritesType'
    <3>1. ent[r] \in Entry
      BY DEF EntType
    <3>2. [by |-> r, src |-> "ent", base |-> ent[r].base, st |-> ent[r].st, fresh |-> ent[r].fresh]
            \in Write
      BY <3>1, Zenon DEF Write, Entry
    <3> QED
      BY <3>2 DEF SaveAdmitted, WritesType
  <2> QED
    BY <2>1, <2>2 DEF SaveAdmitted, TypeOK, lease, data, hold, EntType, WritesType
<1>12. CASE SaveFailed(r)
  <2> USE <1>12
  <2>1. EntType'
    BY Names, GotoType, Zenon DEF SaveFailed
  <2> QED
    BY <2>1 DEF SaveFailed, TypeOK, lease, data, hold, EntType
<1>13. CASE Launch(r)
  <2> USE <1>13
  <2>1. EntType'
    BY LeaveType DEF Launch
  <2>2. RunType'
    <3>1. run[r] \in Run /\ ent[r] \in Entry
      BY RegisteredRun, Zenon DEF Launch, EntryOwnsRun, EntType
    <3> QED
      BY <3>1, Names DEF Launch, RunType, Run, Entry
  <2> QED
    BY <2>1, <2>2 DEF Launch, TypeOK, lease, data, hold, EntType, RunType
<1>14. CASE LaunchFailed(r)
  <2> USE <1>14
  <2>1. EntType'
    BY Names, GotoType, Zenon DEF LaunchFailed
  <2> QED
    BY <2>1 DEF LaunchFailed, TypeOK, lease, data, hold, EntType
<1>15. CASE Cleanup(r)
  <2> USE <1>15
  <2>1. EntType'
    BY LeaveType, Zenon DEF Cleanup
  <2>2. RunType'
    BY Zenon DEF Cleanup, RunType
  <2>3. DrType'
    <3>1. ent[r].base \in Nat /\ ent[r].st \in States /\ ent[r].fresh \in BOOLEAN
      BY Zenon DEF EntType, Entry
    <3> QED
      BY <3>1, DrainKeepsType DEF Cleanup
  <2>4. HoldType' /\ rmq' \in [Replicas -> 0..MaxRemovers]
    BY RemoveRunType, Zenon DEF Cleanup
  <2>5. OtherType'
    BY <2>4, Zenon DEF Cleanup, OtherType, data
  <2>6. LeaseType' /\ LossType' /\ WritesType' /\ CapType'
    BY DEF Cleanup, LeaseType, LossType, WritesType, CapType, lease, data
  <2> QED
    BY <2>1, <2>2, <2>3, <2>4, <2>5, <2>6, TypeGroupsPrime
<1>16. CASE CloseLocal(r)
  <2> USE <1>16
  <2>1. EntType'
    <3> DEFINE e == [ent[r] EXCEPT !.pc = "drop", !.flag = TRUE]
    <3>1. e \in Entry
      BY Names, Zenon DEF EntType, Entry
    <3>2. ent' = [ent EXCEPT ![r] = e]
      BY Zenon DEF CloseLocal, EntType, Entry
    <3> HIDE DEF e
    <3> QED
      BY <3>1, <3>2 DEF EntType
  <2>2. HoldType'
    BY DEF CloseLocal, HoldType
  <2> QED
    BY <2>1, <2>2 DEF CloseLocal, TypeOK, lease, data, hold, EntType, HoldType
<1>17. CASE DropLease(r)
  <2> USE <1>17
  <2>1. HoldType' /\ CapType' /\ RunType'
    <3>1. CASE ReleaseLocal(r)
      BY <3>1, ReleaseLocalType
    <3>2. CASE UNCHANGED <<hold, cap, run>>
      BY <3>2 DEF hold, HoldType, CapType, RunType
    <3> QED
      BY <3>1, <3>2 DEF DropLease
  <2>2. EntType'
    <3> DEFINE e == [ent[r] EXCEPT !.pc = "release", !.tok = tok[r], !.flag = run[r] = NoRun]
    <3>1. tok[r] \in Nat /\ ent[r] \in Entry
      BY DEF HoldType, EntType
    <3>2. e \in Entry
      BY <3>1, Names, Zenon DEF Entry
    <3>3. CASE ent' = [ent EXCEPT ![r] = e]
      BY <3>2, <3>3 DEF EntType
    <3>4. CASE Leave(r)
      BY <3>4, LeaveType, Zenon
    <3> QED
      BY <3>3, <3>4 DEF DropLease
  <2> QED
    BY <2>1, <2>2 DEF DropLease, TypeOK, lease, data, hold, RunType, CapType, HoldType, EntType
<1>18. CASE Release(r)
  <2> USE <1>18
  <2>1. LeaseType'
    BY BackendReleaseType, Zenon DEF Release
  <2>2. EntType'
    BY Names, GotoType, LeaveType, Zenon DEF Release
  <2> QED
    BY <2>1, <2>2 DEF Release, TypeOK, lease, data, hold, LeaseType, EntType
<1>19. CASE ForgetCapability(r)
  <2> USE <1>19
  <2>1. EntType'
    BY LeaveType, Zenon DEF ForgetCapability
  <2>2. CapType'
    BY Zenon DEF ForgetCapability, CapType, Capability
  <2> QED
    BY <2>1, <2>2 DEF ForgetCapability, TypeOK, lease, data, hold, EntType, CapType
<1> QED
  BY <1>1, <1>2, <1>3, <1>4, <1>5, <1>6, <1>7, <1>8, <1>9, <1>10, <1>11, <1>12, <1>13,
     <1>14, <1>15, <1>16, <1>17, <1>18, <1>19, Zenon DEF EntryStep

\* The registered run and its relay.
LEMMA RunStepType ==
  ASSUME TypeOK, NEW r \in Replicas, RunStep(r)
  PROVE  TypeOK'
<1>1. CASE RunAsks(r)
  <2> USE <1>1
  <2>1. RunType'
    <3>1. run[r] \in Run
      BY RegisteredRun DEF RunAsks
    <3> QED
      BY <3>1, Names DEF RunAsks, RunType, Run
  <2> QED
    BY <2>1 DEF RunAsks, TypeOK, lease, data, hold, RunType
<1>2. CASE RunAnswered(r)
  <2> USE <1>2
  <2>1. RunType'
    <3>1. run[r] \in Run
      BY RegisteredRun DEF RunAnswered
    <3> QED
      BY <3>1, Names, Zenon DEF RunAnswered, RunType, Run
  <2> QED
    BY <2>1, Zenon DEF RunAnswered, TypeOK, lease, data, hold, RunType
<1>3. CASE RunEnds(r)
  <2> USE <1>3
  <2>1. RunType'
    <3> DEFINE q == [run[r] EXCEPT !.ph = "ended", !.parked = FALSE,
                                 !.st = IF run[r].stop THEN "cancelled" ELSE "done"]
    <3>1. run[r] \in Run
      BY RegisteredRun DEF RunEnds
    <3>2. q \in Run
      BY <3>1, Names, Zenon DEF Run
    <3>3. run' = [run EXCEPT ![r] = q]
      BY DEF RunEnds
    <3> QED
      BY <3>2, <3>3 DEF RunType
  <2> QED
    BY <2>1 DEF RunEnds, TypeOK, lease, data, hold, RunType
<1>4. CASE RunSave(r)
  <2> USE <1>4
  <2>1. WritesType'
    <3> DEFINE w == [by |-> r, src |-> "run", base |-> run[r].base, st |-> run[r].st,
                     fresh |-> run[r].fresh]
    <3>1. run[r] \in Run
      BY RegisteredRun, Zenon DEF RunSave
    <3>2. run[r].base \in Nat /\ run[r].st \in States /\ run[r].fresh \in BOOLEAN
      BY <3>1 DEF Run
    <3>3. w \in Write
      BY <3>2 DEF Write
    <3>4. writes' = writes \cup {w}
      BY Zenon DEF RunSave
    <3> HIDE DEF w
    <3> QED
      BY <3>3, <3>4 DEF WritesType
  <2> QED
    BY <2>1, Zenon DEF RunSave, TypeOK, lease, data, hold, WritesType
<1>5. CASE FinishRun(r)
  <2> USE <1>5
  <2>1. RunType'
    BY DEF FinishRun, RunType
  <2>2. DrType'
    <3>1. run[r] \in Run
      BY RegisteredRun DEF FinishRun
    <3>2. run[r].base \in Nat /\ run[r].st \in States /\ run[r].fresh \in BOOLEAN
      BY <3>1 DEF Run
    <3> QED
      BY <3>2, DrainKeepsType DEF FinishRun
  <2>3. HoldType' /\ rmq' \in [Replicas -> 0..MaxRemovers]
    BY RemoveRunType DEF FinishRun
  <2> QED
    BY <2>1, <2>2, <2>3 DEF FinishRun, TypeOK, lease, data, hold, RunType, DrType, HoldType
<1> QED
  BY <1>1, <1>2, <1>3, <1>4, <1>5 DEF RunStep

\* The loss handlers.
LEMMA LossWorkType ==
  ASSUME TypeOK, NEW r \in Replicas, LossWork(r)
  PROVE  TypeOK'
<1>1. ASSUME NEW g \in ren[r], LossDeclared(r, g) PROVE TypeOK'
  <2> USE <1>1
  <2>1. ren' \in [Replicas -> SUBSET Nat]
    BY Zenon DEF LossDeclared, OtherType
  <2>2. HoldType'
    <3>1. held' \in [Replicas -> Nat]
      BY DEF LossDeclared, HoldType, hold
    <3>2. valid' \in [Replicas -> BOOLEAN]
      BY Zenon DEF LossDeclared, HoldType, hold
    <3>3. lost' \in [Replicas -> BOOLEAN]
      BY Zenon DEF LossDeclared, HoldType, hold
    <3> QED
      BY <3>1, <3>2, <3>3 DEF LossDeclared, HoldType, hold
  <2>3. CapType'
    BY DEF LossDeclared, LostCapability, CapType, Capability
  <2>4. LossType'
    <3>1. CASE loss' = loss
      BY <3>1, Zenon DEF LossType
    <3>2. ASSUME NEW k \in BOOLEAN, NEW h \in BOOLEAN,
                loss' = [loss EXCEPT ![r] = [pc |-> "cancel", tok |-> tok[r], keep |-> k, had |-> h]]
         PROVE  LossType'
      BY <3>2 DEF LossType, Loss, HoldType
    <3>3. (run[r] # NoRun /\ run[r].parked) \in BOOLEAN /\ (run[r] # NoRun) \in BOOLEAN
      BY RegisteredRun DEF Run
    <3> QED
      BY <3>1, <3>2, <3>3, Zenon DEF LossDeclared
  <2> QED
    BY <2>1, <2>2, <2>3, <2>4, Zenon DEF LossDeclared, TypeOK, lease, data, hold, HoldType, CapType,
       LossType
<1>2. CASE LossCancels(r)
  <2> USE <1>2
  <2>1. RunType'
    <3>1. CASE run[r] = NoRun
      BY <3>1 DEF LossCancels, RunType, NoRun
    <3>2. CASE run[r] # NoRun
      <4>1. CASE run' = run
        BY <4>1 DEF RunType
      <4>2. CASE run' = [run EXCEPT ![r].stop = TRUE]
        BY <3>2, <4>2, StopType, Zenon
      <4> QED
        BY <4>1, <4>2 DEF LossCancels
    <3> QED
      BY <3>1, <3>2
  <2>2. LossType'
    BY Zenon DEF LossCancels, LossType, Loss, NoLoss
  <2> QED
    BY <2>1, <2>2 DEF LossCancels, TypeOK, lease, data, hold, RunType, LossType
<1>3. CASE LossReleases(r)
  <2> USE <1>3
  <2>1. LeaseType'
    BY BackendReleaseType DEF LossReleases
  <2>2. LossType'
    BY DEF LossReleases, LossType, Loss, NoLoss
  <2> QED
    BY <2>1, <2>2 DEF LossReleases, TypeOK, lease, data, hold, LeaseType, LossType
<1> QED
  BY <1>1, <1>2, <1>3 DEF LossWork

\* The tombstone sweep.
LEMMA SweepType ==
  ASSUME TypeOK, NEW r \in Replicas, Sweep(r)
  PROVE  TypeOK'
<1>1. CASE ReconcileStarts(r)
  <2> USE <1>1
  <2>1. rec' \in [Replicas -> RecPc]
    BY Zenon DEF ReconcileStarts, OtherType, RecPc
  <2> QED
    BY <2>1, Zenon DEF ReconcileStarts, TypeOK, lease, data, hold
<1>2. CASE TrialFree(r)
  <2> USE <1>2
  <2>1. LeaseType'
    BY BackendGrantType DEF TrialFree
  <2>2. rec' \in [Replicas -> RecPc]
    BY Zenon DEF TrialFree, OtherType, RecPc
  <2> QED
    BY <2>1, <2>2 DEF TrialFree, TypeOK, lease, data, hold, LeaseType
<1>3. CASE TrialHeld(r)
  <2> USE <1>3
  <2>1. rec' \in [Replicas -> RecPc]
    BY Zenon DEF TrialHeld, OtherType, RecPc
  <2> QED
    BY <2>1 DEF TrialHeld, TypeOK, lease, data, hold
<1>4. CASE TrialReleases(r)
  <2> USE <1>4
  <2>1. LeaseType'
    BY BackendReleaseType DEF TrialReleases
  <2>2. rec' \in [Replicas -> RecPc]
    BY Zenon DEF TrialReleases, OtherType, RecPc
  <2> QED
    BY <2>1, <2>2 DEF TrialReleases, TypeOK, lease, data, hold, LeaseType
<1>5. CASE ReconcileClears(r)
  <2> USE <1>5
  <2>1. rec' \in [Replicas -> RecPc]
    BY DEF ReconcileClears, OtherType, RecPc
  <2>2. HoldType'
    <3>1. held' \in [Replicas -> Nat]
      BY SMTT(30) DEF ReconcileClears, HoldType, hold
    <3>2. valid' \in [Replicas -> BOOLEAN]
      BY DEF ReconcileClears, HoldType, hold
    <3>3. lost' \in [Replicas -> BOOLEAN]
      BY Zenon DEF ReconcileClears, HoldType, hold
    <3> QED
      BY <3>1, <3>2, <3>3, Zenon DEF ReconcileClears, HoldType, hold
  <2> QED
    BY <2>1, <2>2, Zenon DEF ReconcileClears, TypeOK, lease, data, hold, HoldType
<1> QED
  BY <1>1, <1>2, <1>3, <1>4, <1>5, Zenon DEF Sweep

\* The drain.
LEMMA DrainStepType ==
  ASSUME TypeOK, NEW r \in Replicas, DrainGate(r) \/ DrainWork(r)
  PROVE  TypeOK'
<1>1. CASE DrainGate(r)
  <2> USE <1>1
  <2>1. RunType'
    <3>1. CASE run[r] = NoRun
      BY <3>1 DEF DrainGate, RunType, NoRun
    <3>2. CASE run[r] # NoRun
      <4>1. CASE run' = run
        BY <4>1 DEF RunType
      <4>2. CASE run' = [run EXCEPT ![r].stop = TRUE]
        BY <3>2, <4>2, StopType, Zenon
      <4> QED
        BY <4>1, <4>2 DEF DrainGate
    <3> QED
      BY <3>1, <3>2
  <2>2. DrType'
    BY DEF DrainGate, DrType, Drain
  <2>3. draining' \in [Replicas -> BOOLEAN]
    BY DEF DrainGate, OtherType
  <2> QED
    BY <2>1, <2>2, <2>3 DEF DrainGate, TypeOK, lease, data, hold, RunType, DrType
<1>2. CASE DrainSnapshot(r)
  <2> USE <1>2
  <2>1. RunType'
    <3>1. CASE run[r] = NoRun
      BY <3>1 DEF DrainSnapshot, RunType
    <3>2. CASE run[r] # NoRun
      <4> DEFINE b == run[r].parked /\ ~run[r].stop
      <4>1. run[r] \in Run /\ b \in BOOLEAN
        BY <3>2, RegisteredRun DEF Run
      <4>2. [run[r] EXCEPT !.preserve = b] \in Run
        BY <4>1, Zenon DEF Run
      <4>3. run' = [run EXCEPT ![r] = [run[r] EXCEPT !.preserve = b]]
        BY <3>2 DEF DrainSnapshot, RunType
      <4> QED
        BY <4>2, <4>3 DEF RunType
    <3> QED
      BY <3>1, <3>2
  <2>2. DrType'
    BY SMTT(30) DEF DrainSnapshot, DrType, Drain
  <2> QED
    BY <2>1, <2>2 DEF DrainSnapshot, TypeOK, lease, data, hold, RunType, DrType
<1>3. CASE DrainCancels(r)
  <2> USE <1>3
  <2>1. RunType'
    <3>1. CASE run[r] = NoRun
      BY <3>1 DEF DrainCancels, RunType
    <3>2. CASE run[r] # NoRun
      BY <3>2, StopType DEF DrainCancels
    <3> QED
      BY <3>1, <3>2
  <2>2. DrType'
    <3> DEFINE b == run[r] # NoRun /\ run[r].preserve
    <3>1. b \in BOOLEAN
      BY RegisteredRun DEF Run
    <3>2. dr' = [dr EXCEPT ![r].pc = "wait", ![r].flag = b]
      BY DEF DrainCancels
    <3> HIDE DEF b
    <3> DEFINE d == [dr[r] EXCEPT !.pc = "wait", !.flag = b]
    <3>3. d \in Drain
      BY <3>1, Zenon DEF DrType, Drain
    <3>4. dr' = [dr EXCEPT ![r] = d]
      BY <3>2, Zenon DEF DrType, Drain
    <3> HIDE DEF d
    <3> QED
      BY <3>3, <3>4 DEF DrType
  <2>3. CapType'
    BY DEF DrainCancels, PreservedCapability, CapType, Capability
  <2> QED
    BY <2>1, <2>2, <2>3 DEF DrainCancels, TypeOK, lease, data, hold, RunType, DrType, CapType
<1>4. CASE DrainSettles(r)
  <2> USE <1>4
  <2>1. DrType'
    <3>1. PICK p \in {"saving", "drop"} : dr' = [dr EXCEPT ![r].pc = p]
      BY DEF DrainSettles
    <3> QED
      BY <3>1, SMTT(30) DEF DrType, Drain
  <2>2. WritesType'
    <3>1. dr[r] \in Drain
      BY DEF DrType
    <3> QED
      BY <3>1, SMTT(30) DEF DrainSettles, WritesType, Write, Drain
  <2> QED
    BY <2>1, <2>2 DEF DrainSettles, TypeOK, lease, data, hold, DrType, WritesType
<1>5. CASE DrainTimesOut(r)
  <2> USE <1>5
  <2>1. DrType'
    BY SMTT(30) DEF DrainTimesOut, DrType, Drain
  <2>2. HoldType'
    BY DEF DrainTimesOut, HoldType
  <2>3. CapType'
    BY DEF DrainTimesOut, RetainedCapability, CapType, Capability
  <2> QED
    BY <2>1, <2>2, <2>3 DEF DrainTimesOut, TypeOK, lease, data, hold, DrType, HoldType, CapType
<1>6. CASE DrainDrops(r)
  <2> USE <1>6
  <2>1. HoldType' /\ CapType' /\ RunType'
    BY ReleaseLocalType DEF DrainDrops
  <2>2. DrType'
    <3> DEFINE d == [dr[r] EXCEPT !.pc = IF valid[r] THEN "release" ELSE "done", !.tok = tok[r],
                                !.flag = run[r] = NoRun]
    <3>1. dr[r] \in Drain /\ tok[r] \in Nat
      BY DEF DrType, HoldType
    <3>2. d \in Drain
      BY <3>1, Zenon DEF Drain
    <3>3. dr' = [dr EXCEPT ![r] = d]
      BY DEF DrainDrops
    <3> QED
      BY <3>2, <3>3 DEF DrType
  <2> QED
    BY <2>1, <2>2 DEF DrainDrops, TypeOK, lease, data, hold, RunType, CapType, HoldType, DrType
<1>7. CASE DrainReleases(r)
  <2> USE <1>7
  <2>1. LeaseType'
    BY BackendReleaseType DEF DrainReleases
  <2>2. DrType'
    BY SMTT(30) DEF DrainReleases, DrType, Drain
  <2> QED
    BY <2>1, <2>2 DEF DrainReleases, TypeOK, lease, data, hold, LeaseType, DrType
<1>8. CASE DrainForgets(r)
  <2> USE <1>8
  <2>1. DrType'
    BY DEF DrainForgets, DrType, Drain
  <2>2. CapType'
    BY DEF DrainForgets, CapType, Capability
  <2> QED
    BY <2>1, <2>2 DEF DrainForgets, TypeOK, lease, data, hold, DrType, CapType
<1> QED
  BY <1>1, <1>2, <1>3, <1>4, <1>5, <1>6, <1>7, <1>8, Zenon DEF DrainWork

\* The capability remover, the renewer, a crash.
LEMMA HoldStepType ==
  ASSUME TypeOK, NEW r \in Replicas,
         RemoveCapability(r) \/ RenewOk(r) \/ RenewFailed(r) \/ Crash(r)
  PROVE  TypeOK'
<1>1. CASE RemoveCapability(r)
  <2> USE <1>1
  <2>1. CapType'
    BY DEF RemoveCapability, CapType, Capability
  <2>2. rmq' \in [Replicas -> 0..MaxRemovers]
    <3>1. rmq \in [Replicas -> 0..MaxRemovers]
      BY DEF OtherType
    <3> QED
      BY <3>1, SMTT(30) DEF RemoveCapability, MaxRemovers
  <2> QED
    BY <2>1, <2>2, Zenon DEF RemoveCapability, TypeOK, lease, data, hold, CapType
<1>2. CASE RenewOk(r)
  <2> USE <1>2
  <2>1. LeaseType'
    BY Zenon DEF RenewOk, L!Refresh, LeaseType
  <2> QED
    BY <2>1, Zenon DEF RenewOk, TypeOK, lease, data, hold, LeaseType
<1>3. CASE RenewFailed(r)
  <2> USE <1>3
  <2>1. ren' \in [Replicas -> SUBSET Nat]
    BY DEF RenewFailed, OtherType, HoldType
  <2> QED
    BY <2>1, Zenon DEF RenewFailed, TypeOK, lease, data, hold
<1>4. CASE Crash(r)
  <2> USE <1>4
  <2>1. RunType' /\ HoldType' /\ CapType'
    BY Zenon DEF Crash, RunType, HoldType, CapType, Capability
  <2>2. EntType' /\ DrType' /\ LossType'
    <3>1. NoEntry \in Entry /\ NoDrain \in Drain /\ NoLoss \in Loss
      BY Zenon DEF NoEntry, Entry, EntryPc, NoDrain, Drain, NoLoss, Loss, States
    <3> QED
      BY <3>1, Zenon DEF Crash, EntType, DrType, LossType
  <2>3. OtherType'
    BY SMTT(30) DEF Crash, OtherType, data, RecPc, MaxRemovers
  <2> QED
    BY <2>1, <2>2, <2>3, Zenon DEF Crash, TypeOK, lease, data, hold, RunType, CapType, HoldType,
       EntType, DrType, LossType, OtherType
<1> QED
  BY <1>1, <1>2, <1>3, <1>4, Zenon

-----------------------------------------------------------------------------
(* Every action keeps the rest of the invariant *)

\* Moving an entry on, or leaving, with holds and run untouched.
LEMMA GotoCore ==
  ASSUME HoldInv, NEW r \in Replicas, NEW pc \in EntryPc \ {"install", "launch"}, Goto(r, pc),
         UNCHANGED <<hold, cap, run>>
  PROVE  Core'
  BY DEF Goto, HoldInv, Core, CapabilityNeedsHold, InstallClean, EntryOwnsRun, EntType, Entry, hold

LEMMA LeaveCore ==
  ASSUME HoldInv, NEW r \in Replicas, Leave(r), UNCHANGED <<hold, cap, run>>
  PROVE  Core'
  BY Zenon DEF Leave, NoEntry, RunOps, HoldInv, Core, CapabilityNeedsHold, InstallClean,
     EntryOwnsRun, EntType, hold

LEMMA FailCore ==
  ASSUME HoldInv, NEW r \in Replicas, Fail(r), UNCHANGED <<hold, cap, run>>
  PROVE  Core'
<1>1. "cleanup" \in EntryPc \ {"install", "launch"}
  BY Zenon DEF EntryPc
<1> QED
  BY <1>1, GotoCore, LeaveCore DEF Fail

LEMMA ExpireCore ==
  ASSUME HoldInv, Expire
  PROVE  Core'
  BY DEF Expire, HoldInv, Core, CapabilityNeedsHold, InstallClean, EntryOwnsRun, EntType,
         RunType, CapType, HoldType, hold

LEMMA LandCore ==
  ASSUME HoldInv, NEW w \in writes, Land(w)
  PROVE  Core'
<1>1. UNCHANGED <<hold, cap>>
  BY DEF Land
<1>2. ASSUME NEW q \in Replicas PROVE run'[q].ph = run[q].ph
  BY SMTT(30) DEF Land, HoldInv, RunType, Run, NoRun
<1>3. ASSUME NEW q \in Replicas
      PROVE  /\ ent'[q].op = ent[q].op
             /\ ent'[q].pc \in {ent[q].pc, "launch", "drop"}
             /\ ent'[q].pc = "launch" => ent[q].pc = "launch" \/ ent[q].op \in RunOps
  BY DEF Land, HoldInv, EntType, Entry
<1>4. CapabilityNeedsHold' /\ InstallClean'
  BY <1>1, <1>3, Zenon DEF HoldInv, CapabilityNeedsHold, InstallClean, hold
<1>5. EntryOwnsRun'
  BY <1>2, <1>3 DEF HoldInv, EntryOwnsRun
<1> QED
  BY <1>4, <1>5 DEF Core

LEMMA EnterCore ==
  ASSUME HoldInv, NEW r \in Replicas, NEW o \in EntryOps, Enter(r, o)
  PROVE  Core'
<1>1. /\ UNCHANGED <<valid, lost, cap>>
      /\ \A q \in Replicas : valid[q] => held'[q] = held[q]
  BY DEF Enter, RemoveRun, HoldInv, HoldType, hold
<1>2. \A q \in Replicas : /\ q # r => ent'[q] = ent[q] /\ run'[q] = run[q]
                          /\ ent'[r].pc \in {"lock", "acquire"} /\ ent'[r].op = o
  BY Zenon DEF Enter, HoldInv, EntType, RunType
<1>3. ASSUME o \in RunOps PROVE run'[r].ph = "prov"
  <2> DEFINE p == [ph |-> "prov", st |-> store.st, base |-> store.ver, fresh |-> valid[r],
                   gen |-> 0, parked |-> FALSE, stop |-> FALSE, preserve |-> FALSE,
                   rmcap |-> FALSE]
  <2>1. run' = [run EXCEPT ![r] = p]
    BY <1>3, Zenon DEF Enter
  <2>2. p.ph = "prov"
    OBVIOUS
  <2> HIDE DEF p
  <2> QED
    BY <2>1, <2>2 DEF HoldInv, RunType
<1>4. CapabilityNeedsHold' /\ InstallClean'
  BY <1>1, <1>2, Zenon DEF HoldInv, CapabilityNeedsHold, InstallClean
<1>5. EntryOwnsRun'
  BY <1>2, <1>3, Zenon DEF HoldInv, EntryOwnsRun
<1> QED
  BY <1>4, <1>5, Zenon DEF Core

\* The steps of a run-entry transaction.
LEMMA EntryStepCore ==
  ASSUME HoldInv, NEW r \in Replicas, EntryStep(r)
  PROVE  Core'
<1>1. CASE AcquireRefused(r)
  BY <1>1, FailCore, Zenon DEF AcquireRefused
<1>2. CASE AcquireKept(r)
  BY <1>2, Names, GotoCore, Zenon DEF AcquireKept
<1>3. CASE AcquireWon(r)
  BY <1>3 DEF AcquireWon, Refused, HoldInv, Core, CapabilityNeedsHold, InstallClean, EntryOwnsRun,
         EntType, RunType, CapType, HoldType, hold, Entry
<1>4. CASE AcquireFailed(r)
  BY <1>4, FailCore, Zenon DEF AcquireFailed
<1>5. CASE Install(r)
  BY <1>5, SMTT(30) DEF Install, Goto, HoldInv, Core, CapabilityNeedsHold, InstallClean,
     EntryOwnsRun, EntType, RunType, CapType, HoldType, hold, Entry
<1>6. CASE BeginPrompt(r)
  BY <1>6, SMTT(30) DEF BeginPrompt, RunOps, HoldInv, Core, CapabilityNeedsHold, InstallClean, EntryOwnsRun,
         EntType, RunType, CapType, HoldType, hold, Entry
<1>7. CASE BeginApprove(r)
  BY <1>7, SMTT(30) DEF BeginApprove, RunOps, HoldInv, Core, CapabilityNeedsHold, InstallClean, EntryOwnsRun,
         EntType, RunType, CapType, HoldType, hold, Entry
<1>8. CASE BeginAsk(r)
  <2> USE <1>8
  <2>1. CASE Goto(r, "cleanup") /\ UNCHANGED run
    BY <2>1, Names, GotoCore DEF BeginAsk
  <2>2. CASE ~(Goto(r, "cleanup") /\ UNCHANGED run)
    <3> DEFINE e == [ent[r] EXCEPT !.pc = "launch", !.gen = held[r], !.base = store.ver,
                                 !.fresh = TRUE]
    <3>1. ent' = [ent EXCEPT ![r] = e] /\ ent[r].op = "ask"
      BY <2>2 DEF BeginAsk, AskSnapshot
    <3>2. run' = [run EXCEPT ![r].base = store.ver, ![r].fresh = TRUE]
      BY <2>2 DEF BeginAsk, AskSnapshot
    <3>3. \A q \in Replicas : run'[q].ph = run[q].ph
      <4>1. run[r] \in Run
        BY <3>1, RegisteredRun DEF HoldInv, EntryOwnsRun, RunOps
      <4>2. run'[r].ph = run[r].ph
        BY <3>2, <4>1 DEF HoldInv, RunType, Run
      <4> QED
        BY <3>2, <4>2 DEF HoldInv, RunType
    <3>4. \A q \in Replicas : /\ ent'[q].op = ent[q].op
                              /\ ent'[q].pc = IF q = r THEN "launch" ELSE ent[q].pc
      <4>1. e.op = ent[r].op /\ e.pc = "launch"
        BY DEF HoldInv, EntType, Entry
      <4> HIDE DEF e
      <4> QED
        BY <3>1, <4>1 DEF HoldInv, EntType
    <3>5. UNCHANGED <<hold, cap>>
      BY Zenon DEF BeginAsk
    <3>6. CapabilityNeedsHold' /\ InstallClean'
      BY <3>4, <3>5 DEF HoldInv, CapabilityNeedsHold, InstallClean, hold
    <3>7. EntryOwnsRun'
      BY <3>1, <3>3, <3>4, SMTT(30) DEF HoldInv, EntryOwnsRun, RunOps
    <3> QED
      BY <3>6, <3>7 DEF Core
  <2> QED
    BY <2>1, <2>2
<1>9. CASE BeginMutation(r)
  BY <1>9, Zenon DEF BeginMutation, HoldInv, Core, CapabilityNeedsHold, InstallClean,
     EntryOwnsRun, EntType, RunType, CapType, HoldType, hold, Entry
<1>10. CASE BeginClose(r)
  BY <1>10, Names, GotoCore, Zenon DEF BeginClose
<1>11. CASE SaveAdmitted(r)
  BY <1>11, Names, GotoCore, Zenon DEF SaveAdmitted
<1>12. CASE SaveFailed(r)
  BY <1>12, Names, GotoCore, Zenon DEF SaveFailed
<1>13. CASE Launch(r)
  BY <1>13, Zenon DEF Launch, Leave, NoEntry, RunOps, HoldInv, Core, CapabilityNeedsHold,
     InstallClean, EntryOwnsRun, EntType, RunType, CapType, HoldType, hold, Entry, Run, NoRun
<1>14. CASE LaunchFailed(r)
  BY <1>14, Names, GotoCore DEF LaunchFailed
<1>15. CASE Cleanup(r)
  BY <1>15, Zenon DEF Cleanup, RemoveRun, Leave, NoEntry, RunOps, HoldInv, Core,
     CapabilityNeedsHold, InstallClean, EntryOwnsRun, EntType, RunType, CapType, HoldType, hold,
     Entry, Run, NoRun
<1>16. CASE CloseLocal(r)
  BY <1>16 DEF CloseLocal, HoldInv, Core, CapabilityNeedsHold, InstallClean, EntryOwnsRun, EntType,
         RunType, CapType, HoldType, hold, Entry
<1>17. CASE DropLease(r)
  <2> USE <1>17
  <2>1. \A q \in Replicas : /\ ent'[q].pc \notin {"install", "launch"} \/ ent'[q] = ent[q]
                            /\ ent'[q].op \in RunOps => ent[q].op \in RunOps
    <3>1. CASE Leave(r)
      BY <3>1 DEF Leave, NoEntry, EntType, RunOps
    <3>2. CASE ent' = [ent EXCEPT ![r] = [ent[r] EXCEPT !.pc = "release", !.tok = tok[r],
                                                      !.flag = run[r] = NoRun]]
      BY <3>2, SMTT(30) DEF EntType, Entry
    <3> QED
      BY <3>1, <3>2, Zenon DEF DropLease
  <2>2. \A q \in Replicas : run'[q].ph = run[q].ph
    <3>1. CASE run' = run
      BY <3>1
    <3>2. CASE run[r] # NoRun /\ run' = [run EXCEPT ![r].rmcap = valid[r]]
      BY <3>2, RegisteredRun, SMTT(30) DEF RunType, Run
    <3> QED
      BY <3>1, <3>2 DEF DropLease, ReleaseLocal
  <2>3. \A q \in Replicas : /\ valid'[q] => valid[q] /\ held'[q] = held[q]
                            /\ cap'[q] = "yes" => cap[q] = "yes" /\ (valid[q] => valid'[q])
                            /\ lost'[q] = lost[q]
    <3>1. CASE UNCHANGED <<hold, cap>>
      BY <3>1 DEF hold
    <3>2. CASE ReleaseLocal(r)
      BY <3>2, Zenon DEF ReleaseLocal, HoldType, CapType, HoldInv, InstallClean
    <3> QED
      BY <3>1, <3>2, Zenon DEF DropLease
  <2>4. CapabilityNeedsHold' /\ InstallClean'
    BY <2>1, <2>3, Zenon DEF HoldInv, CapabilityNeedsHold, InstallClean
  <2>5. EntryOwnsRun'
    BY <2>1, <2>2 DEF HoldInv, EntryOwnsRun
  <2> QED
    BY <2>4, <2>5 DEF Core
<1>18. CASE Release(r)
  BY <1>18, Names, GotoCore, LeaveCore, Zenon DEF Release
<1>19. CASE ForgetCapability(r)
  BY <1>19, Zenon DEF ForgetCapability, Leave, NoEntry, RunOps, HoldInv, Core, CapabilityNeedsHold,
         InstallClean, EntryOwnsRun, EntType, RunType, CapType, HoldType, hold, Entry
<1> QED
  BY <1>1, <1>2, <1>3, <1>4, <1>5, <1>6, <1>7, <1>8, <1>9, <1>10, <1>11, <1>12, <1>13,
     <1>14, <1>15, <1>16, <1>17, <1>18, <1>19, Zenon DEF EntryStep

\* The registered run and its relay.
LEMMA RunStepCore ==
  ASSUME HoldInv, NEW r \in Replicas, RunStep(r)
  PROVE  Core'
<1>1. CASE RunAsks(r)
  BY <1>1 DEF RunAsks, HoldInv, Core, CapabilityNeedsHold, InstallClean, EntryOwnsRun, EntType,
         RunType, CapType, HoldType, hold, Run, NoRun
<1>2. CASE RunAnswered(r)
  BY <1>2 DEF RunAnswered, HoldInv, Core, CapabilityNeedsHold, InstallClean, EntryOwnsRun, EntType,
         RunType, CapType, HoldType, hold, Run, NoRun
<1>3. CASE RunEnds(r)
  BY <1>3 DEF RunEnds, HoldInv, Core, CapabilityNeedsHold, InstallClean, EntryOwnsRun, EntType,
         RunType, CapType, HoldType, hold, Run, NoRun
<1>4. CASE RunSave(r)
  BY <1>4, Zenon DEF RunSave, HoldInv, Core, CapabilityNeedsHold, InstallClean, EntryOwnsRun,
     EntType, RunType, CapType, HoldType, hold
<1>5. CASE FinishRun(r)
  BY <1>5, Zenon DEF FinishRun, RemoveRun, HoldInv, Core, CapabilityNeedsHold, InstallClean,
     EntryOwnsRun, EntType, RunType, CapType, HoldType, hold, Run, NoRun
<1> QED
  BY <1>1, <1>2, <1>3, <1>4, <1>5 DEF RunStep

\* The loss handlers.
LEMMA LossWorkCore ==
  ASSUME HoldInv, NEW r \in Replicas, LossWork(r)
  PROVE  Core'
<1>1. ASSUME NEW g \in ren[r], LossDeclared(r, g) PROVE Core'
  <2> USE <1>1
  <2>1. UNCHANGED <<run, ent>>
    BY Zenon DEF LossDeclared
  <2>2. \A q \in Replicas : \/ valid'[q] = valid[q] /\ lost'[q] = lost[q] /\ cap'[q] = cap[q]
                               /\ held'[q] = held[q]
                            \/ ~valid'[q] /\ cap'[q] = "no" /\ valid[q]
    BY DEF LossDeclared, StillCurrent, LostCapability, HoldInv, HoldType, CapType, hold
  <2>3. CapabilityNeedsHold' /\ InstallClean'
    BY <2>1, <2>2, Zenon DEF HoldInv, CapabilityNeedsHold, InstallClean
  <2>4. EntryOwnsRun'
    BY <2>1 DEF HoldInv, EntryOwnsRun
  <2> QED
    BY <2>3, <2>4, Zenon DEF Core
<1>2. CASE LossCancels(r)
  BY <1>2 DEF LossCancels, HoldInv, Core, CapabilityNeedsHold, InstallClean, EntryOwnsRun, EntType,
         RunType, CapType, HoldType, hold, Run, NoRun
<1>3. CASE LossReleases(r)
  BY <1>3, Zenon DEF LossReleases, HoldInv, Core, CapabilityNeedsHold, InstallClean, EntryOwnsRun,
     EntType, RunType, CapType, HoldType, hold
<1> QED
  BY <1>1, <1>2, <1>3 DEF LossWork

\* The tombstone sweep.
LEMMA SweepCore ==
  ASSUME HoldInv, NEW r \in Replicas, Sweep(r)
  PROVE  Core'
<1>1. CASE ReconcileStarts(r)
  BY <1>1, Zenon DEF ReconcileStarts, HoldInv, Core, CapabilityNeedsHold, InstallClean,
     EntryOwnsRun, EntType, RunType, CapType, HoldType, hold
<1>2. CASE TrialFree(r)
  BY <1>2, Zenon DEF TrialFree, HoldInv, Core, CapabilityNeedsHold, InstallClean, EntryOwnsRun,
     EntType, RunType, CapType, HoldType, hold
<1>3. CASE TrialHeld(r)
  BY <1>3, Zenon DEF TrialHeld, HoldInv, Core, CapabilityNeedsHold, InstallClean, EntryOwnsRun,
     EntType, RunType, CapType, HoldType, hold
<1>4. CASE TrialReleases(r)
  BY <1>4, Zenon DEF TrialReleases, HoldInv, Core, CapabilityNeedsHold, InstallClean,
     EntryOwnsRun, EntType, RunType, CapType, HoldType, hold
<1>5. CASE ReconcileClears(r)
  BY <1>5, Zenon DEF ReconcileClears, Reacquired, HoldInv, Core, CapabilityNeedsHold, InstallClean,
         EntryOwnsRun, EntType, RunType, CapType, HoldType, hold
<1> QED
  BY <1>1, <1>2, <1>3, <1>4, <1>5 DEF Sweep

\* The drain.
LEMMA DrainStepCore ==
  ASSUME HoldInv, NEW r \in Replicas, DrainGate(r) \/ DrainWork(r)
  PROVE  Core'
<1>1. CASE DrainGate(r)
  BY <1>1, SMTT(30) DEF DrainGate, HoldInv, Core, CapabilityNeedsHold, InstallClean, EntryOwnsRun, EntType,
         RunType, CapType, HoldType, hold, Run, NoRun
<1>2. CASE DrainSnapshot(r)
  BY <1>2, SMTT(30) DEF DrainSnapshot, HoldInv, Core, CapabilityNeedsHold, InstallClean,
     EntryOwnsRun, EntType, RunType, CapType, HoldType, hold, Run, NoRun
<1>3. CASE DrainCancels(r)
  BY <1>3, SMTT(30) DEF DrainCancels, PreservedCapability, HoldInv, Core, CapabilityNeedsHold, InstallClean,
         EntryOwnsRun, EntType, RunType, CapType, HoldType, hold, Run, NoRun
<1>4. CASE DrainSettles(r)
  BY <1>4 DEF DrainSettles, HoldInv, Core, CapabilityNeedsHold, InstallClean, EntryOwnsRun, EntType,
         RunType, CapType, HoldType, hold
<1>5. CASE DrainTimesOut(r)
  BY <1>5 DEF DrainTimesOut, RetainedCapability, HoldInv, Core, CapabilityNeedsHold, InstallClean,
         EntryOwnsRun, EntType, RunType, CapType, HoldType, hold
<1>6. CASE DrainDrops(r)
  BY <1>6 DEF DrainDrops, ReleaseLocal, HoldInv, Core, CapabilityNeedsHold, InstallClean,
         EntryOwnsRun, EntType, RunType, CapType, HoldType, hold, Run, NoRun
<1>7. CASE DrainReleases(r)
  BY <1>7 DEF DrainReleases, HoldInv, Core, CapabilityNeedsHold, InstallClean, EntryOwnsRun,
     EntType, RunType, CapType, HoldType, hold
<1>8. CASE DrainForgets(r)
  BY <1>8 DEF DrainForgets, HoldInv, Core, CapabilityNeedsHold, InstallClean, EntryOwnsRun, EntType,
         RunType, CapType, HoldType, hold
<1> QED
  BY <1>1, <1>2, <1>3, <1>4, <1>5, <1>6, <1>7, <1>8 DEF DrainWork

\* The capability remover, the renewer, a crash.
LEMMA HoldStepCore ==
  ASSUME HoldInv, NEW r \in Replicas,
         RemoveCapability(r) \/ RenewOk(r) \/ RenewFailed(r) \/ Crash(r)
  PROVE  Core'
<1>1. CASE RemoveCapability(r)
  BY <1>1, Zenon DEF RemoveCapability, HoldInv, Core, CapabilityNeedsHold, InstallClean, EntryOwnsRun,
         EntType, RunType, CapType, HoldType, hold
<1>2. CASE RenewOk(r)
  BY <1>2, Zenon DEF RenewOk, HoldInv, Core, CapabilityNeedsHold, InstallClean, EntryOwnsRun,
     EntType, RunType, CapType, HoldType, hold
<1>3. CASE RenewFailed(r)
  BY <1>3, Zenon DEF RenewFailed, HoldInv, Core, CapabilityNeedsHold, InstallClean, EntryOwnsRun,
     EntType, RunType, CapType, HoldType, hold
<1>4. CASE Crash(r)
  <2> USE <1>4
  <2>1. \A q \in Replicas : q # r => /\ ent'[q] = ent[q] /\ run'[q] = run[q] /\ cap'[q] = cap[q]
                                     /\ valid'[q] = valid[q] /\ lost'[q] = lost[q]
                                     /\ held'[q] = held[q]
    BY DEF Crash, HoldInv, EntType, RunType, CapType, HoldType
  <2>2. ent'[r].pc = "off" /\ ent'[r].op \notin RunOps /\ cap'[r] = "none" /\ ~valid'[r]
    BY Zenon DEF Crash, HoldInv, EntType, CapType, HoldType, NoEntry, RunOps
  <2>3. CapabilityNeedsHold' /\ InstallClean'
    <3>1. ASSUME NEW q \in Replicas, q # r
          PROVE  /\ cap'[q] = "yes" => valid'[q] /\ ~lost'[q]
                 /\ valid'[q] => held'[q] # 0
                 /\ ent'[q].pc = "install" => ~valid'[q] /\ (ent'[q].op = "settle" \/ ~lost'[q])
      BY <2>1, <3>1, Zenon DEF HoldInv, CapabilityNeedsHold, InstallClean
    <3> QED
      BY <2>2, <3>1, Zenon DEF CapabilityNeedsHold, InstallClean
  <2>4. EntryOwnsRun'
    <3>1. ASSUME NEW q \in Replicas, q # r
          PROVE  /\ ent'[q].op \in RunOps => run'[q].ph = "prov"
                 /\ ent'[q].pc = "launch" => ent'[q].op \in RunOps
      BY <2>1, <3>1, Zenon DEF HoldInv, EntryOwnsRun
    <3> QED
      BY <2>2, <3>1, Zenon DEF EntryOwnsRun
  <2> QED
    BY <2>3, <2>4, Zenon DEF Core
<1> QED
  BY <1>1, <1>2, <1>3, <1>4, Zenon

-----------------------------------------------------------------------------
(* The theorems *)

\* A stuttering step changes nothing.
LEMMA StutterInv == HoldInv /\ UNCHANGED vars => HoldInv'
<1> SUFFICES ASSUME HoldInv, UNCHANGED vars PROVE HoldInv'
  OBVIOUS
<1>1. TypeOK'
  BY Zenon DEF vars, lease, data, hold, HoldInv, TypeOK
<1>2. CapabilityNeedsHold' /\ InstallClean' /\ EntryOwnsRun'
  BY Zenon DEF vars, hold, HoldInv, CapabilityNeedsHold, InstallClean, EntryOwnsRun
<1> QED
  BY <1>1, <1>2 DEF HoldInv

\* The inductive step: one case per action of the Service, the backend and the
\* store.
LEMMA NextInv == HoldInv /\ Next => HoldInv'
<1> SUFFICES ASSUME HoldInv, Next PROVE TypeOK' /\ Core'
  BY DEF HoldInv, Core
<1> USE DEF HoldInv
<1>1. CASE Expire
  BY <1>1, ExpireType, ExpireCore
<1>2. ASSUME NEW w \in writes, Land(w) PROVE TypeOK' /\ Core'
  BY <1>2, LandType, LandCore
<1>3. ASSUME NEW r \in Replicas, NEW o \in EntryOps, Enter(r, o) PROVE TypeOK' /\ Core'
  BY <1>3, EnterType, EnterCore
<1>4. ASSUME NEW r \in Replicas, EntryStep(r) PROVE TypeOK' /\ Core'
  BY <1>4, EntryStepType, EntryStepCore
<1>5. ASSUME NEW r \in Replicas, RunStep(r) PROVE TypeOK' /\ Core'
  BY <1>5, RunStepType, RunStepCore
<1>6. ASSUME NEW r \in Replicas, LossWork(r) PROVE TypeOK' /\ Core'
  BY <1>6, LossWorkType, LossWorkCore
<1>7. ASSUME NEW r \in Replicas, Sweep(r) PROVE TypeOK' /\ Core'
  BY <1>7, SweepType, SweepCore
<1>8. ASSUME NEW r \in Replicas, DrainGate(r) \/ DrainWork(r) PROVE TypeOK' /\ Core'
  BY <1>8, DrainStepType, DrainStepCore
<1>9. ASSUME NEW r \in Replicas,
            RemoveCapability(r) \/ RenewOk(r) \/ RenewFailed(r) \/ Crash(r)
     PROVE  TypeOK' /\ Core'
  BY <1>9, HoldStepType, HoldStepCore
<1> QED
  BY <1>1, <1>2, <1>3, <1>4, <1>5, <1>6, <1>7, <1>8, <1>9 DEF Next

\* HoldInv is an invariant: the shapes of all the Service's maps, and the facts
\* about run-entry transactions that keep holds and capabilities together.
THEOREM HoldInvariant == Spec => []HoldInv
  BY InitHoldInv, NextInv, StutterInv, PTL DEF Spec

\* Types are kept (the maps of Service, heldLease, runState, the drain).
THEOREM TypeTheorem == Spec => []TypeOK
<1>1. HoldInv => TypeOK
  BY DEF HoldInv
<1> QED
  BY <1>1, HoldInvariant, PTL

\* Whatever number of replicas, operations, faults and expiries: a granted
\* mutation capability has a valid hold and no lost-ownership tombstone behind
\* it (SessionMutationCapability, acquireLeaseCore, onLeaseLost, releaseLease,
\* retainLeaseForTTL, ReconcileLeaseLossTombstone).
THEOREM CapabilityTheorem == Spec => []CapabilityNeedsHold
<1>1. HoldInv => CapabilityNeedsHold
  BY DEF HoldInv
<1> QED
  BY <1>1, HoldInvariant, PTL

\* No step but the loss handler of the current hold's own renewer sets a
\* tombstone.
LEMMA TombstoneStep ==
  ASSUME HoldInv, Next, NEW r \in Replicas, ~lost[r], lost'[r]
  PROVE  held[r] \in ren[r]
<1>0. HoldType
  BY DEF HoldInv
<1>1. CASE Expire \/ \E w \in writes : Land(w)
  BY <1>1, Zenon DEF Expire, Land, hold
<1>2. ASSUME NEW q \in Replicas, NEW o \in EntryOps, Enter(q, o) PROVE FALSE
  BY <1>2, Zenon DEF Enter, RemoveRun, hold
<1>3. ASSUME NEW q \in Replicas, EntryStep(q) PROVE FALSE
  <2>1. CASE UNCHANGED hold
    BY <2>1 DEF hold
  <2>2. CASE Install(q) \/ CloseLocal(q)
    BY <1>0, <2>2, Zenon DEF Install, CloseLocal, HoldType
  <2>3. CASE Cleanup(q) \/ DropLease(q)
    BY <2>3, Zenon DEF Cleanup, RemoveRun, DropLease, ReleaseLocal, hold
  <2> QED
    BY <1>3, <2>1, <2>2, <2>3, Zenon DEF EntryStep, AcquireRefused, AcquireKept, AcquireWon,
       AcquireFailed, BeginPrompt, BeginApprove, BeginAsk, BeginMutation, BeginClose,
       SaveAdmitted, SaveFailed, Launch, LaunchFailed, Release, ForgetCapability
<1>4. ASSUME NEW q \in Replicas, RunStep(q) PROVE FALSE
  BY <1>4 DEF RunStep, RunAsks, RunAnswered, RunEnds, RunSave, FinishRun, RemoveRun, hold
<1>5. ASSUME NEW q \in Replicas, LossWork(q) PROVE held[r] \in ren[r]
  <2>1. CASE UNCHANGED hold
    BY <2>1 DEF hold
  <2>2. ASSUME NEW g \in ren[q], LossDeclared(q, g), ~UNCHANGED hold PROVE held[r] \in ren[r]
    <3>1. StillCurrent(q, g) /\ lost' = [lost EXCEPT ![q] = TRUE]
      BY <2>2, Zenon DEF LossDeclared
    <3>2. q = r
      BY <1>0, <3>1 DEF HoldType
    <3> QED
      BY <3>1, <3>2, Zenon DEF StillCurrent
  <2> QED
    BY <1>5, <2>1, <2>2 DEF LossWork, LossCancels, LossReleases
<1>6. ASSUME NEW q \in Replicas, Sweep(q) PROVE FALSE
  BY <1>0, <1>6, Zenon DEF Sweep, ReconcileStarts, TrialFree, TrialHeld, TrialReleases,
     ReconcileClears, hold, HoldType
<1>7. ASSUME NEW q \in Replicas, DrainWork(q) PROVE FALSE
  BY <1>7, Zenon DEF DrainWork, DrainSnapshot, DrainCancels, DrainSettles, DrainTimesOut,
     DrainDrops, DrainReleases, DrainForgets, ReleaseLocal, hold
<1>8. ASSUME NEW q \in Replicas,
             RemoveCapability(q) \/ RenewOk(q) \/ RenewFailed(q) \/ DrainGate(q) \/ Crash(q)
      PROVE  FALSE
  BY <1>0, <1>8 DEF RemoveCapability, RenewOk, RenewFailed, DrainGate, Crash, hold, HoldType
<1> QED
  BY <1>1, <1>2, <1>3, <1>4, <1>5, <1>6, <1>7, <1>8, Zenon DEF Next

\* Ownership is declared lost only by a failing Renew of the hold that is current
\* at that moment, never by a straggling renewer of an earlier one (renewLoop,
\* onLeaseLost).
THEOREM RenewerTheorem == Spec => OnlyOwnRenewerEndsHold
<1>1. HoldInv /\ [Next]_vars
        => [\A r \in Replicas : ~lost[r] /\ lost'[r] => held[r] \in ren[r]]_vars
  BY TombstoneStep, Zenon
<1> QED
  BY <1>1, HoldInvariant, PTL DEF Spec, OnlyOwnRenewerEndsHold

-----------------------------------------------------------------------------
(* A run saves only under its own hold *)

\* A step that launches nothing, installs no hold and begins no acquisition.
Recedes(q) ==
    /\ Launched(q)' => Launched(q) /\ run'[q].gen = run[q].gen
    /\ valid'[q] => valid[q] /\ held'[q] = held[q]
    /\ ent'[q].pc \in {"acquire", "install"} => ent[q].pc \in {"acquire", "install"}

LEMMA RecedingKeepsGuard ==
  ASSUME GuardInv, \A q \in Replicas : Recedes(q)
  PROVE  GuardInv'
  BY Zenon DEF GuardInv, Recedes

\* Rewriting fields of a run other than its phase and its generation, or removing it.
RunKept ==
    \A q \in Replicas : Launched(q)' => Launched(q) /\ run'[q].gen = run[q].gen
HoldsKept ==
    \A q \in Replicas : valid'[q] => valid[q] /\ held'[q] = held[q]
EntriesOn ==
    \A q \in Replicas :
        ent'[q].pc \in {"acquire", "install"} => ent[q].pc \in {"acquire", "install"}

LEMMA RecedingParts ==
  ASSUME RunKept, HoldsKept, EntriesOn
  PROVE  \A q \in Replicas : Recedes(q)
  BY DEF RunKept, HoldsKept, EntriesOn, Recedes

LEMMA RunSame ==
  ASSUME UNCHANGED run
  PROVE  RunKept
  BY DEF RunKept, Launched

LEMMA HoldSame ==
  ASSUME UNCHANGED hold
  PROVE  HoldsKept
  BY DEF HoldsKept, hold

LEMMA EntSame ==
  ASSUME UNCHANGED ent
  PROVE  EntriesOn
  BY DEF EntriesOn

LEMMA EntGoes ==
  ASSUME EntType, NEW r \in Replicas, NEW pc \in EntryPc \ {"acquire", "install"},
         Goto(r, pc) \/ Leave(r) \/ Fail(r)
  PROVE  EntriesOn
<1>1. CASE Goto(r, pc) \/ Goto(r, "cleanup")
  BY <1>1, Zenon DEF Goto, EntType, Entry, EntriesOn
<1>2. CASE Leave(r)
  BY <1>2 DEF Leave, NoEntry, EntType, EntriesOn
<1> QED
  BY <1>1, <1>2 DEF Fail

LEMMA EntRewritten ==
  ASSUME EntType, NEW r \in Replicas, NEW e, ent' = [ent EXCEPT ![r] = e],
         e.pc \notin {"acquire", "install"}
  PROVE  EntriesOn
  BY DEF EntType, EntriesOn

LEMMA RunRemoved ==
  ASSUME RunType, NEW r \in Replicas, run' = [run EXCEPT ![r] = NoRun]
  PROVE  RunKept
  BY DEF RunType, NoRun, RunKept, Launched

\* A run whose record at r is replaced by one of the same phase and generation.
LEMMA RunRewritten ==
  ASSUME RunType, NEW r \in Replicas, NEW x, run' = [run EXCEPT ![r] = x],
         x.ph \in {"active", "ended"} => Launched(r) /\ x.gen = run[r].gen
  PROVE  RunKept
  BY DEF RunType, RunKept, Launched

LEMMA RunStopped ==
  ASSUME RunType, NEW r \in Replicas, run' = [run EXCEPT ![r].stop = TRUE]
  PROVE  RunKept
<1>1. CASE run[r] = NoRun
  BY <1>1 DEF RunType, NoRun, RunKept, Launched
<1>2. CASE run[r] \in Run
  BY <1>2 DEF RunType, Run, RunKept, Launched
<1> QED
  BY <1>1, <1>2 DEF RunType

LEMMA RemoveRunHolds ==
  ASSUME HoldType, NEW r \in Replicas, RemoveRun(r)
  PROVE  HoldsKept
  BY DEF HoldType, RemoveRun, HoldsKept

LEMMA ReleaseLocalKeeps ==
  ASSUME HoldType, RunType, NEW r \in Replicas, ReleaseLocal(r)
  PROVE  HoldsKept /\ RunKept
<1>1. HoldsKept
  BY DEF ReleaseLocal, HoldType, HoldsKept
<1>2. RunKept
  <2>1. CASE UNCHANGED run
    BY <2>1, RunSame
  <2>2. CASE run[r] # NoRun /\ run' = [run EXCEPT ![r].rmcap = valid[r]]
    BY <2>2, RegisteredRun, Zenon DEF RunType, Run, RunKept, Launched
  <2> QED
    BY <2>1, <2>2 DEF ReleaseLocal
<1> QED
  BY <1>1, <1>2

LEMMA EntryRecedes ==
  ASSUME HoldInv, NEW r \in Replicas, EntryStep(r), ~Install(r), ~Launch(r)
  PROVE  \A q \in Replicas : Recedes(q)
<1>0. HoldType /\ RunType /\ EntType /\ ent[r] \in Entry
  BY DEF HoldInv, EntType
<1>1. CASE \/ AcquireRefused(r) \/ AcquireKept(r) \/ AcquireFailed(r) \/ BeginClose(r)
           \/ SaveAdmitted(r) \/ SaveFailed(r) \/ LaunchFailed(r) \/ Release(r)
           \/ ForgetCapability(r)
  <2>1. UNCHANGED <<hold, run>>
    BY <1>1, Zenon DEF AcquireRefused, AcquireKept, AcquireFailed, BeginClose, SaveAdmitted,
       SaveFailed, LaunchFailed, Release, ForgetCapability
  <2>2. \E pc \in EntryPc \ {"acquire", "install"} : Goto(r, pc) \/ Leave(r) \/ Fail(r)
    <3>1. {"leased", "lock", "saving", "cleanup", "drop", "forget"}
            \subseteq EntryPc \ {"acquire", "install"}
      BY DEF EntryPc
    <3> QED
      BY <1>1, <3>1, Zenon DEF AcquireRefused, AcquireKept, AcquireFailed, BeginClose, SaveAdmitted,
         SaveFailed, LaunchFailed, Release, ForgetCapability
  <2> QED
    BY <1>0, <2>1, <2>2, EntGoes, RunSame, HoldSame, RecedingParts
<1>2. CASE AcquireWon(r)
  <2>1. EntriesOn
    BY <1>0, <1>2 DEF AcquireWon, EntType, EntriesOn
  <2>2. UNCHANGED <<hold, run>>
    BY <1>2 DEF AcquireWon
  <2> QED
    BY <2>1, <2>2, RunSame, HoldSame, RecedingParts
<1>3. CASE BeginPrompt(r) \/ BeginApprove(r) \/ BeginMutation(r)
  <2>1. EntriesOn
    <3>1. CASE BeginPrompt(r)
      BY <1>0, <3>1 DEF BeginPrompt, EntType, Entry, EntriesOn
    <3>2. CASE BeginApprove(r)
      BY <1>0, <3>2, Zenon DEF BeginApprove, EntType, Entry, EntriesOn
    <3>3. CASE BeginMutation(r)
      BY <1>0, <3>3 DEF BeginMutation, EntType, EntriesOn
    <3> QED
      BY <1>3, <3>1, <3>2, <3>3
  <2>2. UNCHANGED <<hold, run>>
    BY <1>3 DEF BeginPrompt, BeginApprove, BeginMutation
  <2> QED
    BY <2>1, <2>2, RunSame, HoldSame, RecedingParts
<1>4. CASE BeginAsk(r)
  <2>1. EntriesOn
    <3> DEFINE e == [ent[r] EXCEPT !.pc = "launch", !.gen = held[r], !.base = store.ver,
                                 !.fresh = TRUE]
    <3>1. "cleanup" \in EntryPc \ {"acquire", "install"} /\ e.pc = "launch"
      BY <1>0 DEF Entry, EntryPc
    <3>2. ent' = [ent EXCEPT ![r] = e] \/ Goto(r, "cleanup")
      BY <1>4 DEF BeginAsk, AskSnapshot
    <3> HIDE DEF e
    <3> QED
      BY <1>0, <3>1, <3>2, EntRewritten, EntGoes
  <2>2. RunKept
    <3>1. run[r] \in Run
      BY <1>0, <1>4, RegisteredRun DEF BeginAsk, HoldInv, EntryOwnsRun, RunOps
    <3>2. CASE run' = [run EXCEPT ![r].base = store.ver, ![r].fresh = TRUE]
      BY <1>0, <3>1, <3>2 DEF RunType, Run, RunKept, Launched
    <3> QED
      BY <1>4, <3>2, RunSame DEF BeginAsk, AskSnapshot
  <2>3. HoldsKept
    BY <1>4, HoldSame DEF BeginAsk
  <2> QED
    BY <2>1, <2>2, <2>3, RecedingParts
<1>5. CASE Cleanup(r)
  <2>1. "off" \in EntryPc \ {"acquire", "install"}
    BY DEF EntryPc
  <2> QED
    BY <1>0, <1>5, <2>1, EntGoes, RunRemoved, RemoveRunHolds, RecedingParts, Zenon DEF Cleanup
<1>6. CASE CloseLocal(r)
  <2>1. EntriesOn
    BY <1>0, <1>6 DEF CloseLocal, EntType, Entry, EntriesOn
  <2>2. HoldsKept
    BY <1>6 DEF CloseLocal, HoldsKept
  <2> QED
    BY <1>6, <2>1, <2>2, RunSame, RecedingParts DEF CloseLocal
<1>7. CASE DropLease(r)
  <2>1. EntriesOn
    <3> DEFINE e == [ent[r] EXCEPT !.pc = "release", !.tok = tok[r], !.flag = run[r] = NoRun]
    <3>1. "off" \in EntryPc \ {"acquire", "install"} /\ e.pc = "release"
      BY <1>0 DEF Entry, EntryPc
    <3>2. ent' = [ent EXCEPT ![r] = e] \/ Leave(r)
      BY <1>7 DEF DropLease
    <3> HIDE DEF e
    <3> QED
      BY <1>0, <3>1, <3>2, EntRewritten, EntGoes
  <2>2. HoldsKept /\ RunKept
    BY <1>0, <1>7, ReleaseLocalKeeps, RunSame, HoldSame DEF DropLease
  <2> QED
    BY <2>1, <2>2, RecedingParts
<1> QED
  BY <1>1, <1>2, <1>3, <1>4, <1>5, <1>6, <1>7 DEF EntryStep

LEMMA RunRecedes ==
  ASSUME HoldInv, NEW r \in Replicas, RunStep(r)
  PROVE  \A q \in Replicas : Recedes(q)
<1>0. HoldType /\ RunType
  BY DEF HoldInv
<1>1. UNCHANGED ent
  BY DEF RunStep, RunAsks, RunAnswered, RunEnds, RunSave, FinishRun
<1>2. CASE RunAsks(r) \/ RunAnswered(r) \/ RunEnds(r)
  <2>1. run[r] \in Run
    BY <1>0, <1>2, RegisteredRun DEF RunAsks, RunAnswered, RunEnds
  <2>2. RunKept
    <3>1. CASE RunAsks(r)
      BY <1>0, <2>1, <3>1 DEF RunAsks, RunType, Run, RunKept, Launched
    <3>2. CASE RunAnswered(r)
      BY <1>0, <2>1, <3>2 DEF RunAnswered, RunType, Run, RunKept, Launched
    <3>3. CASE RunEnds(r)
      <4> DEFINE x == [run[r] EXCEPT !.ph = "ended", !.parked = FALSE,
                                   !.st = IF run[r].stop THEN "cancelled" ELSE "done"]
      <4>1. x.gen = run[r].gen
        BY <2>1 DEF Run
      <4>2. run' = [run EXCEPT ![r] = x] /\ Launched(r)
        BY <3>3 DEF RunEnds, Launched
      <4> HIDE DEF x
      <4> QED
        BY <1>0, <4>1, <4>2, RunRewritten, Zenon
    <3> QED
      BY <1>2, <3>1, <3>2, <3>3
  <2> QED
    BY <1>1, <1>2, <2>2, EntSame, HoldSame, RecedingParts DEF RunAsks, RunAnswered, RunEnds
<1>3. CASE RunSave(r)
  BY <1>1, <1>3, EntSame, HoldSame, RunSame, RecedingParts, Zenon DEF RunSave
<1>4. CASE FinishRun(r)
  BY <1>0, <1>1, <1>4, EntSame, RunRemoved, RemoveRunHolds, RecedingParts, Zenon DEF FinishRun
<1> QED
  BY <1>2, <1>3, <1>4 DEF RunStep

LEMMA LossRecedes ==
  ASSUME HoldInv, NEW r \in Replicas, LossWork(r) \/ Sweep(r)
  PROVE  \A q \in Replicas : Recedes(q)
<1>0. HoldType /\ RunType
  BY Zenon DEF HoldInv
<1>1. UNCHANGED ent
  BY Zenon DEF LossWork, LossDeclared, LossCancels, LossReleases, Sweep, ReconcileStarts, TrialFree,
     TrialHeld, TrialReleases, ReconcileClears
<1>2. RunKept
  <2>1. CASE run' = [run EXCEPT ![r].stop = TRUE]
    BY <1>0, <2>1, RunStopped, Zenon
  <2>2. CASE UNCHANGED run
    BY <2>2, RunSame, Zenon
  <2> QED
    BY <2>1, <2>2 DEF LossWork, LossDeclared, LossCancels, LossReleases, Sweep, ReconcileStarts,
       TrialFree, TrialHeld, TrialReleases, ReconcileClears
<1>3. HoldsKept
  <2>1. CASE UNCHANGED hold
    BY <2>1, HoldSame, Zenon
  <2>2. CASE ReconcileClears(r)
    BY <1>0, <2>2 DEF ReconcileClears, Reacquired, HoldType, HoldsKept
  <2>3. ASSUME NEW g \in ren[r], LossDeclared(r, g), ~UNCHANGED hold
        PROVE  HoldsKept
    BY <1>0, <2>3, Zenon DEF LossDeclared, HoldType, HoldsKept
  <2> QED
    BY <2>1, <2>2, <2>3 DEF LossWork, LossCancels, LossReleases, Sweep, ReconcileStarts,
       TrialFree, TrialHeld, TrialReleases
<1> QED
  BY <1>1, <1>2, <1>3, EntSame, RecedingParts

LEMMA DrainRecedes ==
  ASSUME HoldInv, NEW r \in Replicas, DrainGate(r) \/ DrainWork(r)
  PROVE  \A q \in Replicas : Recedes(q)
<1>0. HoldType /\ RunType
  BY DEF HoldInv
<1>1. UNCHANGED ent
  BY Zenon DEF DrainGate, DrainWork, DrainSnapshot, DrainCancels, DrainSettles, DrainTimesOut, DrainDrops,
     DrainReleases, DrainForgets
<1>2. CASE DrainGate(r) \/ DrainCancels(r)
  <2>1. run' = run \/ run' = [run EXCEPT ![r].stop = TRUE]
    BY <1>2 DEF DrainGate, DrainCancels
  <2>2. UNCHANGED hold
    BY <1>2 DEF DrainGate, DrainCancels
  <2> QED
    BY <1>0, <1>1, <2>1, <2>2, EntSame, HoldSame, RunSame, RunStopped, RecedingParts, Zenon
<1>3. CASE DrainSnapshot(r)
  <2>1. CASE run[r] = NoRun
    BY <1>1, <1>3, <2>1, EntSame, HoldSame, RunSame, RecedingParts DEF DrainSnapshot
  <2>2. CASE run[r] # NoRun
    <3>1. run[r] \in Run
      BY <1>0, <2>2, RegisteredRun
    <3>2. RunKept
      BY <1>0, <1>3, <2>2, <3>1, SMTT(30) DEF DrainSnapshot, RunType, Run, RunKept, Launched
    <3> QED
      BY <1>1, <1>3, <3>2, EntSame, HoldSame, RecedingParts, Zenon DEF DrainSnapshot
  <2> QED
    BY <2>1, <2>2
<1>4. CASE DrainSettles(r) \/ DrainReleases(r) \/ DrainForgets(r)
  BY <1>1, <1>4, EntSame, HoldSame, RunSame, RecedingParts DEF DrainSettles, DrainReleases,
     DrainForgets
<1>5. CASE DrainTimesOut(r)
  <2>1. HoldsKept
    BY <1>0, <1>5 DEF DrainTimesOut, HoldType, HoldsKept
  <2> QED
    BY <1>1, <1>5, <2>1, EntSame, RunSame, RecedingParts DEF DrainTimesOut
<1>6. CASE DrainDrops(r)
  BY <1>0, <1>1, <1>6, EntSame, ReleaseLocalKeeps, RecedingParts, Zenon DEF DrainDrops
<1> QED
  BY <1>2, <1>3, <1>4, <1>5, <1>6 DEF DrainWork

\* A hold is installed, and a run launched, only by an entry that found no launched run
\* or replaced it.
LEMMA GuardStep ==
  ASSUME "load" \notin Ops, "close" \notin Ops, HoldInv, GuardInv, Next
  PROVE  GuardInv'
<1>0. HoldType /\ RunType /\ EntType /\ WritesType
  BY DEF HoldInv
<1>1. CASE Expire
  BY <1>1, EntSame, HoldSame, RunSame, RecedingParts, RecedingKeepsGuard, Zenon DEF Expire
<1>2. ASSUME NEW w \in writes, Land(w) PROVE GuardInv'
  <2>0. w.by \in Replicas
    BY <1>0 DEF WritesType, Write
  <2>1. RunKept
    <3>1. CASE run[w.by] = NoRun
      BY <1>0, <1>2, <2>0, <3>1, Blank, SMTT(30) DEF Land, RunType, RunKept, Launched
    <3>2. CASE run[w.by] \in Run
      BY <1>0, <1>2, <2>0, <3>2, Zenon DEF Land, RunType, Run, RunKept, Launched
    <3> QED
      BY <1>0, <2>0, <3>1, <3>2, Zenon DEF RunType
  <2>2. EntriesOn
    BY <1>0, <1>2, <2>0, SMTT(30) DEF Land, EntType, Entry, EntriesOn
  <2> QED
    BY <1>2, <2>1, <2>2, HoldSame, RecedingParts, RecedingKeepsGuard, Zenon DEF Land
<1>3. ASSUME NEW r \in Replicas, NEW o \in EntryOps, Enter(r, o) PROVE GuardInv'
  <2>1. HoldsKept
    BY <1>0, <1>3, HoldSame, RemoveRunHolds, Zenon DEF Enter
  <2>2. \A q \in Replicas \ {r} : run'[q] = run[q] /\ ent'[q] = ent[q]
    BY <1>0, <1>3, Zenon DEF Enter, RunType, EntType
  <2>3. run'[r].ph \notin {"active", "ended"}
    <3>1. CASE o \in RunOps
      <4> DEFINE q == [ph |-> "prov", st |-> store.st, base |-> store.ver, fresh |-> valid[r],
                       gen |-> 0, parked |-> FALSE, stop |-> FALSE, preserve |-> FALSE,
                       rmcap |-> FALSE]
      <4>1. q.ph = "prov"
        OBVIOUS
      <4>2. run' = [run EXCEPT ![r] = q]
        BY <1>3, <3>1, Zenon DEF Enter
      <4> HIDE DEF q
      <4>3. run'[r] = q
        BY <1>0, <4>2, Zenon DEF RunType
      <4> QED
        BY <4>1, <4>3, Zenon
    <3>2. CASE o \notin RunOps
      <4>1. o \in {"settle", "end"}
        BY <1>3, <3>2, Zenon DEF Enter, EntryOps, CloseOps
      <4>2. run[r] = NoRun /\ UNCHANGED run
        BY <1>3, <3>2, <4>1, Zenon DEF Enter, Admits, RunOps
      <4> QED
        BY <4>2, Blank
    <3> QED
      BY <3>1, <3>2
  <2> QED
    BY <2>1, <2>2, <2>3, Zenon DEF GuardInv, HoldsKept, Launched
<1>4. ASSUME NEW r \in Replicas, Install(r) PROVE GuardInv'
  <2>1. \A q \in Replicas \ {r} : valid'[q] = valid[q] /\ held'[q] = held[q] /\ ent'[q] = ent[q]
    BY <1>0, <1>4 DEF Install, Goto, HoldType, EntType
  <2>2. ~Launched(r) /\ UNCHANGED run
    BY <1>4, Zenon DEF Install, GuardInv
  <2> QED
    BY <2>1, <2>2 DEF GuardInv, Launched
<1>5. ASSUME NEW r \in Replicas, Launch(r) PROVE GuardInv'
  <2>1. \A q \in Replicas \ {r} : run'[q] = run[q] /\ ent'[q] = ent[q]
    BY <1>0, <1>5, Zenon DEF Launch, Leave, RunType, EntType
  <2>2. run'[r].gen = ent[r].gen
    BY <1>0, <1>5, Zenon DEF Launch, RunType
  <2>3. held[r] = ent[r].gen /\ UNCHANGED hold /\ ent'[r].pc = "off"
    BY <1>0, <1>5, Zenon DEF Launch, MayLaunch, Leave, NoEntry, EntType
  <2> QED
    BY <2>1, <2>2, <2>3, Zenon DEF GuardInv, Launched, hold
<1>6. ASSUME NEW r \in Replicas, EntryStep(r), ~Install(r), ~Launch(r) PROVE GuardInv'
  BY <1>6, EntryRecedes, RecedingKeepsGuard
<1>7. ASSUME NEW r \in Replicas,
             \/ RunStep(r) \/ LossWork(r) \/ Sweep(r) \/ DrainGate(r) \/ DrainWork(r)
      PROVE  GuardInv'
  BY <1>7, RunRecedes, LossRecedes, DrainRecedes, RecedingKeepsGuard
<1>8. ASSUME NEW r \in Replicas, RemoveCapability(r) \/ RenewOk(r) \/ RenewFailed(r)
      PROVE  GuardInv'
  BY <1>8, EntSame, HoldSame, RunSame, RecedingParts, RecedingKeepsGuard, Zenon
     DEF RemoveCapability, RenewOk, RenewFailed
<1>9. ASSUME NEW r \in Replicas, Crash(r) PROVE GuardInv'
  <2>1. EntriesOn
    BY <1>0, <1>9, Zenon DEF Crash, NoEntry, EntType, EntriesOn
  <2>2. HoldsKept
    BY <1>0, <1>9 DEF Crash, HoldType, HoldsKept
  <2> QED
    BY <1>0, <1>9, <2>1, <2>2, RunRemoved, RecedingParts, RecedingKeepsGuard, Zenon DEF Crash
<1> QED
  BY <1>1, <1>2, <1>3, <1>4, <1>5, <1>6, <1>7, <1>8, <1>9, Zenon DEF Next

\* Where the lease is acquired only by prompt, approve, ask, settle and end, a save of a
\* launched run is admitted only while the hold that run was launched under is the current
\* one, whatever losses, sweeps and drains came between: the capability implies a valid hold
\* and no later hold is installed beside a launched run (RunSave through
\* capabilityStore.Save; acquireLeaseCore, promoteRunAdmission).  LoadSession and
\* CloseSession may acquire beside a run whose lease was lost, hence the assumption.
THEOREM SavesTheorem ==
  ASSUME "load" \notin Ops, "close" \notin Ops
  PROVE  Spec => SavesUnderOwnHold
<1>1. Init => GuardInv
  <2>1. ASSUME Init, NEW r \in Replicas PROVE ~Launched(r)
    BY <2>1, InitParts, Blank, Zenon DEF Launched
  <2> QED
    BY <2>1, Zenon DEF GuardInv
<1>2. HoldInv /\ GuardInv /\ [Next]_vars => GuardInv'
  <2>1. GuardInv /\ UNCHANGED vars => GuardInv'
    BY Zenon DEF GuardInv, Launched, vars, hold
  <2> QED
    BY <2>1, GuardStep
<1>3. HoldInv /\ GuardInv /\ [Next]_vars
        => [\A r \in Replicas : RunSave(r) => held[r] = run[r].gen]_vars
  BY Zenon DEF RunSave, SaveAllowed, HoldInv, CapabilityNeedsHold, GuardInv, Launched
<1> QED
  BY <1>1, <1>2, <1>3, HoldInvariant, PTL DEF Spec, SavesUnderOwnHold

-----------------------------------------------------------------------------
(* A hold a process believes in is the backend's live record *)

\* SettleIfStale bypasses the drain gate and the tombstone: it must not meet one.
Unbypassed == "settle" \in Ops => "drain" \notin Ops /\ "fault" \notin Ops

OwnsNext(r, t) == holder'[Sid] = r /\ token'[Sid] = t /\ ~lapsed'[Sid]

\* The step leaves replica q alone.
Spares(q) ==
    /\ up'[q] = up[q] /\ draining'[q] = draining[q]
    /\ valid'[q] = valid[q] /\ tok'[q] = tok[q] /\ lost'[q] = lost[q]
    /\ ent'[q] = ent[q] /\ ren'[q] = ren[q] /\ loss'[q] = loss[q] /\ rec'[q] = rec[q]
    /\ dr'[q].pc = dr[q].pc
SparesOthers(r) == \A q \in Replicas \ {r} : Spares(q)

\* ... and takes no live lease from a replica other than r.
LeaseSpared(r) == \A q \in Replicas \ {r}, t \in Nat : Owns(q, t) => OwnsNext(q, t)

\* A drain's save in flight is still that of a draining process.
DrainWrites == \A w \in writes : w.src = "drain" => draining[w.by]

\* What a step of replica r must show.
LEMMA AgreeFrame ==
  ASSUME HoldInv, AgreeInv, NEW r \in Replicas, SparesOthers(r), LeaseSpared(r), Reliance(r)',
         DrainWrites'
  PROVE  AgreeInv'
<1>1. ASSUME NEW q \in Replicas \ {r} PROVE Reliance(q)'
  <2>1. Reliance(q) /\ Spares(q)
    BY Zenon DEF AgreeInv, SparesOthers
  <2>2. tok[q] \in Nat /\ ent[q].tok \in Nat
    BY DEF HoldInv, HoldType, EntType, Entry
  <2>3. \A t \in Nat : Owns(q, t) => OwnsNext(q, t)
    BY DEF LeaseSpared
  <2> QED
    BY <2>1, <2>2, <2>3, Zenon DEF Reliance, Spares, Owns, OwnsNext
<1> QED
  BY <1>1, Zenon DEF AgreeInv, DrainWrites

LEMMA LeaseSame ==
  ASSUME UNCHANGED lease, NEW r \in Replicas
  PROVE  LeaseSpared(r)
  BY Zenon DEF LeaseSpared, Owns, OwnsNext, lease

\* A grant takes over a free or lapsed lease, or refreshes the owner's own.
LEMMA GrantSpares ==
  ASSUME HoldInv, NEW o, BackendGrant(o)
  PROVE  \A q \in Replicas, t \in Nat : Owns(q, t) => OwnsNext(q, t)
<1>0. \A q \in Replicas : q # NoOwner
  BY OwnersAssumption
<1>1. CASE L!Takeover(Sid, o)
  BY <1>0, <1>1, Zenon DEF L!Takeover, Owns
<1>2. CASE L!Refresh(Sid)
  BY <1>2 DEF L!Refresh, Owns, OwnsNext, BackendGrant
<1> QED
  BY <1>1, <1>2 DEF BackendGrant

\* A release takes the lease from its owner only.
LEMMA ReleaseSpares ==
  ASSUME NEW o, NEW s, BackendRelease(o, s)
  PROVE  \A q \in Replicas \ {o}, t \in Nat : Owns(q, t) => OwnsNext(q, t)
<1>1. CASE UNCHANGED lease
  BY <1>1, Zenon DEF Owns, OwnsNext, lease
<1>2. CASE ~UNCHANGED lease
  BY <1>2, Zenon DEF BackendRelease, Owns
<1> QED
  BY <1>1, <1>2

\* Steps that keep lease, holds, losses and drain, and move an entry neither to its
\* installation nor to a release.
Unmoved ==
    /\ UNCHANGED <<lease, up, draining, valid, tok, lost, ren, loss, rec>>
    /\ \A q \in Replicas : dr'[q].pc = dr[q].pc
EntryCalm ==
    \A q \in Replicas : \/ ent'[q] = ent[q]
                        \/ /\ ent'[q].pc \notin {"install", "release"}
                           /\ ent'[q].op \in {ent[q].op, "none"} \cup Ops

LEMMA CalmKeeps ==
  ASSUME AgreeInv, Unmoved, EntryCalm, DrainWrites'
  PROVE  AgreeInv'
<1>1. ASSUME NEW q \in Replicas PROVE Reliance(q)'
  <2>1. Reliance(q)
    BY DEF AgreeInv
  <2>2. CASE ent'[q] = ent[q]
    BY <2>1, <2>2, Zenon DEF Unmoved, Reliance, Owns, lease
  <2>3. CASE /\ ent'[q].pc \notin {"install", "release"}
             /\ ent'[q].op \in {ent[q].op, "none"} \cup Ops
    BY <2>1, <2>3, Zenon DEF Unmoved, Reliance, Owns, lease
  <2> QED
    BY <2>2, <2>3 DEF EntryCalm
<1> QED
  BY <1>1, Zenon DEF AgreeInv, DrainWrites

LEMMA DrainWritesSame ==
  ASSUME AgreeInv, UNCHANGED draining, writes' \subseteq writes
  PROVE  DrainWrites'
  BY DEF AgreeInv, DrainWrites

LEMMA DrainWritesGrow ==
  ASSUME AgreeInv, NEW w, w.src # "drain", writes' = writes \cup {w}, UNCHANGED draining
  PROVE  DrainWrites'
  BY DEF AgreeInv, DrainWrites

\* Moving or leaving is calm.
LEMMA GotoCalm ==
  ASSUME EntType, NEW r \in Replicas, NEW pc \in EntryPc \ {"install", "release"},
         Goto(r, pc) \/ Leave(r) \/ Fail(r)
  PROVE  EntryCalm
<1>1. CASE Goto(r, pc)
  BY <1>1 DEF Goto, EntType, Entry, EntryCalm
<1>2. CASE Goto(r, "cleanup")
  BY <1>2 DEF Goto, EntType, Entry, EntryCalm
<1>3. CASE Leave(r)
  BY <1>3, Zenon DEF Leave, NoEntry, EntType, EntryCalm
<1> QED
  BY <1>1, <1>2, <1>3 DEF Fail

LEMMA RewriteCalm ==
  ASSUME EntType, NEW r \in Replicas, NEW e, ent' = [ent EXCEPT ![r] = e],
         e.pc \notin {"install", "release"}, e.op \in {ent[r].op, "none"} \cup Ops
  PROVE  EntryCalm
  BY Zenon DEF EntType, EntryCalm

\* The steps of a run-entry transaction.
LEMMA EntryStepAgrees ==
  ASSUME Unbypassed, HoldInv, AgreeInv, NEW r \in Replicas, EntryStep(r)
  PROVE  AgreeInv'
\* The entry steps that neither acquire, install, forget a tombstone nor release.
<1>1. CASE \/ AcquireRefused(r) \/ AcquireKept(r) \/ BeginPrompt(r) \/ BeginApprove(r)
             \/ BeginAsk(r) \/ BeginMutation(r) \/ BeginClose(r) \/ SaveAdmitted(r)
             \/ SaveFailed(r) \/ Launch(r) \/ LaunchFailed(r) \/ Cleanup(r)
             \/ ForgetCapability(r)
  <2> USE <1>1
  <2>0. EntType /\ DrType /\ ent[r] \in Entry
    BY DEF HoldInv, EntType
  <2>1. UNCHANGED <<lease, up, draining, valid, tok, lost, ren, loss, rec>>
    BY Zenon DEF AcquireRefused, AcquireKept, BeginPrompt, BeginApprove, BeginAsk, BeginMutation,
       BeginClose, SaveAdmitted, SaveFailed, Launch, LaunchFailed, Cleanup, RemoveRun,
       ForgetCapability, hold
  <2>2. \A q \in Replicas : dr'[q].pc = dr[q].pc
    <3>1. CASE UNCHANGED dr
      BY <3>1
    <3>2. CASE DrainKeeps(r, ent[r])
      BY <2>0, <3>2 DEF DrainKeeps, DrType, Drain
    <3> QED
      BY <3>1, <3>2, Zenon DEF AcquireRefused, AcquireKept, BeginPrompt, BeginApprove, BeginAsk,
         BeginMutation, BeginClose, SaveAdmitted, SaveFailed, Launch, LaunchFailed, Cleanup,
         ForgetCapability
  <2>3. DrainWrites'
    <3>1. CASE UNCHANGED writes
      BY <2>1, <3>1, DrainWritesSame
    <3>2. CASE SaveAdmitted(r)
      <4> DEFINE w == [by |-> r, src |-> "ent", base |-> ent[r].base, st |-> ent[r].st,
                       fresh |-> ent[r].fresh]
      <4>1. w.src # "drain"
        OBVIOUS
      <4>2. writes' = writes \cup {w}
        BY <3>2, Zenon DEF SaveAdmitted
      <4> HIDE DEF w
      <4> QED
        BY <2>1, <4>1, <4>2, DrainWritesGrow, Zenon
    <3> QED
      BY <3>1, <3>2, Zenon DEF AcquireRefused, AcquireKept, BeginPrompt, BeginApprove, BeginAsk,
         BeginMutation, BeginClose, SaveFailed, Launch, LaunchFailed, Cleanup, ForgetCapability,
         data
  <2>4. EntryCalm
    <3>0. {"leased", "lock", "saving", "cleanup", "drop"} \subseteq EntryPc \ {"install", "release"}
      BY DEF EntryPc
    <3>1. CASE \/ AcquireRefused(r) \/ AcquireKept(r) \/ BeginClose(r) \/ SaveAdmitted(r)
               \/ SaveFailed(r) \/ Launch(r) \/ LaunchFailed(r) \/ Cleanup(r) \/ ForgetCapability(r)
      <4>1. \E pc \in EntryPc \ {"install", "release"} : Goto(r, pc) \/ Leave(r) \/ Fail(r)
        BY <3>0, <3>1, Zenon DEF AcquireRefused, AcquireKept, BeginClose, SaveAdmitted, SaveFailed,
           Launch, LaunchFailed, Cleanup, ForgetCapability
      <4> QED
        BY <2>0, <4>1, GotoCalm
    <3>2. CASE BeginPrompt(r)
      <4> DEFINE repair == ent[r].st \in Terminal \cup {"running"}
      <4> DEFINE e == [ent[r] EXCEPT !.pc = IF repair THEN "save" ELSE "launch",
                                   !.st = IF repair THEN "idle" ELSE ent[r].st,
                                   !.gen = held[r]]
      <4>1. e.pc \in {"save", "launch"} /\ e.op = ent[r].op
        BY <2>0 DEF Entry
      <4>2. ent' = [ent EXCEPT ![r] = e]
        BY <3>2 DEF BeginPrompt
      <4> HIDE DEF e
      <4> QED
        BY <2>0, <4>1, <4>2, RewriteCalm, Zenon
    <3>3. CASE BeginApprove(r)
      BY <2>0, <3>3, Zenon DEF BeginApprove, EntType, Entry, EntryCalm
    <3>4. CASE BeginAsk(r)
      <4> DEFINE e == [ent[r] EXCEPT !.pc = "launch", !.gen = held[r], !.base = store.ver,
                                   !.fresh = TRUE]
      <4>1. e.pc = "launch" /\ e.op = ent[r].op
        BY <2>0 DEF Entry
      <4>2. ent' = [ent EXCEPT ![r] = e] \/ Goto(r, "cleanup")
        BY <3>4 DEF BeginAsk, AskSnapshot
      <4> HIDE DEF e
      <4> QED
        BY <2>0, <3>0, <4>1, <4>2, RewriteCalm, GotoCalm, Zenon
    <3>5. CASE BeginMutation(r)
      <4> DEFINE repair == \/ ent[r].op = "load" /\ store.st \in Terminal
                           \/ ent[r].op = "settle" /\ store.st = "running" /\ run[r] = NoRun
      <4> DEFINE e == [pc |-> IF repair THEN "save" ELSE "drop", op |-> ent[r].op,
                       base |-> MutationBase(r), st |-> "idle", fresh |-> TRUE,
                       gen |-> held[r], tok |-> 0, flag |-> ~ent[r].flag /\ held[r] # 0]
      <4>1. ent' = [ent EXCEPT ![r] = e]
        BY <3>5, Zenon DEF BeginMutation
      <4>2. e.pc \in {"save", "drop"} /\ e.op = ent[r].op
        BY Zenon
      <4> HIDE DEF e
      <4> QED
        BY <2>0, <4>1, <4>2, RewriteCalm, Zenon
    <3> QED
      BY <3>1, <3>2, <3>3, <3>4, <3>5, Zenon
  <2> QED
    BY <2>1, <2>2, <2>3, <2>4, CalmKeeps, Zenon DEF Unmoved
\* Acquire is refused while a drain or a tombstone stands, so nothing is granted to a
\* process that still has a release to send.
<1>2. CASE AcquireWon(r)
  <2> USE <1>2
  <2>0. EntType /\ LeaseType /\ ent[r] \in Entry /\ Reliance(r)
    BY DEF HoldInv, EntType, AgreeInv
  <2>1. LeaseSpared(r)
    BY GrantSpares DEF AcquireWon, LeaseSpared
  <2>2. SparesOthers(r)
    BY <2>0 DEF AcquireWon, SparesOthers, Spares, EntType, hold
  <2>3. holder'[Sid] = r /\ ~lapsed'[Sid]
    BY <2>0 DEF AcquireWon, BackendGrant, L!Takeover, L!Refresh, LeaseType
  <2>4. ent'[r].pc = "install" /\ ent'[r].op = ent[r].op /\ ent'[r].tok = token'[Sid]
    BY <2>0 DEF AcquireWon, EntType, Entry
  <2>5. dr[r].pc = "off" /\ loss[r].pc = "off"
    BY <2>0 DEF AcquireWon, Refused, Reliance, Unbypassed
  <2>6. Reliance(r)'
    BY <2>0, <2>3, <2>4, <2>5 DEF AcquireWon, Reliance, Owns, hold
  <2>7. DrainWrites'
    BY DrainWritesSame, Zenon DEF AcquireWon, data
  <2> QED
    BY <2>1, <2>2, <2>6, <2>7, AgreeFrame, Zenon
<1>3. CASE AcquireFailed(r)
  <2> USE <1>3
  <2>0. EntType /\ ent[r] \in Entry /\ Reliance(r)
    BY DEF HoldInv, EntType, AgreeInv
  <2>1. LeaseSpared(r)
    BY GrantSpares, LeaseSame, Zenon DEF AcquireFailed, LeaseSpared
  <2>2. ent' = [ent EXCEPT ![r].pc = "cleanup"] \/ ent' = [ent EXCEPT ![r] = NoEntry]
    BY DEF AcquireFailed, Fail, Goto, Leave
  <2>3. /\ \A q \in Replicas \ {r} : ent'[q] = ent[q]
        /\ ent'[r].pc \in {"off", "cleanup"} /\ ent'[r].op \in {"none", ent[r].op}
    BY <2>0, <2>2, Blank DEF EntType, Entry
  <2>4. SparesOthers(r)
    BY <2>3, Zenon DEF AcquireFailed, SparesOthers, Spares, hold
  <2>5. Reliance(r)'
    BY <2>0, <2>3, Zenon DEF AcquireFailed, Reliance, hold
  <2>6. DrainWrites'
    BY DrainWritesSame, Zenon DEF AcquireFailed, data
  <2> QED
    BY <2>1, <2>4, <2>5, <2>6, AgreeFrame
<1>4. CASE Install(r)
  <2> USE <1>4
  <2>0. EntType /\ HoldType /\ ent[r] \in Entry /\ Reliance(r)
    BY DEF HoldInv, EntType, AgreeInv
  <2>1. LeaseSpared(r)
    BY LeaseSame, Zenon DEF Install
  <2>2. /\ \A q \in Replicas \ {r} : ent'[q] = ent[q]
        /\ ent'[r].pc = "leased" /\ ent'[r].op = ent[r].op
    BY <2>0 DEF Install, Goto, EntType, Entry
  <2>3. /\ \A q \in Replicas \ {r} : valid'[q] = valid[q] /\ tok'[q] = tok[q] /\ lost'[q] = lost[q]
        /\ valid'[r] /\ tok'[r] = ent[r].tok
    BY <2>0, Zenon DEF Install, HoldType
  <2>4. SparesOthers(r)
    BY <2>2, <2>3, Zenon DEF Install, SparesOthers, Spares
  <2>5. loss[r].pc = "off" /\ dr[r].pc # "release" /\ up[r] /\ Owns(r, ent[r].tok)
    BY <2>0, Zenon DEF Install, Reliance
  <2>6. Reliance(r)'
    BY <2>0, <2>2, <2>3, <2>5, Zenon DEF Install, Reliance, Owns, lease
  <2>7. DrainWrites'
    BY DrainWritesSame, Zenon DEF Install, data
  <2> QED
    BY <2>1, <2>4, <2>6, <2>7, AgreeFrame
<1>5. CASE CloseLocal(r)
  <2> USE <1>5
  <2>0. EntType /\ HoldType /\ ent[r] \in Entry /\ Reliance(r)
    BY DEF HoldInv, EntType, AgreeInv
  <2>1. LeaseSpared(r)
    BY LeaseSame DEF CloseLocal
  <2>2. /\ \A q \in Replicas \ {r} : ent'[q] = ent[q] /\ lost'[q] = lost[q]
        /\ ent'[r].pc = "drop" /\ ent'[r].op = ent[r].op
    BY <2>0 DEF CloseLocal, EntType, Entry, HoldType
  <2>3. SparesOthers(r)
    BY <2>2, Zenon DEF CloseLocal, SparesOthers, Spares
  <2>4. Reliance(r)'
    BY <2>0, <2>2 DEF CloseLocal, LossMuFree, Reliance, Owns, lease
  <2>5. DrainWrites'
    BY DrainWritesSame, Zenon DEF CloseLocal, data
  <2> QED
    BY <2>1, <2>3, <2>4, <2>5, AgreeFrame
<1>6. CASE DropLease(r)
  <2> USE <1>6
  <2>0. EntType /\ HoldType /\ ent[r] \in Entry /\ Reliance(r)
    BY DEF HoldInv, EntType, AgreeInv
  <2>1. LeaseSpared(r)
    BY LeaseSame, Zenon DEF DropLease
  <2>2. /\ \A q \in Replicas \ {r} : ent'[q] = ent[q]
        /\ ent'[r].pc \in {"off", "release"} /\ ent'[r].op \in {"none", ent[r].op}
        /\ ent'[r].pc = "release" => ReleaseLocal(r)
    <3> DEFINE e == [ent[r] EXCEPT !.pc = "release", !.tok = tok[r], !.flag = run[r] = NoRun]
    <3>1. e.pc = "release" /\ e.op = ent[r].op
      BY <2>0 DEF Entry
    <3>2. (ent' = [ent EXCEPT ![r] = e] /\ ReleaseLocal(r)) \/ Leave(r)
      BY DEF DropLease
    <3> HIDE DEF e
    <3> QED
      BY <2>0, <3>1, <3>2, Blank DEF EntType, Leave
  <2>3. /\ \A q \in Replicas \ {r} : valid'[q] = valid[q]
        /\ UNCHANGED <<tok, lost>>
        /\ valid'[r] => valid[r] /\ ~ReleaseLocal(r)
    BY <2>0 DEF DropLease, ReleaseLocal, HoldType, hold
  <2>4. SparesOthers(r)
    BY <2>2, <2>3, Zenon DEF DropLease, SparesOthers, Spares
  <2>5. Reliance(r)'
    BY <2>0, <2>2, <2>3 DEF DropLease, Reliance, Owns, lease
  <2>6. DrainWrites'
    BY DrainWritesSame, Zenon DEF DropLease, data
  <2> QED
    BY <2>1, <2>4, <2>5, <2>6, AgreeFrame
\* The release is sent after the local hold was dropped.
<1>7. CASE Release(r)
  <2> USE <1>7
  <2>0. EntType /\ ent[r] \in Entry /\ Reliance(r)
    BY DEF HoldInv, EntType, AgreeInv
  <2>1. LeaseSpared(r)
    BY ReleaseSpares, Zenon DEF Release, LeaseSpared
  <2>2. ent' = [ent EXCEPT ![r].pc = "forget"] \/ ent' = [ent EXCEPT ![r] = NoEntry]
    BY DEF Release, Goto, Leave
  <2>3. /\ \A q \in Replicas \ {r} : ent'[q] = ent[q]
        /\ ent'[r].pc \in {"off", "forget"} /\ ent'[r].op \in {"none", ent[r].op}
    BY <2>0, <2>2, Blank, SMTT(30) DEF EntType, Entry
  <2>4. SparesOthers(r)
    BY <2>3, Zenon DEF Release, SparesOthers, Spares, hold
  <2>5. Reliance(r)'
    BY <2>0, <2>3, Zenon DEF Release, Reliance, hold
  <2>6. DrainWrites'
    BY DrainWritesSame, Zenon DEF Release, data
  <2> QED
    BY <2>1, <2>4, <2>5, <2>6, AgreeFrame
<1> QED
  BY <1>1, <1>2, <1>3, <1>4, <1>5, <1>6, <1>7, Zenon DEF EntryStep

\* Under Timely no lease lapses while its holder relies on it.
LEMMA ExpireAgrees ==
  ASSUME Timely, HoldInv, AgreeInv, Expire
  PROVE  AgreeInv'
<1>1. ASSUME NEW q \in Replicas PROVE Reliance(q)'
  <2>1. Reliance(q)
    BY DEF AgreeInv
  <2>2. (~valid[q] /\ ent[q].pc # "install") \/ holder[Sid] # q
    BY <2>1, Zenon DEF Expire, Relies, Reliance
  <2>3. ~valid[q] /\ ent[q].pc # "install"
    BY <2>1, <2>2, Zenon DEF Reliance, Owns
  <2> QED
    BY <2>1, <2>3, Zenon DEF Expire, Reliance, hold
<1>2. DrainWrites'
  BY DrainWritesSame, Zenon DEF Expire, data
<1> QED
  BY <1>1, <1>2 DEF AgreeInv, DrainWrites

LEMMA LandAgrees ==
  ASSUME HoldInv, AgreeInv, NEW w \in writes, Land(w)
  PROVE  AgreeInv'
<1>0. w.by \in Replicas /\ EntType /\ DrType
  BY DEF HoldInv, WritesType, Write
<1>1. \A q \in Replicas : \/ dr'[q].pc = dr[q].pc
                          \/ dr'[q].pc = "drop" /\ draining[q]
  BY <1>0 DEF Land, AgreeInv, DrType, Drain
<1>2. \A q \in Replicas : \/ ent'[q] = ent[q]
                          \/ ent'[q].pc \in {"launch", "drop"} /\ ent'[q].op = ent[q].op
  BY <1>0, SMTT(30) DEF Land, EntType, Entry
<1>3. ASSUME NEW q \in Replicas PROVE Reliance(q)'
  <2>1. Reliance(q)
    BY DEF AgreeInv
  <2>2. UNCHANGED <<lease, up, draining, valid, tok, lost, ren, loss, rec>>
    BY DEF Land, hold
  <2>3. \/ dr'[q].pc = dr[q].pc
        \/ dr'[q].pc = "drop" /\ draining[q]
    BY <1>1
  <2>4. CASE ent'[q] = ent[q]
    BY <2>1, <2>2, <2>3, <2>4, Zenon DEF Reliance, Owns, lease
  <2>5. CASE ent'[q].pc \in {"launch", "drop"} /\ ent'[q].op = ent[q].op
    BY <2>1, <2>2, <2>3, <2>5, Zenon DEF Reliance, Owns, lease
  <2> QED
    BY <1>2, <2>4, <2>5, Zenon
<1>4. DrainWrites'
  BY DrainWritesSame DEF Land
<1> QED
  BY <1>3, <1>4, Zenon DEF AgreeInv, DrainWrites

LEMMA EnterAgrees ==
  ASSUME HoldInv, AgreeInv, NEW r \in Replicas, NEW o \in EntryOps, Enter(r, o)
  PROVE  AgreeInv'
<1>1. EntryCalm
  BY Zenon DEF Enter, HoldInv, EntType, EntryCalm
<1>2. Unmoved
  BY Zenon DEF Enter, RemoveRun, Unmoved, hold
<1>3. DrainWrites'
  BY DrainWritesSame, Zenon DEF Enter, data
<1> QED
  BY <1>1, <1>2, <1>3, CalmKeeps

LEMMA RunAgrees ==
  ASSUME HoldInv, AgreeInv, NEW r \in Replicas, RunStep(r) \/ RemoveCapability(r)
  PROVE  AgreeInv'
<1>0. DrType
  BY Zenon DEF HoldInv
<1>1. EntryCalm
  BY Zenon DEF RunStep, RunAsks, RunAnswered, RunEnds, RunSave, FinishRun, RemoveCapability, EntryCalm
<1>2. UNCHANGED <<lease, up, draining, valid, tok, lost, ren, loss, rec>>
  BY Zenon DEF RunStep, RunAsks, RunAnswered, RunEnds, RunSave, FinishRun, RemoveRun, RemoveCapability,
     hold
<1>3. \A q \in Replicas : dr'[q].pc = dr[q].pc
  <2>1. CASE UNCHANGED dr
    BY <2>1
  <2>2. CASE DrainKeeps(r, run[r])
    BY <1>0, <2>2, Zenon DEF DrainKeeps, DrType, Drain
  <2> QED
    BY <2>1, <2>2 DEF RunStep, RunAsks, RunAnswered, RunEnds, RunSave, FinishRun, RemoveCapability
<1>4. DrainWrites'
  <2>1. CASE UNCHANGED writes
    BY <1>2, <2>1, DrainWritesSame
  <2>2. CASE RunSave(r)
    <3> DEFINE w == [by |-> r, src |-> "run", base |-> run[r].base, st |-> run[r].st,
                     fresh |-> run[r].fresh]
    <3>1. w.src # "drain"
      OBVIOUS
    <3>2. writes' = writes \cup {w}
      BY <2>2, Zenon DEF RunSave
    <3> HIDE DEF w
    <3> QED
      BY <1>2, <3>1, <3>2, DrainWritesGrow, Zenon
  <2> QED
    BY <2>1, <2>2, Zenon DEF RunStep, RunAsks, RunAnswered, RunEnds, FinishRun, RemoveCapability, data
<1> QED
  BY <1>1, <1>2, <1>3, <1>4, CalmKeeps DEF Unmoved

\* Renewals: only a fault makes one of a live hold fail.
LEMMA RenewAgrees ==
  ASSUME HoldInv, AgreeInv, NEW r \in Replicas, RenewOk(r) \/ RenewFailed(r)
  PROVE  AgreeInv'
<1>0. OtherType /\ Reliance(r)
  BY DEF HoldInv, AgreeInv
<1>1. CASE RenewOk(r)
  BY <1>0, <1>1, Zenon DEF RenewOk, Reliance, Owns
<1>2. CASE RenewFailed(r)
  <2>1. LeaseSpared(r)
    BY <1>2, LeaseSame, Zenon DEF RenewFailed
  <2>2. SparesOthers(r)
    BY <1>0, <1>2, Zenon DEF RenewFailed, SparesOthers, Spares, OtherType, hold
  <2>3. "fault" \in Ops
    BY <1>0, <1>2, Zenon DEF RenewFailed, Reliance, Owns
  <2>4. Reliance(r)'
    BY <1>0, <1>2, <2>3, Zenon DEF RenewFailed, Reliance, Owns, hold, lease
  <2>5. DrainWrites'
    BY <1>2, DrainWritesSame, Zenon DEF RenewFailed, data
  <2> QED
    BY <2>1, <2>2, <2>4, <2>5, AgreeFrame
<1> QED
  BY <1>1, <1>2, Zenon

\* The loss handlers.
LEMMA LossWorkAgrees ==
  ASSUME HoldInv, AgreeInv, NEW r \in Replicas, LossWork(r)
  PROVE  AgreeInv'
<1>1. ASSUME NEW g \in ren[r], LossDeclared(r, g) PROVE AgreeInv'
  <2> USE <1>1
  <2>0. OtherType /\ HoldType /\ LossType /\ Reliance(r)
    BY Zenon DEF HoldInv, AgreeInv
  <2>1. LeaseSpared(r)
    BY LeaseSame DEF LossDeclared
  <2>2. "fault" \in Ops /\ loss[r].pc = "off" /\ rec[r] = "off"
    BY <2>0, Zenon DEF Reliance, LossDeclared, LossMuFree
  <2>3. CASE StillCurrent(r, g)
    <3>1. /\ \A q \in Replicas \ {r} : /\ valid'[q] = valid[q] /\ lost'[q] = lost[q]
                                       /\ loss'[q] = loss[q] /\ ren'[q] = ren[q]
          /\ ~valid'[r] /\ lost'[r]
      BY <2>0, <2>3, Zenon DEF LossDeclared, HoldType, LossType, OtherType
    <3>2. ent[r].pc # "install"
      BY <2>3 DEF StillCurrent, HoldInv, InstallClean
    <3>3. SparesOthers(r)
      BY <2>3, <3>1, Zenon DEF LossDeclared, SparesOthers, Spares
    <3>4. Reliance(r)'
      BY <2>0, <2>2, <3>1, <3>2, Zenon DEF LossDeclared, Reliance
    <3>5. DrainWrites'
      BY DrainWritesSame, Zenon DEF LossDeclared, data
    <3> QED
      BY <2>1, <3>3, <3>4, <3>5, AgreeFrame, Zenon
  <2>4. CASE ~StillCurrent(r, g)
    <3>1. \A q \in Replicas \ {r} : ren'[q] = ren[q]
      BY <2>0, Zenon DEF LossDeclared, OtherType
    <3>2. SparesOthers(r)
      BY <2>4, <3>1, Zenon DEF LossDeclared, SparesOthers, Spares, hold
    <3>3. Reliance(r)'
      BY <2>0, <2>2, <2>4, Zenon DEF LossDeclared, Reliance, Owns, hold, lease
    <3>4. DrainWrites'
      BY DrainWritesSame DEF LossDeclared, data
    <3> QED
      BY <2>1, <3>2, <3>3, <3>4, AgreeFrame
  <2> QED
    BY <2>3, <2>4, Zenon
<1>2. CASE LossCancels(r) \/ LossReleases(r)
  <2> USE <1>2
  <2>0. LossType /\ Reliance(r)
    BY Zenon DEF HoldInv, AgreeInv
  <2>1. LeaseSpared(r)
    BY LeaseSame, ReleaseSpares DEF LossCancels, LossReleases, LeaseSpared
  <2>2. \A q \in Replicas \ {r} : loss'[q] = loss[q]
    BY <2>0 DEF LossCancels, LossReleases, LossType
  <2>3. SparesOthers(r)
    BY <2>2 DEF LossCancels, LossReleases, SparesOthers, Spares, hold
  <2>4. loss[r].pc # "off"
    BY DEF LossCancels, LossReleases
  <2>5. Reliance(r)'
    BY <2>0, <2>4 DEF LossCancels, LossReleases, Reliance, hold
  <2>6. DrainWrites'
    BY DrainWritesSame DEF LossCancels, LossReleases, data
  <2> QED
    BY <2>1, <2>3, <2>5, <2>6, AgreeFrame, Zenon
<1> QED
  BY <1>1, <1>2, Zenon DEF LossWork

\* The sweep acquires and releases under the trial's own owner name.
LEMMA SweepAgrees ==
  ASSUME HoldInv, AgreeInv, NEW r \in Replicas, Sweep(r)
  PROVE  AgreeInv'
<1>0. OtherType /\ HoldType /\ Reliance(r) /\ tok[r] \in Nat /\ ent[r].tok \in Nat
  BY Zenon DEF HoldInv, AgreeInv, HoldType, EntType, Entry
<1>1. \A q \in Replicas, t \in Nat : Owns(q, t) => OwnsNext(q, t)
  <2>1. CASE UNCHANGED lease
    BY <2>1, Zenon DEF Owns, OwnsNext, lease
  <2>2. CASE TrialFree(r)
    BY <2>2, GrantSpares, Zenon DEF TrialFree
  <2>3. CASE TrialReleases(r)
    <3>1. Trial(r) \notin Replicas
      BY OwnersAssumption
    <3> QED
      BY <2>3, <3>1, ReleaseSpares DEF TrialReleases
  <2> QED
    BY <2>1, <2>2, <2>3, Zenon DEF Sweep, ReconcileStarts, TrialHeld, ReconcileClears
<1>2. \A q \in Replicas \ {r} : rec'[q] = rec[q] /\ lost'[q] = lost[q]
  BY <1>0, Zenon DEF Sweep, ReconcileStarts, TrialFree, TrialHeld, TrialReleases, ReconcileClears,
     OtherType, HoldType, hold
<1>3. UNCHANGED <<data, up, draining, valid, tok, ent, ren, loss, dr>>
  BY Zenon DEF Sweep, ReconcileStarts, TrialFree, TrialHeld, TrialReleases, ReconcileClears, hold
<1>4. SparesOthers(r)
  BY <1>2, <1>3, Zenon DEF SparesOthers, Spares
<1>5. LeaseSpared(r)
  BY <1>1 DEF LeaseSpared
<1>6. loss[r].pc = "off"
  BY <1>0, Zenon DEF Sweep, ReconcileStarts, TrialFree, TrialHeld, TrialReleases, ReconcileClears,
     LossMuFree, Reliance
<1>7. Reliance(r)'
  BY <1>0, <1>1, <1>3, <1>6, Zenon DEF Reliance, Owns, OwnsNext
<1>8. DrainWrites'
  BY <1>3, DrainWritesSame DEF data
<1> QED
  BY <1>4, <1>5, <1>7, <1>8, AgreeFrame

\* The drain.
LEMMA DrainStepAgrees ==
  ASSUME HoldInv, AgreeInv, NEW r \in Replicas, DrainGate(r) \/ DrainWork(r)
  PROVE  AgreeInv'
\* The drain's steps before it drops the lease, and after it sent the release.
<1>1. CASE \/ DrainGate(r) \/ DrainSnapshot(r) \/ DrainCancels(r) \/ DrainSettles(r)
             \/ DrainForgets(r)
  <2> USE <1>1
  <2>0. OtherType /\ DrType /\ dr[r] \in Drain /\ Reliance(r)
    BY Zenon DEF HoldInv, AgreeInv, DrType
  <2>1. UNCHANGED <<lease, up, hold, ent, ren, loss, rec>>
    BY Zenon DEF DrainGate, DrainSnapshot, DrainCancels, DrainSettles, DrainForgets
  <2>2. draining'[r] /\ "drain" \in Ops /\ \A q \in Replicas \ {r} : draining'[q] = draining[q]
    <3>1. CASE DrainGate(r)
      BY <2>0, <3>1 DEF DrainGate, OtherType
    <3>2. CASE UNCHANGED draining /\ dr[r].pc # "off"
      BY <2>0, <3>2, Zenon DEF Reliance
    <3> QED
      BY <3>1, <3>2 DEF DrainSnapshot, DrainCancels, DrainSettles, DrainForgets
  <2>3. /\ \A q \in Replicas \ {r} : dr'[q].pc = dr[q].pc
        /\ dr'[r].pc # "release"
    <3>1. CASE DrainGate(r)
      BY <2>0, <3>1, Zenon DEF DrainGate, DrType, Drain
    <3>2. CASE DrainSnapshot(r)
      BY <2>0, <3>2, SMTT(30) DEF DrainSnapshot, DrType, Drain
    <3>3. CASE DrainCancels(r)
      BY <2>0, <3>3, Zenon DEF DrainCancels, DrType, Drain
    <3>4. CASE DrainSettles(r)
      BY <2>0, <3>4 DEF DrainSettles, DrType, Drain
    <3>5. CASE DrainForgets(r)
      BY <2>0, <3>5 DEF DrainForgets, DrType, Drain
    <3> QED
      BY <3>1, <3>2, <3>3, <3>4, <3>5, Zenon
  <2>4. SparesOthers(r)
    BY <2>1, <2>2, <2>3, Zenon DEF SparesOthers, Spares, hold
  <2>5. Reliance(r)'
    BY <2>0, <2>1, <2>2, <2>3, Zenon DEF Reliance, Owns, hold, lease
  <2>6. DrainWrites'
    <3>1. \A w \in writes : w \in Write /\ (w.src = "drain" => draining[w.by])
      BY Zenon DEF HoldInv, WritesType, AgreeInv
    <3>2. \A w \in writes' : w \in writes \/ w.by = r
      BY SMTT(30) DEF DrainGate, DrainSnapshot, DrainCancels, DrainSettles, DrainForgets, data
    <3>3. \A w \in writes : w.by \in Replicas
      BY <3>1 DEF Write
    <3> QED
      BY <2>2, <3>1, <3>2, <3>3, Zenon DEF DrainWrites
  <2> QED
    BY <2>1, <2>4, <2>5, <2>6, LeaseSame, AgreeFrame
<1>2. CASE DrainTimesOut(r)
  <2> USE <1>2
  <2>0. HoldType /\ DrType /\ dr[r] \in Drain /\ Reliance(r)
    BY DEF HoldInv, AgreeInv, DrType
  <2>1. /\ \A q \in Replicas \ {r} : dr'[q].pc = dr[q].pc /\ valid'[q] = valid[q]
        /\ dr'[r].pc = "done" /\ ~valid'[r]
    BY <2>0 DEF DrainTimesOut, DrType, Drain, HoldType
  <2>2. SparesOthers(r)
    BY <2>1, Zenon DEF DrainTimesOut, SparesOthers, Spares
  <2>3. Reliance(r)'
    BY <2>0, <2>1 DEF DrainTimesOut, Reliance, Owns, lease
  <2>4. DrainWrites'
    BY DrainWritesSame DEF DrainTimesOut, data
  <2> QED
    BY <2>2, <2>3, <2>4, LeaseSame, AgreeFrame, Zenon DEF DrainTimesOut
<1>3. CASE DrainDrops(r)
  <2> USE <1>3
  <2>0. HoldType /\ DrType /\ dr[r] \in Drain /\ Reliance(r)
    BY DEF HoldInv, AgreeInv, DrType
  <2>1. /\ \A q \in Replicas \ {r} : valid'[q] = valid[q]
        /\ ~valid'[r] /\ UNCHANGED <<tok, lost>>
    BY <2>0, Zenon DEF DrainDrops, ReleaseLocal, HoldType
  <2>2. /\ \A q \in Replicas \ {r} : dr'[q].pc = dr[q].pc
        /\ dr'[r].pc = "release" => valid[r]
    <3> DEFINE d == [dr[r] EXCEPT !.pc = IF valid[r] THEN "release" ELSE "done",
                                !.tok = tok[r], !.flag = run[r] = NoRun]
    <3>1. d.pc = IF valid[r] THEN "release" ELSE "done"
      BY <2>0 DEF Drain
    <3>2. dr' = [dr EXCEPT ![r] = d]
      BY DEF DrainDrops
    <3> HIDE DEF d
    <3> QED
      BY <2>0, <3>1, <3>2 DEF DrType
  <2>3. SparesOthers(r)
    BY <2>1, <2>2, Zenon DEF DrainDrops, SparesOthers, Spares
  <2>4. valid[r] => ent[r].pc # "install"
    BY DEF HoldInv, InstallClean
  <2>5. draining[r]
    BY <2>0, Zenon DEF DrainDrops, Reliance
  <2>6. Reliance(r)'
    BY <2>0, <2>1, <2>2, <2>4, <2>5, Zenon DEF DrainDrops, Reliance, Owns, lease
  <2>7. DrainWrites'
    BY DrainWritesSame, Zenon DEF DrainDrops, data
  <2> QED
    BY <2>3, <2>6, <2>7, LeaseSame, AgreeFrame, Zenon DEF DrainDrops
<1>4. CASE DrainReleases(r)
  <2> USE <1>4
  <2>0. DrType /\ dr[r] \in Drain /\ Reliance(r)
    BY DEF HoldInv, AgreeInv, DrType
  <2>1. LeaseSpared(r)
    BY ReleaseSpares DEF DrainReleases, LeaseSpared
  <2>2. /\ \A q \in Replicas \ {r} : dr'[q].pc = dr[q].pc
        /\ dr'[r].pc \in {"forget", "done"}
    BY <2>0 DEF DrainReleases, DrType, Drain
  <2>3. SparesOthers(r)
    BY <2>2 DEF DrainReleases, SparesOthers, Spares, hold
  <2>4. ~valid[r] /\ ent[r].pc # "install" /\ draining[r]
    BY <2>0 DEF DrainReleases, Reliance
  <2>5. Reliance(r)'
    BY <2>0, <2>2, <2>4 DEF DrainReleases, Reliance, hold
  <2>6. DrainWrites'
    BY DrainWritesSame, Zenon DEF DrainReleases, data
  <2> QED
    BY <2>1, <2>3, <2>5, <2>6, AgreeFrame, Zenon
<1> QED
  BY <1>1, <1>2, <1>3, <1>4, Zenon DEF DrainWork

LEMMA CrashAgrees ==
  ASSUME HoldInv, AgreeInv, NEW r \in Replicas, Crash(r)
  PROVE  AgreeInv'
<1>0. OtherType /\ HoldType /\ EntType /\ LossType /\ DrType /\ Reliance(r)
  BY DEF HoldInv, AgreeInv
<1>1. \A q \in Replicas \ {r} : /\ up'[q] = up[q] /\ ren'[q] = ren[q] /\ rec'[q] = rec[q]
                                /\ valid'[q] = valid[q] /\ lost'[q] = lost[q]
  BY <1>0, Zenon DEF Crash, OtherType, HoldType
<1>2. \A q \in Replicas \ {r} : ent'[q] = ent[q] /\ loss'[q] = loss[q] /\ dr'[q] = dr[q]
  BY <1>0 DEF Crash, EntType, LossType, DrType
<1>3. SparesOthers(r)
  BY <1>1, <1>2, Zenon DEF Crash, SparesOthers, Spares
<1>4. /\ ent'[r].pc = "off" /\ ent'[r].op = "none" /\ loss'[r].pc = "off" /\ dr'[r].pc = "off"
      /\ ~valid'[r] /\ ren'[r] = {}
  BY <1>0, Zenon DEF Crash, EntType, LossType, DrType, HoldType, OtherType, NoEntry, NoLoss, NoDrain
<1>5. Reliance(r)'
  BY <1>0, <1>4, Zenon DEF Crash, Reliance
<1>6. DrainWrites'
  BY DrainWritesSame, Zenon DEF Crash, data
<1> QED
  BY <1>3, <1>5, <1>6, LeaseSame, AgreeFrame, Zenon DEF Crash

LEMMA AgreeStep ==
  ASSUME Timely, Unbypassed, HoldInv, AgreeInv, Next
  PROVE  AgreeInv'
  BY EntryStepAgrees, ExpireAgrees, LandAgrees, EnterAgrees, RunAgrees, RenewAgrees, LossWorkAgrees,
     SweepAgrees, DrainStepAgrees, CrashAgrees, Zenon DEF Next

LEMMA AgreeInvariant ==
  ASSUME Timely, Unbypassed
  PROVE  Spec => []AgreeInv
<1>1. Init => AgreeInv
  <2>1. ASSUME Init, NEW r \in Replicas PROVE Reliance(r)
    BY <2>1, InitParts, Blank, Zenon DEF Reliance
  <2>2. Init => writes = {}
    BY Zenon DEF Init
  <2> QED
    BY <2>1, <2>2, Zenon DEF AgreeInv
<1>2. HoldInv /\ AgreeInv /\ [Next]_vars => AgreeInv'
  <2>1. ASSUME AgreeInv, UNCHANGED vars PROVE AgreeInv'
    <3>1. /\ UNCHANGED <<holder, token, lapsed, writes, up, draining, valid, tok, lost>>
          /\ UNCHANGED <<ent, ren, loss, rec, dr>>
      BY <2>1, Zenon DEF vars, lease, data, hold
    <3>2. ASSUME NEW r \in Replicas PROVE Reliance(r)'
      <4>1. Reliance(r)
        BY <2>1, Zenon DEF AgreeInv
      <4> QED
        BY <3>1, <4>1, Zenon DEF Reliance, Owns
    <3> QED
      BY <2>1, <3>1, <3>2, Zenon DEF AgreeInv
  <2> QED
    BY <2>1, AgreeStep
<1> QED
  BY <1>1, <1>2, HoldInvariant, PTL DEF Spec

\* With lapses only of leases nobody relies on any more, a process that believes in its
\* hold is the holder the backend records, under the token it acquired, so two processes
\* never believe at once: through any crashes, losses, sweeps, closes and drains, provided
\* SettleIfStale, which ignores the drain gate and the tombstone, meets neither a drain nor
\* a failing Renew (acquireLeaseCore, releaseLease, onLeaseLost, GracefulDrain).
THEOREM AgreementTheorem ==
  ASSUME Timely, Unbypassed
  PROVE  Spec => []OwnersAgree
<1>1. AgreeInv => OwnersAgree
  BY Zenon DEF AgreeInv, Reliance, Owns, OwnersAgree
<1> QED
  BY <1>1, AgreeInvariant, PTL

-----------------------------------------------------------------------------
(* Handover: no lost update, no stale verdict, the parked ask survives *)

\* Entries are prompt, approve, ask and end; Renew, Release and Acquire do not fail.
HandoverOps == Ops \cap {"load", "close", "settle", "fault"} = {}

\* What the invariant at replica q speaks of is as it was.
Keeps(q) ==
    /\ up'[q] = up[q] /\ valid'[q] = valid[q] /\ lost'[q] = lost[q] /\ rec'[q] = rec[q]
    /\ cap'[q] = cap[q] /\ run'[q] = run[q] /\ ent'[q] = ent[q] /\ dr'[q] = dr[q]
KeepsOthers(r) == \A q \in Replicas \ {r} : Keeps(q)

Local(r) == Waits(r) /\ Turns(r) /\ Fresh(r) /\ Parked(r)

LEMMA KeptLocal ==
  ASSUME NEW r \in Replicas, NEW q \in Replicas \ {r}, Keeps(q), Local(q), UNCHANGED store,
         \A w \in writes' : w \in writes \/ w.by = r
  PROVE  Local(q)'
<1>1. \A w \in writes' : w.by = q => w \in writes
  OBVIOUS
<1>2. Waits(q)'
  BY <1>1, Zenon DEF Local, Waits, Keeps, Launched
<1>3. Turns(q)'
  BY Zenon DEF Local, Turns, Keeps
<1>4. Fresh(q)'
  BY Zenon DEF Local, Fresh, Keeps, Launched
<1>5. Parked(q)'
  BY <1>1, Zenon DEF Local, Parked, Keeps, Launched
<1> QED
  BY <1>2, <1>3, <1>4, <1>5, Zenon DEF Local

\* What a step of replica r must show, if it admits a save ...
LEMMA SaveFrame ==
  ASSUME HandoverInv, NEW r \in Replicas, KeepsOthers(r), UNCHANGED store,
         \A w \in writes' : w \in writes \/ w.by = r,
         \A w \in writes' : holder'[Sid] = w.by /\ ~lapsed'[Sid],
         \A w, v \in writes' : w = v,
         \A w \in writes' : w.fresh => w.base = store.ver,
         Local(r)'
  PROVE  HandoverInv'
<1>1. ASSUME NEW q \in Replicas \ {r} PROVE Local(q)'
  BY KeptLocal, Zenon DEF HandoverInv, Local, KeepsOthers
<1> QED
  BY <1>1, Zenon DEF HandoverInv, LeasedNoLostUpdate, Local

\* ... and if it does not.
LEMMA LocalFrame ==
  ASSUME HandoverInv, NEW r \in Replicas, KeepsOthers(r), UNCHANGED data, Local(r)',
         \A w \in writes : holder'[Sid] = holder[Sid] /\ ~lapsed'[Sid]
  PROVE  HandoverInv'
<1>1. UNCHANGED <<store, writes>>
  BY DEF data
<1> QED
  BY <1>1, SaveFrame, Zenon DEF HandoverInv, LeasedNoLostUpdate

LEMMA LeaseSameFrame ==
  ASSUME HandoverInv, UNCHANGED lease
  PROVE  \A w \in writes : holder'[Sid] = holder[Sid] /\ ~lapsed'[Sid]
  BY Zenon DEF HandoverInv, lease

\* A lease with a save behind it is granted to nobody else.
LEMMA GrantFrame ==
  ASSUME HoldInv, HandoverInv, NEW o, BackendGrant(o)
  PROVE  \A w \in writes : holder'[Sid] = holder[Sid] /\ ~lapsed'[Sid]
<1>1. \A w \in writes : w.by \in Replicas
  BY DEF HoldInv, WritesType, Write
<1>2. \A q \in Replicas : q # NoOwner
  BY OwnersAssumption
<1> QED
  BY <1>1, <1>2, Zenon DEF HandoverInv, BackendGrant, L!Takeover, L!Refresh

\* A release by r with no save of r in flight takes the lease from no saver.
LEMMA ReleaseFrame ==
  ASSUME HoldInv, HandoverInv, NEW r \in Replicas, NEW t, BackendRelease(r, t),
         \A w \in writes : w.by # r
  PROVE  \A w \in writes : holder'[Sid] = holder[Sid] /\ ~lapsed'[Sid]
  BY Zenon DEF HandoverInv, BackendRelease, lease

\* A save in flight was sent by the holder: a process that believes in its hold.
LEMMA SaverHolds ==
  ASSUME AgreeInv, HandoverInv, NEW r \in Replicas, valid[r], NEW w \in writes
  PROVE  w.by = r
  BY Zenon DEF AgreeInv, Reliance, Owns, HandoverInv

\* During an entry there is no launched run, and a drain past its waiting has no run
\* entry beside it; ...
LEMMA EntryTurn ==
  ASSUME HoldInv, HandoverInv, NEW r \in Replicas, ent[r].pc # "off"
  PROVE  /\ ~Launched(r)
         /\ ent[r].op \in RunOps => run[r] # NoRun /\ run[r].ph = "prov"
         /\ ent[r].op \in RunOps => dr[r].pc \notin {"saving", "drop", "release", "forget"}
         /\ ent[r].op \in RunOps => ~dr[r].fresh
         /\ ent[r].op \notin RunOps => ent[r].op = "end" /\ run[r] = NoRun
<1>1. Turns(r) /\ (ent[r].op \in RunOps => run[r].ph = "prov")
  BY Zenon DEF HandoverInv, HoldInv, EntryOwnsRun
<1>2. NoRun.ph = "none" /\ "prompt" \in RunOps /\ "end" \notin RunOps /\ "none" \notin RunOps
  BY Zenon DEF NoRun, RunOps
<1>3. ent[r].op \in RunOps \/ (ent[r].op = "end" /\ run[r] = NoRun)
  BY <1>1, <1>2, Zenon DEF Turns
<1> QED
  BY <1>1, <1>2, <1>3, Zenon DEF Turns, Launched

\* ... a launched run has neither beside it.
LEMMA RunTurn ==
  ASSUME HoldInv, HandoverInv, NEW r \in Replicas, Launched(r)
  PROVE  /\ run[r] # NoRun /\ run[r] \in Run
         /\ ent[r].op = "none" /\ ent[r].pc = "off"
         /\ dr[r].pc \notin {"saving", "drop", "release", "forget"} /\ ~dr[r].fresh
<1>1. Turns(r) /\ (ent[r].op \in RunOps => run[r].ph = "prov")
  BY Zenon DEF HandoverInv, HoldInv, EntryOwnsRun
<1>2. run[r].ph \in {"active", "ended"} /\ "prompt" \in RunOps
  BY DEF Launched, RunOps
<1>3. run[r] # NoRun
  BY <1>2, Blank, Zenon
<1>4. run[r] \in Run
  BY <1>3, RegisteredRun, Zenon DEF HoldInv
<1> QED
  BY <1>1, <1>2, <1>3, <1>4, Zenon DEF Turns

\* A step of r touches no other replica's state.
LEMMA EntryKeepsOthers ==
  ASSUME HoldInv, NEW r \in Replicas, EntryStep(r)
  PROVE  KeepsOthers(r)
<1>0. EntType /\ RunType /\ DrType /\ HoldType /\ CapType
  BY DEF HoldInv
<1> USE DEF EntType, RunType, DrType, HoldType, CapType
<1>1. UNCHANGED <<up, rec>>
  BY Zenon DEF EntryStep, AcquireRefused, AcquireKept, AcquireWon, AcquireFailed, Install,
     BeginPrompt, BeginApprove, BeginAsk, BeginMutation, BeginClose, SaveAdmitted, SaveFailed,
     Launch, LaunchFailed, Cleanup, CloseLocal, DropLease, Release, ForgetCapability
<1>2. \A q \in Replicas \ {r} : ent'[q] = ent[q]
  <2>1. CASE \/ AcquireRefused(r) \/ AcquireKept(r) \/ AcquireWon(r) \/ AcquireFailed(r)
             \/ Install(r) \/ BeginClose(r) \/ SaveAdmitted(r) \/ SaveFailed(r)
    BY <1>0, <2>1, Zenon DEF AcquireRefused, AcquireKept, AcquireWon, AcquireFailed, Install,
       BeginClose, SaveAdmitted, SaveFailed, Fail, Goto, Leave
  <2>2. CASE BeginPrompt(r) \/ BeginApprove(r) \/ BeginAsk(r) \/ BeginMutation(r)
    BY <1>0, <2>2, Zenon DEF BeginPrompt, BeginApprove, BeginAsk, BeginMutation, Goto
  <2>3. CASE \/ Launch(r) \/ LaunchFailed(r) \/ Cleanup(r) \/ CloseLocal(r) \/ DropLease(r)
             \/ Release(r) \/ ForgetCapability(r)
    BY <1>0, <2>3, Zenon DEF Launch, LaunchFailed, Cleanup, CloseLocal, DropLease, Release,
       ForgetCapability, Goto, Leave
  <2> QED
    BY <2>1, <2>2, <2>3, Zenon DEF EntryStep
<1>3. \A q \in Replicas \ {r} : run'[q] = run[q] /\ dr'[q] = dr[q]
  <2>1. CASE UNCHANGED <<run, dr>>
    BY <2>1, Zenon
  <2>2. CASE BeginAsk(r) \/ Launch(r)
    BY <1>0, <2>2, Zenon DEF BeginAsk, Launch
  <2>3. CASE Cleanup(r) \/ DropLease(r)
    BY <1>0, <2>3, Zenon DEF Cleanup, DrainKeeps, DropLease, ReleaseLocal
  <2> QED
    BY <2>1, <2>2, <2>3, Zenon DEF EntryStep, AcquireRefused, AcquireKept, AcquireWon,
       AcquireFailed, Install, BeginPrompt, BeginApprove, BeginMutation, BeginClose, SaveAdmitted,
       SaveFailed, LaunchFailed, CloseLocal, Release, ForgetCapability
<1>4. \A q \in Replicas \ {r} : valid'[q] = valid[q] /\ lost'[q] = lost[q] /\ cap'[q] = cap[q]
  <2>1. CASE UNCHANGED <<hold, cap>>
    BY <2>1 DEF hold
  <2>2. CASE \/ Install(r) \/ Cleanup(r) \/ CloseLocal(r) \/ DropLease(r) \/ ForgetCapability(r)
    BY <1>0, <2>2, Zenon DEF Install, Cleanup, RemoveRun, CloseLocal, DropLease, ReleaseLocal,
       ForgetCapability, hold
  <2> QED
    BY <2>1, <2>2, Zenon DEF EntryStep, AcquireRefused, AcquireKept, AcquireWon, AcquireFailed,
       BeginPrompt, BeginApprove, BeginAsk, BeginMutation, BeginClose, SaveAdmitted, SaveFailed,
       Launch, LaunchFailed, Release
<1> QED
  BY <1>1, <1>2, <1>3, <1>4, Zenon DEF KeepsOthers, Keeps

LEMMA RunKeepsOthers ==
  ASSUME HoldInv, NEW r \in Replicas, RunStep(r) \/ RemoveCapability(r)
  PROVE  KeepsOthers(r)
<1>0. RunType /\ DrType /\ CapType
  BY Zenon DEF HoldInv
<1>1. UNCHANGED <<up, rec, ent, valid, lost>>
  BY Zenon DEF RunStep, RunAsks, RunAnswered, RunEnds, RunSave, FinishRun, RemoveRun, RemoveCapability,
     hold
<1>2. \A q \in Replicas \ {r} : run'[q] = run[q] /\ dr'[q] = dr[q] /\ cap'[q] = cap[q]
  BY <1>0 DEF RunStep, RunAsks, RunAnswered, RunEnds, RunSave, FinishRun, DrainKeeps,
     RemoveCapability, RunType, DrType, CapType
<1> QED
  BY <1>1, <1>2, Zenon DEF KeepsOthers, Keeps

LEMMA DrainKeepsOthers ==
  ASSUME HoldInv, NEW r \in Replicas, DrainGate(r) \/ DrainWork(r)
  PROVE  KeepsOthers(r)
<1>0. RunType /\ DrType /\ CapType /\ HoldType
  BY DEF HoldInv
<1>1. UNCHANGED <<up, rec, ent, lost>>
  BY Zenon DEF DrainGate, DrainWork, DrainSnapshot, DrainCancels, DrainSettles, DrainTimesOut,
     DrainDrops, DrainReleases, DrainForgets, ReleaseLocal, hold
<1>2. \A q \in Replicas \ {r} : dr'[q] = dr[q]
  BY <1>0, Zenon DEF DrainGate, DrainWork, DrainSnapshot, DrainCancels, DrainSettles, DrainTimesOut,
     DrainDrops, DrainReleases, DrainForgets, DrType
<1>3. \A q \in Replicas \ {r} : run'[q] = run[q]
  BY <1>0, Zenon DEF DrainGate, DrainWork, DrainSnapshot, DrainCancels, DrainSettles, DrainTimesOut,
     DrainDrops, DrainReleases, DrainForgets, ReleaseLocal, RunType
<1>4. \A q \in Replicas \ {r} : valid'[q] = valid[q] /\ cap'[q] = cap[q]
  BY <1>0, Zenon DEF DrainGate, DrainWork, DrainSnapshot, DrainCancels, DrainSettles, DrainTimesOut,
     DrainDrops, DrainReleases, DrainForgets, ReleaseLocal, HoldType, CapType, hold
<1> QED
  BY <1>1, <1>2, <1>3, <1>4, Zenon DEF KeepsOthers, Keeps

-----------------------------------------------------------------------------
(* Handover: the steps of an entry *)

LEMMA EntryGuards ==
  ASSUME NEW r \in Replicas, EntryStep(r)
  PROVE  up[r] /\ ent[r].pc \notin {"off", "saving"} /\ UNCHANGED <<up, rec>>
  BY Zenon DEF EntryStep, AcquireRefused, AcquireKept, AcquireWon, AcquireFailed, Install,
     BeginPrompt, BeginApprove, BeginAsk, BeginMutation, BeginClose, SaveAdmitted, SaveFailed,
     Launch, LaunchFailed, Cleanup, CloseLocal, DropLease, Release, ForgetCapability

\* A step of an entry that neither saves nor launches owes its turn and its snapshot.
LEMMA EntryFrame ==
  ASSUME HoldInv, HandoverInv, NEW r \in Replicas, EntryStep(r), UNCHANGED data,
         \A w \in writes : holder'[Sid] = holder[Sid] /\ ~lapsed'[Sid],
         ~Launched(r)', dr'[r].pc = dr[r].pc, Turns(r)', Fresh(r)'
  PROVE  HandoverInv'
<1>1. ent[r].pc \notin {"off", "saving"} /\ UNCHANGED <<up, rec>>
  BY EntryGuards
<1>2. ~Launched(r) /\ Waits(r)
  BY <1>1, EntryTurn, Zenon DEF HandoverInv
<1>3. Waits(r)'
  BY <1>1, <1>2, Zenon DEF Waits, data
<1>4. Parked(r)'
  BY Zenon DEF Parked
<1> QED
  BY <1>3, <1>4, EntryKeepsOthers, LocalFrame, Zenon DEF Local

\* A step that changes nothing of replica r but its entry: moving it on, ...
LEMMA GotoLocal ==
  ASSUME HoldInv, HandoverInv, NEW r \in Replicas, NEW p, Goto(r, p), ent[r].pc # "off",
         UNCHANGED <<store, valid, lost, rec, run, dr>>,
         \/ /\ ent[r].op = "end" /\ p \in {"leased", "lock", "drop", "forget"}
            /\ dr[r].pc \notin {"cancel", "wait", "saving"}
         \/ ent[r].op \in RunOps /\ p \in {"leased", "cleanup"}
  PROVE  ~Launched(r)' /\ Turns(r)' /\ Fresh(r)'
<1>1. Turns(r) /\ Fresh(r)
  BY Zenon DEF HandoverInv
<1>2. ~Launched(r) /\ (ent[r].op \notin RunOps => run[r] = NoRun)
  BY EntryTurn, Zenon
<1>3. /\ ent'[r].pc = p /\ ent'[r].op = ent[r].op
      /\ ent'[r].base = ent[r].base /\ ent'[r].fresh = ent[r].fresh
  BY Zenon DEF HoldInv, EntType, Entry, Goto
<1>4. "end" \notin RunOps /\ "none" \notin RunOps
  BY DEF RunOps
<1>5. Turns(r)'
  BY <1>1, <1>2, <1>3, <1>4, Zenon DEF Turns
<1>6. Fresh(r)'
  BY <1>1, <1>2, <1>3, Zenon DEF Fresh, Launched
<1> QED
  BY <1>2, <1>5, <1>6, Zenon DEF Launched

\* ... or leaving.
LEMMA LeaveLocal ==
  ASSUME HoldInv, HandoverInv, NEW r \in Replicas, Leave(r), ent[r].pc # "off",
         UNCHANGED <<store, lost, rec, run, dr>>, valid'[r] => valid[r]
  PROVE  ~Launched(r)' /\ Turns(r)' /\ Fresh(r)'
<1>1. Turns(r) /\ Fresh(r)
  BY Zenon DEF HandoverInv
<1>2. ~Launched(r)
  BY EntryTurn, Zenon
<1>3. ent'[r].pc = "off" /\ ent'[r].op = "none"
  BY Zenon DEF HoldInv, EntType, Leave, NoEntry
<1>4. Turns(r)'
  BY <1>1, <1>3, Zenon DEF Turns
<1>5. Fresh(r)'
  BY <1>1, <1>2, <1>3, Zenon DEF Fresh, Launched, RunOps
<1> QED
  BY <1>2, <1>4, <1>5, Zenon DEF Launched

LEMMA FailLocal ==
  ASSUME HoldInv, HandoverInv, NEW r \in Replicas, Fail(r), ent[r].pc # "off",
         UNCHANGED <<store, valid, lost, rec, run, dr>>
  PROVE  ~Launched(r)' /\ Turns(r)' /\ Fresh(r)'
  BY GotoLocal, LeaveLocal, Zenon DEF Fail

LEMMA EntryHandover ==
  ASSUME HandoverOps, HoldInv, AgreeInv, HandoverInv, NEW r \in Replicas, EntryStep(r)
  PROVE  HandoverInv'
\* Acquiring is refused while the process drains.
<1>1. CASE AcquireRefused(r) \/ AcquireKept(r) \/ AcquireFailed(r)
  <2> USE <1>1
  <2>1. EntryStep(r) /\ ent[r].pc = "acquire"
    BY Zenon DEF EntryStep, AcquireRefused, AcquireKept, AcquireFailed
  <2>2. UNCHANGED <<lease, store, writes, valid, lost, rec, run, dr>>
    BY Zenon DEF HandoverOps, AcquireRefused, AcquireKept, AcquireFailed, data, hold
  <2>3. ~Launched(r)' /\ Turns(r)' /\ Fresh(r)'
    <3>1. CASE Fail(r)
      BY <2>1, <2>2, <3>1, FailLocal, Zenon
    <3>2. CASE AcquireKept(r)
      <4>1. ent[r].op # "settle"
        BY <2>1, EntryTurn, Zenon DEF RunOps
      <4>2. dr[r].pc = "off"
        BY <3>2, <4>1, Zenon DEF AcquireKept, Refused, AgreeInv, Reliance
      <4>3. ent[r].op = "end" \/ ent[r].op \in RunOps
        BY <2>1, EntryTurn, Zenon
      <4> QED
        BY <2>1, <2>2, <3>2, <4>2, <4>3, GotoLocal, Zenon DEF AcquireKept
    <3> QED
      BY <3>1, <3>2, Zenon DEF AcquireRefused, AcquireFailed
  <2> QED
    BY <2>1, <2>2, <2>3, LeaseSameFrame, EntryFrame, Zenon DEF data
<1>2. CASE AcquireWon(r)
  <2> USE <1>2
  <2>1. EntryStep(r) /\ ent[r].pc = "acquire"
    BY DEF EntryStep, AcquireWon
  <2>2. UNCHANGED <<store, writes, valid, lost, rec, run, dr>>
    BY DEF AcquireWon, data, hold
  <2>3. ent[r].op \in RunOps \/ (ent[r].op = "end" /\ run[r] = NoRun)
    BY <2>1, EntryTurn, Zenon
  <2>4. dr[r].pc = "off"
    <3>1. ent[r].op # "settle"
      BY <2>3 DEF RunOps
    <3> QED
      BY <3>1, Zenon DEF AcquireWon, Refused, AgreeInv, Reliance
  <2>5. ent'[r].pc = "install" /\ ent'[r].op = ent[r].op /\ ent'[r].fresh = FALSE
    BY DEF AcquireWon, HoldInv, EntType, Entry
  <2>6. ~Launched(r) /\ Turns(r) /\ Fresh(r)
    BY <2>1, EntryTurn, Zenon DEF HandoverInv
  <2>7. Turns(r)'
    BY <2>2, <2>3, <2>4, <2>5, <2>6, Zenon DEF Turns
  <2>8. Fresh(r)' /\ ~Launched(r)'
    BY <2>2, <2>4, <2>5, <2>6, Zenon DEF Fresh, Launched
  <2>9. \A w \in writes : holder'[Sid] = holder[Sid] /\ ~lapsed'[Sid]
    BY GrantFrame DEF AcquireWon
  <2> QED
    BY <2>1, <2>2, <2>7, <2>8, <2>9, EntryFrame, Zenon DEF data
\* A new hold validates nothing that was read before it.
<1>3. CASE Install(r)
  <2> USE <1>3
  <2>1. EntryStep(r) /\ ent[r].pc = "install"
    BY Zenon DEF EntryStep, Install
  <2>2. UNCHANGED <<lease, store, writes, rec, run, dr>>
    BY Zenon DEF Install, data
  <2>3. ent[r].op \in RunOps \/ (ent[r].op = "end" /\ run[r] = NoRun)
    BY <2>1, EntryTurn, Zenon
  <2>4. ~lost'[r]
    BY Zenon DEF Install, HoldInv, HoldType, HandoverInv, Turns
  <2>5. ent'[r].pc = "leased" /\ ent'[r].op = ent[r].op /\ ent'[r].fresh = ent[r].fresh
    BY DEF Install, Goto, HoldInv, EntType, Entry
  <2>6. ~Launched(r) /\ Turns(r) /\ ~ent[r].fresh
    BY <2>1, EntryTurn, Zenon DEF HandoverInv, Fresh
  <2>7. dr[r].pc \in {"cancel", "wait"} => ~dr[r].fresh
    <3>1. ent[r].op \in RunOps => ~dr[r].fresh
      BY <2>1, EntryTurn, Zenon
    <3> QED
      BY <2>1, <2>3, <2>6, <3>1, Zenon DEF Turns
  <2>8. Turns(r)'
    BY <2>1, <2>2, <2>3, <2>4, <2>5, <2>6, Zenon DEF Turns
  <2>9. Fresh(r)' /\ ~Launched(r)'
    BY <2>2, <2>5, <2>6, <2>7, Zenon DEF Fresh, Launched
  <2> QED
    BY <2>1, <2>2, <2>8, <2>9, LeaseSameFrame, EntryFrame, Zenon DEF data
\* Run entries past acquireLease: prompt and approve keep their snapshot, ask reads it again.
<1>4. CASE BeginPrompt(r) \/ BeginApprove(r)
  <2> USE <1>4
  <2>1. EntryStep(r) /\ ent[r].pc = "leased" /\ ent[r].op \in {"prompt", "approve"}
    BY DEF EntryStep, BeginPrompt, BeginApprove
  <2>2. UNCHANGED <<lease, store, writes, valid, lost, rec, run, dr>>
    BY DEF BeginPrompt, BeginApprove, data, hold
  <2>3. ent[r] \in Entry /\ EntType
    BY DEF HoldInv, EntType
  <2>4. /\ ent'[r].op = ent[r].op /\ ent'[r].base = ent[r].base /\ ent'[r].fresh = ent[r].fresh
        /\ ent'[r].pc = "launch" \/ (ent'[r].pc = "save" /\ ent[r].op = "prompt")
    <3>1. CASE BeginPrompt(r)
      <4> DEFINE repair == ent[r].st \in Terminal \cup {"running"}
      <4> DEFINE e == [ent[r] EXCEPT !.pc = IF repair THEN "save" ELSE "launch",
                                   !.st = IF repair THEN "idle" ELSE ent[r].st,
                                   !.gen = held[r]]
      <4>1. e.op = ent[r].op /\ e.base = ent[r].base /\ e.fresh = ent[r].fresh
        BY <2>3 DEF Entry
      <4>2. e.pc \in {"save", "launch"}
        BY <2>3 DEF Entry
      <4>3. ent' = [ent EXCEPT ![r] = e] /\ ent[r].op = "prompt"
        BY <3>1 DEF BeginPrompt
      <4> HIDE DEF e
      <4> QED
        BY <2>3, <4>1, <4>2, <4>3, Zenon DEF EntType
    <3>2. CASE BeginApprove(r)
      BY <2>3, <3>2 DEF BeginApprove, EntType, Entry
    <3> QED
      BY <3>1, <3>2, Zenon
  <2>5. ~Launched(r) /\ Turns(r) /\ Fresh(r)
    BY <2>1, EntryTurn, Zenon DEF HandoverInv
  <2>6. Turns(r)'
    BY <2>1, <2>2, <2>4, <2>5, Zenon DEF Turns, RunOps
  <2>7. Fresh(r)' /\ ~Launched(r)'
    BY <2>1, <2>2, <2>4, <2>5, Zenon DEF Fresh, Launched
  <2> QED
    BY <2>1, <2>2, <2>6, <2>7, LeaseSameFrame, EntryFrame, Zenon DEF data
<1>5. CASE BeginAsk(r)
  <2> USE <1>5
  <2>1. EntryStep(r) /\ ent[r].pc = "leased" /\ ent[r].op = "ask"
    BY DEF EntryStep, BeginAsk
  <2>2. UNCHANGED <<lease, store, writes, valid, lost, rec, dr>>
    BY DEF BeginAsk, data, hold
  <2>3. CASE Goto(r, "cleanup") /\ UNCHANGED run
    <3>1. ~Launched(r)' /\ Turns(r)' /\ Fresh(r)'
      BY <2>1, <2>2, <2>3, GotoLocal, Zenon DEF RunOps
    <3> QED
      BY <2>1, <2>2, <3>1, LeaseSameFrame, EntryFrame, Zenon DEF data
  <2>4. CASE ~(Goto(r, "cleanup") /\ UNCHANGED run)
    <3> DEFINE e == [ent[r] EXCEPT !.pc = "launch", !.gen = held[r], !.base = store.ver,
                                 !.fresh = TRUE]
    <3>1. ent[r] \in Entry /\ EntType /\ RunType
      BY DEF HoldInv, EntType
    <3>2. ent' = [ent EXCEPT ![r] = e]
      BY <2>4 DEF BeginAsk, AskSnapshot
    <3>3. run' = [run EXCEPT ![r].base = store.ver, ![r].fresh = TRUE]
      BY <2>4 DEF BeginAsk, AskSnapshot
    <3>4. e.pc = "launch" /\ e.op = "ask" /\ e.base = store.ver /\ e.fresh = TRUE
      BY <2>1, <3>1 DEF Entry
    <3> HIDE DEF e
    <3>5. ent'[r] = e
      BY <3>1, <3>2 DEF EntType
    <3>6. run[r] # NoRun /\ run[r].ph = "prov" /\ run[r] \in Run
      BY <2>1, <3>1, EntryTurn, RegisteredRun, Zenon DEF RunOps
    <3>7. run'[r].ph = "prov"
      BY <3>1, <3>3, <3>6 DEF RunType, Run
    <3>8. Turns(r) /\ Fresh(r) /\ ~dr[r].fresh
          /\ dr[r].pc \notin {"saving", "drop", "release", "forget"}
      BY <2>1, EntryTurn, Zenon DEF HandoverInv, RunOps
    <3>9. Turns(r)'
      BY <2>2, <3>4, <3>5, <3>8, Zenon DEF Turns, RunOps
    <3>10. Fresh(r)' /\ ~Launched(r)'
      BY <2>2, <3>4, <3>5, <3>7, <3>8, Zenon DEF Fresh, Launched
    <3> QED
      BY <2>1, <2>2, <3>9, <3>10, LeaseSameFrame, EntryFrame, Zenon DEF data
  <2> QED
    BY <2>3, <2>4, Zenon
\* Errors before the launch, and closing.
<1>6. CASE BeginClose(r) \/ SaveFailed(r) \/ LaunchFailed(r) \/ ForgetCapability(r)
  <2> USE <1>6
  <2>1. EntryStep(r) /\ ent[r].pc \in {"leased", "save", "launch", "forget"}
    BY Zenon DEF EntryStep, BeginClose, SaveFailed, LaunchFailed, ForgetCapability
  <2>2. UNCHANGED <<lease, store, writes, valid, lost, rec, run, dr>>
    BY Zenon DEF BeginClose, SaveFailed, LaunchFailed, ForgetCapability, data, hold
  <2>3. Turns(r)
    BY Zenon DEF HandoverInv
  <2>4. ~Launched(r)' /\ Turns(r)' /\ Fresh(r)'
    <3>1. CASE BeginClose(r)
      <4>1. ent[r].op = "end" /\ dr[r].pc \notin {"cancel", "wait", "saving"}
        BY <2>3, <3>1, Zenon DEF BeginClose, Turns, RunOps, CloseOps
      <4> QED
        BY <2>1, <2>2, <3>1, <4>1, GotoLocal, Zenon DEF BeginClose
    <3>2. CASE SaveFailed(r) \/ LaunchFailed(r)
      <4>1. ent[r].op \in RunOps
        BY <2>3, <3>2, Zenon DEF SaveFailed, LaunchFailed, Turns, RunOps
      <4>2. Goto(r, "cleanup")
        BY <3>2, <4>1, Zenon DEF SaveFailed, LaunchFailed
      <4> QED
        BY <2>1, <2>2, <4>1, <4>2, GotoLocal, Zenon
    <3>3. CASE ForgetCapability(r)
      BY <2>1, <2>2, <3>3, LeaveLocal, Zenon DEF ForgetCapability
    <3> QED
      BY <3>1, <3>2, <3>3
  <2> QED
    BY <2>1, <2>2, <2>4, LeaseSameFrame, EntryFrame, Zenon DEF data
\* A mutation never enters.
<1>7. CASE BeginMutation(r)
  BY <1>7, Zenon DEF HandoverInv, BeginMutation, Turns, RunOps
\* The run starts on the snapshot the entry carries.
<1>8. CASE Launch(r)
  <2> USE <1>8
  <2>0. EntType /\ RunType /\ EntryStep(r) /\ ent[r].pc = "launch"
    BY Zenon DEF HoldInv, EntryStep, Launch
  <2>1. UNCHANGED <<lease, store, writes, valid, lost, rec, dr, up>>
    BY Zenon DEF Launch, data, hold
  <2>2. Waits(r) /\ Turns(r) /\ Fresh(r)
    BY Zenon DEF HandoverInv
  <2>3. ent[r].op \in RunOps
    BY <2>0, <2>2, Zenon DEF Turns, RunOps
  <2>4. ~Launched(r) /\ ~dr[r].fresh /\ dr[r].pc \notin {"saving", "drop", "release", "forget"}
    BY <2>0, <2>3, EntryTurn, Zenon
  <2>5. up[r] /\ \A w \in writes : w.by # r
    BY <2>0, <2>2, <2>4, EntryGuards, Zenon DEF Waits
  <2>6. ent'[r].pc = "off" /\ ent'[r].op = "none"
    BY <2>0, Zenon DEF Launch, Leave, NoEntry, EntType
  <2>7. /\ run'[r].base = ent[r].base /\ run'[r].fresh = ent[r].fresh
        /\ ~run'[r].parked /\ ~run'[r].preserve
        /\ run'[r].ph = "ended" => run'[r].st = "done"
    BY <2>0, Zenon DEF Launch, RunType
  <2>8. Waits(r)'
    BY <2>1, <2>5, Zenon DEF Waits
  <2>9. Turns(r)'
    BY <2>1, <2>2, <2>4, <2>6, Zenon DEF Turns
  <2>10. Fresh(r)'
    BY <2>1, <2>2, <2>3, <2>4, <2>6, <2>7, Zenon DEF Fresh, RunOps
  <2>11. Parked(r)'
    BY <2>1, <2>5, <2>7, Zenon DEF Parked
  <2> QED
    BY <2>0, <2>1, <2>8, <2>9, <2>10, <2>11, LeaseSameFrame, EntryKeepsOthers, LocalFrame, Zenon
       DEF Local, data
\* A drain that waits for the entry keeps the snapshot of the entry that failed.
<1>9. CASE Cleanup(r)
  <2> USE <1>9
  <2>0. EntType /\ RunType /\ DrType /\ dr[r] \in Drain /\ EntryStep(r) /\ ent[r].pc = "cleanup"
    BY Zenon DEF HoldInv, EntryStep, Cleanup, DrType
  <2>1. UNCHANGED <<lease, store, writes, valid, lost, rec>>
    BY DEF Cleanup, RemoveRun, data
  <2>2. Turns(r) /\ Fresh(r)
    BY Zenon DEF HandoverInv
  <2>3. ent[r].op \in RunOps
    BY <2>0, <2>2, Zenon DEF Turns, RunOps
  <2>4. /\ dr'[r].pc = dr[r].pc
        /\ \/ dr'[r] = dr[r]
           \/ /\ dr[r].pc \in {"cancel", "wait"}
              /\ dr'[r].base = ent[r].base /\ dr'[r].fresh = ent[r].fresh
    BY <2>0 DEF Cleanup, DrainKeeps, DrType, Drain
  <2>5. ent'[r].pc = "off" /\ ent'[r].op = "none" /\ run'[r] = NoRun
    BY <2>0, Zenon DEF Cleanup, Leave, NoEntry, EntType, RunType
  <2>6. ~dr[r].fresh
    BY <2>0, <2>3, EntryTurn, Zenon
  <2>7. Turns(r)'
    BY <2>1, <2>2, <2>4, <2>5, <2>6, Zenon DEF Turns
  <2>8. ~Launched(r)'
    BY <2>5, Blank, Zenon DEF Launched
  <2>9. Fresh(r)'
    BY <2>1, <2>2, <2>3, <2>4, <2>5, <2>6, <2>8, Zenon DEF Fresh, RunOps
  <2> QED
    BY <2>0, <2>1, <2>4, <2>7, <2>8, <2>9, LeaseSameFrame, EntryFrame, Zenon DEF data
<1>10. CASE CloseLocal(r)
  <2> USE <1>10
  <2>0. EntType /\ HoldType /\ ent[r] \in Entry /\ EntryStep(r) /\ ent[r].pc = "lock"
    BY DEF HoldInv, EntryStep, CloseLocal, EntType
  <2>1. UNCHANGED <<lease, store, writes, valid, rec, run, dr>> /\ ~lost'[r]
    BY <2>0 DEF CloseLocal, data, HoldType
  <2>2. Turns(r) /\ Fresh(r) /\ ~Launched(r)
    BY <2>0, EntryTurn, Zenon DEF HandoverInv
  <2>3. ent[r].op = "end" /\ run[r] = NoRun
    BY <2>0, <2>2, Zenon DEF Turns, RunOps
  <2>4. ent'[r].pc = "drop" /\ ent'[r].op = "end"
    BY <2>0, <2>3 DEF CloseLocal, EntType, Entry
  <2>5. Turns(r)'
    BY <2>0, <2>1, <2>2, <2>3, <2>4, Zenon DEF Turns
  <2>6. Fresh(r)' /\ ~Launched(r)'
    BY <2>1, <2>2, <2>4, Zenon DEF Fresh, Launched, RunOps
  <2> QED
    BY <2>0, <2>1, <2>5, <2>6, LeaseSameFrame, EntryFrame, Zenon DEF data
<1>11. CASE DropLease(r)
  <2> USE <1>11
  <2>0. EntType /\ HoldType /\ ent[r] \in Entry /\ EntryStep(r) /\ ent[r].pc = "drop"
    BY DEF HoldInv, EntryStep, DropLease, EntType
  <2>2. Turns(r) /\ Fresh(r) /\ ~Launched(r)
    BY <2>0, EntryTurn, Zenon DEF HandoverInv
  <2>3. ent[r].op = "end" /\ run[r] = NoRun
    BY <2>0, <2>2, Zenon DEF Turns, RunOps
  <2>1. UNCHANGED <<lease, store, writes, lost, rec, run, dr>> /\ (valid'[r] => valid[r])
    BY <2>0, <2>3 DEF DropLease, ReleaseLocal, data, hold, HoldType
  <2>4. CASE Leave(r)
    <3>1. ~Launched(r)' /\ Turns(r)' /\ Fresh(r)'
      BY <2>0, <2>1, <2>4, LeaveLocal, Zenon
    <3> QED
      BY <2>0, <2>1, <3>1, LeaseSameFrame, EntryFrame, Zenon DEF data
  <2>5. CASE ~Leave(r)
    <3> DEFINE e == [ent[r] EXCEPT !.pc = "release", !.tok = tok[r], !.flag = run[r] = NoRun]
    <3>1. e.pc = "release" /\ e.op = "end"
      BY <2>0, <2>3 DEF Entry
    <3>2. ent' = [ent EXCEPT ![r] = e]
      BY <2>5, Zenon DEF DropLease
    <3> HIDE DEF e
    <3>3. ent'[r] = e
      BY <2>0, <3>2 DEF EntType
    <3>4. Turns(r)'
      BY <2>0, <2>1, <2>2, <2>3, <3>1, <3>3, Zenon DEF Turns
    <3>5. Fresh(r)' /\ ~Launched(r)'
      BY <2>1, <2>2, <3>1, <3>3, Zenon DEF Fresh, Launched, RunOps
    <3> QED
      BY <2>0, <2>1, <3>4, <3>5, LeaseSameFrame, EntryFrame, Zenon DEF data
  <2> QED
    BY <2>4, <2>5, Zenon
\* When a close releases the lease, no save of the process is in flight.
<1>12. CASE Release(r)
  <2> USE <1>12
  <2>0. EntryStep(r) /\ ent[r].pc = "release" /\ up[r]
    BY Zenon DEF EntryStep, Release
  <2>1. UNCHANGED <<store, writes, valid, lost, rec, run, dr>>
    BY Zenon DEF Release, data, hold
  <2>2. Turns(r) /\ Waits(r) /\ ~Launched(r)
    BY <2>0, EntryTurn, Zenon DEF HandoverInv
  <2>3. ent[r].op = "end" /\ dr[r].pc \notin {"cancel", "wait", "saving"}
    BY <2>0, <2>2, Zenon DEF Turns, RunOps
  <2>4. \A w \in writes : w.by # r
    BY <2>0, <2>2, <2>3, Zenon DEF Waits
  <2>5. \A w \in writes : holder'[Sid] = holder[Sid] /\ ~lapsed'[Sid]
    BY <2>4, ReleaseFrame, Zenon DEF Release
  <2>6. ~Launched(r)' /\ Turns(r)' /\ Fresh(r)'
    BY <2>0, <2>1, <2>3, GotoLocal, LeaveLocal, Zenon DEF Release
  <2> QED
    BY <2>0, <2>1, <2>5, <2>6, EntryFrame, Zenon DEF data
\* A save is admitted only when none is in flight, of this process or another.
<1>13. CASE SaveAdmitted(r)
  <2> USE <1>13
  <2> DEFINE w0 == [by |-> r, src |-> "ent", base |-> ent[r].base, st |-> ent[r].st,
                    fresh |-> ent[r].fresh]
  <2>0. ent[r].pc = "save" /\ EntType /\ EntryStep(r)
    BY Zenon DEF SaveAdmitted, HoldInv, EntryStep
  <2>1. UNCHANGED <<lease, store, valid, lost, rec, run, dr, up>>
    BY Zenon DEF SaveAdmitted, hold
  <2>2. Waits(r) /\ Turns(r) /\ Fresh(r) /\ Reliance(r)
    BY Zenon DEF HandoverInv, AgreeInv
  <2>3. ent[r].op = "prompt" /\ ent[r].op \in RunOps
    BY <2>0, <2>2, Zenon DEF Turns, RunOps
  <2>4. ~Launched(r) /\ dr[r].pc # "saving" /\ ~dr[r].fresh
    BY <2>0, <2>3, EntryTurn, Zenon
  <2>5. valid[r] /\ up[r]
    BY Zenon DEF SaveAdmitted, SaveAllowed, HoldInv, CapabilityNeedsHold
  <2>6. writes = {}
    BY <2>0, <2>2, <2>4, <2>5, SaverHolds, Zenon DEF Waits
  <2>7. writes' = {w0}
    BY <2>6, Zenon DEF SaveAdmitted
  <2>8. w0.by = r /\ w0.src = "ent" /\ w0.base = ent[r].base /\ w0.fresh = ent[r].fresh
    OBVIOUS
  <2> HIDE DEF w0
  <2>9. /\ ent'[r].pc = "saving" /\ ent'[r].op = ent[r].op
        /\ ent'[r].base = ent[r].base /\ ent'[r].fresh = ent[r].fresh
    BY <2>0 DEF SaveAdmitted, Goto, EntType, Entry
  <2>10. \A w \in writes' : holder'[Sid] = w.by /\ ~lapsed'[Sid]
    BY <2>1, <2>2, <2>5, <2>7, <2>8, Zenon DEF Reliance, Owns, lease
  <2>11. \A w \in writes' : w.fresh => w.base = store.ver
    BY <2>2, <2>3, <2>5, <2>7, <2>8, Zenon DEF Fresh
  <2>12. Waits(r)'
    BY <2>7, <2>8, <2>9, Zenon DEF Waits
  <2>13. Turns(r)'
    BY <2>1, <2>2, <2>3, <2>9, Zenon DEF Turns
  <2>14. Fresh(r)' /\ ~Launched(r)'
    BY <2>1, <2>2, <2>4, <2>9, Zenon DEF Fresh, Launched
  <2>15. Parked(r)'
    BY <2>14, Zenon DEF Parked
  <2> QED
    BY <2>0, <2>1, <2>7, <2>8, <2>10, <2>11, <2>12, <2>13, <2>14, <2>15, EntryKeepsOthers,
       SaveFrame, Zenon DEF Local
<1> QED
  BY <1>1, <1>2, <1>3, <1>4, <1>5, <1>6, <1>7, <1>8, <1>9, <1>10, <1>11, <1>12, <1>13, Zenon DEF
     EntryStep

\* An operation reads its snapshot under the present hold, or knows that it did not.
LEMMA EnterHandover ==
  ASSUME HandoverOps, HoldInv, AgreeInv, HandoverInv, NEW r \in Replicas,
         NEW o \in EntryOps, Enter(r, o)
  PROVE  HandoverInv'
<1>0. EntType /\ RunType /\ HoldType /\ ent[r].pc = "off" /\ up[r]
  BY Zenon DEF Enter, HoldInv
<1>1. UNCHANGED <<lease, store, writes, valid, lost, rec, dr, up, cap>>
  BY Zenon DEF Enter, RemoveRun, hold, data
<1>2. Waits(r) /\ Turns(r) /\ Fresh(r) /\ Reliance(r)
  BY Zenon DEF HandoverInv, AgreeInv
<1>3. o \in RunOps \/ o = "end"
  BY Zenon DEF Enter, HandoverOps, EntryOps, CloseOps
<1>4. ent'[r].pc = "acquire" /\ ent'[r].op = o
      /\ ent'[r].base = store.ver /\ ent'[r].fresh = valid[r]
  BY <1>0, <1>2, Zenon DEF Enter, EntType, Turns
<1>5. ASSUME o \in RunOps PROVE run'[r].ph = "prov" /\ dr[r].pc = "off"
  <2> DEFINE p == [ph |-> "prov", st |-> store.st, base |-> store.ver, fresh |-> valid[r],
                   gen |-> 0, parked |-> FALSE, stop |-> FALSE, preserve |-> FALSE,
                   rmcap |-> FALSE]
  <2>1. p.ph = "prov"
    OBVIOUS
  <2>2. run' = [run EXCEPT ![r] = p] /\ ~draining[r]
    BY <1>5, Zenon DEF Enter
  <2> HIDE DEF p
  <2>3. run'[r] = p
    BY <1>0, <2>2, Zenon DEF RunType
  <2>4. dr[r].pc = "off"
    BY <1>2, <2>2, Zenon DEF Reliance
  <2> QED
    BY <2>1, <2>3, <2>4, Zenon
<1>6. o = "end" => run'[r] = run[r] /\ run[r] = NoRun
  BY Zenon DEF Enter, RunOps, Admits
<1>7. ~Launched(r)'
  BY <1>3, <1>5, <1>6, Blank, Zenon DEF Launched
<1>8. \A w \in writes : w.by = r => w.src = "drain" /\ dr[r].pc = "saving"
  <2>1. ASSUME NEW w \in writes, w.by = r, w.src = "run" PROVE FALSE
    <3>1. Launched(r) /\ RunSaving(r)
      BY <1>0, <1>2, <2>1, Zenon DEF Waits, RunSaving
    <3>2. run[r] # NoRun
      BY <3>1, Blank, Zenon DEF Launched
    <3> QED
      BY <1>3, <3>1, <3>2, Zenon DEF Enter, Admits, RunOps
  <2> QED
    BY <1>0, <1>2, <2>1, Zenon DEF Waits
<1>9. Waits(r)'
  BY <1>1, <1>8, Zenon DEF Waits
<1>10. Turns(r)'
  BY <1>1, <1>2, <1>3, <1>4, <1>5, <1>6, Zenon DEF Turns
<1>11. Fresh(r)'
  BY <1>1, <1>2, <1>4, <1>7, Zenon DEF Fresh
<1>12. Parked(r)'
  BY <1>7, Zenon DEF Parked
<1>13. KeepsOthers(r)
  BY <1>0, <1>1, Zenon DEF Enter, EntType, RunType, KeepsOthers, Keeps
<1> QED
  BY <1>1, <1>9, <1>10, <1>11, <1>12, <1>13, LeaseSameFrame, LocalFrame, Zenon DEF Local, data

-----------------------------------------------------------------------------
(* Handover: the run, the drain, the crash, and what the environment does *)

LEMMA RunHandover ==
  ASSUME HoldInv, AgreeInv, HandoverInv, NEW r \in Replicas, RunStep(r) \/ RemoveCapability(r)
  PROVE  HandoverInv'
\* Asking, being answered and ending: the run's aggregate is not saved yet.
<1>1. CASE RunAsks(r) \/ RunAnswered(r) \/ RunEnds(r)
  <2> USE <1>1
  <2>0. RunType /\ RunStep(r) /\ run[r].ph = "active" /\ Launched(r)
    BY DEF HoldInv, RunStep, RunAsks, RunAnswered, RunEnds, Launched
  <2>1. UNCHANGED <<lease, store, writes, valid, lost, rec, dr, up, ent, cap>>
    BY DEF RunAsks, RunAnswered, RunEnds, hold, data
  <2>2. /\ run[r] # NoRun /\ run[r] \in Run /\ ent[r].op = "none" /\ ent[r].pc = "off"
        /\ dr[r].pc \notin {"saving", "drop", "release", "forget"} /\ ~dr[r].fresh
    BY <2>0, RunTurn, Zenon
  <2>3. Waits(r) /\ Turns(r) /\ Fresh(r) /\ Parked(r) /\ Reliance(r)
    BY Zenon DEF HandoverInv, AgreeInv
  <2>4. /\ run'[r].base = run[r].base /\ run'[r].fresh = run[r].fresh
        /\ run'[r].preserve = run[r].preserve /\ run'[r].stop = run[r].stop
        /\ \/ RunAsks(r) /\ run'[r].ph = "active" /\ run'[r].st = "awaiting"
              /\ run'[r].parked = run[r].parked
           \/ RunAnswered(r) /\ run'[r].ph = "active" /\ run'[r].st = "running" /\ ~run'[r].parked
           \/ RunEnds(r) /\ run'[r].ph = "ended" /\ run'[r].st # "awaiting" /\ ~run'[r].parked
    <3>1. CASE RunAsks(r)
      BY <2>0, <2>2, <3>1, Zenon DEF RunAsks, RunType, Run
    <3>2. CASE RunAnswered(r)
      BY <2>0, <2>2, <3>2, Zenon DEF RunAnswered, RunType, Run
    <3>3. CASE RunEnds(r)
      <4> DEFINE x == [run[r] EXCEPT !.ph = "ended", !.parked = FALSE,
                                   !.st = IF run[r].stop THEN "cancelled" ELSE "done"]
      <4>1. /\ x.base = run[r].base /\ x.fresh = run[r].fresh /\ x.preserve = run[r].preserve
            /\ x.stop = run[r].stop /\ x.ph = "ended" /\ x.st # "awaiting" /\ ~x.parked
        BY <2>2, Zenon DEF Run
      <4>2. run' = [run EXCEPT ![r] = x]
        BY <3>3 DEF RunEnds
      <4> HIDE DEF x
      <4> QED
        BY <2>0, <3>3, <4>1, <4>2, Zenon DEF RunType
    <3> QED
      BY <3>1, <3>2, <3>3, Zenon
  <2>5. Launched(r)'
    BY <2>4, Zenon DEF Launched
  <2>6. Waits(r)'
    BY <2>1, <2>2, <2>3, <2>5, Zenon DEF Waits
  <2>7. Turns(r)'
    BY <2>1, <2>2, <2>3, Zenon DEF Turns
  <2>8. Fresh(r)'
    BY <2>0, <2>1, <2>3, <2>4, Zenon DEF Fresh
  <2>9. Parked(r)'
    <3>1. CASE RunAsks(r) /\ run'[r].ph = "active" /\ run'[r].st = "awaiting"
               /\ run'[r].parked = run[r].parked
      <4>1. run[r].st = "running" /\ ~run[r].parked
        BY <2>0, <2>3, <3>1, Zenon DEF RunAsks, Parked
      <4> QED
        BY <2>0, <2>1, <2>3, <2>4, <3>1, <4>1, Zenon DEF Parked
    <3>2. CASE RunAnswered(r) /\ run'[r].ph = "active" /\ run'[r].st = "running" /\ ~run'[r].parked
      <4>1. \A w \in writes : ~(w.by = r /\ w.src = "run")
        BY <3>2, Zenon DEF RunAnswered, RunSaving
      <4>2. ~(run[r].preserve /\ valid[r])
        BY <2>0, <2>3, <3>2, Zenon DEF RunAnswered, Parked, Reliance
      <4> QED
        BY <2>1, <2>4, <3>2, <4>1, <4>2, Zenon DEF Parked
    <3>3. CASE RunEnds(r) /\ run'[r].ph = "ended" /\ run'[r].st # "awaiting" /\ ~run'[r].parked
      <4>1. \A w \in writes : ~(w.by = r /\ w.src = "run")
        BY <3>3, Zenon DEF RunEnds, RunSaving
      <4>2. run[r].preserve /\ valid[r] =>
                store.st = "awaiting" /\ dr[r].pc = "wait" /\ cap[r] # "yes"
        BY <2>0, <2>3, <3>3, Zenon DEF RunEnds, Parked
      <4> QED
        BY <2>1, <2>4, <3>3, <4>1, <4>2, Zenon DEF Parked
    <3> QED
      BY <2>4, <3>1, <3>2, <3>3, Zenon
  <2> QED
    BY <2>0, <2>1, <2>6, <2>7, <2>8, <2>9, RunKeepsOthers, LeaseSameFrame, LocalFrame, Zenon
       DEF Local, data
\* A run whose lease is good saves what it read under it; a preserved run does not save.
<1>2. CASE RunSave(r)
  <2> USE <1>2
  <2> DEFINE w0 == [by |-> r, src |-> "run", base |-> run[r].base, st |-> run[r].st,
                    fresh |-> run[r].fresh]
  <2>0. RunStep(r) /\ Launched(r)
    BY Zenon DEF RunStep, RunSave, Launched
  <2>1. UNCHANGED <<lease, store, valid, lost, rec, dr, up, ent, cap, run>>
    BY Zenon DEF RunSave, hold
  <2>2. /\ run[r] # NoRun /\ ent[r].op = "none" /\ ent[r].pc = "off"
        /\ dr[r].pc \notin {"saving", "drop", "release", "forget"} /\ ~dr[r].fresh
    BY <2>0, RunTurn, Zenon
  <2>3. Waits(r) /\ Turns(r) /\ Fresh(r) /\ Parked(r) /\ Reliance(r)
    BY Zenon DEF HandoverInv, AgreeInv
  <2>4. valid[r] /\ up[r] /\ cap[r] = "yes"
    BY Zenon DEF RunSave, SaveAllowed, HoldInv, CapabilityNeedsHold
  <2>5. writes = {}
    BY <2>2, <2>3, <2>4, SaverHolds, Zenon DEF Waits, RunSave, RunSaving
  <2>6. writes' = {w0}
    BY <2>5, Zenon DEF RunSave
  <2>7. /\ w0.by = r /\ w0.src = "run" /\ w0.base = run[r].base /\ w0.fresh = run[r].fresh
        /\ w0.st = run[r].st
    BY Zenon
  <2> HIDE DEF w0
  <2>8. \A w \in writes' : holder'[Sid] = w.by /\ ~lapsed'[Sid]
    BY <2>1, <2>3, <2>4, <2>6, <2>7, Zenon DEF Reliance, Owns, lease
  <2>9. \A w \in writes' : w.fresh => w.base = store.ver
    BY <2>0, <2>3, <2>4, <2>6, <2>7, Zenon DEF Fresh
  <2>10. Launched(r)'
    BY <2>0, <2>1, Zenon DEF Launched
  <2>11. Waits(r)'
    BY <2>6, <2>7, <2>10, Zenon DEF Waits
  <2>12. Turns(r)'
    BY <2>1, <2>3, Zenon DEF Turns
  <2>13. Fresh(r)'
    BY <2>0, <2>1, <2>3, Zenon DEF Fresh, Launched
  <2>14. Parked(r)'
    <3>1. ~run[r].preserve
      BY <2>0, <2>3, <2>4, Zenon DEF Parked, RunSave
    <3>2. run[r].st = "awaiting" => run[r].ph = "active"
      BY <2>0, <2>3, Zenon DEF Parked, Launched
    <3> QED
      BY <2>0, <2>1, <2>3, <2>6, <2>7, <3>1, <3>2, Zenon DEF Parked
  <2> QED
    BY <2>0, <2>1, <2>6, <2>7, <2>8, <2>9, <2>11, <2>12, <2>13, <2>14, RunKeepsOthers, SaveFrame,
       Zenon DEF Local
\* A drain that waits for the run keeps the aggregate of the run that finished.
<1>3. CASE FinishRun(r)
  <2> USE <1>3
  <2>0. RunType /\ DrType /\ dr[r] \in Drain /\ RunStep(r) /\ Launched(r) /\ up[r]
    BY Zenon DEF HoldInv, RunStep, FinishRun, Launched, DrType
  <2>1. UNCHANGED <<lease, store, writes, valid, lost, rec, up, ent, cap>>
    BY DEF FinishRun, RemoveRun, data
  <2>2. /\ ent[r].op = "none" /\ ent[r].pc = "off"
        /\ dr[r].pc \notin {"saving", "drop", "release", "forget"} /\ ~dr[r].fresh
    BY <2>0, RunTurn, Zenon
  <2>3. Waits(r) /\ Turns(r) /\ Fresh(r)
    BY Zenon DEF HandoverInv
  <2>4. /\ dr'[r].pc = dr[r].pc
        /\ \/ dr'[r] = dr[r]
           \/ /\ dr[r].pc \in {"cancel", "wait"}
              /\ dr'[r].base = run[r].base /\ dr'[r].fresh = run[r].fresh
    BY <2>0 DEF FinishRun, DrainKeeps, DrType, Drain
  <2>5. run'[r] = NoRun /\ ~Launched(r)'
    BY <2>0, Zenon DEF FinishRun, RunType, Launched, NoRun
  <2>6. Waits(r)'
    BY <2>0, <2>1, <2>2, <2>3, Zenon DEF Waits, FinishRun, RunSaving
  <2>7. Turns(r)'
    BY <2>1, <2>2, <2>3, <2>4, <2>5, Zenon DEF Turns
  <2>8. Fresh(r)'
    BY <2>0, <2>1, <2>2, <2>3, <2>4, <2>5, Zenon DEF Fresh, RunOps
  <2>9. Parked(r)'
    BY <2>5, Zenon DEF Parked
  <2> QED
    BY <2>0, <2>1, <2>6, <2>7, <2>8, <2>9, RunKeepsOthers, LeaseSameFrame, LocalFrame, Zenon
       DEF Local, data
<1>4. CASE RemoveCapability(r)
  <2> USE <1>4
  <2>1. UNCHANGED <<lease, store, writes, valid, lost, rec, dr, up, ent, run>> /\ cap'[r] = "none"
    BY Zenon DEF RemoveCapability, hold, data, HoldInv, CapType
  <2>2. Waits(r) /\ Turns(r) /\ Fresh(r) /\ Parked(r)
    BY Zenon DEF HandoverInv
  <2>3. Waits(r)' /\ Turns(r)' /\ Fresh(r)'
    BY <2>1, <2>2, Zenon DEF Waits, Turns, Fresh, Launched
  <2>4. Parked(r)'
    BY <2>1, <2>2, Zenon DEF Parked, Launched
  <2> QED
    BY <2>1, <2>3, <2>4, RunKeepsOthers, LeaseSameFrame, LocalFrame, Zenon DEF Local, data
<1> QED
  BY <1>1, <1>2, <1>3, <1>4, Zenon DEF RunStep

\* No renewal fails, so nothing is lost and nothing swept.
LEMMA LossHandover ==
  ASSUME HandoverOps, HoldInv, AgreeInv, HandoverInv, NEW r \in Replicas,
         RenewOk(r) \/ RenewFailed(r) \/ LossWork(r) \/ Sweep(r)
  PROVE  FALSE
<1>1. Reliance(r) /\ Turns(r) /\ "fault" \notin Ops
  BY Zenon DEF AgreeInv, HandoverInv, HandoverOps
<1>2. CASE RenewOk(r) \/ RenewFailed(r)
  BY <1>1, <1>2, Zenon DEF RenewOk, RenewFailed, Reliance, Owns
<1>3. CASE LossWork(r)
  BY <1>1, <1>3, Zenon DEF LossWork, LossDeclared, LossCancels, LossReleases, Reliance
<1>4. CASE Sweep(r)
  BY <1>1, <1>4, Zenon DEF Sweep, ReconcileStarts, TrialFree, TrialHeld, TrialReleases,
     ReconcileClears, Turns
<1> QED
  BY <1>2, <1>3, <1>4, Zenon

LEMMA DrainHandover ==
  ASSUME HoldInv, AgreeInv, HandoverInv, NEW r \in Replicas, DrainGate(r) \/ DrainWork(r)
  PROVE  HandoverInv'
\* Closing admission.
<1>1. CASE DrainGate(r)
  <2> USE <1>1
  <2>0. RunType /\ DrType /\ dr[r] \in Drain /\ dr[r].pc = "off"
    BY DEF HoldInv, DrainGate, DrType
  <2>1. UNCHANGED <<lease, store, writes, valid, lost, rec, up, ent, cap>>
    BY Zenon DEF DrainGate, hold, data
  <2>2. Waits(r) /\ Turns(r) /\ Fresh(r) /\ Parked(r)
    BY Zenon DEF HandoverInv
  <2>3. dr'[r].pc = "gate" /\ dr'[r].fresh = dr[r].fresh /\ ~dr[r].fresh
    BY <2>0, <2>2, Zenon DEF DrainGate, DrType, Drain, Turns
  <2>4. run'[r] = run[r] \/ (run[r].ph = "prov" /\ run'[r].ph = "prov")
    <3>1. CASE run[r].ph = "prov"
      <4>1. run[r] \in Run
        BY <2>0, <3>1, RegisteredRun, Blank, Zenon
      <4> QED
        BY <2>0, <3>1, <4>1, Zenon DEF DrainGate, RunType, Run
    <3>2. CASE run[r].ph # "prov"
      BY <3>2 DEF DrainGate
    <3> QED
      BY <3>1, <3>2, Zenon
  <2>5. run[r] = NoRun => run'[r] = NoRun
    BY <2>4, Blank, Zenon
  <2>6. Launched(r)' <=> Launched(r)
    BY <2>4, Zenon DEF Launched
  <2>7. Launched(r) => run'[r] = run[r]
    BY <2>4 DEF Launched
  <2>8. Waits(r)'
    BY <2>0, <2>1, <2>2, <2>6, Zenon DEF Waits
  <2>9. Turns(r)'
    BY <2>1, <2>2, <2>3, <2>5, Zenon DEF Turns
  <2>10. Fresh(r)'
    BY <2>1, <2>2, <2>3, <2>6, <2>7, Zenon DEF Fresh
  <2>11. Parked(r)'
    BY <2>0, <2>1, <2>2, <2>6, <2>7, Zenon DEF Parked
  <2> QED
    BY <2>1, <2>8, <2>9, <2>10, <2>11, DrainKeepsOthers, LeaseSameFrame, LocalFrame, Zenon DEF
       Local, data
\* A run is preserved only if it is parked: its ask is what the store has.
<1>2. CASE DrainSnapshot(r)
  <2> USE <1>2
  <2>0. RunType /\ DrType /\ dr[r] \in Drain /\ dr[r].pc = "gate" /\ DrainWork(r)
    BY DEF HoldInv, DrainSnapshot, DrType, DrainWork
  <2>1. UNCHANGED <<lease, store, writes, valid, lost, rec, up, ent, cap>>
    BY DEF DrainSnapshot, hold, data
  <2>2. Waits(r) /\ Turns(r) /\ Fresh(r) /\ Parked(r)
    BY Zenon DEF HandoverInv
  <2>3. \A w \in writes : ~(w.by = r /\ w.src = "run")
    BY DEF DrainSnapshot, RunSaving
  <2>4. CASE run[r] = NoRun
    <3>1. run'[r] = NoRun /\ dr'[r].pc \in {"drop", "done"} /\ dr'[r].fresh = dr[r].fresh
      BY <2>0, <2>4, SMTT(30) DEF DrainSnapshot, DrType, Drain
    <3>2. ~Launched(r)'
      BY <3>1, Blank DEF Launched
    <3>3. Waits(r)'
      BY <2>0, <2>1, <2>2, <2>3, Zenon DEF Waits
    <3>4. Turns(r)'
      BY <2>1, <2>2, <2>4, <3>1, Zenon DEF Turns
    <3>5. Fresh(r)' /\ Parked(r)'
      BY <2>1, <2>2, <3>1, <3>2, Zenon DEF Fresh, Parked
    <3> QED
      BY <2>0, <2>1, <3>3, <3>4, <3>5, DrainKeepsOthers, LeaseSameFrame, LocalFrame, Zenon DEF
         Local, data
  <2>5. CASE run[r] # NoRun
    <3>0. run[r] \in Run
      BY <2>0, <2>5, RegisteredRun, Zenon
    <3>1. dr'[r].pc = "cancel" /\ dr'[r].fresh = dr[r].fresh /\ dr'[r].base = dr[r].base
      BY <2>0, <2>5, SMTT(30) DEF DrainSnapshot, DrType, Drain
    <3>2. /\ run'[r].ph = run[r].ph /\ run'[r].st = run[r].st /\ run'[r].base = run[r].base
          /\ run'[r].fresh = run[r].fresh /\ run'[r].parked = run[r].parked
          /\ run'[r].stop = run[r].stop /\ run'[r].preserve = (run[r].parked /\ ~run[r].stop)
      BY <2>0, <2>5, <3>0, SMTT(30) DEF DrainSnapshot, RunType, Run
    <3>3. ~dr[r].fresh /\ ent[r].op # "end"
      BY <2>2, <2>5, Zenon DEF Turns, RunOps
    <3>4. Launched(r)' <=> Launched(r)
      BY <3>2, Zenon DEF Launched
    <3>5. Waits(r)'
      BY <2>0, <2>1, <2>2, <2>3, Zenon DEF Waits
    <3>6. Turns(r)'
      BY <2>1, <2>2, <3>1, <3>3, Zenon DEF Turns
    <3>7. Fresh(r)'
      BY <2>1, <2>2, <3>1, <3>2, <3>3, <3>4, Zenon DEF Fresh
    <3>8. Parked(r)'
      BY <2>1, <2>2, <2>3, <3>1, <3>2, <3>4, Zenon DEF Parked
    <3> QED
      BY <2>0, <2>1, <3>5, <3>6, <3>7, <3>8, DrainKeepsOthers, LeaseSameFrame, LocalFrame, Zenon
         DEF Local, data
  <2> QED
    BY <2>4, <2>5
\* The preserved run loses the capability before it is cancelled.
<1>3. CASE DrainCancels(r)
  <2> USE <1>3
  <2>0. RunType /\ DrType /\ CapType /\ dr[r] \in Drain /\ dr[r].pc = "cancel" /\ DrainWork(r)
    BY DEF HoldInv, DrainCancels, DrType, DrainWork
  <2>1. UNCHANGED <<lease, store, writes, valid, lost, rec, up, ent>>
    BY Zenon DEF DrainCancels, hold, data
  <2>2. Waits(r) /\ Turns(r) /\ Fresh(r) /\ Parked(r)
    BY DEF HandoverInv
  <2>3. dr'[r].pc = "wait" /\ dr'[r].fresh = dr[r].fresh /\ dr'[r].base = dr[r].base
    BY <2>0 DEF DrainCancels, DrType, Drain
  <2>4. CASE run[r] = NoRun
    <3>1. run'[r] = NoRun /\ ~Launched(r)' /\ ~Launched(r)
      BY <2>4, Blank DEF DrainCancels, Launched
    <3>2. Waits(r)'
      BY <2>0, <2>1, <2>2, <3>1, Zenon DEF Waits
    <3>3. Turns(r)'
      BY <2>0, <2>1, <2>2, <2>3, <3>1, Zenon DEF Turns
    <3>4. Fresh(r)' /\ Parked(r)'
      BY <2>0, <2>1, <2>2, <2>3, <3>1, Zenon DEF Fresh, Parked
    <3> QED
      BY <2>0, <2>1, <3>2, <3>3, <3>4, DrainKeepsOthers, LeaseSameFrame, LocalFrame, Zenon DEF
         Local, data
  <2>5. CASE run[r] # NoRun
    <3>0. run[r] \in Run
      BY <2>0, <2>5, RegisteredRun, Zenon
    <3>1. /\ run'[r].ph = run[r].ph /\ run'[r].st = run[r].st /\ run'[r].base = run[r].base
          /\ run'[r].fresh = run[r].fresh /\ run'[r].parked = run[r].parked
          /\ run'[r].preserve = run[r].preserve
      BY <2>0, <2>5, <3>0, SMTT(30) DEF DrainCancels, RunType, Run
    <3>2. run[r].preserve => cap'[r] # "yes"
      BY <2>0, <2>5, Zenon DEF DrainCancels, CapType, PreservedCapability
    <3>3. ~dr[r].fresh /\ ent[r].op # "end"
      BY <2>2, <2>5, Zenon DEF Turns, RunOps
    <3>4. Launched(r)' <=> Launched(r)
      BY <3>1, Zenon DEF Launched
    <3>5. Waits(r)'
      BY <2>0, <2>1, <2>2, <3>4, Zenon DEF Waits
    <3>6. Turns(r)'
      BY <2>1, <2>2, <2>3, <3>3, Zenon DEF Turns
    <3>7. Fresh(r)'
      BY <2>1, <2>2, <2>3, <3>1, <3>3, <3>4, Zenon DEF Fresh
    <3>8. Parked(r)'
      BY <2>1, <2>2, <2>3, <3>1, <3>2, <3>4, Zenon DEF Parked
    <3> QED
      BY <2>0, <2>1, <3>5, <3>6, <3>7, <3>8, DrainKeepsOthers, LeaseSameFrame, LocalFrame, Zenon
         DEF Local, data
  <2> QED
    BY <2>4, <2>5
\* The drain saves what the run it waited for had read under the lease.
<1>4. CASE DrainSettles(r)
  <2> USE <1>4
  <2>0. DrType /\ dr[r] \in Drain /\ dr[r].pc = "wait" /\ run[r] = NoRun /\ DrainWork(r)
    BY DEF HoldInv, DrainSettles, DrType, DrainWork
  <2>1. UNCHANGED <<lease, store, valid, lost, rec, up, ent, cap, run>>
    BY DEF DrainSettles, hold
  <2>2. Waits(r) /\ Turns(r) /\ Fresh(r) /\ Reliance(r)
    BY Zenon DEF HandoverInv, AgreeInv
  <2>3. ~Launched(r) /\ ~Launched(r)' /\ Parked(r)'
    BY <2>0, <2>1, Blank, Zenon DEF Launched, Parked
  <2>4. CASE ~dr[r].flag /\ valid[r] /\ SaveAllowed(r) /\ Room
    <3> DEFINE w0 == [by |-> r, src |-> "drain", base |-> dr[r].base, st |-> dr[r].st,
                      fresh |-> dr[r].fresh]
    <3>1. up[r] /\ ent[r].pc # "saving"
      <4>1. ent[r].op \notin RunOps
        BY <2>0, Blank, Zenon DEF HoldInv, EntryOwnsRun
      <4> QED
        BY <2>2, <4>1 DEF DrainSettles, Turns, RunOps
    <3>2. writes = {}
      BY <2>0, <2>2, <2>3, <2>4, <3>1, SaverHolds, Zenon DEF Waits
    <3>3. writes' = {w0}
      BY <2>4, <3>2, Zenon DEF DrainSettles
    <3>4. w0.by = r /\ w0.src = "drain" /\ w0.base = dr[r].base /\ w0.fresh = dr[r].fresh
      OBVIOUS
    <3> HIDE DEF w0
    <3>5. dr'[r].pc = "saving" /\ dr'[r].fresh = dr[r].fresh
      BY <2>0, <2>4, SMTT(30) DEF DrainSettles, DrType, Drain
    <3>6. \A w \in writes' : holder'[Sid] = w.by /\ ~lapsed'[Sid]
      BY <2>1, <2>2, <2>4, <3>3, <3>4, Zenon DEF Reliance, Owns, lease
    <3>7. \A w \in writes' : w.fresh => w.base = store.ver
      BY <2>0, <2>2, <2>4, <3>3, <3>4, Zenon DEF Fresh
    <3>8. Waits(r)'
      BY <3>3, <3>4, <3>5, Zenon DEF Waits
    <3>9. Turns(r)'
      BY <2>0, <2>1, <2>2, <3>5, Zenon DEF Turns
    <3>10. Fresh(r)'
      BY <2>1, <2>2, <2>3, <3>5, Zenon DEF Fresh
    <3> QED
      BY <2>0, <2>1, <2>3, <3>3, <3>4, <3>6, <3>7, <3>8, <3>9, <3>10, DrainKeepsOthers, SaveFrame,
         Zenon DEF Local
  <2>5. CASE ~(~dr[r].flag /\ valid[r] /\ SaveAllowed(r) /\ Room)
    <3>1. UNCHANGED writes /\ dr'[r].pc = "drop" /\ dr'[r].fresh = dr[r].fresh
      BY <2>0, <2>5, SMTT(30) DEF DrainSettles, DrType, Drain
    <3>2. Waits(r)'
      BY <2>0, <2>1, <2>2, <2>3, <3>1, Zenon DEF Waits
    <3>3. Turns(r)'
      BY <2>0, <2>1, <2>2, <3>1, Zenon DEF Turns
    <3>4. Fresh(r)'
      BY <2>1, <2>2, <2>3, <3>1, Zenon DEF Fresh
    <3> QED
      BY <2>0, <2>1, <2>3, <3>1, <3>2, <3>3, <3>4, DrainKeepsOthers, LeaseSameFrame, LocalFrame,
         Zenon DEF Local, data
  <2> QED
    BY <2>4, <2>5, Zenon
\* Past the deadline the process believes in no hold.
<1>5. CASE DrainTimesOut(r)
  <2> USE <1>5
  <2>0. DrType /\ HoldType /\ dr[r] \in Drain /\ dr[r].pc = "wait" /\ run[r] # NoRun /\ DrainWork(r)
    BY DEF HoldInv, DrainTimesOut, DrType, DrainWork
  <2>1. UNCHANGED <<lease, store, writes, lost, rec, up, ent, run>>
    BY DEF DrainTimesOut, data
  <2>2. Waits(r) /\ Turns(r) /\ Fresh(r) /\ Parked(r)
    BY DEF HandoverInv
  <2>3. dr'[r].pc = "done" /\ dr'[r].fresh = dr[r].fresh /\ ~valid'[r]
    BY <2>0 DEF DrainTimesOut, DrType, Drain, HoldType
  <2>4. Launched(r)' <=> Launched(r)
    BY <2>1, Zenon DEF Launched
  <2>5. Waits(r)'
    BY <2>0, <2>1, <2>2, <2>4, Zenon DEF Waits
  <2>6. Turns(r)'
    BY <2>1, <2>2, <2>3, Zenon DEF Turns
  <2>7. Fresh(r)'
    BY <2>1, <2>2, <2>3, Zenon DEF Fresh
  <2>8. Parked(r)'
    BY <2>1, <2>2, <2>3, <2>4, Zenon DEF Parked
  <2> QED
    BY <2>0, <2>1, <2>5, <2>6, <2>7, <2>8, DrainKeepsOthers, LeaseSameFrame, LocalFrame, Zenon
       DEF Local, data
\* The drain lets go when nothing of the process is left to save.
<1>6. CASE DrainDrops(r) \/ DrainReleases(r) \/ DrainForgets(r)
  <2> USE <1>6
  <2>0. /\ DrType /\ HoldType /\ dr[r] \in Drain /\ DrainWork(r) /\ up[r]
        /\ dr[r].pc \in {"drop", "release", "forget"}
    BY DEF HoldInv, DrainDrops, DrainReleases, DrainForgets, DrType, DrainWork
  <2>2. Waits(r) /\ Turns(r) /\ Fresh(r)
    BY Zenon DEF HandoverInv
  <2>3. run[r] = NoRun /\ ~Launched(r)
    BY <2>0, <2>2, Blank, Zenon DEF Turns, Launched
  <2>1. UNCHANGED <<store, writes, lost, rec, up, ent, run>> /\ (valid'[r] => valid[r])
    BY <2>0, <2>3, Zenon DEF DrainDrops, DrainReleases, DrainForgets, ReleaseLocal, HoldType, data, hold
  <2>4. dr'[r].pc \in {"release", "forget", "done"} /\ dr'[r].fresh = dr[r].fresh
    <3>1. CASE DrainDrops(r)
      <4> DEFINE d == [dr[r] EXCEPT !.pc = IF valid[r] THEN "release" ELSE "done",
                                  !.tok = tok[r], !.flag = run[r] = NoRun]
      <4>1. d.pc \in {"release", "done"} /\ d.fresh = dr[r].fresh
        BY <2>0 DEF Drain
      <4>2. dr' = [dr EXCEPT ![r] = d]
        BY <3>1 DEF DrainDrops
      <4> HIDE DEF d
      <4> QED
        BY <2>0, <4>1, <4>2 DEF DrType
    <3>2. CASE DrainReleases(r)
      BY <2>0, <3>2 DEF DrainReleases, DrType, Drain
    <3>3. CASE DrainForgets(r)
      BY <2>0, <3>3 DEF DrainForgets, DrType, Drain
    <3> QED
      BY <3>1, <3>2, <3>3, Zenon
  <2>5. \A w \in writes : w.by # r
    <3>1. ent[r].op \notin RunOps
      BY <2>3, Blank, Zenon DEF HoldInv, EntryOwnsRun
    <3>2. ent[r].pc # "saving"
      BY <2>2, <3>1, Zenon DEF Turns, RunOps
    <3> QED
      BY <2>0, <2>2, <2>3, <3>2, Zenon DEF Waits
  <2>6. \A w \in writes : holder'[Sid] = holder[Sid] /\ ~lapsed'[Sid]
    BY <2>5, LeaseSameFrame, ReleaseFrame DEF DrainDrops, DrainReleases, DrainForgets
  <2>7. Waits(r)'
    BY <2>1, <2>5, Zenon DEF Waits
  <2>8. Turns(r)'
    BY <2>0, <2>1, <2>2, <2>3, <2>4, Zenon DEF Turns
  <2>9. ~Launched(r)'
    BY <2>1, <2>3, Zenon DEF Launched
  <2>10. Fresh(r)' /\ Parked(r)'
    BY <2>1, <2>2, <2>4, <2>9, Zenon DEF Fresh, Parked
  <2> QED
    BY <2>0, <2>1, <2>6, <2>7, <2>8, <2>10, DrainKeepsOthers, LocalFrame, Zenon DEF Local, data
<1> QED
  BY <1>1, <1>2, <1>3, <1>4, <1>5, <1>6, Zenon DEF DrainWork

\* What the process had sent before it died may still land, while its lease lasts.
LEMMA CrashHandover ==
  ASSUME HoldInv, HandoverInv, NEW r \in Replicas, Crash(r)
  PROVE  HandoverInv'
<1>0. OtherType /\ HoldType /\ CapType /\ RunType /\ EntType /\ DrType
  BY Zenon DEF HoldInv
<1>1. UNCHANGED <<lease, store, writes>>
  BY DEF Crash, data
<1>2. ~up'[r] /\ ~valid'[r] /\ ~lost'[r] /\ rec'[r] = "off"
  BY <1>0, Zenon DEF Crash, OtherType, HoldType
<1>3. /\ run'[r] = NoRun /\ ent'[r].pc = "off" /\ ent'[r].op = "none"
      /\ dr'[r].pc = "off" /\ ~dr'[r].fresh
  BY <1>0, Zenon DEF Crash, RunType, EntType, DrType, NoEntry, NoDrain
<1>4. Waits(r)' /\ Turns(r)'
  BY <1>2, <1>3, Zenon DEF Waits, Turns
<1>5. Fresh(r)'
  BY <1>2, <1>3, Zenon DEF Fresh
<1>6. Parked(r)'
  BY <1>3, Blank, Zenon DEF Parked, Launched
<1>7. \A q \in Replicas \ {r} : /\ up'[q] = up[q] /\ rec'[q] = rec[q] /\ cap'[q] = cap[q]
                                /\ valid'[q] = valid[q] /\ lost'[q] = lost[q]
  BY <1>0, Zenon DEF Crash, OtherType, HoldType, CapType
<1>8. \A q \in Replicas \ {r} : ent'[q] = ent[q] /\ run'[q] = run[q] /\ dr'[q] = dr[q]
  BY <1>0, Zenon DEF Crash, EntType, RunType, DrType
<1>9. KeepsOthers(r)
  BY <1>7, <1>8, Zenon DEF KeepsOthers, Keeps
<1> QED
  BY <1>1, <1>4, <1>5, <1>6, <1>9, LeaseSameFrame, LocalFrame, Zenon DEF Local, data

LEMMA QuietHandover ==
  ASSUME HandoverInv, UNCHANGED <<data, up, valid, lost, rec, cap, run, ent, dr>>,
         \A w \in writes : holder'[Sid] = holder[Sid] /\ ~lapsed'[Sid]
  PROVE  HandoverInv'
<1>1. UNCHANGED <<store, writes, up, valid, lost, rec, cap, run, ent, dr>>
  BY Zenon DEF data
<1>2. ASSUME NEW r \in Replicas PROVE Waits(r)' /\ Turns(r)' /\ Fresh(r)' /\ Parked(r)'
  <2>0. Waits(r) /\ Turns(r) /\ Fresh(r) /\ Parked(r)
    BY Zenon DEF HandoverInv
  <2>1. Waits(r)' /\ Turns(r)'
    BY <1>1, <2>0, Zenon DEF Waits, Turns, Launched
  <2>2. Fresh(r)' /\ Parked(r)'
    BY <1>1, <2>0, Zenon DEF Fresh, Parked, Launched
  <2> QED
    BY <2>1, <2>2, Zenon
<1> QED
  BY <1>1, <1>2, Zenon DEF HandoverInv, LeasedNoLostUpdate

\* A lease with a save behind it does not lapse.
LEMMA ExpireHandover ==
  ASSUME Timely, HoldInv, HandoverInv, Expire
  PROVE  HandoverInv'
<1>1. writes = {}
  BY Zenon DEF Expire, Relies, HandoverInv, HoldInv, WritesType, Write
<1> QED
  BY <1>1, QuietHandover, Zenon DEF Expire, hold

\* The save that lands is the only one, and what its sender, if alive, then carries is what
\* the store has; nobody else believes in a hold.
LEMMA LandHandover ==
  ASSUME HoldInv, AgreeInv, HandoverInv, NEW w \in writes, Land(w)
  PROVE  HandoverInv'
<1> DEFINE r == w.by
           v == store.ver + 1
<1>0. EntType /\ RunType /\ DrType
  BY DEF HoldInv
<1>1. w.by \in Replicas
  BY DEF HoldInv, WritesType, Write
<1>2. writes' = {}
  BY DEF Land, HandoverInv
<1>3. UNCHANGED <<up, valid, lost, rec, cap>> /\ store'.ver = v /\ store'.st = w.st
  BY DEF Land, hold
<1>4. ASSUME NEW q \in Replicas, ~valid[q], run'[q] = run[q], ent'[q] = ent[q], dr'[q] = dr[q]
      PROVE  Local(q)'
  <2>0. Turns(q) /\ Fresh(q) /\ Parked(q)
    BY Zenon DEF HandoverInv
  <2>1. Waits(q)'
    BY <1>2, Zenon DEF Waits
  <2>2. Turns(q)'
    BY <1>3, <1>4, <2>0, Zenon DEF Turns
  <2>3. Fresh(q)'
    <3>1. ~valid'[q]
      BY <1>3, <1>4, Zenon
    <3>2. /\ ent[q].pc = "install" => ~ent[q].fresh
          /\ ent[q].pc = "launch" /\ ent[q].op = "ask" => ent[q].fresh
      BY <2>0, Zenon DEF Fresh
    <3>3. /\ ent'[q].pc = "install" => ~ent'[q].fresh
          /\ ent'[q].pc = "launch" /\ ent'[q].op = "ask" => ent'[q].fresh
      BY ONLY <1>4, <3>2
    <3> QED
      BY <3>1, <3>3, Zenon DEF Fresh
  <2>4. Parked(q)'
    BY <1>2, <1>3, <1>4, <2>0, Zenon DEF Parked, Launched
  <2> QED
    BY <2>1, <2>2, <2>3, <2>4 DEF Local
<1>5. ASSUME NEW q \in Replicas, q # r PROVE Local(q)'
  <2>1. ~valid[q]
    BY <1>5, SaverHolds, Zenon
  <2>2. run'[q] = run[q] /\ ent'[q] = ent[q] /\ dr'[q] = dr[q]
    BY <1>0, <1>1, <1>5 DEF Land, EntType, RunType, DrType
  <2> QED
    BY <1>4, <2>1, <2>2, Zenon
<1>6. Waits(r) /\ Turns(r) /\ Fresh(r) /\ Parked(r) /\ Reliance(r)
  BY <1>1, Zenon DEF HandoverInv, AgreeInv
<1>7. ASSUME ~up[r] PROVE Local(r)'
  <2>1. ~valid[r]
    BY <1>6, <1>7, Zenon DEF Reliance
  <2>2. run'[r] = run[r] /\ ent'[r] = ent[r] /\ dr'[r] = dr[r]
    BY <1>7 DEF Land
  <2> QED
    BY <1>1, <1>4, <2>1, <2>2
<1>8. ASSUME up[r] /\ w.src = "run" PROVE Local(r)'
  <2>1. Launched(r)
    BY <1>6, <1>8, Zenon DEF Waits
  <2>2. /\ run[r] \in Run /\ ent[r].op = "none" /\ ent[r].pc = "off"
        /\ dr[r].pc \notin {"saving", "drop", "release", "forget"} /\ ~dr[r].fresh
    BY <1>1, <2>1, RunTurn, Zenon
  <2>3. ent'[r] = ent[r] /\ dr'[r] = dr[r]
    BY <1>8 DEF Land
  <2>4. /\ run'[r].ph = run[r].ph /\ run'[r].st = run[r].st /\ run'[r].base = v
        /\ run'[r].preserve = run[r].preserve
        /\ run'[r].parked = IF w.st = "awaiting" THEN TRUE ELSE run[r].parked
    BY <1>0, <1>1, <1>8, <2>2, Zenon DEF Land, RunType, Run
  <2>5. Waits(r)'
    BY <1>2 DEF Waits
  <2>6. Turns(r)'
    BY <1>3, <1>6, <2>2, <2>3, Zenon DEF Turns
  <2>7. Fresh(r)'
    BY <1>3, <1>6, <2>2, <2>3, <2>4, Zenon DEF Fresh, RunOps
  <2>8. /\ ~run[r].preserve
        /\ run[r].parked => w.st = "awaiting"
        /\ w.st = "awaiting" => run[r].ph = "active" /\ run[r].st = "awaiting"
    BY <1>6, <1>8, <2>1, Zenon DEF Parked
  <2>9. Parked(r)'
    BY <1>2, <1>3, <1>6, <2>1, <2>4, <2>8, Zenon DEF Parked
  <2> QED
    BY <2>5, <2>6, <2>7, <2>9 DEF Local
<1>9. ASSUME up[r] /\ w.src = "ent" PROVE Local(r)'
  <2>1. ent[r].pc = "saving" /\ ent[r].op = "prompt"
    BY <1>6, <1>9, Zenon DEF Waits, Turns, RunOps
  <2>2. ~Launched(r) /\ ~dr[r].fresh /\ dr[r].pc \notin {"saving", "drop", "release", "forget"}
    BY <1>1, <2>1, EntryTurn, Zenon DEF RunOps
  <2>3. run'[r] = run[r] /\ dr'[r] = dr[r]
    BY <1>9 DEF Land
  <2>4. ent'[r].pc = "launch" /\ ent'[r].op = "prompt" /\ ent'[r].base = v
    BY <1>0, <1>1, <1>9, <2>1, SMTT(30) DEF Land, EntType, Entry, RunOps
  <2>5. Waits(r)'
    BY <1>2 DEF Waits
  <2>6. Turns(r)'
    BY <1>3, <1>6, <2>2, <2>3, <2>4, Zenon DEF Turns, RunOps
  <2>7. ~Launched(r)'
    BY <2>2, <2>3 DEF Launched
  <2>8. Fresh(r)' /\ Parked(r)'
    BY <1>3, <2>2, <2>3, <2>4, <2>7, Zenon DEF Fresh, Parked
  <2> QED
    BY <2>5, <2>6, <2>8 DEF Local
<1>10. ASSUME up[r] /\ w.src = "drain" PROVE Local(r)'
  <2>1. dr[r].pc = "saving" /\ run[r] = NoRun /\ dr[r] \in Drain
    BY <1>0, <1>1, <1>6, <1>10, Zenon DEF Waits, Turns, DrType
  <2>2. ~Launched(r) /\ ent[r].op \notin RunOps
    BY <1>1, <2>1, Blank, Zenon DEF Launched, HoldInv, EntryOwnsRun
  <2>3. run'[r] = run[r] /\ ent'[r] = ent[r]
    BY <1>10 DEF Land
  <2>4. dr'[r].pc = "drop" /\ dr'[r].fresh = dr[r].fresh
    BY <1>0, <1>1, <1>10, <2>1, Zenon DEF Land, DrType, Drain
  <2>5. Waits(r)'
    BY <1>2 DEF Waits
  <2>6. Turns(r)'
    BY <1>3, <1>6, <2>1, <2>3, <2>4, Zenon DEF Turns
  <2>7. ~Launched(r)'
    BY <2>2, <2>3 DEF Launched
  <2>8. Fresh(r)' /\ Parked(r)'
    BY <1>3, <1>6, <2>2, <2>3, <2>4, <2>7, Zenon DEF Fresh, Parked
  <2> QED
    BY <2>5, <2>6, <2>8 DEF Local
<1>11. Local(r)'
  BY <1>6, <1>7, <1>8, <1>9, <1>10, Zenon DEF Waits
<1> QED
  BY <1>2, <1>5, <1>11, Zenon DEF HandoverInv, LeasedNoLostUpdate, Local

LEMMA HandoverStep ==
  ASSUME Timely, HandoverOps, HoldInv, AgreeInv, HandoverInv, Next
  PROVE  HandoverInv'
  BY EntryHandover, EnterHandover, RunHandover, LossHandover, DrainHandover, CrashHandover,
     ExpireHandover, LandHandover, Zenon DEF Next

LEMMA HandoverInvariant ==
  ASSUME Timely, HandoverOps
  PROVE  Spec => [](HoldInv /\ AgreeInv /\ HandoverInv)
<1>1. Init => HandoverInv
  <2> SUFFICES ASSUME Init PROVE HandoverInv
    OBVIOUS
  <2>1. writes = {}
    BY Zenon DEF Init
  <2>2. ASSUME NEW r \in Replicas PROVE Waits(r) /\ Turns(r) /\ Fresh(r) /\ Parked(r)
    <3>1. /\ run[r] = NoRun /\ ent[r] = NoEntry /\ dr[r] = NoDrain /\ rec[r] = "off"
          /\ ~valid[r] /\ ~lost[r]
      BY InitParts, Zenon
    <3>2. Waits(r) /\ Turns(r)
      BY <2>1, <3>1, Blank, Zenon DEF Waits, Turns
    <3>3. Fresh(r) /\ Parked(r)
      BY <3>1, Blank, Zenon DEF Fresh, Parked, Launched
    <3> QED
      BY <3>2, <3>3
  <2> QED
    BY <2>1, <2>2, Zenon DEF HandoverInv, LeasedNoLostUpdate
<1>2. HoldInv /\ AgreeInv /\ HandoverInv /\ [Next]_vars => HandoverInv'
  <2>1. HandoverInv /\ UNCHANGED vars => HandoverInv'
    BY LeaseSameFrame, QuietHandover, Zenon DEF vars, hold
  <2> QED
    BY <2>1, HandoverStep
<1>3. Unbypassed
  BY DEF Unbypassed, HandoverOps
<1> QED
  BY <1>1, <1>2, <1>3, AgreeInvariant, HoldInvariant, PTL DEF Spec

\* No save of an aggregate that was read under the lease overwrites a save it has not seen,
\* though nothing in the store would stop it: the lease, the capability and the order in
\* which drain and close give them up do (saveSession, capabilityStore, GracefulDrain).
THEOREM LostUpdateTheorem ==
  ASSUME Timely, HandoverOps
  PROVE  Spec => []LeasedNoLostUpdate
<1>1. HandoverInv => LeasedNoLostUpdate
  BY Zenon DEF HandoverInv
<1> QED
  BY <1>1, HandoverInvariant, PTL

\* A verdict on a persisted ask is applied to the session as it is stored at the launch,
\* whoever had the session between the read and the lease (resolvePersistedRunAsk).
THEOREM AskTheorem ==
  ASSUME Timely, HandoverOps
  PROVE  Spec => []AskIsCurrent
<1>1. HandoverInv => AskIsCurrent
  BY Zenon DEF HandoverInv, Fresh, AskIsCurrent, Current, MayLaunch, RunOps
<1> QED
  BY <1>1, HandoverInvariant, PTL

\* The ask a drain decided to preserve is still what the store has when the drain releases
\* the lease: neither the cancelled run nor a save already under way overwrites it
\* (snapshotDrainState, preserveDurable).
THEOREM HandoffTheorem ==
  ASSUME Timely, HandoverOps
  PROVE  Spec => []HandoffPreserved
<1>1. HandoverInv => HandoffPreserved
  BY Zenon DEF HandoverInv, Parked, Launched, HandoffPreserved
<1> QED
  BY <1>1, HandoverInvariant, PTL
=============================================================================
