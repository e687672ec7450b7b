--------------------------- MODULE ExecEnvProofs ---------------------------
(***************************************************************************)
(* One writer, a quiet workspace behind every lifted fence and a free      *)
(* retired environment, for every number of calls, workers, bindings and   *)
(* requests: ExecInv is inductive, provided posts are prompt and no Pod    *)
(* vanishes behind its finalizer.                                          *)
(***************************************************************************)
EXTENDS ExecEnv, TLAPS

(***************************************************************************)
(* What the helpers do to the records they change.                         *)
(***************************************************************************)
LEMMA RecTodo ==
    ASSUME TypeOK, NEW r \in Reconcilers, NEW w \in Writes, Todo(r, w)
    PROVE  /\ rec' \in [Reconcilers -> Rec]
           /\ rec'[r] = [rec[r] EXCEPT !.stage = "todo", !.write = w]
           /\ \A s \in Reconcilers \ {r} : rec'[s] = rec[s]
<1> DEFINE e == [rec[r] EXCEPT !.stage = "todo", !.write = w]
<1>1. rec[r] \in Rec  BY Zenon DEF TypeOK
<1>2. e \in Rec  BY <1>1, Zenon DEF Rec
<1>3. rec' = [rec EXCEPT ![r] = e]  BY Zenon DEF Todo
<1>4. rec \in [Reconcilers -> Rec]  BY Zenon DEF TypeOK
<1> HIDE DEF e
<1>5. rec' \in [Reconcilers -> Rec] /\ rec'[r] = e
      /\ \A s \in Reconcilers \ {r} : rec'[s] = rec[s]
  BY <1>2, <1>3, <1>4, Zenon
<1> QED  BY <1>5, Zenon DEF e

LEMMA IdleRecType == IdleRec \in Rec
  BY Zenon DEF IdleRec, Rec, Life, NoLife, Phases, Writes

LEMMA IdleFields ==
    /\ IdleRec.life = NoLife /\ IdleRec.epoch = 0 /\ IdleRec.uid = 0 /\ IdleRec.stage = "idle"
    /\ NoLife.phase = "none" /\ NoLife.type = "none" /\ NoLife.pod = 0
    /\ NoLife.phase \notin OverPod
  BY DEF IdleRec, NoLife, OverPod

LEMMA RecDone ==
    ASSUME TypeOK, NEW r \in Reconcilers, Done(r)
    PROVE  /\ rec' \in [Reconcilers -> Rec]
           /\ rec'[r] = IdleRec
           /\ \A s \in Reconcilers \ {r} : rec'[s] = rec[s]
<1>1. rec \in [Reconcilers -> Rec]  BY Zenon DEF TypeOK
<1> QED  BY <1>1, IdleRecType, Zenon DEF Done

\* A decision keeps what was read.
Keeps(r, w) ==
    /\ \A s \in Reconcilers \ {r} : rec'[s] = rec[s]
    /\ rec'[r].stage = "todo" /\ rec'[r].write = w
    /\ rec'[r].life = rec[r].life /\ rec'[r].epoch = rec[r].epoch /\ rec'[r].pod = rec[r].pod

\* Found, and the creation of a Pod by Provision.
LEMMA RecCaptures ==
    ASSUME TypeOK, NEW r \in Reconcilers, NEW w \in Writes, NEW u \in Nat, NEW b, b \in BOOLEAN,
           Captures(r, w, u, b)
    PROVE  rec' \in [Reconcilers -> Rec] /\ Keeps(r, w) /\ rec'[r].uid = u
<1> DEFINE e == [rec[r] EXCEPT !.stage = "todo", !.write = w, !.uid = u, !.ready = b]
<1>1. rec[r] \in Rec  BY Zenon DEF TypeOK
<1>2. e \in Rec  BY <1>1, Zenon DEF Rec
<1>4. rec \in [Reconcilers -> Rec]  BY Zenon DEF TypeOK
<1>3. rec' = [rec EXCEPT ![r] = e]
  BY <1>4, Zenon DEF Captures
<1>6. /\ e.stage = "todo" /\ e.write = w /\ e.life = rec[r].life /\ e.epoch = rec[r].epoch
      /\ e.pod = rec[r].pod /\ e.uid = u
  BY <1>1, Zenon DEF Rec
<1> HIDE DEF e
<1>5. rec' \in [Reconcilers -> Rec] /\ rec'[r] = e
      /\ \A s \in Reconcilers \ {r} : rec'[s] = rec[s]
  BY <1>2, <1>3, <1>4, Zenon
<1> QED  BY <1>5, <1>6, Zenon DEF Keeps

LEMMA RecGet ==
    ASSUME TypeOK, NEW r \in Reconcilers, Get(r)
    PROVE  /\ rec' \in [Reconcilers -> Rec]
           /\ rec'[r].stage = "got" /\ rec'[r].life = life /\ rec'[r].epoch = epoch
           /\ rec'[r].pod = podUID /\ rec'[r].uid = 0
           /\ \A s \in Reconcilers \ {r} : rec'[s] = rec[s]
<1> DEFINE e == [IdleRec EXCEPT
                   !.stage = "got", !.life = life, !.epoch = epoch, !.pod = podUID,
                   !.retired = retired, !.expired = (oper # NoOper /\ oper.left = 0),
                   !.proved = ProofOfLife]
<1>1. e \in Rec
  <2>1. life \in Life /\ epoch \in Nat /\ podUID \in Nat /\ retired \in BOOLEAN  BY Zenon DEF TypeOK
  <2>2. (oper # NoOper /\ oper.left = 0) \in BOOLEAN /\ ProofOfLife \in BOOLEAN
    BY Zenon DEF ProofOfLife
  <2> QED  BY <2>1, <2>2, IdleRecType, Zenon DEF Rec
<1>2. e.stage = "got" /\ e.life = life /\ e.epoch = epoch /\ e.pod = podUID /\ e.uid = 0
  BY IdleRecType, Zenon DEF Rec, IdleRec
<1>3. rec' = [rec EXCEPT ![r] = e]  BY Zenon DEF Get
<1>4. rec \in [Reconcilers -> Rec]  BY Zenon DEF TypeOK
<1> HIDE DEF e
<1> QED  BY <1>1, <1>2, <1>3, <1>4, Zenon

LEMMA ReqStages ==
    ASSUME TypeOK, NEW q \in Requests, NEW s \in {"idle", "prove", "admit", "verified"},
           ReqStage(q, s)
    PROVE  /\ req' \in [Requests -> Req]
           /\ req'[q] = [req[q] EXCEPT !.stage = s]
           /\ \A p \in Requests \ {q} : req'[p] = req[p]
<1> DEFINE e == [req[q] EXCEPT !.stage = s]
<1>1. req \in [Requests -> Req]  BY Zenon DEF TypeOK
<1>2. e \in Req  BY <1>1, Zenon DEF Req
<1>3. req' = [req EXCEPT ![q] = e]  BY Zenon DEF ReqStage
<1> HIDE DEF e
<1>4. req' \in [Requests -> Req] /\ req'[q] = e /\ \A p \in Requests \ {q} : req'[p] = req[p]
  BY <1>1, <1>2, <1>3, Zenon
<1> QED  BY <1>4, Zenon DEF e

LEMMA CallStages ==
    ASSUME TypeOK, NEW c \in Calls, NEW s \in {"claimed", "posted", "answered"}, Stage(c, s)
    PROVE  /\ call' \in [Calls -> Call]
           /\ call'[c] = [call[c] EXCEPT !.stage = s]
           /\ \A d \in Calls \ {c} : call'[d] = call[d]
<1> DEFINE e == [call[c] EXCEPT !.stage = s]
<1>1. call \in [Calls -> Call]  BY Zenon DEF TypeOK
<1>2. e \in Call  BY <1>1, Zenon DEF Call
<1>3. call' = [call EXCEPT ![c] = e]  BY Zenon DEF Stage
<1> HIDE DEF e
<1>4. call' \in [Calls -> Call] /\ call'[c] = e /\ \A d \in Calls \ {c} : call'[d] = call[d]
  BY <1>1, <1>2, <1>3, Zenon
<1> QED  BY <1>4, Zenon DEF e

LEMMA CallOver ==
    ASSUME TypeOK, NEW c \in Calls, Over(c)
    PROVE  /\ call' \in [Calls -> Call]
           /\ call'[c].stage = "over" /\ ~call'[c].terminal
           /\ \A d \in Calls \ {c} : call'[d] = call[d]
<1> DEFINE e == [NewCall EXCEPT !.stage = "over"]
<1>1. call \in [Calls -> Call]  BY Zenon DEF TypeOK
<1>2. e \in Call /\ e.stage = "over" /\ e.terminal = FALSE  BY Zenon DEF NewCall, Call
<1>3. call' = [call EXCEPT ![c] = e]  BY Zenon DEF Over
<1> HIDE DEF e
<1> QED  BY <1>1, <1>2, <1>3, Zenon

(***************************************************************************)
(* Type correctness, one lemma per kind of step.                           *)
(***************************************************************************)
LEMMA NoneTypes ==
    /\ NoRun \in Run /\ NoOper \in Oper /\ NoLife \in Life /\ NoProof \in Proof
    /\ NoPod \in Pod /\ NewCall \in Call /\ NoReq \in Req
  BY Zenon DEF NoRun, Run, NoOper, Oper, NoLife, Life, Phases, NoProof, Proof, NoPod, Pod,
     NewCall, Call,
         NoReq, Req

LEMMA InitType == Init => TypeOK
<1> SUFFICES ASSUME Init PROVE TypeOK  OBVIOUS
<1>1. rec \in [Reconcilers -> Rec]  BY IdleRecType, Zenon DEF Init
<1>2. refs \in [Bindings -> RefStates]  BY Zenon DEF Init, RefStates
<1> QED  BY <1>1, <1>2, NoneTypes, Zenon DEF Init, TypeOK

LEMMA CallStepType ==
    ASSUME TypeOK, NEW c \in Calls, CallStep(c)
    PROVE  TypeOK'
<1>1. CASE ClaimOperation(c)
  <2>1. oper' \in Oper
    BY <1>1, TimeAssumption, Zenon DEF ClaimOperation, Oper
  <2>2. [stage |-> "claimed", epoch |-> run.epoch, gen |-> run.gen, terminal |-> FALSE] \in Call
    BY Zenon DEF TypeOK, Run, Call
  <2>3. call' \in [Calls -> Call]
    BY <1>1, <2>2, Zenon DEF ClaimOperation, TypeOK
  <2> QED
    BY <1>1, <2>1, <2>2, <2>3, Zenon DEF ClaimOperation, TypeOK, runVars, statusVars, kubeVars,
       execVars
<1>2. CASE Dispatch(c)
  <2>1. call' \in [Calls -> Call]
    BY <1>2, CallStages, CallOver, Zenon DEF Dispatch
  <2>2. posted' \subseteq Calls
    BY <1>2, Zenon DEF Dispatch, TypeOK
  <2> QED  BY <1>2, <2>1, <2>2, Zenon DEF Dispatch, TypeOK, runVars, statusVars, kubeVars, execVars
<1>3. CASE Land(c)
  <2>1. [call |-> c, pod |-> pod.uid] \in [call : Calls, pod : Nat]
    BY Zenon DEF TypeOK, Pod
  <2>2. alive' \subseteq [call : Calls, pod : Nat]
    BY <1>3, <2>1, Zenon DEF Land, TypeOK
  <2>3. posted' \subseteq Calls
    BY <1>3, Zenon DEF Land, TypeOK
  <2> QED
    BY <1>3, <2>1, <2>2, <2>3, Zenon DEF Land, TypeOK, runVars, statusVars, kubeVars, execVars
<1>4. CASE StreamFails(c)
  <2>1. call' \in [Calls -> Call]
    BY <1>4, CallStages, Zenon DEF StreamFails
  <2> QED  BY <1>4, <2>1, Zenon DEF StreamFails, TypeOK, runVars, statusVars, kubeVars, execVars
<1>5. CASE RenewOperation(c)
  <2>1. call' \in [Calls -> Call]
    BY <1>5, CallStages, Zenon DEF RenewOperation, TypeOK
  <2>2. oper \in Oper
    BY Zenon DEF TypeOK
  <2>3. oper' \in Oper
    BY <1>5, <2>2, TimeAssumption, Zenon DEF RenewOperation, Oper
  <2> QED
    BY <1>5, <2>1, <2>2, <2>3, Zenon DEF RenewOperation, TypeOK, runVars, statusVars, kubeVars,
       execVars
<1>6. CASE FinishOperation(c)
  <2>1. call' \in [Calls -> Call]
    BY <1>6, CallOver, Zenon DEF FinishOperation
  <2>2. oper' \in Oper
    BY <1>6, NoneTypes, Zenon DEF FinishOperation, TypeOK
  <2>3. fence' \in BOOLEAN
    BY <1>6, Zenon DEF FinishOperation
  <2> QED
    BY <1>6, <2>1, <2>2, <2>3, Zenon DEF FinishOperation, TypeOK, runVars, statusVars, kubeVars,
       execVars
<1>7. CASE Die(c)
  <2>1. call' \in [Calls -> Call]
    BY <1>7, CallOver, Zenon DEF Die
  <2> QED  BY <1>7, <2>1, Zenon DEF Die, TypeOK, runVars, statusVars, kubeVars, execVars
<1> QED  BY <1>1, <1>2, <1>3, <1>4, <1>5, <1>6, <1>7, Zenon DEF CallStep

LEMMA EndsCall ==
    ASSUME TypeOK, NEW x \in alive, Ends(x)
    PROVE  /\ x.call \in Calls /\ call' \in [Calls -> Call]
           /\ call'[x.call] = IF call[x.call].stage = "posted"
                              THEN [call[x.call] EXCEPT !.stage = "answered", !.terminal = TRUE]
                              ELSE call[x.call]
           /\ \A d \in Calls \ {x.call} : call'[d] = call[d]
<1> DEFINE c == x.call
           e == [call[c] EXCEPT !.stage = "answered", !.terminal = TRUE]
<1>1. c \in Calls /\ call \in [Calls -> Call]  BY Zenon DEF TypeOK
<1>2. e \in Call  BY <1>1, Zenon DEF Call
<1>3. call' = IF call[c].stage = "posted" THEN [call EXCEPT ![c] = e] ELSE call
  BY <1>1, Zenon DEF Ends
<1> HIDE DEF c, e
<1>4. /\ call' \in [Calls -> Call] /\ call'[c] = IF call[c].stage = "posted" THEN e ELSE call[c]
      /\ \A d \in Calls \ {c} : call'[d] = call[d]
  BY <1>1, <1>2, <1>3, Zenon
<1> QED  BY <1>1, <1>4, Zenon DEF c, e

LEMMA EndsType ==
    ASSUME TypeOK, NEW x \in alive, Ends(x)
    PROVE  TypeOK'
<1>1. call' \in [Calls -> Call]  BY EndsCall, Zenon
<1>2. alive' \subseteq [call : Calls, pod : Nat]  BY Zenon DEF Ends, TypeOK
<1> QED  BY <1>1, <1>2, Zenon DEF Ends, TypeOK, runVars, statusVars, kubeVars, execVars

LEMMA MovesType ==
    ASSUME NEW m \in RefMoves
    PROVE  Moves[m][2] \in RefStates
  BY MoveAssumption DEF Moves, ReleaseReference, RefStates

LEMMA AcquireType ==
    ASSUME TypeOK, NEW b \in Bindings, AcquireRun(b)
    PROVE  TypeOK'
<1>1. [binding |-> b, epoch |-> epoch + 1, gen |-> gen, left |-> RunTTL] \in Run
  BY TimeAssumption DEF TypeOK, Run
<1>2. run' \in Run /\ epoch' \in Nat  BY <1>1 DEF AcquireRun, TypeOK
<1> QED  BY <1>2, Zenon DEF AcquireRun, TypeOK, runVars, statusVars, kubeVars, execVars

LEMMA ReserveType ==
    ASSUME TypeOK, NEW b \in Bindings, ReserveSuccessor(b)
    PROVE  TypeOK'
<1>1. refs' \in [Bindings -> RefStates]  BY Zenon DEF ReserveSuccessor, TypeOK, RefStates
<1> QED  BY <1>1, Zenon DEF ReserveSuccessor, TypeOK, runVars, statusVars, kubeVars, execVars

LEMMA MutateType ==
    ASSUME TypeOK, NEW b \in Bindings, NEW m \in RefMoves, MutateReference(b, m)
    PROVE  TypeOK'
<1>1. refs' \in [Bindings -> RefStates]  BY MovesType, Zenon DEF MutateReference, TypeOK
<1> QED  BY <1>1, Zenon DEF MutateReference, TypeOK, runVars, statusVars, kubeVars, execVars

LEMMA RunStepType ==
    ASSUME TypeOK, RenewRun \/ ReleaseRun \/ RevokeEnvironment \/ Tick
    PROVE  TypeOK'
<1>1. CASE RenewRun
  <2>1. run \in Run
    BY Zenon DEF TypeOK
  <2>2. run' \in Run
    BY <1>1, <2>1, TimeAssumption, Zenon DEF RenewRun, Run
  <2> QED  BY <1>1, <2>1, <2>2, Zenon DEF RenewRun, TypeOK, runVars, statusVars, kubeVars, execVars
<1>2. CASE ReleaseRun
  <2>1. run' \in Run
    BY <1>2, NoneTypes, Zenon DEF ReleaseRun
  <2> QED  BY <1>2, <2>1, Zenon DEF ReleaseRun, TypeOK, runVars, statusVars, kubeVars, execVars
<1>3. CASE RevokeEnvironment
  <2>1. gen' \in Nat
    BY <1>3 DEF RevokeEnvironment, TypeOK
  <2> QED
    BY <1>3, <2>1, Zenon DEF RevokeEnvironment, TypeOK, runVars, statusVars, kubeVars, execVars
<1>4. CASE Tick
  <2>1. run \in Run /\ oper \in Oper
    BY Zenon DEF TypeOK
  <2>2. run' \in Run
    BY <1>4, <2>1 DEF Tick, Run
  <2>3. oper' \in Oper
    BY <1>4, <2>1 DEF Tick, Oper
  <2> QED
    BY <1>4, <2>1, <2>2, <2>3, Zenon DEF Tick, TypeOK, runVars, statusVars, kubeVars, execVars
<1> QED  BY <1>1, <1>2, <1>3, <1>4, Zenon

LEMMA RequestStepType ==
    ASSUME TypeOK, NEW q \in Requests, ReqInv(q), RequestStep(q)
    PROVE  TypeOK'
<1>1. CASE Request(q)
  <2>1. \A k \in Kinds[q] \ {"delete"} : [kind |-> k, epoch |-> epoch, pod |-> podUID,
     stage |-> "idle"] \in Req
    BY KindAssumption, Zenon DEF TypeOK, Req
  <2>2. req' \in [Requests -> Req]
    BY <1>1, <2>1, Zenon DEF Request, TypeOK
  <2> QED  BY <1>1, <2>1, <2>2, Zenon DEF Request, TypeOK, runVars, statusVars, kubeVars, execVars
<1>2. CASE ObserveTerminal(q)
  <2>1. req' \in [Requests -> Req]
    BY <1>2, ReqStages, Zenon DEF ObserveTerminal
  <2> QED  BY <1>2, <2>1, Zenon DEF ObserveTerminal, TypeOK, runVars, statusVars, kubeVars, execVars
<1>3. CASE PersistProof(q)
  <2>1. req' \in [Requests -> Req]
    BY <1>3, ReqStages, Zenon DEF PersistProof
  <2>2. ProofOf(q) \in Proof
    BY Zenon DEF ProofOf, Proof, TypeOK, Req
  <2>3. proof' \in Proof
    BY <1>3, <2>2, Zenon DEF PersistProof, TypeOK
  <2> QED
    BY <1>3, <2>1, <2>2, <2>3, Zenon DEF PersistProof, TypeOK, runVars, statusVars, kubeVars,
       execVars
<1>4. CASE StartLifecycle(q)
  <2>1. req' \in [Requests -> Req]
    BY <1>4, ReqStages, Zenon DEF StartLifecycle
  <2>2. req[q].kind \in {"replace", "retire"} => [id |-> q, type |-> req[q].kind,
     phase |-> "Quiescing", epoch |-> req[q].epoch, pod |-> req[q].pod] \in Life
    BY Zenon DEF TypeOK, Req, Life, Phases
  <2>3. req[q].kind \in {"replace", "retire"}
    BY <1>4, Zenon DEF StartLifecycle, ReqInv
  <2>4. life' \in Life /\ run' \in Run /\ ready' \in BOOLEAN
    BY <1>4, <2>2, <2>3, NoneTypes, Zenon DEF StartLifecycle, TypeOK
  <2> QED
    BY <1>4, <2>1, <2>2, <2>3, <2>4, Zenon DEF StartLifecycle, TypeOK, runVars, statusVars,
       kubeVars, execVars
<1>5. CASE VerifyTerminal(q)
  <2>1. req' \in [Requests -> Req]
    BY <1>5, ReqStages, Zenon DEF VerifyTerminal
  <2> QED  BY <1>5, <2>1, Zenon DEF VerifyTerminal, TypeOK, runVars, statusVars, kubeVars, execVars
<1>6. CASE Recover(q)
  <2>1. req' \in [Requests -> Req]
    BY <1>6, ReqStages, Zenon DEF Recover
  <2>2. ProofOf(q) \in Proof
    BY Zenon DEF ProofOf, Proof, TypeOK, Req
  <2>3. proof' \in Proof /\ oper' \in Oper /\ run' \in Run /\ fence' \in BOOLEAN
    BY <1>6, <2>2, NoneTypes, Zenon DEF Recover, TypeOK
  <2> QED
    BY <1>6, <2>1, <2>2, <2>3, Zenon DEF Recover, TypeOK, runVars, statusVars, kubeVars, execVars
<1>7. CASE DeleteRetiredEnvironment(q)
  <2>1. [id |-> q, type |-> "delete", phase |-> "DeletingPVC", epoch |-> 0, pod |-> 0] \in Life
    BY Zenon DEF Life, Phases
  <2>2. life' \in Life
    BY <1>7, <2>1, Zenon DEF DeleteRetiredEnvironment
  <2> QED
    BY <1>7, <2>1, <2>2, Zenon DEF DeleteRetiredEnvironment, TypeOK, runVars, statusVars,
       kubeVars, execVars
<1> QED  BY <1>1, <1>2, <1>3, <1>4, <1>5, <1>6, <1>7, Zenon DEF RequestStep

LEMMA CreatePodType ==
    ASSUME TypeOK, NEW r \in Reconcilers, CreatePod(r)
    PROVE  pod' \in Pod /\ pods' \in Nat
  BY DEF CreatePod, TypeOK, Pod

LEMMA FoundType ==
    ASSUME TypeOK, NEW r \in Reconcilers, NEW w \in Writes, Found(r, w)
    PROVE  rec' \in [Reconcilers -> Rec]
<1>1. pod.uid \in Nat /\ PodReady \in BOOLEAN  BY Zenon DEF TypeOK, Pod, PodReady
<1> QED  BY <1>1, RecCaptures, Zenon DEF Found

LEMMA ReconcileType ==
    ASSUME TypeOK, NEW r \in Reconcilers, Get(r) \/ Reconcile(r) \/ Restart(r)
    PROVE  TypeOK'
<1>1. CASE Get(r)
  <2>1. rec' \in [Reconcilers -> Rec]
    BY <1>1, RecGet, Zenon
  <2> QED  BY <1>1, <2>1, Zenon DEF Get, TypeOK, runVars, statusVars, kubeVars, execVars
<1>2. CASE ReconcileExpired(r)
  <2>1. rec' \in [Reconcilers -> Rec]
    BY <1>2, RecTodo, Zenon DEF ReconcileExpired, Writes
  <2> QED
    BY <1>2, <2>1, Zenon DEF ReconcileExpired, TypeOK, runVars, statusVars, kubeVars, execVars
<1>3. CASE Quiesce(r)
  <2>1. rec' \in [Reconcilers -> Rec]
    BY <1>3, RecTodo, Zenon DEF Quiesce, Writes
  <2>2. pod \in Pod
    BY Zenon DEF TypeOK
  <2>3. pod' \in Pod
    BY <1>3, <2>2, Zenon DEF Quiesce, Pod
  <2> QED
    BY <1>3, <2>1, <2>2, <2>3, Zenon DEF Quiesce, TypeOK, runVars, statusVars, kubeVars, execVars
<1>4. CASE AwaitTermination(r)
  <2>1. rec' \in [Reconcilers -> Rec]
    BY <1>4, RecTodo, Zenon DEF AwaitTermination, Writes
  <2> QED
    BY <1>4, <2>1, Zenon DEF AwaitTermination, TypeOK, runVars, statusVars, kubeVars, execVars
<1>5. CASE RemovePodFinalizer(r)
  <2>1. rec' \in [Reconcilers -> Rec]
    BY <1>5, RecTodo, Zenon DEF RemovePodFinalizer, Writes
  <2>2. pod \in Pod
    BY Zenon DEF TypeOK
  <2>3. pod' \in Pod
    BY <1>5, <2>2, Zenon DEF RemovePodFinalizer, Unfinalized, Pod
  <2> QED
    BY <1>5, <2>1, <2>2, <2>3, Zenon DEF RemovePodFinalizer, TypeOK, runVars, statusVars,
       kubeVars, execVars
<1>6. CASE AwaitPodDeletion(r)
  <2>1. rec' \in [Reconcilers -> Rec]
    BY <1>6, RecTodo, RecDone, Zenon DEF AwaitPodDeletion, Writes
  <2>2. pod \in Pod
    BY Zenon DEF TypeOK
  <2>3. pod' \in Pod
    BY <1>6, <2>2, NoneTypes, Zenon DEF AwaitPodDeletion, Pod
  <2> QED
    BY <1>6, <2>1, <2>2, <2>3, Zenon DEF AwaitPodDeletion, TypeOK, runVars, statusVars, kubeVars,
       execVars
<1>7. CASE CreateReplacement(r)
  <2>1. pod' \in Pod /\ pods' \in Nat
    BY <1>7, CreatePodType, Zenon DEF CreateReplacement, TypeOK
  <2>2. rec' \in [Reconcilers -> Rec]
    BY <1>7, RecTodo, RecDone, FoundType, Zenon DEF CreateReplacement, Writes
  <2> QED
    BY <1>7, <2>1, <2>2, Zenon DEF CreateReplacement, TypeOK, runVars, statusVars, kubeVars,
       execVars
<1>8. CASE Provision(r)
  <2>1. pod' \in Pod /\ pods' \in Nat
    BY <1>8, CreatePodType, Zenon DEF Provision, TypeOK, kubeVars
  <2>2. pvc' \in {"none", "bound", "deleted", "foreign"}
    BY <1>8, Zenon DEF Provision, TypeOK, kubeVars
  <2>3. CASE CreatePod(r) /\ Captures(r, "runtime", pods + 1, FALSE)
    <3>1. pods + 1 \in Nat /\ "runtime" \in Writes  BY DEF TypeOK, Writes
    <3>2. rec' \in [Reconcilers -> Rec]  BY <2>3, <3>1, RecCaptures, Zenon
    <3> QED
      BY <1>8, <2>1, <2>2, <3>2, Zenon DEF Provision, TypeOK, runVars, statusVars, kubeVars,
         execVars
  <2>4. CASE ~(CreatePod(r) /\ Captures(r, "runtime", pods + 1, FALSE))
    <3>1. rec' \in [Reconcilers -> Rec]
      BY <1>8, <2>4, RecTodo, FoundType, Zenon DEF Provision, Writes
    <3> QED
      BY <1>8, <2>1, <2>2, <3>1, Zenon DEF Provision, TypeOK, runVars, statusVars, kubeVars,
         execVars
  <2> QED  BY <2>3, <2>4, Zenon
<1>9. CASE DeletePVC(r)
  <2>1. rec' \in [Reconcilers -> Rec]
    BY <1>9, RecTodo, RecDone, Zenon DEF DeletePVC, Writes
  <2>2. pvc' \in {"none", "bound", "deleted", "foreign"}
    BY <1>9, Zenon DEF DeletePVC, TypeOK
  <2> QED  BY <1>9, <2>1, <2>2, Zenon DEF DeletePVC, TypeOK, runVars, statusVars, kubeVars, execVars
<1>10. CASE WriteFence(r)
  <2>1. rec' \in [Reconcilers -> Rec]
    BY <1>10, RecDone, Zenon DEF WriteFence, Writing
  <2> QED
    BY <1>10, <2>1, Zenon DEF WriteFence, TypeOK, runVars, statusVars, kubeVars, execVars, Writing
<1>11. CASE WriteVanished(r)
  <2>1. rec' \in [Reconcilers -> Rec]
    BY <1>11, RecDone, Zenon DEF WriteVanished, Writing
  <2> QED
    BY <1>11, <2>1, Zenon DEF WriteVanished, TypeOK, runVars, statusVars, kubeVars, execVars,
       Writing
<1>12. CASE WriteUnready(r)
  <2>1. rec' \in [Reconcilers -> Rec]
    BY <1>12, RecDone, Zenon DEF WriteUnready, Writing
  <2> QED
    BY <1>12, <2>1, Zenon DEF WriteUnready, TypeOK, runVars, statusVars, kubeVars, execVars, Writing
<1>13. CASE WriteRuntime(r)
  <2>1. rec' \in [Reconcilers -> Rec]
    BY <1>13, RecDone, Zenon DEF WriteRuntime, Writing
  <2>2. podUID' \in Nat /\ ready' \in BOOLEAN
    BY <1>13, Zenon DEF WriteRuntime, TypeOK, Rec
  <2> QED
    BY <1>13, <2>1, <2>2, Zenon DEF WriteRuntime, TypeOK, runVars, statusVars, kubeVars, execVars,
       Writing
<1>14. CASE WritePhase(r)
  <2>1. rec' \in [Reconcilers -> Rec]
    BY <1>14, RecDone, Zenon DEF WritePhase, Writing
  <2>2. life \in Life
    BY Zenon DEF TypeOK
  <2>3. life' \in Life
    BY <1>14, <2>2 DEF WritePhase, NextPhase, Life, Phases
  <2> QED
    BY <1>14, <2>1, <2>2, <2>3, Zenon DEF WritePhase, TypeOK, runVars, statusVars, kubeVars,
       execVars, Writing
<1>15. CASE WriteProof(r)
  <2>1. rec' \in [Reconcilers -> Rec]
    BY <1>15, RecDone, Zenon DEF WriteProof, Writing
  <2>2. life \in Life
    BY Zenon DEF TypeOK
  <2>3. life' \in Life
    BY <1>15, <2>2, Zenon DEF WriteProof, Life, Phases
  <2>4. proof' \in Proof
    BY <1>15, <2>2, Zenon DEF WriteProof, Life, Proof
  <2> QED
    BY <1>15, <2>1, <2>2, <2>3, <2>4, Zenon DEF WriteProof, TypeOK, runVars, statusVars, kubeVars,
       execVars, Writing
<1>16. CASE FinishRetirement(r)
  <2>1. rec' \in [Reconcilers -> Rec]
    BY <1>16, RecDone, Zenon DEF FinishRetirement, Writing
  <2> QED
    BY <1>16, <2>1, NoneTypes, Zenon DEF FinishRetirement, TypeOK, runVars, statusVars, kubeVars,
       execVars, Writing
<1>17. CASE PrepareReplacement(r)
  <2>1. rec' \in [Reconcilers -> Rec]
    BY <1>17, RecDone, Zenon DEF PrepareReplacement, Writing
  <2>2. life \in Life
    BY Zenon DEF TypeOK
  <2>3. life' \in Life
    BY <1>17, <2>2, Zenon DEF PrepareReplacement, Life, Phases
  <2> QED
    BY <1>17, <2>1, <2>2, <2>3, Zenon DEF PrepareReplacement, TypeOK, runVars, statusVars,
       kubeVars, execVars, Writing
<1>18. CASE FinishReplacement(r)
  <2>1. rec' \in [Reconcilers -> Rec]
    BY <1>18, RecDone, Zenon DEF FinishReplacement, Writing
  <2>2. epoch' \in Nat /\ podUID' \in Nat
    BY <1>18 DEF FinishReplacement, TypeOK, Rec
  <2> QED
    BY <1>18, <2>1, <2>2, NoneTypes, Zenon DEF FinishReplacement, TypeOK, runVars, statusVars,
       kubeVars, execVars, Writing
<1>19. CASE Return(r)
  <2>1. rec' \in [Reconcilers -> Rec]
    BY <1>19, RecDone, Zenon DEF Return
  <2> QED  BY <1>19, <2>1, Zenon DEF Return, TypeOK, runVars, statusVars, kubeVars, execVars
<1>20. CASE Restart(r)
  <2>1. rec' \in [Reconcilers -> Rec]
    BY <1>20, RecDone, Zenon DEF Restart
  <2> QED  BY <1>20, <2>1, Zenon DEF Restart, TypeOK, runVars, statusVars, kubeVars, execVars
<1> QED
  BY <1>1, <1>2, <1>3, <1>4, <1>5, <1>6, <1>7, <1>8, <1>9, <1>10, <1>11, <1>12, <1>13, <1>14,
     <1>15, <1>16, <1>17, <1>18, <1>19, <1>20, Zenon DEF Reconcile

LEMMA PodStepType ==
    ASSUME TypeOK, PodStarts \/ PodTerminates \/ PodRemoved \/ PodEvicted \/ PodVanishes
    PROVE  TypeOK'
<1>1. CASE PodStarts
  <2>1. pod \in Pod
    BY Zenon DEF TypeOK
  <2>2. pod' \in Pod
    BY <1>1, <2>1, NoneTypes, Zenon DEF PodStarts, Pod
  <2> QED  BY <1>1, <2>1, <2>2, Zenon DEF PodStarts, TypeOK, runVars, statusVars, kubeVars, execVars
<1>2. CASE PodTerminates
  <2>1. pod \in Pod
    BY Zenon DEF TypeOK
  <2>2. pod' \in Pod
    BY <1>2, <2>1, NoneTypes, Zenon DEF PodTerminates, Pod
  <2>3. alive' \subseteq [call : Calls, pod : Nat]
    BY <1>2, Zenon DEF PodTerminates, TypeOK
  <2> QED
    BY <1>2, <2>1, <2>2, <2>3, Zenon DEF PodTerminates, TypeOK, runVars, statusVars, kubeVars,
       execVars
<1>3. CASE PodRemoved
  <2>1. pod \in Pod
    BY Zenon DEF TypeOK
  <2>2. pod' \in Pod
    BY <1>3, <2>1, NoneTypes, Zenon DEF PodRemoved, Pod
  <2> QED
    BY <1>3, <2>1, <2>2, Zenon DEF PodRemoved, TypeOK, runVars, statusVars, kubeVars, execVars
<1>4. CASE PodEvicted
  <2>1. pod \in Pod
    BY Zenon DEF TypeOK
  <2>2. pod' \in Pod
    BY <1>4, <2>1, NoneTypes, Zenon DEF PodEvicted, Pod
  <2> QED
    BY <1>4, <2>1, <2>2, Zenon DEF PodEvicted, TypeOK, runVars, statusVars, kubeVars, execVars
<1>5. CASE PodVanishes
  <2>1. pod \in Pod
    BY Zenon DEF TypeOK
  <2>2. pod' \in Pod
    BY <1>5, <2>1, NoneTypes, Zenon DEF PodVanishes, Pod
  <2> QED
    BY <1>5, <2>1, <2>2, Zenon DEF PodVanishes, TypeOK, runVars, statusVars, kubeVars, execVars
<1> QED  BY <1>1, <1>2, <1>3, <1>4, <1>5, Zenon

LEMMA NextType ==
    ASSUME TypeOK, \A q \in Requests : ReqInv(q), Next
    PROVE  TypeOK'
<1>1. CASE \E c \in Calls : CallStep(c)  BY <1>1, CallStepType, Zenon
<1>2. CASE \E x \in alive : Ends(x)  BY <1>2, EndsType, Zenon
<1>3. CASE \E b \in Bindings : AcquireRun(b) \/ ReserveSuccessor(b)
  BY <1>3, AcquireType, ReserveType, Zenon
<1>4. CASE \E b \in Bindings : \E m \in RefMoves : MutateReference(b, m)
  BY <1>4, MutateType, Zenon
<1>5. CASE RenewRun \/ ReleaseRun \/ RevokeEnvironment \/ Tick  BY <1>5, RunStepType, Zenon
<1>6. CASE \E q \in Requests : RequestStep(q)  BY <1>6, RequestStepType, Zenon
<1>7. CASE \E r \in Reconcilers : Get(r) \/ Reconcile(r) \/ Restart(r)
  BY <1>7, ReconcileType, Zenon
<1>8. CASE Kubelet \/ PodEvicted \/ PodVanishes  BY <1>8, PodStepType, Zenon DEF Kubelet
<1> QED  BY <1>1, <1>2, <1>3, <1>4, <1>5, <1>6, <1>7, <1>8, Zenon DEF Next

(***************************************************************************)
(* What no step does to the environment.                                   *)
(***************************************************************************)
NoUse == run = NoRun /\ oper = NoOper

EnvStep ==
    /\ epoch <= epoch' /\ Top <= Top' /\ pods <= pods'
    /\ retired => retired'
    /\ pod'.uid \in {0, pod.uid} \/ pods < pod'.uid
    /\ podUID' \in {0, podUID} \/ Top < podUID'
    /\ podUID' = podUID /\ (life # NoLife \/ retired) => life' # NoLife \/ retired'
    /\ life.phase = "CreatingReplacement" => life' = life \/ epoch < epoch'
    /\ pod'.uid = pod.uid /\ pod.phase = "terminal" => pod'.phase = "terminal"
    /\ pod.uid # 0 /\ pod.uid = podUID /\ pod'.uid # pod.uid => NoUse'
    /\ NoUse /\ epoch' = epoch => NoUse'

LEMMA Numbers ==
    ASSUME TypeOK
    PROVE  /\ epoch \in Nat /\ podUID \in Nat /\ pods \in Nat /\ pod.uid \in Nat
           /\ life.pod \in Nat /\ Top \in Nat
  BY Zenon DEF TypeOK, Top, Life, Pod

\* What RecInv says of a write that is due.
TodoInv(r) ==
    /\ rec[r].write \in {"waiting", "proved", "unfinalized", "retired", "prepare"} =>
         rec[r].life.phase \in OverPod
    /\ rec[r].write = "release" => rec[r].life.phase = "DeletingPVC"
    /\ rec[r].write = "runtime" => /\ rec[r].life = NoLife /\ rec[r].uid # 0
                                   /\ rec[r].pod \in {0, rec[r].uid}
    /\ rec[r].write = "retired" => rec[r].life.type = "retire"
    /\ rec[r].write = "prepare" => /\ rec[r].life.type # "retire"
                                   /\ pod.uid # rec[r].life.pod
    /\ rec[r].write = "replaced" => /\ rec[r].life.phase = "CreatingReplacement"
                                    /\ rec[r].uid # 0
                                    /\ rec[r].epoch = epoch => rec[r].life.pod < rec[r].uid

\* What RecInv says of the lifecycle operation and the Pod that were read outlives a step.
LEMMA RecKept ==
    ASSUME TypeOK, TypeOK', UidInv, EnvStep, NEW s \in Reconcilers, RecInv(s)
    PROVE  /\ rec[s].life.pod <= Top' /\ rec[s].epoch <= epoch'
           /\ rec[s].life.phase \in OverPod /\ rec[s].life.pod = podUID' =>
                life' # NoLife \/ retired'
           /\ rec[s].life.phase = "CreatingReplacement" /\ rec[s].epoch = epoch' =>
                life' = rec[s].life
           /\ rec[s].uid <= pods' /\ (pod'.uid # 0 => rec[s].uid <= pod'.uid)
           /\ rec[s].stage = "todo" /\ TodoInv(s) =>
                /\ rec[s].write = "prepare" => pod'.uid # rec[s].life.pod
                /\ rec[s].write = "replaced" /\ rec[s].epoch = epoch' =>
                     rec[s].life.pod < rec[s].uid
<1>1. rec[s] \in Rec /\ rec[s].life \in Life  BY Zenon DEF TypeOK, Rec
<1>2. rec[s].life.pod \in Nat /\ rec[s].epoch \in Nat /\ rec[s].uid \in Nat
  BY <1>1, Zenon DEF Rec, Life
<1>3. /\ epoch \in Nat /\ podUID \in Nat /\ pods \in Nat /\ pod.uid \in Nat /\ Top \in Nat
  BY Numbers, Zenon
<1>4. /\ epoch' \in Nat /\ podUID' \in Nat /\ pods' \in Nat /\ pod'.uid \in Nat /\ Top' \in Nat
  BY Zenon DEF TypeOK, Top, Life, Pod
<1>5. Top <= pods  BY Zenon DEF UidInv
<1>6. /\ rec[s].life.pod <= Top /\ rec[s].epoch <= epoch
      /\ rec[s].life.phase \in OverPod /\ rec[s].life.pod = podUID => life # NoLife \/ retired
      /\ rec[s].life.phase = "CreatingReplacement" /\ rec[s].epoch = epoch => life = rec[s].life
      /\ rec[s].uid <= pods /\ (pod.uid # 0 => rec[s].uid <= pod.uid)
  BY Zenon DEF RecInv
<1> HIDE DEF Top
<1>7. rec[s].life.pod <= Top' /\ rec[s].epoch <= epoch'
  BY <1>2, <1>3, <1>4, <1>6 DEF EnvStep
<1>8. rec[s].life.phase \in OverPod /\ rec[s].life.pod = podUID' => life' # NoLife \/ retired'
  <2> SUFFICES ASSUME rec[s].life.phase \in OverPod, rec[s].life.pod = podUID'
               PROVE  life' # NoLife \/ retired'
    OBVIOUS
  <2>1. rec[s].life.pod # 0  BY Zenon DEF RecInv
  <2>2. podUID' = podUID  BY <1>2, <1>3, <1>4, <1>6, <2>1 DEF EnvStep
  <2> QED  BY <1>6, <2>2, Zenon DEF EnvStep
<1>9. rec[s].life.phase = "CreatingReplacement" /\ rec[s].epoch = epoch' => life' = rec[s].life
  <2> SUFFICES ASSUME rec[s].life.phase = "CreatingReplacement", rec[s].epoch = epoch'
               PROVE  life' = rec[s].life
    OBVIOUS
  <2>1. epoch' = epoch  BY <1>2, <1>3, <1>4, <1>6 DEF EnvStep
  <2>2. life = rec[s].life  BY <1>6, <2>1, Zenon
  <2> QED  BY <1>3, <2>1, <2>2 DEF EnvStep
<1>10. rec[s].uid <= pods' /\ (pod'.uid # 0 => rec[s].uid <= pod'.uid)
  BY <1>2, <1>3, <1>4, <1>6 DEF EnvStep
<1>11. ASSUME TodoInv(s), rec[s].write = "prepare" PROVE pod'.uid # rec[s].life.pod
  <2>1. pod.uid # rec[s].life.pod /\ rec[s].life.phase \in OverPod  BY <1>11, Zenon DEF TodoInv
  <2>2. rec[s].life.pod # 0  BY <2>1, Zenon DEF RecInv
  <2> QED  BY <1>2, <1>3, <1>4, <1>5, <1>6, <2>1, <2>2 DEF EnvStep
<1>12. ASSUME TodoInv(s), rec[s].write = "replaced", rec[s].epoch = epoch'
       PROVE  rec[s].life.pod < rec[s].uid
  <2>1. epoch' = epoch  BY <1>2, <1>3, <1>4, <1>6, <1>12 DEF EnvStep
  <2> QED  BY <1>12, <2>1, Zenon DEF TodoInv
<1> QED  BY <1>7, <1>8, <1>9, <1>10, <1>11, <1>12, Zenon

LEMMA RecTodoInv ==
    ASSUME NEW s \in Reconcilers, RecInv(s)
    PROVE  rec[s].stage = "todo" => TodoInv(s)
  BY Zenon DEF RecInv, TodoInv

\* RecInv from its parts.
LEMMA RecWhole ==
    ASSUME TypeOK, TypeOK', UidInv, EnvStep, NEW s \in Reconcilers, RecInv(s),
           rec'[s].life = rec[s].life, rec'[s].epoch = rec[s].epoch,
           rec'[s].uid <= pods' /\ (pod'.uid # 0 => rec'[s].uid <= pod'.uid),
           rec'[s].stage = "todo" => TodoInv(s)'
    PROVE  RecInv(s)'
<1>1. /\ rec[s].life.pod <= Top' /\ rec[s].epoch <= epoch'
      /\ rec[s].life.phase \in OverPod /\ rec[s].life.pod = podUID' => life' # NoLife \/ retired'
      /\ rec[s].life.phase = "CreatingReplacement" /\ rec[s].epoch = epoch' => life' = rec[s].life
  BY RecKept, Zenon
<1>2. retired => retired'  BY Zenon DEF EnvStep
<1>3. /\ rec[s].life.phase = "none" => rec[s].life = NoLife
      /\ rec[s].life.phase \in OverPod => rec[s].life.pod # 0
      /\ rec[s].life.phase = "DeletingPVC" => retired
  BY Zenon DEF RecInv
<1> HIDE DEF Top
<1> QED  BY <1>1, <1>2, <1>3, Zenon DEF RecInv, TodoInv

\* A reconciler that takes no part in a step keeps what RecInv says of it.
LEMMA RecStable ==
    ASSUME TypeOK, TypeOK', UidInv, EnvStep, NEW s \in Reconcilers, RecInv(s), rec'[s] = rec[s]
    PROVE  RecInv(s)'
<1>1. rec[s].uid <= pods' /\ (pod'.uid # 0 => rec[s].uid <= pod'.uid)  BY RecKept, Zenon
<1>2. rec[s].stage = "todo" => TodoInv(s)'
  <2> SUFFICES ASSUME rec[s].stage = "todo" PROVE TodoInv(s)'  OBVIOUS
  <2>1. TodoInv(s)  BY RecTodoInv, Zenon
  <2>2. /\ rec[s].write = "prepare" => pod'.uid # rec[s].life.pod
        /\ rec[s].write = "replaced" /\ rec[s].epoch = epoch' => rec[s].life.pod < rec[s].uid
    BY <2>1, RecKept, Zenon
  <2> QED  BY <2>1, <2>2, Zenon DEF TodoInv
<1> QED  BY <1>1, <1>2, RecWhole, Zenon

\* A request that takes no part in a step keeps what ReqInv says of it.
LEMMA ReqStable ==
    ASSUME TypeOK, TypeOK', UidInv, EnvStep, NEW q \in Requests, ReqInv(q), req'[q] = req[q]
    PROVE  ReqInv(q)'
<1>1. req[q] \in Req /\ req[q].epoch \in Nat /\ req[q].pod \in Nat  BY Zenon DEF TypeOK, Req
<1>2. /\ epoch \in Nat /\ podUID \in Nat /\ pods \in Nat /\ pod.uid \in Nat /\ Top \in Nat
  BY Numbers, Zenon
<1>3. /\ epoch' \in Nat /\ podUID' \in Nat /\ pods' \in Nat /\ pod'.uid \in Nat /\ Top' \in Nat
  BY Zenon DEF TypeOK, Top, Life, Pod
<1>4. podUID # 0 => Top = podUID  BY Zenon DEF Top
<1>5. Top <= pods  BY Zenon DEF UidInv
<1> HIDE DEF Top
<1>6. req[q].epoch <= epoch' /\ req[q].pod <= Top'  BY <1>1, <1>2, <1>3 DEF ReqInv, EnvStep
<1>7. ASSUME req[q].stage = "verified", req[q].epoch = epoch', req[q].pod = podUID'
      PROVE  /\ pod'.uid = podUID' => pod'.phase = "terminal"
             /\ pod'.uid = podUID' \/ NoUse'
  <2>1. epoch' = epoch  BY <1>1, <1>2, <1>3, <1>7 DEF ReqInv, EnvStep
  <2>2. req[q].pod # 0  BY <1>7, Zenon DEF ReqInv
  <2>3. podUID' = podUID  BY <1>1, <1>2, <1>3, <1>7, <2>2 DEF ReqInv, EnvStep
  <2>4. /\ pod.uid = podUID => pod.phase = "terminal"
        /\ pod.uid = podUID \/ NoUse
    BY <1>7, <2>1, <2>3, Zenon DEF ReqInv, ExactSubject, NoUse
  <2>5. pod'.uid = podUID => pod'.uid = pod.uid
    BY <1>2, <1>3, <1>4, <1>5, <1>7, <2>2, <2>3 DEF EnvStep
  <2>6. pod'.uid = podUID => pod'.phase = "terminal"  BY <2>4, <2>5, Zenon DEF EnvStep
  <2>7. pod'.uid = podUID \/ NoUse'
    BY <1>7, <2>1, <2>2, <2>3, <2>4, Zenon DEF EnvStep
  <2> QED  BY <2>3, <2>6, <2>7, Zenon
<1> QED  BY <1>6, <1>7, Zenon DEF ReqInv, ExactSubject, NoUse

\* Steps that leave the identity, the lifecycle operation and the Pod alone.
Calm == UNCHANGED <<epoch, life, podUID, retired, pod, pods>>

LEMMA CalmStep ==
    ASSUME TypeOK, Calm, NoUse => NoUse'
    PROVE  EnvStep
<1>1. Top' = Top  BY Zenon DEF Calm, Top
<1>2. epoch \in Nat /\ Top \in Nat /\ pods \in Nat  BY Numbers, Zenon
<1> HIDE DEF Top
<1> QED  BY <1>1, <1>2 DEF Calm, EnvStep

LEMMA CallStepCalm ==
    ASSUME TypeOK, NEW c \in Calls, CallStep(c)
    PROVE  Calm /\ (NoUse => NoUse')
<1>1. CASE ClaimOperation(c)  BY <1>1, Zenon DEF ClaimOperation, Calm, NoUse, statusVars, kubeVars
<1>2. CASE Dispatch(c)  BY <1>2, Zenon DEF Dispatch, Calm, NoUse, statusVars, kubeVars, runVars
<1>3. CASE Land(c)  BY <1>3, Zenon DEF Land, Calm, NoUse, statusVars, kubeVars, runVars
<1>4. CASE StreamFails(c)
  BY <1>4, Zenon DEF StreamFails, Calm, NoUse, statusVars, kubeVars, runVars
<1>5. CASE RenewOperation(c)
  <2>1. Calm /\ run' = run  BY <1>5, Zenon DEF RenewOperation, Calm, statusVars, kubeVars, runVars
  <2>2. oper = NoOper => oper' = oper
    BY <1>5, NamesAssumption DEF RenewOperation, LeaseCurrent, NoOper
  <2> QED  BY <2>1, <2>2, Zenon DEF NoUse
<1>6. CASE FinishOperation(c)  BY <1>6, Zenon DEF FinishOperation, Calm, NoUse, kubeVars, runVars
<1>7. CASE Die(c)  BY <1>7, Zenon DEF Die, Calm, NoUse, statusVars, kubeVars, runVars
<1> QED  BY <1>1, <1>2, <1>3, <1>4, <1>5, <1>6, <1>7, Zenon DEF CallStep

LEMMA RunStepCalm ==
    ASSUME TypeOK, RenewRun \/ ReleaseRun \/ RevokeEnvironment \/ Tick
    PROVE  Calm /\ (NoUse => NoUse')
<1>1. CASE RenewRun  BY <1>1, Zenon DEF RenewRun, Calm, NoUse, statusVars, kubeVars
<1>2. CASE ReleaseRun  BY <1>2, Zenon DEF ReleaseRun, Calm, NoUse, statusVars, kubeVars
<1>3. CASE RevokeEnvironment
  BY <1>3, Zenon DEF RevokeEnvironment, Calm, NoUse, statusVars, kubeVars
<1>4. CASE Tick
  <2>1. Calm  BY <1>4, Zenon DEF Tick, Calm, statusVars, kubeVars
  <2>2. run = NoRun => run' = run  BY <1>4 DEF Tick, NoRun
  <2>3. oper = NoOper => oper' = oper  BY <1>4 DEF Tick, NoOper
  <2> QED  BY <2>1, <2>2, <2>3, Zenon DEF NoUse
<1> QED  BY <1>1, <1>2, <1>3, <1>4, Zenon

LEMMA RequestStepCalm ==
    ASSUME TypeOK, NEW q \in Requests,
           \/ Request(q) \/ ObserveTerminal(q) \/ PersistProof(q) \/ VerifyTerminal(q) \/ Recover(q)
    PROVE  Calm /\ (NoUse => NoUse')
<1>1. CASE Request(q)  BY <1>1, Zenon DEF Request, Calm, NoUse, statusVars, kubeVars, runVars
<1>2. CASE ObserveTerminal(q)
  BY <1>2, Zenon DEF ObserveTerminal, Calm, NoUse, statusVars, kubeVars, runVars
<1>3. CASE PersistProof(q)  BY <1>3, Zenon DEF PersistProof, Calm, NoUse, kubeVars, runVars
<1>4. CASE VerifyTerminal(q)
  BY <1>4, Zenon DEF VerifyTerminal, Calm, NoUse, statusVars, kubeVars, runVars
<1>5. CASE Recover(q)  BY <1>5, Zenon DEF Recover, Calm, NoUse, kubeVars
<1> QED  BY <1>1, <1>2, <1>3, <1>4, <1>5, Zenon

LEMMA AcquireStep ==
    ASSUME TypeOK, NEW b \in Bindings, AcquireRun(b)
    PROVE  EnvStep
<1>1. UNCHANGED <<life, podUID, retired, pod, pods>> /\ epoch' = epoch + 1
  BY Zenon DEF AcquireRun, kubeVars
<1>2. Top' = Top  BY <1>1, Zenon DEF Top
<1>3. epoch \in Nat /\ Top \in Nat /\ pods \in Nat  BY Numbers, Zenon
<1> HIDE DEF Top
<1> QED  BY <1>1, <1>2, <1>3 DEF EnvStep

LEMMA StartStep ==
    ASSUME TypeOK, NEW q \in Requests, ReqInv(q), LifeInv, StartLifecycle(q)
    PROVE  EnvStep
<1>1. UNCHANGED <<epoch, podUID, retired, pod, pods, oper>>  BY Zenon DEF StartLifecycle, kubeVars
<1>2. CASE Admissible(q)
  <2>1. req[q].kind # "none"  BY Zenon DEF StartLifecycle, ReqInv
  <2>2. life = NoLife /\ ~retired /\ req[q].pod = podUID
    BY <1>2, Zenon DEF Admissible, ExactSubject
  <2>3. podUID # 0  BY <2>1, <2>2, Zenon DEF ReqInv
  <2>4. Top' = Top  BY <1>1, <2>3, Zenon DEF Top
  <2>5. run' = NoRun  BY <1>2, Zenon DEF StartLifecycle
  <2>6. life.phase = "none"  BY <2>2, Zenon DEF NoLife
  <2>7. epoch \in Nat /\ Top \in Nat /\ pods \in Nat  BY Numbers, Zenon
  <2> HIDE DEF Top
  <2> QED  BY <1>1, <2>2, <2>4, <2>5, <2>6, <2>7 DEF EnvStep, NoUse
<1>3. CASE ~Admissible(q)
  <2>1. Calm /\ (NoUse => NoUse')  BY <1>1, <1>3, Zenon DEF StartLifecycle, Calm, NoUse
  <2> QED  BY <2>1, CalmStep, Zenon
<1> QED  BY <1>2, <1>3, Zenon

LEMMA DeleteStep ==
    ASSUME TypeOK, NEW q \in Requests, LifeInv, DeleteRetiredEnvironment(q)
    PROVE  EnvStep
<1>1. UNCHANGED <<epoch, podUID, retired, pod, pods, oper, run>> /\ retired /\ life = NoLife
  BY Zenon DEF DeleteRetiredEnvironment, kubeVars, runVars
<1>2. podUID # 0  BY <1>1, Zenon DEF LifeInv
<1>3. Top' = Top  BY <1>1, <1>2, Zenon DEF Top
<1>4. epoch \in Nat /\ Top \in Nat /\ pods \in Nat  BY Numbers, Zenon
<1>5. life.phase = "none"  BY <1>1, Zenon DEF NoLife
<1> HIDE DEF Top
<1> QED  BY <1>1, <1>3, <1>4, <1>5 DEF EnvStep, NoUse

LEMMA ReconcileFrame ==
    ASSUME NEW r \in Reconcilers, Get(r) \/ Reconcile(r) \/ Restart(r)
    PROVE  UNCHANGED <<run, oper, refs, execVars, req>>
<1> USE DEF runVars
<1>1. CASE Get(r)  BY <1>1, Zenon DEF Get
<1>2. CASE ReconcileExpired(r)  BY <1>2, Zenon DEF ReconcileExpired
<1>3. CASE Quiesce(r)  BY <1>3, Zenon DEF Quiesce
<1>4. CASE AwaitTermination(r)  BY <1>4, Zenon DEF AwaitTermination
<1>5. CASE RemovePodFinalizer(r)  BY <1>5, Zenon DEF RemovePodFinalizer
<1>6. CASE AwaitPodDeletion(r)  BY <1>6, Zenon DEF AwaitPodDeletion
<1>7. CASE CreateReplacement(r)  BY <1>7, Zenon DEF CreateReplacement
<1>8. CASE Provision(r)  BY <1>8, Zenon DEF Provision
<1>9. CASE DeletePVC(r)  BY <1>9, Zenon DEF DeletePVC
<1>10. CASE WriteFence(r) \/ WriteVanished(r) \/ WriteUnready(r) \/ WriteRuntime(r)
  BY <1>10, Zenon DEF WriteFence, WriteVanished, WriteUnready, WriteRuntime, Writing
<1>11. CASE WritePhase(r) \/ WriteProof(r)  BY <1>11, Zenon DEF WritePhase, WriteProof, Writing
<1>12. CASE FinishRetirement(r) \/ PrepareReplacement(r) \/ FinishReplacement(r)
  BY <1>12, Zenon DEF FinishRetirement, PrepareReplacement, FinishReplacement, Writing
<1>13. CASE Return(r) \/ Restart(r)  BY <1>13, Zenon DEF Return, Restart
<1> QED  BY <1>1, <1>2, <1>3, <1>4, <1>5, <1>6, <1>7, <1>8, <1>9, <1>10, <1>11, <1>12, <1>13, Zenon
         DEF Reconcile

LEMMA ReconcileCalm ==
    ASSUME TypeOK, NEW r \in Reconcilers,
           \/ Get(r) \/ ReconcileExpired(r) \/ AwaitTermination(r) \/ DeletePVC(r)
           \/ WriteFence(r) \/ WriteVanished(r) \/ WriteUnready(r) \/ Return(r) \/ Restart(r)
    PROVE  Calm /\ UNCHANGED <<run, oper, refs, execVars, req>>
<1> USE DEF Calm, runVars, statusVars, kubeVars
<1>1. CASE Get(r)  BY <1>1, Zenon DEF Get
<1>2. CASE ReconcileExpired(r)  BY <1>2, Zenon DEF ReconcileExpired
<1>3. CASE AwaitTermination(r)  BY <1>3, Zenon DEF AwaitTermination
<1>4. CASE DeletePVC(r)  BY <1>4, Zenon DEF DeletePVC
<1>5. CASE WriteFence(r)  BY <1>5, Zenon DEF WriteFence, Writing
<1>6. CASE WriteVanished(r)  BY <1>6, Zenon DEF WriteVanished, Writing
<1>7. CASE WriteUnready(r)  BY <1>7, Zenon DEF WriteUnready, Writing
<1>8. CASE Return(r)  BY <1>8, Zenon DEF Return
<1>9. CASE Restart(r)  BY <1>9, Zenon DEF Restart
<1> QED  BY <1>1, <1>2, <1>3, <1>4, <1>5, <1>6, <1>7, <1>8, <1>9, Zenon

\* The Pod steps of the reconcilers and of the kubelet.
PodOnly == UNCHANGED <<epoch, life, podUID, retired, run, oper>>

LEMMA PodOnlyStep ==
    ASSUME TypeOK, TypeOK', PodOnly, pods <= pods',
           pod'.uid \in {0, pod.uid} \/ pods < pod'.uid,
           pod'.uid = pod.uid /\ pod.phase = "terminal" => pod'.phase = "terminal",
           pod.uid # 0 /\ pod.uid = podUID /\ pod'.uid # pod.uid => NoUse
    PROVE  EnvStep
<1>1. Top' = Top  BY Zenon DEF PodOnly, Top
<1>2. epoch \in Nat /\ Top \in Nat /\ pods \in Nat  BY Numbers, Zenon
<1>3. NoUse' = NoUse  BY Zenon DEF PodOnly, NoUse
<1> HIDE DEF Top, NoUse
<1> QED  BY <1>1, <1>2, <1>3 DEF PodOnly, EnvStep

\* A Pod without a finalizer that is the recorded one is under a lifecycle operation
\* that has the environment for itself, or belongs to a retired environment.
LEMMA Unused ==
    ASSUME LifeInv, life # NoLife \/ retired
    PROVE  NoUse
  BY Zenon DEF LifeInv, NoUse

PodSame ==
    /\ PodOnly /\ pods' = pods /\ pod'.uid = pod.uid
    /\ pod.phase = "terminal" => pod'.phase = "terminal"

LEMMA PodDeletes ==
    ASSUME TypeOK, NEW r \in Reconcilers, Quiesce(r) \/ RemovePodFinalizer(r)
    PROVE  PodSame
<1> USE DEF PodSame, PodOnly, runVars, statusVars
<1>1. pod \in Pod  BY Zenon DEF TypeOK
<1>2. CASE Quiesce(r)  BY <1>1, <1>2, Zenon DEF Quiesce, Pod
<1>3. CASE RemovePodFinalizer(r)  BY <1>1, <1>3, Zenon DEF RemovePodFinalizer, Unfinalized, Pod
<1> QED  BY <1>2, <1>3, Zenon

LEMMA PodMoves ==
    ASSUME TypeOK, PodStarts \/ PodTerminates \/ PodEvicted
    PROVE  PodSame
<1> USE DEF PodSame, PodOnly, runVars, statusVars
<1>1. pod \in Pod  BY Zenon DEF TypeOK
<1>2. CASE PodStarts  BY <1>1, <1>2, Zenon DEF PodStarts, Pod
<1>3. CASE PodTerminates  BY <1>1, <1>3, Zenon DEF PodTerminates, Pod
<1>4. CASE PodEvicted  BY <1>1, <1>4, Zenon DEF PodEvicted, Pod
<1> QED  BY <1>2, <1>3, <1>4, Zenon

LEMMA PodSameStep ==
    ASSUME TypeOK, TypeOK', PodSame
    PROVE  EnvStep
<1>1. pods \in Nat  BY Numbers, Zenon
<1> QED  BY <1>1, PodOnlyStep DEF PodSame

LEMMA AwaitDeletionPod ==
    ASSUME TypeOK, NEW r \in Reconcilers, RecInv(r), AwaitPodDeletion(r)
    PROVE  /\ PodOnly /\ pods' = pods
           /\ pod'.uid = pod.uid => pod'.phase = pod.phase /\ pod'.fin = pod.fin
           /\ pod'.uid \in {0, pod.uid}
           /\ pod'.uid # pod.uid => /\ pod' = NoPod /\ ~pod.fin /\ pod.uid = rec[r].life.pod
                                    /\ rec[r].life.phase \in OverPod
<1> USE DEF PodOnly, runVars, statusVars
<1>1. pod \in Pod /\ NoPod \in Pod  BY NoneTypes, Zenon DEF TypeOK
<1>2. PodOnly /\ pods' = pods /\ rec[r].life.phase \in OverPod
  BY Zenon DEF AwaitPodDeletion, InPhase, OverPod
<1>3. CASE pod' = pod  BY <1>2, <1>3, Zenon
<1>4. CASE pod' # pod
  <2>1. pod # NoPod /\ pod.uid = rec[r].life.pod  BY <1>4, Zenon DEF AwaitPodDeletion
  <2>2. pod' = IF pod.fin THEN [pod EXCEPT !.deleting = TRUE] ELSE NoPod
    BY <1>4, Zenon DEF AwaitPodDeletion
  <2>3. pod.uid # 0  BY <1>2, <2>1, Zenon DEF RecInv
  <2>4. NoPod.uid = 0  BY Zenon DEF NoPod
  <2>5. CASE pod.fin
    <3>1. pod' = [pod EXCEPT !.deleting = TRUE]  BY <2>2, <2>5, Zenon
    <3>2. pod'.uid = pod.uid /\ pod'.phase = pod.phase /\ pod'.fin = pod.fin
      BY <1>1, <3>1, Zenon DEF Pod
    <3> QED  BY <1>2, <3>2, Zenon
  <2>6. CASE ~pod.fin  BY <1>2, <2>1, <2>2, <2>3, <2>4, <2>6, Zenon
  <2> QED  BY <2>5, <2>6, Zenon
<1> QED  BY <1>3, <1>4, Zenon

LEMMA AwaitDeletionStep ==
    ASSUME TypeOK, TypeOK', NEW r \in Reconcilers, RecInv(r), LifeInv, AwaitPodDeletion(r)
    PROVE  EnvStep
<1>1. pods \in Nat  BY Numbers, Zenon
<1>2. pod.uid # 0 /\ pod.uid = podUID /\ pod'.uid # pod.uid => NoUse
  BY AwaitDeletionPod, Unused, Zenon DEF RecInv
<1> HIDE DEF NoUse
<1> QED  BY <1>1, <1>2, AwaitDeletionPod, PodOnlyStep

LEMMA RemovedStep ==
    ASSUME TypeOK, TypeOK', UidInv, LifeInv, PodRemoved
    PROVE  EnvStep
<1>1. pods \in Nat  BY Numbers, Zenon
<1>2. PodOnly /\ pods' = pods /\ pod' = NoPod /\ ~pod.fin
  BY Zenon DEF PodRemoved, PodOnly, runVars, statusVars
<1>3. pod'.uid = 0 /\ pod'.phase = "none"  BY <1>2, Zenon DEF NoPod
<1>4. pod.uid # 0 /\ pod.uid = podUID => NoUse  BY <1>2, Unused, Zenon DEF UidInv
<1>5. pod.phase = "terminal" => pod.uid # 0  BY DEF UidInv, NoPod
<1> HIDE DEF NoUse
<1> QED  BY <1>1, <1>2, <1>3, <1>4, <1>5, PodOnlyStep

\* CreateReplacement and Provision make a new Pod or leave the Pod as it is.
LEMMA MakesPod ==
    ASSUME TypeOK, NEW r \in Reconcilers, CreateReplacement(r) \/ Provision(r)
    PROVE  /\ PodOnly
           /\ \/ UNCHANGED <<pod, pods>>
              \/ /\ pod = NoPod /\ rec[r].pod = 0 /\ pods' = pods + 1
                 /\ pod' = [uid |-> pods + 1, phase |-> "starting", deleting |-> FALSE,
                            fin |-> TRUE]
<1> USE DEF PodOnly, runVars, statusVars
<1>1. CASE CreateReplacement(r)  BY <1>1, Zenon DEF CreateReplacement, CreatePod
<1>2. CASE Provision(r)  BY <1>2, Zenon DEF Provision, CreatePod, kubeVars
<1> QED  BY <1>1, <1>2, Zenon

LEMMA MakesPodStep ==
    ASSUME TypeOK, TypeOK', NEW r \in Reconcilers, CreateReplacement(r) \/ Provision(r)
    PROVE  EnvStep
<1>1. pods \in Nat  BY Numbers, Zenon
<1>2. PodOnly  BY MakesPod, Zenon
<1>3. CASE UNCHANGED <<pod, pods>>  BY <1>1, <1>2, <1>3, PodOnlyStep
<1>4. CASE ~UNCHANGED <<pod, pods>>
  <2>1. pod.uid = 0 /\ pod.phase = "none" /\ pods' = pods + 1 /\ pod'.uid = pods + 1
    BY <1>4, MakesPod DEF NoPod
  <2> QED  BY <1>1, <1>2, <2>1, PodOnlyStep
<1> QED  BY <1>3, <1>4, Zenon

LEMMA RuntimeStep ==
    ASSUME TypeOK, TypeOK', NEW r \in Reconcilers, RecInv(r), LifeInv, WriteRuntime(r)
    PROVE  /\ EnvStep
           /\ UNCHANGED <<epoch, life, retired, pod, pods, run, oper, refs, execVars, req>>
           /\ life = NoLife /\ podUID' = rec[r].uid /\ podUID \in {0, podUID'} /\ podUID' # 0
<1>1. UNCHANGED <<epoch, life, retired, pod, pods, run, oper, refs, execVars, req>>
  BY Zenon DEF WriteRuntime, Writing, runVars, kubeVars
<1>2. /\ life = NoLife /\ podUID' = rec[r].uid /\ podUID' # 0 /\ podUID \in {0, podUID'}
  BY Zenon DEF WriteRuntime, Writing, Matches, RecInv
<1>3. podUID = podUID' => Top' = Top  BY <1>1, Zenon DEF Top
<1>4. podUID = 0 => Top = 0 /\ Top' = podUID'  BY <1>2, Zenon DEF Top, NoLife
<1>5. epoch \in Nat /\ Top \in Nat /\ pods \in Nat /\ podUID' \in Nat  BY Numbers, Zenon DEF TypeOK
<1>6. NoUse' = NoUse  BY <1>1, Zenon DEF NoUse
<1>7. life.phase = "none"  BY <1>2, Zenon DEF NoLife
<1> HIDE DEF Top, NoUse
<1>8. EnvStep  BY <1>1, <1>2, <1>3, <1>4, <1>5, <1>6, <1>7 DEF EnvStep
<1> QED  BY <1>1, <1>2, <1>8, Zenon

\* setLifecyclePhase, and the proof that goes with a phase.
LEMMA PhaseStep ==
    ASSUME TypeOK, NEW r \in Reconcilers, RecInv(r), LifeInv, WritePhase(r) \/ WriteProof(r)
    PROVE  /\ EnvStep
           /\ UNCHANGED <<epoch, podUID, ready, retired, pvc, pod, pods, run, oper, refs,
                          execVars, req>>
           /\ life'.pod = life.pod /\ life'.type = life.type /\ life # NoLife /\ life' # NoLife
           /\ \/ life.phase \in OverPod /\ life'.phase \in OverPod
              \/ life.phase = "DeletingPVC" /\ life'.phase = "ReleasingSlot"
<1>1. UNCHANGED <<epoch, podUID, ready, retired, pvc, pod, pods, run, oper, refs, execVars, req>>
  BY Zenon DEF WritePhase, WriteProof, Writing, runVars, kubeVars
<1>2. life \in Life  BY Zenon DEF TypeOK
<1>3. rec[r].life = life  BY Zenon DEF WritePhase, WriteProof, Matches
<1>4. \/ life.phase \in OverPod /\ \E ph \in OverPod : life' = [life EXCEPT !.phase = ph]
      \/ life.phase = "DeletingPVC" /\ life' = [life EXCEPT !.phase = "ReleasingSlot"]
  <2>1. CASE WriteProof(r)
    <3>1. life.phase \in OverPod  BY <1>3, <2>1, Zenon DEF WriteProof, Writing, RecInv
    <3> QED  BY <2>1, <3>1, Zenon DEF WriteProof, OverPod
  <2>2. CASE WritePhase(r)
    <3>1. PICK w \in {"waiting", "unfinalized", "release"} :
             Writing(r, w) /\ life' = [life EXCEPT !.phase = NextPhase[w]]
      BY <2>2, Zenon DEF WritePhase
    <3>2. CASE w = "release"
      <4>1. life.phase = "DeletingPVC"  BY <1>3, <3>1, <3>2, Zenon DEF Writing, RecInv
      <4> QED  BY <3>1, <3>2, <4>1, Zenon DEF NextPhase
    <3>3. CASE w # "release"
      <4>1. life.phase \in OverPod  BY <1>3, <3>1, <3>3, Zenon DEF Writing, RecInv
      <4>2. NextPhase[w] \in OverPod  BY <3>1, <3>3 DEF NextPhase, OverPod
      <4> QED  BY <3>1, <4>1, <4>2, Zenon
    <3> QED  BY <3>2, <3>3, Zenon
  <2> QED  BY <2>1, <2>2, Zenon
<1>5. /\ life'.pod = life.pod /\ life'.type = life.type
      /\ \/ life.phase \in OverPod /\ life'.phase \in OverPod
         \/ life.phase = "DeletingPVC" /\ life'.phase = "ReleasingSlot"
  BY <1>2, <1>4, Zenon DEF Life
<1>6. life # NoLife /\ life' # NoLife /\ life.phase # "CreatingReplacement"
  BY <1>5 DEF NoLife, OverPod
<1>7. Top' = Top  BY <1>1, <1>5, Zenon DEF Top
<1>8. epoch \in Nat /\ Top \in Nat /\ pods \in Nat  BY Numbers, Zenon
<1>9. NoUse' = NoUse  BY <1>1, Zenon DEF NoUse
<1> HIDE DEF Top, NoUse
<1>10. EnvStep  BY <1>1, <1>6, <1>7, <1>8, <1>9 DEF EnvStep
<1> QED  BY <1>1, <1>5, <1>6, <1>10, Zenon

LEMMA RetirementStep ==
    ASSUME TypeOK, NEW r \in Reconcilers, RecInv(r), LifeInv, FinishRetirement(r)
    PROVE  /\ EnvStep
           /\ UNCHANGED <<epoch, podUID, pvc, pod, pods, run, oper, refs, execVars, req>>
           /\ life' = NoLife /\ retired' /\ podUID # 0 /\ life.type = "retire" /\ NoUse
<1>1. /\ UNCHANGED <<epoch, podUID, pvc, pod, pods, run, oper, refs, execVars, req>>
      /\ life' = NoLife /\ retired'
  BY Zenon DEF FinishRetirement, Writing, runVars, kubeVars
<1>2. life.phase \in OverPod /\ life.type = "retire"
  BY Zenon DEF FinishRetirement, Writing, Matches, RecInv
<1>3. podUID # 0 /\ life # NoLife /\ life.phase # "CreatingReplacement"
  BY <1>2 DEF LifeInv, OverPod, NoLife
<1>4. Top' = Top  BY <1>1, <1>3, Zenon DEF Top
<1>5. epoch \in Nat /\ Top \in Nat /\ pods \in Nat  BY Numbers, Zenon
<1>6. NoUse /\ NoUse'  BY <1>1, <1>3, Zenon DEF NoUse, LifeInv
<1> HIDE DEF Top, NoUse
<1>7. EnvStep  BY <1>1, <1>3, <1>4, <1>5, <1>6 DEF EnvStep
<1> QED  BY <1>1, <1>2, <1>3, <1>6, <1>7, Zenon

LEMMA PrepareStep ==
    ASSUME TypeOK, NEW r \in Reconcilers, RecInv(r), LifeInv, PrepareReplacement(r)
    PROVE  /\ EnvStep
           /\ UNCHANGED <<epoch, ready, retired, pvc, pod, pods, run, oper, refs, execVars, req>>
           /\ podUID # 0 /\ podUID' = 0 /\ life.pod = podUID /\ life'.pod = life.pod
           /\ life'.type = life.type /\ life.type # "retire" /\ ~ready /\ NoUse
           /\ life'.phase = "CreatingReplacement" /\ life # NoLife
           /\ pod.uid # life.pod /\ life.phase \in OverPod
<1>1. /\ UNCHANGED <<epoch, ready, retired, pvc, pod, pods, run, oper, refs, execVars, req>>
      /\ podUID' = 0 /\ life' = [life EXCEPT !.phase = "CreatingReplacement"]
  BY Zenon DEF PrepareReplacement, Writing, runVars, kubeVars
<1>2. life.phase \in OverPod /\ life.type # "retire" /\ pod.uid # life.pod
  BY Zenon DEF PrepareReplacement, Writing, Matches, RecInv
<1>3. life.pod = podUID /\ podUID # 0 /\ ~ready  BY <1>2, Zenon DEF LifeInv
<1>4. life \in Life  BY Zenon DEF TypeOK
<1>5. life'.pod = life.pod /\ life'.type = life.type /\ life'.phase = "CreatingReplacement"
  BY <1>1, <1>4, Zenon DEF Life
<1>6. life # NoLife /\ life' # NoLife /\ life.phase # "CreatingReplacement"
  BY <1>2, <1>5 DEF OverPod, NoLife
<1>7. Top = podUID /\ Top' = podUID  BY <1>1, <1>3, <1>5, Zenon DEF Top
<1>8. epoch \in Nat /\ podUID \in Nat /\ pods \in Nat  BY Numbers, Zenon
<1>9. NoUse /\ NoUse'  BY <1>1, <1>6, Zenon DEF NoUse, LifeInv
<1> HIDE DEF Top, NoUse
<1>10. EnvStep  BY <1>1, <1>6, <1>7, <1>8, <1>9 DEF EnvStep
<1> QED  BY <1>1, <1>2, <1>3, <1>5, <1>6, <1>9, <1>10, Zenon

LEMMA ReplacementStep ==
    ASSUME TypeOK, TypeOK', NEW r \in Reconcilers, RecInv(r), LifeInv, FinishReplacement(r)
    PROVE  /\ EnvStep
           /\ UNCHANGED <<retired, pvc, pod, pods, run, oper, refs, execVars, req>>
           /\ epoch' = epoch + 1 /\ life' = NoLife /\ podUID = 0 /\ podUID' = rec[r].uid
           /\ podUID' # 0 /\ life.pod < podUID' /\ ~retired /\ NoUse /\ life.phase = "CreatingReplacement"
<1>1. /\ UNCHANGED <<retired, pvc, pod, pods, run, oper, refs, execVars, req>>
      /\ epoch' = epoch + 1 /\ life' = NoLife /\ podUID' = rec[r].uid
  BY Zenon DEF FinishReplacement, Writing, runVars, kubeVars
<1>2. life.phase = "CreatingReplacement" /\ podUID' # 0 /\ life.pod < podUID'
  BY <1>1, Zenon DEF FinishReplacement, Writing, Matches, RecInv
<1>3. podUID = 0  BY <1>2, Zenon DEF LifeInv
<1>4. ~retired /\ NoUse  BY <1>3, Zenon DEF LifeInv, NoUse
<1>5. Top = life.pod /\ Top' = podUID'  BY <1>2, <1>3, Zenon DEF Top
<1>6. epoch \in Nat /\ life.pod \in Nat /\ pods \in Nat /\ podUID' \in Nat
  BY Numbers, Zenon DEF TypeOK
<1>7. NoUse'  BY <1>1, <1>4, Zenon DEF NoUse
<1> HIDE DEF Top, NoUse
<1>8. EnvStep  BY <1>1, <1>2, <1>3, <1>4, <1>5, <1>6, <1>7 DEF EnvStep
<1> QED  BY <1>1, <1>2, <1>3, <1>4, <1>8, Zenon

LEMMA ReconcileStep ==
    ASSUME TypeOK, TypeOK', LifeInv, NEW r \in Reconcilers, RecInv(r),
           Get(r) \/ Reconcile(r) \/ Restart(r)
    PROVE  EnvStep
<1>1. CASE \/ Get(r) \/ ReconcileExpired(r) \/ AwaitTermination(r) \/ DeletePVC(r)
           \/ WriteFence(r) \/ WriteVanished(r) \/ WriteUnready(r) \/ Return(r) \/ Restart(r)
  <2>1. Calm /\ UNCHANGED <<run, oper>>  BY <1>1, ReconcileCalm, Zenon
  <2>2. NoUse => NoUse'  BY <2>1, Zenon DEF NoUse
  <2> QED  BY <2>1, <2>2, CalmStep, Zenon
<1>2. CASE Quiesce(r) \/ RemovePodFinalizer(r)  BY <1>2, PodDeletes, PodSameStep, Zenon
<1>3. CASE AwaitPodDeletion(r)  BY <1>3, AwaitDeletionStep, Zenon
<1>4. CASE CreateReplacement(r) \/ Provision(r)  BY <1>4, MakesPodStep, Zenon
<1>5. CASE WriteRuntime(r)  BY <1>5, RuntimeStep, Zenon
<1>6. CASE WritePhase(r) \/ WriteProof(r)  BY <1>6, PhaseStep, Zenon
<1>7. CASE FinishRetirement(r)  BY <1>7, RetirementStep, Zenon
<1>8. CASE PrepareReplacement(r)  BY <1>8, PrepareStep, Zenon
<1>9. CASE FinishReplacement(r)  BY <1>9, ReplacementStep, Zenon
<1> QED  BY <1>1, <1>2, <1>3, <1>4, <1>5, <1>6, <1>7, <1>8, <1>9, Zenon DEF Reconcile

LEMMA ReferenceCalm ==
    ASSUME NEW b \in Bindings, NEW m \in RefMoves, ReserveSuccessor(b) \/ MutateReference(b, m)
    PROVE  Calm /\ (NoUse => NoUse')
  BY Zenon DEF ReserveSuccessor, MutateReference, Calm, NoUse, statusVars, kubeVars

LEMMA ReserveCalm ==
    ASSUME NEW b \in Bindings, ReserveSuccessor(b)
    PROVE  Calm /\ (NoUse => NoUse')
  BY Zenon DEF ReserveSuccessor, Calm, NoUse, statusVars, kubeVars

LEMMA EndsCalm ==
    ASSUME NEW x \in alive, Ends(x)
    PROVE  Calm /\ (NoUse => NoUse')
  BY Zenon DEF Ends, Calm, NoUse, runVars, statusVars, kubeVars

LEMMA NextStep ==
    ASSUME ExecInv, TypeOK', Next, "vanish" \notin Faults
    PROVE  EnvStep
<1>0. TypeOK /\ LifeInv /\ UidInv  BY Zenon DEF ExecInv
<1>1. CASE \E c \in Calls : CallStep(c)  BY <1>0, <1>1, CallStepCalm, CalmStep, Zenon
<1>2. CASE \E x \in alive : Ends(x)  BY <1>0, <1>2, EndsCalm, CalmStep, Zenon
<1>3. CASE \E b \in Bindings : AcquireRun(b)  BY <1>0, <1>3, AcquireStep, Zenon
<1>4. CASE \E b \in Bindings : ReserveSuccessor(b)  BY <1>0, <1>4, ReserveCalm, CalmStep, Zenon
<1>5. CASE \E b \in Bindings : \E m \in RefMoves : MutateReference(b, m)
  BY <1>0, <1>5, ReferenceCalm, CalmStep, Zenon
<1>6. CASE RenewRun \/ ReleaseRun \/ RevokeEnvironment \/ Tick
  BY <1>0, <1>6, RunStepCalm, CalmStep, Zenon
<1>7. ASSUME NEW q \in Requests, RequestStep(q) PROVE EnvStep
  <2>1. ReqInv(q)  BY Zenon DEF ExecInv
  <2>2. CASE StartLifecycle(q)  BY <1>0, <2>1, <2>2, StartStep, Zenon
  <2>3. CASE DeleteRetiredEnvironment(q)  BY <1>0, <2>3, DeleteStep, Zenon
  <2>4. CASE \/ Request(q) \/ ObserveTerminal(q) \/ PersistProof(q) \/ VerifyTerminal(q) \/ Recover(q)
    BY <1>0, <2>4, RequestStepCalm, CalmStep, Zenon
  <2> QED  BY <1>7, <2>2, <2>3, <2>4, Zenon DEF RequestStep
<1>8. ASSUME NEW r \in Reconcilers, Get(r) \/ Reconcile(r) \/ Restart(r) PROVE EnvStep
  <2>1. RecInv(r)  BY Zenon DEF ExecInv
  <2> QED  BY <1>0, <1>8, <2>1, ReconcileStep, Zenon
<1>9. CASE PodStarts \/ PodTerminates \/ PodEvicted  BY <1>0, <1>9, PodMoves, PodSameStep, Zenon
<1>10. CASE PodRemoved  BY <1>0, <1>10, RemovedStep, Zenon
<1>11. ~PodVanishes  BY Zenon DEF PodVanishes
<1> QED
  BY <1>1, <1>2, <1>3, <1>4, <1>5, <1>6, <1>7, <1>8, <1>9, <1>10, <1>11, Zenon DEF Next, Kubelet

(***************************************************************************)
(* CallInv.                                                                *)
(***************************************************************************)
\* No operation recorded: the workspace is quiet.
LEMMA Quiet ==
    ASSUME TypeOK, CallInv, oper = NoOper
    PROVE  alive = {}
  BY NamesAssumption, Zenon DEF TypeOK, CallInv, AliveIsRecorded, NoOper

LEMMA CallFrame ==
    ASSUME CallInv, UNCHANGED <<call, posted>>, alive' \subseteq alive,
           alive # {} => oper'.id = oper.id
    PROVE  CallInv'
<1>1. OneWriter' /\ AliveIsRecorded'  BY Zenon DEF CallInv, OneWriter, AliveIsRecorded
<1> QED  BY <1>1, Zenon DEF CallInv

\* A call changes its own record only; what may have been said of it before, may be
\* said of it afterwards.
LEMMA StageInv ==
    ASSUME TypeOK, CallInv, NEW c \in Calls, Stage(c, "answered") \/ Over(c),
           UNCHANGED <<posted, alive>>, alive # {} => oper'.id = oper.id
    PROVE  CallInv'
<1>1. OneWriter' /\ AliveIsRecorded'  BY Zenon DEF CallInv, OneWriter, AliveIsRecorded
<1>2. \A d \in Calls \ {c} : call'[d] = call[d]  BY CallStages, CallOver, Zenon
<1>3. call[c] \in Call  BY Zenon DEF TypeOK
<1>4. call'[c].stage \in {"answered", "over"} /\ (call'[c].terminal => call[c].terminal)
  <2>1. CASE Stage(c, "answered")
    <3>1. call'[c] = [call[c] EXCEPT !.stage = "answered"]  BY <2>1, CallStages, Zenon
    <3> QED  BY <1>3, <3>1, Zenon DEF Call
  <2>2. CASE Over(c)  BY <2>2, CallOver, Zenon
  <2> QED  BY <2>1, <2>2, Zenon
<1>5. \A d \in Calls : call[d].stage \in Sent /\ ~call[d].terminal =>
                        call'[d].stage \in Sent /\ ~call'[d].terminal
  BY <1>2, <1>4, Zenon DEF Sent
<1>6. posted \subseteq Calls /\ \A x \in alive : x.call \in Calls  BY Zenon DEF TypeOK
<1>7. \A d \in Calls : call'[d].terminal => call'[d].stage \in {"answered", "over"}
  BY <1>2, <1>4, Zenon DEF CallInv
<1> QED  BY <1>1, <1>5, <1>6, <1>7, Zenon DEF CallInv

LEMMA CallStepInv ==
    ASSUME TypeOK, CallInv, Prompt, NEW c \in Calls, CallStep(c)
    PROVE  CallInv'
<1>0. posted \subseteq Calls /\ (\A x \in alive : x.call \in Calls) /\ call[c] \in Call
  BY Zenon DEF TypeOK
<1>1. CASE ClaimOperation(c)
  <2>1. alive = {} /\ alive' = alive /\ posted' = posted /\ call[c].stage = "new"
    BY <1>1, Quiet, Zenon DEF ClaimOperation
  <2>2. c \notin posted  BY <2>1, Zenon DEF CallInv, Sent
  <2>3. \A d \in Calls \ {c} : call'[d] = call[d]  BY <1>1, Zenon DEF ClaimOperation, TypeOK
  <2>4. \A d \in posted' : call'[d].stage \in Sent /\ ~call'[d].terminal
    BY <1>0, <2>1, <2>2, <2>3, Zenon DEF CallInv
  <2>5. ~call'[c].terminal  BY <1>1, Zenon DEF ClaimOperation, TypeOK
  <2>6. \A d \in Calls : call'[d].terminal => call'[d].stage \in {"answered", "over"}
    BY <2>3, <2>5, Zenon DEF CallInv
  <2> QED  BY <2>1, <2>4, <2>6, Zenon DEF CallInv, OneWriter, AliveIsRecorded
<1>2. CASE Dispatch(c)
  <2>1. alive' = alive /\ oper' = oper /\ call[c].stage = "claimed"  BY <1>2, Zenon DEF Dispatch
  <2>2. c \notin posted /\ \A x \in alive : x.call # c  BY <2>1, Zenon DEF CallInv, Sent
  <2>3. CASE Over(c) /\ posted' = posted
    BY <1>2, <2>1, <2>3, StageInv, Zenon DEF Dispatch
  <2>4. CASE Stage(c, "posted") /\ posted' = posted \cup {c}
    <3>1. call'[c] = [call[c] EXCEPT !.stage = "posted"] /\ \A d \in Calls \ {c} : call'[d] = call[d]
      BY <2>4, CallStages, Zenon
    <3>2. call'[c].stage \in Sent /\ call'[c].terminal = call[c].terminal
      BY <1>0, <3>1, Zenon DEF Call, Sent
    <3>3. ~call[c].terminal  BY <2>1, Zenon DEF CallInv
    <3> QED  BY <1>0, <2>1, <2>2, <2>4, <3>1, <3>2, <3>3, Zenon
             DEF CallInv, OneWriter, AliveIsRecorded
  <2> QED  BY <1>2, <2>3, <2>4, Zenon DEF Dispatch
<1>3. CASE Land(c)
  <2>1. c \in posted /\ oper.id = c /\ oper' = oper /\ call' = call /\ posted' = posted \ {c}
    BY <1>3, Zenon DEF Land
  <2>2. alive = {}  BY <2>1, Zenon DEF CallInv, AliveIsRecorded
  <2>3. \A x \in alive' : x = [call |-> c, pod |-> pod.uid]  BY <1>3, <2>2, Zenon DEF Land
  <2>4. \A x \in alive' : x.call = c  BY <2>3
  <2>5. OneWriter' /\ AliveIsRecorded'  BY <2>1, <2>3, <2>4, Zenon DEF OneWriter, AliveIsRecorded
  <2> QED  BY <2>1, <2>4, <2>5, Zenon DEF CallInv
<1>4. CASE StreamFails(c)  BY <1>4, StageInv, Zenon DEF StreamFails
<1>5. CASE RenewOperation(c)
  <2>1. UNCHANGED <<posted, alive>>  BY <1>5, Zenon DEF RenewOperation
  <2>2. CASE LeaseCurrent(c) /\ AuthorityCurrent(c)
    <3>1. oper \in Oper  BY Zenon DEF TypeOK
    <3>2. call' = call /\ oper'.id = oper.id  BY <1>5, <2>2, <3>1, Zenon DEF RenewOperation, Oper
    <3> QED  BY <2>1, <3>2, CallFrame, Zenon
  <2>3. CASE ~(LeaseCurrent(c) /\ AuthorityCurrent(c))
    BY <1>5, <2>1, <2>3, StageInv, Zenon DEF RenewOperation
  <2> QED  BY <2>2, <2>3, Zenon
<1>6. CASE FinishOperation(c)
  <2>1. UNCHANGED <<posted, alive>> /\ Over(c)  BY <1>6, Zenon DEF FinishOperation
  <2>2. alive # {} => oper'.id = oper.id
    <3>1. CASE oper.id = c /\ Clears(c)
      <4>1. call[c].terminal  BY <3>1, Zenon DEF Clears
      <4>2. alive = {}  BY <3>1, <4>1, Zenon DEF CallInv, AliveIsRecorded
      <4> QED  BY <4>2, Zenon
    <3>2. CASE ~(oper.id = c /\ Clears(c))  BY <1>6, <3>2, Zenon DEF FinishOperation
    <3> QED  BY <3>1, <3>2, Zenon
  <2> QED  BY <2>1, <2>2, StageInv, Zenon
<1>7. CASE Die(c)  BY <1>7, StageInv, Zenon DEF Die
<1> QED  BY <1>1, <1>2, <1>3, <1>4, <1>5, <1>6, <1>7, Zenon DEF CallStep

LEMMA EndsInv ==
    ASSUME TypeOK, CallInv, NEW x \in alive, Ends(x)
    PROVE  CallInv'
<1>1. alive' = {}  BY Zenon DEF CallInv, OneWriter, Ends
<1>2. posted' = posted /\ x.call \notin posted /\ posted \subseteq Calls
  BY Zenon DEF Ends, CallInv, TypeOK
<1>3. \A d \in Calls \ {x.call} : call'[d] = call[d]  BY EndsCall, Zenon
<1>4. call[x.call] \in Call  BY Zenon DEF TypeOK
<1>5. \/ call'[x.call] = call[x.call]
      \/ call'[x.call].stage = "answered"
  BY <1>4, EndsCall, Zenon DEF Call
<1>6. \A d \in Calls : call'[d].terminal => call'[d].stage \in {"answered", "over"}
  BY <1>3, <1>5, Zenon DEF CallInv
<1> QED  BY <1>1, <1>2, <1>3, <1>6, Zenon DEF CallInv, OneWriter, AliveIsRecorded

\* Recovery finds the workspace quiet: the recorded Pod is the one every operation of
\* the environment ran in, and it has terminated.
LEMMA RecoverQuiet ==
    ASSUME TypeOK, CallInv, UidInv, NEW q \in Requests, ReqInv(q),
           req[q].stage = "verified", ExactSubject(q)
    PROVE  alive = {} /\ (pod.uid = podUID => pod.phase = "terminal")
<1>1. pod.uid = podUID => pod.phase = "terminal"  BY Zenon DEF ReqInv
<1>2. CASE pod.uid = podUID
  <2>1. podUID # 0  BY Zenon DEF ReqInv, ExactSubject
  <2>2. podUID \in Nat /\ \A x \in alive : x.pod \in Nat  BY Zenon DEF TypeOK
  <2>3. \A x \in alive : x.pod = pod.uid  BY <1>2, <2>1, <2>2 DEF UidInv
  <2>4. \A x \in alive : pod.phase = "running"  BY <1>2, <2>1, <2>3, Zenon DEF UidInv
  <2> QED  BY <1>1, <1>2, <2>4, Zenon
<1>3. CASE pod.uid # podUID
  <2>1. oper = NoOper  BY <1>3, Zenon DEF ReqInv
  <2> QED  BY <1>1, <2>1, Quiet, Zenon
<1> QED  BY <1>2, <1>3, Zenon

LEMMA RecoverInv ==
    ASSUME TypeOK, CallInv, UidInv, NEW q \in Requests, ReqInv(q), Recover(q)
    PROVE  CallInv'
<1>1. UNCHANGED <<call, posted, alive>>  BY Zenon DEF Recover, execVars
<1>2. CASE ExactSubject(q)
  <2>1. alive = {}  BY <1>2, RecoverQuiet, Zenon DEF Recover
  <2> QED  BY <1>1, <2>1, CallFrame, Zenon
<1>3. CASE ~ExactSubject(q)  BY <1>1, <1>3, CallFrame, Zenon DEF Recover
<1> QED  BY <1>2, <1>3, Zenon

LEMMA NextCalls ==
    ASSUME ExecInv, Next, Prompt
    PROVE  CallInv'
<1>0. TypeOK /\ CallInv /\ UidInv  BY Zenon DEF ExecInv
<1>1. CASE \E c \in Calls : CallStep(c)  BY <1>0, <1>1, CallStepInv, Zenon
<1>2. CASE \E x \in alive : Ends(x)  BY <1>0, <1>2, EndsInv, Zenon
<1>3. CASE \E b \in Bindings : AcquireRun(b)
  BY <1>0, <1>3, CallFrame, Zenon DEF AcquireRun, execVars
<1>4. CASE \E b \in Bindings : ReserveSuccessor(b)
  BY <1>0, <1>4, CallFrame, Zenon DEF ReserveSuccessor, execVars
<1>5. CASE \E b \in Bindings : \E m \in RefMoves : MutateReference(b, m)
  BY <1>0, <1>5, CallFrame, Zenon DEF MutateReference, execVars
<1>6. CASE RenewRun \/ ReleaseRun \/ RevokeEnvironment \/ Tick
  <2>1. UNCHANGED <<call, posted, alive>>
    BY <1>6, Zenon DEF RenewRun, ReleaseRun, RevokeEnvironment, Tick, execVars
  <2>2. oper \in Oper  BY <1>0, Zenon DEF TypeOK
  <2>3. oper'.id = oper.id
    BY <1>6, <2>2, Zenon DEF RenewRun, ReleaseRun, RevokeEnvironment, Tick, Oper
  <2> QED  BY <1>0, <2>1, <2>3, CallFrame, Zenon
<1>7. ASSUME NEW q \in Requests, RequestStep(q) PROVE CallInv'
  <2>1. ReqInv(q)  BY Zenon DEF ExecInv
  <2>2. CASE Recover(q)  BY <1>0, <2>1, <2>2, RecoverInv, Zenon
  <2>3. CASE ~Recover(q)
    <3>1. UNCHANGED <<call, posted, alive, oper>>
      BY <1>7, <2>3, Zenon DEF RequestStep, Request, ObserveTerminal, PersistProof, StartLifecycle,
         VerifyTerminal, DeleteRetiredEnvironment, execVars
    <3> QED  BY <1>0, <3>1, CallFrame, Zenon
  <2> QED  BY <2>2, <2>3, Zenon
<1>8. ASSUME NEW r \in Reconcilers, Get(r) \/ Reconcile(r) \/ Restart(r) PROVE CallInv'
  <2>1. UNCHANGED <<call, posted, alive, oper>>
    BY <1>8, ReconcileFrame, Zenon DEF execVars
  <2> QED  BY <1>0, <2>1, CallFrame, Zenon
<1>9. CASE Kubelet \/ PodEvicted \/ PodVanishes
  <2>1. UNCHANGED <<call, posted, oper>> /\ alive' \subseteq alive
    BY <1>9, Zenon DEF Kubelet, PodStarts, PodTerminates, PodRemoved, PodEvicted, PodVanishes,
       execVars
  <2> QED  BY <1>0, <2>1, CallFrame, Zenon
<1> QED  BY <1>1, <1>2, <1>3, <1>4, <1>5, <1>6, <1>7, <1>8, <1>9, Zenon DEF Next

(***************************************************************************)
(* UidInv.                                                                 *)
(***************************************************************************)
LEMMA AliveNumbers ==
    ASSUME TypeOK
    PROVE  \A x \in alive : x.pod \in Nat
  BY Zenon DEF TypeOK

LEMMA UidFrame ==
    ASSUME UidInv, UNCHANGED <<pod, pods, podUID, life, retired>>, alive' \subseteq alive
    PROVE  UidInv'
<1>1. Top' = Top  BY Zenon DEF Top
<1> HIDE DEF Top
<1> QED  BY <1>1, Zenon DEF UidInv

\* Only the lifecycle operation changes.
LEMMA UidLife ==
    ASSUME UidInv, UNCHANGED <<pod, pods, podUID, alive>>, Top' = Top, life'.pod <= Top,
           retired => retired', life' # NoLife \/ retired'
    PROVE  UidInv'
<1> HIDE DEF Top
<1> QED  BY Zenon DEF UidInv

\* Only the Pod changes, and keeps its identity, goes, or is new.
LEMMA UidPod ==
    ASSUME TypeOK, TypeOK', UidInv, PodOnly, alive' \subseteq alive, pods <= pods',
           pod'.uid = 0 => pod' = NoPod,
           \/ pod'.uid = 0
           \/ /\ pod'.uid = pod.uid
              /\ \/ pod'.fin
                 \/ ~pod.fin
                 \/ /\ pod.uid <= Top
                    /\ pod.uid = podUID => life # NoLife \/ retired
              /\ \A x \in alive' : x.pod = pod.uid /\ pod.phase = "running" => pod'.phase = "running"
           \/ pods < pod'.uid /\ pod'.uid <= pods' /\ pod'.fin
    PROVE  UidInv'
<1>1. Top' = Top  BY Zenon DEF PodOnly, Top
<1>2. /\ podUID \in Nat /\ pods \in Nat /\ pod.uid \in Nat /\ Top \in Nat /\ life.pod \in Nat
      /\ pods' \in Nat /\ pod'.uid \in Nat
  BY Numbers, Zenon DEF TypeOK, Pod
<1>3. \A x \in alive : x.pod \in Nat  BY AliveNumbers, Zenon
<1> HIDE DEF Top
<1>4. pod'.uid <= pods' /\ Top <= pods' /\ life.pod <= Top  BY <1>2 DEF UidInv
<1>5. pod'.uid # 0 => Top <= pod'.uid /\ (podUID = 0 => Top < pod'.uid)  BY <1>2 DEF UidInv
<1>6. pod'.uid # 0 /\ ~pod'.fin => pod'.uid <= Top /\ (pod'.uid = podUID => life # NoLife \/ retired)
  BY <1>2, Zenon DEF UidInv
<1>7. \A x \in alive' : /\ podUID <= x.pod /\ x.pod <= pods'
                        /\ pod'.uid # 0 => x.pod <= pod'.uid
                        /\ pod'.uid # 0 /\ x.pod = pod'.uid => pod'.phase = "running"
  BY <1>2, <1>3 DEF UidInv
<1> QED  BY <1>1, <1>4, <1>5, <1>6, <1>7, Zenon DEF UidInv, PodOnly

LEMMA LandUid ==
    ASSUME TypeOK, UidInv, NEW c \in Calls, Land(c)
    PROVE  UidInv'
<1>1. UNCHANGED <<pod, pods, podUID, life, retired>>  BY Zenon DEF Land, statusVars, kubeVars
<1>2. CASE pod.phase # "running"
  BY <1>1, <1>2, UidFrame, Zenon DEF Land
<1>3. CASE pod.phase = "running"
  <2>1. pod.uid # 0  BY <1>3 DEF UidInv, NoPod
  <2>2. podUID <= pod.uid /\ pod.uid <= pods /\ pod.uid \in Nat
    <3>1. podUID \in Nat /\ pod.uid \in Nat  BY Numbers, Zenon
    <3>2. podUID # 0 => Top = podUID  BY Zenon DEF Top
    <3> HIDE DEF Top
    <3> QED  BY <2>1, <3>1, <3>2 DEF UidInv
  <2>3. \A x \in alive' : x \in alive \/ x.pod = pod.uid  BY <1>3 DEF Land
  <2>4. Top' = Top  BY <1>1, Zenon DEF Top
  <2> HIDE DEF Top
  <2> QED  BY <1>1, <1>3, <2>2, <2>3, <2>4 DEF UidInv
<1> QED  BY <1>2, <1>3, Zenon

LEMMA StartUid ==
    ASSUME TypeOK, UidInv, NEW q \in Requests, ReqInv(q), StartLifecycle(q)
    PROVE  UidInv'
<1>1. UNCHANGED <<podUID, retired, pod, pods, alive>>
  BY Zenon DEF StartLifecycle, kubeVars, execVars
<1>2. CASE Admissible(q)
  <2>1. req[q].kind # "none" /\ req[q].pod = podUID
    BY <1>2, Zenon DEF StartLifecycle, ReqInv, Admissible, ExactSubject
  <2>2. podUID # 0  BY <2>1, Zenon DEF ReqInv
  <2>3. Top' = podUID /\ Top = podUID  BY <1>1, <2>2, Zenon DEF Top
  <2>4. life'.pod = podUID /\ life' # NoLife  BY <1>2, <2>1 DEF StartLifecycle, NoLife
  <2>5. podUID \in Nat  BY Numbers, Zenon
  <2> HIDE DEF Top
  <2> QED  BY <1>1, <2>3, <2>4, <2>5, UidLife
<1>3. CASE ~Admissible(q)  BY <1>1, <1>3, UidFrame, Zenon DEF StartLifecycle
<1> QED  BY <1>2, <1>3, Zenon

LEMMA DeleteUid ==
    ASSUME TypeOK, UidInv, LifeInv, NEW q \in Requests, DeleteRetiredEnvironment(q)
    PROVE  UidInv'
<1>1. UNCHANGED <<podUID, retired, pod, pods, alive>> /\ retired /\ life'.pod = 0
  BY Zenon DEF DeleteRetiredEnvironment, kubeVars, execVars
<1>2. podUID # 0  BY <1>1, Zenon DEF LifeInv
<1>3. Top' = Top /\ Top \in Nat  BY <1>1, <1>2, Numbers, Zenon DEF Top
<1> HIDE DEF Top
<1> QED  BY <1>1, <1>3, UidLife

LEMMA RuntimeUid ==
    ASSUME TypeOK, TypeOK', CallInv, UidInv, LifeInv, NEW r \in Reconcilers, RecInv(r),
    WriteRuntime(r)
    PROVE  UidInv'
<1>1. /\ UNCHANGED <<epoch, life, retired, pod, pods, execVars>>
      /\ life = NoLife /\ podUID' = rec[r].uid /\ podUID \in {0, podUID'} /\ podUID' # 0
  BY RuntimeStep, Zenon
<1>2. alive' = alive  BY <1>1, Zenon DEF execVars
<1>3. CASE podUID = podUID'  BY <1>1, <1>2, <1>3, UidFrame, Zenon
<1>4. CASE podUID = 0
  <2>1. alive = {}  BY <1>4, Quiet, Zenon DEF LifeInv
  <2>2. life.pod = 0 /\ Top = 0 /\ Top' = podUID'  BY <1>1, <1>4, Zenon DEF Top, NoLife
  <2>3. pod.uid \in Nat /\ podUID' \in Nat /\ pods \in Nat  BY Numbers, Zenon DEF TypeOK
  <2>4. podUID' <= pods /\ (pod.uid # 0 => podUID' <= pod.uid)  BY <1>1, Zenon DEF RecInv
  <2>5. pod.uid # 0 => pod.fin  BY <2>2, <2>3 DEF UidInv
  <2> HIDE DEF Top
  <2> QED  BY <1>1, <1>2, <2>1, <2>2, <2>3, <2>4, <2>5 DEF UidInv
<1> QED  BY <1>1, <1>3, <1>4, Zenon

LEMMA PhaseUid ==
    ASSUME TypeOK, UidInv, LifeInv, NEW r \in Reconcilers, RecInv(r), WritePhase(r) \/ WriteProof(r)
    PROVE  UidInv'
<1>1. /\ UNCHANGED <<podUID, retired, pod, pods, execVars>>
      /\ life'.pod = life.pod /\ life' # NoLife
  BY PhaseStep, Zenon
<1>2. Top' = Top  BY <1>1, Zenon DEF Top
<1>3. alive' = alive  BY <1>1, Zenon DEF execVars
<1> HIDE DEF Top
<1>4. life'.pod <= Top  BY <1>1, Zenon DEF UidInv
<1> QED  BY <1>1, <1>2, <1>3, <1>4, UidLife, Zenon

LEMMA RetirementUid ==
    ASSUME TypeOK, UidInv, LifeInv, NEW r \in Reconcilers, RecInv(r), FinishRetirement(r)
    PROVE  UidInv'
<1>1. /\ UNCHANGED <<podUID, pod, pods, execVars>> /\ life' = NoLife /\ retired' /\ podUID # 0
  BY RetirementStep, Zenon
<1>2. Top' = Top /\ Top \in Nat /\ life'.pod = 0  BY <1>1, Numbers, Zenon DEF Top, NoLife
<1>3. alive' = alive  BY <1>1, Zenon DEF execVars
<1> HIDE DEF Top
<1> QED  BY <1>1, <1>2, <1>3, UidLife

LEMMA PrepareUid ==
    ASSUME TypeOK, CallInv, UidInv, LifeInv, NEW r \in Reconcilers, RecInv(r), PrepareReplacement(r)
    PROVE  UidInv'
<1>1. /\ UNCHANGED <<retired, pod, pods, execVars>> /\ podUID # 0 /\ podUID' = 0
      /\ life.pod = podUID /\ life'.pod = life.pod /\ NoUse /\ pod.uid # life.pod
  BY PrepareStep, Zenon
<1>2. alive' = {}  BY <1>1, Quiet, Zenon DEF NoUse, execVars
<1>3. Top = podUID /\ Top' = podUID  BY <1>1, Zenon DEF Top
<1>4. podUID \in Nat /\ pod.uid \in Nat /\ pods \in Nat  BY Numbers, Zenon
<1> HIDE DEF Top
<1> QED  BY <1>1, <1>2, <1>3, <1>4 DEF UidInv

LEMMA ReplacementUid ==
    ASSUME TypeOK, TypeOK', CallInv, UidInv, LifeInv, NEW r \in Reconcilers, RecInv(r),
           FinishReplacement(r)
    PROVE  UidInv'
<1>1. /\ UNCHANGED <<retired, pod, pods, execVars>> /\ podUID = 0 /\ podUID' = rec[r].uid
      /\ podUID' # 0 /\ life' = NoLife /\ life.pod < podUID' /\ NoUse
  BY ReplacementStep, Zenon
<1>2. alive' = {}  BY <1>1, Quiet, Zenon DEF NoUse, execVars
<1>3. Top = life.pod /\ Top' = podUID' /\ life'.pod = 0  BY <1>1, Zenon DEF Top, NoLife
<1>4. life.pod \in Nat /\ pod.uid \in Nat /\ pods \in Nat /\ podUID' \in Nat
  BY Numbers, Zenon DEF TypeOK
<1>5. podUID' <= pods /\ (pod.uid # 0 => podUID' <= pod.uid)  BY <1>1, Zenon DEF RecInv
<1> HIDE DEF Top
<1>6. pod.uid # 0 => pod.fin  BY <1>1, <1>3, <1>4 DEF UidInv
<1> QED  BY <1>1, <1>2, <1>3, <1>4, <1>5, <1>6 DEF UidInv

LEMMA QuiesceUid ==
    ASSUME TypeOK, TypeOK', UidInv, NEW r \in Reconcilers, RecInv(r), Quiesce(r)
    PROVE  UidInv'
<1>1. PodSame  BY PodDeletes, Zenon
<1>2. pod \in Pod /\ pods \in Nat  BY Zenon DEF TypeOK
<1>3. alive' = alive  BY Zenon DEF Quiesce, execVars
<1>4. pod'.fin = pod.fin /\ pod'.phase = pod.phase  BY <1>2, Zenon DEF Quiesce, Pod
<1>5. pod'.uid = 0 => pod' = NoPod
  <2>1. rec[r].life.pod # 0  BY Zenon DEF Quiesce, InPhase, RecInv, OverPod
  <2> QED  BY <1>1, <2>1, Zenon DEF Quiesce, PodSame, UidInv
<1> HIDE DEF Top
<1> QED  BY <1>1, <1>2, <1>3, <1>4, <1>5, UidPod DEF PodSame

LEMMA FinalizerUid ==
    ASSUME TypeOK, TypeOK', UidInv, NEW r \in Reconcilers, RecInv(r), RemovePodFinalizer(r)
    PROVE  UidInv'
<1>1. PodSame  BY PodDeletes, Zenon
<1>2. pod \in Pod /\ pods \in Nat  BY Zenon DEF TypeOK
<1>3. alive' = alive  BY Zenon DEF RemovePodFinalizer, execVars
<1>4. pod'.phase = pod.phase  BY <1>2, Zenon DEF RemovePodFinalizer, Unfinalized, Pod
<1>5. rec[r].life.phase \in OverPod  BY Zenon DEF RemovePodFinalizer, InPhase, OverPod
<1>6. CASE pod' = pod  BY <1>1, <1>2, <1>3, <1>6, UidFrame, Zenon DEF PodSame, PodOnly
<1>7. CASE pod' # pod
  <2>1. pod' = Unfinalized /\ (pod = NoPod \/ pod.uid = rec[r].life.pod)
    BY <1>7, Zenon DEF RemovePodFinalizer
  <2>2. CASE pod = NoPod
    <3>1. pod.fin = FALSE  BY <2>2, Zenon DEF NoPod
    <3>2. Unfinalized = pod  BY <1>2, <3>1, Zenon DEF Unfinalized, Pod
    <3> QED  BY <1>7, <2>1, <3>2, Zenon
  <2>3. CASE pod.uid = rec[r].life.pod
    <3>1. pod.uid # 0  BY <1>5, <2>3, Zenon DEF RecInv
    <3>2. pod.uid <= Top /\ (pod.uid = podUID => life # NoLife \/ retired)
      BY <1>5, <2>3, Zenon DEF RecInv
    <3> HIDE DEF Top
    <3> QED  BY <1>1, <1>2, <1>3, <1>4, <3>1, <3>2, UidPod DEF PodSame
  <2> QED  BY <2>1, <2>2, <2>3, Zenon
<1> QED  BY <1>6, <1>7, Zenon

LEMMA MovesUid ==
    ASSUME TypeOK, TypeOK', UidInv, PodStarts \/ PodTerminates \/ PodEvicted
    PROVE  UidInv'
<1>1. PodSame  BY PodMoves, Zenon
<1>2. pod \in Pod /\ pods \in Nat  BY Zenon DEF TypeOK
<1>3. pod'.fin = pod.fin  BY <1>2, Zenon DEF PodStarts, PodTerminates, PodEvicted, Pod
<1>4. pod.uid # 0
  BY DEF PodStarts, PodTerminates, PodEvicted, UidInv, NoPod
<1>5. /\ alive' \subseteq alive
      /\ \A x \in alive' : x.pod = pod.uid /\ pod.phase = "running" => pod'.phase = "running"
  <2>1. CASE PodStarts  BY <1>2, <2>1, Zenon DEF PodStarts, execVars, Pod
  <2>2. CASE PodTerminates  BY <2>2, Zenon DEF PodTerminates
  <2>3. CASE PodEvicted  BY <1>2, <2>3, Zenon DEF PodEvicted, execVars, Pod
  <2> QED  BY <2>1, <2>2, <2>3, Zenon
<1> HIDE DEF Top
<1> QED  BY <1>1, <1>2, <1>3, <1>4, <1>5, UidPod DEF PodSame

LEMMA RemovedUid ==
    ASSUME TypeOK, TypeOK', UidInv, PodRemoved
    PROVE  UidInv'
<1>1. PodOnly /\ pods' = pods /\ pod' = NoPod /\ alive' = alive
  BY Zenon DEF PodRemoved, PodOnly, runVars, statusVars, execVars
<1>2. pod'.uid = 0 /\ pods \in Nat  BY <1>1, Zenon DEF NoPod, TypeOK
<1> HIDE DEF Top
<1> QED  BY <1>1, <1>2, UidPod

LEMMA DeletionUid ==
    ASSUME TypeOK, TypeOK', UidInv, NEW r \in Reconcilers, RecInv(r), AwaitPodDeletion(r)
    PROVE  UidInv'
<1>1. /\ PodOnly /\ pods' = pods
      /\ pod'.uid = pod.uid => pod'.phase = pod.phase /\ pod'.fin = pod.fin
      /\ pod'.uid \in {0, pod.uid} /\ (pod'.uid # pod.uid => pod' = NoPod)
  BY AwaitDeletionPod, Zenon
<1>2. alive' = alive /\ pods \in Nat  BY Zenon DEF AwaitPodDeletion, execVars, TypeOK
<1>3. pod'.uid = 0 => pod' = NoPod
  <2>1. CASE pod'.uid # pod.uid  BY <1>1, <2>1, Zenon
  <2>2. CASE pod'.uid = pod.uid  BY <2>2, Zenon DEF UidInv, AwaitPodDeletion
  <2> QED  BY <2>1, <2>2, Zenon
<1> HIDE DEF Top
<1>4. CASE pod'.uid = 0  BY <1>1, <1>2, <1>3, <1>4, UidPod
<1>5. CASE pod'.uid # 0  BY <1>1, <1>2, <1>5, UidPod
<1> QED  BY <1>4, <1>5, Zenon

LEMMA MakesUid ==
    ASSUME TypeOK, TypeOK', UidInv, NEW r \in Reconcilers, CreateReplacement(r) \/ Provision(r)
    PROVE  UidInv'
<1>1. PodOnly  BY MakesPod, Zenon
<1>2. alive' = alive /\ pods \in Nat  BY Zenon DEF CreateReplacement, Provision, execVars, TypeOK
<1>3. CASE UNCHANGED <<pod, pods>>  BY <1>1, <1>2, <1>3, UidFrame, Zenon DEF PodOnly
<1>4. CASE ~UNCHANGED <<pod, pods>>
  <2>1. pods' = pods + 1 /\ pod'.uid = pods + 1 /\ pod'.fin  BY <1>4, MakesPod
  <2> HIDE DEF Top
  <2> QED  BY <1>1, <1>2, <2>1, UidPod
<1> QED  BY <1>3, <1>4, Zenon

LEMMA CallStepUid ==
    ASSUME TypeOK, UidInv, NEW c \in Calls, CallStep(c)
    PROVE  UidInv'
<1>1. CASE Land(c)  BY <1>1, LandUid, Zenon
<1>2. CASE ~Land(c)
  <2>1. Calm  BY CallStepCalm, Zenon
  <2>2. alive' = alive
    BY <1>2, Zenon DEF CallStep, ClaimOperation, Dispatch, StreamFails, RenewOperation,
       FinishOperation, Die
  <2> QED  BY <2>1, <2>2, UidFrame, Zenon DEF Calm
<1> QED  BY <1>1, <1>2, Zenon

LEMMA NextUid ==
    ASSUME ExecInv, TypeOK', Next, "vanish" \notin Faults
    PROVE  UidInv'
<1>0. TypeOK /\ CallInv /\ LifeInv /\ UidInv  BY Zenon DEF ExecInv
<1>1. CASE \E c \in Calls : CallStep(c)  BY <1>0, <1>1, CallStepUid, Zenon
<1>2. ASSUME NEW x \in alive, Ends(x) PROVE UidInv'
  <2>1. Calm /\ alive' \subseteq alive  BY <1>2, EndsCalm, Zenon DEF Ends
  <2> QED  BY <1>0, <2>1, UidFrame, Zenon DEF Calm
<1>3. ASSUME NEW b \in Bindings, AcquireRun(b) PROVE UidInv'
  BY <1>0, <1>3, UidFrame, Zenon DEF AcquireRun, kubeVars, execVars
<1>4. ASSUME NEW b \in Bindings, ReserveSuccessor(b) PROVE UidInv'
  BY <1>0, <1>4, UidFrame, Zenon DEF ReserveSuccessor, statusVars, kubeVars, execVars
<1>5. ASSUME NEW b \in Bindings, NEW m \in RefMoves, MutateReference(b, m) PROVE UidInv'
  BY <1>0, <1>5, UidFrame, Zenon DEF MutateReference, statusVars, kubeVars, execVars
<1>6. CASE RenewRun \/ ReleaseRun \/ RevokeEnvironment \/ Tick
  <2>1. Calm /\ alive' = alive
    BY <1>0, <1>6, RunStepCalm, Zenon DEF RenewRun, ReleaseRun, RevokeEnvironment, Tick, execVars
  <2> QED  BY <1>0, <2>1, UidFrame, Zenon DEF Calm
<1>7. ASSUME NEW q \in Requests, RequestStep(q) PROVE UidInv'
  <2>1. ReqInv(q)  BY Zenon DEF ExecInv
  <2>2. CASE StartLifecycle(q)  BY <1>0, <2>1, <2>2, StartUid, Zenon
  <2>3. CASE DeleteRetiredEnvironment(q)  BY <1>0, <2>3, DeleteUid, Zenon
  <2>4. CASE \/ Request(q) \/ ObserveTerminal(q) \/ PersistProof(q) \/ VerifyTerminal(q) \/ Recover(q)
    <3>1. Calm  BY <1>0, <2>4, RequestStepCalm, Zenon
    <3>2. alive' = alive
      BY <2>4, Zenon DEF Request, ObserveTerminal, PersistProof, VerifyTerminal, Recover, execVars
    <3> QED  BY <1>0, <3>1, <3>2, UidFrame, Zenon DEF Calm
  <2> QED  BY <1>7, <2>2, <2>3, <2>4, Zenon DEF RequestStep
<1>8. ASSUME NEW r \in Reconcilers, Get(r) \/ Reconcile(r) \/ Restart(r) PROVE UidInv'
  <2>0. RecInv(r)  BY Zenon DEF ExecInv
  <2>1. CASE \/ Get(r) \/ ReconcileExpired(r) \/ AwaitTermination(r) \/ DeletePVC(r)
             \/ WriteFence(r) \/ WriteVanished(r) \/ WriteUnready(r) \/ Return(r) \/ Restart(r)
    <3>1. Calm /\ alive' = alive  BY <1>0, <2>1, ReconcileCalm, Zenon DEF execVars
    <3> QED  BY <1>0, <3>1, UidFrame, Zenon DEF Calm
  <2>2. CASE Quiesce(r)  BY <1>0, <2>0, <2>2, QuiesceUid, Zenon
  <2>3. CASE RemovePodFinalizer(r)  BY <1>0, <2>0, <2>3, FinalizerUid, Zenon
  <2>4. CASE AwaitPodDeletion(r)  BY <1>0, <2>0, <2>4, DeletionUid, Zenon
  <2>5. CASE CreateReplacement(r) \/ Provision(r)  BY <1>0, <2>5, MakesUid, Zenon
  <2>6. CASE WriteRuntime(r)  BY <1>0, <2>0, <2>6, RuntimeUid, Zenon
  <2>7. CASE WritePhase(r) \/ WriteProof(r)  BY <1>0, <2>0, <2>7, PhaseUid, Zenon
  <2>8. CASE FinishRetirement(r)  BY <1>0, <2>0, <2>8, RetirementUid, Zenon
  <2>9. CASE PrepareReplacement(r)  BY <1>0, <2>0, <2>9, PrepareUid, Zenon
  <2>10. CASE FinishReplacement(r)  BY <1>0, <2>0, <2>10, ReplacementUid, Zenon
  <2> QED  BY <1>8, <2>1, <2>2, <2>3, <2>4, <2>5, <2>6, <2>7, <2>8, <2>9, <2>10, Zenon DEF Reconcile
<1>9. CASE PodStarts \/ PodTerminates \/ PodEvicted  BY <1>0, <1>9, MovesUid, Zenon
<1>10. CASE PodRemoved  BY <1>0, <1>10, RemovedUid, Zenon
<1>11. ~PodVanishes  BY Zenon DEF PodVanishes
<1> QED
  BY <1>1, <1>2, <1>3, <1>4, <1>5, <1>6, <1>7, <1>8, <1>9, <1>10, <1>11, Zenon DEF Next, Kubelet

(***************************************************************************)
(* LifeInv.                                                                *)
(***************************************************************************)
LEMMA LifeFrame ==
    ASSUME LifeInv, UNCHANGED <<life, podUID, retired>>, ready' => ready,
           podUID = 0 \/ life # NoLife \/ retired => NoUse',
           (life # NoLife \/ retired) /\ Unreferenced => Unreferenced',
           pvc' \in {"deleted", "foreign"} => pvc \in {"deleted", "foreign"} \/ retired,
           podUID = 0 /\ life = NoLife => /\ \A q \in Requests : req'[q].kind = "none"
                                          /\ \A r \in Reconcilers : rec'[r].life = NoLife
    PROVE  LifeInv'
<1>1. life.type = "retire" => life # NoLife  BY DEF NoLife
<1> HIDE DEF Unreferenced
<1> QED  BY <1>1, Zenon DEF LifeInv, NoUse

\* A step that changes neither the resource's lifecycle nor what is referenced.
LEMMA LifeSame ==
    ASSUME LifeInv, UNCHANGED <<life, podUID, retired, ready, refs, pvc, rec>>,
           NoUse => NoUse',
           podUID = 0 /\ life = NoLife => \A q \in Requests : req'[q].kind = "none"
    PROVE  LifeInv'
<1>1. podUID = 0 \/ life # NoLife \/ retired => NoUse'  BY Zenon DEF LifeInv, NoUse
<1>2. Unreferenced => Unreferenced'  BY Zenon DEF Unreferenced
<1>3. podUID = 0 /\ life = NoLife => \A r \in Reconcilers : rec'[r].life = NoLife
  BY Zenon DEF LifeInv
<1> HIDE DEF Unreferenced, NoUse
<1> QED  BY <1>1, <1>2, <1>3, LifeFrame, Zenon

LEMMA CallStepLife ==
    ASSUME TypeOK, LifeInv, NEW c \in Calls, CallStep(c)
    PROVE  LifeInv'
<1>1. UNCHANGED <<life, podUID, retired, ready, refs, pvc, rec, req>>
  BY Zenon DEF CallStep, ClaimOperation, Dispatch, Land, StreamFails, RenewOperation,
     FinishOperation,
         Die, runVars, statusVars, kubeVars
<1>2. NoUse => NoUse'  BY CallStepCalm, Zenon
<1>3. podUID = 0 /\ life = NoLife => \A q \in Requests : req'[q].kind = "none"
  BY <1>1, Zenon DEF LifeInv
<1> HIDE DEF NoUse
<1> QED  BY <1>1, <1>2, <1>3, LifeSame, Zenon

LEMMA AcquireLife ==
    ASSUME TypeOK, LifeInv, NEW b \in Bindings, AcquireRun(b)
    PROVE  LifeInv'
<1>1. UNCHANGED <<life, podUID, retired, ready, refs, pvc, rec, req>> /\ life = NoLife /\ ready
  BY Zenon DEF AcquireRun, kubeVars
<1>2. ~Unreferenced  BY Zenon DEF AcquireRun, Unreferenced
<1>3. podUID # 0 /\ ~retired  BY <1>1, <1>2, Zenon DEF LifeInv
<1> HIDE DEF Unreferenced
<1> QED  BY <1>1, <1>2, <1>3, LifeFrame, Zenon DEF LifeInv

LEMMA ReferenceLife ==
    ASSUME TypeOK, LifeInv, NEW b \in Bindings,
           ReserveSuccessor(b) \/ \E m \in RefMoves : MutateReference(b, m)
    PROVE  LifeInv'
<1>1. UNCHANGED <<life, podUID, retired, ready, pvc, rec, req, run, oper>> /\ life = NoLife
  BY Zenon DEF ReserveSuccessor, MutateReference, statusVars, kubeVars
<1>2. ~Unreferenced
  <2>1. CASE ReserveSuccessor(b)  BY <2>1, Zenon DEF ReserveSuccessor, Unreferenced
  <2>2. ASSUME NEW m \in RefMoves, MutateReference(b, m) PROVE ~Unreferenced
    <3>1. refs[b] = Moves[m][1]  BY <2>2, Zenon DEF MutateReference
    <3>2. Moves[m][1] # "none"  BY MoveAssumption DEF Moves, ReleaseReference
    <3> QED  BY <3>1, <3>2, Zenon DEF Unreferenced
  <2> QED  BY <2>1, <2>2, Zenon
<1>3. ~retired  BY <1>2, Zenon DEF LifeInv
<1>4. podUID = 0 => NoUse'  BY <1>1, Zenon DEF LifeInv, NoUse
<1> HIDE DEF Unreferenced, NoUse
<1> QED  BY <1>1, <1>2, <1>3, <1>4, LifeFrame, Zenon DEF LifeInv

LEMMA RunStepLife ==
    ASSUME TypeOK, LifeInv, RenewRun \/ ReleaseRun \/ RevokeEnvironment \/ Tick
    PROVE  LifeInv'
<1>1. UNCHANGED <<life, podUID, retired, ready, refs, pvc, rec, req>>
  BY Zenon DEF RenewRun, ReleaseRun, RevokeEnvironment, Tick, statusVars, kubeVars
<1>2. NoUse => NoUse'  BY RunStepCalm, Zenon
<1>3. podUID = 0 /\ life = NoLife => \A q \in Requests : req'[q].kind = "none"
  BY <1>1, Zenon DEF LifeInv
<1> HIDE DEF NoUse
<1> QED  BY <1>1, <1>2, <1>3, LifeSame, Zenon

LEMMA StageKind ==
    ASSUME TypeOK, NEW q \in Requests, NEW s, ReqStage(q, s)
    PROVE  \A p \in Requests : req'[p].kind = req[p].kind
<1>1. req \in [Requests -> Req]  BY Zenon DEF TypeOK
<1>2. \A p \in Requests : p # q => req'[p] = req[p]  BY <1>1, Zenon DEF ReqStage
<1>3. req'[q] = [req[q] EXCEPT !.stage = s]  BY <1>1, Zenon DEF ReqStage
<1>4. req'[q].kind = req[q].kind  BY <1>1, <1>3, Zenon DEF Req
<1> QED  BY <1>2, <1>4, Zenon

LEMMA RequestStepLife ==
    ASSUME TypeOK, LifeInv, NEW q \in Requests,
           \/ Request(q) \/ ObserveTerminal(q) \/ PersistProof(q) \/ VerifyTerminal(q) \/ Recover(q)
    PROVE  LifeInv'
<1>1. UNCHANGED <<life, podUID, retired, ready, refs, pvc, rec>>
  BY Zenon DEF Request, ObserveTerminal, PersistProof, VerifyTerminal, Recover, runVars, statusVars,
         kubeVars
<1>2. NoUse => NoUse'  BY RequestStepCalm, Zenon
<1>3. podUID = 0 /\ life = NoLife => \A p \in Requests : req'[p].kind = "none"
  <2>1. CASE Request(q)  BY <2>1, Zenon DEF Request
  <2>2. CASE ~Request(q)
    <3>1. \E s \in {"idle", "admit", "prove", "verified"} : ReqStage(q, s)
      BY <2>2, Zenon DEF ObserveTerminal, PersistProof, VerifyTerminal, Recover
    <3>2. \A p \in Requests : req'[p].kind = req[p].kind  BY <3>1, StageKind, Zenon
    <3> QED  BY <3>2, Zenon DEF LifeInv
  <2> QED  BY <2>1, <2>2, Zenon
<1> HIDE DEF NoUse
<1> QED  BY <1>1, <1>2, <1>3, LifeSame, Zenon

LEMMA StartLife ==
    ASSUME TypeOK, LifeInv, NEW q \in Requests, ReqInv(q), StartLifecycle(q)
    PROVE  LifeInv'
<1>1. UNCHANGED <<podUID, retired, refs, pvc, rec, oper>>
  BY Zenon DEF StartLifecycle, kubeVars
<1>2. CASE ~Admissible(q)
  <2>1. UNCHANGED <<life, ready, run>>  BY <1>2, Zenon DEF StartLifecycle
  <2>2. \A p \in Requests : req'[p].kind = req[p].kind  BY StageKind, Zenon DEF StartLifecycle
  <2>3. podUID = 0 /\ life = NoLife => \A p \in Requests : req'[p].kind = "none"
    BY <2>2, Zenon DEF LifeInv
  <2> QED  BY <1>1, <2>1, <2>3, LifeSame, Zenon DEF NoUse
<1>3. CASE Admissible(q)
  <2>1. /\ run' = NoRun /\ ready' = FALSE
        /\ life' = [id |-> q, type |-> req[q].kind, phase |-> "Quiescing",
                    epoch |-> req[q].epoch, pod |-> req[q].pod]
    BY <1>3, Zenon DEF StartLifecycle
  <2>2. req[q].kind # "none" /\ req[q].pod = podUID /\ ~retired /\ oper = NoOper
    BY <1>3, Zenon DEF StartLifecycle, ReqInv, Admissible, ExactSubject, HealthyIdle
  <2>3. podUID # 0  BY <2>2, Zenon DEF ReqInv
  <2>4. req[q].kind = "retire" => Unreferenced'
    BY <1>1, <1>3, Zenon DEF Admissible, Unreferenced
  <2>5. life'.phase = "Quiescing" /\ life'.pod = podUID /\ life'.type = req[q].kind
    BY <2>1, <2>2, Zenon
  <2>6. life'.phase # "none"  BY <2>5, Zenon
  <2>7. pvc \in {"deleted", "foreign"} => retired  BY Zenon DEF LifeInv
  <2> HIDE DEF Unreferenced
  <2> QED  BY <1>1, <2>1, <2>2, <2>3, <2>4, <2>5, <2>6, <2>7, Zenon DEF LifeInv, OverPod, NoLife
<1> QED  BY <1>2, <1>3, Zenon

LEMMA DeleteLife ==
    ASSUME TypeOK, LifeInv, NEW q \in Requests, DeleteRetiredEnvironment(q)
    PROVE  LifeInv'
<1>1. UNCHANGED <<podUID, retired, ready, refs, pvc, run, oper>> /\ retired
  BY Zenon DEF DeleteRetiredEnvironment, kubeVars, runVars
<1>2. life' = [id |-> q, type |-> "delete", phase |-> "DeletingPVC", epoch |-> 0, pod |-> 0]
  BY Zenon DEF DeleteRetiredEnvironment
<1>3. life'.phase = "DeletingPVC" /\ life'.pod = 0 /\ life'.type = "delete"  BY <1>2, Zenon
<1>4. Unreferenced' /\ NoUse' /\ podUID # 0  BY <1>1, Zenon DEF LifeInv, Unreferenced, NoUse
<1> HIDE DEF Unreferenced
<1> QED  BY <1>1, <1>3, <1>4, Zenon DEF LifeInv, OverPod, NoLife, NoUse

(***************************************************************************)
(* What a reconciler does to its own record: it forgets, reads, or decides *)
(* on a write.                                                             *)
(***************************************************************************)
LEMMA TodoKeeps ==
    ASSUME TypeOK, NEW r \in Reconcilers, NEW w \in Writes, Todo(r, w)
    PROVE  Keeps(r, w) /\ rec'[r].uid = rec[r].uid
<1>1. rec[r] \in Rec  BY Zenon DEF TypeOK
<1>2. rec'[r] = [rec[r] EXCEPT !.stage = "todo", !.write = w]  BY RecTodo, Zenon
<1>3. \A s \in Reconcilers \ {r} : rec'[s] = rec[s]  BY RecTodo, Zenon
<1>4. /\ rec'[r].stage = "todo" /\ rec'[r].write = w /\ rec'[r].life = rec[r].life
      /\ rec'[r].epoch = rec[r].epoch /\ rec'[r].pod = rec[r].pod /\ rec'[r].uid = rec[r].uid
  BY <1>1, <1>2, Zenon DEF Rec
<1> QED  BY <1>3, <1>4, Zenon DEF Keeps

LEMMA FoundKeeps ==
    ASSUME TypeOK, NEW r \in Reconcilers, NEW w \in Writes, Found(r, w)
    PROVE  Keeps(r, w) /\ rec'[r].uid = pod.uid
<1>1. pod.uid \in Nat /\ PodReady \in BOOLEAN  BY Zenon DEF TypeOK, Pod, PodReady
<1>2. Captures(r, w, pod.uid, PodReady)  BY Zenon DEF Found
<1> HIDE DEF PodReady
<1> QED  BY <1>1, <1>2, RecCaptures, Zenon

\* A decision is right if the write that it leads to is.
LEMMA RecActs ==
    ASSUME TypeOK, TypeOK', UidInv, UidInv', EnvStep, NEW r \in Reconcilers, NEW w, RecInv(r),
           Keeps(r, w), rec'[r].uid \in {rec[r].uid, pod'.uid}, TodoInv(r)'
    PROVE  RecInv(r)'
<1>1. rec'[r].life = rec[r].life /\ rec'[r].epoch = rec[r].epoch  BY Zenon DEF Keeps
<1>2. rec'[r].uid <= pods' /\ (pod'.uid # 0 => rec'[r].uid <= pod'.uid)
  <2>1. rec[r].uid <= pods' /\ (pod'.uid # 0 => rec[r].uid <= pod'.uid)  BY RecKept, Zenon
  <2>2. pod'.uid <= pods'  BY Zenon DEF UidInv
  <2>3. pod'.uid \in Nat  BY Zenon DEF TypeOK, Pod
  <2> QED  BY <2>1, <2>2, <2>3
<1> QED  BY <1>1, <1>2, RecWhole, Zenon

LEMMA IdleRight ==
    ASSUME TypeOK', NEW r \in Reconcilers, rec'[r] = IdleRec
    PROVE  RecInv(r)'
<1>1. epoch' \in Nat /\ pods' \in Nat /\ pod'.uid \in Nat /\ Top' \in Nat
  BY Zenon DEF TypeOK, Top, Life, Pod
<1>2. 0 <= Top' /\ 0 <= epoch' /\ 0 <= pods' /\ 0 <= pod'.uid  BY <1>1
<1>3. /\ rec'[r].life = NoLife /\ rec'[r].epoch = 0 /\ rec'[r].uid = 0 /\ rec'[r].stage = "idle"
      /\ rec'[r].life.phase = "none" /\ rec'[r].life.pod = 0 /\ rec'[r].life.phase \notin OverPod
  BY IdleFields, Zenon
<1> HIDE DEF Top
<1> QED  BY <1>2, <1>3, Zenon DEF RecInv

LEMMA GetRight ==
    ASSUME TypeOK, UidInv, LifeInv, NEW r \in Reconcilers, Get(r)
    PROVE  RecInv(r)'
<1>1. /\ rec'[r].stage = "got" /\ rec'[r].life = life /\ rec'[r].epoch = epoch /\ rec'[r].uid = 0
  BY RecGet, Zenon
<1>2. UNCHANGED <<epoch, life, podUID, retired, pod, pods>>  BY Zenon DEF Get, statusVars, kubeVars
<1>3. Top' = Top  BY <1>2, Zenon DEF Top
<1>4. epoch \in Nat /\ pods \in Nat /\ pod.uid \in Nat  BY Numbers, Zenon
<1>5. life.pod <= Top  BY Zenon DEF UidInv
<1>6. life.phase \in OverPod => life # NoLife  BY IdleFields, Zenon
<1> HIDE DEF Top
<1>7. /\ rec'[r].life.phase = "none" => rec'[r].life = NoLife
      /\ rec'[r].life.phase \in OverPod => rec'[r].life.pod # 0
      /\ rec'[r].life.phase = "DeletingPVC" => retired'
  BY <1>1, <1>2, Zenon DEF LifeInv
<1>8. epoch <= epoch /\ 0 <= pods /\ 0 <= pod.uid  BY <1>4
<1> QED  BY <1>1, <1>2, <1>3, <1>5, <1>6, <1>7, <1>8, Zenon DEF RecInv

\* Only the actor's record changes, and it holds no lifecycle operation but the one it
\* held, or the resource's.
RecShape(r) ==
    /\ \A s \in Reconcilers \ {r} : rec'[s] = rec[s]
    /\ rec'[r].life \in {rec[r].life, NoLife, life}

LEMMA IdleShape ==
    ASSUME TypeOK, TypeOK', NEW r \in Reconcilers, Done(r)
    PROVE  RecInv(r)' /\ RecShape(r)
<1>1. rec'[r] = IdleRec /\ \A s \in Reconcilers \ {r} : rec'[s] = rec[s]  BY RecDone, Zenon
<1>2. rec'[r].life = NoLife  BY <1>1, IdleFields, Zenon
<1> QED  BY <1>1, <1>2, IdleRight, Zenon DEF RecShape

LEMMA PlainShape ==
    ASSUME TypeOK, TypeOK', UidInv, UidInv', EnvStep, NEW r \in Reconcilers, RecInv(r),
           NEW w \in {"fence", "unready", "condition", "vanished"},
           Keeps(r, w), rec'[r].uid \in {rec[r].uid, pod'.uid}
    PROVE  RecInv(r)' /\ RecShape(r)
<1>1. TodoInv(r)'  BY Zenon DEF TodoInv, Keeps
<1>2. RecShape(r)  BY Zenon DEF RecShape, Keeps
<1> QED  BY <1>1, <1>2, RecActs, Zenon

LEMMA QuiesceShape ==
    ASSUME TypeOK, TypeOK', UidInv, UidInv', EnvStep, NEW r \in Reconcilers, RecInv(r),
           Quiesce(r) \/ RemovePodFinalizer(r) \/ AwaitTermination(r)
    PROVE  RecInv(r)' /\ RecShape(r)
<1>1. rec[r].life.phase \in OverPod
  BY Zenon DEF Quiesce, RemovePodFinalizer, AwaitTermination, InPhase, OverPod
<1>2. PICK w \in {"fence", "unready", "waiting", "proved", "unfinalized"} : Todo(r, w)
  BY Zenon DEF Quiesce, RemovePodFinalizer, AwaitTermination
<1>3. w \in Writes  BY Zenon DEF Writes
<1>4. Keeps(r, w) /\ rec'[r].uid = rec[r].uid  BY <1>2, <1>3, TodoKeeps, Zenon
<1>5. TodoInv(r)'  BY <1>1, <1>2, <1>4, Zenon DEF TodoInv, Keeps
<1>6. RecShape(r)  BY <1>4, Zenon DEF RecShape, Keeps
<1> QED  BY <1>4, <1>5, <1>6, RecActs, Zenon

LEMMA DeletionShape ==
    ASSUME TypeOK, TypeOK', UidInv, UidInv', EnvStep, NEW r \in Reconcilers, RecInv(r),
           AwaitPodDeletion(r)
    PROVE  RecInv(r)' /\ RecShape(r)
<1>1. rec[r].life.phase \in OverPod  BY Zenon DEF AwaitPodDeletion, InPhase, OverPod
<1>2. CASE Done(r)  BY <1>2, IdleShape, Zenon
<1>3. CASE ~Done(r)
  <2>1. \/ Todo(r, "fence")
        \/ Todo(r, "retired") /\ rec[r].life.type = "retire"
        \/ Todo(r, "prepare") /\ rec[r].life.type # "retire" /\ pod = NoPod /\ pod' = pod
    BY <1>3, Zenon DEF AwaitPodDeletion
  <2>2. PICK w \in {"fence", "retired", "prepare"} :
           /\ Todo(r, w)
           /\ w = "retired" => rec[r].life.type = "retire"
           /\ w = "prepare" => rec[r].life.type # "retire" /\ pod' = NoPod
    BY <2>1, Zenon
  <2>3. w \in Writes  BY Zenon DEF Writes
  <2>4. Keeps(r, w) /\ rec'[r].uid = rec[r].uid  BY <2>2, <2>3, TodoKeeps, Zenon
  <2>5. rec[r].life.pod # 0 /\ NoPod.uid = 0  BY <1>1, Zenon DEF RecInv, NoPod
  <2>6. TodoInv(r)'  BY <1>1, <2>2, <2>4, <2>5, Zenon DEF TodoInv, Keeps
  <2>7. RecShape(r)  BY <2>4, Zenon DEF RecShape, Keeps
  <2> QED  BY <2>4, <2>6, <2>7, RecActs, Zenon
<1> QED  BY <1>2, <1>3, Zenon

LEMMA VolumeShape ==
    ASSUME TypeOK, TypeOK', UidInv, UidInv', EnvStep, NEW r \in Reconcilers, RecInv(r), DeletePVC(r)
    PROVE  RecInv(r)' /\ RecShape(r)
<1>1. rec[r].life.phase = "DeletingPVC"  BY Zenon DEF DeletePVC, InPhase
<1>2. CASE Done(r)  BY <1>2, IdleShape, Zenon
<1>3. CASE ~Done(r)
  <2>1. PICK w \in {"fence", "release"} : Todo(r, w)  BY <1>3, Zenon DEF DeletePVC
  <2>2. w \in Writes  BY Zenon DEF Writes
  <2>3. Keeps(r, w) /\ rec'[r].uid = rec[r].uid  BY <2>1, <2>2, TodoKeeps, Zenon
  <2>4. TodoInv(r)'  BY <1>1, <2>1, <2>3, Zenon DEF TodoInv, Keeps
  <2>5. RecShape(r)  BY <2>3, Zenon DEF RecShape, Keeps
  <2> QED  BY <2>3, <2>4, <2>5, RecActs, Zenon
<1> QED  BY <1>2, <1>3, Zenon

\* A replacement that is found is younger than the Pod it replaces.
LEMMA FoundReplacement ==
    ASSUME TypeOK, TypeOK', UidInv, UidInv', LifeInv, EnvStep, NEW r \in Reconcilers, RecInv(r),
           rec[r].life.phase = "CreatingReplacement", Found(r, "replaced"), pod' = pod,
           epoch' = epoch
    PROVE  RecInv(r)' /\ RecShape(r)
<1>1. Keeps(r, "replaced") /\ rec'[r].uid = pod.uid  BY FoundKeeps, Zenon DEF Writes
<1>2. pod.uid # 0  BY Zenon DEF Found, UidInv
<1>3. rec[r].epoch = epoch => rec[r].life.pod < pod.uid
  <2>1. SUFFICES ASSUME rec[r].epoch = epoch PROVE rec[r].life.pod < pod.uid  OBVIOUS
  <2>2. life = rec[r].life  BY <2>1, Zenon DEF RecInv
  <2>3. podUID = 0  BY <2>2, Zenon DEF LifeInv
  <2>4. Top = life.pod  BY <2>3, Zenon DEF Top
  <2> HIDE DEF Top
  <2> QED  BY <1>2, <2>2, <2>3, <2>4, Zenon DEF UidInv
<1>4. TodoInv(r)'  BY <1>1, <1>2, <1>3, Zenon DEF TodoInv, Keeps
<1>5. RecShape(r)  BY <1>1, Zenon DEF RecShape, Keeps
<1> QED  BY <1>1, <1>4, <1>5, RecActs, Zenon

LEMMA CreateShape ==
    ASSUME TypeOK, TypeOK', UidInv, UidInv', LifeInv, EnvStep, NEW r \in Reconcilers, RecInv(r),
           CreateReplacement(r)
    PROVE  RecInv(r)' /\ RecShape(r)
<1>1. rec[r].life.phase = "CreatingReplacement" /\ epoch' = epoch
  BY Zenon DEF CreateReplacement, InPhase, statusVars
<1>2. CASE Done(r)  BY <1>2, IdleShape, Zenon
<1>3. ASSUME NEW w \in {"fence", "unready"}, Todo(r, w) PROVE RecInv(r)' /\ RecShape(r)
  <2>1. Keeps(r, w) /\ rec'[r].uid = rec[r].uid  BY <1>3, TodoKeeps, Zenon DEF Writes
  <2> QED  BY <2>1, PlainShape, Zenon
<1>4. CASE Found(r, "unready") /\ pod' = pod
  <2>1. Keeps(r, "unready") /\ rec'[r].uid = pod'.uid  BY <1>4, FoundKeeps, Zenon DEF Writes
  <2> QED  BY <2>1, PlainShape, Zenon
<1>5. CASE Found(r, "replaced") /\ pod' = pod  BY <1>1, <1>5, FoundReplacement, Zenon
<1>6. \/ Done(r) \/ Todo(r, "fence") \/ Todo(r, "unready")
      \/ (Found(r, "unready") /\ pod' = pod) \/ (Found(r, "replaced") /\ pod' = pod)
  BY Zenon DEF CreateReplacement
<1> QED  BY <1>2, <1>3, <1>4, <1>5, <1>6, Zenon

LEMMA ProvisionShape ==
    ASSUME TypeOK, TypeOK', UidInv, UidInv', EnvStep, NEW r \in Reconcilers, RecInv(r), Provision(r)
    PROVE  RecInv(r)' /\ RecShape(r)
<1>1. rec[r].life = NoLife  BY Zenon DEF Provision, InPhase, RecInv
<1>2. ASSUME NEW w \in {"condition", "vanished"}, Todo(r, w) PROVE RecInv(r)' /\ RecShape(r)
  <2>1. Keeps(r, w) /\ rec'[r].uid = rec[r].uid  BY <1>2, TodoKeeps, Zenon DEF Writes
  <2> QED  BY <2>1, PlainShape, Zenon
<1>3. ASSUME Keeps(r, "runtime"), rec'[r].uid = pod'.uid, pod'.uid # 0,
             rec[r].pod \in {0, pod'.uid}
      PROVE  RecInv(r)' /\ RecShape(r)
  <2>1. TodoInv(r)'  BY <1>1, <1>3, Zenon DEF TodoInv, Keeps
  <2>2. RecShape(r)  BY <1>3, Zenon DEF RecShape, Keeps
  <2> QED  BY <1>3, <2>1, <2>2, RecActs, Zenon
<1>4. CASE CreatePod(r) /\ Captures(r, "runtime", pods + 1, FALSE)
  <2>1. pods \in Nat  BY Zenon DEF TypeOK
  <2>2. Keeps(r, "runtime") /\ rec'[r].uid = pods + 1
    <3>1. "runtime" \in Writes /\ pods + 1 \in Nat /\ FALSE \in BOOLEAN  BY <2>1 DEF Writes
    <3>2. Captures(r, "runtime", pods + 1, FALSE)  BY <1>4, Zenon
    <3> QED  BY ONLY <3>1, <3>2, RecCaptures, TypeOK, r \in Reconcilers
  <2>3. pod'.uid = pods + 1 /\ rec[r].pod = 0  BY <1>4, Zenon DEF CreatePod
  <2> QED  BY <1>3, <2>1, <2>2, <2>3
<1>5. CASE Found(r, "runtime") /\ pod' = pod
  <2>1. Keeps(r, "runtime") /\ rec'[r].uid = pod.uid  BY <1>5, FoundKeeps, Zenon DEF Writes
  <2>2. pod.uid # 0 /\ rec[r].pod \in {0, pod.uid}  BY <1>5, Zenon DEF Found, PodInvalid, UidInv
  <2> QED  BY <1>3, <1>5, <2>1, <2>2, Zenon
<1>6. \/ Todo(r, "condition") \/ Todo(r, "vanished")
      \/ CreatePod(r) /\ Captures(r, "runtime", pods + 1, FALSE)
      \/ Found(r, "runtime") /\ pod' = pod
  BY Zenon DEF Provision
<1> QED  BY <1>2, <1>4, <1>5, <1>6, Zenon

LEMMA ReconcileShape ==
    ASSUME TypeOK, TypeOK', UidInv, UidInv', LifeInv, EnvStep, NEW r \in Reconcilers, RecInv(r),
           Get(r) \/ Reconcile(r) \/ Restart(r)
    PROVE  RecInv(r)' /\ RecShape(r)
<1>1. CASE Get(r)
  <2>1. RecShape(r)  BY <1>1, RecGet, Zenon DEF RecShape
  <2> QED  BY <1>1, <2>1, GetRight, Zenon
<1>2. CASE ReconcileExpired(r)
  <2>1. Todo(r, "fence")  BY <1>2, Zenon DEF ReconcileExpired
  <2>2. Keeps(r, "fence") /\ rec'[r].uid = rec[r].uid  BY <2>1, TodoKeeps, Zenon DEF Writes
  <2> QED  BY <2>2, PlainShape, Zenon
<1>3. CASE Quiesce(r) \/ RemovePodFinalizer(r) \/ AwaitTermination(r)  BY <1>3, QuiesceShape, Zenon
<1>4. CASE AwaitPodDeletion(r)  BY <1>4, DeletionShape, Zenon
<1>5. CASE CreateReplacement(r)  BY <1>5, CreateShape, Zenon
<1>6. CASE Provision(r)  BY <1>6, ProvisionShape, Zenon
<1>7. CASE DeletePVC(r)  BY <1>7, VolumeShape, Zenon
<1>8. CASE \/ WriteFence(r) \/ WriteVanished(r) \/ WriteUnready(r) \/ WriteRuntime(r)
           \/ WritePhase(r) \/ WriteProof(r) \/ FinishRetirement(r) \/ PrepareReplacement(r)
           \/ FinishReplacement(r) \/ Return(r) \/ Restart(r)
  <2>1. Done(r)
    BY <1>8, Zenon DEF WriteFence, WriteVanished, WriteUnready, WriteRuntime, WritePhase,
       WriteProof,
       FinishRetirement, PrepareReplacement, FinishReplacement, Return, Restart, Writing
  <2> QED  BY <2>1, IdleShape, Zenon
<1> QED  BY <1>1, <1>2, <1>3, <1>4, <1>5, <1>6, <1>7, <1>8, Zenon DEF Reconcile

\* The steps of a reconciler that leave the lifecycle operation alone.
LEMMA QuietLife ==
    ASSUME TypeOK, LifeInv, NEW r \in Reconcilers, RecInv(r), RecShape(r),
           Get(r) \/ Reconcile(r) \/ Restart(r), UNCHANGED <<life, podUID, retired>>,
           ready' => ready,
           pvc' \in {"deleted", "foreign"} => pvc \in {"deleted", "foreign"} \/ retired
    PROVE  LifeInv'
<1>1. UNCHANGED <<run, oper, refs, req>>  BY ReconcileFrame, Zenon
<1>2. podUID = 0 \/ life # NoLife \/ retired => NoUse'  BY <1>1, Zenon DEF LifeInv, NoUse
<1>3. Unreferenced => Unreferenced'  BY <1>1, Zenon DEF Unreferenced
<1>4. podUID = 0 /\ life = NoLife => /\ \A q \in Requests : req'[q].kind = "none"
                                     /\ \A s \in Reconcilers : rec'[s].life = NoLife
  BY <1>1, Zenon DEF LifeInv, RecShape
<1> HIDE DEF Unreferenced, NoUse
<1> QED  BY <1>2, <1>3, <1>4, LifeFrame, Zenon

LEMMA ReconcileQuietLife ==
    ASSUME TypeOK, LifeInv, NEW r \in Reconcilers, RecInv(r), RecShape(r),
           \/ Get(r) \/ ReconcileExpired(r) \/ AwaitTermination(r) \/ DeletePVC(r)
           \/ WriteFence(r) \/ WriteVanished(r) \/ WriteUnready(r) \/ Return(r) \/ Restart(r)
           \/ Quiesce(r) \/ RemovePodFinalizer(r) \/ AwaitPodDeletion(r)
           \/ CreateReplacement(r) \/ Provision(r)
    PROVE  LifeInv'
<1>0. Get(r) \/ Reconcile(r) \/ Restart(r)  BY Zenon DEF Reconcile
<1>1. UNCHANGED <<life, podUID, retired>> /\ (ready' => ready)
  <2>1. CASE WriteFence(r) \/ WriteVanished(r) \/ WriteUnready(r)
    BY <2>1, Zenon DEF WriteFence, WriteVanished, WriteUnready
  <2>2. CASE ~(WriteFence(r) \/ WriteVanished(r) \/ WriteUnready(r))
    <3>1. UNCHANGED statusVars
      BY <2>2, Zenon DEF Get, ReconcileExpired, AwaitTermination, DeletePVC, Return, Restart,
         Quiesce,
         RemovePodFinalizer, AwaitPodDeletion, CreateReplacement, Provision
    <3> QED  BY <3>1, Zenon DEF statusVars
  <2> QED  BY <2>1, <2>2, Zenon
<1>2. pvc' \in {"deleted", "foreign"} => pvc \in {"deleted", "foreign"} \/ retired
  <2>1. CASE DeletePVC(r)  BY <2>1, Zenon DEF DeletePVC, InPhase, RecInv
  <2>2. CASE Provision(r)  BY <2>2, Zenon DEF Provision, kubeVars
  <2>3. CASE ~DeletePVC(r) /\ ~Provision(r)
    <3>1. pvc' = pvc
      BY <2>3, Zenon DEF Get, ReconcileExpired, AwaitTermination, WriteFence, WriteVanished,
         WriteUnready, Return, Restart, Quiesce, RemovePodFinalizer, AwaitPodDeletion,
         CreateReplacement, Writing, kubeVars
    <3> QED  BY <3>1, Zenon
  <2> QED  BY <2>1, <2>2, <2>3, Zenon
<1> QED  BY <1>0, <1>1, <1>2, QuietLife, Zenon

LEMMA RuntimeLife ==
    ASSUME TypeOK, TypeOK', LifeInv, NEW r \in Reconcilers, RecInv(r), WriteRuntime(r)
    PROVE  LifeInv'
<1>1. /\ UNCHANGED <<life, retired, run, oper, refs>> /\ life = NoLife /\ podUID' # 0
  BY RuntimeStep, Zenon
<1>2. pvc' = pvc  BY Zenon DEF WriteRuntime, Writing, kubeVars
<1>3. Unreferenced' = Unreferenced  BY <1>1, Zenon DEF Unreferenced
<1>4. life.phase = "none" /\ life.type = "none"  BY <1>1, Zenon DEF NoLife
<1> HIDE DEF Unreferenced
<1> QED  BY <1>1, <1>2, <1>3, <1>4, Zenon DEF LifeInv, OverPod

LEMMA PhaseLife ==
    ASSUME TypeOK, LifeInv, NEW r \in Reconcilers, RecInv(r), WritePhase(r) \/ WriteProof(r)
    PROVE  LifeInv'
<1>1. /\ UNCHANGED <<podUID, ready, retired, pvc, run, oper, refs>>
      /\ life'.pod = life.pod /\ life'.type = life.type /\ life # NoLife /\ life' # NoLife
      /\ \/ life.phase \in OverPod /\ life'.phase \in OverPod
         \/ life.phase = "DeletingPVC" /\ life'.phase = "ReleasingSlot"
  BY PhaseStep, Zenon
<1>2. Unreferenced' = Unreferenced  BY <1>1, Zenon DEF Unreferenced
<1>3. /\ life'.phase # "none" /\ life'.phase # "CreatingReplacement"
      /\ life'.phase \in {"DeletingPVC", "ReleasingSlot"} => life.phase = "DeletingPVC"
      /\ life'.phase \in OverPod => life.phase \in OverPod
  BY <1>1, Zenon DEF OverPod
<1> HIDE DEF Unreferenced
<1> QED  BY <1>1, <1>2, <1>3, Zenon DEF LifeInv

LEMMA RetirementLife ==
    ASSUME TypeOK, LifeInv, NEW r \in Reconcilers, RecInv(r), FinishRetirement(r)
    PROVE  LifeInv'
<1>1. /\ UNCHANGED <<podUID, pvc, run, oper, refs>>
      /\ life' = NoLife /\ retired' /\ podUID # 0 /\ life.type = "retire" /\ NoUse
  BY RetirementStep, Zenon
<1>2. Unreferenced'  BY <1>1, Zenon DEF LifeInv, Unreferenced
<1>3. life'.phase = "none" /\ life'.type = "none"  BY <1>1, Zenon DEF NoLife
<1> HIDE DEF Unreferenced
<1> QED  BY <1>1, <1>2, <1>3, Zenon DEF LifeInv, OverPod, NoUse

LEMMA PrepareLife ==
    ASSUME TypeOK, LifeInv, NEW r \in Reconcilers, RecInv(r), PrepareReplacement(r)
    PROVE  LifeInv'
<1>1. /\ UNCHANGED <<ready, retired, pvc, run, oper>>
      /\ podUID' = 0 /\ life'.type = life.type /\ life.type # "retire" /\ ~ready /\ NoUse
      /\ life'.phase = "CreatingReplacement" /\ life.phase \in OverPod
  BY PrepareStep, Zenon
<1>2. ~retired  BY <1>1, Zenon DEF LifeInv
<1>3. life' # NoLife  BY <1>1 DEF NoLife
<1> HIDE DEF Unreferenced
<1> QED  BY <1>1, <1>2, <1>3, Zenon DEF LifeInv, OverPod, NoUse

LEMMA ReplacementLife ==
    ASSUME TypeOK, TypeOK', LifeInv, NEW r \in Reconcilers, RecInv(r), FinishReplacement(r)
    PROVE  LifeInv'
<1>1. /\ UNCHANGED <<retired, pvc, run, oper>> /\ life' = NoLife /\ podUID' # 0 /\ ~retired /\ NoUse
  BY ReplacementStep, Zenon
<1>2. life'.phase = "none" /\ life'.type = "none"  BY <1>1, Zenon DEF NoLife
<1> HIDE DEF Unreferenced
<1> QED  BY <1>1, <1>2, Zenon DEF LifeInv, OverPod

LEMMA PodLife ==
    ASSUME LifeInv, PodStarts \/ PodTerminates \/ PodEvicted \/ PodRemoved
    PROVE  LifeInv'
<1>1. UNCHANGED <<life, podUID, retired, ready, refs, pvc, rec, req, run, oper>>
  BY Zenon DEF PodStarts, PodTerminates, PodEvicted, PodRemoved, runVars, statusVars
<1>2. podUID = 0 /\ life = NoLife => \A q \in Requests : req'[q].kind = "none"
  BY <1>1, Zenon DEF LifeInv
<1> QED  BY <1>1, <1>2, LifeSame, Zenon DEF NoUse

LEMMA NextLife ==
    ASSUME ExecInv, TypeOK', UidInv', EnvStep, Next, "vanish" \notin Faults
    PROVE  LifeInv'
<1>0. TypeOK /\ UidInv /\ LifeInv  BY Zenon DEF ExecInv
<1>1. CASE \E c \in Calls : CallStep(c)  BY <1>0, <1>1, CallStepLife, Zenon
<1>2. ASSUME NEW x \in alive, Ends(x) PROVE LifeInv'
  <2>1. UNCHANGED <<life, podUID, retired, ready, refs, pvc, rec, req, run, oper>>
    BY <1>2, Zenon DEF Ends, runVars, statusVars, kubeVars
  <2>2. podUID = 0 /\ life = NoLife => \A q \in Requests : req'[q].kind = "none"
    BY <1>0, <2>1, Zenon DEF LifeInv
  <2> QED  BY <1>0, <2>1, <2>2, LifeSame, Zenon DEF NoUse
<1>3. CASE \E b \in Bindings : AcquireRun(b)  BY <1>0, <1>3, AcquireLife, Zenon
<1>4. ASSUME NEW b \in Bindings, ReserveSuccessor(b) \/ \E m \in RefMoves : MutateReference(b, m)
      PROVE  LifeInv'
  BY <1>0, <1>4, ReferenceLife, Zenon
<1>5. CASE RenewRun \/ ReleaseRun \/ RevokeEnvironment \/ Tick  BY <1>0, <1>5, RunStepLife, Zenon
<1>6. ASSUME NEW q \in Requests, RequestStep(q) PROVE LifeInv'
  <2>1. ReqInv(q)  BY Zenon DEF ExecInv
  <2>2. CASE StartLifecycle(q)  BY <1>0, <2>1, <2>2, StartLife, Zenon
  <2>3. CASE DeleteRetiredEnvironment(q)  BY <1>0, <2>3, DeleteLife, Zenon
  <2>4. CASE \/ Request(q) \/ ObserveTerminal(q) \/ PersistProof(q) \/ VerifyTerminal(q) \/ Recover(q)
    BY <1>0, <2>4, RequestStepLife, Zenon
  <2> QED  BY <1>6, <2>2, <2>3, <2>4, Zenon DEF RequestStep
<1>7. ASSUME NEW r \in Reconcilers, Get(r) \/ Reconcile(r) \/ Restart(r) PROVE LifeInv'
  <2>1. RecInv(r)  BY Zenon DEF ExecInv
  <2>2. RecShape(r)  BY <1>0, <1>7, <2>1, ReconcileShape, Zenon
  <2>3. CASE WriteRuntime(r)  BY <1>0, <2>1, <2>3, RuntimeLife, Zenon
  <2>4. CASE WritePhase(r) \/ WriteProof(r)  BY <1>0, <2>1, <2>4, PhaseLife, Zenon
  <2>5. CASE FinishRetirement(r)  BY <1>0, <2>1, <2>5, RetirementLife, Zenon
  <2>6. CASE PrepareReplacement(r)  BY <1>0, <2>1, <2>6, PrepareLife, Zenon
  <2>7. CASE FinishReplacement(r)  BY <1>0, <2>1, <2>7, ReplacementLife, Zenon
  <2>8. CASE ~(\/ WriteRuntime(r) \/ WritePhase(r) \/ WriteProof(r) \/ FinishRetirement(r)
               \/ PrepareReplacement(r) \/ FinishReplacement(r))
    BY <1>0, <1>7, <2>1, <2>2, <2>8, ReconcileQuietLife, Zenon DEF Reconcile
  <2> QED  BY <2>3, <2>4, <2>5, <2>6, <2>7, <2>8, Zenon
<1>8. CASE Kubelet \/ PodEvicted  BY <1>0, <1>8, PodLife, Zenon DEF Kubelet
<1>9. ~PodVanishes  BY Zenon DEF PodVanishes
<1> QED  BY <1>1, <1>2, <1>3, <1>4, <1>5, <1>6, <1>7, <1>8, <1>9, Zenon DEF Next

(***************************************************************************)
(* RecInv and ReqInv.                                                      *)
(***************************************************************************)
LEMMA NextRecs ==
    ASSUME ExecInv, TypeOK', UidInv', EnvStep, Next, NEW s \in Reconcilers
    PROVE  RecInv(s)'
<1>0. TypeOK /\ UidInv /\ LifeInv /\ RecInv(s)  BY Zenon DEF ExecInv
<1>1. ASSUME NEW r \in Reconcilers, Get(r) \/ Reconcile(r) \/ Restart(r) PROVE RecInv(s)'
  <2>1. RecInv(r)  BY Zenon DEF ExecInv
  <2>2. RecInv(r)' /\ RecShape(r)  BY <1>0, <1>1, <2>1, ReconcileShape, Zenon
  <2>3. CASE s = r  BY <2>2, <2>3, Zenon
  <2>4. CASE s # r
    <3>1. rec'[s] = rec[s]  BY <2>2, <2>4, Zenon DEF RecShape
    <3> QED  BY <1>0, <3>1, RecStable, Zenon
  <2> QED  BY <2>3, <2>4, Zenon
<1>2. CASE ~\E r \in Reconcilers : Get(r) \/ Reconcile(r) \/ Restart(r)
  <2>1. rec' = rec
    <3>1. ASSUME NEW c \in Calls, CallStep(c) PROVE rec' = rec
      BY <3>1, Zenon DEF CallStep, ClaimOperation, Dispatch, Land, StreamFails, RenewOperation,
         FinishOperation, Die
    <3>2. ASSUME NEW x \in alive, Ends(x) PROVE rec' = rec  BY <3>2, Zenon DEF Ends
    <3>3. ASSUME NEW b \in Bindings, AcquireRun(b) \/ ReserveSuccessor(b) PROVE rec' = rec
      BY <3>3, Zenon DEF AcquireRun, ReserveSuccessor
    <3>4. ASSUME NEW b \in Bindings, NEW m \in RefMoves, MutateReference(b, m) PROVE rec' = rec
      BY <3>4, Zenon DEF MutateReference
    <3>5. CASE RenewRun \/ ReleaseRun \/ RevokeEnvironment \/ Tick
      BY <3>5, Zenon DEF RenewRun, ReleaseRun, RevokeEnvironment, Tick
    <3>6. ASSUME NEW q \in Requests, RequestStep(q) PROVE rec' = rec
      BY <3>6, Zenon DEF RequestStep, Request, ObserveTerminal, PersistProof, StartLifecycle,
         VerifyTerminal, Recover, DeleteRetiredEnvironment
    <3>7. CASE Kubelet \/ PodEvicted \/ PodVanishes
      BY <3>7, Zenon DEF Kubelet, PodStarts, PodTerminates, PodRemoved, PodEvicted, PodVanishes
    <3> QED  BY <1>2, <3>1, <3>2, <3>3, <3>4, <3>5, <3>6, <3>7, Zenon DEF Next
  <2>2. rec'[s] = rec[s]  BY <2>1, Zenon
  <2> QED  BY <1>0, <2>2, RecStable, Zenon
<1> QED  BY <1>1, <1>2, Zenon

LEMMA StageFields ==
    ASSUME TypeOK, NEW q \in Requests, NEW s \in {"idle", "prove", "admit", "verified"},
           ReqStage(q, s)
    PROVE  /\ req'[q].stage = s /\ req'[q].kind = req[q].kind /\ req'[q].epoch = req[q].epoch
           /\ req'[q].pod = req[q].pod
           /\ \A p \in Requests \ {q} : req'[p] = req[p]
<1>1. req \in [Requests -> Req]  BY Zenon DEF TypeOK
<1>2. \A p \in Requests : p # q => req'[p] = req[p]  BY <1>1, Zenon DEF ReqStage
<1>3. req'[q] = [req[q] EXCEPT !.stage = s]  BY <1>1, Zenon DEF ReqStage
<1>4. /\ req'[q].stage = s /\ req'[q].kind = req[q].kind /\ req'[q].epoch = req[q].epoch
      /\ req'[q].pod = req[q].pod
  BY <1>1, <1>3, Zenon DEF Req
<1> QED  BY <1>2, <1>4, Zenon

LEMMA StageRight ==
    ASSUME TypeOK, TypeOK', EnvStep, NEW q \in Requests, ReqInv(q),
           NEW s \in {"idle", "prove", "admit", "verified"}, ReqStage(q, s),
           req[q].kind # "none",
           s \in {"prove", "admit"} => req[q].kind \in {"replace", "retire"},
           s = "verified" => UNCHANGED <<epoch, podUID, pod>> /\ pod.uid = podUID
                             /\ pod.phase = "terminal"
    PROVE  ReqInv(q)'
<1>1. /\ req'[q].stage = s /\ req'[q].kind = req[q].kind /\ req'[q].epoch = req[q].epoch
      /\ req'[q].pod = req[q].pod
  BY StageFields, Zenon
<1>2. req[q] \in Req /\ req[q].epoch \in Nat /\ req[q].pod \in Nat  BY Zenon DEF TypeOK, Req
<1>3. epoch \in Nat /\ Top \in Nat  BY Numbers, Zenon
<1>4. epoch' \in Nat /\ Top' \in Nat  BY Zenon DEF TypeOK, Top, Life
<1> HIDE DEF Top
<1>a. req[q].epoch <= epoch /\ req[q].pod <= Top  BY Zenon DEF ReqInv
<1>b. epoch <= epoch' /\ Top <= Top'  BY Zenon DEF EnvStep
<1>5. req[q].epoch <= epoch' /\ req[q].pod <= Top'  BY ONLY <1>2, <1>3, <1>4, <1>a, <1>b
<1>6. req[q].pod # 0  BY Zenon DEF ReqInv
<1> QED  BY <1>1, <1>5, <1>6, Zenon DEF ReqInv

LEMMA RequestRight ==
    ASSUME TypeOK, NEW q \in Requests, Request(q)
    PROVE  ReqInv(q)' /\ \A p \in Requests \ {q} : req'[p] = req[p]
<1>1. UNCHANGED <<epoch, podUID, life>> /\ podUID # 0  BY Zenon DEF Request, statusVars
<1>2. PICK k \in Kinds[q] \ {"delete"} :
         req' = [req EXCEPT ![q] = [kind |-> k, epoch |-> epoch, pod |-> podUID, stage |-> "idle"]]
  BY Zenon DEF Request
<1>3. k \in {"replace", "retire", "recover"}  BY KindAssumption, Zenon
<1>4. req \in [Requests -> Req]  BY Zenon DEF TypeOK
<1>5. req'[q] = [kind |-> k, epoch |-> epoch, pod |-> podUID, stage |-> "idle"]
  BY <1>2, <1>4, Zenon
<1>6. Top' = podUID /\ podUID \in Nat /\ epoch \in Nat  BY <1>1, Numbers, Zenon DEF Top
<1>a. k # "none"  BY ONLY <1>3
<1>7. /\ req'[q].kind # "none" /\ req'[q].stage = "idle" /\ req'[q].epoch = epoch
      /\ req'[q].pod = podUID
  BY ONLY <1>5, <1>a
<1>8. \A p \in Requests \ {q} : req'[p] = req[p]  BY <1>2, <1>4, Zenon
<1> HIDE DEF Top
<1>9. ReqInv(q)'  BY <1>1, <1>6, <1>7 DEF ReqInv
<1> QED  BY <1>8, <1>9, Zenon

LEMMA RequestStepRight ==
    ASSUME TypeOK, TypeOK', EnvStep, NEW q \in Requests, ReqInv(q), RequestStep(q)
    PROVE  /\ req'[q] = req[q] \/ ReqInv(q)'
           /\ \A p \in Requests \ {q} : req'[p] = req[p]
<1>1. CASE Request(q)  BY <1>1, RequestRight, Zenon
<1>2. CASE ObserveTerminal(q)
  <2>1. PICK s \in {"admit", "prove"} : ReqStage(q, s)  BY <1>2, Zenon DEF ObserveTerminal
  <2>2. req[q].kind \in {"replace", "retire"}  BY <1>2, Zenon DEF ObserveTerminal
  <2> QED  BY <2>1, <2>2, StageRight, StageFields, Zenon
<1>3. CASE PersistProof(q)
  <2>1. PICK s \in {"admit", "idle"} : ReqStage(q, s)  BY <1>3, Zenon DEF PersistProof
  <2>2. req[q].kind \in {"replace", "retire"}  BY <1>3, Zenon DEF PersistProof, ReqInv
  <2> QED  BY <2>1, <2>2, StageRight, StageFields, Zenon
<1>4. CASE StartLifecycle(q) \/ Recover(q)
  <2>1. ReqStage(q, "idle")  BY <1>4, Zenon DEF StartLifecycle, Recover
  <2>2. req[q].kind # "none"  BY <1>4, Zenon DEF StartLifecycle, Recover, ReqInv
  <2> QED  BY <2>1, <2>2, StageRight, StageFields, Zenon
<1>5. CASE VerifyTerminal(q)
  <2>1. ReqStage(q, "verified") /\ req[q].kind = "recover"  BY <1>5, Zenon DEF VerifyTerminal
  <2>2. UNCHANGED <<epoch, podUID, pod>>  BY <1>5, Zenon DEF VerifyTerminal, statusVars, kubeVars
  <2>3. pod.uid = podUID /\ pod.phase = "terminal"
    BY <1>5, Zenon DEF VerifyTerminal, ExactSubject, PodTerminal
  <2> QED  BY <2>1, <2>2, <2>3, StageRight, StageFields, Zenon
<1>6. CASE DeleteRetiredEnvironment(q)  BY <1>6, Zenon DEF DeleteRetiredEnvironment
<1> QED  BY <1>1, <1>2, <1>3, <1>4, <1>5, <1>6, Zenon DEF RequestStep

LEMMA NextReqs ==
    ASSUME ExecInv, TypeOK', EnvStep, Next, NEW p \in Requests
    PROVE  ReqInv(p)'
<1>0. TypeOK /\ UidInv /\ ReqInv(p)  BY Zenon DEF ExecInv
<1>1. ASSUME NEW q \in Requests, RequestStep(q) PROVE ReqInv(p)'
  <2>1. ReqInv(q)  BY Zenon DEF ExecInv
  <2>2. /\ req'[q] = req[q] \/ ReqInv(q)'
        /\ \A x \in Requests \ {q} : req'[x] = req[x]
    BY <1>0, <1>1, <2>1, RequestStepRight, Zenon
  <2>3. req'[p] = req[p] \/ ReqInv(p)'  BY <2>2, Zenon
  <2> QED  BY <1>0, <2>3, ReqStable, Zenon
<1>2. CASE ~\E q \in Requests : RequestStep(q)
  <2>1. req' = req
    <3>1. ASSUME NEW c \in Calls, CallStep(c) PROVE req' = req
      BY <3>1, Zenon DEF CallStep, ClaimOperation, Dispatch, Land, StreamFails, RenewOperation,
         FinishOperation, Die
    <3>2. ASSUME NEW x \in alive, Ends(x) PROVE req' = req  BY <3>2, Zenon DEF Ends
    <3>3. ASSUME NEW b \in Bindings, AcquireRun(b) \/ ReserveSuccessor(b) PROVE req' = req
      BY <3>3, Zenon DEF AcquireRun, ReserveSuccessor
    <3>4. ASSUME NEW b \in Bindings, NEW m \in RefMoves, MutateReference(b, m) PROVE req' = req
      BY <3>4, Zenon DEF MutateReference
    <3>5. CASE RenewRun \/ ReleaseRun \/ RevokeEnvironment \/ Tick
      BY <3>5, Zenon DEF RenewRun, ReleaseRun, RevokeEnvironment, Tick
    <3>6. ASSUME NEW r \in Reconcilers, Get(r) \/ Reconcile(r) \/ Restart(r) PROVE req' = req
      BY <3>6, ReconcileFrame, Zenon
    <3>7. CASE Kubelet \/ PodEvicted \/ PodVanishes
      BY <3>7, Zenon DEF Kubelet, PodStarts, PodTerminates, PodRemoved, PodEvicted, PodVanishes
    <3> QED  BY <1>2, <3>1, <3>2, <3>3, <3>4, <3>5, <3>6, <3>7, Zenon DEF Next
  <2>2. req'[p] = req[p]  BY <2>1, Zenon
  <2> QED  BY <1>0, <2>2, ReqStable, Zenon
<1> QED  BY <1>1, <1>2, Zenon

(***************************************************************************)
(* The theorems.                                                           *)
(***************************************************************************)
LEMMA InitExec == Init => ExecInv
<1> SUFFICES ASSUME Init PROVE ExecInv  OBVIOUS
<1>1. TypeOK  BY InitType, Zenon
<1>2. CallInv  BY Zenon DEF Init, CallInv, OneWriter, AliveIsRecorded, NewCall
<1>3. pod = NoPod /\ pods = 0 /\ podUID = 0 /\ life = NoLife /\ alive = {} /\ epoch = 1
  BY Zenon DEF Init
<1>4. pod.uid = 0 /\ life.pod = 0 /\ Top = 0  BY <1>3, Zenon DEF NoPod, NoLife, Top
<1> HIDE DEF Top
<1>5. UidInv  BY <1>3, <1>4 DEF UidInv
<1>6. LifeInv
  <2>1. life.phase = "none" /\ life.type = "none"  BY <1>3, Zenon DEF NoLife
  <2>2. \A q \in Requests : req[q].kind = "none"  BY Zenon DEF Init, NoReq
  <2>3. \A r \in Reconcilers : rec[r].life = NoLife  BY Zenon DEF Init, IdleRec
  <2>4. ~ready /\ ~retired /\ run = NoRun /\ oper = NoOper /\ pvc = "none"  BY Zenon DEF Init
  <2> QED  BY <1>3, <2>1, <2>2, <2>3, <2>4, Zenon DEF LifeInv, OverPod
<1>7. ASSUME NEW r \in Reconcilers PROVE RecInv(r)
  <2>1. rec[r] = IdleRec  BY Zenon DEF Init
  <2>2. /\ rec[r].life = NoLife /\ rec[r].epoch = 0 /\ rec[r].uid = 0 /\ rec[r].stage = "idle"
        /\ rec[r].life.phase = "none" /\ rec[r].life.pod = 0
    BY <2>1 DEF IdleRec, NoLife
  <2> QED  BY <1>3, <1>4, <2>2 DEF RecInv, OverPod
<1>8. ASSUME NEW q \in Requests PROVE ReqInv(q)
  <2>1. req[q].kind = "none" /\ req[q].epoch = 0 /\ req[q].pod = 0 /\ req[q].stage = "idle"
    BY Zenon DEF Init, NoReq
  <2> QED  BY <1>3, <1>4, <2>1 DEF ReqInv
<1> QED  BY <1>1, <1>2, <1>5, <1>6, <1>7, <1>8, Zenon DEF ExecInv

LEMMA NextExec ==
    ASSUME ExecInv, Next, Prompt, "vanish" \notin Faults
    PROVE  ExecInv'
<1>1. TypeOK'  BY NextType, Zenon DEF ExecInv
<1>2. EnvStep  BY <1>1, NextStep, Zenon
<1>3. CallInv'  BY NextCalls, Zenon
<1>4. UidInv'  BY <1>1, NextUid, Zenon
<1>5. LifeInv'  BY <1>1, <1>2, <1>4, NextLife, Zenon
<1>6. \A r \in Reconcilers : RecInv(r)'  BY <1>1, <1>2, <1>4, NextRecs, Zenon
<1>7. \A q \in Requests : ReqInv(q)'  BY <1>1, <1>2, NextReqs, Zenon
<1> QED  BY <1>1, <1>3, <1>4, <1>5, <1>6, <1>7, Zenon DEF ExecInv

LEMMA SameExec ==
    ASSUME ExecInv, UNCHANGED vars
    PROVE  ExecInv'
<1>1. /\ UNCHANGED <<epoch, gen, fence, ready, retired, run, oper, life, proof, podUID, refs>>
      /\ UNCHANGED <<pod, pvc, pods, call, posted, alive, rec, req>>
  BY Zenon DEF vars, runVars, statusVars, kubeVars, execVars
<1>0. TypeOK /\ CallInv /\ UidInv /\ LifeInv  BY Zenon DEF ExecInv
<1>2. TypeOK'  BY <1>0, <1>1, Zenon DEF TypeOK
<1>3. CallInv'  BY <1>0, <1>1, Zenon DEF CallInv, OneWriter, AliveIsRecorded
<1>4. Calm /\ (NoUse => NoUse')  BY <1>1, Zenon DEF Calm, NoUse
<1>5. EnvStep  BY <1>0, <1>4, CalmStep, Zenon
<1>6. UidInv'  BY <1>0, <1>1, UidFrame, Zenon
<1>7. LifeInv'
  <2>1. podUID = 0 /\ life = NoLife => \A q \in Requests : req'[q].kind = "none"
    BY <1>0, <1>1, Zenon DEF LifeInv
  <2> QED  BY <1>0, <1>1, <1>4, <2>1, LifeSame, Zenon
<1>8. ASSUME NEW r \in Reconcilers PROVE RecInv(r)'
  <2>1. RecInv(r)  BY Zenon DEF ExecInv
  <2>2. rec'[r] = rec[r]  BY <1>1, Zenon
  <2> QED  BY <1>0, <1>2, <1>5, <2>1, <2>2, RecStable, Zenon
<1>9. ASSUME NEW q \in Requests PROVE ReqInv(q)'
  <2>1. ReqInv(q)  BY Zenon DEF ExecInv
  <2>2. req'[q] = req[q]  BY <1>1, Zenon
  <2> QED  BY <1>0, <1>2, <1>5, <2>1, <2>2, ReqStable, Zenon
<1> QED  BY <1>2, <1>3, <1>6, <1>7, <1>8, <1>9, Zenon DEF ExecInv

\* The inductive invariant: the identities that the status, the Pods, the workers and
\* the requests hold stay consistent whatever steps they take, if a post lands while its
\* operation is recorded and no Pod object goes before its finalizer.
THEOREM ExecInvariant ==
    ASSUME Prompt, "vanish" \notin Faults
    PROVE  Spec => []ExecInv
<1>1. Init => ExecInv  BY InitExec, Zenon
<1>2. ExecInv /\ [Next]_vars => ExecInv'  BY NextExec, SameExec, Zenon
<1> QED  BY <1>1, <1>2, PTL DEF Spec

\* ADR 0364's rule: leases that expire, replicas and workers that crash, Pods that are
\* evicted and replaced and fences that are lifted never put two operations to work on
\* the workspace at once.
THEOREM OneWriterHolds ==
    ASSUME Prompt, "vanish" \notin Faults
    PROVE  Spec => []OneWriter
<1>1. ExecInv => OneWriter  BY Zenon DEF ExecInv, CallInv
<1> QED  BY <1>1, ExecInvariant, PTL

\* What runs is what the status records, so what the status calls idle is idle.
THEOREM AliveRecorded ==
    ASSUME Prompt, "vanish" \notin Faults
    PROVE  Spec => []AliveIsRecorded
<1>1. ExecInv => AliveIsRecorded  BY Zenon DEF ExecInv, CallInv
<1> QED  BY <1>1, ExecInvariant, PTL

\* startLifecycle and DeleteRetiredEnvironment: nothing uses a retired environment, and
\* only of a retired one is the volume deleted.
THEOREM RetiredFree ==
    ASSUME Prompt, "vanish" \notin Faults
    PROVE  Spec => []RetiredIsFree
<1>1. ExecInv => RetiredIsFree
  <2> SUFFICES ASSUME ExecInv PROVE RetiredIsFree  OBVIOUS
  <2>1. TypeOK /\ LifeInv /\ CallInv  BY Zenon DEF ExecInv
  <2>2. oper = NoOper => alive = {}  BY <2>1, Quiet, Zenon
  <2> HIDE DEF Unreferenced
  <2>3. retired \/ pvc \in {"deleted", "foreign"} => retired  BY <2>1, Zenon DEF LifeInv
  <2>4. retired => Unreferenced /\ run = NoRun /\ oper = NoOper  BY <2>1, Zenon DEF LifeInv
  <2> QED  BY <2>2, <2>3, <2>4, Zenon DEF RetiredIsFree
<1> QED  BY <1>1, ExecInvariant, PTL

LEMMA OnlyRecoverLifts ==
    ASSUME Next, fence, ~fence'
    PROVE  \E q \in Requests : Recover(q)
<1>1. ASSUME NEW c \in Calls, CallStep(c) PROVE FALSE
  BY <1>1, Zenon DEF CallStep, ClaimOperation, Dispatch, Land, StreamFails, RenewOperation,
     FinishOperation, Die, statusVars
<1>2. ASSUME NEW x \in alive, Ends(x) PROVE FALSE  BY <1>2, Zenon DEF Ends, statusVars
<1>3. ASSUME NEW b \in Bindings, AcquireRun(b) \/ ReserveSuccessor(b) PROVE FALSE
  BY <1>3, Zenon DEF AcquireRun, ReserveSuccessor, statusVars
<1>4. ASSUME NEW b \in Bindings, NEW m \in RefMoves, MutateReference(b, m) PROVE FALSE
  BY <1>4, Zenon DEF MutateReference, statusVars
<1>5. CASE RenewRun \/ ReleaseRun \/ RevokeEnvironment \/ Tick
  BY <1>5, Zenon DEF RenewRun, ReleaseRun, RevokeEnvironment, Tick, statusVars
<1>6. ASSUME NEW q \in Requests, RequestStep(q) PROVE Recover(q)
  BY <1>6, Zenon DEF RequestStep, Request, ObserveTerminal, PersistProof, StartLifecycle,
     VerifyTerminal, DeleteRetiredEnvironment, statusVars
<1>7. ASSUME NEW r \in Reconcilers, Get(r) \/ Reconcile(r) \/ Restart(r) PROVE FALSE
  <2>1. CASE \/ WriteFence(r) \/ WriteVanished(r) \/ WriteUnready(r) \/ WriteRuntime(r)
             \/ WritePhase(r) \/ WriteProof(r) \/ FinishRetirement(r) \/ PrepareReplacement(r)
             \/ FinishReplacement(r)
    BY <2>1, Zenon DEF WriteFence, WriteVanished, WriteUnready, WriteRuntime, WritePhase,
       WriteProof,
       FinishRetirement, PrepareReplacement, FinishReplacement
  <2>2. CASE \/ Get(r) \/ ReconcileExpired(r) \/ Quiesce(r) \/ AwaitTermination(r)
             \/ RemovePodFinalizer(r) \/ AwaitPodDeletion(r) \/ CreateReplacement(r)
             \/ Provision(r) \/ DeletePVC(r) \/ Return(r) \/ Restart(r)
    BY <2>2, Zenon DEF Get, ReconcileExpired, Quiesce, AwaitTermination, RemovePodFinalizer,
       AwaitPodDeletion, CreateReplacement, Provision, DeletePVC, Return, Restart, statusVars
  <2> QED  BY <1>7, <2>1, <2>2, Zenon DEF Reconcile
<1>8. CASE Kubelet \/ PodEvicted \/ PodVanishes
  BY <1>8, Zenon DEF Kubelet, PodStarts, PodTerminates, PodRemoved, PodEvicted, PodVanishes,
     statusVars
<1> QED  BY <1>1, <1>2, <1>3, <1>4, <1>5, <1>6, <1>7, <1>8, Zenon DEF Next

\* RecoverEnvironment: a fence is lifted only over a quiet workspace, and never over a
\* recorded executor that still may run.
THEOREM FenceLiftedSafely ==
    ASSUME Prompt, "vanish" \notin Faults
    PROVE  Spec => FenceLifted
<1>1. ExecInv /\ [Next]_vars =>
        [fence /\ ~fence' => alive = {} /\ (pod.uid = podUID => pod.phase = "terminal")]_vars
  <2> SUFFICES ASSUME ExecInv, Next, fence, ~fence'
               PROVE  alive = {} /\ (pod.uid = podUID => pod.phase = "terminal")
    BY Zenon DEF vars
  <2>1. PICK q \in Requests : Recover(q)  BY OnlyRecoverLifts, Zenon
  <2>2. ExactSubject(q) /\ req[q].stage = "verified"  BY <2>1, Zenon DEF Recover
  <2>3. ReqInv(q) /\ TypeOK /\ CallInv /\ UidInv /\ LifeInv  BY Zenon DEF ExecInv
  <2>4. pod.uid = podUID => pod.phase = "terminal"  BY <2>2, <2>3, Zenon DEF ReqInv
  <2>5. alive = {}  BY <2>2, <2>3, RecoverQuiet, Zenon
  <2> QED  BY <2>4, <2>5, Zenon
<1> QED  BY <1>1, ExecInvariant, PTL DEF FenceLifted, Spec

=============================================================================
