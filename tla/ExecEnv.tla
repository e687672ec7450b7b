------------------------------ MODULE ExecEnv ------------------------------
(***************************************************************************)
(* internal/adapter/executioncontroller: one ExecutionEnvironment of the   *)
(* Kubernetes execution provider, a retained workspace volume with one     *)
(* executor Pod.  Provider replicas share the resource's status:           *)
(*                                                                         *)
(*   - the Store serves run claims, operations, references and the         *)
(*     administrator's lifecycle requests.  retryUpdateStatus repeats      *)
(*     Get, mutate and UpdateStatus until no one wrote in between, so each *)
(*     mutation is one step; what a request reads outside it is another;   *)
(*   - the Reconcilers converge the Pod and the volume: one step reads the *)
(*     resource, one acts on the Pod, one writes what was found, if the    *)
(*     resource still is what was read (runtimeObservationMatches);        *)
(*   - an operation is claimed in the status, read back, posted to the Pod *)
(*     BY NAME, and cleared when its end is known.  A post may be late, an *)
(*     answer may be lost, and a replica may crash at any step.            *)
(*                                                                         *)
(* Expiries are the time left until them: `left' = 0 is expired.  Random   *)
(* identities are the epoch (a claim: every claim has an epoch of its own) *)
(* and the call itself (an operation).  Owner, client, profile and schema  *)
(* checks, request bounds, replay receipts and the loss of the volume are  *)
(* left out; so are the profile's slots and the removal of the resource.   *)
(***************************************************************************)
EXTENDS Naturals

CONSTANTS Calls, NoCall,         \* operations: each is one call of execute
          Reconcilers,           \* controller workers, one per replica
          Bindings, NoBinding,   \* bindings that may reference the environment
          Requests, NoRequest,   \* operation ids of administrator requests
          Kinds,                 \* what each request may ask for
          RefMoves,              \* what clients do with references
          RunTTL, OpTTL,         \* lifetimes of a claim and of an operation lease
          Faults,                \* "crash", "evict", "vanish" of Pods, "restart" of workers
          Prompt,                \* a post lands while its operation is recorded
          MaxEpoch, MaxGen, MaxPod   \* bounds

ASSUME NamesAssumption ==
    NoCall \notin Calls /\ NoBinding \notin Bindings /\ NoRequest \notin Requests
ASSUME KindAssumption ==
    Kinds \in [Requests -> SUBSET {"replace", "retire", "recover", "delete"}]
ASSUME MoveAssumption ==
    RefMoves \subseteq {"commit", "abort", "prepare", "confirm", "cancel", "release"}
ASSUME TimeAssumption == RunTTL \in Nat /\ OpTTL \in Nat
ASSUME FaultAssumption == Faults \subseteq {"crash", "evict", "vanish", "restart"} /\ Prompt \in BOOLEAN
ASSUME BoundsAssumption == MaxEpoch \in Nat /\ MaxGen \in Nat /\ MaxPod \in Nat

VARIABLES epoch, gen,   \* status.epoch and status.grantGeneration
          fence,        \* status.fenceState is FenceUnknown
          ready,        \* the Ready condition
          retired,      \* the Retired and ExecutorTerminated conditions
          run,          \* status.activeRun
          oper,         \* status.activeOperation
          life,         \* status.lifecycleOperation
          proof,        \* status.terminationProof
          podUID,       \* status.pod.uid; 0 when no Pod is recorded
          refs,         \* status.references
          pod,          \* the Pod that has the executor's name
          pvc,          \* the workspace volume claim
          pods,         \* Pods created so far
          call,         \* the progress of each execute
          posted,       \* posts on their way to the Pod
          alive,        \* operations running in an executor
          rec,          \* the progress of each reconciler
          req           \* the progress of each administrator request

runVars == <<gen, run, refs>>
statusVars == <<epoch, fence, ready, retired, life, proof, podUID>>
kubeVars == <<pod, pvc, pods>>
execVars == <<call, posted, alive>>
vars == <<runVars, oper, statusVars, kubeVars, execVars, rec, req>>

Run == [binding : Bindings \cup {NoBinding}, epoch : Nat, gen : Nat, left : Nat]
NoRun == [binding |-> NoBinding, epoch |-> 0, gen |-> 0, left |-> 0]

Oper == [id : Calls \cup {NoCall}, left : Nat]
NoOper == [id |-> NoCall, left |-> 0]

Phases == {"none", "Quiescing", "WaitingForTermination", "RemovingPodFinalizer",
           "WaitingForPodDeletion", "CreatingReplacement", "DeletingPVC", "ReleasingSlot"}
Life == [id : Requests \cup {NoRequest}, type : {"none", "replace", "retire", "delete"},
         phase : Phases, epoch : Nat, pod : Nat]
NoLife == [id |-> NoRequest, type |-> "none", phase |-> "none", epoch |-> 0, pod |-> 0]

Proof == [id : Requests \cup {NoRequest}, epoch : Nat, pod : Nat]
NoProof == [id |-> NoRequest, epoch |-> 0, pod |-> 0]

Pod == [uid : Nat, phase : {"none", "starting", "running", "terminal"},
        deleting : BOOLEAN, fin : BOOLEAN]
NoPod == [uid |-> 0, phase |-> "none", deleting |-> FALSE, fin |-> FALSE]

Call == [stage : {"new", "claimed", "posted", "answered", "over"}, epoch : Nat, gen : Nat,
         terminal : BOOLEAN]
NewCall == [stage |-> "new", epoch |-> 0, gen |-> 0, terminal |-> FALSE]

\* What a reconciler read, and the status write it is about to make.
Writes == {"fence", "unready", "condition", "vanished", "runtime", "waiting", "proved",
           "unfinalized", "retired", "prepare", "replaced", "release"}
Rec == [stage : {"idle", "got", "todo"}, life : Life, epoch : Nat, pod : Nat,
        retired : BOOLEAN, expired : BOOLEAN, proved : BOOLEAN,
        write : Writes, uid : Nat, ready : BOOLEAN]
IdleRec == [stage |-> "idle", life |-> NoLife, epoch |-> 0, pod |-> 0, retired |-> FALSE,
            expired |-> FALSE, proved |-> FALSE, write |-> "condition", uid |-> 0,
            ready |-> FALSE]

Req == [kind : {"none", "replace", "retire", "recover"}, epoch : Nat, pod : Nat,
        stage : {"idle", "prove", "admit", "verified"}]
NoReq == [kind |-> "none", epoch |-> 0, pod |-> 0, stage |-> "idle"]

RefStates == {"none", "pendingCreate", "published", "pendingDelete"}

\* The resource as initializeStatus leaves it: the first binding's reference pending.
Init ==
    /\ epoch = 1 /\ gen = 1 /\ fence = FALSE /\ ready = FALSE /\ retired = FALSE
    /\ run = NoRun /\ oper = NoOper /\ life = NoLife /\ proof = NoProof /\ podUID = 0
    /\ \E b \in Bindings : refs = [x \in Bindings |-> IF x = b THEN "pendingCreate" ELSE "none"]
    /\ pod = NoPod /\ pvc = "none" /\ pods = 0
    /\ call = [c \in Calls |-> NewCall] /\ posted = {} /\ alive = {}
    /\ rec = [r \in Reconcilers |-> IdleRec]
    /\ req = [q \in Requests |-> NoReq]

(***************************************************************************)
(* Run claims.                                                             *)
(***************************************************************************)
\* AcquireRun: idle, healthy, ready, and the binding's reference published.
AcquireRun(b) ==
    /\ life = NoLife /\ refs[b] = "published" /\ ready /\ ~fence
    /\ run.left = 0 /\ oper = NoOper
    /\ epoch < MaxEpoch
    /\ epoch' = epoch + 1
    /\ run' = [binding |-> b, epoch |-> epoch + 1, gen |-> gen, left |-> RunTTL]
    /\ UNCHANGED <<gen, refs, oper, fence, ready, retired, life, proof, podUID,
                   kubeVars, execVars, rec, req>>

RenewRun ==
    /\ run # NoRun /\ run.gen = gen /\ run.left > 0
    /\ run' = [run EXCEPT !.left = RunTTL]
    /\ UNCHANGED <<gen, refs, oper, statusVars, kubeVars, execVars, rec, req>>

\* ReleaseRun by the holder of the claim; a revoked claim cannot be released.
ReleaseRun ==
    /\ run # NoRun /\ life = NoLife /\ run.gen = gen /\ oper = NoOper
    /\ run' = NoRun
    /\ UNCHANGED <<gen, refs, oper, statusVars, kubeVars, execVars, rec, req>>

RevokeEnvironment ==
    /\ gen < MaxGen
    /\ gen' = gen + 1
    /\ UNCHANGED <<run, refs, oper, statusVars, kubeVars, execVars, rec, req>>

(***************************************************************************)
(* Operations.                                                             *)
(***************************************************************************)
\* operationMatches with an unexpired lease, and operationAuthorityCurrent.
LeaseCurrent(c) == oper.id = c /\ oper.left > 0 /\ ~fence
AuthorityCurrent(c) ==
    /\ run.left > 0 /\ run.epoch = call[c].epoch /\ run.gen = call[c].gen
    /\ epoch = call[c].epoch /\ gen = call[c].gen

\* execute, first mutation: claim the operation under the current run.
ClaimOperation(c) ==
    /\ call[c].stage = "new"
    /\ life = NoLife /\ run # NoRun /\ run.left > 0 /\ run.gen = gen /\ run.epoch = epoch
    /\ refs[run.binding] = "published" /\ ready /\ ~fence /\ oper = NoOper /\ podUID # 0
    /\ oper' = [id |-> c, left |-> OpTTL]
    /\ call' = [call EXCEPT ![c] = [stage |-> "claimed", epoch |-> run.epoch, gen |-> run.gen,
                                    terminal |-> FALSE]]
    /\ UNCHANGED <<runVars, statusVars, kubeVars, posted, alive, rec, req>>

Stage(c, s) == call' = [call EXCEPT ![c].stage = s]

\* execute returned, or its replica is gone: what it knew is forgotten.
Over(c) == call' = [call EXCEPT ![c] = [NewCall EXCEPT !.stage = "over"]]

\* The read-back before dispatch: post to the Pod, or give up and leave the claim.
Dispatch(c) ==
    /\ call[c].stage = "claimed"
    /\ \/ LeaseCurrent(c) /\ AuthorityCurrent(c) /\ Stage(c, "posted") /\ posted' = posted \cup {c}
       \/ ~(LeaseCurrent(c) /\ AuthorityCurrent(c)) /\ Over(c) /\ posted' = posted
    /\ UNCHANGED <<runVars, oper, statusVars, kubeVars, alive, rec, req>>

\* The API server execs the helper in the Pod that has the name when the post arrives.
Land(c) ==
    /\ c \in posted
    /\ Prompt => oper.id = c
    /\ posted' = posted \ {c}
    /\ alive' = IF pod.phase = "running" THEN alive \cup {[call |-> c, pod |-> pod.uid]} ELSE alive
    /\ UNCHANGED <<runVars, oper, statusVars, kubeVars, call, rec, req>>

\* The helper ends and reports it: a result, or an error that proves the end.  (One that
\* is raised before anything was posted is not told apart from a helper that ended.)
Ends(x) ==
    /\ x \in alive
    /\ alive' = alive \ {x}
    /\ call' = IF call[x.call].stage = "posted"
               THEN [call EXCEPT ![x.call].stage = "answered", ![x.call].terminal = TRUE]
               ELSE call
    /\ UNCHANGED <<runVars, oper, statusVars, kubeVars, posted, rec, req>>

\* The stream breaks, or the renewer cancelled it: the end is not known.
StreamFails(c) ==
    /\ call[c].stage = "posted"
    /\ Stage(c, "answered")
    /\ UNCHANGED <<runVars, oper, statusVars, kubeVars, posted, alive, rec, req>>

\* renewOperationLease; when it may not renew it cancels the execution.
RenewOperation(c) ==
    /\ call[c].stage = "posted"
    /\ IF LeaseCurrent(c) /\ AuthorityCurrent(c)
       THEN oper' = [oper EXCEPT !.left = OpTTL] /\ call' = call
       ELSE oper' = oper /\ Stage(c, "answered")
    /\ UNCHANGED <<runVars, statusVars, kubeVars, posted, alive, rec, req>>

\* The last mutation clears the operation when its end is known and its authority is
\* still current, and fences the environment otherwise.  (Any: a variant that takes
\* every answer for an end.)
ClearsAny(c) == LeaseCurrent(c) /\ AuthorityCurrent(c)
Clears(c) == call[c].terminal /\ LeaseCurrent(c) /\ AuthorityCurrent(c)

FinishOperation(c) ==
    /\ call[c].stage = "answered"
    /\ Over(c)
    /\ oper' = IF oper.id = c /\ Clears(c) THEN NoOper ELSE oper
    /\ fence' = (fence \/ (oper.id = c /\ ~Clears(c)))
    /\ UNCHANGED <<runVars, epoch, ready, retired, life, proof, podUID, kubeVars, posted, alive,
                   rec, req>>

\* The replica that serves the call crashes.
Die(c) ==
    /\ call[c].stage \in {"claimed", "posted", "answered"}
    /\ Over(c)
    /\ UNCHANGED <<runVars, oper, statusVars, kubeVars, posted, alive, rec, req>>

Tick ==
    /\ run.left > 0 \/ oper.left > 0
    /\ run' = IF run.left > 0 THEN [run EXCEPT !.left = @ - 1] ELSE run
    /\ oper' = IF oper.left > 0 THEN [oper EXCEPT !.left = @ - 1] ELSE oper
    /\ UNCHANGED <<gen, refs, statusVars, kubeVars, execVars, rec, req>>

(***************************************************************************)
(* References.                                                             *)
(***************************************************************************)
\* ReleaseReference drops a published reference; mutateReference's callers, from
\* CommitReference on, move a reference through its transactions.
ReleaseReference == <<"published", "none">>
Moves == [commit  |-> <<"pendingCreate", "published">>,
          abort   |-> <<"pendingCreate", "none">>,
          prepare |-> <<"published", "pendingDelete">>,
          confirm |-> <<"pendingDelete", "none">>,
          cancel  |-> <<"pendingDelete", "published">>,
          release |-> ReleaseReference]

MutateReference(b, m) ==
    /\ life = NoLife /\ refs[b] = Moves[m][1]
    /\ refs' = [refs EXCEPT ![b] = Moves[m][2]]
    /\ UNCHANGED <<gen, run, oper, statusVars, kubeVars, execVars, rec, req>>

\* A fork reserves a reference for its binding next to its source's.
ReserveSuccessor(b) ==
    /\ life = NoLife /\ oper = NoOper /\ run = NoRun /\ ~fence
    /\ refs[b] = "none" /\ \E s \in Bindings : refs[s] = "published"
    /\ refs' = [refs EXCEPT ![b] = "pendingCreate"]
    /\ UNCHANGED <<gen, run, oper, statusVars, kubeVars, execVars, rec, req>>

(***************************************************************************)
(* Administrator requests.  A request names the epoch and the Pod its      *)
(* author read, and is repeated under its id until it is done.             *)
(***************************************************************************)
Request(q) ==
    /\ req[q].kind = "none" /\ podUID # 0
    /\ \E k \in Kinds[q] \ {"delete"} :
         req' = [req EXCEPT ![q] = [kind |-> k, epoch |-> epoch, pod |-> podUID, stage |-> "idle"]]
    /\ UNCHANGED <<runVars, oper, statusVars, kubeVars, execVars, rec>>

ExactSubject(q) == req[q].epoch = epoch /\ req[q].pod = podUID
ProofMatches(q) == proof.pod = req[q].pod /\ proof.epoch = req[q].epoch
ProofOperationMatches(q) == ProofMatches(q) /\ proof.id = q
ProofOf(q) == [id |-> q, epoch |-> req[q].epoch, pod |-> req[q].pod]
ExpiredRun(q) == run # NoRun /\ run.left = 0 /\ run.epoch = req[q].epoch /\ run.gen = gen

\* No run but an expired one of this identity, no operation, no fence.
HealthyIdle(q) == (run = NoRun \/ ExpiredRun(q)) /\ oper = NoOper /\ ~fence

\* (Eager: a variant that takes a Pod that is being deleted for a terminated one.)
PodTerminalEager(q) == pod.uid = req[q].pod /\ (pod.deleting \/ pod.phase = "terminal")
PodTerminal(q) == pod.uid = req[q].pod /\ pod.phase = "terminal"

ReqStage(q, s) == req' = [req EXCEPT ![q].stage = s]

\* persistObservedTerminalProof, its reads: whether the executor has to be proved
\* terminal first.
ObserveTerminal(q) ==
    /\ req[q].kind \in {"replace", "retire"} /\ req[q].stage = "idle" /\ ExactSubject(q)
    /\ IF ready \/ retired \/ ProofOperationMatches(q) \/ (HealthyIdle(q) /\ ProofMatches(q))
       THEN ReqStage(q, "admit")
       ELSE HealthyIdle(q) /\ PodTerminal(q) /\ ReqStage(q, "prove")
    /\ UNCHANGED <<runVars, oper, statusVars, kubeVars, execVars, rec>>

\* persistObservedTerminalProof, its write.
PersistProof(q) ==
    /\ req[q].stage = "prove"
    /\ IF ExactSubject(q) /\ (ready \/ ProofOperationMatches(q) \/ HealthyIdle(q))
       THEN /\ ReqStage(q, "admit")
            /\ proof' = IF ready \/ ProofMatches(q) THEN proof ELSE ProofOf(q)
       ELSE ReqStage(q, "idle") /\ proof' = proof
    /\ UNCHANGED <<runVars, oper, epoch, fence, ready, retired, life, podUID, kubeVars, execVars, rec>>

\* startLifecycle's mutation.  (Referenced: a variant that retires an environment that
\* still is referenced.)
AdmissibleReferenced(q) ==
    /\ ExactSubject(q) /\ ~retired /\ life = NoLife
    /\ HealthyIdle(q) /\ (ready \/ ProofMatches(q))
Admissible(q) ==
    /\ ExactSubject(q) /\ ~retired /\ life = NoLife
    /\ HealthyIdle(q) /\ (ready \/ ProofMatches(q))
    /\ req[q].kind = "retire" => \A b \in Bindings : refs[b] = "none"

StartLifecycle(q) ==
    /\ req[q].stage = "admit"
    /\ ReqStage(q, "idle")
    /\ IF Admissible(q)
       THEN /\ run' = NoRun /\ ready' = FALSE
            /\ life' = [id |-> q, type |-> req[q].kind, phase |-> "Quiescing",
                        epoch |-> req[q].epoch, pod |-> req[q].pod]
       ELSE UNCHANGED <<run, ready, life>>
    /\ UNCHANGED <<gen, refs, oper, epoch, fence, retired, proof, podUID, kubeVars, execVars, rec>>

\* RecoverEnvironment: verify that the recorded Pod is terminal, then clear the fence,
\* the operation and the run of the same epoch and Pod.
VerifyTerminal(q) ==
    /\ req[q].kind = "recover" /\ req[q].stage = "idle"
    /\ ExactSubject(q) /\ ~ProofOperationMatches(q) /\ fence /\ PodTerminal(q)
    /\ ReqStage(q, "verified")
    /\ UNCHANGED <<runVars, oper, statusVars, kubeVars, execVars, rec>>

Recover(q) ==
    /\ req[q].stage = "verified"
    /\ ReqStage(q, "idle")
    /\ IF ExactSubject(q) /\ ~ProofOperationMatches(q)
       THEN proof' = ProofOf(q) /\ oper' = NoOper /\ run' = NoRun /\ fence' = FALSE
       ELSE UNCHANGED <<proof, oper, run, fence>>
    /\ UNCHANGED <<gen, refs, epoch, ready, retired, life, podUID, kubeVars, execVars, rec>>

\* It names the volume, which stays the same, and neither epoch nor Pod.
DeleteRetiredEnvironment(q) ==
    /\ "delete" \in Kinds[q] /\ life = NoLife /\ retired
    /\ run = NoRun /\ oper = NoOper /\ \A b \in Bindings : refs[b] = "none"
    /\ life' = [id |-> q, type |-> "delete", phase |-> "DeletingPVC", epoch |-> 0, pod |-> 0]
    /\ UNCHANGED <<runVars, oper, epoch, fence, ready, retired, proof, podUID, kubeVars,
                   execVars, rec, req>>

(***************************************************************************)
(* Reconcilers.  Get reads the resource; one of the following actions does *)
(* what Reconcile does about it; a Write records what was found.           *)
(***************************************************************************)
ProofOfLife == proof.id = life.id /\ proof.pod = life.pod /\ proof.epoch = life.epoch

Get(r) ==
    /\ rec[r].stage = "idle"
    /\ rec' = [rec EXCEPT ![r] = [IdleRec EXCEPT
                 !.stage = "got", !.life = life, !.epoch = epoch, !.pod = podUID,
                 !.retired = retired, !.expired = (oper # NoOper /\ oper.left = 0),
                 !.proved = ProofOfLife]]
    /\ UNCHANGED <<runVars, oper, statusVars, kubeVars, execVars, req>>

Todo(r, w) == rec' = [rec EXCEPT ![r].stage = "todo", ![r].write = w]
Done(r) == rec' = [rec EXCEPT ![r] = IdleRec]

\* The lease of the operation expired: fence, and keep the operation for recovery.
\* (Freed: a variant that waits until the run is released.)
SeesExpiredFreed(r) == rec[r].expired /\ run = NoRun
SeesExpired(r) == rec[r].expired

ReconcileExpired(r) ==
    /\ rec[r].stage = "got" /\ SeesExpired(r)
    /\ Todo(r, "fence")
    /\ UNCHANGED <<runVars, oper, statusVars, kubeVars, execVars, req>>

\* A lifecycle operation in phase ph, as read.
InPhase(r, ph) == rec[r].stage = "got" /\ ~rec[r].expired /\ rec[r].life.phase = ph

\* The operation still names the epoch and the Pod of the resource that was read.
LifeExact(r) ==
    /\ rec[r].epoch = rec[r].life.epoch
    /\ IF rec[r].life.phase = "CreatingReplacement" THEN rec[r].pod = 0 /\ rec[r].proved
       ELSE rec[r].pod = rec[r].life.pod

Quiesce(r) ==
    /\ InPhase(r, "Quiescing")
    /\ IF ~LifeExact(r) \/ pod.uid # rec[r].life.pod
       THEN Todo(r, "fence") /\ pod' = pod
       ELSE Todo(r, "waiting") /\ pod' = [pod EXCEPT !.deleting = TRUE]
    /\ UNCHANGED <<runVars, oper, statusVars, pvc, pods, execVars, req>>

AwaitTermination(r) ==
    /\ InPhase(r, "WaitingForTermination")
    /\ Todo(r, IF ~LifeExact(r) \/ pod.uid # rec[r].life.pod THEN "fence"
               ELSE IF pod.phase # "terminal" THEN "unready" ELSE "proved")
    /\ UNCHANGED <<runVars, oper, statusVars, kubeVars, execVars, req>>

\* (Kept: a variant that leaves the finalizer.)
UnfinalizedKept == pod
Unfinalized == [pod EXCEPT !.fin = FALSE]

RemovePodFinalizer(r) ==
    /\ InPhase(r, "RemovingPodFinalizer")
    /\ IF \/ ~LifeExact(r) \/ ~rec[r].proved
          \/ pod # NoPod /\ (pod.uid # rec[r].life.pod \/ pod.phase # "terminal")
       THEN Todo(r, "fence") /\ pod' = pod
       ELSE Todo(r, "unfinalized") /\ pod' = Unfinalized
    /\ UNCHANGED <<runVars, oper, statusVars, pvc, pods, execVars, req>>

AwaitPodDeletion(r) ==
    /\ InPhase(r, "WaitingForPodDeletion")
    /\ IF ~LifeExact(r) \/ ~rec[r].proved \/ (pod # NoPod /\ pod.uid # rec[r].life.pod)
       THEN Todo(r, "fence") /\ pod' = pod
       ELSE IF pod # NoPod
       THEN Done(r) /\ pod' = IF pod.fin THEN [pod EXCEPT !.deleting = TRUE] ELSE NoPod
       ELSE Todo(r, IF rec[r].life.type = "retire" THEN "retired" ELSE "prepare") /\ pod' = pod
    /\ UNCHANGED <<runVars, oper, statusVars, pvc, pods, execVars, req>>

\* ensurePod: a Pod that is there must be valid, a recorded one that is gone is not
\* replaced, and only then one is created.
PodReady == pod.phase = "running" /\ ~pod.deleting
PodInvalid(r) ==
    pod # NoPod /\ (pod.deleting \/ ~pod.fin \/ rec[r].pod \notin {0, pod.uid})

CreatePod(r) ==
    /\ pod = NoPod /\ rec[r].pod = 0 /\ pods < MaxPod
    /\ pods' = pods + 1
    /\ pod' = [uid |-> pods + 1, phase |-> "starting", deleting |-> FALSE, fin |-> TRUE]

\* The write is about Pod u, found ready or not.
Captures(r, w, u, b) ==
    rec' = [rec EXCEPT ![r].stage = "todo", ![r].write = w, ![r].uid = u, ![r].ready = b]

Found(r, w) == pod # NoPod /\ ~PodInvalid(r) /\ Captures(r, w, pod.uid, PodReady)

CreateReplacement(r) ==
    /\ InPhase(r, "CreatingReplacement")
    /\ \/ /\ ~LifeExact(r) \/ PodInvalid(r)
          /\ IF LifeExact(r) THEN Done(r) ELSE Todo(r, "fence")
          /\ UNCHANGED <<pod, pods>>
       \/ LifeExact(r) /\ CreatePod(r) /\ Todo(r, "unready")
       \/ LifeExact(r) /\ Found(r, IF PodReady THEN "replaced" ELSE "unready")
                       /\ UNCHANGED <<pod, pods>>
    /\ UNCHANGED <<runVars, oper, statusVars, pvc, execVars, req>>

\* No lifecycle operation and not retired: the volume, then the Pod.
Provision(r) ==
    /\ InPhase(r, "none") /\ ~rec[r].retired
    /\ IF pvc # "bound" /\ rec[r].pod # 0
       THEN Todo(r, "condition") /\ UNCHANGED kubeVars
       ELSE /\ pvc' = IF pvc = "none" THEN "bound" ELSE IF pvc = "deleted" THEN "foreign" ELSE pvc
            /\ \/ PodInvalid(r) /\ Todo(r, "condition") /\ UNCHANGED <<pod, pods>>
               \/ pod = NoPod /\ rec[r].pod # 0 /\ Todo(r, "vanished") /\ UNCHANGED <<pod, pods>>
               \/ CreatePod(r) /\ Captures(r, "runtime", pods + 1, FALSE)
               \/ Found(r, "runtime") /\ UNCHANGED <<pod, pods>>
    /\ UNCHANGED <<runVars, oper, statusVars, execVars, req>>

\* reconcileRetainedDelete, up to the release of the slot.
DeletePVC(r) ==
    /\ InPhase(r, "DeletingPVC")
    /\ \/ pvc = "bound" /\ pvc' = "deleted" /\ Done(r)
       \/ pvc # "bound" /\ pvc' = pvc /\ Todo(r, IF pvc = "foreign" THEN "fence" ELSE "release")
    /\ UNCHANGED <<runVars, oper, statusVars, pod, pods, execVars, req>>

\* runtimeObservationMatches.
Matches(r) == rec[r].life = life /\ rec[r].epoch = epoch /\ rec[r].pod = podUID

Writing(r, w) == rec[r].stage = "todo" /\ rec[r].write = w /\ Done(r)
              /\ UNCHANGED <<runVars, oper, kubeVars, execVars, req>>

WriteFence(r) ==
    /\ Writing(r, "fence") /\ Matches(r)
    /\ fence' = TRUE /\ ready' = FALSE
    /\ UNCHANGED <<epoch, retired, life, proof, podUID>>

\* setFenceUnknown, guarded, and then the condition, which is not.
WriteVanished(r) ==
    /\ Writing(r, "vanished")
    /\ fence' = (fence \/ Matches(r)) /\ ready' = FALSE
    /\ UNCHANGED <<epoch, retired, life, proof, podUID>>

WriteUnready(r) ==
    /\ Writing(r, "condition") \/ (Writing(r, "unready") /\ Matches(r))
    /\ ready' = FALSE
    /\ UNCHANGED <<epoch, fence, retired, life, proof, podUID>>

WriteRuntime(r) ==
    /\ Writing(r, "runtime") /\ Matches(r)
    /\ podUID' = rec[r].uid /\ ready' = rec[r].ready
    /\ UNCHANGED <<epoch, fence, retired, life, proof>>

\* setLifecyclePhase.
NextPhase == [waiting |-> "WaitingForTermination", unfinalized |-> "WaitingForPodDeletion",
              release |-> "ReleasingSlot"]
WritePhase(r) ==
    /\ \E w \in {"waiting", "unfinalized", "release"} :
         Writing(r, w) /\ life' = [life EXCEPT !.phase = NextPhase[w]]
    /\ Matches(r)
    /\ UNCHANGED <<epoch, fence, ready, retired, proof, podUID>>

WriteProof(r) ==
    /\ Writing(r, "proved") /\ Matches(r)
    /\ proof' = [id |-> life.id, epoch |-> life.epoch, pod |-> life.pod]
    /\ life' = [life EXCEPT !.phase = "RemovingPodFinalizer"]
    /\ UNCHANGED <<epoch, fence, ready, retired, podUID>>

FinishRetirement(r) ==
    /\ Writing(r, "retired") /\ Matches(r)
    /\ life' = NoLife /\ retired' = TRUE /\ ready' = FALSE
    /\ UNCHANGED <<epoch, fence, proof, podUID>>

PrepareReplacement(r) ==
    /\ Writing(r, "prepare") /\ Matches(r)
    /\ podUID' = 0 /\ life' = [life EXCEPT !.phase = "CreatingReplacement"]
    /\ UNCHANGED <<epoch, fence, ready, retired, proof>>

FinishReplacement(r) ==
    /\ Writing(r, "replaced") /\ Matches(r)
    /\ epoch' = epoch + 1 /\ podUID' = rec[r].uid /\ life' = NoLife /\ ready' = TRUE
    /\ UNCHANGED <<fence, retired, proof>>

\* Nothing to do, or the resource is no longer what was read.
Return(r) ==
    /\ \/ InPhase(r, "none") /\ rec[r].retired
       \/ InPhase(r, "ReleasingSlot")
       \/ rec[r].stage = "todo" /\ rec[r].write \notin {"condition", "vanished"} /\ ~Matches(r)
    /\ Done(r)
    /\ UNCHANGED <<runVars, oper, statusVars, kubeVars, execVars, req>>

\* The replica restarts: what its worker had read is lost.
Restart(r) ==
    /\ "restart" \in Faults /\ rec[r].stage # "idle"
    /\ Done(r)
    /\ UNCHANGED <<runVars, oper, statusVars, kubeVars, execVars, req>>

(***************************************************************************)
(* Pods: the kubelet, and what happens to Pods.                            *)
(***************************************************************************)
PodStarts ==
    /\ pod.phase = "starting"
    /\ pod' = [pod EXCEPT !.phase = "running"]
    /\ UNCHANGED <<runVars, oper, statusVars, pvc, pods, execVars, rec, req>>

\* Every container terminated, and with them the operations that ran in the Pod.
PodTerminates ==
    /\ pod.phase \in {"starting", "running"} /\ (pod.deleting \/ "crash" \in Faults)
    /\ pod' = [pod EXCEPT !.phase = "terminal"]
    /\ alive' = {x \in alive : x.pod # pod.uid}
    /\ UNCHANGED <<runVars, oper, statusVars, pvc, pods, call, posted, rec, req>>

PodEvicted ==
    /\ "evict" \in Faults /\ pod # NoPod /\ ~pod.deleting
    /\ pod' = [pod EXCEPT !.deleting = TRUE]
    /\ UNCHANGED <<runVars, oper, statusVars, pvc, pods, execVars, rec, req>>

PodRemoved ==
    /\ pod.phase = "terminal" /\ pod.deleting /\ ~pod.fin
    /\ pod' = NoPod
    /\ UNCHANGED <<runVars, oper, statusVars, pvc, pods, execVars, rec, req>>

\* The object goes although its finalizer was never removed: nothing is known of the
\* containers.  (The last Pod that MaxPod allows stays.)
PodVanishes ==
    /\ "vanish" \in Faults /\ pod # NoPod /\ pods < MaxPod
    /\ pod' = NoPod
    /\ UNCHANGED <<runVars, oper, statusVars, pvc, pods, execVars, rec, req>>

CallStep(c) ==
    \/ ClaimOperation(c) \/ Dispatch(c) \/ Land(c) \/ StreamFails(c) \/ RenewOperation(c)
    \/ FinishOperation(c) \/ Die(c)
RequestStep(q) ==
    \/ Request(q) \/ ObserveTerminal(q) \/ PersistProof(q) \/ StartLifecycle(q)
    \/ VerifyTerminal(q) \/ Recover(q) \/ DeleteRetiredEnvironment(q)
Reconcile(r) ==
    \/ ReconcileExpired(r) \/ Quiesce(r) \/ AwaitTermination(r) \/ RemovePodFinalizer(r)
    \/ AwaitPodDeletion(r) \/ CreateReplacement(r) \/ Provision(r) \/ DeletePVC(r)
    \/ WriteFence(r) \/ WriteVanished(r) \/ WriteUnready(r) \/ WriteRuntime(r) \/ WritePhase(r)
    \/ WriteProof(r) \/ FinishRetirement(r) \/ PrepareReplacement(r) \/ FinishReplacement(r)
    \/ Return(r)
Kubelet == PodStarts \/ PodTerminates \/ PodRemoved

Next ==
    \/ \E c \in Calls : CallStep(c)
    \/ \E x \in alive : Ends(x)
    \/ \E b \in Bindings : \/ AcquireRun(b) \/ ReserveSuccessor(b)
                          \/ \E m \in RefMoves : MutateReference(b, m)
    \/ RenewRun \/ ReleaseRun \/ RevokeEnvironment \/ Tick
    \/ \E q \in Requests : RequestStep(q)
    \/ \E r \in Reconcilers : Get(r) \/ Reconcile(r) \/ Restart(r)
    \/ Kubelet \/ PodEvicted \/ PodVanishes

Spec == Init /\ [][Next]_vars

(***************************************************************************)
(* Correctness.                                                            *)
(***************************************************************************)
TypeOK ==
    /\ epoch \in Nat /\ gen \in Nat /\ podUID \in Nat /\ pods \in Nat
    /\ fence \in BOOLEAN /\ ready \in BOOLEAN /\ retired \in BOOLEAN
    /\ run \in Run /\ oper \in Oper /\ life \in Life /\ proof \in Proof
    /\ refs \in [Bindings -> RefStates]
    /\ pod \in Pod /\ pvc \in {"none", "bound", "deleted", "foreign"}
    /\ call \in [Calls -> Call] /\ posted \subseteq Calls
    /\ alive \subseteq [call : Calls, pod : Nat]
    /\ rec \in [Reconcilers -> Rec] /\ req \in [Requests -> Req]

\* ADR 0364: "Expiry retains uncertain operation identity; it does not authorize a
\* second writer."  Two operations never run at once, in one executor or in two.
OneWriter == \A x, y \in alive : x = y

\* Every operation that runs is the recorded one, so an environment with no recorded
\* operation, such as one that admits a run, a fork or a lifecycle request, is quiet.
AliveIsRecorded == \A x \in alive : oper.id = x.call

\* The fence is lifted only over a quiet workspace whose recorded executor, if it still
\* exists, has terminated.
FenceLifted ==
    [][fence /\ ~fence' => alive = {} /\ (pod.uid = podUID => pod.phase = "terminal")]_vars

Unreferenced == \A b \in Bindings : refs[b] = "none"

\* A retired environment stays free: no reference, run or operation comes back, and
\* only of such an environment is the workspace volume deleted.
RetiredIsFree ==
    retired \/ pvc \in {"deleted", "foreign"} =>
        retired /\ Unreferenced /\ run = NoRun /\ oper = NoOper /\ alive = {}

(***************************************************************************)
(* What makes the properties inductive.                                    *)
(***************************************************************************)
\* An operation that was posted runs at most once, and while it is on its way or runs
\* nobody knows its end.
Sent == {"posted", "answered", "over"}
CallInv ==
    /\ OneWriter /\ AliveIsRecorded
    /\ \A c \in Calls : call[c].terminal => call[c].stage \in {"answered", "over"}
    /\ \A c \in posted : call[c].stage \in Sent /\ ~call[c].terminal
    /\ \A x \in alive : x.call \notin posted /\ call[x.call].stage \in Sent
                       /\ ~call[x.call].terminal

\* The last Pod the resource recorded.  Pods are numbered as they are created, so no Pod
\* older than it exists, and a finalizer is taken only from it or from an older one.
Top == IF podUID # 0 THEN podUID ELSE life.pod
UidInv ==
    /\ pod.uid = 0 => pod = NoPod
    /\ pod.uid <= pods /\ Top <= pods /\ life.pod <= Top
    /\ pod.uid # 0 => Top <= pod.uid /\ (podUID = 0 => Top < pod.uid)
    /\ pod.uid # 0 /\ ~pod.fin => /\ pod.uid <= Top
                                  /\ pod.uid = podUID => life # NoLife \/ retired
    /\ \A x \in alive : /\ podUID <= x.pod /\ x.pod <= pods
                        /\ pod.uid # 0 => x.pod <= pod.uid
                        /\ pod.uid # 0 /\ x.pod = pod.uid => pod.phase = "running"

\* A lifecycle operation has the environment for itself, and while it goes over the
\* recorded Pod it names it.
OverPod == {"Quiescing", "WaitingForTermination", "RemovingPodFinalizer",
            "WaitingForPodDeletion"}
LifeInv ==
    /\ life.phase = "none" => life = NoLife
    /\ life # NoLife => run = NoRun /\ oper = NoOper
    /\ life.phase \in OverPod => podUID # 0 /\ life.pod = podUID /\ ~ready /\ ~retired
    /\ life.phase \in {"DeletingPVC", "ReleasingSlot"} => retired /\ life.pod = 0
    /\ life.phase = "CreatingReplacement" => podUID = 0 /\ life.type # "retire"
    /\ podUID = 0 => ~ready /\ run = NoRun /\ oper = NoOper
    /\ podUID = 0 /\ life = NoLife => /\ \A q \in Requests : req[q].kind = "none"
                                      /\ \A r \in Reconcilers : rec[r].life = NoLife
    /\ life.type = "retire" => Unreferenced
    /\ retired => podUID # 0 /\ Unreferenced /\ run = NoRun /\ oper = NoOper
    /\ pvc \in {"deleted", "foreign"} => retired

\* What a reconciler is about to write belongs to the phase it read, and what it read
\* of the lifecycle operation of the recorded Pod is still on its way, or retired it.
RecInv(r) ==
    /\ rec[r].life.phase = "none" => rec[r].life = NoLife
    /\ rec[r].life.phase \in OverPod => rec[r].life.pod # 0
    /\ rec[r].life.phase = "DeletingPVC" => retired
    /\ rec[r].life.pod <= Top /\ rec[r].epoch <= epoch
    /\ rec[r].life.phase \in OverPod /\ rec[r].life.pod = podUID => life # NoLife \/ retired
    /\ rec[r].life.phase = "CreatingReplacement" /\ rec[r].epoch = epoch => life = rec[r].life
    /\ rec[r].uid <= pods /\ (pod.uid # 0 => rec[r].uid <= pod.uid)
    /\ rec[r].stage = "todo" =>
         /\ rec[r].write \in {"waiting", "proved", "unfinalized", "retired", "prepare"} =>
              rec[r].life.phase \in OverPod
         /\ rec[r].write = "release" => rec[r].life.phase = "DeletingPVC"
         /\ rec[r].write = "runtime" => /\ rec[r].life = NoLife /\ rec[r].uid # 0
                                        /\ rec[r].pod \in {0, rec[r].uid}
         /\ rec[r].write = "retired" => rec[r].life.type = "retire"
         /\ rec[r].write = "prepare" => /\ rec[r].life.type # "retire"
                                        /\ pod.uid # rec[r].life.pod
         /\ rec[r].write = "replaced" => /\ rec[r].life.phase = "CreatingReplacement"
                                         /\ rec[r].uid # 0
                                         /\ rec[r].epoch = epoch => rec[r].life.pod < rec[r].uid

\* A verified recovery of the current identity finds the recorded Pod terminated, if it
\* still exists, and otherwise nothing to recover.
ReqInv(q) ==
    /\ req[q].epoch <= epoch /\ req[q].pod <= Top
    /\ req[q].kind # "none" => req[q].pod # 0
    /\ req[q].stage # "idle" => req[q].kind # "none"
    /\ req[q].stage \in {"prove", "admit"} => req[q].kind \in {"replace", "retire"}
    /\ req[q].stage = "verified" /\ ExactSubject(q) =>
         /\ pod.uid = podUID => pod.phase = "terminal"
         /\ pod.uid = podUID \/ (run = NoRun /\ oper = NoOper)

\* The controller's identities are consistent: the calls, the Pods, the lifecycle
\* operation, what every reconciler read and what every request verified.
ExecInv ==
    /\ TypeOK /\ CallInv /\ UidInv /\ LifeInv
    /\ (\A r \in Reconcilers : RecInv(r)) /\ (\A q \in Requests : ReqInv(q))

Fairness ==
    /\ WF_vars(Tick) /\ WF_vars(Kubelet)
    /\ \A r \in Reconcilers : WF_vars(Get(r)) /\ WF_vars(Reconcile(r))

FairSpec == Spec /\ Fairness

\* Nobody renews the operation: its stream was never opened or has ended, its replica
\* is gone, or the run that authorised it expired or was revoked.
Abandoned(c) == oper.id = c /\ (call[c].stage \in {"answered", "over"} \/ ~AuthorityCurrent(c))

\* An abandoned operation does not stay recorded as healthy: it is cleared, or its lease
\* runs out and the environment is fenced.  (One with an open stream and a live renewer
\* may stay recorded for ever.)
OperationResolves == \A c \in Calls : Abandoned(c) ~> oper.id # c \/ fence

\* An admitted replacement, retirement or deletion comes to its end, or is fenced, when
\* Pods vanish.  (A new executor that crashes or is evicted before it is recorded is not
\* replaced in turn: the replacement then stays in CreatingReplacement.)
LifecycleResolves == life # NoLife ~> life = NoLife \/ life.phase = "ReleasingSlot" \/ fence
=============================================================================
