-------------------------- MODULE FlockLeaseProofs --------------------------
(***************************************************************************)
(* Proofs about the file-lock lease for every set of owners and processes, *)
(* with failing writes, failing closes and crashes.  LeaseInv is           *)
(* inductive; exclusion, token uniqueness, the ownership of the generation *)
(* lock and the refinement of the port contract follow from it.            *)
(***************************************************************************)
EXTENDS FlockLease, TLAPS

USE NoOwnerAssumption, ProcAssumption, TimeAssumption, BoundsAssumption

\* No files, no locks and no calls satisfy the inductive invariant.
LEMMA InitLeaseInv == Init => LeaseInv
<1> SUFFICES ASSUME Init PROVE LeaseInv
  OBVIOUS
<1> USE DEF Init
<1>1. TypeOK
  BY DEF TypeOK, Record, NoRecord, Op, Idle, Stuck, NoStuck, Pend, NoPend, Handle, NoHandle
<1>2. TokensBounded /\ TokenIdentifiesOwner
  BY DEF TokensBounded, TokensOf, TokenIdentifiesOwner, NoRecord, NoStuck, NoPend, NoHandle
<1>3. HeldByOwner /\ LiveHandleIsRecord /\ ReleaseForgets
  BY DEF HeldByOwner, LiveHandleIsRecord, ReleaseForgets, NoPend, NoHandle
<1>4. DecisionHolds
  BY DEF DecisionHolds, Idle
<1> QED BY <1>1, <1>2, <1>3, <1>4 DEF LeaseInv

\* Steps that touch neither the files nor the locks.
LEMMA TickInv ==
  ASSUME LeaseInv, Tick
  PROVE  LeaseInv'
<1> USE DEF Tick, LeaseInv
<1>1. TypeOK'
  BY DEF TypeOK
<1>2. TokensBounded' /\ TokenIdentifiesOwner' /\ HeldByOwner' /\ ReleaseForgets'
  BY DEF TokensBounded, TokensOf, TokenIdentifiesOwner, HeldByOwner, ReleaseForgets
<1>3. LiveHandleIsRecord'
  BY DEF LiveHandleIsRecord, TypeOK, Handle
<1>4. DecisionHolds'
  BY DEF DecisionHolds, TypeOK, Record, Locked
<1> QED BY <1>1, <1>2, <1>3, <1>4

LEMMA DropInv ==
  ASSUME LeaseInv, NEW o \in Owners, Drop(o)
  PROVE  LeaseInv'
<1> USE DEF Drop, LeaseInv
<1>1. TypeOK'
  BY DEF TypeOK, Handle
<1>2. TokensBounded' /\ TokenIdentifiesOwner' /\ HeldByOwner'
  BY DEF TokensBounded, TokensOf, TokenIdentifiesOwner, HeldByOwner, TypeOK, Handle
<1>3. LiveHandleIsRecord' /\ ReleaseForgets'
  BY DEF LiveHandleIsRecord, ReleaseForgets, TypeOK, Handle
<1>4. DecisionHolds'
  BY DEF DecisionHolds, TypeOK, Handle, Locked
<1> QED BY <1>1, <1>2, <1>3, <1>4

LEMMA BeginRenewInv ==
  ASSUME LeaseInv, NEW o \in Owners, BeginRenew(o)
  PROVE  LeaseInv'
<1> USE DEF BeginRenew, LeaseInv
<1>1. TypeOK'
  BY DEF TypeOK, Handle, Pend
<1>2. TokensBounded' /\ TokenIdentifiesOwner' /\ HeldByOwner'
  BY DEF TokensBounded, TokensOf, TokenIdentifiesOwner, HeldByOwner, TypeOK, Pend
<1>3. LiveHandleIsRecord' /\ ReleaseForgets'
  BY DEF LiveHandleIsRecord, ReleaseForgets, TypeOK, Pend
<1>4. DecisionHolds'
  BY DEF DecisionHolds, TypeOK, Pend, Locked
<1> QED BY <1>1, <1>2, <1>3, <1>4

LEMMA BeginReleaseInv ==
  ASSUME LeaseInv, NEW o \in Owners, BeginRelease(o)
  PROVE  LeaseInv'
<1> USE DEF BeginRelease, LeaseInv
<1>1. TypeOK'
  BY DEF TypeOK, Handle, Pend
<1>2. TokensBounded' /\ TokenIdentifiesOwner' /\ HeldByOwner'
  BY DEF TokensBounded, TokensOf, TokenIdentifiesOwner, HeldByOwner, TypeOK, Handle, Pend
<1>3. LiveHandleIsRecord' /\ ReleaseForgets'
  BY DEF LiveHandleIsRecord, ReleaseForgets, TypeOK, Handle, Pend
<1>4. DecisionHolds'
  BY DEF DecisionHolds, TypeOK, Handle, Pend, Locked
<1> QED BY <1>1, <1>2, <1>3, <1>4

LEMMA GiveUpInv ==
  ASSUME LeaseInv, NEW o \in Owners, GiveUp(o)
  PROVE  LeaseInv'
<1> USE DEF GiveUp, LeaseInv
<1>1. TypeOK'
  <2>1. pend \in [Owners -> Pend] /\ pend[o] \in Pend
    BY DEF TypeOK
  <2>2. pend' = [pend EXCEPT ![o].renew = 0] \/ pend' = [pend EXCEPT ![o].release = 0]
    OBVIOUS
  <2>3. UNCHANGED <<clock, rec, op, held, stuck, handle>>
    OBVIOUS
  <2> HIDE DEF GiveUp
  <2>4. pend' \in [Owners -> Pend]
    BY ONLY <2>1, <2>2, o \in Owners DEF Pend
  <2> QED BY <2>3, <2>4 DEF TypeOK
<1>2. TokensBounded'
  <2>1. rec.token \in Nat /\ rec' = rec /\ held' = held /\ stuck' = stuck
    BY DEF TypeOK, Record
  <2>2. \A u \in Owners : TokensOf(u)' \subseteq TokensOf(u) \cup {0} /\ handle'[u] = handle[u]
    BY DEF TokensOf, TypeOK, Pend
  <2> QED BY <2>1, <2>2 DEF TokensBounded
<1>3. TokenIdentifiesOwner' /\ HeldByOwner' /\ LiveHandleIsRecord'
  BY DEF TokenIdentifiesOwner, HeldByOwner, LiveHandleIsRecord
<1>5. ReleaseForgets'
  <2>1. \A u \in Owners : pend'[u].release \in {pend[u].release, 0}
    BY DEF TypeOK, Pend
  <2>2. handle' = handle
    OBVIOUS
  <2> HIDE DEF GiveUp
  <2> QED BY <2>1, <2>2 DEF ReleaseForgets
<1>4. DecisionHolds'
  <2>1. \A u \in Owners : pend'[u].release \in {pend[u].release, 0}
    BY DEF TypeOK, Pend
  <2>2. UNCHANGED <<clock, rec, op, held, stuck, handle>>
    OBVIOUS
  <2> HIDE DEF GiveUp
  <2> QED BY <2>1, <2>2 DEF DecisionHolds, Locked
<1> QED BY <1>1, <1>2, <1>3, <1>4, <1>5

-----------------------------------------------------------------------------
(* Calls that take the stable lock *)

\* What the brackets of a call do to the handles kept for cleanup: locks of known
\* generations only.
LEMMA LeavesBounded ==
  ASSUME LeaseInv, NEW p \in Procs, NEW left \in [stable : {FALSE}, gens : SUBSET stuck[p].gens],
         NEW gens \in SUBSET Nat, \A t \in gens : t <= rec.token + 1,
         Leaves(p, left, gens) \/ stuck' = [stuck EXCEPT ![p] = left]
  PROVE  /\ stuck' \in [Procs -> Stuck]
         /\ \A q \in Procs : \A t \in stuck'[q].gens : t <= rec.token + 1
<1> DEFINE e(b) == [stable |-> b, gens |-> left.gens \cup gens]
<1>1. left \in Stuck /\ left.gens \subseteq stuck[p].gens
  BY DEF LeaseInv, TypeOK, Stuck
<1>2. \A t \in left.gens : t <= rec.token + 1
  BY <1>1 DEF LeaseInv, TokensBounded
<1>3. \A b \in BOOLEAN : e(b) \in Stuck /\ \A t \in e(b).gens : t <= rec.token + 1
  BY <1>1, <1>2 DEF Stuck
<1>4. PICK v \in Stuck : stuck' = [stuck EXCEPT ![p] = v] /\ \A t \in v.gens : t <= rec.token + 1
  BY <1>1, <1>2, <1>3 DEF Leaves
<1>5. stuck \in [Procs -> Stuck] /\ \A q \in Procs : \A t \in stuck[q].gens : t <= rec.token + 1
  BY DEF LeaseInv, TypeOK, TokensBounded
<1> QED BY <1>4, <1>5

\* A call that has decided, with or without going on to write, and has given up
\* at most a generation nobody relies on.
LEMMA CallInv ==
  ASSUME LeaseInv, UNCHANGED <<clock, rec>>, op' \in Op, DecisionHolds',
         stuck' \in [Procs -> Stuck],
         \A q \in Procs : \A t \in stuck'[q].gens : t <= rec.token + 1,
         NEW p \in Procs, NEW g \in Nat, UNCHANGED held \/ Relinquish(p, g),
         held' # held /\ g = rec.token =>
            \A u \in Owners : handle'[u].st = "live" => clock >= handle'[u].expiry,
         handle' \in [Owners -> Handle], pend' \in [Owners -> Pend],
         \A u \in Owners :
            /\ handle'[u].token = handle[u].token /\ handle'[u].expiry = handle[u].expiry
            /\ handle'[u].st = handle[u].st \/ (handle[u].st = "live" /\ handle'[u].st = "dropped")
            /\ pend'[u].renew \in {pend[u].renew, 0}
            /\ pend'[u].release \in {pend[u].release, 0}
  PROVE  LeaseInv'
<1>0. /\ held' \in [Procs -> SUBSET Nat] /\ \A q \in Procs : held'[q] \subseteq held[q]
      /\ \A q \in Procs : \A t \in held[q] : t # g => t \in held'[q]
  BY DEF Relinquish, LeaseInv, TypeOK
<1>1. TypeOK'
  BY <1>0 DEF LeaseInv, TypeOK
<1>2. TokensBounded'
  <2>1. \A u \in Owners : TokensOf(u)' \subseteq TokensOf(u) \cup {0}
    BY DEF TokensOf
  <2>2. rec.token \in Nat
    BY DEF LeaseInv, TypeOK, Record
  <2>3. \A u \in Owners : handle'[u].st # "none" => handle'[u].token # 0
    BY DEF LeaseInv, TokensBounded
  <2> QED BY <1>0, <2>1, <2>2, <2>3 DEF LeaseInv, TokensBounded
<1>3. TokenIdentifiesOwner' /\ HeldByOwner'
  BY <1>0 DEF LeaseInv, TokenIdentifiesOwner, HeldByOwner
<1>4. LiveHandleIsRecord'
  <2> SUFFICES ASSUME NEW u \in Owners, handle'[u].st = "live", ~(clock >= handle'[u].expiry)
               PROVE  /\ rec.owner = u /\ rec.token = handle'[u].token
                      /\ handle'[u].expiry <= rec.expiry /\ rec.token \in held'[ProcOf[u]]
    BY DEF LiveHandleIsRecord
  <2>1. /\ rec.owner = u /\ rec.token = handle[u].token
        /\ handle[u].expiry <= rec.expiry /\ rec.token \in held[ProcOf[u]]
    BY DEF LeaseInv, LiveHandleIsRecord
  <2>2. held' = held \/ g # rec.token
    OBVIOUS
  <2>3. rec.token \in held'[ProcOf[u]]
    BY <1>0, <2>1, <2>2
  <2> QED BY <2>1, <2>3
<1>5. ReleaseForgets'
  <2> SUFFICES ASSUME NEW u \in Owners, pend'[u].release # 0 PROVE handle'[u].st = "released"
    BY DEF ReleaseForgets
  <2> QED BY DEF LeaseInv, ReleaseForgets
<1> QED BY <1>1, <1>2, <1>3, <1>4, <1>5 DEF LeaseInv

\* With no transition under way there is nothing to keep true.
LEMMA IdleDecision ==
  ASSUME op = Idle, op' = op
  PROVE  op' \in Op /\ DecisionHolds'
  BY DEF DecisionHolds, Idle, Op

\* Letting go of a generation that is not retained changes nothing.
LEMMA RelinquishIdle ==
  ASSUME LeaseInv, NEW p \in Procs, NEW t, t \notin held[p], Relinquish(p, t)
  PROVE  held' = held
<1>1. held \in [Procs -> SUBSET Nat]
  BY DEF LeaseInv, TypeOK
<1>2. held[p] \ {t} = held[p]
  OBVIOUS
<1>3. held' = [held EXCEPT ![p] = held[p]]
  BY <1>2 DEF Relinquish
<1> QED BY <1>1, <1>3

LEMMA RenewInv ==
  ASSUME LeaseInv, NEW o \in Owners, Renew(o)
  PROVE  LeaseInv'
<1> DEFINE p == ProcOf[o]
           t == pend[o].renew
<1>1. PICK left \in [stable : {FALSE}, gens : SUBSET stuck[p].gens] :
         /\ Enters(p, left)
         /\ \/ /\ t \in held[p] /\ IsCurrent(o, t)
               /\ op' = [kind |-> "refresh", owner |-> o, token |-> t,
                         expiry |-> clock + TTL, call |-> "renew"]
               /\ stuck' = [stuck EXCEPT ![p] = left]
               /\ UNCHANGED <<held, handle>>
            \/ /\ ~(t \in held[p] /\ IsCurrent(o, t))
               /\ Relinquish(p, t) \/ RelinquishFails(p, t)
               /\ Leaves(p, left, {})
               /\ Lost(o, t)
               /\ UNCHANGED op
  BY DEF Renew
<1>2. /\ p \in Procs /\ t \in Nat \ {0} /\ op = Idle /\ UNCHANGED <<clock, rec>>
      /\ pend' = [pend EXCEPT ![o].renew = 0]
  BY <1>1 DEF Renew, Enters, LeaseInv, TypeOK, Pend
<1>3. /\ stuck' \in [Procs -> Stuck]
      /\ \A q \in Procs : \A g \in stuck'[q].gens : g <= rec.token + 1
  <2>1. Leaves(p, left, {}) \/ stuck' = [stuck EXCEPT ![p] = left]
    BY <1>1
  <2>2. {} \in SUBSET Nat /\ \A g \in {} : g <= rec.token + 1
    OBVIOUS
  <2> QED BY <1>2, <2>1, <2>2, LeavesBounded
<1>4. /\ pend' \in [Owners -> Pend]
      /\ \A u \in Owners : /\ pend'[u].renew \in {pend[u].renew, 0}
                           /\ pend'[u].release = pend[u].release
  BY <1>2 DEF LeaseInv, TypeOK, Pend
<1>5. CASE t \in held[p] /\ IsCurrent(o, t)
  <2>1. /\ op' = [kind |-> "refresh", owner |-> o, token |-> t, expiry |-> clock + TTL,
                  call |-> "renew"]
        /\ UNCHANGED <<held, handle>>
    BY <1>1, <1>5
  <2>2. op' \in Op
    BY <1>2, <2>1 DEF Op, LeaseInv, TypeOK
  <2>3. DecisionHolds'
    BY <1>2, <1>5, <2>1 DEF DecisionHolds, IsCurrent
  <2>4. handle' \in [Owners -> Handle]
    BY <2>1 DEF LeaseInv, TypeOK
  <2> QED BY <1>2, <1>3, <1>4, <2>1, <2>2, <2>3, <2>4, CallInv
<1>6. CASE ~(t \in held[p] /\ IsCurrent(o, t))
  <2>1. op' = op /\ Lost(o, t) /\ (UNCHANGED held \/ Relinquish(p, t))
    BY <1>1, <1>6 DEF RelinquishFails
  <2>2. /\ handle' \in [Owners -> Handle]
        /\ \A u \in Owners :
             /\ handle'[u].token = handle[u].token /\ handle'[u].expiry = handle[u].expiry
             /\ handle'[u].st = handle[u].st \/ (handle[u].st = "live" /\ handle'[u].st = "dropped")
    BY <2>1 DEF Lost, LeaseInv, TypeOK, Handle
  <2>3. held' # held /\ t = rec.token => \A u \in Owners : handle[u].st = "live" => clock >= handle[u].expiry
    <3> SUFFICES ASSUME held' # held, t = rec.token PROVE rec.owner = NoOwner
      BY DEF LeaseInv, LiveHandleIsRecord
    <3>1. t \in held[p]
      BY <1>2, <2>1, RelinquishIdle
    <3>2. rec.owner # o
      BY <1>6, <3>1 DEF IsCurrent
    <3>3. t \in TokensOf(o) \ {0}
      BY <1>2 DEF TokensOf
    <3> QED BY <3>2, <3>3 DEF LeaseInv, TokensBounded
  <2>4. held' # held /\ t = rec.token => \A u \in Owners : handle'[u].st = "live" => clock >= handle'[u].expiry
    BY <2>2, <2>3
  <2> QED BY <1>2, <1>3, <1>4, <2>1, <2>2, <2>4, CallInv, IdleDecision
<1> QED BY <1>5, <1>6

LEMMA ReleaseInv ==
  ASSUME LeaseInv, NEW o \in Owners, Release(o)
  PROVE  LeaseInv'
<1> DEFINE p == ProcOf[o]
           t == pend[o].release
<1>1. PICK left \in [stable : {FALSE}, gens : SUBSET stuck[p].gens] :
         /\ Enters(p, left)
         /\ \/ /\ t \in held[p] /\ IsCurrent(o, t)
               /\ op' = [kind |-> "tombstone", owner |-> o, token |-> t,
                         expiry |-> clock, call |-> "release"]
               /\ stuck' = [stuck EXCEPT ![p] = left]
               /\ UNCHANGED held
            \/ /\ ~(t \in held[p] /\ IsCurrent(o, t))
               /\ Relinquish(p, t) \/ RelinquishFails(p, t)
               /\ Leaves(p, left, {})
               /\ UNCHANGED op
  BY DEF Release
<1>2. /\ p \in Procs /\ t \in Nat \ {0} /\ op = Idle /\ UNCHANGED <<clock, rec, handle>>
      /\ pend' = [pend EXCEPT ![o].release = 0]
  BY <1>1 DEF Release, Enters, LeaseInv, TypeOK, Pend
<1>3. /\ stuck' \in [Procs -> Stuck]
      /\ \A q \in Procs : \A g \in stuck'[q].gens : g <= rec.token + 1
  <2>1. Leaves(p, left, {}) \/ stuck' = [stuck EXCEPT ![p] = left]
    BY <1>1
  <2>2. {} \in SUBSET Nat /\ \A g \in {} : g <= rec.token + 1
    OBVIOUS
  <2> QED BY <1>2, <2>1, <2>2, LeavesBounded
<1>4. /\ pend' \in [Owners -> Pend]
      /\ \A u \in Owners : /\ pend'[u].release \in {pend[u].release, 0}
                           /\ pend'[u].renew = pend[u].renew
  BY <1>2 DEF LeaseInv, TypeOK, Pend
<1>5. handle' \in [Owners -> Handle]
  BY <1>2 DEF LeaseInv, TypeOK
<1>6. CASE t \in held[p] /\ IsCurrent(o, t)
  <2>1. /\ op' = [kind |-> "tombstone", owner |-> o, token |-> t, expiry |-> clock,
                  call |-> "release"]
        /\ UNCHANGED held
    BY <1>1, <1>6
  <2>2. op' \in Op
    BY <1>2, <2>1 DEF Op, LeaseInv, TypeOK
  <2>3. DecisionHolds'
    BY <1>2, <1>6, <2>1 DEF DecisionHolds, IsCurrent, LeaseInv, ReleaseForgets
  <2> QED BY <1>2, <1>3, <1>4, <1>5, <2>1, <2>2, <2>3, CallInv
<1>7. CASE ~(t \in held[p] /\ IsCurrent(o, t))
  <2>1. op' = op /\ (UNCHANGED held \/ Relinquish(p, t))
    BY <1>1, <1>7 DEF RelinquishFails
  <2>2. held' # held /\ t = rec.token => \A u \in Owners : handle[u].st = "live" => clock >= handle[u].expiry
    <3> SUFFICES ASSUME held' # held, t = rec.token PROVE rec.owner = NoOwner
      BY DEF LeaseInv, LiveHandleIsRecord
    <3>1. t \in held[p]
      BY <1>2, <2>1, RelinquishIdle
    <3>2. rec.owner # o
      BY <1>7, <3>1 DEF IsCurrent
    <3>3. t \in TokensOf(o) \ {0}
      BY <1>2 DEF TokensOf
    <3> QED BY <3>2, <3>3 DEF LeaseInv, TokensBounded
  <2> QED BY <1>2, <1>3, <1>4, <1>5, <2>1, <2>2, CallInv, IdleDecision
<1> QED BY <1>6, <1>7

\* A hold that is free, expired or found dead has no owner relying on it.
LEMMA TakeableUnused ==
  ASSUME LeaseInv, op = Idle, NEW o \in Owners, ~RefreshesOwn(o),
         Contested(o) => ~GenerationLive(ProcOf[o])
  PROVE  /\ rec.owner = NoOwner \/ clock >= rec.expiry \/ ~Locked(rec.token)
         /\ \A u \in Owners : handle[u].st = "live" => clock >= handle[u].expiry
<1>1. rec.expiry \in Nat /\ clock \in Nat
  BY DEF LeaseInv, TypeOK, Record
<1>2. rec.owner = NoOwner \/ clock >= rec.expiry \/ ~Locked(rec.token)
  BY <1>1 DEF Contested, Unexpired, GenerationLive
<1>3. ASSUME NEW u \in Owners, handle[u].st = "live", ~(clock >= handle[u].expiry) PROVE FALSE
  <2>1. /\ rec.owner = u /\ handle[u].expiry <= rec.expiry /\ rec.token \in held[ProcOf[u]]
    BY <1>3 DEF LeaseInv, LiveHandleIsRecord
  <2>2. Locked(rec.token)
    BY <2>1 DEF Locked
  <2>3. handle[u].expiry \in Nat
    BY DEF LeaseInv, TypeOK, Handle
  <2> QED BY <1>1, <1>2, <1>3, <2>1, <2>2, <2>3
<1> QED BY <1>2, <1>3

LEMMA AcquireInv ==
  ASSUME LeaseInv, NEW o \in Owners, Acquire(o)
  PROVE  LeaseInv'
<1> DEFINE p == ProcOf[o]
<1>1. PICK left \in [stable : {FALSE}, gens : SUBSET stuck[p].gens] :
         /\ Enters(p, left)
         /\ AcquireRefresh(o, left) \/ AcquireRefused(o, left) \/ AcquireTake(o, left)
  BY DEF Acquire
<1>2. /\ p \in Procs /\ op = Idle /\ UNCHANGED <<clock, rec, pend, handle>>
      /\ handle[o].st # "live" /\ pend[o].release = 0
  BY <1>1 DEF Acquire, Enters
<1>3. /\ rec.token \in Nat /\ rec.expiry \in Nat /\ clock \in Nat
      /\ pend' \in [Owners -> Pend] /\ handle' \in [Owners -> Handle]
  BY <1>2 DEF LeaseInv, TypeOK, Record
<1>4. ASSUME NEW gens \in {{}, {rec.token}},
             Leaves(p, left, gens) \/ stuck' = [stuck EXCEPT ![p] = left]
      PROVE  /\ stuck' \in [Procs -> Stuck]
             /\ \A q \in Procs : \A g \in stuck'[q].gens : g <= rec.token + 1
  <2>1. gens \in SUBSET Nat /\ \A g \in gens : g <= rec.token + 1
    BY <1>3
  <2> QED BY <1>2, <1>4, <2>1, LeavesBounded
<1>5. CASE AcquireRefresh(o, left)
  <2>1. /\ op' = [kind |-> "refresh", owner |-> o, token |-> rec.token, expiry |-> clock + TTL,
                  call |-> "acquire"]
        /\ UNCHANGED held /\ stuck' = [stuck EXCEPT ![p] = left]
    BY <1>5 DEF AcquireRefresh
  <2>2. op' \in Op
    BY <1>3, <2>1 DEF Op
  <2>3. DecisionHolds'
    BY <1>2, <1>5, <2>1 DEF DecisionHolds, AcquireRefresh, RefreshesOwn
  <2> QED BY <1>2, <1>3, <1>4, <2>1, <2>2, <2>3, CallInv
<1>6. CASE AcquireRefused(o, left)
  <2>1. UNCHANGED <<held, op>> /\ \E gens \in {{}, {rec.token}} : Leaves(p, left, gens)
    BY <1>6 DEF AcquireRefused
  <2> QED BY <1>2, <1>3, <1>4, <2>1, CallInv, IdleDecision
<1>7. CASE AcquireTake(o, left)
  <2>1. /\ rec.owner = NoOwner \/ clock >= rec.expiry \/ ~Locked(rec.token)
        /\ \A u \in Owners : handle[u].st = "live" => clock >= handle[u].expiry
    BY <1>2, <1>7, TakeableUnused DEF AcquireTake
  <2>2. UNCHANGED held \/ Relinquish(p, rec.token)
    BY <1>7 DEF AcquireTake, RelinquishFails
  <2>3. CASE /\ Relinquish(p, rec.token)
             /\ op' = [kind |-> "take", owner |-> o, token |-> NextToken,
                       expiry |-> clock + TTL, call |-> "acquire"]
             /\ stuck' = [stuck EXCEPT ![p] = left]
    <3>1. op' \in Op
      BY <1>3, <2>3 DEF Op, NextToken
    <3>2. Locked(rec.token)' => Locked(rec.token)
      <4>1. /\ \A q \in Procs : held'[q] \subseteq held[q]
            /\ \A q \in Procs : stuck'[q].gens \subseteq stuck[q].gens
        BY <1>2, <2>3 DEF Relinquish, LeaseInv, TypeOK, Stuck
      <4>2. op'.token # rec'.token
        BY <1>2, <1>3, <2>3 DEF NextToken
      <4> QED BY <1>2, <4>1, <4>2 DEF Locked
    <3>3. DecisionHolds'
      BY <1>2, <1>3, <2>1, <2>3, <3>2 DEF DecisionHolds, NextToken
    <3> QED BY <1>2, <1>3, <1>4, <2>1, <2>3, <3>1, <3>3, CallInv
  <2>4. CASE Leaves(p, left, {}) /\ UNCHANGED op
    BY <1>2, <1>3, <1>4, <2>1, <2>2, <2>4, CallInv, IdleDecision
  <2> QED BY <1>7, <2>3, <2>4 DEF AcquireTake
<1> QED BY <1>1, <1>5, <1>6, <1>7

-----------------------------------------------------------------------------
(* writeRecord and crashes *)

\* What is known of a transition about to write.
LEMMA Deciding ==
  ASSUME LeaseInv, op # Idle
  PROVE  /\ op.kind \in {"take", "refresh", "tombstone"}
         /\ op.owner \in Owners /\ ProcOf[op.owner] \in Procs
         /\ op.token \in Nat \ {0} /\ op.expiry \in Nat
         /\ rec.token \in Nat /\ rec.token <= op.token
         /\ op.token \in {rec.token, rec.token + 1}
         /\ Written \in Record
<1>1. /\ op.kind \in {"take", "refresh", "tombstone"} /\ op.owner \in Owners
      /\ op.token \in Nat /\ op.expiry \in Nat /\ rec.token \in Nat
  BY DEF LeaseInv, TypeOK, Op, Record, DecisionHolds
<1>2. op.token \in {rec.token, rec.token + 1} /\ rec.token <= op.token
  BY <1>1 DEF LeaseInv, DecisionHolds
<1>3. op.kind # "take" => rec.token # 0
  BY <1>1 DEF LeaseInv, DecisionHolds, TokensBounded
<1>4. op.token # 0
  BY <1>1, <1>2, <1>3 DEF LeaseInv, DecisionHolds
<1>5. Written \in Record
  BY <1>1 DEF Written, Record
<1> QED BY <1>1, <1>2, <1>4, <1>5

LEMMA WriteFailsInv ==
  ASSUME LeaseInv, WriteFails
  PROVE  LeaseInv'
<1> DEFINE p == ProcOf[op.owner]
<1>1. op # Idle /\ op' = Idle /\ UNCHANGED <<clock, rec, held, pend, handle>>
  BY DEF WriteFails
<1>2. /\ p \in Procs /\ op.token \in Nat /\ op.token <= rec.token + 1 /\ rec.token \in Nat
  BY <1>1, Deciding
<1>3. PICK gens \in {{}, {op.token}}, b \in BOOLEAN :
         stuck' = [stuck EXCEPT ![p] = [stable |-> b, gens |-> stuck[p].gens \cup gens]]
  BY DEF WriteFails, Leaves
<1>4. /\ stuck' \in [Procs -> Stuck]
      /\ \A q \in Procs : \A t \in stuck'[q].gens : t <= rec.token + 1
  <2> DEFINE v == [stable |-> b, gens |-> stuck[p].gens \cup gens]
  <2>1. stuck[p].gens \in SUBSET Nat /\ gens \in SUBSET Nat
    BY <1>2 DEF LeaseInv, TypeOK, Stuck
  <2>2. v \in Stuck /\ v.gens = stuck[p].gens \cup gens
    BY <2>1 DEF Stuck
  <2>3. \A t \in v.gens : t <= rec.token + 1
    BY <1>2, <2>2 DEF LeaseInv, TokensBounded
  <2>4. stuck \in [Procs -> Stuck] /\ stuck' = [stuck EXCEPT ![p] = v]
    BY <1>3 DEF LeaseInv, TypeOK
  <2> HIDE DEF v
  <2> QED BY <1>2, <2>2, <2>3, <2>4 DEF LeaseInv, TokensBounded
<1>5. op' \in Op /\ DecisionHolds'
  BY <1>1 DEF Op, Idle, DecisionHolds
<1>6. 0 \in Nat /\ handle' \in [Owners -> Handle] /\ pend' \in [Owners -> Pend]
  BY <1>1 DEF LeaseInv, TypeOK
<1> QED BY <1>1, <1>2, <1>4, <1>5, <1>6, CallInv

LEMMA CommitInv ==
  ASSUME LeaseInv, Commit
  PROVE  LeaseInv'
<1> DEFINE o == op.owner
           p == ProcOf[o]
           stores == \/ op.call = "acquire"
                     \/ op.call = "renew" /\ handle[o].st = "live" /\ handle[o].token = op.token
<1>0. op # Idle /\ op' = Idle /\ UNCHANGED <<clock, pend>> /\ rec' = Written
  BY DEF Commit
<1>1. /\ op.kind \in {"take", "refresh", "tombstone"} /\ o \in Owners /\ p \in Procs
      /\ op.token \in Nat \ {0} /\ op.expiry \in Nat
      /\ rec.token \in Nat /\ rec.token <= op.token /\ op.token \in {rec.token, rec.token + 1}
      /\ Written \in Record
  BY <1>0, Deciding
<1>2. /\ rec'.token = op.token /\ rec'.expiry = op.expiry
      /\ rec'.owner = IF op.kind = "tombstone" THEN NoOwner ELSE o
  BY <1>0 DEF Written
<1>3. /\ held' \in [Procs -> SUBSET Nat]
      /\ \A q \in Procs \ {p} : held'[q] = held[q]
      /\ op.kind = "take" => held'[p] = held[p] \cup {op.token}
      /\ op.kind = "refresh" => held'[p] = held[p]
      /\ op.kind = "tombstone" => held'[p] \subseteq held[p]
  <2>1. held \in [Procs -> SUBSET Nat]
    BY DEF LeaseInv, TypeOK
  <2>2. CASE held' = [held EXCEPT ![p] = HeldAfter(p)]
    <3>1. HeldAfter(p) \in SUBSET Nat
      BY <1>1, <2>1 DEF HeldAfter
    <3> QED BY <1>1, <2>1, <2>2, <3>1 DEF HeldAfter
  <2>3. CASE op.kind = "tombstone" /\ RelinquishFails(p, op.token)
    BY <2>1, <2>3 DEF RelinquishFails
  <2> QED BY <2>2, <2>3 DEF Commit
<1>4. PICK b \in BOOLEAN : stuck' = [stuck EXCEPT ![p] = [stable |-> b, gens |-> stuck[p].gens \cup {}]]
  BY DEF Commit, Leaves
<1>5. /\ stuck' \in [Procs -> Stuck] /\ \A q \in Procs : stuck'[q].gens = stuck[q].gens
  BY <1>1, <1>4 DEF LeaseInv, TypeOK, Stuck
<1>6. /\ stores => handle' = [handle EXCEPT ![o] = [st |-> "live", token |-> op.token,
                                                   expiry |-> op.expiry]]
      /\ ~stores => handle' = handle
  BY DEF Commit
<1>7. /\ handle' \in [Owners -> Handle]
      /\ \A u \in Owners \ {o} : handle'[u] = handle[u]
      /\ stores => handle'[o] = [st |-> "live", token |-> op.token, expiry |-> op.expiry]
      /\ ~stores => handle'[o] = handle[o]
  <2>1. handle \in [Owners -> Handle]
    BY DEF LeaseInv, TypeOK
  <2>2. [st |-> "live", token |-> op.token, expiry |-> op.expiry] \in Handle
    BY <1>1 DEF Handle
  <2> QED BY <1>1, <1>6, <2>1, <2>2
<1> HIDE DEF stores
<1>8. TypeOK'
  BY <1>0, <1>1, <1>3, <1>5, <1>7 DEF LeaseInv, TypeOK, Op, Idle
<1>9. \A u \in Owners \ {o} : op.token \in TokensOf(u) => op.kind = "tombstone"
  <2>1. CASE op.kind = "take"
    BY <1>1, <2>1 DEF LeaseInv, DecisionHolds, TokensBounded
  <2>2. CASE op.kind = "refresh"
    BY <1>1, <2>2 DEF LeaseInv, DecisionHolds, TokensBounded
  <2> QED BY <1>1, <2>1, <2>2
<1>10. TokensBounded'
  <2>1. \A q \in Procs : \A t \in held'[q] : t # 0 /\ t <= op.token
    BY <1>1, <1>3 DEF LeaseInv, TokensBounded, TypeOK
  <2>2. \A q \in Procs : \A t \in stuck'[q].gens : t <= op.token + 1
    <3>1. \A q \in Procs : stuck[q].gens \subseteq Nat
      BY DEF LeaseInv, TypeOK, Stuck
    <3> QED BY <1>1, <1>5, <3>1 DEF LeaseInv, TokensBounded
  <2>3. /\ \A u \in Owners \ {o} : TokensOf(u)' = TokensOf(u)
        /\ \A u \in Owners : TokensOf(u)' \subseteq TokensOf(u) \cup {op.token}
    BY <1>0, <1>7 DEF TokensOf
  <2>4. \A u \in Owners : \A t \in TokensOf(u)' : t <= op.token
    <3>1. \A u \in Owners : TokensOf(u) \subseteq Nat
      BY DEF TokensOf, LeaseInv, TypeOK, Handle, Pend
    <3>2. \A u \in Owners : \A t \in TokensOf(u) : t <= op.token
      BY <1>1, <3>1 DEF LeaseInv, TokensBounded
    <3> QED BY <1>1, <2>3, <3>2
  <2>5. \A u \in Owners : op.token \in TokensOf(u)' \ {0} => rec'.owner \in {u, NoOwner}
    BY <1>2, <1>9, <2>3
  <2>6. \A u \in Owners : handle'[u].st # "none" => handle'[u].token # 0
    BY <1>1, <1>7 DEF LeaseInv, TokensBounded
  <2> QED BY <1>2, <2>1, <2>2, <2>4, <2>5, <2>6 DEF TokensBounded
<1>11. TokenIdentifiesOwner'
  <2>1. ASSUME NEW u \in Owners \ {o}, handle[u].token = op.token, stores PROVE FALSE
    <3>1. op.kind = "tombstone"
      BY <1>9, <2>1 DEF TokensOf
    <3> QED BY <2>1, <3>1 DEF stores, LeaseInv, DecisionHolds
  <2>2. CASE stores
    BY <1>7, <2>1, <2>2 DEF LeaseInv, TokenIdentifiesOwner
  <2>3. CASE ~stores
    BY <1>6, <2>3 DEF stores, LeaseInv, TokenIdentifiesOwner
  <2> QED BY <2>2, <2>3
<1>12. HeldByOwner'
  <2> SUFFICES ASSUME NEW q \in Procs, rec'.owner # NoOwner, rec'.token \in held'[q]
               PROVE  q = ProcOf[rec'.owner]
    BY DEF HeldByOwner
  <2>1. rec'.owner = o /\ op.kind \in {"take", "refresh"}
    BY <1>1, <1>2
  <2>2. CASE op.kind = "take"
    <3>1. op.token = rec.token + 1
      BY <2>2 DEF LeaseInv, DecisionHolds
    <3>2. op.token \notin held[q]
      BY <1>1, <3>1 DEF LeaseInv, TokensBounded
    <3> QED BY <1>2, <1>3, <2>1, <2>2, <3>2
  <2>3. CASE op.kind = "refresh"
    BY <1>1, <1>2, <1>3, <2>1, <2>3 DEF LeaseInv, HeldByOwner, DecisionHolds
  <2> QED BY <2>1, <2>2, <2>3
<1>13. LiveHandleIsRecord'
  <2> SUFFICES ASSUME NEW u \in Owners, handle'[u].st = "live", ~(clock >= handle'[u].expiry)
               PROVE  /\ rec'.owner = u /\ rec'.token = handle'[u].token
                      /\ handle'[u].expiry <= rec'.expiry /\ rec'.token \in held'[ProcOf[u]]
    BY <1>0 DEF LiveHandleIsRecord
  <2>1. CASE u = o /\ stores
    <3>1. op.kind \in {"take", "refresh"}
      BY <1>1, <2>1 DEF stores, LeaseInv, DecisionHolds
    <3>2. op.token \in held'[p]
      BY <1>3, <3>1 DEF LeaseInv, DecisionHolds
    <3> QED BY <1>1, <1>2, <1>7, <2>1, <3>1, <3>2
  <2>2. CASE ~(u = o /\ stores)
    <3>1. handle'[u] = handle[u]
      BY <1>7, <2>2
    <3>2. /\ rec.owner = u /\ rec.token = handle[u].token /\ handle[u].expiry <= rec.expiry
          /\ rec.token \in held[ProcOf[u]]
      BY <3>1 DEF LeaseInv, LiveHandleIsRecord
    <3>3. op.kind # "take"
      <4>1. Locked(rec.token)
        BY <3>2 DEF Locked
      <4>2. rec.owner # NoOwner /\ ~(clock >= rec.expiry)
        BY <3>1, <3>2 DEF LeaseInv, TypeOK, Record, Handle
      <4> QED BY <4>1, <4>2 DEF LeaseInv, DecisionHolds
    <3>4. u = o /\ op.token = rec.token
      BY <1>1, <3>2, <3>3 DEF LeaseInv, DecisionHolds
    <3>5. op.kind # "tombstone"
      BY <3>1, <3>4 DEF LeaseInv, DecisionHolds
    <3>6. stores
      BY <1>1, <3>1, <3>2, <3>3, <3>4, <3>5 DEF stores, LeaseInv, DecisionHolds, TypeOK, Op
    <3> QED BY <2>2, <3>4, <3>6
  <2> QED BY <2>1, <2>2
<1>14. ReleaseForgets'
  <2> SUFFICES ASSUME NEW u \in Owners, pend[u].release # 0 PROVE handle'[u].st = "released"
    BY <1>0 DEF ReleaseForgets
  <2>0. DecisionHolds /\ ReleaseForgets
    BY DEF LeaseInv
  <2>1. handle[u].st = "released"
    BY <2>0 DEF ReleaseForgets
  <2>2. u = o => ~stores
    BY <1>1, <2>0, <2>1 DEF stores, DecisionHolds
  <2> QED BY <1>7, <2>1, <2>2
<1>15. DecisionHolds'
  BY <1>0 DEF DecisionHolds, Idle
<1> QED BY <1>8, <1>10, <1>11, <1>12, <1>13, <1>14, <1>15 DEF LeaseInv

LEMMA CrashInv ==
  ASSUME LeaseInv, NEW p \in Procs, Crash(p)
  PROVE  LeaseInv'
<1> DEFINE mine == op # Idle /\ ProcOf[op.owner] = p
<1>0. /\ op' = IF mine THEN Idle ELSE op
      /\ rec' = rec \/ (mine /\ rec' = Written)
      /\ held' = [held EXCEPT ![p] = {}]
      /\ stuck' = [stuck EXCEPT ![p] = NoStuck]
      /\ pend' = [u \in Owners |-> IF ProcOf[u] = p THEN NoPend ELSE pend[u]]
      /\ handle' = [u \in Owners |-> IF ProcOf[u] = p THEN NoHandle ELSE handle[u]]
      /\ clock' = clock
  BY DEF Crash
<1>1. /\ held' \in [Procs -> SUBSET Nat] /\ held'[p] = {}
      /\ \A q \in Procs : held'[q] \subseteq held[q]
      /\ \A q \in Procs \ {p} : held'[q] = held[q]
  BY <1>0 DEF LeaseInv, TypeOK
<1>2. /\ stuck' \in [Procs -> Stuck]
      /\ \A q \in Procs : stuck'[q].gens \subseteq stuck[q].gens
  BY <1>0 DEF LeaseInv, TypeOK, Stuck, NoStuck
<1>3. /\ pend' \in [Owners -> Pend] /\ handle' \in [Owners -> Handle]
      /\ \A u \in Owners : ProcOf[u] # p => pend'[u] = pend[u] /\ handle'[u] = handle[u]
      /\ \A u \in Owners : ProcOf[u] = p => pend'[u] = NoPend /\ handle'[u] = NoHandle
  BY <1>0 DEF LeaseInv, TypeOK, Pend, NoPend, Handle, NoHandle
<1>4. \A u \in Owners : TokensOf(u)' \subseteq TokensOf(u) \cup {0}
  BY <1>3 DEF TokensOf, NoPend, NoHandle
<1>5. /\ \A u \in Owners : handle'[u].st # "none" => handle'[u] = handle[u] /\ ProcOf[u] # p
      /\ \A u \in Owners : pend'[u].release # 0 => pend'[u] = pend[u] /\ ProcOf[u] # p
  BY <1>3 DEF NoPend, NoHandle
<1>6. rec \in Record /\ op \in Op /\ Idle \in Op /\ rec.token \in Nat
  BY DEF LeaseInv, TypeOK, Op, Idle, Record
<1>7. /\ rec' \in Record /\ rec'.token \in Nat /\ rec.token <= rec'.token
      /\ rec'.token \in {rec.token, rec.token + 1}
  <2>1. CASE rec' = rec
    BY <1>6, <2>1
  <2>2. CASE mine /\ rec' = Written
    BY <2>2, <1>6, Deciding DEF Written
  <2> QED BY <1>0, <2>1, <2>2
<1>8. TypeOK'
  BY <1>0, <1>1, <1>2, <1>3, <1>6, <1>7 DEF LeaseInv, TypeOK
<1>9. \A u \in Owners : rec'.token \in TokensOf(u)' \ {0} => rec'.owner \in {u, NoOwner}
  <2> SUFFICES ASSUME NEW u \in Owners, rec'.token \in TokensOf(u), rec'.token # 0
               PROVE  rec'.owner \in {u, NoOwner}
    BY <1>4
  <2>1. rec'.token = rec.token
    <3>1. rec'.token <= rec.token
      BY DEF LeaseInv, TokensBounded
    <3> QED BY <1>6, <1>7, <3>1
  <2>2. rec.owner \in {u, NoOwner}
    BY <2>1 DEF LeaseInv, TokensBounded
  <2>3. CASE mine /\ rec' = Written
    <3>1. op.token = rec.token /\ op.kind # "none"
      BY <2>1, <2>3, Deciding DEF Written
    <3>2. op.kind # "take"
      <4>1. op.kind = "take" => op.token = rec.token + 1
        BY DEF LeaseInv, DecisionHolds
      <4> QED BY <1>6, <3>1, <4>1
    <3>3. rec.owner = op.owner
      BY <3>1, <3>2, <2>3, Deciding DEF LeaseInv, DecisionHolds
    <3> QED BY <2>2, <2>3, <3>3 DEF Written
  <2> QED BY <1>0, <2>2, <2>3
<1>10. TokensBounded'
  <2>1. \A q \in Procs : \A t \in held'[q] : t # 0 /\ t <= rec'.token
    BY <1>1, <1>6, <1>7 DEF LeaseInv, TokensBounded, TypeOK
  <2>2. \A q \in Procs : \A t \in stuck'[q].gens : t <= rec'.token + 1
    <3>1. \A q \in Procs : stuck[q].gens \subseteq Nat
      BY DEF LeaseInv, TypeOK, Stuck
    <3>2. \A q \in Procs : \A t \in stuck[q].gens : t <= rec.token + 1
      BY DEF LeaseInv, TokensBounded
    <3> QED BY <1>2, <1>6, <1>7, <3>1, <3>2
  <2>3. \A u \in Owners : \A t \in TokensOf(u)' : t <= rec'.token
    <3>1. \A u \in Owners : TokensOf(u) \subseteq Nat
      BY DEF TokensOf, LeaseInv, TypeOK, Handle, Pend
    <3>2. \A u \in Owners : \A t \in TokensOf(u) : t <= rec.token
      BY DEF LeaseInv, TokensBounded
    <3> QED BY <1>4, <1>6, <1>7, <3>1, <3>2
  <2>4. \A u \in Owners : handle'[u].st # "none" => handle'[u].token # 0
    BY <1>5 DEF LeaseInv, TokensBounded
  <2> QED BY <1>9, <2>1, <2>2, <2>3, <2>4 DEF TokensBounded
<1>11. TokenIdentifiesOwner'
  BY <1>5 DEF LeaseInv, TokenIdentifiesOwner
<1>12. HeldByOwner'
  <2> SUFFICES ASSUME NEW q \in Procs, rec'.owner # NoOwner, rec'.token \in held'[q]
               PROVE  q = ProcOf[rec'.owner]
    BY DEF HeldByOwner
  <2>1. q # p /\ rec'.token \in held[q]
    BY <1>1
  <2>2. rec'.token = rec.token
    <3>1. rec'.token <= rec.token
      BY <2>1 DEF LeaseInv, TokensBounded
    <3> QED BY <1>6, <1>7, <3>1
  <2>3. CASE mine /\ rec' = Written
    <3>1. op.token = rec.token /\ op.kind # "none" /\ op.owner \in Owners
      BY <2>2, <2>3, Deciding DEF Written
    <3>2. op.kind # "take"
      <4>1. op.kind = "take" => op.token = rec.token + 1
        BY DEF LeaseInv, DecisionHolds
      <4> QED BY <1>6, <3>1, <4>1
    <3>3. rec.owner = op.owner
      BY <3>1, <3>2, <2>3, Deciding DEF LeaseInv, DecisionHolds
    <3>4. rec'.owner = op.owner
      BY <2>3 DEF Written
    <3> QED BY <2>1, <2>2, <3>1, <3>3, <3>4 DEF LeaseInv, HeldByOwner
  <2>4. CASE rec' = rec
    BY <2>1, <2>4 DEF LeaseInv, HeldByOwner
  <2> QED BY <1>0, <2>3, <2>4
<1>13. LiveHandleIsRecord'
  <2> SUFFICES ASSUME NEW u \in Owners, handle'[u].st = "live", ~(clock >= handle'[u].expiry)
               PROVE  /\ rec'.owner = u /\ rec'.token = handle'[u].token
                      /\ handle'[u].expiry <= rec'.expiry /\ rec'.token \in held'[ProcOf[u]]
    BY <1>0 DEF LiveHandleIsRecord
  <2>1. handle'[u] = handle[u] /\ ProcOf[u] # p
    BY <1>5
  <2>2. /\ rec.owner = u /\ rec.token = handle[u].token /\ handle[u].expiry <= rec.expiry
        /\ rec.token \in held[ProcOf[u]]
    BY <2>1 DEF LeaseInv, LiveHandleIsRecord
  <2>3. ~mine
    <3> SUFFICES ASSUME mine PROVE FALSE
      OBVIOUS
    <3>1. op.kind \in {"refresh", "tombstone"} => rec.owner = op.owner
      BY DEF LeaseInv, DecisionHolds
    <3>2. op.kind = "take"
      BY <2>1, <2>2, <3>1, Deciding
    <3>3. Locked(rec.token)
      BY <2>2 DEF Locked
    <3>4. rec.owner # NoOwner /\ ~(clock >= rec.expiry)
      BY <2>1, <2>2 DEF LeaseInv, TypeOK, Record, Handle
    <3> QED BY <3>2, <3>3, <3>4 DEF LeaseInv, DecisionHolds
  <2> QED BY <1>0, <1>1, <2>1, <2>2, <2>3
<1>14. ReleaseForgets'
  BY <1>3, <1>5 DEF LeaseInv, ReleaseForgets
<1>15. DecisionHolds'
  <2>1. CASE mine
    BY <1>0, <2>1 DEF DecisionHolds, Idle
  <2>2. CASE op = Idle
    BY <1>0, <2>2 DEF DecisionHolds, Idle
  <2>3. CASE op # Idle /\ ~mine
    <3>1. op' = op /\ rec' = rec
      BY <1>0, <2>3
    <3>2. op.owner \in Owners /\ ProcOf[op.owner] \in Procs \ {p}
      BY <2>3, Deciding
    <3>3. /\ held'[ProcOf[op.owner]] = held[ProcOf[op.owner]]
          /\ handle'[op.owner] = handle[op.owner] /\ pend'[op.owner] = pend[op.owner]
      BY <1>1, <1>3, <3>2
    <3>4. Locked(rec.token)' => Locked(rec.token)
      BY <1>1, <1>2, <3>1 DEF Locked
    <3> QED BY <1>0, <3>1, <3>2, <3>3, <3>4 DEF LeaseInv, DecisionHolds
  <2> QED BY <2>1, <2>2, <2>3
<1> QED BY <1>8, <1>10, <1>11, <1>12, <1>13, <1>14, <1>15 DEF LeaseInv

-----------------------------------------------------------------------------
(* The theorems *)

LEMMA NextLeaseInv ==
  ASSUME LeaseInv, [Next]_vars
  PROVE  LeaseInv'
<1>1. CASE Next
  BY <1>1, TickInv, CommitInv, WriteFailsInv, CrashInv, AcquireInv, BeginRenewInv,
     BeginReleaseInv, GiveUpInv, RenewInv, ReleaseInv, DropInv DEF Next
<1>2. CASE UNCHANGED vars
  <2> USE <1>2 DEF vars
  <2>1. TypeOK' /\ TokensBounded' /\ TokenIdentifiesOwner'
    BY DEF LeaseInv, TypeOK, TokensBounded, TokensOf, TokenIdentifiesOwner
  <2>2. HeldByOwner' /\ LiveHandleIsRecord' /\ ReleaseForgets'
    BY DEF LeaseInv, HeldByOwner, LiveHandleIsRecord, ReleaseForgets
  <2>3. DecisionHolds'
    BY DEF LeaseInv, DecisionHolds, Locked
  <2> QED BY <2>1, <2>2, <2>3 DEF LeaseInv
<1> QED BY <1>1, <1>2

\* The invariant behind every other result, for any number of owners and
\* processes: Acquire, Renew, Release and crashes keep the record, the generation
\* locks and the handed-out leases consistent.
THEOREM LeaseInvariant == Spec => []LeaseInv
<1> QED BY InitLeaseInv, NextLeaseInv, PTL DEF Spec

\* No two owners rely on the lease at once, although an expired hold may be
\* renewed back to life and a crashed one replaced before its expiry.
THEOREM ExclusionHolds == Spec => []Exclusion
<1>1. LeaseInv => Exclusion
  BY DEF LeaseInv, TypeOK, Handle, LiveHandleIsRecord, Exclusion, Relying
<1> QED BY <1>1, LeaseInvariant, PTL

\* A fencing token belongs to one owner for ever.
THEOREM TokensUnique == Spec => []TokenIdentifiesOwner
<1>1. LeaseInv => TokenIdentifiesOwner
  BY DEF LeaseInv
<1> QED BY <1>1, LeaseInvariant, PTL

\* While no lock failed to close, the recorded generation is locked by its owner's
\* process or by nobody: a crash frees the session at once.
THEOREM CrashFreesSession == Spec => []LockIsTheHolders
<1>1. ASSUME LeaseInv, \A p \in Procs : stuck[p] = NoStuck
      PROVE  /\ rec.owner # NoOwner /\ Locked(rec.token) => rec.token \in held[ProcOf[rec.owner]]
             /\ op.kind # "take" => ~Locked(rec.token + 1)
  <2>1. rec.token \in Nat /\ \A p \in Procs : stuck[p].gens = {} /\ held[p] \subseteq Nat
    BY <1>1 DEF NoStuck, LeaseInv, TypeOK, Record
  <2>2. ASSUME NEW t, Locked(t), op.kind = "take" => op.token # t
        PROVE  \E p \in Procs : t \in held[p]
    BY <2>1, <2>2 DEF Locked
  <2>3. op.kind = "take" => op.token # rec.token
    BY <1>1, <2>1 DEF LeaseInv, DecisionHolds
  <2>4. rec.owner # NoOwner /\ Locked(rec.token) => rec.token \in held[ProcOf[rec.owner]]
    BY <1>1, <2>2, <2>3 DEF LeaseInv, HeldByOwner
  <2>5. op.kind # "take" => ~Locked(rec.token + 1)
    BY <1>1, <2>1, <2>2 DEF LeaseInv, TokensBounded
  <2> QED BY <2>4, <2>5
<1>2. LeaseInv => LockIsTheHolders
  BY <1>1 DEF LockIsTheHolders
<1> QED BY <1>2, LeaseInvariant, PTL

\* A step either leaves the record alone or writes what was decided.
LEMMA RecordSteps ==
  ASSUME LeaseInv, [Next]_vars
  PROVE  rec' = rec \/ (op # Idle /\ rec' = Written)
  BY DEF Next, vars, Tick, Commit, WriteFails, Crash, Acquire, BeginRenew, BeginRelease, GiveUp,
         Renew, Release, Drop

pholder == [s \in {Sid} |-> rec.owner]
ptoken == [s \in {Sid} |-> rec.token]
plapsed == [s \in {Sid} |-> rec.owner # NoOwner /\ ~(Unexpired /\ Locked(rec.token))]

\* Writing the record is a takeover, a refresh or a relinquishment of the port.
LEMMA WriteRefines ==
  ASSUME LeaseInv, op # Idle, rec' = Written
  PROVE  Port!ANext
<1>1. /\ op.kind \in {"take", "refresh", "tombstone"} /\ op.owner \in Owners
  BY Deciding
<1>2. plapsed'[Sid] \in BOOLEAN /\ plapsed' = [plapsed EXCEPT ![Sid] = plapsed'[Sid]]
  BY DEF plapsed
<1>3. CASE op.kind = "take"
  <2>1. rec'.owner = op.owner /\ rec'.token = rec.token + 1
    BY <1>3 DEF Written, LeaseInv, DecisionHolds
  <2>2. rec.owner = NoOwner \/ plapsed[Sid]
    <3>1. rec.owner = NoOwner \/ clock >= rec.expiry \/ ~Locked(rec.token)
      BY <1>3 DEF LeaseInv, DecisionHolds
    <3>2. clock >= rec.expiry => ~Unexpired
      BY DEF Unexpired, LeaseInv, TypeOK, Record
    <3> QED BY <3>1, <3>2, Zenon DEF plapsed
  <2>3. /\ pholder' = [pholder EXCEPT ![Sid] = op.owner]
        /\ ptoken' = [ptoken EXCEPT ![Sid] = @ + 1]
    BY <2>1 DEF pholder, ptoken
  <2>4. Port!Takeover(Sid, op.owner)
    BY <1>2, <2>2, <2>3 DEF Port!Takeover, pholder, ptoken, plapsed
  <2> QED BY <1>1, <2>4 DEF Port!ANext
<1>4. CASE op.kind = "refresh"
  <2>1. rec'.owner = rec.owner /\ rec'.token = rec.token /\ rec.owner # NoOwner
    BY <1>1, <1>4 DEF Written, LeaseInv, DecisionHolds
  <2>2. Port!Refresh(Sid)
    BY <1>2, <2>1 DEF Port!Refresh, plapsed
  <2> QED BY <2>2 DEF Port!ANext
<1>5. CASE op.kind = "tombstone"
  <2>1. rec'.owner = NoOwner /\ rec'.token = rec.token /\ rec.owner # NoOwner
    BY <1>1, <1>5 DEF Written, LeaseInv, DecisionHolds
  <2>2. /\ pholder' = [pholder EXCEPT ![Sid] = NoOwner]
        /\ plapsed' = [plapsed EXCEPT ![Sid] = FALSE]
    BY <2>1 DEF pholder, plapsed
  <2>3. Port!Relinquish(Sid)
    BY <2>1, <2>2 DEF Port!Relinquish, pholder, plapsed
  <2> QED BY <2>3 DEF Port!ANext
<1> QED BY <1>1, <1>3, <1>4, <1>5

\* Any other step can at most let a hold lapse, or revive one by a kept lock.
LEMMA QuietRefines ==
  ASSUME LeaseInv, rec' = rec
  PROVE  [Port!ANext]_(Port!avars)
<1>1. CASE rec.owner = NoOwner
  BY <1>1 DEF Port!avars
<1>2. CASE rec.owner # NoOwner
  <2>1. plapsed'[Sid] \in BOOLEAN /\ plapsed' = [plapsed EXCEPT ![Sid] = plapsed'[Sid]]
    BY DEF plapsed
  <2>2. Port!Refresh(Sid)
    BY <1>2, <2>1 DEF Port!Refresh, plapsed
  <2> QED BY <2>2 DEF Port!ANext
<1> QED BY <1>1, <1>2

\* The file-lock backend implements the contract of port.SessionLease under every
\* interleaving of calls, failed writes, failed closes and crashes.
THEOREM RefinesPort == Spec => PortSpec
<1>1. Init => Port!AInit
  <2> SUFFICES ASSUME Init PROVE Port!AInit
    OBVIOUS
  <2>1. rec.owner = NoOwner /\ rec.token = 0
    BY DEF Init, NoRecord
  <2> QED BY <2>1, Zenon DEF Port!AInit
<1>2. ASSUME LeaseInv, [Next]_vars PROVE [Port!ANext]_(Port!avars)
  BY <1>2, RecordSteps, WriteRefines, QuietRefines
<1> QED BY <1>1, <1>2, InitLeaseInv, NextLeaseInv, PTL DEF Spec, PortSpec, Port!ASpec
=============================================================================
