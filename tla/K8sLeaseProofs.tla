--------------------------- MODULE K8sLeaseProofs ---------------------------
(***************************************************************************)
(* Proofs about the Kubernetes lease for every set of replicas, every TTL, *)
(* every clock skew and every loss of replies.  LeaseInv is inductive;     *)
(* exclusion, token uniqueness, the reach of a tombstone and the           *)
(* refinement of the port contract follow from it.                         *)
(***************************************************************************)
EXTENDS K8sLease, TLAPS

USE NoOwnerAssumption, TimeAssumption, BoundsAssumption

\* leaseDurationSeconds never exceeds the TTL.
LEMMA DurationBound == Duration \in Nat /\ Duration <= TTL
  BY DEF Duration

LEMMA SlotSet == "main" \in Slots /\ "renew" \in Slots /\ "main" # "renew"
                 /\ Slots = {"main", "renew"}
  BY DEF Slots

LEMMA NoCallType == NoCall \in Call /\ NoCall.op = "none" /\ NoCall.now = 0 /\ NoCall.pc = "get"
                    /\ NoCall.seen.rv = 0
  BY DEF NoCall, Call, Absent, Object

\* Replacing one call leaves the others alone.
LEMMA CallSet ==
  ASSUME call \in [Owners -> [Slots -> Call]], NEW o \in Owners, NEW k \in Slots, NEW c \in Call,
         call' = [call EXCEPT ![o][k] = c]
  PROVE  /\ call' \in [Owners -> [Slots -> Call]]
         /\ call'[o][k] = c
         /\ \A j \in Slots : j # k => call'[o][j] = call[o][j]
         /\ \A u \in Owners : u # o => call'[u] = call[u]
  OBVIOUS

\* No object, no calls and no handles satisfy the inductive invariant.
LEMMA InitLeaseInv == Init => LeaseInv
<1> SUFFICES ASSUME Init PROVE LeaseInv
  OBVIOUS
<1> USE DEF Init
<1>1. TypeOK
  <2>1. Absent \in Object /\ NoHandle \in Handle
    BY DEF Absent, Object, NoHandle, Handle
  <2> QED BY <2>1, NoCallType DEF TypeOK
<1>2. ReadsInPast /\ SnapshotsTrue /\ SkewBounded /\ TombstoneExpired
  BY NoCallType DEF ReadsInPast, SnapshotsTrue, SkewBounded, TombstoneExpired, Absent
<1>3. LiveHandleIsObject /\ TokensBounded /\ TokenIdentifiesOwner
  BY DEF LiveHandleIsObject, TokensBounded, TokenIdentifiesOwner, Absent, NoHandle
<1>4. SlotsAgree
  BY NoCallType, SlotSet DEF SlotsAgree, SlotsAgreeOf, NoHandle
<1> QED BY <1>1, <1>2, <1>3, <1>4 DEF LeaseInv

\* A call that begins has read the clock now, and may still be answered.
LEMMA BeginsFacts ==
  ASSUME LeaseInv, NEW o \in Owners, NEW k \in Slots, NEW op \in {"acquire", "renew"},
         NEW tok \in Nat, Begins(o, k, op, tok)
  PROVE  /\ call' \in [Owners -> [Slots -> Call]] /\ UNCHANGED <<clock, obj>>
         /\ call[o][k].op = "none"
         /\ call'[o][k].op = op /\ call'[o][k].pc = "get" /\ call'[o][k].now = clock[o]
         /\ call'[o][k].token = tok /\ call'[o][k].seen = Absent
         /\ \A j \in Slots : j # k => call'[o][j] = call[o][j]
         /\ \A u \in Owners : u # o => call'[u] = call[u]
<1> DEFINE c == [op |-> op, pc |-> "get", now |-> clock[o], token |-> tok, seen |-> Absent]
<1>1. c \in Call /\ c.op = op /\ c.pc = "get" /\ c.now = clock[o] /\ c.token = tok /\ c.seen = Absent
  BY DEF Call, Absent, Object, LeaseInv, TypeOK
<1>2. call \in [Owners -> [Slots -> Call]] /\ call' = [call EXCEPT ![o][k] = c]
      /\ call[o][k].op = "none" /\ UNCHANGED <<clock, obj>>
  BY DEF Begins, LeaseInv, TypeOK
<1> HIDE DEF c
<1> QED BY <1>1, <1>2, CallSet

\* What every beginning or ending call preserves.
LEMMA CallStep ==
  ASSUME LeaseInv, UNCHANGED obj, call' \in [Owners -> [Slots -> Call]],
         clock' \in [Owners -> Nat], \A u \in Owners : clock[u] <= clock'[u],
         SkewBounded', handle' \in [Owners -> Handle],
         \A u \in Owners, j \in Slots :
            \/ call'[u][j] = call[u][j]
            \/ /\ call'[u][j].now <= clock'[u]
               /\ call'[u][j].seen.rv <= obj.rv
               /\ call'[u][j].pc = "put" => call'[u][j].seen = obj /\ Proceeds(u, call'[u][j]),
         \A u \in Owners :
            /\ handle'[u].token = handle[u].token /\ handle'[u].expiry = handle[u].expiry
            /\ handle'[u].st = "live" => handle[u].st = "live"
            /\ handle'[u].st # "none" => handle[u].st # "none",
         SlotsAgree'
  PROVE  LeaseInv'
<1>1. TypeOK'
  BY DEF LeaseInv, TypeOK
<1>2. ReadsInPast'
  <2> SUFFICES ASSUME NEW u \in Owners, NEW j \in Slots PROVE call'[u][j].now <= clock'[u]
    BY DEF ReadsInPast
  <2>1. call[u][j].now <= clock[u] /\ clock[u] <= clock'[u]
    BY DEF LeaseInv, ReadsInPast
  <2>2. call[u][j].now \in Int /\ clock[u] \in Nat /\ clock'[u] \in Nat
    BY DEF LeaseInv, TypeOK, Call
  <2> QED BY <2>1, <2>2
<1>3. SnapshotsTrue'
  <2> SUFFICES ASSUME NEW u \in Owners, NEW j \in Slots
               PROVE  /\ call'[u][j].seen.rv <= obj.rv
                      /\ call'[u][j].seen.rv = obj.rv /\ call'[u][j].pc = "put" => call'[u][j].seen = obj
                      /\ call'[u][j].op # "none" /\ call'[u][j].pc = "put" => Proceeds(u, call[u][j])'
    BY DEF SnapshotsTrue
  <2>1. CASE call'[u][j] = call[u][j]
    BY <2>1 DEF LeaseInv, SnapshotsTrue
  <2>2. CASE call'[u][j] # call[u][j]
    BY <2>2
  <2> QED BY <2>1, <2>2
<1>4. LiveHandleIsObject'
  <2> SUFFICES ASSUME NEW u \in Owners, handle[u].st = "live"
               PROVE  \/ \E p \in Owners : clock'[p] >= handle[u].expiry
                      \/ /\ obj.holder = u /\ obj.token = handle[u].token
                         /\ handle[u].expiry <= obj.expiry
    BY DEF LiveHandleIsObject
  <2>1. CASE \E p \in Owners : clock[p] >= handle[u].expiry
    <3>1. PICK p \in Owners : clock[p] >= handle[u].expiry
      BY <2>1
    <3>2. clock[p] \in Nat /\ clock'[p] \in Nat /\ handle[u].expiry \in Int /\ clock[p] <= clock'[p]
      BY DEF LeaseInv, TypeOK, Handle
    <3>3. clock'[p] >= handle[u].expiry
      BY <3>1, <3>2
    <3> QED BY <3>3
  <2> QED BY <2>1 DEF LeaseInv, LiveHandleIsObject
<1>5. TokensBounded' /\ TokenIdentifiesOwner'
  BY DEF LeaseInv, TokensBounded, TokenIdentifiesOwner
<1>6. TombstoneExpired'
  <2> SUFFICES ASSUME obj.rv # 0, obj.holder = NoOwner
               PROVE  \E u \in Owners : obj.expiry + Second <= clock'[u]
    BY DEF TombstoneExpired
  <2>1. PICK u \in Owners : obj.expiry + Second <= clock[u]
    BY DEF LeaseInv, TombstoneExpired
  <2>2. clock[u] \in Nat /\ clock'[u] \in Nat /\ obj.expiry \in Int /\ clock[u] <= clock'[u]
    BY DEF LeaseInv, TypeOK, Object
  <2>3. obj.expiry + Second <= clock'[u]
    BY <2>1, <2>2
  <2> QED BY <2>3
<1> QED BY <1>1, <1>2, <1>3, <1>4, <1>5, <1>6 DEF LeaseInv

\* An owner whose calls, handle and clock did not move still agrees.
LEMMA OthersAgree ==
  ASSUME LeaseInv, NEW u \in Owners, call'[u] = call[u], handle'[u] = handle[u],
         clock'[u] = clock[u], obj' = obj
  PROVE  SlotsAgreeOf(u)'
  BY DEF LeaseInv, SlotsAgree, SlotsAgreeOf

LEMMA SameClock ==
  ASSUME LeaseInv, clock' = clock
  PROVE  /\ clock' \in [Owners -> Nat] /\ SkewBounded'
         /\ \A u \in Owners : clock[u] <= clock'[u]
  BY DEF LeaseInv, TypeOK, SkewBounded

LEMMA BeginAcquireInv ==
  ASSUME LeaseInv, NEW o \in Owners, BeginAcquire(o)
  PROVE  LeaseInv'
<1>1. /\ Begins(o, "main", "acquire", 0) /\ handle' = handle /\ handle[o].st # "live"
      /\ call[o]["renew"].op # "none" => handle[o].st = "released"
  BY DEF BeginAcquire
<1>2. /\ call' \in [Owners -> [Slots -> Call]] /\ UNCHANGED <<clock, obj>>
      /\ call'[o]["main"].op = "acquire" /\ call'[o]["main"].pc = "get"
      /\ call'[o]["main"].now = clock[o] /\ call'[o]["main"].seen = Absent
      /\ call'[o]["renew"] = call[o]["renew"]
      /\ \A u \in Owners : u # o => call'[u] = call[u]
  BY <1>1, BeginsFacts, SlotSet
<1>3. SlotsAgree'
  <2>1. SlotsAgreeOf(o)'
    BY <1>1, <1>2 DEF LeaseInv, SlotsAgree, SlotsAgreeOf
  <2> QED BY <1>1, <1>2, <2>1, OthersAgree DEF SlotsAgree
<1>4. Absent.rv <= obj.rv /\ clock[o] <= clock[o]
  BY DEF Absent, LeaseInv, TypeOK, Object
<1>5. handle' \in [Owners -> Handle]
  BY <1>1 DEF LeaseInv, TypeOK
<1> QED BY <1>1, <1>2, <1>3, <1>4, <1>5, SlotSet, SameClock, CallStep

LEMMA BeginRenewInv ==
  ASSUME LeaseInv, NEW o \in Owners, BeginRenew(o)
  PROVE  LeaseInv'
<1>1. /\ Begins(o, "renew", "renew", handle[o].token) /\ handle' = handle /\ handle[o].st = "live"
      /\ handle[o].token \in Nat
  BY DEF BeginRenew, LeaseInv, TypeOK, Handle
<1>2. /\ call' \in [Owners -> [Slots -> Call]] /\ UNCHANGED <<clock, obj>>
      /\ call'[o]["renew"].op = "renew" /\ call'[o]["renew"].pc = "get"
      /\ call'[o]["renew"].now = clock[o] /\ call'[o]["renew"].seen = Absent
      /\ call'[o]["main"] = call[o]["main"]
      /\ \A u \in Owners : u # o => call'[u] = call[u]
  BY <1>1, BeginsFacts, SlotSet
<1>3. SlotsAgree'
  <2>1. SlotsAgreeOf(o)'
    BY <1>1, <1>2 DEF LeaseInv, SlotsAgree, SlotsAgreeOf
  <2> QED BY <1>1, <1>2, <2>1, OthersAgree DEF SlotsAgree
<1>4. Absent.rv <= obj.rv /\ clock[o] <= clock[o]
  BY DEF Absent, LeaseInv, TypeOK, Object
<1>5. handle' \in [Owners -> Handle]
  BY <1>1 DEF LeaseInv, TypeOK
<1> QED BY <1>1, <1>2, <1>3, <1>4, <1>5, SlotSet, SameClock, CallStep

\* Cancelling a renewer ends a call that has not been sent.
LEMMA CancelledType ==
  ASSUME NEW c \in Call
  PROVE  Cancelled(c) \in Call /\ Cancelled(c) \in {c, NoCall}
         /\ (Cancelled(c).op # "none" => c.pc = "put" /\ Cancelled(c) = c)
  BY NoCallType DEF Cancelled, Call

LEMMA BeginReleaseInv ==
  ASSUME LeaseInv, NEW o \in Owners, BeginRelease(o)
  PROVE  LeaseInv'
<1> DEFINE c == [op |-> "release", pc |-> "get", now |-> clock[o],
                 token |-> handle[o].token, seen |-> Absent]
           v == [k \in Slots |-> IF k = "main" THEN c ELSE Cancelled(call[o][k])]
<1>1. /\ call' = [call EXCEPT ![o] = v] /\ UNCHANGED <<clock, obj>>
      /\ handle' = [handle EXCEPT ![o].st = "released"]
      /\ handle[o].st \in {"live", "dropped"}
  BY DEF BeginRelease
<1>2. c \in Call /\ c.op = "release" /\ c.now = clock[o] /\ c.seen = Absent /\ c.pc = "get"
  BY DEF Call, Absent, Object, LeaseInv, TypeOK, Handle
<1>3. call \in [Owners -> [Slots -> Call]] /\ handle \in [Owners -> Handle]
  BY DEF LeaseInv, TypeOK
<1> HIDE DEF c
<1>4. call[o]["renew"] \in Call
  BY <1>3, SlotSet
<1>5. v \in [Slots -> Call] /\ v["main"] = c /\ v["renew"] = Cancelled(call[o]["renew"])
  BY <1>2, <1>3, CancelledType, SlotSet
<1> HIDE DEF v
<1>6. /\ call' \in [Owners -> [Slots -> Call]]
      /\ call'[o]["main"] = c /\ call'[o]["renew"] = Cancelled(call[o]["renew"])
      /\ \A u \in Owners : u # o => call'[u] = call[u]
  BY <1>1, <1>3, <1>5
<1>7. /\ handle' \in [Owners -> Handle] /\ handle'[o].st = "released"
      /\ handle'[o].token = handle[o].token /\ handle'[o].expiry = handle[o].expiry
      /\ \A u \in Owners : u # o => handle'[u] = handle[u]
  BY <1>1, <1>3 DEF Handle
<1>8. SlotsAgree'
  <2>1. SlotsAgreeOf(o)'
    BY <1>2, <1>4, <1>6, <1>7, CancelledType, NoCallType DEF LeaseInv, SlotsAgree, SlotsAgreeOf
  <2> QED BY <1>1, <1>6, <1>7, <2>1, OthersAgree DEF SlotsAgree
<1>9. Absent.rv <= obj.rv /\ clock[o] <= clock[o] /\ NoCall.now <= clock[o] /\ NoCall.seen.rv <= obj.rv
  BY NoCallType DEF Absent, LeaseInv, TypeOK, Object
<1>10. call'[o]["renew"] \in {call[o]["renew"], NoCall}
  BY <1>4, <1>6, CancelledType
<1> QED BY <1>1, <1>2, <1>6, <1>7, <1>8, <1>9, <1>10, NoCallType, SlotSet, SameClock, CallStep

LEMMA DropInv ==
  ASSUME LeaseInv, NEW o \in Owners, Drop(o)
  PROVE  LeaseInv'
<1>1. /\ UNCHANGED <<clock, obj>> /\ handle' = [handle EXCEPT ![o].st = "dropped"]
      /\ handle[o].st = "live"
      /\ call' = [call EXCEPT ![o]["renew"] = Cancelled(call[o]["renew"])]
  BY DEF Drop
<1>2. call \in [Owners -> [Slots -> Call]] /\ handle \in [Owners -> Handle] /\ call[o]["renew"] \in Call
  BY SlotSet DEF LeaseInv, TypeOK
<1>3. /\ call' \in [Owners -> [Slots -> Call]]
      /\ call'[o]["renew"] = Cancelled(call[o]["renew"]) /\ call'[o]["main"] = call[o]["main"]
      /\ \A u \in Owners : u # o => call'[u] = call[u]
  BY <1>1, <1>2, CancelledType, CallSet, SlotSet
<1>4. /\ handle' \in [Owners -> Handle] /\ handle'[o].st = "dropped"
      /\ handle'[o].token = handle[o].token /\ handle'[o].expiry = handle[o].expiry
      /\ \A u \in Owners : u # o => handle'[u] = handle[u]
  BY <1>1, <1>2 DEF Handle
<1>5. SlotsAgree'
  <2>1. SlotsAgreeOf(o)'
    BY <1>1, <1>2, <1>3, <1>4, CancelledType, NoCallType DEF LeaseInv, SlotsAgree, SlotsAgreeOf
  <2> QED BY <1>1, <1>3, <1>4, <2>1, OthersAgree DEF SlotsAgree
<1>6. NoCall.now <= clock[o] /\ NoCall.seen.rv <= obj.rv
  BY NoCallType DEF LeaseInv, TypeOK, Object
<1>7. call'[o]["renew"] \in {call[o]["renew"], NoCall}
  BY <1>2, <1>3, CancelledType
<1> QED BY <1>1, <1>3, <1>4, <1>5, <1>6, <1>7, NoCallType, SlotSet, SameClock, CallStep

LEMMA TickInv ==
  ASSUME LeaseInv, NEW o \in Owners, Tick(o)
  PROVE  LeaseInv'
<1>1. /\ clock' = [clock EXCEPT ![o] = clock[o] + 1] /\ UNCHANGED <<obj, call, handle>>
      /\ \A p \in Owners : clock[o] + 1 <= clock[p] + Skew
  BY DEF Tick
<1>2. clock \in [Owners -> Nat]
  BY DEF LeaseInv, TypeOK
<1>3. clock' \in [Owners -> Nat] /\ \A u \in Owners : clock[u] <= clock'[u]
  BY <1>1, <1>2
<1>4. SkewBounded'
  BY <1>1, <1>2 DEF LeaseInv, SkewBounded
<1>5. SlotsAgree'
  <2> SUFFICES ASSUME NEW u \in Owners PROVE SlotsAgreeOf(u)'
    BY DEF SlotsAgree
  <2>1. SlotsAgreeOf(u)
    BY DEF LeaseInv, SlotsAgree
  <2>2. handle[u].st = "live" => handle[u].expiry <= clock'[u] + Duration
    <3>1. handle[u].expiry \in Int /\ clock[u] \in Nat /\ clock'[u] \in Nat /\ clock[u] <= clock'[u]
      BY <1>2, <1>3 DEF LeaseInv, TypeOK, Handle
    <3>2. handle[u].st = "live" => handle[u].expiry <= clock[u] + Duration
      BY <2>1 DEF SlotsAgreeOf
    <3> QED BY <3>1, <3>2, DurationBound
  <2> QED BY <1>1, <2>1, <2>2 DEF SlotsAgreeOf
<1>6. call' \in [Owners -> [Slots -> Call]] /\ handle' \in [Owners -> Handle]
  BY <1>1 DEF LeaseInv, TypeOK
<1> QED BY <1>1, <1>3, <1>4, <1>5, <1>6, CallStep

-----------------------------------------------------------------------------
(* Answers *)

\* The end of a call, whatever it answered.
LEMMA FinishFacts ==
  ASSUME LeaseInv, NEW o \in Owners, NEW k \in Slots, Finish(o, k)
  PROVE  /\ call' \in [Owners -> [Slots -> Call]]
         /\ call'[o][k] = NoCall
         /\ \A j \in Slots : j # k => call'[o][j] = call[o][j]
         /\ \A u \in Owners : u # o => call'[u] = call[u]
<1>1. call \in [Owners -> [Slots -> Call]] /\ call' = [call EXCEPT ![o][k] = NoCall]
  BY DEF LeaseInv, TypeOK, Finish
<1> QED BY <1>1, NoCallType, CallSet

\* A call that ends without writing, the handle kept or dropped.
LEMMA EndInv ==
  ASSUME LeaseInv, NEW o \in Owners, NEW k \in Slots, Finish(o, k), UNCHANGED <<clock, obj>>,
         handle' = handle \/ (handle[o].st = "live" /\ handle' = [handle EXCEPT ![o].st = "dropped"])
  PROVE  LeaseInv'
<1>1. /\ call' \in [Owners -> [Slots -> Call]] /\ call'[o][k] = NoCall
      /\ \A j \in Slots : j # k => call'[o][j] = call[o][j]
      /\ \A u \in Owners : u # o => call'[u] = call[u]
  BY FinishFacts
<1>2. /\ handle' \in [Owners -> Handle]
      /\ handle'[o].st \in {handle[o].st, "dropped"}
      /\ handle'[o].token = handle[o].token /\ handle'[o].expiry = handle[o].expiry
      /\ handle'[o].st # "none" => handle[o].st # "none"
      /\ \A u \in Owners : u # o => handle'[u] = handle[u]
  BY DEF LeaseInv, TypeOK, Handle
<1>3. SlotsAgree'
  <2>0. SlotsAgreeOf(o)
    BY DEF LeaseInv, SlotsAgree
  <2>1. SlotsAgreeOf(o)'
    <3>1. CASE k = "main"
      <4>1. call'[o]["main"] = NoCall /\ call'[o]["renew"] = call[o]["renew"]
        BY <1>1, <3>1, SlotSet
      <4> QED BY <1>2, <2>0, <4>1, NoCallType DEF SlotsAgreeOf
    <3>2. CASE k = "renew"
      <4>1. call'[o]["renew"] = NoCall /\ call'[o]["main"] = call[o]["main"]
        BY <1>1, <3>2, SlotSet
      <4> QED BY <1>2, <2>0, <4>1, NoCallType DEF SlotsAgreeOf
    <3> QED BY <3>1, <3>2, SlotSet
  <2> QED BY <1>1, <1>2, <2>1, OthersAgree DEF SlotsAgree
<1>4. NoCall.now <= clock[o] /\ NoCall.seen.rv <= obj.rv
  BY NoCallType DEF LeaseInv, TypeOK, Object
<1>5. \A u \in Owners, j \in Slots :
         \/ call'[u][j] = call[u][j]
         \/ /\ call'[u][j].now <= clock'[u] /\ call'[u][j].seen.rv <= obj.rv
            /\ call'[u][j].pc = "put" => call'[u][j].seen = obj /\ Proceeds(u, call'[u][j])
  BY <1>1, <1>4, NoCallType
<1>6. \A u \in Owners :
         /\ handle'[u].token = handle[u].token /\ handle'[u].expiry = handle[u].expiry
         /\ handle'[u].st = "live" => handle[u].st = "live"
         /\ handle'[u].st # "none" => handle[u].st # "none"
  BY <1>2
<1> QED BY <1>1, <1>2, <1>3, <1>5, <1>6, SameClock, CallStep

LEMMA RefuseHandle ==
  ASSUME NEW o \in Owners, NEW k \in Slots, Refuse(o, k)
  PROVE  /\ Finish(o, k)
         /\ handle' = handle \/ (handle[o].st = "live" /\ handle' = [handle EXCEPT ![o].st = "dropped"])
  BY DEF Refuse

LEMMA GetInv ==
  ASSUME LeaseInv, NEW o \in Owners, NEW k \in Slots, Get(o, k)
  PROVE  LeaseInv'
<1> DEFINE c == [call[o][k] EXCEPT !.pc = "put", !.seen = obj,
                                   !.now = IF call[o][k].op = "release" THEN clock[o] ELSE @]
<1>1. /\ call[o][k].op # "none" /\ call[o][k].pc = "get" /\ UNCHANGED <<clock, obj>>
      /\ \/ Proceeds(o, c) /\ call' = [call EXCEPT ![o][k] = c] /\ UNCHANGED handle
         \/ Refuse(o, k)
  BY DEF Get
<1>2. call \in [Owners -> [Slots -> Call]] /\ call[o][k] \in Call /\ obj \in Object /\ clock[o] \in Nat
  BY DEF LeaseInv, TypeOK
<1>3. /\ c \in Call /\ c.pc = "put" /\ c.seen = obj /\ c.op = call[o][k].op
      /\ c.token = call[o][k].token
      /\ c.now = IF call[o][k].op = "release" THEN clock[o] ELSE call[o][k].now
  <2> DEFINE n == IF call[o][k].op = "release" THEN clock[o] ELSE call[o][k].now
  <2>1. n \in Int
    BY <1>2 DEF Call
  <2>2. c = [call[o][k] EXCEPT !.pc = "put", !.seen = obj, !.now = n]
    OBVIOUS
  <2> HIDE DEF n, c
  <2>3. c = [op |-> call[o][k].op, pc |-> "put", now |-> n, token |-> call[o][k].token,
             seen |-> obj]
    BY <1>2, <2>2 DEF Call
  <2>4. c \in Call
    BY <1>2, <2>1, <2>3 DEF Call
  <2> QED BY <2>3, <2>4 DEF n
<1> HIDE DEF c
<1>4. CASE Proceeds(o, c) /\ call' = [call EXCEPT ![o][k] = c] /\ UNCHANGED handle
  <2>1. /\ call' \in [Owners -> [Slots -> Call]] /\ call'[o][k] = c
        /\ \A j \in Slots : j # k => call'[o][j] = call[o][j]
        /\ \A u \in Owners : u # o => call'[u] = call[u]
    BY <1>2, <1>3, <1>4, CallSet
  <2>2. c.now <= clock[o] /\ c.seen.rv <= obj.rv
    BY <1>2, <1>3 DEF LeaseInv, ReadsInPast, Object
  <2>3. SlotsAgree'
    <3>0. SlotsAgreeOf(o)
      BY DEF LeaseInv, SlotsAgree
    <3>1. SlotsAgreeOf(o)'
      <4>1. CASE k = "main"
        <5>1. call'[o]["main"] = c /\ call'[o]["renew"] = call[o]["renew"]
          BY <2>1, <4>1, SlotSet
        <5> QED BY <1>1, <1>3, <1>4, <3>0, <4>1, <5>1 DEF SlotsAgreeOf
      <4>2. CASE k = "renew"
        <5>1. call'[o]["renew"] = c /\ call'[o]["main"] = call[o]["main"]
          BY <2>1, <4>2, SlotSet
        <5>2. call[o]["renew"].op = "renew" /\ c.now = call[o]["renew"].now
          BY <1>1, <1>3, <3>0, <4>2 DEF SlotsAgreeOf
        <5> QED BY <1>1, <1>3, <1>4, <3>0, <4>2, <5>1, <5>2 DEF SlotsAgreeOf
      <4> QED BY <4>1, <4>2, SlotSet
    <3> QED BY <1>1, <1>4, <2>1, <3>1, OthersAgree DEF SlotsAgree
  <2>4. handle' \in [Owners -> Handle]
    BY <1>4 DEF LeaseInv, TypeOK
  <2>5. \A u \in Owners, j \in Slots :
           \/ call'[u][j] = call[u][j]
           \/ /\ call'[u][j].now <= clock'[u] /\ call'[u][j].seen.rv <= obj.rv
              /\ call'[u][j].pc = "put" => call'[u][j].seen = obj /\ Proceeds(u, call'[u][j])
    BY <1>1, <1>3, <1>4, <2>1, <2>2
  <2> QED BY <1>1, <1>4, <2>1, <2>3, <2>4, <2>5, SameClock, CallStep
<1>5. CASE Refuse(o, k)
  BY <1>1, <1>5, RefuseHandle, EndInv
<1> QED BY <1>1, <1>4, <1>5

LEMMA ConflictInv ==
  ASSUME LeaseInv, NEW o \in Owners, NEW k \in Slots, Conflict(o, k) \/ Unreachable(o, k)
  PROVE  LeaseInv'
<1>1. CASE Conflict(o, k)
  BY <1>1, RefuseHandle, EndInv DEF Conflict
<1>2. CASE Unreachable(o, k)
  BY <1>2, EndInv DEF Unreachable
<1> QED BY <1>1, <1>2

-----------------------------------------------------------------------------
(* A write accepted by the API server *)

\* What an accepted write w of call c in slot k holds.
Accepted(o, c, w, k) ==
    /\ w \in Object /\ w.rv = obj.rv + 1 /\ c.now \in Int /\ c.now <= clock[o]
    /\ c.op \in {"acquire", "renew", "release"}
    /\ c.op = "release" => /\ k = "main" /\ w.holder = NoOwner /\ obj.holder = o
                           /\ w.token = obj.token /\ w.expiry + Second <= c.now
    /\ c.op # "release" => w.holder = o /\ w.expiry = c.now + Duration
    /\ c.op = "renew" => /\ k = "renew" /\ obj.holder = o /\ obj.token = c.token
                         /\ w.token = obj.token
    /\ c.op = "acquire" =>
          /\ k = "main"
          /\ \/ w.token = obj.token + 1 /\ (obj.holder = NoOwner \/ clock[o] >= obj.expiry)
             \/ w.token = obj.token /\ obj.holder = o

\* That is: a takeover with the next count, a refresh of the caller's
\* own record, or a tombstone expired by the writer's clock.
LEMMA WrittenFacts ==
  ASSUME LeaseInv, NEW o \in Owners, NEW k \in Slots,
         call[o][k].op # "none", call[o][k].pc = "put", VersionMatches(call[o][k])
  PROVE  Accepted(o, call[o][k], Written(o, call[o][k]), k)
<1> DEFINE c == call[o][k]
           w == Written(o, c)
<1>1. c \in Call /\ obj \in Object /\ clock[o] \in Nat /\ c.now <= clock[o]
  BY DEF LeaseInv, TypeOK, ReadsInPast
<1>2. c.seen = obj /\ Proceeds(o, c)
  BY DEF LeaseInv, SnapshotsTrue, VersionMatches
<1>3. /\ c.now \in Int /\ c.token \in Nat /\ obj.token \in Nat /\ obj.rv \in Nat /\ obj.expiry \in Int
      /\ c.op \in {"acquire", "renew", "release"}
  BY <1>1 DEF Call, Object
<1>4. obj.rv = 0 => obj.holder = NoOwner
  BY DEF LeaseInv, TokensBounded, Absent
<1>5. c.op \in {"acquire", "release"} => k = "main"
  BY SlotSet DEF LeaseInv, SlotsAgree, SlotsAgreeOf
<1>6. c.op = "renew" => k = "renew"
  BY SlotSet DEF LeaseInv, SlotsAgree, SlotsAgreeOf
<1>7. NextToken(o, c) \in Nat /\ TombstoneExpiry(c) \in Int /\ TombstoneExpiry(c) + Second <= c.now
      /\ c.now + Duration \in Int
  BY <1>2, <1>3, DurationBound DEF NextToken, TombstoneExpiry
<1>8. /\ w.holder = IF c.op = "release" THEN NoOwner ELSE o
      /\ w.expiry = IF c.op = "release" THEN TombstoneExpiry(c) ELSE c.now + Duration
      /\ w.token = NextToken(o, c) /\ w.rv = obj.rv + 1
  BY DEF Written
<1>9. w \in Object
  BY <1>3, <1>7 DEF Written, Object
<1>10. CASE c.op = "release"
  <2>1. w.token = obj.token /\ obj.holder = o
    BY <1>2, <1>8, <1>10 DEF NextToken, Proceeds
  <2> QED BY <1>1, <1>3, <1>5, <1>7, <1>8, <1>9, <1>10, <2>1 DEF Accepted
<1>11. CASE c.op = "renew"
  <2>1. w.token = obj.token /\ obj.holder = o /\ obj.token = c.token
    BY <1>2, <1>8, <1>11 DEF NextToken, Proceeds
  <2> QED BY <1>1, <1>3, <1>6, <1>8, <1>9, <1>11, <2>1 DEF Accepted
<1>12. CASE c.op = "acquire"
  <2>1. \/ w.token = obj.token + 1 /\ (obj.holder = NoOwner \/ c.now >= obj.expiry)
        \/ w.token = obj.token /\ obj.holder = o
    BY <1>2, <1>4, <1>8, <1>12 DEF NextToken, Proceeds, Expired
  <2>2. \/ w.token = obj.token + 1 /\ (obj.holder = NoOwner \/ clock[o] >= obj.expiry)
        \/ w.token = obj.token /\ obj.holder = o
    BY <1>1, <1>3, <2>1
  <2> QED BY <1>1, <1>3, <1>5, <1>8, <1>9, <1>12, <2>2 DEF Accepted
<1> QED BY <1>3, <1>10, <1>11, <1>12

LEMMA PutInv ==
  ASSUME LeaseInv, NEW o \in Owners, NEW k \in Slots, Put(o, k)
  PROVE  LeaseInv'
<1> DEFINE c == call[o][k]
           w == Written(o, c)
           h == [st |-> "live", token |-> w.token, expiry |-> w.expiry]
           current == handle[o].st = "live" /\ handle[o].token = c.token
           mayStore == c.op = "acquire" \/ (c.op = "renew" /\ current)
<1>1. /\ c.op # "none" /\ c.pc = "put" /\ VersionMatches(c) /\ obj' = w /\ Finish(o, k)
      /\ clock' = clock
      /\ handle' = handle \/ (mayStore /\ handle' = [handle EXCEPT ![o] = h])
  BY DEF Put
<1>2. Accepted(o, c, w, k)
  BY <1>1, WrittenFacts
<1>w. w \in Object /\ w.rv = obj.rv + 1
  BY <1>2 DEF Accepted
<1>n. c.now \in Int /\ c.now <= clock[o] /\ c.op \in {"acquire", "renew", "release"}
  BY <1>2 DEF Accepted
<1>rel. c.op = "release" => /\ k = "main" /\ w.holder = NoOwner /\ obj.holder = o
                            /\ w.token = obj.token /\ w.expiry + Second <= c.now
  BY <1>2 DEF Accepted
<1>put. c.op # "release" => w.holder = o /\ w.expiry = c.now + Duration
  BY <1>2 DEF Accepted
<1>ren. c.op = "renew" => k = "renew" /\ obj.holder = o /\ obj.token = c.token /\ w.token = obj.token
  BY <1>2 DEF Accepted
<1>acq. c.op = "acquire" =>
          /\ k = "main"
          /\ \/ w.token = obj.token + 1 /\ (obj.holder = NoOwner \/ clock[o] >= obj.expiry)
             \/ w.token = obj.token /\ obj.holder = o
  BY <1>2 DEF Accepted
<1> HIDE DEF w
<1>3. /\ call' \in [Owners -> [Slots -> Call]] /\ call'[o][k] = NoCall
      /\ \A j \in Slots : j # k => call'[o][j] = call[o][j]
      /\ \A u \in Owners : u # o => call'[u] = call[u]
  BY <1>1, FinishFacts
<1>4. /\ obj \in Object /\ clock \in [Owners -> Nat] /\ handle \in [Owners -> Handle]
      /\ obj.token \in Nat /\ obj.rv \in Nat /\ w.token \in Nat /\ w.expiry \in Int
      /\ w.token \in {obj.token, obj.token + 1} /\ obj.expiry \in Int
  <2>1. /\ obj \in Object /\ clock \in [Owners -> Nat] /\ handle \in [Owners -> Handle]
    BY DEF LeaseInv, TypeOK
  <2>2. obj.token \in Nat /\ obj.rv \in Nat /\ w.token \in Nat /\ w.expiry \in Int /\ obj.expiry \in Int
    BY <1>w, <2>1 DEF Object
  <2>3. w.token \in {obj.token, obj.token + 1}
    BY <1>n, <1>rel, <1>ren, <1>acq
  <2> QED BY <2>1, <2>2, <2>3
<1>5. /\ handle' \in [Owners -> Handle]
      /\ \A u \in Owners : u # o => handle'[u] = handle[u]
      /\ handle'[o] = handle[o] \/ (mayStore /\ handle'[o] = h)
  <2>1. h \in Handle
    BY <1>4 DEF Handle
  <2> QED BY <1>1, <1>4, <2>1
<1>6. h.st = "live" /\ h.token = w.token /\ h.expiry = w.expiry
  OBVIOUS
<1> HIDE DEF h
<1>7. TypeOK'
  BY <1>1, <1>w, <1>3, <1>4, <1>5 DEF TypeOK
<1>8. \A u \in Owners, j \in Slots :
         call'[u][j] = call[u][j] \/ call'[u][j] = NoCall
  BY <1>3
<1>9. ReadsInPast'
  BY <1>1, <1>4, <1>8, NoCallType DEF LeaseInv, ReadsInPast
<1>10. \A u \in Owners, j \in Slots : call'[u][j].seen.rv <= obj.rv /\ call'[u][j].seen.rv \in Nat
  <2>1. \A u \in Owners, j \in Slots : call'[u][j].seen.rv \in Nat
    BY <1>3 DEF Call, Object
  <2> QED BY <1>4, <1>8, <2>1, NoCallType DEF LeaseInv, SnapshotsTrue
<1>11. SnapshotsTrue'
  <2> SUFFICES ASSUME NEW u \in Owners, NEW j \in Slots
               PROVE  /\ call'[u][j].seen.rv <= w.rv
                      /\ call'[u][j].seen.rv = w.rv /\ call'[u][j].pc = "put" => call'[u][j].seen = w
                      /\ call'[u][j].op # "none" /\ call'[u][j].pc = "put" => Proceeds(u, call[u][j])'
    BY <1>1 DEF SnapshotsTrue
  <2>1. call'[u][j].seen.rv <= w.rv /\ call'[u][j].seen.rv # w.rv
    BY <1>w, <1>4, <1>10
  <2>2. call'[u][j].op # "none" /\ call'[u][j].pc = "put" => Proceeds(u, call[u][j])'
    BY <1>8, NoCallType DEF LeaseInv, SnapshotsTrue
  <2> QED BY <2>1, <2>2
<1>12. LiveHandleIsObject'
  <2> SUFFICES ASSUME NEW u \in Owners, handle'[u].st = "live",
                      \A p \in Owners : ~(clock[p] >= handle'[u].expiry)
               PROVE  w.holder = u /\ w.token = handle'[u].token /\ handle'[u].expiry <= w.expiry
    BY <1>1 DEF LiveHandleIsObject
  <2>1. CASE u = o /\ mayStore /\ handle'[o] = h
    BY <1>put, <1>4, <1>6, <2>1
  <2>2. CASE handle'[u] = handle[u]
    <3>1. obj.holder = u /\ obj.token = handle[u].token /\ handle[u].expiry <= obj.expiry
      BY <2>2 DEF LeaseInv, LiveHandleIsObject
    <3>2. handle[u].expiry \in Int /\ clock[o] \in Nat
      BY <1>4 DEF Handle
    <3>3. c.op # "release"
      BY <1>rel, <2>2, <3>1 DEF LeaseInv, SlotsAgree, SlotsAgreeOf
    <3>4. c.op # "acquire"
      <4>1. ~(clock[o] >= obj.expiry) /\ obj.holder # NoOwner
        BY <1>4, <2>2, <3>1, <3>2
      <4> QED BY <1>acq, <2>2, <3>1, <4>1 DEF LeaseInv, SlotsAgree, SlotsAgreeOf
    <3>5. c.op = "renew" /\ u = o /\ handle[o].token = c.token /\ k = "renew"
      BY <1>n, <1>ren, <3>1, <3>3, <3>4
    <3>6. handle[o].expiry <= c.now + Duration
      BY <1>1, <2>2, <3>5 DEF VersionMatches, LeaseInv, SlotsAgree, SlotsAgreeOf
    <3> QED BY <1>ren, <1>put, <2>2, <3>1, <3>5, <3>6
  <2> QED BY <1>5, <2>1, <2>2
<1>13. TokensBounded'
  <2>1. \A u \in Owners : handle[u].token \in Nat /\ handle[u].token <= obj.token
    BY <1>4 DEF Handle, LeaseInv, TokensBounded
  <2>2. w.rv # 0 /\ \A u \in Owners : handle'[u].token <= w.token
    BY <1>w, <1>4, <1>5, <1>6, <2>1
  <2>3. ASSUME NEW u \in Owners, handle'[u].st # "none", handle'[u].token = w.token
        PROVE  w.holder \in {u, NoOwner}
    <3>1. CASE u = o
      BY <1>rel, <1>put, <3>1
    <3>2. CASE u # o
      <4>1. handle[u].token = w.token /\ w.token = obj.token /\ handle[u].st # "none"
        BY <1>4, <1>5, <2>1, <2>3, <3>2
      <4>2. obj.holder \in {u, NoOwner}
        BY <4>1 DEF LeaseInv, TokensBounded
      <4> QED BY <1>n, <1>rel, <1>ren, <1>acq, <1>4, <3>2, <4>1, <4>2
    <3> QED BY <3>1, <3>2
  <2> QED BY <1>1, <2>2, <2>3 DEF TokensBounded
<1>14. TokenIdentifiesOwner'
  <2>1. CASE handle'[o] = handle[o]
    BY <1>5, <2>1 DEF LeaseInv, TokenIdentifiesOwner
  <2>2. CASE mayStore /\ handle'[o] = h
    <3>1. ASSUME NEW u \in Owners, u # o, handle[u].st # "none", handle[u].token = w.token
          PROVE  FALSE
      <4>1. handle[u].token \in Nat /\ handle[u].token <= obj.token
        BY <1>4 DEF Handle, LeaseInv, TokensBounded
      <4>2. w.token = obj.token
        BY <1>4, <3>1, <4>1
      <4>3. obj.holder \in {u, NoOwner}
        BY <3>1, <4>2 DEF LeaseInv, TokensBounded
      <4> QED BY <1>ren, <1>acq, <1>4, <2>2, <3>1, <4>2, <4>3
    <3> QED BY <1>5, <1>6, <2>2, <3>1 DEF LeaseInv, TokenIdentifiesOwner
  <2> QED BY <1>5, <2>1, <2>2
<1>18. \A u \in Owners, j \in Slots : call'[u][j].seen.rv # obj'.rv
  BY <1>1, <1>w, <1>4, <1>10
<1>15. SlotsAgree'
  <2>1. ASSUME NEW u \in Owners, u # o PROVE SlotsAgreeOf(u)'
    <3>1. call'[u] = call[u] /\ handle'[u] = handle[u] /\ clock'[u] = clock[u]
      BY <1>1, <1>3, <1>5, <2>1
    <3>2. call[u]["renew"].seen.rv # obj'.rv
      BY <1>18, <3>1, SlotSet
    <3> QED BY <3>1, <3>2 DEF LeaseInv, SlotsAgree, SlotsAgreeOf
  <2>0. SlotsAgreeOf(o)
    BY DEF LeaseInv, SlotsAgree
  <2>2. handle'[o].st = "live" => handle'[o].expiry <= clock'[o] + Duration
    <3>1. handle[o].st = "live" => handle[o].expiry <= clock[o] + Duration
      BY <2>0 DEF SlotsAgreeOf
    <3>2. mayStore => w.expiry <= clock[o] + Duration
      <4>1. w.expiry = c.now + Duration \/ ~mayStore
        BY <1>put
      <4>2. clock[o] \in Nat
        BY <1>4
      <4> QED BY <1>n, <4>1, <4>2, DurationBound
    <3> QED BY <1>1, <1>5, <1>6, <3>1, <3>2
  <2> SUFFICES SlotsAgreeOf(o)'
    BY <2>1 DEF SlotsAgree
  <2>3. CASE k = "main"
    <3>1. call'[o]["main"] = NoCall /\ call'[o]["renew"] = call[o]["renew"]
      BY <1>3, <2>3, SlotSet
    <3>2. call[o]["renew"].seen.rv # obj'.rv
      BY <1>18, <3>1, SlotSet
    <3>3. c.op # "renew" /\ handle[o].st # "live"
      BY <1>1, <1>ren, <2>0, <2>3 DEF SlotsAgreeOf
    <3>4. handle'[o] = handle[o] \/ (c.op = "acquire" /\ handle'[o].st = "live")
      BY <1>5, <1>6, <3>3
    <3>5. CASE handle'[o] = handle[o]
      BY <2>0, <3>1, <3>3, <3>5, NoCallType DEF SlotsAgreeOf
    <3>6. CASE c.op = "acquire" /\ handle'[o].st = "live"
      <4>1. call[o]["renew"].op = "renew" => call[o]["renew"].pc = "put"
        BY <2>0, <2>3, <3>6 DEF SlotsAgreeOf
      <4>2. call[o]["renew"].op \in {"none", "renew"}
        BY <2>0 DEF SlotsAgreeOf
      <4> QED BY <2>2, <3>1, <3>2, <3>6, <4>1, <4>2, NoCallType DEF SlotsAgreeOf
    <3> QED BY <3>4, <3>5, <3>6
  <2>4. CASE k = "renew"
    <3>1. call'[o]["renew"] = NoCall /\ call'[o]["main"] = call[o]["main"]
      BY <1>3, <2>4, SlotSet
    <3>2. handle'[o] = handle[o] \/ (handle[o].st = "live" /\ handle'[o].st = "live")
      BY <1>acq, <1>5, <1>6, <2>4, SlotSet
    <3>3. call[o]["main"].op \in {"none", "acquire", "release"}
          /\ (call[o]["main"].op # "none" => handle[o].st # "live")
      BY <2>0 DEF SlotsAgreeOf
    <3>4. handle'[o].st = "live" => handle[o].st = "live"
      BY <3>2
    <3> QED BY <2>2, <3>1, <3>3, <3>4, NoCallType DEF SlotsAgreeOf
  <2> QED BY <2>3, <2>4, SlotSet
<1>16. TombstoneExpired'
  <2> SUFFICES ASSUME w.holder = NoOwner PROVE w.expiry + Second <= clock[o]
    BY <1>1 DEF TombstoneExpired
  <2>1. c.op = "release"
    BY <1>put
  <2>2. clock[o] \in Nat
    BY <1>4
  <2> QED BY <1>n, <1>rel, <1>4, <2>1, <2>2
<1>17. SkewBounded'
  BY <1>1 DEF LeaseInv, SkewBounded
<1> QED BY <1>7, <1>9, <1>11, <1>12, <1>13, <1>14, <1>15, <1>16, <1>17 DEF LeaseInv

-----------------------------------------------------------------------------
(* The theorems *)

LEMMA NextLeaseInv ==
  ASSUME LeaseInv, [Next]_vars
  PROVE  LeaseInv'
<1>1. CASE Next
  BY <1>1, BeginAcquireInv, BeginRenewInv, BeginReleaseInv, DropInv, TickInv, GetInv, PutInv,
     ConflictInv DEF Next
<1>2. CASE UNCHANGED vars
  BY <1>2 DEF vars, LeaseInv, TypeOK, ReadsInPast, SnapshotsTrue, LiveHandleIsObject,
              TokensBounded, TokenIdentifiesOwner, SlotsAgree, SlotsAgreeOf, TombstoneExpired,
              SkewBounded
<1> QED BY <1>1, <1>2

\* The invariant behind every other result: CAS Updates, stale reads, lost replies
\* and skewed clocks keep the object and the handed-out leases consistent.
THEOREM LeaseInvariant == Spec => []LeaseInv
<1> QED BY InitLeaseInv, NextLeaseInv, PTL DEF Spec

\* Two replicas that stop relying on a hold Skew before its expiry never rely on
\* it together.
THEOREM ExclusionHolds == Spec => []Exclusion
<1>1. ASSUME LeaseInv PROVE Exclusion
  <2>1. ASSUME NEW o \in Owners, Relying(o) PROVE obj.holder = o
    <3>1. \A p \in Owners : clock[p] <= clock[o] + Skew /\ clock[p] \in Nat
      BY <1>1, <2>1 DEF LeaseInv, SkewBounded, TypeOK
    <3>2. handle[o].expiry \in Int /\ clock[o] + Skew < handle[o].expiry /\ handle[o].st = "live"
      BY <1>1, <2>1 DEF LeaseInv, TypeOK, Handle, Relying
    <3>3. ASSUME NEW p \in Owners PROVE ~(clock[p] >= handle[o].expiry)
      <4>1. clock[p] <= clock[o] + Skew /\ clock[p] \in Nat /\ clock[o] \in Nat
        BY <2>1, <3>1
      <4> QED BY <3>2, <4>1
    <3> QED BY <1>1, <3>2, <3>3 DEF LeaseInv, LiveHandleIsObject
  <2> QED BY <2>1 DEF Exclusion
<1> QED BY <1>1, LeaseInvariant, PTL

\* A leaseTransitions count belongs to one replica for ever.
THEOREM TokensUnique == Spec => []TokenIdentifiesOwner
<1>1. LeaseInv => TokenIdentifiesOwner
  BY DEF LeaseInv
<1> QED BY <1>1, LeaseInvariant, PTL

\* Release reaches every replica whose clock is at most a second off.
THEOREM TombstoneReaches == Spec => []ReleasedIsFree
<1>1. ASSUME LeaseInv, obj.rv # 0, obj.holder = NoOwner, Skew <= Second, NEW o \in Owners
      PROVE  clock[o] >= obj.expiry
  <2>1. PICK p \in Owners : obj.expiry + Second <= clock[p]
    BY <1>1 DEF LeaseInv, TombstoneExpired
  <2>2. clock[p] <= clock[o] + Skew /\ clock[p] \in Nat /\ clock[o] \in Nat /\ obj.expiry \in Int
    BY <1>1 DEF LeaseInv, SkewBounded, TypeOK, Object
  <2> QED BY <1>1, <2>1, <2>2
<1>2. LeaseInv => ReleasedIsFree
  BY <1>1 DEF ReleasedIsFree
<1> QED BY <1>2, LeaseInvariant, PTL

pholder == [s \in {Sid} |-> obj.holder]
ptoken == [s \in {Sid} |-> obj.token]
plapsed == [s \in {Sid} |-> obj.holder # NoOwner /\ \E o \in Owners : clock[o] >= obj.expiry]

\* An accepted write is a takeover, a refresh or a relinquishment of the port.
LEMMA PutRefines ==
  ASSUME LeaseInv, NEW o \in Owners, NEW k \in Slots, Put(o, k)
  PROVE  Port!ANext
<1> DEFINE c == call[o][k]
           w == Written(o, c)
<1>1. c.op # "none" /\ c.pc = "put" /\ VersionMatches(c) /\ obj' = w
  BY DEF Put
<1>2. Accepted(o, c, w, k)
  BY <1>1, WrittenFacts
<1> HIDE DEF w, c
<1>3. plapsed'[Sid] \in BOOLEAN /\ plapsed' = [plapsed EXCEPT ![Sid] = plapsed'[Sid]]
  BY DEF plapsed
<1>4. CASE w.holder = o /\ w.token = obj.token + 1 /\ (obj.holder = NoOwner \/ clock[o] >= obj.expiry)
  <2>1. /\ pholder' = [pholder EXCEPT ![Sid] = o]
        /\ ptoken' = [ptoken EXCEPT ![Sid] = @ + 1]
    BY <1>1, <1>4 DEF pholder, ptoken
  <2>2. obj.holder = NoOwner \/ plapsed[Sid]
    BY <1>4 DEF plapsed
  <2>3. Port!Takeover(Sid, o)
    BY <1>3, <2>1, <2>2 DEF Port!Takeover, pholder, ptoken, plapsed
  <2> QED BY <2>3 DEF Port!ANext
<1>5. CASE w.holder = o /\ w.token = obj.token /\ obj.holder = o
  <2>1. Port!Refresh(Sid)
    BY <1>1, <1>3, <1>5 DEF Port!Refresh, plapsed
  <2> QED BY <2>1 DEF Port!ANext
<1>6. CASE w.holder = NoOwner /\ obj.holder = o /\ w.token = obj.token
  <2>1. /\ pholder' = [pholder EXCEPT ![Sid] = NoOwner]
        /\ plapsed' = [plapsed EXCEPT ![Sid] = FALSE]
    BY <1>1, <1>6 DEF pholder, plapsed
  <2>2. Port!Relinquish(Sid)
    BY <1>1, <1>6, <2>1 DEF Port!Relinquish, pholder, plapsed
  <2> QED BY <2>2 DEF Port!ANext
<1>7. c.op \in {"acquire", "renew", "release"}
  BY <1>2 DEF Accepted
<1> QED BY <1>2, <1>4, <1>5, <1>6, <1>7 DEF Accepted

\* Every other step leaves the object alone: at most a hold lapses.
LEMMA QuietRefines ==
  ASSUME LeaseInv, obj' = obj
  PROVE  [Port!ANext]_(Port!avars)
<1>1. CASE obj.holder = NoOwner
  BY <1>1 DEF Port!avars
<1>2. CASE obj.holder # NoOwner
  <2>1. plapsed'[Sid] \in BOOLEAN /\ plapsed' = [plapsed EXCEPT ![Sid] = plapsed'[Sid]]
    BY DEF plapsed
  <2>2. Port!Refresh(Sid)
    BY <1>2, <2>1 DEF Port!Refresh, plapsed
  <2> QED BY <2>2 DEF Port!ANext
<1> QED BY <1>1, <1>2

\* The Kubernetes backend implements the contract of port.SessionLease.
THEOREM RefinesPort == Spec => PortSpec
<1>1. Init => Port!AInit
  <2> SUFFICES ASSUME Init PROVE Port!AInit
    OBVIOUS
  <2>1. obj.holder = NoOwner /\ obj.token = 0
    BY DEF Init, Absent
  <2> QED BY <2>1, Zenon DEF Port!AInit
<1>2. ASSUME LeaseInv, [Next]_vars PROVE [Port!ANext]_(Port!avars)
  <2>1. obj' = obj \/ \E o \in Owners, k \in Slots : Put(o, k)
    <3>1. ASSUME NEW o \in Owners, BeginAcquire(o) \/ BeginRenew(o) \/ BeginRelease(o) \/ Drop(o) \/ Tick(o)
          PROVE  obj' = obj
      BY <3>1 DEF BeginAcquire, BeginRenew, BeginRelease, Begins, Drop, Tick
    <3>2. ASSUME NEW o \in Owners, NEW k \in Slots, Get(o, k) \/ Conflict(o, k) \/ Unreachable(o, k)
          PROVE  obj' = obj
      BY <3>2 DEF Get, Conflict, Unreachable
    <3> QED BY <1>2, <3>1, <3>2 DEF Next, vars
  <2> QED BY <1>2, <2>1, PutRefines, QuietRefines
<1> QED BY <1>1, <1>2, InitLeaseInv, NextLeaseInv, PTL DEF Spec, PortSpec, Port!ASpec
=============================================================================
