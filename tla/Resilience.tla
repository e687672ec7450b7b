----------------------------- MODULE Resilience -----------------------------
(***************************************************************************)
(* The resilience decorator around a model provider                        *)
(* (internal/adapter/llmresilience): concurrent Stream calls that share    *)
(* one circuit breaker.  A call makes up to MaxAttempts attempts.  An      *)
(* attempt buffers what the provider sends (pumpAttempt) until text is     *)
(* visible or the turn is complete, and only then hands the buffer to the  *)
(* consumer (wrap), which for a visible turn goes on relaying the rest     *)
(* (restSeq).  A failure before that boundary is discarded and may be      *)
(* retried; the usage it reported is carried over.                         *)
(*                                                                         *)
(* The clock is relative: breaker.age is the time since openedAt, and lag  *)
(* is the time since a caller read the clock for a breaker call whose lock *)
(* it has not taken yet.  The failure count saturates at Threshold, the    *)
(* only value the code compares it with.  The consumer is runTurn of the   *)
(* agent loop: it stops at the first chunk it gets under a cancelled       *)
(* context and otherwise consumes the stream to its end.                   *)
(***************************************************************************)
EXTENDS Integers, Sequences, FiniteSets

CONSTANTS
  Callers,      \* the goroutines that call Stream
  MaxAttempts,  \* cfg.MaxAttempts
  Threshold,    \* cfg.BreakerThreshold (0: no breaker)
  Cooldown,     \* cfg.BreakerCooldown
  MaxLag,       \* bound: age of a clock read when the breaker's lock is taken
  MaxChunks,    \* bound: chunks the provider sends in one attempt
  Kinds,        \* the kinds of chunk the provider sends to each caller
  Errors        \* the classes of error the provider returns

\* ChunkKind.  "meta" stands for what is tentative and carries no usage:
\* reasoning, tool calls, phase, route and blank text.
Chunk == {"meta", "usage", "text", "done"}

ASSUME ResilienceAssumption ==
  /\ MaxAttempts \in Nat \ {0}
  /\ Threshold \in Nat /\ Cooldown \in Nat
  /\ MaxLag \in Nat /\ MaxChunks \in Nat
  /\ Kinds \in [Callers -> SUBSET Chunk]
  /\ Errors \subseteq {"transient", "conflict", "permanent", "vetoed"}

VARIABLES
  breaker,  \* breakerState
  call,     \* the Stream call of each caller
  calm      \* from now on the provider answers in time and nobody cancels

vars == <<breaker, call, calm>>

-----------------------------------------------------------------------------
(* Classification of errors *)

\* isTransientForBreaker: a sign that the provider is unhealthy.
Transient(e) == e \in {"transient", "vetoed", "idle", "timeout"}

\* dispositionOf, explicitRetryDecision and cfg.Classifier: another attempt is
\* allowed.  A 409 is retried but does not count for the breaker; a "vetoed"
\* error counts, and its adapter or the classifier refuses the retry.
Retryable(e) == e \in {"transient", "conflict", "idle", "timeout"}

-----------------------------------------------------------------------------
(* State *)

Breaker == [failures: 0..Threshold, open: BOOLEAN, halfOpen: BOOLEAN,
            age: 0..Cooldown + MaxLag]

Call ==
  [pc: {"idle", "admit", "pump", "failed", "record", "backoff",
        "flush", "rest", "late"},
   ctx: BOOLEAN,            \* the caller's context is cancelled
   n: 0..MaxAttempts,       \* attempts made
   cut: BOOLEAN,            \* a watchdog has cancelled the attempt's context
   sent: Seq(Chunk),        \* what the provider sent in this attempt
   buf: Seq(Chunk),         \* result.buffered, then what wrap has still to yield
   out: Seq(Chunk),         \* what the consumer received
   used: Nat,               \* result.discardedUsage of this attempt
   saved: Nat,              \* discardedUsage of the earlier attempts
   paid: Nat,               \* usage the consumer received
   spent: Nat,              \* usage in the chunks this call took from the provider
   after: {"success", "rest", "error"},
   err: {"none", "canceled", "idle", "timeout"} \cup Errors,
   end: {"none", "clean", "error", "broken"},
   lag: 0..MaxLag]

NewCall ==
  [pc |-> "idle", ctx |-> FALSE, n |-> 0, cut |-> FALSE,
   sent |-> <<>>, buf |-> <<>>, out |-> <<>>, used |-> 0, saved |-> 0,
   paid |-> 0, spent |-> 0, after |-> "success", err |-> "none",
   end |-> "none", lag |-> 0]

Init ==
  /\ breaker = [failures |-> 0, open |-> FALSE, halfOpen |-> FALSE, age |-> 0]
  /\ call = [c \in Callers |-> NewCall]
  /\ calm = FALSE

Step(c, r) == call' = [call EXCEPT ![c] = r]

\* The call returns and its locals are gone.
Stop(r, how) == [NewCall EXCEPT !.end = how]

\* terminalWithUsage: the error, after the usage of the discarded attempts if
\* there is any.
Terminal(r) ==
  IF r.saved = 0 THEN Stop(r, "error")
  ELSE [NewCall EXCEPT !.pc = "flush", !.after = "error", !.ctx = r.ctx,
                       !.saved = r.saved, !.spent = r.spent]

\* The head of Stream's loop: the context check and the clock read for allow.
Begin(r) == IF r.ctx THEN Terminal(r) ELSE [r EXCEPT !.pc = "admit", !.lag = 0]

-----------------------------------------------------------------------------
(* The circuit breaker *)

\* recordSuccess
Succeeded(b) ==
  [failures |-> 0, open |-> FALSE, halfOpen |-> FALSE, age |-> 0]

\* A failure that the open breaker ignores.
Ignores(b) == b.open /\ ~b.halfOpen

\* recordFailure, called with a clock read lag ago
Failed(b, lag) ==
  LET f == IF b.failures < Threshold THEN b.failures + 1 ELSE b.failures
  IN IF Threshold = 0 \/ Ignores(b) THEN b
     ELSE IF b.halfOpen \/ f >= Threshold
          THEN [failures |-> f, open |-> TRUE, halfOpen |-> FALSE, age |-> lag]
          ELSE [b EXCEPT !.failures = f]

\* Variant: a half-open breaker refuses a second trial.
RefusesSecond(b, lag) == b.open /\ (b.halfOpen \/ b.age - lag < Cooldown)

\* allow: the breaker is open and the cooldown has not elapsed
Refuses(b, lag) == b.open /\ b.age - lag < Cooldown

-----------------------------------------------------------------------------
(* Stream: the attempts *)

Start(c) ==
  /\ call[c].pc = "idle"
  /\ Step(c, Begin(NewCall))
  /\ UNCHANGED <<breaker, calm>>

Cancel(c) ==
  /\ ~calm /\ call[c].pc # "idle" /\ ~call[c].ctx
  /\ Step(c, [call[c] EXCEPT !.ctx = TRUE])
  /\ UNCHANGED <<breaker, calm>>

Refused(c) ==
  /\ call[c].pc = "admit"
  /\ Refuses(breaker, call[c].lag)
  /\ Step(c, Terminal(call[c]))
  /\ UNCHANGED <<breaker, calm>>

\* allow admits the attempt and establish begins it with an empty result.
Admitted(c) ==
  /\ call[c].pc = "admit"
  /\ ~Refuses(breaker, call[c].lag)
  /\ breaker' = [breaker EXCEPT !.halfOpen = breaker.open]
  /\ Step(c, [call[c] EXCEPT !.pc = "pump", !.n = @ + 1, !.sent = <<>>,
                             !.buf = <<>>, !.used = 0, !.err = "none",
                             !.lag = 0])
  /\ UNCHANGED calm

\* Variant: the usage of the attempt is dropped.
DiscardForgets(r, e) ==
  [r EXCEPT !.pc = "failed", !.err = e, !.cut = FALSE, !.sent = <<>>,
            !.buf = <<>>, !.used = 0]

\* pumpAttempt gives up; Stream adds the attempt's usage to what it carries.
Discard(r, e) ==
  [r EXCEPT !.pc = "failed", !.err = e, !.cut = FALSE, !.sent = <<>>,
            !.buf = <<>>, !.saved = @ + r.used, !.used = 0]

\* isCallerCanceled
CallerCanceled(r) == r.ctx /\ r.err \in {"canceled", "idle", "timeout"}

\* What Stream does with a failed attempt once the breaker knows of it.
Decide(r) ==
  IF Retryable(r.err) /\ r.n < MaxAttempts
  THEN [r EXCEPT !.pc = "backoff", !.lag = 0, !.err = "none"]
  ELSE Terminal(r)

Judge(c) ==
  /\ call[c].pc = "failed"
  /\ Step(c, IF CallerCanceled(call[c]) THEN Terminal(call[c])
             ELSE IF Transient(call[c].err)
                  THEN [call[c] EXCEPT !.pc = "record", !.lag = 0]
                  ELSE Decide(call[c]))
  /\ UNCHANGED <<breaker, calm>>

RecordFailure(c) ==
  /\ call[c].pc = "record"
  /\ breaker' = Failed(breaker, call[c].lag)
  /\ Step(c, Decide(call[c]))
  /\ UNCHANGED calm

\* backoffWith: the timer, or the caller's cancellation.
Backoff(c) ==
  /\ call[c].pc = "backoff"
  /\ \/ Step(c, Begin(call[c]))
     \/ call[c].ctx /\ Step(c, Terminal(call[c]))
  /\ UNCHANGED <<breaker, calm>>

-----------------------------------------------------------------------------
(* pumpAttempt: one attempt up to its semantic boundary *)

\* Variant: only the first chunk is waited for with a timer.
WatchdogFirst(c) ==
  /\ ~calm /\ call[c].pc = "pump" /\ call[c].sent = <<>> /\ ~call[c].cut
  /\ Step(c, [call[c] EXCEPT !.cut = TRUE])
  /\ UNCHANGED <<breaker, calm>>

\* The establishment timer before the first chunk, the idle timer after it,
\* both cancelling the attempt's context.  (Both are taken as configured: the code
\* lets either be disabled.)
Watchdog(c) ==
  /\ ~calm /\ call[c].pc \in {"pump", "rest"} /\ ~call[c].cut
  /\ Step(c, [call[c] EXCEPT !.cut = TRUE])
  /\ UNCHANGED <<breaker, calm>>

\* The error of an attempt whose context was cancelled: a fired timer hides
\* what the provider returned.
CutError(r) ==
  IF r.cut /\ r.sent = <<>> THEN "timeout"
  ELSE IF r.ctx THEN "canceled" ELSE "idle"

Broken(r) == r.cut \/ r.ctx

\* A chunk joins the attempt: its usage is counted when it is buffered.
Buffered(r, k) ==
  [r EXCEPT !.sent = Append(@, k), !.buf = Append(@, k),
            !.used = @ + (IF k = "usage" THEN 1 ELSE 0),
            !.spent = @ + (IF k = "usage" THEN 1 ELSE 0)]

\* advancesVisible and the clean end: the boundary a chunk crosses.
Crosses(r, k) ==
  IF k = "done" THEN [Buffered(r, k) EXCEPT !.pc = "flush", !.after = "success"]
  ELSE IF k = "text" THEN [Buffered(r, k) EXCEPT !.pc = "flush", !.after = "rest"]
       ELSE Buffered(r, k)
MaySend(r) ==
  /\ Len(r.sent) < MaxChunks
  /\ "done" \notin {r.sent[i] : i \in 1..Len(r.sent)}

\* A chunk that comes when the attempt's context is already cancelled is dropped, and
\* its usage with it.
PumpChunk(c, k) ==
  /\ call[c].pc = "pump" /\ MaySend(call[c])
  /\ Step(c, IF Broken(call[c]) THEN Discard(call[c], CutError(call[c]))
             ELSE Crosses(call[c], k))
  /\ UNCHANGED <<breaker, calm>>

\* The iterator ends.  Providers swallow a cancellation and end it too.
PumpEnd(c) ==
  /\ call[c].pc = "pump"
  /\ Step(c, IF call[c].ctx THEN Discard(call[c], "canceled")
             ELSE IF call[c].cut THEN Discard(call[c], CutError(call[c]))
                  ELSE [call[c] EXCEPT !.pc = "flush", !.after = "success"])
  /\ UNCHANGED <<breaker, calm>>

\* inner.Stream or the iterator returns an error (establishmentFailure).
PumpError(c, e) ==
  /\ call[c].pc = "pump" /\ (~calm \/ Broken(call[c]))
  /\ Step(c, Discard(call[c], IF Broken(call[c]) THEN CutError(call[c]) ELSE e))
  /\ UNCHANGED <<breaker, calm>>

-----------------------------------------------------------------------------
(* wrap: the consumer's side *)

\* The carried usage is yielded first, as one chunk.
YieldSaved(c) ==
  /\ call[c].pc = "flush" /\ call[c].saved > 0
  /\ Step(c, IF call[c].ctx THEN Stop(call[c], "broken")
             ELSE [call[c] EXCEPT !.paid = @ + call[c].saved, !.saved = 0])
  /\ UNCHANGED <<breaker, calm>>

Pays(k) == IF k = "usage" THEN 1 ELSE 0

YieldBuffered(c) ==
  /\ call[c].pc = "flush" /\ call[c].saved = 0 /\ call[c].buf # <<>>
  /\ Step(c, IF call[c].ctx THEN Stop(call[c], "broken")
             ELSE [call[c] EXCEPT !.out = Append(@, Head(call[c].buf)),
                                  !.buf = Tail(@),
                                  !.paid = @ + Pays(Head(call[c].buf))])
  /\ UNCHANGED <<breaker, calm>>

\* Variant: visible output counts as a success.
FlushedHealthy(c) ==
  /\ call[c].pc = "flush" /\ call[c].saved = 0 /\ call[c].buf = <<>>
  /\ breaker' = IF call[c].after # "error" THEN Succeeded(breaker) ELSE breaker
  /\ Step(c, IF call[c].after = "rest" THEN [call[c] EXCEPT !.pc = "rest"]
             ELSE Stop(call[c], IF call[c].after = "success" THEN "clean" ELSE "error"))
  /\ UNCHANGED calm

\* Everything is flushed: the turn is complete, goes on, or fails.
Flushed(c) ==
  /\ call[c].pc = "flush" /\ call[c].saved = 0 /\ call[c].buf = <<>>
  /\ IF call[c].after = "success"
     THEN breaker' = Succeeded(breaker) /\ Step(c, Stop(call[c], "clean"))
     ELSE /\ Step(c, IF call[c].after = "rest" THEN [call[c] EXCEPT !.pc = "rest"]
                     ELSE Stop(call[c], "error"))
          /\ UNCHANGED breaker
  /\ UNCHANGED calm

\* Variant: a failure of the visible stream is retried.
FailVisibleRetried(r) == Discard(r, r.err)

\* A failure of the visible stream is passed on; it counts if it is transient.
FailVisible(r) ==
  IF ~CallerCanceled(r) /\ Transient(r.err)
  THEN [r EXCEPT !.pc = "late", !.cut = FALSE, !.lag = 0] ELSE Stop(r, "error")

RestChunk(c, k) ==
  /\ call[c].pc = "rest" /\ MaySend(call[c])
  /\ Step(c, IF call[c].cut THEN FailVisible([call[c] EXCEPT !.err = "idle"])
             ELSE IF call[c].ctx THEN Stop(call[c], "broken")
                  ELSE [call[c] EXCEPT !.sent = Append(@, k), !.out = Append(@, k),
                                       !.spent = @ + Pays(k), !.paid = @ + Pays(k)])
  /\ UNCHANGED <<breaker, calm>>

RestEnd(c) ==
  /\ call[c].pc = "rest"
  /\ IF call[c].cut
     THEN Step(c, FailVisible([call[c] EXCEPT !.err = "idle"])) /\ UNCHANGED breaker
     ELSE breaker' = Succeeded(breaker) /\ Step(c, Stop(call[c], "clean"))
  /\ UNCHANGED calm

RestError(c, e) ==
  /\ call[c].pc = "rest" /\ (~calm \/ Broken(call[c]))
  /\ e = "canceled" => Broken(call[c])
  /\ Step(c, FailVisible([call[c] EXCEPT !.err = IF call[c].cut THEN "idle" ELSE e]))
  /\ UNCHANGED <<breaker, calm>>

RecordLate(c) ==
  /\ call[c].pc = "late"
  /\ breaker' = Failed(breaker, call[c].lag)
  /\ Step(c, Stop(call[c], "error"))
  /\ UNCHANGED calm

-----------------------------------------------------------------------------
(* Time, the environment and the specification *)

Capped(n, max) == IF n < max THEN n + 1 ELSE max

\* A clock read older than MaxLag counts as MaxLag old.
Tick ==
  /\ breaker' = [breaker EXCEPT !.age = IF breaker.open THEN Capped(@, Cooldown + MaxLag)
                                       ELSE @]
  /\ call' = [c \in Callers |->
       [call[c] EXCEPT !.lag = IF call[c].pc \in {"admit", "record", "late"}
                               THEN Capped(@, MaxLag) ELSE @]]
  /\ UNCHANGED calm

Calm == ~calm /\ calm' = TRUE /\ UNCHANGED <<breaker, call>>

Attempts(c) == Refused(c) \/ Admitted(c) \/ Judge(c) \/ RecordFailure(c) \/ Backoff(c)

Consumes(c) == YieldSaved(c) \/ YieldBuffered(c) \/ Flushed(c) \/ RecordLate(c)

\* What the provider does.
Responds(c) ==
  \/ \E k \in Kinds[c] : PumpChunk(c, k) \/ RestChunk(c, k)
  \/ PumpEnd(c) \/ RestEnd(c)
  \/ \E e \in Errors : PumpError(c, e)
  \/ \E e \in Errors \cup {"canceled"} : RestError(c, e)

Next ==
  \/ \E c \in Callers :
       Start(c) \/ Cancel(c) \/ Attempts(c) \/ Consumes(c) \/ Watchdog(c) \/ Responds(c)
  \/ Tick
  \/ Calm

Spec == Init /\ [][Next]_vars

\* The goroutine of a call runs; a timer fires unless the stream moves on; a
\* provider whose context is cancelled, or that is healthy, comes back.
FairSpec ==
  /\ Spec
  /\ WF_vars(Tick)
  /\ \A c \in Callers :
       /\ WF_vars(Start(c))
       /\ WF_vars(Attempts(c) \/ Consumes(c))
       /\ WF_vars(Watchdog(c))
       /\ WF_vars((calm \/ Broken(call[c])) /\ Responds(c))

-----------------------------------------------------------------------------
(* Properties *)

Prefix(s, t) == Len(s) <= Len(t) /\ \A i \in 1..Len(s) : s[i] = t[i]

\* The usage chunks of a sequence of chunks.
Usage(s) == Cardinality({i \in 1..Len(s) : s[i] = "usage"})

\* What holds between the fields of a call: before the boundary the consumer
\* has nothing and the buffer is what the provider sent; while the buffer is
\* flushed it is what the consumer still lacks; the usage is always complete.
CallInv(r) ==
  /\ r.pc \in {"admit", "backoff"} => r.n < MaxAttempts
  /\ r.pc \in {"idle", "admit", "failed", "record", "backoff"} =>
       r.out = <<>> /\ r.sent = <<>> /\ r.saved = r.spent /\ r.paid = 0
  /\ r.pc = "pump" =>
       /\ r.out = <<>> /\ r.buf = r.sent /\ r.paid = 0
       /\ r.used = Usage(r.sent) /\ r.saved + r.used = r.spent
  /\ r.pc = "flush" =>
       /\ r.out \o r.buf = r.sent /\ (r.saved > 0 => r.out = <<>>)
       /\ r.saved + r.paid + Usage(r.sent) = r.spent + Usage(r.out)
  /\ r.pc \in {"rest", "late"} => r.out = r.sent /\ r.saved = 0 /\ r.paid = r.spent

\* The shape of the breaker (breakerState) and of the calls: the breaker is
\* open exactly when the consecutive failures reached the threshold, and
\* half-open only while open; every call keeps its buffer and its accounts.
ResInv ==
  /\ breaker \in Breaker /\ calm \in BOOLEAN /\ call \in [Callers -> Call]
  /\ breaker.halfOpen => breaker.open
  /\ breaker.open <=> Threshold > 0 /\ breaker.failures = Threshold
  /\ \A c \in Callers : CallInv(call[c])

\* No replay after visibility: what a consumer received is, in wire order, a
\* beginning of what the provider sent in one attempt, the last one; nothing of
\* a discarded attempt escapes, and nothing is retried once something has.
WireOrder ==
  \A c \in Callers :
    /\ Prefix(call[c].out, call[c].sent)
    /\ call[c].pc \in {"admit", "pump", "failed", "record", "backoff"} =>
         call[c].out = <<>>

Returns(c, how) == call[c].pc # "idle" /\ call'[c].pc = "idle" /\ call'[c].end = how

\* Accounting: a consumer that reads its stream to the end, success or error,
\* has received all the usage that the call's attempts took in, once.  (What a chunk
\* reports that comes after its attempt was cut is dropped unseen, see PumpChunk.)
UsageConserved ==
  [][\A c \in Callers :
       Returns(c, "clean") \/ Returns(c, "error") => call[c].paid = call[c].spent]_vars

\* The breaker is reset only by a call whose consumer has received everything
\* that its provider sent: visible output alone is no sign of health (wrap).
RecoveryEarned ==
  [][breaker.failures > 0 /\ breaker'.failures = 0 =>
       \E c \in Callers : Returns(c, "clean") /\ call[c].out = call[c].sent]_vars

\* A caller's cancellation does not reset the breaker (the package comment).
CancelIsNeutral ==
  [][\A c \in Callers :
       call[c].ctx /\ call[c].pc # "idle" /\ call'[c].pc = "idle"
         => breaker'.failures >= breaker.failures]_vars

\* Every call ends, however the provider behaves: the watchdogs, where both are
\* configured, cut a stalled attempt and the attempts are bounded.
CallEnds == \A c \in Callers : call[c].pc # "idle" ~> call[c].pc = "idle"

\* Once the provider is healthy and callers neither cancel nor stop calling,
\* the breaker closes for good.
Recovers == calm ~> []~breaker.open
=============================================================================
