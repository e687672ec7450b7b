-------------------------- MODULE ResilienceProofs --------------------------
(***************************************************************************)
(* Theorems about the resilience decorator, for any number of callers,     *)
(* attempts and chunks: the inductive invariant ResInv, no replay after    *)
(* visibility, the accounting of usage, and what resets the breaker.       *)
(*                                                                         *)
(* Every action changes one call by an operator on its record, so the      *)
(* proof goes operator by operator: each one maps a record of Call that    *)
(* satisfies CallInv to another one.                                       *)
(***************************************************************************)
EXTENDS Resilience, FiniteSetTheorems, SequenceTheorems, TLAPS

-----------------------------------------------------------------------------
(* Sequences of chunks *)

LEMMA UsageNat ==
    ASSUME NEW s \in Seq(Chunk)
    PROVE  Usage(s) \in Nat /\ IsFiniteSet({i \in 1..Len(s) : s[i] = "usage"})
<1>1. IsFiniteSet(1..Len(s))  BY FS_Interval, LenProperties
<1>2. IsFiniteSet({i \in 1..Len(s) : s[i] = "usage"})  BY <1>1, FS_Subset, Zenon
<1> QED  BY <1>2, FS_CardinalityType, Zenon DEF Usage

\* A usage chunk counts one, any other chunk none.
LEMMA UsageAppend ==
    ASSUME NEW s \in Seq(Chunk), NEW k \in Chunk
    PROVE  Usage(Append(s, k)) = Usage(s) + Pays(k)
<1> DEFINE n == Len(s)
           A == {i \in 1..n : s[i] = "usage"}
           t == Append(s, k)
           B == {i \in 1..(n + 1) : t[i] = "usage"}
<1>1. n \in Nat /\ Len(t) = n + 1 /\ t[n + 1] = k /\ \A i \in 1..n : t[i] = s[i]
  BY LenProperties, AppendProperties
<1>2. IsFiniteSet(A) /\ n + 1 \notin A  BY <1>1, UsageNat
<1>3. CASE k = "usage"
  <2>1. B = A \cup {n + 1}
    <3> HIDE DEF n, t
    <3> QED  BY <1>1, <1>3
  <2>2. Cardinality(B) = Cardinality(A) + 1  BY <1>2, <2>1, FS_AddElement, Zenon
  <2> QED  BY <1>1, <1>3, <2>2, Zenon DEF Usage, Pays
<1>4. CASE k # "usage"
  <2>1. B = A
    <3> HIDE DEF n, t
    <3> QED  BY <1>1, <1>4
  <2>2. Usage(s) \in Nat  BY UsageNat, Zenon
  <2>3. Usage(t) = Usage(s)  BY <1>1, <2>1, Zenon DEF Usage
  <2> QED  BY <1>4, <2>2, <2>3 DEF Pays
<1> QED  BY <1>3, <1>4, Zenon

LEMMA UsageEmpty == Usage(<<>>) = 0
<1>1. {i \in 1..Len(<<>>) : <<>>[i] = "usage"} = {}  OBVIOUS
<1> QED  BY <1>1, FS_EmptySet, Zenon DEF Usage

\* Yielding the head of the buffer moves it from the buffer to the consumer.
LEMMA MoveHead ==
    ASSUME NEW s \in Seq(Chunk), NEW t \in Seq(Chunk), t # <<>>
    PROVE  /\ Head(t) \in Chunk /\ Tail(t) \in Seq(Chunk)
           /\ Append(s, Head(t)) \in Seq(Chunk)
           /\ Append(s, Head(t)) \o Tail(t) = s \o t
<1>1. Head(t) \in Chunk /\ Tail(t) \in Seq(Chunk) /\ t = <<Head(t)>> \o Tail(t)
  BY HeadTailProperties, ConcatSimplifications
<1>2. Append(s, Head(t)) = s \o <<Head(t)>> /\ <<Head(t)>> \in Seq(Chunk)
  BY <1>1, AppendIsConcat
<1>3. Append(s, Head(t)) \in Seq(Chunk)  BY <1>1, AppendProperties, Zenon
<1> QED  BY <1>1, <1>2, <1>3, ConcatAssociative

-----------------------------------------------------------------------------
(* The operators on the record of a call *)

\* A record of Call that satisfies the invariant.
Good(r) == r \in Call /\ CallInv(r)

LEMMA LagZero == 0 \in 0..MaxLag /\ MaxLag \in Nat
BY ResilienceAssumption

LEMMA NewCallFields ==
    /\ NewCall \in Call
    /\ NewCall.pc = "idle" /\ NewCall.out = <<>> /\ NewCall.sent = <<>> /\ NewCall.buf = <<>>
    /\ NewCall.saved = 0 /\ NewCall.spent = 0 /\ NewCall.paid = 0 /\ NewCall.n = 0
    /\ NewCall.ctx = FALSE /\ NewCall.used = 0 /\ NewCall.after = "success"
<1>1. <<>> \in Seq(Chunk)  OBVIOUS
<1> QED  BY <1>1, ResilienceAssumption DEF NewCall, Call

LEMMA StopGood ==
    ASSUME NEW r, NEW how \in {"clean", "error", "broken"}
    PROVE  Good(Stop(r, how)) /\ Stop(r, how).pc = "idle" /\ Stop(r, how).end = how
<1> DEFINE e == Stop(r, how)
<1>1. e \in Call /\ e.end = how  BY NewCallFields, Zenon DEF Stop, Call
<1>2. /\ e.pc = "idle" /\ e.out = <<>> /\ e.sent = <<>> /\ e.saved = 0 /\ e.spent = 0
      /\ e.paid = 0
  BY NewCallFields, Zenon DEF Stop, Call
<1> HIDE DEF e
<1>3. CallInv(e)  BY <1>2, Zenon DEF CallInv
<1> QED  BY <1>1, <1>2, <1>3, Zenon DEF Good, e

LEMMA CallTypes ==
    ASSUME NEW r \in Call
    PROVE  /\ r.saved \in Nat /\ r.spent \in Nat /\ r.paid \in Nat /\ r.used \in Nat
           /\ r.n \in Nat /\ r.n <= MaxAttempts
           /\ r.sent \in Seq(Chunk) /\ r.buf \in Seq(Chunk) /\ r.out \in Seq(Chunk)
BY ResilienceAssumption DEF Call

\* The fields of a call that is still without a visible attempt.
Blank(r) == r.out = <<>> /\ r.sent = <<>> /\ r.saved = r.spent /\ r.paid = 0

LEMMA TerminalGood ==
    ASSUME NEW r \in Call, Blank(r)
    PROVE  Good(Terminal(r))
<1>1. CASE r.saved = 0  BY <1>1, StopGood, Zenon DEF Terminal
<1>2. CASE r.saved # 0
  <2> DEFINE e == Terminal(r)
  <2>1. e = [NewCall EXCEPT !.pc = "flush", !.after = "error", !.ctx = r.ctx,
                            !.saved = r.saved, !.spent = r.spent]
    BY <1>2, Zenon DEF Terminal
  <2>2. r.saved \in Nat /\ r.spent \in Nat /\ r.ctx \in BOOLEAN  BY Zenon DEF Call
  <2>3. e \in Call  BY <2>1, <2>2, NewCallFields, ZenonT(60) DEF Call
  <2>4. /\ e.pc = "flush" /\ e.out = <<>> /\ e.buf = <<>> /\ e.sent = <<>>
        /\ e.saved = r.saved /\ e.spent = r.saved /\ e.paid = 0
    BY <2>1, NewCallFields, ZenonT(60) DEF Call, Blank
  <2> HIDE DEF e
  <2>5. Usage(e.sent) = 0 /\ Usage(e.out) = 0  BY <2>4, UsageEmpty, Zenon
  <2>6. e.out \o e.buf = e.sent  BY <2>4
  <2>7. CallInv(e)  BY <2>2, <2>4, <2>5, <2>6 DEF CallInv
  <2> QED  BY <2>3, <2>7, Zenon DEF Good, e
<1> QED  BY <1>1, <1>2, Zenon

LEMMA BeginGood ==
    ASSUME NEW r \in Call, Blank(r), r.n < MaxAttempts
    PROVE  Good(Begin(r))
<1>1. CASE r.ctx  BY <1>1, TerminalGood, Zenon DEF Begin
<1>2. CASE ~r.ctx
  <2> DEFINE e == Begin(r)
  <2>1. e = [r EXCEPT !.pc = "admit", !.lag = 0]  BY <1>2, Zenon DEF Begin
  <2> HIDE DEF e
  <2>2. e \in Call  BY <2>1, LagZero, Zenon DEF Call
  <2>3. e.pc = "admit" /\ e.n = r.n /\ Blank(e)  BY <2>1, Zenon DEF Call, Blank
  <2>4. CallInv(e)  BY <2>3, Zenon DEF CallInv, Blank
  <2> QED  BY <2>2, <2>4, Zenon DEF Good, e
<1> QED  BY <1>1, <1>2, Zenon

\* Any change of a record that keeps what the invariant speaks of.
LEMMA SameGood ==
    ASSUME NEW r, Good(r), NEW e \in Call,
           e.pc = r.pc, e.n = r.n, e.out = r.out, e.sent = r.sent, e.buf = r.buf,
           e.used = r.used, e.saved = r.saved, e.paid = r.paid, e.spent = r.spent
    PROVE  Good(e)
<1>1. CallInv(r)  BY Zenon DEF Good
<1>2. CallInv(e)  BY <1>1, Zenon DEF CallInv
<1> QED  BY <1>2, Zenon DEF Good

LEMMA DecideGood ==
    ASSUME NEW r \in Call, Blank(r)
    PROVE  Good(Decide(r))
<1>1. CASE Retryable(r.err) /\ r.n < MaxAttempts
  <2> DEFINE e == Decide(r)
  <2>1. e = [r EXCEPT !.pc = "backoff", !.lag = 0, !.err = "none"]  BY <1>1, Zenon DEF Decide
  <2> HIDE DEF e
  <2>2. e \in Call  BY <2>1, LagZero, Zenon DEF Call
  <2>3. e.pc = "backoff" /\ e.n = r.n /\ Blank(e)  BY <2>1, Zenon DEF Call, Blank
  <2>4. CallInv(e)  BY <1>1, <2>3, Zenon DEF CallInv, Blank
  <2> QED  BY <2>2, <2>4, Zenon DEF Good, e
<1>2. CASE ~(Retryable(r.err) /\ r.n < MaxAttempts)
  BY <1>2, TerminalGood, Zenon DEF Decide
<1> QED  BY <1>1, <1>2, Zenon

LEMMA DiscardGood ==
    ASSUME NEW r, Good(r), r.pc = "pump",
           NEW x \in {"canceled", "idle", "timeout"} \cup Errors
    PROVE  Good(Discard(r, x))
<1> DEFINE e == Discard(r, x)
<1>1. r \in Call /\ r.out = <<>> /\ r.paid = 0 /\ r.saved + r.used = r.spent
  BY Zenon DEF Good, CallInv
<1>2. r.saved + r.used \in Nat  BY <1>1, CallTypes, Zenon
<1>3. e = [r EXCEPT !.pc = "failed", !.err = x, !.cut = FALSE, !.sent = <<>>,
                    !.buf = <<>>, !.saved = r.saved + r.used, !.used = 0]
  BY <1>1, Zenon DEF Discard, Call
<1> HIDE DEF e
<1>4. <<>> \in Seq(Chunk)  OBVIOUS
<1>5. e \in Call  BY <1>1, <1>2, <1>3, <1>4, ZenonT(60) DEF Call
<1>6. e.pc = "failed" /\ Blank(e)  BY <1>1, <1>3, Zenon DEF Call, Blank
<1>7. CallInv(e)  BY <1>6, Zenon DEF CallInv, Blank
<1> QED  BY <1>5, <1>7, Zenon DEF Good, e

LEMMA BufferedFields ==
    ASSUME NEW r, Good(r), r.pc = "pump", NEW k \in Chunk
    PROVE  /\ Buffered(r, k) \in Call /\ Buffered(r, k).pc = "pump"
           /\ Buffered(r, k).out = <<>> /\ Buffered(r, k).paid = 0
           /\ Buffered(r, k).buf = Buffered(r, k).sent
           /\ Buffered(r, k).used = Usage(Buffered(r, k).sent)
           /\ Buffered(r, k).saved + Buffered(r, k).used = Buffered(r, k).spent
<1> DEFINE e == Buffered(r, k)
           s == Append(r.sent, k)
<1>1. /\ r \in Call /\ r.out = <<>> /\ r.buf = r.sent /\ r.paid = 0
      /\ r.used = Usage(r.sent) /\ r.saved + r.used = r.spent
  BY Zenon DEF Good, CallInv
<1>2. s \in Seq(Chunk) /\ Usage(s) = r.used + Pays(k)
  BY <1>1, CallTypes, AppendProperties, UsageAppend
<1>3. Pays(k) \in Nat  BY Zenon DEF Pays
<1>4. r.used + Pays(k) \in Nat /\ r.spent + Pays(k) \in Nat /\ r.saved \in Nat /\ r.used \in Nat
  BY <1>1, <1>3, CallTypes
<1>5. e = [r EXCEPT !.sent = s, !.buf = s, !.used = r.used + Pays(k),
                    !.spent = r.spent + Pays(k)]
  BY <1>1, Zenon DEF Buffered, Pays, Call
<1> HIDE DEF e, s
<1>6. e \in Call  BY <1>1, <1>2, <1>4, <1>5, ZenonT(60) DEF Call
<1>7. /\ e.pc = "pump" /\ e.out = <<>> /\ e.paid = 0 /\ e.buf = s /\ e.sent = s
      /\ e.used = r.used + Pays(k) /\ e.spent = r.spent + Pays(k) /\ e.saved = r.saved
  BY <1>1, <1>5, Zenon DEF Call
<1>8. e.saved + e.used = e.spent  BY <1>1, <1>3, <1>4, <1>7
<1> QED  BY <1>2, <1>6, <1>7, <1>8, Zenon DEF e

LEMMA FlushGood ==
    ASSUME NEW r \in Call, r.out = <<>>, r.paid = 0, r.buf = r.sent,
           r.used = Usage(r.sent), r.saved + r.used = r.spent,
           NEW a \in {"success", "rest"}
    PROVE  Good([r EXCEPT !.pc = "flush", !.after = a])
<1> DEFINE e == [r EXCEPT !.pc = "flush", !.after = a]
<1>1. e \in Call  BY ZenonT(60) DEF Call
<1>2. /\ e.pc = "flush" /\ e.out = <<>> /\ e.buf = r.sent /\ e.sent = r.sent
      /\ e.saved = r.saved /\ e.paid = 0 /\ e.spent = r.spent
  BY Zenon DEF Call
<1> HIDE DEF e
<1>3. e.out \o e.buf = e.sent  BY <1>2, CallTypes, ConcatEmptySeq, Zenon
<1>4. Usage(e.out) = 0 /\ Usage(e.sent) = r.used  BY <1>2, UsageEmpty, Zenon
<1>5. e.saved + e.paid + Usage(e.sent) = e.spent + Usage(e.out)
  BY <1>2, <1>4, CallTypes
<1>6. CallInv(e)  BY <1>2, <1>3, <1>5, Zenon DEF CallInv
<1> QED  BY <1>1, <1>6, Zenon DEF Good, e

LEMMA CrossesGood ==
    ASSUME NEW r, Good(r), r.pc = "pump", NEW k \in Chunk
    PROVE  Good(Crosses(r, k))
<1> DEFINE b == Buffered(r, k)
<1>1. /\ b \in Call /\ b.pc = "pump" /\ b.out = <<>> /\ b.paid = 0 /\ b.buf = b.sent
      /\ b.used = Usage(b.sent) /\ b.saved + b.used = b.spent
  BY BufferedFields, Zenon
<1> HIDE DEF b
<1>2. Good([b EXCEPT !.pc = "flush", !.after = "success"])  BY <1>1, FlushGood, Zenon
<1>3. Good([b EXCEPT !.pc = "flush", !.after = "rest"])  BY <1>1, FlushGood, Zenon
<1>4. Good(b)  BY <1>1, Zenon DEF Good, CallInv
<1> QED  BY <1>2, <1>3, <1>4, Zenon DEF Crosses, b

LEMMA AdmitGood ==
    ASSUME NEW r, Good(r), r.pc = "admit"
    PROVE  Good([r EXCEPT !.pc = "pump", !.n = @ + 1, !.sent = <<>>, !.buf = <<>>,
                          !.used = 0, !.err = "none", !.lag = 0])
<1> DEFINE m == r.n + 1
           e == [r EXCEPT !.pc = "pump", !.n = m, !.sent = <<>>, !.buf = <<>>,
                          !.used = 0, !.err = "none", !.lag = 0]
<1>1. r \in Call /\ r.n < MaxAttempts /\ Blank(r)  BY Zenon DEF Good, CallInv, Blank
<1>2. m \in 0..MaxAttempts  BY <1>1, CallTypes, ResilienceAssumption
<1>3. <<>> \in Seq(Chunk)  OBVIOUS
<1> HIDE DEF m
<1>4. e \in Call  BY <1>1, <1>2, <1>3, LagZero, Zenon DEF Call
<1>5. /\ e.pc = "pump" /\ e.out = <<>> /\ e.buf = <<>> /\ e.sent = <<>> /\ e.used = 0
      /\ e.saved = r.saved /\ e.spent = r.saved /\ e.paid = 0
  BY <1>1, Zenon DEF Call, Blank
<1> HIDE DEF e
<1>6. e.used = Usage(e.sent) /\ e.saved + e.used = e.spent
  BY <1>1, <1>5, UsageEmpty, CallTypes
<1>7. CallInv(e)  BY <1>5, <1>6, Zenon DEF CallInv
<1> QED  BY <1>1, <1>4, <1>7, Zenon DEF Good, e, m, Call

LEMMA YieldSavedGood ==
    ASSUME NEW r, Good(r), r.pc = "flush", r.saved > 0
    PROVE  Good([r EXCEPT !.paid = @ + r.saved, !.saved = 0])
<1> DEFINE p == r.paid + r.saved
           e == [r EXCEPT !.paid = p, !.saved = 0]
<1>1. /\ r \in Call /\ r.out \o r.buf = r.sent
      /\ r.saved + r.paid + Usage(r.sent) = r.spent + Usage(r.out)
  BY Zenon DEF Good, CallInv
<1>2. p \in Nat /\ r.saved \in Nat /\ r.paid \in Nat /\ p = r.paid + r.saved
  BY <1>1, CallTypes
<1>3. Usage(r.sent) \in Nat /\ Usage(r.out) \in Nat  BY <1>1, CallTypes, UsageNat, Zenon
<1> HIDE DEF p
<1>4. e \in Call  BY <1>1, <1>2, Zenon DEF Call
<1>5. /\ e.pc = "flush" /\ e.out = r.out /\ e.buf = r.buf /\ e.sent = r.sent
      /\ e.saved = 0 /\ e.paid = p /\ e.spent = r.spent
  BY <1>1, Zenon DEF Call
<1> HIDE DEF e
<1>6. e.saved + e.paid + Usage(e.sent) = e.spent + Usage(e.out)
  BY <1>1, <1>2, <1>3, <1>5
<1>a. e.out \o e.buf = e.sent  BY <1>1, <1>5, Zenon
<1>b. ~(e.saved > 0)  BY ONLY <1>5
<1>7. CallInv(e)  BY ONLY <1>5, <1>6, <1>a, <1>b DEF CallInv
<1> QED  BY <1>1, <1>4, <1>7, Zenon DEF Good, e, p, Call

LEMMA YieldBufferedGood ==
    ASSUME NEW r, Good(r), r.pc = "flush", r.saved = 0, r.buf # <<>>
    PROVE  Good([r EXCEPT !.out = Append(@, Head(r.buf)), !.buf = Tail(@),
                          !.paid = @ + Pays(Head(r.buf))])
<1> DEFINE h == Head(r.buf)
           o == Append(r.out, h)
           b == Tail(r.buf)
           p == r.paid + Pays(h)
           e == [r EXCEPT !.out = o, !.buf = b, !.paid = p]
<1>1. /\ r \in Call /\ r.out \o r.buf = r.sent
      /\ r.saved + r.paid + Usage(r.sent) = r.spent + Usage(r.out)
  BY Zenon DEF Good, CallInv
<1>2. h \in Chunk /\ o \in Seq(Chunk) /\ b \in Seq(Chunk) /\ o \o b = r.sent
  BY <1>1, CallTypes, MoveHead, Zenon
<1>3. Usage(o) = Usage(r.out) + Pays(h)  BY <1>1, <1>2, CallTypes, UsageAppend, Zenon
<1>4. Pays(h) \in Nat  BY Zenon DEF Pays
<1>5. p \in Nat /\ r.paid \in Nat /\ r.spent \in Nat  BY <1>1, <1>4, CallTypes
<1>6. Usage(r.sent) \in Nat /\ Usage(r.out) \in Nat  BY <1>1, CallTypes, UsageNat, Zenon
<1>7. p = r.paid + Pays(h)  OBVIOUS
<1> HIDE DEF h, o, b, p
<1>8. e \in Call  BY <1>1, <1>2, <1>5, Zenon DEF Call
<1>9. /\ e.pc = "flush" /\ e.out = o /\ e.buf = b /\ e.sent = r.sent
      /\ e.saved = 0 /\ e.paid = p /\ e.spent = r.spent
  BY <1>1, Zenon DEF Call
<1> HIDE DEF e
<1>a. r.paid + Usage(r.sent) = r.spent + Usage(r.out)  BY <1>1, <1>5, <1>6
<1>b. 0 + p + Usage(r.sent) = r.spent + Usage(o)
  BY ONLY <1>3, <1>4, <1>5, <1>6, <1>7, <1>a
<1>10. e.saved + e.paid + Usage(e.sent) = e.spent + Usage(e.out)  BY <1>9, <1>b, Zenon
<1>c. e.out \o e.buf = e.sent /\ ~(e.saved > 0)  BY <1>2, <1>9
<1>11. CallInv(e)  BY ONLY <1>9, <1>10, <1>c DEF CallInv
<1> QED  BY <1>1, <1>8, <1>11, Zenon DEF Good, e, h, o, b, p, Call

\* Once everything is flushed the consumer has all the chunks and all the usage.
LEMMA FlushedFields ==
    ASSUME NEW r, Good(r), r.pc = "flush", r.saved = 0, r.buf = <<>>
    PROVE  r.out = r.sent /\ r.paid = r.spent
<1>1. /\ r \in Call /\ r.out \o r.buf = r.sent
      /\ r.saved + r.paid + Usage(r.sent) = r.spent + Usage(r.out)
  BY Zenon DEF Good, CallInv
<1>2. r.out = r.sent  BY <1>1, CallTypes, ConcatEmptySeq, Zenon
<1>3. Usage(r.sent) \in Nat /\ r.paid \in Nat /\ r.spent \in Nat  BY <1>1, CallTypes, UsageNat, Zenon
<1>4. r.paid = r.spent  BY <1>1, <1>2, <1>3
<1> QED  BY <1>2, <1>4, Zenon

\* The fields of a call that relays a visible stream.
Relays(r) == r.out = r.sent /\ r.saved = 0 /\ r.paid = r.spent

LEMMA RestGood ==
    ASSUME NEW r \in Call, Relays(r)
    PROVE  Good([r EXCEPT !.pc = "rest"])
<1> DEFINE e == [r EXCEPT !.pc = "rest"]
<1>1. e \in Call /\ e.pc = "rest" /\ Relays(e)  BY ZenonT(60) DEF Call, Relays
<1> HIDE DEF e
<1>2. CallInv(e)  BY <1>1, Zenon DEF CallInv, Relays
<1> QED  BY <1>1, <1>2, Zenon DEF Good, e

LEMMA FailVisibleGood ==
    ASSUME NEW r \in Call, Relays(r)
    PROVE  Good(FailVisible(r))
<1>1. CASE ~CallerCanceled(r) /\ Transient(r.err)
  <2> DEFINE e == [r EXCEPT !.pc = "late", !.cut = FALSE, !.lag = 0]
  <2>1. e \in Call /\ e.pc = "late" /\ Relays(e)  BY LagZero, ZenonT(60) DEF Call, Relays
  <2> HIDE DEF e
  <2>2. CallInv(e)  BY <2>1, Zenon DEF CallInv, Relays
  <2> QED  BY <1>1, <2>1, <2>2, Zenon DEF Good, e, FailVisible
<1>2. CASE ~(~CallerCanceled(r) /\ Transient(r.err))
  BY <1>2, StopGood, Zenon DEF FailVisible
<1> QED  BY <1>1, <1>2, Zenon

LEMMA FailErrGood ==
    ASSUME NEW r, Good(r), r.pc = "rest", NEW x \in {"idle", "canceled"} \cup Errors
    PROVE  Good(FailVisible([r EXCEPT !.err = x]))
<1>1. r \in Call /\ Relays(r)  BY Zenon DEF Good, CallInv, Relays
<1> DEFINE e == [r EXCEPT !.err = x]
<1>2. e \in Call /\ Relays(e)  BY <1>1, ZenonT(60) DEF Call, Relays
<1> HIDE DEF e
<1>3. Good(FailVisible(e))  BY <1>2, FailVisibleGood, Zenon
<1> QED  BY <1>3, Zenon DEF e

LEMMA RelayGood ==
    ASSUME NEW r, Good(r), r.pc = "rest", NEW k \in Chunk
    PROVE  Good([r EXCEPT !.sent = Append(@, k), !.out = Append(@, k),
                          !.spent = @ + Pays(k), !.paid = @ + Pays(k)])
<1> DEFINE s == Append(r.sent, k)
           p == r.paid + Pays(k)
           e == [r EXCEPT !.sent = s, !.out = s, !.spent = p, !.paid = p]
<1>1. r \in Call /\ Relays(r)  BY Zenon DEF Good, CallInv, Relays
<1>2. s \in Seq(Chunk)  BY <1>1, CallTypes, AppendProperties, Zenon
<1>3. p \in Nat
  <2>1. Pays(k) \in Nat  BY Zenon DEF Pays
  <2> QED  BY <1>1, <2>1, CallTypes
<1>4. e = [r EXCEPT !.sent = Append(@, k), !.out = Append(@, k),
                    !.spent = @ + Pays(k), !.paid = @ + Pays(k)]
  BY <1>1, Zenon DEF Relays, Call
<1> HIDE DEF s, p
<1>5. e \in Call  BY <1>1, <1>2, <1>3, Zenon DEF Call
<1>6. e.pc = "rest" /\ Relays(e)  BY <1>1, Zenon DEF Call, Relays
<1> HIDE DEF e
<1>7. CallInv(e)  BY <1>6, Zenon DEF CallInv, Relays
<1> QED  BY <1>4, <1>5, <1>7, Zenon DEF Good

LEMMA RecordGood ==
    ASSUME NEW r, Good(r), r.pc = "failed"
    PROVE  Good([r EXCEPT !.pc = "record", !.lag = 0])
<1> DEFINE e == [r EXCEPT !.pc = "record", !.lag = 0]
<1>1. r \in Call /\ Blank(r)  BY Zenon DEF Good, CallInv, Blank
<1>2. e \in Call /\ e.pc = "record" /\ Blank(e)  BY <1>1, LagZero, ZenonT(60) DEF Call, Blank
<1> HIDE DEF e
<1>3. CallInv(e)  BY <1>2, Zenon DEF CallInv, Blank
<1> QED  BY <1>2, <1>3, Zenon DEF Good, e

-----------------------------------------------------------------------------
(* The actions *)

CallsGood == call \in [Callers -> Call] /\ \A c \in Callers : CallInv(call[c])

LEMMA CallGood ==
    ASSUME CallsGood, NEW c \in Callers
    PROVE  Good(call[c]) /\ call[c] \in Call
BY Zenon DEF CallsGood, Good

LEMMA StepKeeps ==
    ASSUME CallsGood, NEW c \in Callers, NEW e, Good(e), Step(c, e)
    PROVE  CallsGood'
<1>1. call \in [Callers -> Call] /\ e \in Call /\ CallInv(e)  BY Zenon DEF CallsGood, Good
<1>2. call' = [call EXCEPT ![c] = e]  BY Zenon DEF Step
<1>3. call' \in [Callers -> Call]  BY <1>1, <1>2, Zenon
<1>4. \A d \in Callers : CallInv(call'[d])
  <2> TAKE d \in Callers
  <2>1. CASE d = c  BY <1>1, <1>2, <2>1, Zenon
  <2>2. CASE d # c
    <3>1. call'[d] = call[d]  BY <1>1, <1>2, <2>2, Zenon
    <3> QED  BY <3>1, Zenon DEF CallsGood
  <2> QED  BY <2>1, <2>2, Zenon
<1> QED  BY <1>3, <1>4, Zenon DEF CallsGood, CallInv

LEMMA ErrorsCovered ==
    ASSUME NEW r
    PROVE  CutError(r) \in {"canceled", "idle", "timeout"} \cup Errors
BY Zenon DEF CutError

LEMMA KindsAreChunks ==
    ASSUME NEW c \in Callers, NEW k \in Kinds[c]
    PROVE  k \in Chunk
BY ResilienceAssumption, Zenon

LEMMA AttemptsKeep ==
    ASSUME CallsGood, NEW c \in Callers,
           Start(c) \/ Cancel(c) \/ Watchdog(c) \/ Attempts(c)
    PROVE  CallsGood'
<1> DEFINE r == call[c]
<1>1. Good(r) /\ r \in Call  BY CallGood, Zenon
<1>2. r.pc \in {"admit", "failed", "record", "backoff"} => Blank(r)
  BY <1>1, Zenon DEF Good, CallInv, Blank
<1>3. CASE Start(c)
  <2>1. Blank(NewCall) /\ NewCall.n < MaxAttempts
    BY NewCallFields, ResilienceAssumption DEF Blank
  <2>2. Good(Begin(NewCall))  BY <2>1, NewCallFields, BeginGood, Zenon
  <2> QED  BY <1>3, <2>2, StepKeeps, Zenon DEF Start
<1>4. CASE Cancel(c)
  <2> DEFINE e == [r EXCEPT !.ctx = TRUE]
  <2>1. e \in Call  BY <1>1, Zenon DEF Call
  <2>2. /\ e.pc = r.pc /\ e.n = r.n /\ e.out = r.out /\ e.sent = r.sent /\ e.buf = r.buf
        /\ e.used = r.used /\ e.saved = r.saved /\ e.paid = r.paid /\ e.spent = r.spent
    BY <1>1, Zenon DEF Call
  <2>3. Step(c, e)  BY <1>4, Zenon DEF Cancel
  <2> HIDE DEF e, r
  <2>4. Good(e)  BY <1>1, <2>1, <2>2, SameGood, Zenon
  <2> QED  BY <2>3, <2>4, StepKeeps, Zenon
<1>5. CASE Watchdog(c)
  <2> DEFINE e == [r EXCEPT !.cut = TRUE]
  <2>1. e \in Call  BY <1>1, Zenon DEF Call
  <2>2. /\ e.pc = r.pc /\ e.n = r.n /\ e.out = r.out /\ e.sent = r.sent /\ e.buf = r.buf
        /\ e.used = r.used /\ e.saved = r.saved /\ e.paid = r.paid /\ e.spent = r.spent
    BY <1>1, Zenon DEF Call
  <2>3. Step(c, e)  BY <1>5, Zenon DEF Watchdog
  <2> HIDE DEF e, r
  <2>4. Good(e)  BY <1>1, <2>1, <2>2, SameGood, Zenon
  <2> QED  BY <2>3, <2>4, StepKeeps, Zenon
<1>6. CASE Refused(c)
  <2>1. r.pc = "admit" /\ Step(c, Terminal(r))  BY <1>6, Zenon DEF Refused
  <2>2. Good(Terminal(r))  BY <1>1, <1>2, <2>1, TerminalGood, Zenon
  <2> QED  BY <2>1, <2>2, StepKeeps, Zenon
<1>7. CASE Admitted(c)
  <2> DEFINE e == [r EXCEPT !.pc = "pump", !.n = @ + 1, !.sent = <<>>, !.buf = <<>>,
                            !.used = 0, !.err = "none", !.lag = 0]
  <2>1. r.pc = "admit" /\ Step(c, e)  BY <1>7, Zenon DEF Admitted
  <2>2. Good(e)  BY <1>1, <2>1, AdmitGood, Zenon
  <2> HIDE DEF e
  <2> QED  BY <2>1, <2>2, StepKeeps, Zenon
<1>8. CASE Judge(c)
  <2>1. r.pc = "failed"  BY <1>8, Zenon DEF Judge
  <2>2. Good(Terminal(r)) /\ Good(Decide(r))  BY <1>1, <1>2, <2>1, TerminalGood, DecideGood, Zenon
  <2>3. Good([r EXCEPT !.pc = "record", !.lag = 0])  BY <1>1, <2>1, RecordGood, Zenon
  <2> DEFINE e == IF CallerCanceled(r) THEN Terminal(r)
                  ELSE IF Transient(r.err) THEN [r EXCEPT !.pc = "record", !.lag = 0]
                       ELSE Decide(r)
  <2>4. Step(c, e)  BY <1>8, Zenon DEF Judge
  <2>5. Good(e)  BY <2>2, <2>3, Zenon
  <2> HIDE DEF e
  <2> QED  BY <2>4, <2>5, StepKeeps, Zenon
<1>9. CASE RecordFailure(c)
  <2>1. r.pc = "record" /\ Step(c, Decide(r))  BY <1>9, Zenon DEF RecordFailure
  <2>2. Good(Decide(r))  BY <1>1, <1>2, <2>1, DecideGood, Zenon
  <2> QED  BY <2>1, <2>2, StepKeeps, Zenon
<1>10. CASE Backoff(c)
  <2>1. /\ r.pc = "backoff"
        /\ Step(c, Begin(r)) \/ Step(c, Terminal(r))
    BY <1>10, Zenon DEF Backoff
  <2>2. r.n < MaxAttempts  BY <1>1, <2>1, Zenon DEF Good, CallInv
  <2>3. Good(Begin(r)) /\ Good(Terminal(r))
    BY <1>1, <1>2, <2>1, <2>2, BeginGood, TerminalGood, Zenon
  <2> QED  BY <2>1, <2>3, StepKeeps, Zenon
<1> QED  BY <1>3, <1>4, <1>5, <1>6, <1>7, <1>8, <1>9, <1>10, Zenon DEF Attempts

LEMMA ConsumesKeep ==
    ASSUME CallsGood, NEW c \in Callers, Consumes(c)
    PROVE  CallsGood'
<1> DEFINE r == call[c]
<1>1. Good(r) /\ r \in Call  BY CallGood, Zenon
<1>2. Good(Stop(r, "broken")) /\ Good(Stop(r, "clean")) /\ Good(Stop(r, "error"))
  BY StopGood, Zenon
<1>3. CASE YieldSaved(c)
  <2> DEFINE f == [r EXCEPT !.paid = @ + r.saved, !.saved = 0]
             e == IF r.ctx THEN Stop(r, "broken") ELSE f
  <2>1. r.pc = "flush" /\ r.saved > 0 /\ Step(c, e)  BY <1>3, Zenon DEF YieldSaved
  <2>2. Good(f)  BY <1>1, <2>1, YieldSavedGood, Zenon
  <2> HIDE DEF f
  <2>3. Good(e)  BY <1>2, <2>2, Zenon
  <2> HIDE DEF e
  <2> QED  BY <2>1, <2>3, StepKeeps, Zenon
<1>4. CASE YieldBuffered(c)
  <2> DEFINE f == [r EXCEPT !.out = Append(@, Head(r.buf)), !.buf = Tail(@),
                            !.paid = @ + Pays(Head(r.buf))]
             e == IF r.ctx THEN Stop(r, "broken") ELSE f
  <2>1. r.pc = "flush" /\ r.saved = 0 /\ r.buf # <<>> /\ Step(c, e)
    BY <1>4, Zenon DEF YieldBuffered
  <2>2. Good(f)  BY <1>1, <2>1, YieldBufferedGood, Zenon
  <2> HIDE DEF f
  <2>3. Good(e)  BY <1>2, <2>2, Zenon
  <2> HIDE DEF e
  <2> QED  BY <2>1, <2>3, StepKeeps, Zenon
<1>5. CASE Flushed(c)
  <2> DEFINE f == [r EXCEPT !.pc = "rest"]
  <2>1. r.pc = "flush" /\ r.saved = 0 /\ r.buf = <<>>  BY <1>5, Zenon DEF Flushed
  <2>2. Relays(r)  BY <1>1, <2>1, FlushedFields, Zenon DEF Relays
  <2>3. Good(f)  BY <1>1, <2>2, RestGood, Zenon
  <2>4. \/ Step(c, Stop(r, "clean"))
        \/ Step(c, IF r.after = "rest" THEN f ELSE Stop(r, "error"))
    BY <1>5, Zenon DEF Flushed
  <2> HIDE DEF f
  <2>5. Good(IF r.after = "rest" THEN f ELSE Stop(r, "error"))  BY <1>2, <2>3, Zenon
  <2> QED  BY <1>2, <2>4, <2>5, StepKeeps, Zenon
<1>6. CASE RecordLate(c)
  <2>1. Step(c, Stop(r, "error"))  BY <1>6, Zenon DEF RecordLate
  <2> QED  BY <1>2, <2>1, StepKeeps, Zenon
<1> QED  BY <1>3, <1>4, <1>5, <1>6, Zenon DEF Consumes

LEMMA PumpKeeps ==
    ASSUME CallsGood, NEW c \in Callers,
           \/ \E k \in Kinds[c] : PumpChunk(c, k)
           \/ PumpEnd(c)
           \/ \E x \in Errors : PumpError(c, x)
    PROVE  CallsGood'
<1> DEFINE r == call[c]
           cutr == Discard(r, CutError(r))
<1>1. Good(r) /\ r \in Call /\ r.pc = "pump"
  BY CallGood, Zenon DEF PumpChunk, PumpEnd, PumpError
<1>2. Good(cutr)  BY <1>1, ErrorsCovered, DiscardGood, Zenon
<1> HIDE DEF cutr
<1>3. ASSUME NEW k \in Kinds[c], PumpChunk(c, k)  PROVE CallsGood'
  <2> DEFINE e == IF Broken(r) THEN cutr ELSE Crosses(r, k)
  <2>1. Step(c, e)  BY <1>3, Zenon DEF PumpChunk, cutr
  <2>2. Good(Crosses(r, k))  BY <1>1, KindsAreChunks, CrossesGood, Zenon
  <2>3. Good(e)  BY <1>2, <2>2, Zenon
  <2> HIDE DEF e
  <2> QED  BY <2>1, <2>3, StepKeeps, Zenon
<1>4. CASE PumpEnd(c)
  <2> DEFINE f == [r EXCEPT !.pc = "flush", !.after = "success"]
             g == Discard(r, "canceled")
             e == IF r.ctx THEN g ELSE IF r.cut THEN cutr ELSE f
  <2>1. Step(c, e)  BY <1>4, Zenon DEF PumpEnd, cutr
  <2>2. Good(g)  BY <1>1, DiscardGood, Zenon
  <2>3. Good(f)
    <3>1. /\ r.out = <<>> /\ r.buf = r.sent /\ r.paid = 0
          /\ r.used = Usage(r.sent) /\ r.saved + r.used = r.spent
      BY <1>1, Zenon DEF Good, CallInv
    <3> QED  BY <1>1, <3>1, FlushGood, Zenon
  <2> HIDE DEF f, g
  <2>4. Good(e)  BY <1>2, <2>2, <2>3, Zenon
  <2> HIDE DEF e
  <2> QED  BY <2>1, <2>4, StepKeeps, Zenon
<1>5. ASSUME NEW x \in Errors, PumpError(c, x)  PROVE CallsGood'
  <2> DEFINE y == IF Broken(r) THEN CutError(r) ELSE x
  <2>1. Step(c, Discard(r, y))  BY <1>5, Zenon DEF PumpError
  <2>2. y \in {"canceled", "idle", "timeout"} \cup Errors  BY ErrorsCovered, Zenon
  <2> HIDE DEF y
  <2>3. Good(Discard(r, y))  BY <1>1, <2>2, DiscardGood, Zenon
  <2> QED  BY <2>1, <2>3, StepKeeps, Zenon
<1> QED  BY <1>3, <1>4, <1>5, Zenon

LEMMA RestKeeps ==
    ASSUME CallsGood, NEW c \in Callers,
           \/ \E k \in Kinds[c] : RestChunk(c, k)
           \/ RestEnd(c)
           \/ \E x \in Errors \cup {"canceled"} : RestError(c, x)
    PROVE  CallsGood'
<1> DEFINE r == call[c]
           idle == FailVisible([r EXCEPT !.err = "idle"])
<1>1. Good(r) /\ r \in Call /\ r.pc = "rest"
  BY CallGood, Zenon DEF RestChunk, RestEnd, RestError
<1>2. Good(idle)  BY <1>1, FailErrGood, Zenon
<1>3. Good(Stop(r, "broken")) /\ Good(Stop(r, "clean"))  BY StopGood, Zenon
<1> HIDE DEF idle
<1>4. ASSUME NEW k \in Kinds[c], RestChunk(c, k)  PROVE CallsGood'
  <2> DEFINE f == [r EXCEPT !.sent = Append(@, k), !.out = Append(@, k),
                            !.spent = @ + Pays(k), !.paid = @ + Pays(k)]
             e == IF r.cut THEN idle ELSE IF r.ctx THEN Stop(r, "broken") ELSE f
  <2>1. Step(c, e)  BY <1>4, Zenon DEF RestChunk, idle
  <2>2. Good(f)  BY <1>1, KindsAreChunks, RelayGood, Zenon
  <2> HIDE DEF f
  <2>3. Good(e)  BY <1>2, <1>3, <2>2, Zenon
  <2> HIDE DEF e
  <2> QED  BY <2>1, <2>3, StepKeeps, Zenon
<1>5. CASE RestEnd(c)
  <2>1. Step(c, idle) \/ Step(c, Stop(r, "clean"))  BY <1>5, Zenon DEF RestEnd, idle
  <2> QED  BY <1>2, <1>3, <2>1, StepKeeps, Zenon
<1>6. ASSUME NEW x \in Errors \cup {"canceled"}, RestError(c, x)  PROVE CallsGood'
  <2> DEFINE y == IF r.cut THEN "idle" ELSE x
             e == FailVisible([r EXCEPT !.err = y])
  <2>1. Step(c, e)  BY <1>6, Zenon DEF RestError
  <2>2. y \in {"idle", "canceled"} \cup Errors  BY Zenon
  <2> HIDE DEF y
  <2>3. Good(e)  BY <1>1, <2>2, FailErrGood, Zenon
  <2> HIDE DEF e
  <2> QED  BY <2>1, <2>3, StepKeeps, Zenon
<1> QED  BY <1>4, <1>5, <1>6, Zenon

LEMMA TickKeeps ==
    ASSUME CallsGood, Tick
    PROVE  CallsGood'
<1> DEFINE L(c) == IF call[c].pc \in {"admit", "record", "late"}
                   THEN Capped(call[c].lag, MaxLag) ELSE call[c].lag
           E(c) == [call[c] EXCEPT !.lag = L(c)]
<1>1. ASSUME NEW c \in Callers  PROVE Good(E(c))
  <2> DEFINE r == call[c]
             e == E(c)
  <2>1. Good(r) /\ r \in Call  BY CallGood, Zenon
  <2>2. r.lag \in 0..MaxLag  BY <2>1, Zenon DEF Call
  <2>3. L(c) \in 0..MaxLag
    <3>1. Capped(r.lag, MaxLag) \in 0..MaxLag  BY <2>2, LagZero DEF Capped
    <3> QED  BY <2>2, <3>1, Zenon
  <2> HIDE DEF L
  <2>4. e \in Call  BY <2>1, <2>3, Zenon DEF Call
  <2>5. /\ e.pc = r.pc /\ e.n = r.n /\ e.out = r.out /\ e.sent = r.sent /\ e.buf = r.buf
        /\ e.used = r.used /\ e.saved = r.saved /\ e.paid = r.paid /\ e.spent = r.spent
    BY <2>1, Zenon DEF Call
  <2> HIDE DEF E
  <2> QED  BY <2>1, <2>4, <2>5, SameGood, Zenon
<1>2. call' = [c \in Callers |-> E(c)]
  <2>1. \A c \in Callers : call[c] \in Call  BY CallGood, Zenon
  <2>2. \A c \in Callers :
          [call[c] EXCEPT !.lag = IF call[c].pc \in {"admit", "record", "late"}
                                  THEN Capped(@, MaxLag) ELSE @] = E(c)
    BY <2>1, Zenon DEF Call
  <2> QED  BY <2>2, Zenon DEF Tick
<1> HIDE DEF E
<1>3. \A c \in Callers : call'[c] = E(c)  BY <1>2, Zenon
<1>4. call' \in [Callers -> Call]  BY <1>1, <1>2, Zenon DEF Good
<1>5. \A c \in Callers : CallInv(E(c))  BY <1>1, Zenon DEF Good
<1>6. \A c \in Callers : CallInv(call'[c])  BY <1>3, <1>5, Zenon
<1> QED  BY <1>4, <1>6, Zenon DEF CallsGood, CallInv

-----------------------------------------------------------------------------
(* The breaker *)

\* breakerState: half-open only while open, and open exactly at the threshold.
BreakerGood(b) ==
    /\ b \in Breaker
    /\ b.halfOpen => b.open
    /\ b.open <=> Threshold > 0 /\ b.failures = Threshold

LEMMA BreakerBounds ==
    /\ Threshold \in Nat /\ Cooldown \in Nat /\ MaxLag \in Nat
    /\ 0 \in 0..Threshold /\ 0 \in 0..Cooldown + MaxLag /\ Threshold \in 0..Threshold
BY ResilienceAssumption

LEMMA SucceededGood ==
    ASSUME NEW b
    PROVE  BreakerGood(Succeeded(b)) /\ Succeeded(b).failures = 0
BY BreakerBounds DEF BreakerGood, Succeeded, Breaker

LEMMA FailedGood ==
    ASSUME NEW b, BreakerGood(b), NEW lag \in 0..MaxLag
    PROVE  BreakerGood(Failed(b, lag)) /\ Failed(b, lag).failures >= b.failures
<1> DEFINE f == IF b.failures < Threshold THEN b.failures + 1 ELSE b.failures
<1>1. /\ b \in Breaker /\ b.failures \in 0..Threshold /\ b.open \in BOOLEAN
      /\ b.halfOpen \in BOOLEAN
  BY Zenon DEF BreakerGood, Breaker
<1>2. f \in 0..Threshold /\ f >= b.failures /\ f \in Nat  BY <1>1, BreakerBounds
<1>3. CASE Threshold = 0 \/ Ignores(b)
  BY <1>1, <1>3, BreakerBounds DEF Failed
<1>4. CASE ~(Threshold = 0 \/ Ignores(b)) /\ (b.halfOpen \/ f >= Threshold)
  <2> DEFINE e == [failures |-> f, open |-> TRUE, halfOpen |-> FALSE, age |-> lag]
  <2>1. Failed(b, lag) = e  BY <1>4, Zenon DEF Failed
  <2>2. Threshold > 0  BY <1>4, BreakerBounds
  <2>3. lag \in 0..Cooldown + MaxLag  BY BreakerBounds
  <2>4. f = Threshold
    <3>1. CASE b.halfOpen
      <4>1. b.failures = Threshold  BY <3>1, Zenon DEF BreakerGood
      <4> QED  BY <1>1, <4>1, BreakerBounds
    <3>2. CASE f >= Threshold  BY <1>2, <3>2, BreakerBounds
    <3> QED  BY <1>4, <3>1, <3>2, Zenon
  <2> HIDE DEF f
  <2>5. BreakerGood(e) /\ e.failures = f
    BY <1>2, <2>2, <2>3, <2>4, Zenon DEF BreakerGood, Breaker
  <2> QED  BY <1>2, <2>1, <2>5, Zenon
<1>5. CASE ~(Threshold = 0 \/ Ignores(b)) /\ ~(b.halfOpen \/ f >= Threshold)
  <2> DEFINE e == [b EXCEPT !.failures = f]
  <2>1. Failed(b, lag) = e  BY <1>5, Zenon DEF Failed
  <2>2. f # Threshold /\ b.halfOpen = FALSE  BY <1>1, <1>2, <1>5, BreakerBounds
  <2>3. b.open = FALSE  BY <1>1, <1>5, <2>2, Zenon DEF Ignores
  <2> HIDE DEF f
  <2>4. e \in Breaker /\ e.failures = f /\ e.open = FALSE /\ e.halfOpen = FALSE
    BY <1>1, <1>2, <2>2, <2>3, Zenon DEF Breaker
  <2>5. BreakerGood(e)  BY <2>2, <2>4, Zenon DEF BreakerGood
  <2> QED  BY <1>2, <2>1, <2>4, <2>5, Zenon
<1> QED  BY <1>3, <1>4, <1>5, Zenon

LEMMA HalfOpenGood ==
    ASSUME NEW b, BreakerGood(b)
    PROVE  /\ BreakerGood([b EXCEPT !.halfOpen = b.open])
           /\ [b EXCEPT !.halfOpen = b.open].failures = b.failures
<1> DEFINE e == [b EXCEPT !.halfOpen = b.open]
<1>1. b \in Breaker  BY Zenon DEF BreakerGood
<1>2. e \in Breaker /\ e.failures = b.failures /\ e.open = b.open /\ e.halfOpen = b.open
  BY <1>1, Zenon DEF Breaker
<1> HIDE DEF e
<1>3. BreakerGood(e)  BY <1>2, Zenon DEF BreakerGood
<1> QED  BY <1>2, <1>3, Zenon DEF e

LEMMA AgeGood ==
    ASSUME NEW b, BreakerGood(b)
    PROVE  /\ BreakerGood([b EXCEPT !.age = IF b.open THEN Capped(@, Cooldown + MaxLag)
                                            ELSE @])
           /\ [b EXCEPT !.age = IF b.open THEN Capped(@, Cooldown + MaxLag)
                                ELSE @].failures = b.failures
<1> DEFINE g == IF b.open THEN Capped(b.age, Cooldown + MaxLag) ELSE b.age
           e == [b EXCEPT !.age = g]
<1>1. b \in Breaker /\ b.age \in 0..Cooldown + MaxLag  BY Zenon DEF BreakerGood, Breaker
<1>2. g \in 0..Cooldown + MaxLag
  <2>1. Capped(b.age, Cooldown + MaxLag) \in 0..Cooldown + MaxLag
    BY <1>1, BreakerBounds DEF Capped
  <2> QED  BY <1>1, <2>1, Zenon
<1>3. e = [b EXCEPT !.age = IF b.open THEN Capped(@, Cooldown + MaxLag) ELSE @]
  BY <1>1, Zenon DEF Breaker
<1> HIDE DEF g
<1>4. e \in Breaker /\ e.failures = b.failures /\ e.open = b.open /\ e.halfOpen = b.halfOpen
  BY <1>1, <1>2, Zenon DEF Breaker
<1> HIDE DEF e
<1>5. BreakerGood(e)  BY <1>4, Zenon DEF BreakerGood
<1> QED  BY <1>3, <1>4, <1>5, Zenon

\* What a step does to the breaker: it stays well formed, and only a call that
\* returns cleanly with everything delivered brings its failures down.
LEMMA BreakerStep ==
    ASSUME CallsGood, BreakerGood(breaker), Next
    PROVE  /\ BreakerGood(breaker')
           /\ \/ breaker'.failures >= breaker.failures
              \/ \E c \in Callers : /\ call[c].out = call[c].sent /\ call[c].paid = call[c].spent
                                    /\ call[c].pc # "idle"
                                    /\ Step(c, Stop(call[c], "clean"))
<1>0. breaker.failures \in Nat
  BY BreakerBounds DEF BreakerGood, Breaker
<1>1. CASE UNCHANGED breaker
  BY <1>0, <1>1
<1>2. ASSUME NEW c \in Callers, RecordFailure(c) \/ RecordLate(c)
      PROVE  BreakerGood(breaker') /\ breaker'.failures >= breaker.failures
  <2>1. breaker' = Failed(breaker, call[c].lag)  BY <1>2, Zenon DEF RecordFailure, RecordLate
  <2>2. call[c] \in Call  BY CallGood, Zenon
  <2>3. call[c].lag \in 0..MaxLag  BY <2>2, Zenon DEF Call
  <2> QED  BY <2>1, <2>3, FailedGood, Zenon
<1>3. ASSUME NEW c \in Callers, Admitted(c)
      PROVE  BreakerGood(breaker') /\ breaker'.failures >= breaker.failures
  <2>1. breaker' = [breaker EXCEPT !.halfOpen = breaker.open]  BY <1>3, Zenon DEF Admitted
  <2>2. BreakerGood(breaker') /\ breaker'.failures = breaker.failures
    BY <2>1, HalfOpenGood, Zenon
  <2> QED  BY <1>0, <2>2
<1>4. ASSUME NEW c \in Callers, breaker' = Succeeded(breaker), Flushed(c) \/ RestEnd(c),
             Step(c, Stop(call[c], "clean"))
      PROVE  /\ BreakerGood(breaker')
             /\ call[c].out = call[c].sent /\ call[c].paid = call[c].spent
             /\ call[c].pc # "idle"
  <2>1. Good(call[c])  BY CallGood, Zenon
  <2>2. BreakerGood(breaker')  BY <1>4, SucceededGood, Zenon
  <2>3. CASE Flushed(c)
    <3>1. call[c].pc = "flush" /\ call[c].saved = 0 /\ call[c].buf = <<>>
      BY <2>3, Zenon DEF Flushed
    <3>2. call[c].out = call[c].sent /\ call[c].paid = call[c].spent
      BY <2>1, <3>1, FlushedFields, Zenon
    <3> QED  BY <2>2, <3>1, <3>2, Zenon
  <2>4. CASE RestEnd(c)
    <3>1. call[c].pc = "rest"  BY <2>4, Zenon DEF RestEnd
    <3>2. call[c].out = call[c].sent /\ call[c].paid = call[c].spent
      BY <2>1, <3>1, Zenon DEF Good, CallInv
    <3> QED  BY <2>2, <3>1, <3>2, Zenon
  <2> QED  BY <1>4, <2>3, <2>4, Zenon
<1>5. CASE Tick
  <2>1. breaker' = [breaker EXCEPT !.age = IF breaker.open THEN Capped(@, Cooldown + MaxLag)
                                           ELSE @]
    BY <1>5, Zenon DEF Tick
  <2>2. BreakerGood(breaker') /\ breaker'.failures = breaker.failures
    BY <2>1, AgeGood, Zenon
  <2> QED  BY <1>0, <2>2
<1>6. ASSUME NEW c \in Callers, Flushed(c) \/ RestEnd(c)
      PROVE  \/ UNCHANGED breaker
             \/ breaker' = Succeeded(breaker) /\ Step(c, Stop(call[c], "clean"))
  BY <1>6, Zenon DEF Flushed, RestEnd
<1>7. ASSUME NEW c \in Callers,
             Start(c) \/ Cancel(c) \/ Attempts(c) \/ Consumes(c) \/ Watchdog(c) \/ Responds(c),
             ~UNCHANGED breaker
      PROVE  RecordFailure(c) \/ RecordLate(c) \/ Admitted(c) \/ Flushed(c) \/ RestEnd(c)
  BY <1>7, Zenon DEF Start, Cancel, Attempts, Consumes, Watchdog, Responds, Refused, Judge,
     Backoff, YieldSaved, YieldBuffered, PumpChunk, PumpEnd, PumpError, RestChunk, RestError
<1>8. CASE Calm  BY <1>1, <1>8, Zenon DEF Calm
<1> QED
  BY <1>1, <1>2, <1>3, <1>4, <1>5, <1>6, <1>7, <1>8, Zenon DEF Next

-----------------------------------------------------------------------------
(* The inductive invariant *)

LEMMA InvParts == ResInv <=> calm \in BOOLEAN /\ CallsGood /\ BreakerGood(breaker)
BY Zenon DEF ResInv, CallsGood, BreakerGood

LEMMA InitInv == Init => ResInv
<1> SUFFICES ASSUME Init  PROVE ResInv  OBVIOUS
<1>1. CallInv(NewCall)  BY NewCallFields, Zenon DEF CallInv
<1>2. CallsGood
  <2>1. call = [c \in Callers |-> NewCall]  BY Zenon DEF Init
  <2>2. call \in [Callers -> Call]  BY <2>1, NewCallFields, Zenon
  <2>3. \A c \in Callers : call[c] = NewCall  BY <2>1, Zenon
  <2> QED  BY <1>1, <2>2, <2>3, Zenon DEF CallsGood
<1>3. BreakerGood(breaker)  BY BreakerBounds DEF Init, BreakerGood, Breaker
<1>4. calm \in BOOLEAN  BY Zenon DEF Init
<1> QED  BY <1>2, <1>3, <1>4, InvParts, Zenon

LEMMA StepInv == ResInv /\ [Next]_vars => ResInv'
<1> SUFFICES ASSUME ResInv, [Next]_vars  PROVE ResInv'  OBVIOUS
<1>1. calm \in BOOLEAN /\ CallsGood /\ BreakerGood(breaker)  BY InvParts, Zenon
<1>2. CASE UNCHANGED vars
  BY <1>1, <1>2, Zenon DEF vars, ResInv, CallsGood, CallInv, BreakerGood
<1>3. CASE Next
  <2>1. BreakerGood(breaker')  BY <1>1, <1>3, BreakerStep, Zenon
  <2>2. CallsGood'
    <3>1. CASE Calm
      <4>1. call' = call  BY <3>1, Zenon DEF Calm
      <4> QED  BY <1>1, <4>1, Zenon DEF CallsGood, CallInv
    <3>2. ASSUME NEW c \in Callers, Responds(c)  PROVE CallsGood'
      BY <1>1, <3>2, PumpKeeps, RestKeeps, Zenon DEF Responds
    <3> QED
      BY <1>1, <1>3, <3>1, <3>2, TickKeeps, AttemptsKeep, ConsumesKeep, Zenon DEF Next
  <2>3. calm' \in BOOLEAN
    <3>1. calm' = calm \/ calm' = TRUE
      BY <1>3, Zenon DEF Next, Start, Cancel, Attempts, Consumes, Watchdog, Responds, Refused,
         Admitted, Judge, RecordFailure, Backoff, YieldSaved, YieldBuffered, Flushed, RecordLate,
         PumpChunk, PumpEnd, PumpError, RestChunk, RestEnd, RestError, Tick, Calm
    <3> QED  BY <1>1, <3>1, Zenon
  <2>4. (calm \in BOOLEAN /\ CallsGood /\ BreakerGood(breaker))'  BY <2>1, <2>2, <2>3, Zenon
  <2> QED  BY <2>4, InvParts, PTL
<1> QED  BY <1>2, <1>3, Zenon

\* The breaker and every call stay well formed, for any number of callers,
\* attempts and chunks: ResInv is inductive.
THEOREM ResInvariant == Spec => []ResInv
BY InitInv, StepInv, PTL DEF Spec

-----------------------------------------------------------------------------
(* No replay after visibility *)

LEMMA PrefixOfConcat ==
    ASSUME NEW s \in Seq(Chunk), NEW t \in Seq(Chunk)
    PROVE  Prefix(s, s \o t)
<1>1. Len(s) \in Nat /\ Len(t) \in Nat  BY LenProperties, Zenon
<1>2. Len(s \o t) = Len(s) + Len(t)  BY ConcatProperties, Zenon
<1>3. \A i \in 1..Len(s) + Len(t) :
        (s \o t)[i] = IF i <= Len(s) THEN s[i] ELSE t[i - Len(s)]
  BY ConcatProperties, Zenon
<1>4. \A i \in 1..Len(s) : s[i] = (s \o t)[i]  BY <1>1, <1>3
<1>5. Len(s) <= Len(s \o t)  BY <1>1, <1>2
<1> QED  BY <1>4, <1>5, Zenon DEF Prefix

LEMMA InvGivesWireOrder == ResInv => WireOrder
<1> SUFFICES ASSUME ResInv, NEW c \in Callers
             PROVE  /\ Prefix(call[c].out, call[c].sent)
                    /\ call[c].pc \in {"admit", "pump", "failed", "record", "backoff"} =>
                         call[c].out = <<>>
  BY Zenon DEF WireOrder
<1> DEFINE r == call[c]
<1>1. Good(r) /\ r \in Call  BY InvParts, CallGood, Zenon
<1>2. CallInv(r)  BY <1>1, Zenon DEF Good
<1>3. r.out \in Seq(Chunk) /\ r.sent \in Seq(Chunk) /\ r.buf \in Seq(Chunk)
  BY <1>1, CallTypes, Zenon
<1>4. r.pc \in {"idle", "admit", "pump", "failed", "record", "backoff", "flush", "rest", "late"}
  BY <1>1, Zenon DEF Call
<1> HIDE DEF r
<1>5. CASE r.out = <<>>
  <2>1. Len(r.out) = 0 /\ Len(r.sent) \in Nat  BY <1>3, <1>5, LenProperties, Zenon
  <2> QED  BY <1>5, <2>1 DEF Prefix, r
<1>6. CASE r.out = r.sent
  <2>1. Len(r.sent) \in Nat  BY <1>3, LenProperties, Zenon
  <2>2. Prefix(r.out, r.sent)  BY <1>6, <2>1 DEF Prefix
  <2>3. r.pc \in {"admit", "pump", "failed", "record", "backoff"} => r.out = <<>>
    BY <1>2, Zenon DEF CallInv
  <2> QED  BY <2>2, <2>3, Zenon DEF r
<1>7. CASE r.pc = "flush"
  <2>1. r.out \o r.buf = r.sent  BY <1>2, <1>7, Zenon DEF CallInv
  <2>5. Prefix(r.out, r.sent)  BY <1>3, <2>1, PrefixOfConcat, Zenon
  <2> QED  BY <1>7, <2>5, Zenon DEF r
<1> QED  BY <1>2, <1>4, <1>5, <1>6, <1>7, Zenon DEF CallInv

\* No replay after visibility (llmresilience's load-bearing rule): the consumer
\* sees a beginning, in wire order, of one attempt, and an attempt is made only
\* while the consumer has seen nothing.
THEOREM NoReplay == Spec => []WireOrder
BY ResInvariant, InvGivesWireOrder, PTL

-----------------------------------------------------------------------------
(* Usage and recovery *)

LEMMA TerminalSettles ==
    ASSUME NEW r \in Call, Blank(r), Terminal(r).pc = "idle"
    PROVE  r.paid = r.spent
<1>1. CASE r.saved = 0  BY <1>1, Zenon DEF Blank
<1>2. CASE r.saved # 0
  <2>1. Terminal(r) = [NewCall EXCEPT !.pc = "flush", !.after = "error", !.ctx = r.ctx,
                                      !.saved = r.saved, !.spent = r.spent]
    BY <1>2, Zenon DEF Terminal
  <2>2. Terminal(r).pc = "flush"  BY <2>1, NewCallFields, Zenon DEF Call
  <2> QED  BY <2>2, Zenon
<1> QED  BY <1>1, <1>2, Zenon

LEMMA EarlySettles ==
    ASSUME NEW r \in Call, Blank(r)
    PROVE  /\ Decide(r).pc = "idle" => r.paid = r.spent
           /\ Begin(r).pc = "idle" => r.paid = r.spent
           /\ [r EXCEPT !.pc = "record", !.lag = 0].pc = "record"
<1>1. [r EXCEPT !.pc = "record", !.lag = 0].pc = "record"  BY Zenon DEF Call
<1>2. [r EXCEPT !.pc = "admit", !.lag = 0].pc = "admit"  BY Zenon DEF Call
<1>3. [r EXCEPT !.pc = "backoff", !.lag = 0, !.err = "none"].pc = "backoff"  BY Zenon DEF Call
<1>4. Decide(r) = Terminal(r) \/ Decide(r).pc = "backoff"  BY <1>3, Zenon DEF Decide
<1>5. Begin(r) = Terminal(r) \/ Begin(r).pc = "admit"  BY <1>2, Zenon DEF Begin
<1> QED  BY <1>1, <1>4, <1>5, TerminalSettles, Zenon

LEMMA PumpGoesOn ==
    ASSUME NEW r \in Call, r.pc = "pump", NEW k, NEW x
    PROVE  /\ Discard(r, x).pc = "failed"
           /\ Crosses(r, k).pc \in {"pump", "flush"}
           /\ [r EXCEPT !.pc = "flush", !.after = "success"].pc = "flush"
<1>1. Discard(r, x).pc = "failed"  BY Zenon DEF Discard, Call
<1>2. [r EXCEPT !.pc = "flush", !.after = "success"].pc = "flush"  BY Zenon DEF Call
<1>3. Buffered(r, k).pc = "pump" /\ "pc" \in DOMAIN Buffered(r, k)  BY Zenon DEF Buffered, Call
<1>4. /\ [Buffered(r, k) EXCEPT !.pc = "flush", !.after = "success"].pc = "flush"
      /\ [Buffered(r, k) EXCEPT !.pc = "flush", !.after = "rest"].pc = "flush"
  BY Zenon DEF Buffered, Call
<1>5. Crosses(r, k).pc \in {"pump", "flush"}  BY <1>3, <1>4, Zenon DEF Crosses
<1> QED  BY <1>1, <1>2, <1>5, Zenon

\* The step that returns from a call, without the consumer breaking off, finds
\* its usage settled.
LEMMA ReturnSettles ==
    ASSUME CallsGood, Next, NEW c \in Callers, call[c].pc # "idle",
           call'[c].pc = "idle", call'[c].end # "broken"
    PROVE  call[c].paid = call[c].spent
<1> DEFINE r == call[c]
           e == call'[c]
<1>1. Good(r) /\ r \in Call /\ CallInv(r)  BY CallGood, Zenon DEF Good
<1>2. r.pc \in {"rest", "late"} => r.paid = r.spent  BY <1>1, Zenon DEF CallInv
<1>3. r.pc \in {"admit", "failed", "record", "backoff"} => Blank(r)  BY <1>1, Zenon DEF CallInv, Blank
<1>4. ASSUME NEW d \in Callers, NEW x, Step(d, x)  PROVE d = c /\ e = x
  <2>1. call \in [Callers -> Call]  BY Zenon DEF CallsGood
  <2>2. d # c => e = r  BY <1>4, <2>1, Zenon DEF Step
  <2>3. d = c  BY <2>2, Zenon
  <2> QED  BY <1>4, <2>1, <2>3, Zenon DEF Step
<1>5. CASE Tick
  <2>1. e = [r EXCEPT !.lag = IF r.pc \in {"admit", "record", "late"}
                              THEN Capped(@, MaxLag) ELSE @]
    BY <1>5, Zenon DEF Tick
  <2>2. e.pc = r.pc  BY <1>1, <2>1, Zenon DEF Call
  <2> QED  BY <2>2, Zenon
<1>6. CASE Calm  BY <1>6, Zenon DEF Calm
<1>7. ASSUME NEW d \in Callers, Start(d) \/ Cancel(d) \/ Watchdog(d)  PROVE FALSE
  <2>1. [r EXCEPT !.ctx = TRUE].pc = r.pc /\ [r EXCEPT !.cut = TRUE].pc = r.pc
    BY <1>1, Zenon DEF Call
  <2>2. CASE Start(d)  BY <1>4, <2>2, Zenon DEF Start
  <2>3. CASE Cancel(d)
    <3>1. d = c /\ e = [call[d] EXCEPT !.ctx = TRUE]  BY <1>4, <2>3, Zenon DEF Cancel
    <3> QED  BY <2>1, <3>1, Zenon
  <2>4. CASE Watchdog(d)
    <3>1. d = c /\ e = [call[d] EXCEPT !.cut = TRUE]  BY <1>4, <2>4, Zenon DEF Watchdog
    <3> QED  BY <2>1, <3>1, Zenon
  <2> QED  BY <1>7, <2>2, <2>3, <2>4, Zenon
<1>8. ASSUME NEW d \in Callers, Attempts(d)  PROVE r.paid = r.spent
  <2>1. CASE Refused(d)
    <3>1. d = c /\ e = Terminal(r) /\ r.pc = "admit"  BY <1>4, <2>1, Zenon DEF Refused
    <3> QED  BY <1>1, <1>3, <3>1, TerminalSettles, Zenon
  <2>2. CASE Admitted(d)
    <3>1. d = c /\ e = [r EXCEPT !.pc = "pump", !.n = @ + 1, !.sent = <<>>, !.buf = <<>>,
                                 !.used = 0, !.err = "none", !.lag = 0]
      BY <1>4, <2>2, Zenon DEF Admitted
    <3>2. e.pc = "pump"  BY <1>1, <3>1, Zenon DEF Call
    <3> QED  BY <3>2, Zenon
  <2>3. CASE Judge(d)
    <3>1. /\ d = c /\ r.pc = "failed"
          /\ \/ e = Terminal(r) \/ e = Decide(r)
             \/ e = [r EXCEPT !.pc = "record", !.lag = 0]
      BY <1>4, <2>3, Zenon DEF Judge
    <3> QED  BY <1>1, <1>3, <3>1, TerminalSettles, EarlySettles, Zenon
  <2>4. CASE RecordFailure(d)
    <3>1. d = c /\ e = Decide(r) /\ r.pc = "record"  BY <1>4, <2>4, Zenon DEF RecordFailure
    <3> QED  BY <1>1, <1>3, <3>1, EarlySettles, Zenon
  <2>5. CASE Backoff(d)
    <3>1. d = c /\ r.pc = "backoff" /\ (e = Begin(r) \/ e = Terminal(r))
      BY <1>4, <2>5, Zenon DEF Backoff
    <3> QED  BY <1>1, <1>3, <3>1, TerminalSettles, EarlySettles, Zenon
  <2> QED  BY <1>8, <2>1, <2>2, <2>3, <2>4, <2>5, Zenon DEF Attempts
<1>9. ASSUME NEW d \in Callers, Consumes(d)  PROVE r.paid = r.spent
  <2>0. Stop(r, "broken").end = "broken"  BY StopGood, Zenon
  <2>1. CASE YieldSaved(d)
    <3>1. /\ d = c /\ r.pc = "flush"
          /\ \/ e = Stop(r, "broken")
             \/ e = [r EXCEPT !.paid = r.paid + r.saved, !.saved = 0]
      BY <1>4, <2>1, Zenon DEF YieldSaved
    <3>2. [r EXCEPT !.paid = r.paid + r.saved, !.saved = 0].pc = "flush"
      BY ONLY <1>1, <3>1 DEF Call
    <3>3. e.end = "broken" \/ e.pc = "flush"  BY <2>0, <3>1, <3>2, Zenon
    <3> QED  BY <3>3, Zenon
  <2>2. CASE YieldBuffered(d)
    <3>1. /\ d = c /\ r.pc = "flush"
          /\ \/ e = Stop(r, "broken")
             \/ e = [r EXCEPT !.out = Append(r.out, Head(r.buf)), !.buf = Tail(r.buf),
                              !.paid = r.paid + Pays(Head(r.buf))]
      BY <1>4, <2>2, Zenon DEF YieldBuffered
    <3>2. [r EXCEPT !.out = Append(r.out, Head(r.buf)), !.buf = Tail(r.buf),
                    !.paid = r.paid + Pays(Head(r.buf))].pc = "flush"
      BY ONLY <1>1, <3>1 DEF Call
    <3>3. e.end = "broken" \/ e.pc = "flush"  BY <2>0, <3>1, <3>2, Zenon
    <3> QED  BY <3>3, Zenon
  <2>3. CASE Flushed(d)
    <3>1. d = c /\ r.pc = "flush" /\ r.saved = 0 /\ r.buf = <<>>
      BY <1>4, <2>3, Zenon DEF Flushed
    <3> QED  BY <1>1, <3>1, FlushedFields, Zenon
  <2>4. CASE RecordLate(d)
    <3>1. d = c /\ r.pc = "late"  BY <1>4, <2>4, Zenon DEF RecordLate
    <3> QED  BY <1>2, <3>1, Zenon
  <2> QED  BY <1>9, <2>1, <2>2, <2>3, <2>4, Zenon DEF Consumes
<1>10. ASSUME NEW d \in Callers, Responds(d)  PROVE r.paid = r.spent
  <2>1. ASSUME NEW k, PumpChunk(d, k)  PROVE FALSE
    <3>1. d = c /\ r.pc = "pump" /\ (e = Discard(r, CutError(r)) \/ e = Crosses(r, k))
      BY <1>4, <2>1, Zenon DEF PumpChunk
    <3>2. Discard(r, CutError(r)).pc = "failed" /\ Crosses(r, k).pc \in {"pump", "flush"}
      BY <1>1, <3>1, PumpGoesOn, Zenon
    <3> QED  BY <3>1, <3>2, Zenon
  <2>2. CASE PumpEnd(d)
    <3>1. /\ d = c /\ r.pc = "pump"
          /\ \/ e = Discard(r, "canceled") \/ e = Discard(r, CutError(r))
             \/ e = [r EXCEPT !.pc = "flush", !.after = "success"]
      BY <1>4, <2>2, Zenon DEF PumpEnd
    <3>2. /\ Discard(r, "canceled").pc = "failed" /\ Discard(r, CutError(r)).pc = "failed"
          /\ [r EXCEPT !.pc = "flush", !.after = "success"].pc = "flush"
      BY <1>1, <3>1, PumpGoesOn, Zenon
    <3> QED  BY <3>1, <3>2, Zenon
  <2>3. ASSUME NEW x, PumpError(d, x)  PROVE FALSE
    <3>1. /\ d = c /\ r.pc = "pump"
          /\ e = Discard(r, IF Broken(r) THEN CutError(r) ELSE x)
      BY <1>4, <2>3, Zenon DEF PumpError
    <3>2. e.pc = "failed"  BY <1>1, <3>1, PumpGoesOn, Zenon
    <3> QED  BY <3>2, Zenon
  <2>4. ASSUME NEW k, RestChunk(d, k)  PROVE r.paid = r.spent
    BY <1>2, <1>4, <2>4, Zenon DEF RestChunk
  <2>5. CASE RestEnd(d)  BY <1>2, <1>4, <2>5, Zenon DEF RestEnd
  <2>6. ASSUME NEW x, RestError(d, x)  PROVE r.paid = r.spent
    BY <1>2, <1>4, <2>6, Zenon DEF RestError
  <2> QED  BY <1>10, <2>1, <2>2, <2>3, <2>4, <2>5, <2>6, Zenon DEF Responds
<1> QED  BY <1>5, <1>6, <1>7, <1>8, <1>9, <1>10, Zenon DEF Next

\* No usage is lost or counted twice: whatever is retried, a consumer that reads
\* its stream to the end has received the usage of every attempt.
THEOREM UsageNeverLost == Spec => UsageConserved
<1>1. ResInv /\ [Next]_vars =>
        [\A c \in Callers :
           Returns(c, "clean") \/ Returns(c, "error") => call[c].paid = call[c].spent]_vars
  <2> SUFFICES ASSUME ResInv, Next, NEW c \in Callers,
                      Returns(c, "clean") \/ Returns(c, "error")
               PROVE  call[c].paid = call[c].spent
    BY Zenon
  <2>1. CallsGood  BY InvParts, Zenon
  <2>2. call[c].pc # "idle" /\ call'[c].pc = "idle" /\ call'[c].end # "broken"
    BY Zenon DEF Returns
  <2> QED  BY <2>1, <2>2, ReturnSettles, Zenon
<1> QED  BY <1>1, ResInvariant, PTL DEF Spec, UsageConserved

\* The breaker is closed only by a stream that its consumer received in full.
THEOREM RecoveryIsEarned == Spec => RecoveryEarned
<1>1. ResInv /\ [Next]_vars =>
        [breaker.failures > 0 /\ breaker'.failures = 0 =>
           \E c \in Callers : Returns(c, "clean") /\ call[c].out = call[c].sent]_vars
  <2> SUFFICES ASSUME ResInv, Next, breaker.failures > 0, breaker'.failures = 0
               PROVE  \E c \in Callers : Returns(c, "clean") /\ call[c].out = call[c].sent
    BY Zenon
  <2>1. CallsGood /\ BreakerGood(breaker)  BY InvParts, Zenon
  <2>2. breaker.failures \in Nat  BY <2>1, BreakerBounds DEF BreakerGood, Breaker
  <2>3. ~(breaker'.failures >= breaker.failures)  BY <2>2
  <2>4. PICK c \in Callers : /\ call[c].out = call[c].sent /\ call[c].pc # "idle"
                             /\ Step(c, Stop(call[c], "clean"))
    BY <2>1, <2>3, BreakerStep, Zenon
  <2>5. call'[c] = Stop(call[c], "clean")  BY <2>1, <2>4, Zenon DEF Step, CallsGood
  <2>6. Returns(c, "clean")  BY <2>4, <2>5, StopGood, Zenon DEF Returns
  <2> QED  BY <2>4, <2>6, Zenon
<1> QED  BY <1>1, ResInvariant, PTL DEF Spec, RecoveryEarned
=============================================================================
