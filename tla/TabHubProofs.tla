----------------------------- MODULE TabHubProofs -----------------------------
(***************************************************************************)
(* Machine-checked proofs about TabHub, for every set of documents and     *)
(* event contents, every buffer limit and every retry base and maximum:    *)
(* the safety properties of the TabHub runs, and that the hub implements   *)
(* HubStream.                                                              *)
(***************************************************************************)
EXTENDS TabHub, TLAPS, SequenceTheorems

------------------------------------------------------------------------------
(* The request machine: what each operator on the record returns. *)

TimerOfRequest(r) == r.timer = IF r.requested THEN r.attempt ELSE NoTimer

LEMMA StrongerReasonType ==
  ASSUME NEW a \in Reason \cup {NoReason}, NEW b \in Reason
  PROVE  /\ StrongerReason(a, b) \in Reason
         /\ StrongerReason(a, b) \in {a, b}
         /\ a = "nav" => StrongerReason(a, b) = "nav"
  BY DEF StrongerReason, Reason, NoReason, Priority

(* The setters: each keeps the record's type and touches only its fields.  The
   new values of arithmetic fields are named so that a leaf needs no arithmetic. *)
LEMMA ClearTrimTimerEffect ==
  ASSUME NEW r \in RecoveryType
  PROVE  LET s == ClearTrimTimer(r) IN
         /\ s \in RecoveryType
         /\ s.trim = FALSE
         /\ s.requested = r.requested /\ s.attempt = r.attempt /\ s.timer = r.timer
         /\ s.pending = r.pending /\ s.queued = r.queued
         /\ s.retry = r.retry /\ s.delay = r.delay
  BY Zenon DEF ClearTrimTimer, RecoveryType

LEMMA ClearSnapshotRetryEffect ==
  ASSUME NEW r \in RecoveryType, NEW reset \in BOOLEAN
  PROVE  LET s == ClearSnapshotRetry(r, reset) IN
         /\ s \in RecoveryType
         /\ s.retry = NoRetry
         /\ s.delay = IF reset THEN RetryBase ELSE r.delay
         /\ s.requested = r.requested /\ s.attempt = r.attempt /\ s.timer = r.timer
         /\ s.pending = r.pending /\ s.queued = r.queued /\ s.trim = r.trim
<1> DEFINE d == IF reset THEN RetryBase ELSE r.delay
           s == [r EXCEPT !.retry = NoRetry, !.delay = d]
<1>1. d \in Nat
  BY HubConstants DEF RecoveryType
<1>2. ClearSnapshotRetry(r, reset) = s
  BY Zenon DEF ClearSnapshotRetry
<1> HIDE DEF d
<1>3. /\ s \in RecoveryType
      /\ s.retry = NoRetry /\ s.delay = d
      /\ s.requested = r.requested /\ s.attempt = r.attempt /\ s.timer = r.timer
      /\ s.pending = r.pending /\ s.queued = r.queued /\ s.trim = r.trim
  BY <1>1, Zenon DEF RecoveryType
<1> QED
  BY <1>2, <1>3, Zenon DEF d

LEMMA ClearSnapshotRequestEffect ==
  ASSUME NEW r \in RecoveryType
  PROVE  LET s == ClearSnapshotRequest(r) IN
         /\ s \in RecoveryType
         /\ s.requested = FALSE /\ s.timer = NoTimer
         /\ s.pending = r.pending /\ s.queued = r.queued /\ s.retry = r.retry
         /\ s.delay = r.delay /\ s.trim = r.trim
<1> DEFINE n == r.attempt + 1
           s == [r EXCEPT !.requested = FALSE, !.attempt = n, !.timer = NoTimer]
<1>1. n \in Nat /\ NoTimer \in Nat
  BY DEF RecoveryType, NoTimer
<1>2. ClearSnapshotRequest(r) = s
  BY Zenon DEF ClearSnapshotRequest
<1> HIDE DEF n
<1>3. /\ s \in RecoveryType
      /\ s.requested = FALSE /\ s.timer = NoTimer
      /\ s.pending = r.pending /\ s.queued = r.queued /\ s.retry = r.retry
      /\ s.delay = r.delay /\ s.trim = r.trim
  BY <1>1, Zenon DEF RecoveryType
<1> QED
  BY <1>2, <1>3, Zenon

(* A request always leaves one in flight under a timer for its attempt. *)
RequestEffect(r, reason, s) ==
  /\ s \in RecoveryType
  /\ s.requested = TRUE /\ TimerOfRequest(s)
  /\ s.pending = IF r.requested THEN r.pending ELSE StrongerReason(r.pending, reason)
  /\ s.queued # r.queued => s.queued = reason /\ reason # r.pending
  /\ ~r.requested => s.queued = r.queued
  /\ s.retry = IF r.requested THEN r.retry ELSE NoRetry
  /\ s.trim = IF r.requested THEN r.trim ELSE FALSE
  /\ s.delay = r.delay

LEMMA RequestSnapshotEffect ==
  ASSUME NEW r \in RecoveryType, TimerOfRequest(r), NEW reason \in Reason
  PROVE  RequestEffect(r, reason, RequestSnapshot(r, reason))
<1> DEFINE q == StrongerReason(r.queued, reason)
           p == StrongerReason(r.pending, reason)
<1>1. r.queued \in Reason \cup {NoReason} /\ r.pending \in Reason \cup {NoReason}
  BY Zenon DEF RecoveryType
<1>2. q \in Reason /\ p \in Reason
  BY <1>1, StrongerReasonType
<1> HIDE DEF q, p
<1>3. CASE r.requested
  <2> DEFINE v == IF reason = r.pending THEN r.queued ELSE q
             s == [r EXCEPT !.queued = v]
  <2>1. RequestSnapshot(r, reason) = s
    BY <1>3, Zenon DEF RequestSnapshot, QueueReason, q
  <2>2. v \in Reason \cup {NoReason} /\ (v # r.queued => v = reason /\ reason # r.pending)
    BY <1>1, <1>2, StrongerReasonType DEF q
  <2> HIDE DEF v
  <2>3. /\ s \in RecoveryType
        /\ s.requested = r.requested /\ s.attempt = r.attempt /\ s.timer = r.timer
        /\ s.pending = r.pending /\ s.queued = v /\ s.retry = r.retry
        /\ s.delay = r.delay /\ s.trim = r.trim
    BY <2>2, Zenon DEF RecoveryType
  <2>4. r.requested = TRUE
    BY <1>3, Zenon DEF RecoveryType
  <2> HIDE DEF s
  <2> QED
    BY <1>3, <2>1, <2>2, <2>3, <2>4 DEF RequestEffect, TimerOfRequest
<1>4. CASE ~r.requested
  <2> DEFINE b == ClearTrimTimer(r)
             c == ClearSnapshotRetry(b, FALSE)
             n == r.attempt + 1
             s == [c EXCEPT !.pending = p, !.requested = TRUE, !.attempt = n, !.timer = n]
  <2>1. /\ c \in RecoveryType
        /\ c.attempt = r.attempt /\ c.pending = r.pending /\ c.queued = r.queued
        /\ c.retry = NoRetry /\ c.delay = r.delay /\ c.trim = FALSE
    <3>1. /\ b \in RecoveryType /\ b.trim = FALSE /\ b.attempt = r.attempt
          /\ b.pending = r.pending /\ b.queued = r.queued /\ b.delay = r.delay
      BY ClearTrimTimerEffect, Zenon
    <3> HIDE DEF b
    <3> QED
      BY <3>1, ClearSnapshotRetryEffect, Zenon
  <2>2. RequestSnapshot(r, reason) = s
    BY <1>4, <2>1, Zenon DEF RequestSnapshot, StartRequest, p
  <2>3. n \in Nat
    BY DEF RecoveryType
  <2> HIDE DEF c, n
  <2>4. /\ s \in RecoveryType
        /\ s.requested = TRUE /\ s.attempt = n /\ s.timer = n
        /\ s.pending = p /\ s.queued = c.queued /\ s.retry = c.retry
        /\ s.delay = c.delay /\ s.trim = c.trim
    BY <1>2, <2>1, <2>3, Zenon DEF RecoveryType
  <2> HIDE DEF s
  <2> QED
    BY <1>4, <2>1, <2>2, <2>4 DEF RequestEffect, TimerOfRequest, p
<1>5. QED
  BY <1>3, <1>4

(* Arming a retry: the delay advances but stays within its bounds. *)
LEMMA NextDelayBounded ==
  ASSUME NEW d \in Nat, RetryBase <= d, d <= RetryMax
  PROVE  NextDelay(d) \in Nat /\ RetryBase <= NextDelay(d) /\ NextDelay(d) <= RetryMax
<1>1. (RetryMax + 1) \div 2 \in Nat /\ 2 * ((RetryMax + 1) \div 2) <= RetryMax + 1
  BY HubConstants
<1> DEFINE half == (RetryMax + 1) \div 2
<1> HIDE DEF half
<1>2. half \in Nat /\ 2 * half <= RetryMax + 1
  BY <1>1 DEF half
<1>3. NextDelay(d) = IF d >= half THEN RetryMax ELSE d * 2
  BY DEF NextDelay, half
<1> QED
  BY <1>2, <1>3, HubConstants

------------------------------------------------------------------------------
(* The inductive invariant of the request machine, for a record r, in a hub
   whose document is d, whose epoch is e, and which still waits for the first
   snapshot of its document iff waiting. *)
RecoveryOK(r, d, e, waiting) ==
  /\ TimerOfRequest(r)
  /\ r.retry # NoRetry => /\ r.requested = FALSE
                          /\ r.retry.doc = d /\ r.retry.epoch = e
                          /\ r.retry.reason = r.pending
  /\ r.trim => r.requested = FALSE
  /\ r.pending = "nav" <=> waiting
  /\ r.queued # "nav"
  /\ r.pending = "nav" => r.requested \/ r.retry # NoRetry
  /\ d # NoDoc /\ r.pending = "resync" => r.requested \/ r.retry # NoRetry
  /\ RetryBase <= r.delay /\ r.delay <= RetryMax

LEMMA RequestKeepsRecovery ==
  ASSUME NEW r \in RecoveryType, NEW d, NEW e, NEW w \in BOOLEAN,
         RecoveryOK(r, d, e, w),
         NEW reason \in Reason, reason = "nav" => w
  PROVE  LET s == RequestSnapshot(r, reason) IN
         /\ s \in RecoveryType
         /\ RecoveryOK(s, d, e, w)
         /\ s.requested = TRUE
         /\ s.trim => r.trim
<1> DEFINE s == RequestSnapshot(r, reason)
<1>1. TimerOfRequest(r)
  BY DEF RecoveryOK
<1>2. RequestEffect(r, reason, s)
  BY <1>1, RequestSnapshotEffect
<1> HIDE DEF s
<1>3. r.pending \in Reason \cup {NoReason} /\ r.requested \in BOOLEAN /\ r.trim \in BOOLEAN
  BY Zenon DEF RecoveryType
<1>4. s.pending = "nav" <=> w
  BY <1>2, <1>3, StrongerReasonType DEF RecoveryOK, RequestEffect
<1>5. s.queued # "nav"
  BY <1>2, <1>3 DEF RecoveryOK, RequestEffect
<1> QED
  BY <1>2, <1>3, <1>4, <1>5 DEF RecoveryOK, RequestEffect, s

(* A failed attempt: only the current one counts, and "nav" and "resync" are
   retried for the document and the epoch that hold. *)
LEMMA FailKeepsRecovery ==
  ASSUME NEW r \in RecoveryType, NEW a \in Nat, NEW w \in BOOLEAN,
         docId \in Doc \cup {NoDoc}, epoch \in Nat,
         RecoveryOK(r, docId, epoch, w)
  PROVE  LET s == FailSnapshotRequest(r, a) IN
         /\ s \in RecoveryType /\ RecoveryOK(s, docId, epoch, w)
         /\ s.trim => r.trim
         /\ s.timer # NoTimer => s.timer = r.timer
<1> DEFINE c == ClearSnapshotRequest(r)
           f == FailSnapshotRequest(r, a)
<1>1. CASE ~r.requested \/ a # r.attempt
  BY <1>1, Zenon DEF FailSnapshotRequest
<1>2. CASE r.requested /\ a = r.attempt
  <2>1. /\ c \in RecoveryType
        /\ c.requested = FALSE /\ c.timer = NoTimer
        /\ c.pending = r.pending /\ c.queued = r.queued /\ c.retry = r.retry
        /\ c.delay = r.delay /\ c.trim = r.trim
    BY ClearSnapshotRequestEffect, Zenon
  <2> HIDE DEF c
  <2>2. r.retry = NoRetry /\ ~r.trim
    BY <1>2 DEF RecoveryOK
  <2>3. CASE r.pending \in RetriedReasons
    <3> DEFINE cap == [doc |-> docId, epoch |-> epoch, reason |-> r.pending]
               n == NextDelay(c.delay)
               s == [c EXCEPT !.retry = cap, !.delay = n]
    <3>1. f = s
      BY <1>2, <2>3, Zenon DEF FailSnapshotRequest, ScheduleSnapshotRetry, c
    <3>2. cap \in RetryCapture /\ cap # NoRetry
      BY <2>3 DEF RetryCapture, RetriedReasons, NoRetry, NoReason
    <3>3. n \in Nat /\ RetryBase <= n /\ n <= RetryMax
      <4>1. c.delay \in Nat
        BY <2>1, Zenon DEF RecoveryType
      <4>2. RetryBase <= c.delay /\ c.delay <= RetryMax
        BY <2>1 DEF RecoveryOK
      <4> QED
        BY <4>1, <4>2, NextDelayBounded
    <3>4. cap.doc = docId /\ cap.epoch = epoch /\ cap.reason = r.pending
      OBVIOUS
    <3> HIDE DEF cap, n
    <3>5. /\ s \in RecoveryType
          /\ s.retry = cap /\ s.delay = n
          /\ s.requested = c.requested /\ s.timer = c.timer
          /\ s.pending = c.pending /\ s.queued = c.queued /\ s.trim = c.trim
      BY <2>1, <3>2, <3>3, Zenon DEF RecoveryType
    <3> HIDE DEF s, f
    <3> QED
      BY <2>1, <2>2, <3>1, <3>2, <3>3, <3>4, <3>5
      DEF RecoveryOK, TimerOfRequest, f
  <2>4. CASE r.pending \notin RetriedReasons
    <3>1. f = c
      BY <1>2, <2>4, Zenon DEF FailSnapshotRequest, c
    <3> HIDE DEF f
    <3> QED
      BY <2>1, <2>2, <2>4, <3>1 DEF RecoveryOK, TimerOfRequest, RetriedReasons, f
  <2> QED
    BY <2>3, <2>4
<1> QED
  BY <1>1, <1>2

TrimArmedOver(r, events, bytes) ==
  LET s == MaybeRequestTrim(r, events, bytes) IN
  /\ s.trim => r.trim \/ OverDeltaLimit(events, bytes)
  /\ OverDeltaLimit(events, bytes) => s.requested \/ s.trim

(* maybeRequestTrimSnapshot(): asks, or arms the timer of a buffer that is over. *)
LEMMA TrimKeepsRecovery ==
  ASSUME NEW r \in RecoveryType, NEW d, NEW e, NEW w \in BOOLEAN,
         RecoveryOK(r, d, e, w), NEW events, NEW bytes
  PROVE  /\ MaybeRequestTrim(r, events, bytes) \in RecoveryType
         /\ RecoveryOK(MaybeRequestTrim(r, events, bytes), d, e, w)
         /\ TrimArmedOver(r, events, bytes)
<1> DEFINE m == MaybeRequestTrim(r, events, bytes)
<1>1. CASE ~OverDeltaLimit(events, bytes) \/ r.requested
  BY <1>1, Zenon DEF MaybeRequestTrim, TrimArmedOver
<1>2. CASE OverDeltaLimit(events, bytes) /\ ~r.requested /\ idle
  <2>1. m = RequestSnapshot(r, "trim") /\ "trim" \in Reason /\ ("trim" = "nav" => w)
    BY <1>2 DEF MaybeRequestTrim, Reason
  <2> DEFINE q == RequestSnapshot(r, "trim")
  <2>2. q \in RecoveryType /\ RecoveryOK(q, d, e, w) /\ q.requested = TRUE /\ (q.trim => r.trim)
    BY <2>1, RequestKeepsRecovery, Zenon
  <2>3. m = q
    BY <2>1
  <2> HIDE DEF m, q
  <2> QED
    BY <2>2, <2>3, Zenon DEF m, TrimArmedOver
<1>3. CASE OverDeltaLimit(events, bytes) /\ ~r.requested /\ ~idle
  <2> DEFINE s == [r EXCEPT !.trim = TRUE]
  <2>1. m = s
    BY <1>3, Zenon DEF MaybeRequestTrim
  <2>2. /\ s \in RecoveryType
        /\ s.trim = TRUE
        /\ s.requested = r.requested /\ s.attempt = r.attempt /\ s.timer = r.timer
        /\ s.pending = r.pending /\ s.queued = r.queued
        /\ s.retry = r.retry /\ s.delay = r.delay
    BY Zenon DEF RecoveryType
  <2>3. r.requested = FALSE
    BY <1>3, Zenon DEF RecoveryType
  <2> HIDE DEF s, m
  <2> QED
    BY <1>3, <2>1, <2>2, <2>3 DEF RecoveryOK, TimerOfRequest, TrimArmedOver, m
<1> QED
  BY <1>1, <1>2, <1>3

(* The retry timer: it asks again with the reason that is still pending. *)
LEMMA RetryKeepsRecovery ==
  ASSUME NEW r \in RecoveryType, NEW w \in BOOLEAN, w => docId # NoDoc,
         RecoveryOK(r, docId, epoch, w), r.retry # NoRetry, docId # NoDoc
  PROVE  LET s == RequestSnapshot(RetryFired(r), r.retry.reason) IN
         s \in RecoveryType /\ RecoveryOK(s, docId, epoch, w) /\ (s.trim => r.trim)
<1> DEFINE b == RetryFired(r)
           reason == r.retry.reason
           s == RequestSnapshot(b, reason)
<1>1. /\ b \in RecoveryType /\ b.retry = NoRetry
      /\ b.requested = r.requested /\ b.attempt = r.attempt /\ b.timer = r.timer
      /\ b.pending = r.pending /\ b.queued = r.queued
      /\ b.delay = r.delay /\ b.trim = r.trim
  BY Zenon DEF RecoveryType, RetryFired
<1>2. r.retry \in RetryCapture
  BY Zenon DEF RecoveryType
<1>3. reason \in {"nav", "resync"} /\ reason = r.pending /\ r.requested = FALSE
  BY <1>2 DEF RetryCapture, RecoveryOK
<1>4. reason \in Reason
  BY <1>3 DEF Reason
<1> HIDE DEF b, reason
<1>5. TimerOfRequest(b)
  BY <1>1 DEF RecoveryOK, TimerOfRequest
<1>6. RequestEffect(b, reason, s)
  BY <1>1, <1>4, <1>5, RequestSnapshotEffect
<1>7. StrongerReason(b.pending, reason) = r.pending
  BY <1>1, <1>3, <1>4, StrongerReasonType
<1> HIDE DEF s
<1> QED
  BY <1>1, <1>3, <1>6, <1>7 DEF RecoveryOK, RequestEffect, s, b, reason

(* A request that is made from a clean slate: all reasons and timers cleared. *)
LEMMA FreshRequest ==
  ASSUME NEW r \in RecoveryType, NEW d, NEW e, NEW reason \in Reason,
         r.requested = FALSE, r.timer = NoTimer, r.retry = NoRetry,
         r.pending = NoReason, r.queued = NoReason, r.trim = FALSE,
         r.delay = RetryBase
  PROVE  LET s == RequestSnapshot(r, reason) IN
         s \in RecoveryType /\ RecoveryOK(s, d, e, reason = "nav") /\ s.trim = FALSE
<1> DEFINE s == RequestSnapshot(r, reason)
<1>1. TimerOfRequest(r)
  BY DEF TimerOfRequest
<1>2. RequestEffect(r, reason, s)
  BY <1>1, RequestSnapshotEffect
<1> HIDE DEF s
<1>3. s.pending = reason
  BY <1>2 DEF StrongerReason, RequestEffect
<1> QED
  BY <1>2, <1>3, HubConstants DEF RecoveryOK, RequestEffect, s, NoReason

(* openPendingSnapshot(): everything is cleared, then a queued reason is asked
   for, and it is never "nav". *)
LEMMA OpenedRecoveryOK ==
  ASSUME NEW r \in RecoveryType, NEW d, NEW e, r.queued # "nav"
  PROVE  LET s == OpenedRecovery(r) IN
         s \in RecoveryType /\ RecoveryOK(s, d, e, FALSE) /\ s.trim = FALSE
<1> DEFINE a == ClearTrimTimer(r)
           b == ClearSnapshotRequest(a)
           c == ClearSnapshotRetry(b, TRUE)
           z == [c EXCEPT !.pending = NoReason, !.queued = NoReason]
           s == OpenedRecovery(r)
<1>1. a \in RecoveryType /\ a.trim = FALSE
  BY ClearTrimTimerEffect, Zenon
<1>2. s = IF r.queued = NoReason THEN z ELSE RequestSnapshot(z, r.queued)
  BY Zenon DEF OpenedRecovery
<1> HIDE DEF a
<1>3. b \in RecoveryType /\ b.requested = FALSE /\ b.timer = NoTimer /\ b.trim = FALSE
  BY <1>1, ClearSnapshotRequestEffect, Zenon
<1> HIDE DEF b
<1>4. /\ c \in RecoveryType /\ c.requested = FALSE /\ c.timer = NoTimer /\ c.trim = FALSE
      /\ c.retry = NoRetry /\ c.delay = RetryBase
  BY <1>3, ClearSnapshotRetryEffect, Zenon
<1> HIDE DEF c
<1>5. /\ z \in RecoveryType /\ z.requested = FALSE /\ z.timer = NoTimer /\ z.trim = FALSE
      /\ z.retry = NoRetry /\ z.delay = RetryBase
      /\ z.pending = NoReason /\ z.queued = NoReason
  BY <1>4, Zenon DEF RecoveryType
<1> HIDE DEF z
<1>6. CASE r.queued = NoReason
  <2>1. s = z
    BY <1>2, <1>6
  <2> HIDE DEF s
  <2> QED
    BY <1>5, <2>1, HubConstants DEF RecoveryOK, TimerOfRequest, NoReason, s
<1>7. CASE r.queued # NoReason
  <2>1. r.queued \in Reason
    BY <1>7, Zenon DEF RecoveryType
  <2>2. s = RequestSnapshot(z, r.queued)
    BY <1>2, <1>7
  <2> HIDE DEF s
  <2>3. s \in RecoveryType /\ RecoveryOK(s, d, e, r.queued = "nav") /\ s.trim = FALSE
    BY <1>5, <2>1, <2>2, FreshRequest
  <2>4. (r.queued = "nav") = FALSE
    OBVIOUS
  <2> QED
    BY <2>3, <2>4 DEF s
<1> QED
  BY <1>6, <1>7

(* ingest(hello): the new document's snapshot is asked for. *)
LEMMA HelloRecoveryOK ==
  ASSUME NEW r \in RecoveryType, NEW d, NEW e
  PROVE  LET s == HelloRecovery(r) IN
         s \in RecoveryType /\ RecoveryOK(s, d, e, TRUE) /\ s.trim = FALSE
<1> DEFINE a == [r EXCEPT !.pending = NoReason, !.queued = NoReason, !.trim = FALSE]
           b == ClearSnapshotRetry(a, TRUE)
           c == ClearSnapshotRequest(b)
           s == HelloRecovery(r)
<1>1. a \in RecoveryType /\ a.pending = NoReason /\ a.queued = NoReason /\ a.trim = FALSE
  BY Zenon DEF RecoveryType
<1>2. s = RequestSnapshot(c, "nav")
  BY Zenon DEF HelloRecovery
<1> HIDE DEF a
<1>3. /\ b \in RecoveryType /\ b.retry = NoRetry /\ b.delay = RetryBase
      /\ b.pending = NoReason /\ b.queued = NoReason /\ b.trim = FALSE
  BY <1>1, ClearSnapshotRetryEffect, Zenon
<1> HIDE DEF b
<1>4. /\ c \in RecoveryType /\ c.retry = NoRetry /\ c.delay = RetryBase
      /\ c.pending = NoReason /\ c.queued = NoReason /\ c.trim = FALSE
      /\ c.requested = FALSE /\ c.timer = NoTimer
  BY <1>3, ClearSnapshotRequestEffect, Zenon
<1>5. "nav" \in Reason /\ ("nav" = "nav") = TRUE
  BY DEF Reason
<1> HIDE DEF c, s
<1> QED
  BY <1>2, <1>4, <1>5, FreshRequest DEF s

------------------------------------------------------------------------------
(* The inductive invariant of the hub. *)

Waiting == docId # NoDoc /\ snapshot = NoEvent

RecoveryPart ==
  /\ RecoveryOK(rec, docId, epoch, Waiting)
  /\ rec.trim => OverDeltaLimit(Len(deltas), deltaBytes)

(* The buffer continues the snapshot without a gap, and the viewer that missed
   nothing holds exactly it. *)
StreamPart ==
  /\ snapshot = NoEvent => deltas = <<>>
  /\ snapshot # NoEvent =>
       /\ meta # NoEvent
       /\ seq = snapshotSeq + Len(deltas)
       /\ live = [epoch |-> epoch, seq |-> seq, base |-> <<meta, snapshot>>, tail |-> deltas]
  /\ live.epoch <= epoch

IInv == TypeOK /\ RecoveryPart /\ HeldByCurrentDocument /\ StreamPart

LEMMA WaitingType == Waiting \in BOOLEAN
  BY DEF Waiting

LEMMA CommandsSentType ==
  ASSUME NEW r, NEW s \in RecoveryType, unsettled \in SUBSET Nat
  PROVE  unsettled \cup CommandsSent(r, s) \in SUBSET Nat
<1>1. s.timer \in Nat
  BY Zenon DEF RecoveryType
<1> QED
  BY <1>1 DEF CommandsSent

(* A step that only moves the request machine. *)
LEMMA RecoveryStep ==
  ASSUME IInv, NEW s \in RecoveryType, RecoveryOK(s, docId, epoch, Waiting),
         s.trim => rec.trim \/ OverDeltaLimit(Len(deltas), deltaBytes),
         rec' = s, unsettled' \in SUBSET Nat, idle' \in BOOLEAN,
         UNCHANGED <<canonVars, live>>
  PROVE  IInv'
<1> USE DEF canonVars
<1>1. TypeOK'
  BY DEF IInv, TypeOK
<1>2. RecoveryPart'
  <2>1. Waiting' = Waiting
    BY DEF Waiting
  <2>2. RecoveryOK(rec', docId', epoch', Waiting')
    BY <2>1
  <2> QED
    BY <2>2 DEF IInv, RecoveryPart, OverDeltaLimit
<1>3. HeldByCurrentDocument' /\ StreamPart'
  BY DEF IInv, HeldByCurrentDocument, StreamPart
<1> QED
  BY <1>1, <1>2, <1>3 DEF IInv

(* A snapshot pair is one value, whatever it is made of. *)
LEMMA LiveTyped ==
  ASSUME NEW n \in Nat, NEW k \in Nat, NEW b, NEW t \in Seq(Event),
         b = NoBase \/ b \in Event \X Event
  PROVE  [epoch |-> n, seq |-> k, base |-> b, tail |-> t] \in LiveType
  BY DEF LiveType

LEMMA PairTyped ==
  ASSUME NEW m \in Event, NEW f \in Event
  PROVE  <<m, f>> \in Event \X Event
  OBVIOUS

LEMMA InitInv == HubInit => IInv
<1> SUFFICES ASSUME HubInit PROVE IInv
  OBVIOUS
<1> USE DEF HubInit
<1>1. RecoveryInit \in RecoveryType /\ RecoveryInit.trim = FALSE
  BY HubConstants DEF RecoveryInit, RecoveryType, NoTimer
<1>2. TypeOK
  <2>1. 0 \in Nat /\ <<>> \in Seq(Event)
    OBVIOUS
  <2>2. live \in LiveType
    BY <2>1, LiveTyped, Zenon
  <2> QED
    BY <1>1, <2>2, HubConstants DEF TypeOK, NoEventOr
<1>3. RecoveryOK(rec, docId, epoch, Waiting)
  BY HubConstants DEF RecoveryOK, RecoveryInit, TimerOfRequest, Waiting, NoReason, NoTimer
<1>4. HeldByCurrentDocument /\ StreamPart
  BY DEF HeldByCurrentDocument, StreamPart
<1> QED
  BY <1>1, <1>2, <1>3, <1>4 DEF IInv, RecoveryPart

LEMMA HelloInv ==
  ASSUME IInv, NEW d \in Doc, IngestHello(d)
  PROVE  IInv'
<1> USE DEF IngestHello
<1> DEFINE s == HelloRecovery(rec)
<1>1. rec \in RecoveryType /\ unsettled \in SUBSET Nat
  BY DEF IInv, TypeOK
<1>2. s \in RecoveryType /\ RecoveryOK(s, d, epoch, TRUE) /\ s.trim = FALSE
  BY <1>1, HelloRecoveryOK, Zenon
<1>3. rec' = s /\ unsettled' = unsettled \cup CommandsSent(rec, s)
  BY Zenon DEF RecoverWith
<1> HIDE DEF s
<1>4. unsettled' \in SUBSET Nat
  BY <1>1, <1>2, <1>3, CommandsSentType
<1>5. TypeOK'
  BY <1>2, <1>3, <1>4 DEF IInv, TypeOK, NoEventOr
<1>6. Waiting' = TRUE
  BY HubConstants DEF Waiting
<1>7. RecoveryPart'
  BY <1>2, <1>3, <1>6 DEF RecoveryPart
<1>8. HeldByCurrentDocument' /\ StreamPart'
  BY DEF IInv, HeldByCurrentDocument, StreamPart
<1> QED
  BY <1>5, <1>7, <1>8 DEF IInv

LEMMA OpenInv ==
  ASSUME IInv, NEW m \in Event, NEW f \in Event, m.doc = docId, f.doc = docId,
         OpenPendingSnapshot(m, f), UNCHANGED <<docId, idle>>
  PROVE  IInv'
<1> USE DEF OpenPendingSnapshot
<1> DEFINE s == OpenedRecovery(rec)
<1>1. rec \in RecoveryType /\ unsettled \in SUBSET Nat /\ epoch \in Nat /\ seq \in Nat
  BY DEF IInv, TypeOK
<1>2. s \in RecoveryType /\ RecoveryOK(s, docId, epoch + 1, FALSE) /\ s.trim = FALSE
  BY <1>1, OpenedRecoveryOK DEF IInv, RecoveryPart, RecoveryOK
<1>3. rec' = s /\ unsettled' = unsettled \cup CommandsSent(rec, s)
  BY Zenon DEF RecoverWith
<1> HIDE DEF s
<1>4. unsettled' \in SUBSET Nat
  BY <1>1, <1>2, <1>3, CommandsSentType
<1>5. m # NoEvent /\ f # NoEvent
  BY HubConstants
<1>6. live' = [epoch |-> epoch + 1, seq |-> seq + 1, base |-> <<m, f>>, tail |-> <<>>]
  <2>1. live.epoch \in Nat /\ live.epoch <= epoch
    BY DEF IInv, TypeOK, StreamPart, LiveType
  <2>2. epoch + 1 > live.epoch
    BY <1>1, <2>1
  <2> QED
    BY <2>2 DEF HearSnapshot, Stream!SnapshotMsg
<1>7. TypeOK'
  <2>1. live' \in LiveType
    <3>1. <<m, f>> \in Event \X Event /\ epoch + 1 \in Nat /\ seq + 1 \in Nat
      BY <1>1, PairTyped
    <3>2. <<>> \in Seq(Event)
      OBVIOUS
    <3> QED
      BY <1>6, <3>1, <3>2, LiveTyped, Zenon
  <2> QED
    BY <1>1, <1>2, <1>3, <1>4, <2>1 DEF IInv, TypeOK, NoEventOr
<1>8. Waiting' = FALSE
  BY <1>5 DEF Waiting
<1>9. RecoveryPart'
  BY <1>2, <1>3, <1>8 DEF RecoveryPart
<1>10. HeldByCurrentDocument'
  BY DEF HeldByCurrentDocument
<1>11. StreamPart'
  BY <1>1, <1>5, <1>6 DEF StreamPart
<1> QED
  BY <1>7, <1>9, <1>10, <1>11 DEF IInv

(* Half of a pair arrived: it is only remembered. *)
LEMMA HalfPairInv ==
  ASSUME IInv, HalfPair, UNCHANGED <<docId, idle>>,
         meta' \in NoEventOr(Event), nextMeta' \in NoEventOr(Event),
         pendingFullSnapshot' \in NoEventOr(Event),
         snapshot # NoEvent => meta' = meta,
         \A e \in {meta', nextMeta', pendingFullSnapshot'} : e # NoEvent => e.doc = docId
  PROVE  IInv'
<1> USE DEF HalfPair
<1>1. TypeOK'
  BY DEF IInv, TypeOK
<1>2. RecoveryPart'
  <2>1. Waiting' = Waiting
    BY DEF Waiting
  <2> QED
    BY <2>1 DEF IInv, RecoveryPart
<1>3. HeldByCurrentDocument'
  BY DEF IInv, HeldByCurrentDocument
<1>4. StreamPart'
  BY DEF IInv, StreamPart
<1> QED
  BY <1>1, <1>2, <1>3, <1>4 DEF IInv

LEMMA MetaInv ==
  ASSUME IInv, NEW e \in Event, IngestMeta(e)
  PROVE  IInv'
<1> USE DEF IngestMeta, FromCurrentDocument
<1>1. e.doc = docId /\ UNCHANGED <<docId, idle>>
  OBVIOUS
<1>2. CASE pendingFullSnapshot # NoEvent
  <2>1. pendingFullSnapshot \in Event /\ pendingFullSnapshot.doc = docId
    BY <1>2 DEF IInv, TypeOK, NoEventOr, HeldByCurrentDocument
  <2> QED
    BY <1>1, <1>2, <2>1, OpenInv
<1>3. CASE pendingFullSnapshot = NoEvent
  <2>1. /\ meta' \in NoEventOr(Event) /\ nextMeta' \in NoEventOr(Event)
        /\ pendingFullSnapshot' \in NoEventOr(Event)
    BY <1>3 DEF IInv, TypeOK, NoEventOr
  <2>2. \A x \in {meta', nextMeta', pendingFullSnapshot'} : x # NoEvent => x.doc = docId
    BY <1>1, <1>3 DEF IInv, HeldByCurrentDocument
  <2> QED
    BY <1>1, <1>3, <2>1, <2>2, HalfPairInv
<1> QED
  BY <1>2, <1>3

LEMMA FullSnapshotInv ==
  ASSUME IInv, NEW e \in Event, IngestFullSnapshot(e)
  PROVE  IInv'
<1> USE DEF IngestFullSnapshot, FromCurrentDocument
<1>1. e.doc = docId /\ UNCHANGED <<docId, idle>>
  OBVIOUS
<1>2. CASE PairedMeta # NoEvent
  <2>1. PairedMeta \in Event /\ PairedMeta.doc = docId
    BY <1>2 DEF IInv, TypeOK, NoEventOr, HeldByCurrentDocument, PairedMeta
  <2> QED
    BY <1>1, <1>2, <2>1, OpenInv
<1>3. CASE PairedMeta = NoEvent
  <2>1. /\ meta' \in NoEventOr(Event) /\ nextMeta' \in NoEventOr(Event)
        /\ pendingFullSnapshot' \in NoEventOr(Event)
    BY <1>3 DEF IInv, TypeOK, NoEventOr
  <2>2. \A x \in {meta', nextMeta', pendingFullSnapshot'} : x # NoEvent => x.doc = docId
    BY <1>1, <1>3 DEF IInv, HeldByCurrentDocument
  <2> QED
    BY <1>1, <1>3, <2>1, <2>2, HalfPairInv
<1> QED
  BY <1>2, <1>3

LEMMA IncrementalInv ==
  ASSUME IInv, NEW e \in Event, IngestIncremental(e)
  PROVE  IInv'
<1> USE DEF IngestIncremental, FromCurrentDocument, Replayable
<1> DEFINE s == TrimAfterDelta(Len(deltas'), deltaBytes')
<1>1. /\ rec \in RecoveryType /\ unsettled \in SUBSET Nat /\ epoch \in Nat /\ seq \in Nat
      /\ deltas \in Seq(Event) /\ deltaBytes \in Nat /\ snapshotSeq \in Nat
  BY DEF IInv, TypeOK
<1>2. /\ deltas' \in Seq(Event) /\ Len(deltas') = Len(deltas) + 1
      /\ \A i \in 1..Len(deltas') : deltas'[i] = IF i <= Len(deltas) THEN deltas[i] ELSE e
  BY <1>1, AppendProperties
<1>3. e.body \in Body /\ deltaBytes' \in Nat /\ deltaBytes' >= deltaBytes
  <2>1. e.body \in Body /\ Bytes[e.body] \in Nat
    BY HubConstants DEF Event
  <2> QED
    BY <1>1, <2>1
<1>4. /\ s \in RecoveryType /\ RecoveryOK(s, docId, epoch, Waiting)
      /\ s.trim => rec.trim \/ OverDeltaLimit(Len(deltas'), deltaBytes')
  BY <1>1, TrimKeepsRecovery, WaitingType, Zenon
  DEF TrimAfterDelta, TrimArmedOver, IInv, RecoveryPart
<1>5. rec' = s /\ unsettled' = unsettled \cup CommandsSent(rec, s)
  BY Zenon DEF RecoverWith
<1> HIDE DEF s
<1>6. unsettled' \in SUBSET Nat
  BY <1>1, <1>4, <1>5, CommandsSentType
<1>7. live' = [epoch |-> epoch, seq |-> seq + 1, base |-> <<meta, snapshot>>,
               tail |-> deltas']
  <2>1. live = [epoch |-> epoch, seq |-> seq, base |-> <<meta, snapshot>>, tail |-> deltas]
    BY DEF IInv, StreamPart
  <2>2. deltas \o <<e>> = deltas'
    BY <1>1
  <2>3. Len(<<e>>) = 1
    OBVIOUS
  <2> QED
    BY <1>1, <2>1, <2>2, <2>3 DEF HearDelta, Stream!DeltaMsg
<1>8. TypeOK'
  <2>1. meta \in Event /\ snapshot \in Event
    BY DEF IInv, TypeOK, NoEventOr
  <2>2. live' \in LiveType
    <3> DEFINE b == <<meta, snapshot>>
    <3>1. b \in Event \X Event
      BY <2>1, PairTyped
    <3>2. epoch \in Nat /\ seq + 1 \in Nat /\ deltas' \in Seq(Event)
      BY <1>1, <1>2
    <3>3. live' = [epoch |-> epoch, seq |-> seq + 1, base |-> b, tail |-> deltas']
      BY <1>7
    <3> HIDE DEF b
    <3>4. [epoch |-> epoch, seq |-> seq + 1, base |-> b, tail |-> deltas'] \in LiveType
      BY <3>1, <3>2, LiveTyped
    <3> QED
      BY <3>3, <3>4
  <2> QED
    BY <1>1, <1>2, <1>3, <1>4, <1>5, <1>6, <2>2 DEF IInv, TypeOK
<1>9. RecoveryPart'
  <2>1. Waiting' = Waiting
    BY DEF Waiting
  <2>2. OverDeltaLimit(Len(deltas), deltaBytes) => OverDeltaLimit(Len(deltas'), deltaBytes')
    BY <1>1, <1>2, <1>3, HubConstants DEF OverDeltaLimit
  <2>3. rec.trim => OverDeltaLimit(Len(deltas), deltaBytes)
    BY DEF IInv, RecoveryPart
  <2> QED
    BY <1>4, <1>5, <2>1, <2>2, <2>3 DEF RecoveryPart
<1>10. HeldByCurrentDocument'
  BY <1>2 DEF IInv, HeldByCurrentDocument
<1>11. StreamPart'
  <2>1. seq = snapshotSeq + Len(deltas)
    BY DEF IInv, StreamPart
  <2>2. Len(deltas) \in Nat
    BY <1>1
  <2>3. seq' = snapshotSeq' + Len(deltas')
    BY <1>1, <1>2, <2>1, <2>2
  <2>4. live'.epoch = epoch /\ epoch <= epoch
    BY <1>1, <1>7
  <2>5. live' = [epoch |-> epoch', seq |-> seq', base |-> <<meta', snapshot'>>,
                 tail |-> deltas']
    BY <1>7
  <2> QED
    BY <2>3, <2>4, <2>5, Zenon DEF StreamPart
<1> QED
  BY <1>8, <1>9, <1>10, <1>11 DEF IInv

LEMMA TimersInv ==
  ASSUME IInv, Timers
  PROVE  IInv'
<1>1. /\ rec \in RecoveryType /\ unsettled \in SUBSET Nat /\ idle \in BOOLEAN
      /\ docId \in Doc \cup {NoDoc} /\ epoch \in Nat
      /\ RecoveryOK(rec, docId, epoch, Waiting)
      /\ rec.trim => OverDeltaLimit(Len(deltas), deltaBytes)
  BY DEF IInv, TypeOK, RecoveryPart
<1>2. ASSUME NEW s \in RecoveryType, RecoverWith(s), RecoveryOK(s, docId, epoch, Waiting),
             s.trim => rec.trim \/ OverDeltaLimit(Len(deltas), deltaBytes),
             UNCHANGED <<canonVars, idle, live>>
      PROVE  IInv'
  <2>1. rec' = s /\ unsettled' \in SUBSET Nat
    BY <1>1, <1>2, CommandsSentType DEF RecoverWith
  <2> QED
    BY <1>1, <1>2, <2>1, RecoveryStep
<1>3. CASE RequestTimeout
  <2> DEFINE s == FailSnapshotRequest(rec, rec.timer)
  <2>1. rec.timer \in Nat
    BY <1>1, Zenon DEF RecoveryType
  <2>2. s \in RecoveryType /\ RecoveryOK(s, docId, epoch, Waiting) /\ (s.trim => rec.trim)
    BY <1>1, <2>1, FailKeepsRecovery, WaitingType, Zenon
  <2>3. RecoverWith(s) /\ UNCHANGED <<canonVars, idle, live>>
    BY <1>3, Zenon DEF RequestTimeout
  <2> HIDE DEF s
  <2> QED
    BY <1>2, <2>2, <2>3
<1>4. CASE RetryTimerFires
  <2> DEFINE b == RetryFired(rec)
             q == RequestSnapshot(b, rec.retry.reason)
             stale == \/ docId = NoDoc \/ rec.retry.doc # docId
                      \/ rec.retry.epoch # epoch \/ rec.requested
             s == IF stale THEN b ELSE q
  <2>1. RecoverWith(s) /\ UNCHANGED <<canonVars, idle, live>> /\ rec.retry # NoRetry
    BY <1>4, Zenon DEF RetryTimerFires
  <2>2. CASE docId = NoDoc
    <3>1. /\ b \in RecoveryType /\ b.retry = NoRetry
          /\ b.requested = rec.requested /\ b.attempt = rec.attempt /\ b.timer = rec.timer
          /\ b.pending = rec.pending /\ b.queued = rec.queued
          /\ b.delay = rec.delay /\ b.trim = rec.trim
      BY <1>1, Zenon DEF RecoveryType, RetryFired
    <3>2. s = b
      BY <2>2
    <3>3. Waiting = FALSE
      BY <2>2 DEF Waiting
    <3> HIDE DEF b, s
    <3>4. RecoveryOK(b, docId, epoch, Waiting)
      BY <1>1, <2>1, <2>2, <3>1, <3>3 DEF RecoveryOK, TimerOfRequest
    <3> QED
      BY <1>2, <2>1, <3>1, <3>2, <3>4
  <2>3. CASE docId # NoDoc
    <3>1. ~stale
      BY <1>1, <2>1, <2>3 DEF RecoveryOK
    <3>2. q \in RecoveryType /\ RecoveryOK(q, docId, epoch, Waiting) /\ (q.trim => rec.trim)
      BY <1>1, <2>1, <2>3, RetryKeepsRecovery, WaitingType, Zenon
    <3>3. s = q
      BY <3>1
    <3> HIDE DEF s, q
    <3> QED
      BY <1>2, <2>1, <3>2, <3>3
  <2> QED
    BY <2>2, <2>3
<1>5. CASE TrimTimerFires
  <2> DEFINE c == ClearTrimTimer(rec)
             s == MaybeRequestTrim(c, Len(deltas), deltaBytes)
  <2>1. RecoverWith(s) /\ UNCHANGED <<canonVars, idle, live>>
    BY <1>5, Zenon DEF TrimTimerFires
  <2>2. /\ c \in RecoveryType /\ c.trim = FALSE
        /\ c.requested = rec.requested /\ c.attempt = rec.attempt /\ c.timer = rec.timer
        /\ c.pending = rec.pending /\ c.queued = rec.queued
        /\ c.retry = rec.retry /\ c.delay = rec.delay
    BY <1>1, ClearTrimTimerEffect, Zenon
  <2> HIDE DEF c
  <2>3. RecoveryOK(c, docId, epoch, Waiting)
    BY <1>1, <2>2 DEF RecoveryOK, TimerOfRequest
  <2>4. /\ s \in RecoveryType /\ RecoveryOK(s, docId, epoch, Waiting)
        /\ s.trim => c.trim \/ OverDeltaLimit(Len(deltas), deltaBytes)
    <3>1. /\ s \in RecoveryType /\ RecoveryOK(s, docId, epoch, Waiting)
          /\ TrimArmedOver(c, Len(deltas), deltaBytes)
      BY <2>2, <2>3, TrimKeepsRecovery, WaitingType, Zenon
    <3> QED
      BY <3>1, Zenon DEF TrimArmedOver
  <2> HIDE DEF s
  <2> QED
    BY <1>2, <2>1, <2>2, <2>4
<1> QED
  BY <1>3, <1>4, <1>5 DEF Timers

(* A resync-req or a viewport change asks; a settled promise may fail the attempt. *)
LEMMA GatewayInv ==
  ASSUME IInv, NEW reason \in {"resync", "viewport"}, RequestFromGateway(reason)
  PROVE  IInv'
<1> DEFINE s == RequestSnapshot(rec, reason)
<1>1. /\ rec \in RecoveryType /\ unsettled \in SUBSET Nat /\ idle \in BOOLEAN
      /\ RecoveryOK(rec, docId, epoch, Waiting)
  BY DEF IInv, TypeOK, RecoveryPart
<1>2. reason \in Reason /\ (reason = "nav" => Waiting)
  BY DEF Reason
<1>3. s \in RecoveryType /\ RecoveryOK(s, docId, epoch, Waiting) /\ (s.trim => rec.trim)
  BY <1>1, <1>2, RequestKeepsRecovery, WaitingType, Zenon
<1>4. rec' = s /\ unsettled' = unsettled \cup CommandsSent(rec, s)
      /\ UNCHANGED <<canonVars, idle, live>>
  BY Zenon DEF RequestFromGateway, RecoverWith
<1> HIDE DEF s
<1>5. unsettled' \in SUBSET Nat
  BY <1>1, <1>3, <1>4, CommandsSentType
<1> QED
  BY <1>1, <1>3, <1>4, <1>5, RecoveryStep

LEMMA SettleInv ==
  ASSUME IInv, Settle
  PROVE  IInv'
<1>1. /\ rec \in RecoveryType /\ unsettled \in SUBSET Nat /\ idle \in BOOLEAN
      /\ docId \in Doc \cup {NoDoc} /\ epoch \in Nat
      /\ RecoveryOK(rec, docId, epoch, Waiting)
  BY DEF IInv, TypeOK, RecoveryPart
<1>2. PICK a \in unsettled : CommandResolved(a) \/ CommandRejected(a)
  BY Zenon DEF Settle
<1>3. a \in Nat /\ unsettled \ {a} \in SUBSET Nat
  BY <1>1, <1>2
<1>4. CASE CommandResolved(a)
  <2>1. rec' = rec /\ unsettled' \in SUBSET Nat /\ UNCHANGED <<canonVars, idle, live>>
    BY <1>3, <1>4, Zenon DEF CommandResolved
  <2> QED
    BY <1>1, <2>1, RecoveryStep
<1>5. CASE CommandRejected(a)
  <2> DEFINE s == FailSnapshotRequest(rec, a)
  <2>1. s \in RecoveryType /\ RecoveryOK(s, docId, epoch, Waiting) /\ (s.trim => rec.trim)
    BY <1>1, <1>3, FailKeepsRecovery, WaitingType, Zenon
  <2>2. rec' = s /\ unsettled' \in SUBSET Nat /\ UNCHANGED <<canonVars, idle, live>>
    BY <1>3, <1>5, Zenon DEF CommandRejected
  <2> HIDE DEF s
  <2> QED
    BY <1>1, <2>1, <2>2, RecoveryStep
<1> QED
  BY <1>2, <1>4, <1>5

LEMMA InputInv ==
  ASSUME IInv, NoteInput \/ InputIdles
  PROVE  IInv'
<1>1. /\ rec \in RecoveryType /\ unsettled \in SUBSET Nat
      /\ RecoveryOK(rec, docId, epoch, Waiting)
  BY DEF IInv, TypeOK, RecoveryPart
<1>2. CASE rec' = rec
  <2>1. unsettled' = unsettled /\ idle' \in BOOLEAN /\ UNCHANGED <<canonVars, live>>
    BY DEF NoteInput, InputIdles
  <2> QED
    BY <1>1, <1>2, <2>1, RecoveryStep
<1>3. CASE rec' # rec
  <2> DEFINE s == [rec EXCEPT !.trim = TRUE]
  <2>1. /\ rec' = s /\ ~rec.requested /\ OverDeltaLimit(Len(deltas), deltaBytes)
        /\ unsettled' = unsettled /\ idle' \in BOOLEAN /\ UNCHANGED <<canonVars, live>>
    BY <1>3, Zenon DEF NoteInput, InputIdles
  <2>2. /\ s \in RecoveryType
        /\ s.requested = rec.requested /\ s.attempt = rec.attempt /\ s.timer = rec.timer
        /\ s.pending = rec.pending /\ s.queued = rec.queued
        /\ s.retry = rec.retry /\ s.delay = rec.delay
    BY <1>1, Zenon DEF RecoveryType
  <2>3. rec.requested = FALSE
    BY <1>1, <2>1, Zenon DEF RecoveryType
  <2> HIDE DEF s
  <2>4. RecoveryOK(s, docId, epoch, Waiting)
    BY <1>1, <2>2, <2>3 DEF RecoveryOK, TimerOfRequest
  <2> QED
    BY <1>1, <2>1, <2>2, <2>4, RecoveryStep
<1> QED
  BY <1>2, <1>3

LEMMA StutterInv ==
  ASSUME IInv, UNCHANGED hubVars
  PROVE  IInv'
<1>1. Waiting' = Waiting
  BY DEF hubVars, canonVars, Waiting
<1>2. TypeOK' /\ HeldByCurrentDocument' /\ StreamPart'
  BY DEF hubVars, canonVars, IInv, TypeOK, HeldByCurrentDocument, StreamPart
<1>3. RecoveryPart'
  BY <1>1 DEF hubVars, canonVars, IInv, RecoveryPart
<1> QED
  BY <1>2, <1>3 DEF IInv

LEMMA StepInv == IInv /\ [HubNext]_hubVars => IInv'
<1> SUFFICES ASSUME IInv, [HubNext]_hubVars PROVE IInv'
  OBVIOUS
<1>1. CASE Ingest
  BY <1>1, HelloInv, MetaInv, FullSnapshotInv, IncrementalInv DEF Ingest
<1>2. CASE \E reason \in {"resync", "viewport"} : RequestFromGateway(reason)
  BY <1>2, GatewayInv
<1>3. CASE Timers
  BY <1>3, TimersInv
<1>4. CASE Settle
  BY <1>4, SettleInv
<1>5. CASE NoteInput \/ InputIdles
  BY <1>5, InputInv
<1>6. CASE UNCHANGED hubVars
  BY <1>6, StutterInv
<1> QED
  BY <1>1, <1>2, <1>3, <1>4, <1>5, <1>6 DEF HubNext

------------------------------------------------------------------------------
(* The theorems. *)

LEMMA Invariance == HubSpec => []IInv
<1> QED
  BY InitInv, StepInv, PTL DEF HubSpec

(* Every reachable state of the hub, and of its request machine, is well typed. *)
THEOREM TypeCorrect == HubSpec => []TypeOK
<1>1. IInv => TypeOK
  BY DEF IInv
<1> QED
  BY <1>1, Invariance, PTL

(* A document without a snapshot always has "nav" in flight or its retry armed. *)
LEMMA NavSafe == IInv => NavNeverAbandoned
<1> QED
  BY DEF IInv, RecoveryPart, RecoveryOK, Waiting, NavNeverAbandoned

(* A pending resync always is in flight or has its retry armed. *)
LEMMA PendingResyncSafe == IInv => PendingResyncNeverAbandoned
<1> QED
  BY DEF IInv, RecoveryPart, RecoveryOK, PendingResyncNeverAbandoned

(* A snapshot that a document or a viewer needs is never given up: its request *)
(* is in flight, or its retry is armed.                                        *)
THEOREM SnapshotSafe == HubSpec => []SnapshotPursued
<1>1. IInv => SnapshotPursued
  BY NavSafe, PendingResyncSafe DEF SnapshotPursued
<1> QED
  BY <1>1, Invariance, PTL

(* The retry delay never leaves [snapshotRetryMs, snapshotRetryMaxMs]. *)
THEOREM BackoffSafe == HubSpec => []BackoffBounded
<1>1. IInv => BackoffBounded
  BY DEF IInv, RecoveryPart, RecoveryOK, BackoffBounded
<1> QED
  BY <1>1, Invariance, PTL

(* The request, retry and trim timers never contradict each other or the hub, *)
(* the state is well typed and the retry delay within its bounds.             *)
THEOREM TimersSafe == HubSpec => []TimersConsistent
<1>1. ASSUME IInv PROVE TimersConsistent
  <2>1. TypeOK
    BY <1>1 DEF IInv
  <2>2. BackoffBounded
    BY <1>1 DEF IInv, RecoveryPart, RecoveryOK, BackoffBounded
  <2> QED
    BY <1>1, <2>1, <2>2 DEF IInv, RecoveryPart, RecoveryOK, TimerOfRequest, TimersConsistent
<1> QED
  BY <1>1, Invariance, PTL

(* Nothing of an earlier document is ever held for replay. *)
THEOREM DocumentSafe == HubSpec => []HeldByCurrentDocument
<1>1. IInv => HeldByCurrentDocument
  BY DEF IInv
<1> QED
  BY <1>1, Invariance, PTL

(* What a join payload is, once there is a snapshot. *)
LEMMA JoinPayloadIs ==
  ASSUME snapshot # NoEvent
  PROVE  JoinPayload =
           IF deltas = <<>>
           THEN <<Stream!ResyncMsg, Stream!SnapshotMsg(epoch, snapshotSeq, <<meta, snapshot>>)>>
           ELSE <<Stream!ResyncMsg, Stream!SnapshotMsg(epoch, snapshotSeq, <<meta, snapshot>>),
                  Stream!DeltaMsg(epoch, snapshotSeq + 1, deltas)>>
<1>1. <<meta, snapshot>> # NoBase
  BY DEF NoBase
<1> QED
  BY <1>1, Zenon DEF JoinPayload, Stream!JoinPayload

(* A viewer that joins late holds exactly what one that missed nothing holds. *)
THEOREM JoinSafe == HubSpec => []JoinMatchesLive
<1>1. ASSUME IInv, snapshot # NoEvent PROVE Joined(JoinPayload) = live
  <2> DEFINE b == <<meta, snapshot>>
             s0 == [epoch |-> epoch, seq |-> snapshotSeq, base |-> b, tail |-> <<>>]
  <2>1. /\ seq = snapshotSeq + Len(deltas)
        /\ live = [epoch |-> epoch, seq |-> seq, base |-> b, tail |-> deltas]
    BY <1>1 DEF IInv, StreamPart
  <2>2. /\ epoch \in Nat /\ snapshotSeq \in Nat /\ deltas \in Seq(Event)
    BY <1>1 DEF IInv, TypeOK
  <2> HIDE DEF b
  <2>3. CASE deltas = <<>>
    <3>1. JoinPayload = <<Stream!ResyncMsg, Stream!SnapshotMsg(epoch, snapshotSeq, b)>>
      BY <1>1, <2>3, JoinPayloadIs DEF b
    <3>2. Joined(JoinPayload) = s0
      BY <3>1 DEF Joined, Stream!SnapshotMsg
    <3>3. seq = snapshotSeq
      BY <2>1, <2>2, <2>3
    <3> QED
      BY <2>1, <2>3, <3>2, <3>3
  <2>4. CASE deltas # <<>>
    <3> DEFINE dm == Stream!DeltaMsg(epoch, snapshotSeq + 1, deltas)
    <3>1. JoinPayload = <<Stream!ResyncMsg, Stream!SnapshotMsg(epoch, snapshotSeq, b), dm>>
      BY <1>1, <2>4, JoinPayloadIs DEF b
    <3>2. /\ dm.epoch = epoch /\ dm.seq = snapshotSeq + 1 /\ dm.data = deltas
      BY DEF Stream!DeltaMsg
    <3> HIDE DEF dm
    <3>3. Joined(JoinPayload) = HearDelta(s0, dm)
      BY <3>1 DEF Joined, Stream!SnapshotMsg
    <3>4. HearDelta(s0, dm) = [epoch |-> epoch, seq |-> snapshotSeq + Len(deltas), base |-> b,
                               tail |-> <<>> \o deltas]
      BY <3>2 DEF HearDelta
    <3>5. <<>> \o deltas = deltas
      BY <2>2
    <3> QED
      BY <2>1, <3>3, <3>4, <3>5
  <2> QED
    BY <2>3, <2>4
<1>2. IInv => JoinMatchesLive
  BY <1>1 DEF JoinMatchesLive
<1> QED
  BY <1>2, Invariance, PTL

(* No step leaves a longer buffer over its limit without a trim on its way. *)
THEOREM GrowthSafe == HubSpec => GrowthIsPursued
<1> DEFINE A == /\ Len(deltas') > Len(deltas)
                /\ OverDeltaLimit(Len(deltas'), deltaBytes')
                => rec'.requested \/ rec'.trim
<1>1. ASSUME IInv, NEW e \in Event, IngestIncremental(e) PROVE A
  <2>1. rec' = MaybeRequestTrim(rec, Len(deltas'), deltaBytes')
    BY <1>1, Zenon DEF IngestIncremental, RecoverWith, TrimAfterDelta
  <2>2. TrimArmedOver(rec, Len(deltas'), deltaBytes')
    BY <1>1, TrimKeepsRecovery, WaitingType, Zenon DEF IInv, TypeOK, RecoveryPart
  <2> QED
    BY <2>1, <2>2, Zenon DEF TrimArmedOver
<1>2. ASSUME IInv, deltas' = deltas \/ deltas' = <<>> PROVE A
  <2>1. Len(deltas) \in Nat
    BY <1>2 DEF IInv, TypeOK
  <2> QED
    BY <1>2, <2>1
<1>3. ASSUME HubNext, ~ \E e \in Event : IngestIncremental(e)
      PROVE  deltas' = deltas \/ deltas' = <<>>
  <2>1. CASE Ingest
    BY <1>3, <2>1, Zenon DEF Ingest, IngestHello, IngestMeta, IngestFullSnapshot, HalfPair,
      OpenPendingSnapshot
  <2>2. CASE ~Ingest
    <3>1. UNCHANGED canonVars
      BY <1>3, <2>2, Zenon DEF HubNext, RequestFromGateway, Timers, RequestTimeout,
        RetryTimerFires, TrimTimerFires, Settle, CommandResolved, CommandRejected,
        NoteInput, InputIdles
    <3> QED
      BY <3>1 DEF canonVars
  <2> QED
    BY <2>1, <2>2
<1>4. IInv /\ [HubNext]_hubVars => [A]_hubVars
  BY <1>1, <1>2, <1>3, Zenon
<1> QED
  BY <1>4, Invariance, PTL DEF HubSpec, GrowthIsPursued

------------------------------------------------------------------------------
(* The hub implements the stream. *)

(* The refinement mapping's base, in a state that has a snapshot and in one that has none. *)
LEMMA StreamAssumptionHolds == NoBase \notin Event \X Event
  BY HubConstants DEF NoBase

LEMMA OpenRefines ==
  ASSUME IInv, NEW m \in Event, NEW f \in Event, OpenPendingSnapshot(m, f)
  PROVE  Stream!StreamNext
<1>1. f # NoEvent /\ <<m, f>> \in Event \X Event
  BY HubConstants
<1>2. Stream!OpenEpoch(<<m, f>>)
  BY <1>1 DEF OpenPendingSnapshot, Stream!OpenEpoch
<1> QED
  BY <1>1, <1>2 DEF Stream!StreamNext

LEMMA HalfPairRefines ==
  ASSUME HalfPair, snapshot # NoEvent => meta' = meta
  PROVE  UNCHANGED Stream!streamVars
  BY DEF HalfPair, Stream!streamVars

LEMMA IngestRefines ==
  ASSUME IInv, Ingest
  PROVE  [Stream!StreamNext]_(Stream!streamVars)
<1>1. CASE \E d \in Doc : IngestHello(d)
  <2>1. Stream!CloseDocument
    BY <1>1 DEF IngestHello, Stream!CloseDocument
  <2> QED
    BY <2>1 DEF Stream!StreamNext
<1>2. ASSUME NEW e \in Event, IngestMeta(e) PROVE [Stream!StreamNext]_(Stream!streamVars)
  <2>1. CASE pendingFullSnapshot # NoEvent
    <3>1. pendingFullSnapshot \in Event
      BY <2>1 DEF IInv, TypeOK, NoEventOr
    <3>2. OpenPendingSnapshot(e, pendingFullSnapshot)
      BY <1>2, <2>1 DEF IngestMeta
    <3> QED
      BY <3>1, <3>2, OpenRefines
  <2>2. CASE pendingFullSnapshot = NoEvent
    BY <1>2, <2>2, HalfPairRefines DEF IngestMeta
  <2> QED
    BY <2>1, <2>2
<1>3. ASSUME NEW e \in Event, IngestFullSnapshot(e)
      PROVE  [Stream!StreamNext]_(Stream!streamVars)
  <2>1. CASE PairedMeta # NoEvent
    <3>1. PairedMeta \in Event
      BY <2>1 DEF IInv, TypeOK, NoEventOr, PairedMeta
    <3>2. OpenPendingSnapshot(PairedMeta, e)
      BY <1>3, <2>1 DEF IngestFullSnapshot
    <3> QED
      BY <3>1, <3>2, OpenRefines
  <2>2. CASE PairedMeta = NoEvent
    BY <1>3, <2>2, HalfPairRefines DEF IngestFullSnapshot
  <2> QED
    BY <2>1, <2>2
<1>4. ASSUME NEW e \in Event, IngestIncremental(e)
      PROVE  [Stream!StreamNext]_(Stream!streamVars)
  <2>1. snapshot # NoEvent /\ snapshot' = snapshot /\ meta' = meta
    BY <1>4 DEF IngestIncremental, Replayable
  <2>2. <<meta, snapshot>> # NoBase
    BY <2>1 DEF NoBase
  <2>3. Stream!AppendDelta(e)
    BY <1>4, <2>1, <2>2, Zenon DEF IngestIncremental, Stream!AppendDelta
  <2> QED
    BY <2>3 DEF Stream!StreamNext
<1> QED
  BY <1>1, <1>2, <1>3, <1>4, Zenon DEF Ingest

(* What the hub publishes and replays is exactly one HubStream: an epoch per
   snapshot pair, every delta numbered after it, nothing kept over a navigation. *)
THEOREM HubImplementsStream == HubSpec => ImplementsStream
<1>1. HubInit => Stream!StreamInit
  BY DEF HubInit, Stream!StreamInit
<1>2. ASSUME IInv, [HubNext]_hubVars PROVE [Stream!StreamNext]_(Stream!streamVars)
  <2>1. CASE Ingest
    BY <1>2, <2>1, IngestRefines
  <2>2. CASE ~Ingest
    <3>1. UNCHANGED canonVars
      BY <1>2, <2>2, Zenon DEF HubNext, RequestFromGateway, Timers, RequestTimeout,
        RetryTimerFires, TrimTimerFires, Settle, CommandResolved, CommandRejected,
        NoteInput, InputIdles, hubVars
    <3> QED
      BY <3>1 DEF canonVars, Stream!streamVars
  <2> QED
    BY <2>1, <2>2
<1>3. IInv /\ [HubNext]_hubVars => [Stream!StreamNext]_(Stream!streamVars)
  BY <1>2
<1> QED
  BY <1>1, <1>3, Invariance, PTL DEF HubSpec, ImplementsStream, Stream!StreamSpec
==============================================================================
