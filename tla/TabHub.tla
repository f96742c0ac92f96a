-------------------------------- MODULE TabHub --------------------------------
(***************************************************************************)
(* One tab's EventHub (packages/gateway/src/hub/tabhub.ts, class TabHub):  *)
(* it ingests what the tab's recorder emits, keeps the canonical state a   *)
(* joining viewer is sent, numbers what it publishes, and asks the         *)
(* recorder for fresh snapshots, with a request timeout, a bounded         *)
(* exponential retry and an idle timer for buffer trims.                   *)
(*                                                                         *)
(* Every method runs to completion on the gateway's event loop, so an      *)
(* action is one whole callback: an ingested message, a call from the      *)
(* composition root, a timer, or the settling of the promise a snapshot    *)
(* command returned.  The environment here is the most general one: any    *)
(* document may say anything at any time.                                  *)
(*                                                                         *)
(* Time is abstracted: a timer may fire at any moment while it is armed,   *)
(* and "idle" says whether trimIdleMs have passed since the last input.    *)
(* The retry delay keeps its number, since its doubling is checked.        *)
(***************************************************************************)
EXTENDS Integers, Sequences

CONSTANTS Doc,             \* agent docIds, one per document
          NoDoc,           \* no hello was seen yet (hasDocument is false)
          Body,            \* contents of an rrweb event
          Bytes,           \* Bytes[b]: size of a delta that carries b
          NoEvent,         \* a null event
          MaxDeltaEvents,  \* maxDeltaEvents
          MaxDeltaBytes,   \* maxDeltaBytes
          RetryBase,       \* snapshotRetryMs
          RetryMax         \* snapshotRetryMaxMs

\* An rrweb event, and the document whose recorder emitted it.
Event == [doc : Doc, body : Body]

ASSUME HubConstants ==
  /\ NoDoc \notin Doc
  /\ Bytes \in [Body -> Nat]
  /\ NoEvent \notin Event
  /\ MaxDeltaEvents \in Nat
  /\ MaxDeltaBytes \in Nat
  /\ RetryBase \in Nat \ {0}
  /\ RetryMax \in Nat
  /\ RetryBase <= RetryMax

VARIABLES
  docId,        \* document that owns the stream, or NoDoc
  epoch, seq,   \* numbering of what was published
  meta, snapshot, snapshotSeq, deltas, deltaBytes,   \* canonical state
  nextMeta, pendingFullSnapshot,                     \* half-arrived pair
  rec,          \* the snapshot-request machine, see RecoveryInit
  unsettled,    \* attempts whose command promise is still unsettled
  idle,         \* trimIdleMs have passed since the last accepted input
  live          \* history: what a viewer that missed nothing holds

canonVars == <<docId, epoch, seq, meta, snapshot, snapshotSeq, deltas,
               deltaBytes, nextMeta, pendingFullSnapshot>>
hubVars   == <<canonVars, rec, unsettled, idle, live>>

------------------------------------------------------------------------------
(* Reasons for a snapshot, and the request machine. *)

NoReason == "none"
Reason   == {"trim", "resync", "viewport", "nav"}

Priority(r) == CASE r = "trim"     -> 0
                 [] r = "resync"   -> 1
                 [] r = "viewport" -> 2
                 [] r = "nav"      -> 3

StrongerReason(current, candidate) ==
  IF current = NoReason THEN candidate
  ELSE IF Priority(candidate) > Priority(current) THEN candidate ELSE current

NoTimer == 0
NoRetry == [doc |-> NoDoc, epoch |-> 0, reason |-> NoReason]

(* rec.timer is the attempt the armed request timer captured, rec.retry what
   the armed retry timer captured; NoTimer and NoRetry say they are not armed. *)
RecoveryInit ==
  [requested |-> FALSE, attempt |-> 0, timer |-> NoTimer,
   pending |-> NoReason, queued |-> NoReason,
   retry |-> NoRetry, delay |-> RetryBase, trim |-> FALSE]

ClearTrimTimer(r) == [r EXCEPT !.trim = FALSE]

\* Mutant: the captured attempt survives, so a stale failure can match it.
ClearSnapshotRequest_KeepsTimer(r) == [r EXCEPT !.requested = FALSE, !.attempt = @ + 1]

ClearSnapshotRequest(r) ==
  [r EXCEPT !.requested = FALSE, !.attempt = @ + 1, !.timer = NoTimer]

ClearSnapshotRetry(r, resetBackoff) ==
  [r EXCEPT !.retry = NoRetry, !.delay = IF resetBackoff THEN RetryBase ELSE @]

(* requestSnapshot(reason) while one is in flight: it only queues. *)
QueueReason(r, reason) ==
  [r EXCEPT !.queued = IF reason = r.pending THEN @ ELSE StrongerReason(@, reason)]

StartRequest(r, reason) ==
  [ClearSnapshotRetry(ClearTrimTimer(r), FALSE) EXCEPT
     !.pending = StrongerReason(@, reason),
     !.requested = TRUE,
     !.attempt = @ + 1,
     !.timer = r.attempt + 1]

RequestSnapshot(r, reason) ==
  IF r.requested THEN QueueReason(r, reason) ELSE StartRequest(r, reason)

(* The snapshot command a step from r to s sends: its promise is now pending. *)
CommandsSent(r, s) == IF s.timer # NoTimer /\ s.timer # r.timer THEN {s.timer} ELSE {}

NextDelay(delay) == IF delay >= (RetryMax + 1) \div 2 THEN RetryMax ELSE delay * 2

ScheduleSnapshotRetry(r, reason) ==
  [r EXCEPT !.retry = [doc |-> docId, epoch |-> epoch, reason |-> reason],
            !.delay = NextDelay(@)]

\* Mutant: only a navigation is retried.
RetriedReasons_NavOnly == {"nav"}

RetriedReasons == {"nav", "resync"}

FailSnapshotRequest(r, attempt) ==
  IF ~r.requested \/ attempt # r.attempt THEN r
  ELSE IF r.pending \in RetriedReasons
       THEN ScheduleSnapshotRetry(ClearSnapshotRequest(r), r.pending)
       ELSE ClearSnapshotRequest(r)

OverDeltaLimit(events, bytes) == events > MaxDeltaEvents \/ bytes > MaxDeltaBytes

(* maybeRequestTrimSnapshot() for a buffer of that size. *)
MaybeRequestTrim(r, events, bytes) ==
  IF ~OverDeltaLimit(events, bytes) \/ r.requested THEN r
  ELSE IF idle THEN RequestSnapshot(r, "trim") ELSE [r EXCEPT !.trim = TRUE]

------------------------------------------------------------------------------
(* The perfect viewer: the mirror's own acceptance rules (mirror.ts handle)
   applied to every message the hub publishes. *)

NoBase == <<NoEvent, NoEvent>>

\* Mutant: a delta is replayable as soon as its document has sent a Meta.
Replayable_MetaOnly == meta # NoEvent

\* No delta can be replayed until its document has a complete snapshot pair.
Replayable == meta # NoEvent /\ snapshot # NoEvent

Stream == INSTANCE HubStream WITH
  Base <- Event \X Event, Delta <- Event, NoBase <- NoBase,
  base <- IF snapshot = NoEvent THEN NoBase ELSE <<meta, snapshot>>,
  baseSeq <- snapshotSeq, tail <- deltas

HearSnapshot(v, m) ==
  IF m.epoch > v.epoch
  THEN [epoch |-> m.epoch, seq |-> m.seq, base |-> m.data, tail |-> <<>>]
  ELSE v

HearDelta(v, m) ==
  IF m.epoch = v.epoch /\ m.seq = v.seq + 1
  THEN [epoch |-> v.epoch, seq |-> v.seq + Len(m.data), base |-> v.base,
        tail |-> v.tail \o m.data]
  ELSE v

\* joinPayload()
JoinPayload == Stream!JoinPayload

\* What a viewer holds once it has replayed a join payload that has a snapshot.
Joined(p) ==
  LET s == [epoch |-> p[2].epoch, seq |-> p[2].seq, base |-> p[2].data, tail |-> <<>>]
  IN  IF Len(p) = 3 THEN HearDelta(s, p[3]) ELSE s

------------------------------------------------------------------------------
HubInit ==
  /\ docId = NoDoc
  /\ epoch = 0 /\ seq = 0
  /\ meta = NoEvent /\ snapshot = NoEvent /\ snapshotSeq = 0
  /\ deltas = <<>> /\ deltaBytes = 0
  /\ nextMeta = NoEvent /\ pendingFullSnapshot = NoEvent
  /\ rec = RecoveryInit
  /\ unsettled = {}
  /\ idle = TRUE
  /\ live = [epoch |-> 0, seq |-> 0, base |-> NoBase, tail |-> <<>>]

\* Mutant: the hub trusts AgentLink's own filter for stale documents.
FromCurrentDocument_Unchecked(e) == docId # NoDoc

\* "AgentLink normally enforces this boundary"; the hub checks it again.
FromCurrentDocument(e) == e.doc = docId

\* The request machine moves from rec to r, sending a command if it starts a request.
RecoverWith(r) ==
  /\ rec' = r
  /\ unsettled' = unsettled \cup CommandsSent(rec, r)

(* ingest(hello): whatever was asked for before, the new document's "nav" is. *)
HelloRecovery(r) ==
  RequestSnapshot(
    ClearSnapshotRequest(ClearSnapshotRetry(
      [r EXCEPT !.pending = NoReason, !.queued = NoReason, !.trim = FALSE], TRUE)),
    "nav")

(* ingest(hello): a new top-level document closes the old one's stream.  The
   hello of a child frame, or of the document already known, changes nothing. *)
IngestHello(d) ==
  /\ d # docId
  /\ docId' = d
  /\ meta' = NoEvent /\ snapshot' = NoEvent /\ snapshotSeq' = 0
  /\ deltas' = <<>> /\ deltaBytes' = 0
  /\ nextMeta' = NoEvent /\ pendingFullSnapshot' = NoEvent
  /\ RecoverWith(HelloRecovery(rec))
  /\ UNCHANGED <<epoch, seq, idle, live>>

(* openPendingSnapshot() once the pair <<m, f>> is complete: the next epoch
   opens, every recovery timer is cleared and a queued reason is asked for. *)
OpenedRecovery(r) ==
  LET settled == [ClearSnapshotRetry(ClearSnapshotRequest(ClearTrimTimer(r)), TRUE)
                    EXCEPT !.pending = NoReason, !.queued = NoReason]
  IN  IF r.queued = NoReason THEN settled ELSE RequestSnapshot(settled, r.queued)

OpenPendingSnapshot(m, f) ==
  /\ meta' = m /\ snapshot' = f
  /\ nextMeta' = NoEvent /\ pendingFullSnapshot' = NoEvent
  /\ deltas' = <<>> /\ deltaBytes' = 0
  /\ epoch' = epoch + 1
  /\ seq' = seq + 1
  /\ snapshotSeq' = seq + 1
  /\ RecoverWith(OpenedRecovery(rec))
  /\ live' = HearSnapshot(live, Stream!SnapshotMsg(epoch + 1, seq + 1, <<m, f>>))

HalfPair ==
  UNCHANGED <<epoch, seq, snapshot, snapshotSeq, deltas, deltaBytes, rec, unsettled, live>>

(* ingest(rrweb Meta). Events of another document are dropped, like below. *)
IngestMeta(e) ==
  /\ FromCurrentDocument(e)
  /\ \/ /\ pendingFullSnapshot # NoEvent
        /\ OpenPendingSnapshot(e, pendingFullSnapshot)
     \/ /\ pendingFullSnapshot = NoEvent
        /\ nextMeta' = e
        /\ meta' = IF snapshot = NoEvent THEN e ELSE meta
        /\ UNCHANGED pendingFullSnapshot
        /\ HalfPair
  /\ UNCHANGED <<docId, idle>>

\* The Meta a full snapshot is paired with, nextMeta ?? meta.
PairedMeta == IF nextMeta # NoEvent THEN nextMeta ELSE meta

(* ingest(rrweb FullSnapshot) *)
IngestFullSnapshot(e) ==
  /\ FromCurrentDocument(e)
  /\ \/ /\ PairedMeta # NoEvent
        /\ OpenPendingSnapshot(PairedMeta, e)
     \/ /\ PairedMeta = NoEvent
        /\ pendingFullSnapshot' = e
        /\ UNCHANGED <<meta, nextMeta>>
        /\ HalfPair
  /\ UNCHANGED <<docId, idle>>

\* Mutant: the buffer limit is not looked at when a delta is buffered.
TrimAfterDelta_Lazy(events, bytes) == rec

TrimAfterDelta(events, bytes) == MaybeRequestTrim(rec, events, bytes)

(* ingest(rrweb incremental): dropped until the document has its snapshot. *)
IngestIncremental(e) ==
  /\ FromCurrentDocument(e)
  /\ Replayable
  /\ seq' = seq + 1
  /\ deltas' = Append(deltas, e)
  /\ deltaBytes' = deltaBytes + Bytes[e.body]
  /\ RecoverWith(TrimAfterDelta(Len(deltas'), deltaBytes'))
  /\ live' = HearDelta(live, Stream!DeltaMsg(epoch, seq + 1, <<e>>))
  /\ UNCHANGED <<docId, epoch, meta, snapshot, snapshotSeq, nextMeta,
                 pendingFullSnapshot, idle>>

(* A resync-req of a viewer (main.ts) or a viewport change (viewport.ts). *)
RequestFromGateway(reason) ==
  /\ RecoverWith(RequestSnapshot(rec, reason))
  /\ UNCHANGED <<canonVars, idle, live>>

(* The request timer fires. *)
RequestTimeout ==
  /\ rec.timer # NoTimer
  /\ RecoverWith(FailSnapshotRequest(rec, rec.timer))
  /\ UNCHANGED <<canonVars, idle, live>>

(* The command's promise settles: the recorder's cmdres said ok, or it failed. *)
CommandResolved(a) ==
  /\ a \in unsettled
  /\ unsettled' = unsettled \ {a}
  /\ UNCHANGED <<canonVars, rec, idle, live>>

CommandRejected(a) ==
  /\ a \in unsettled
  /\ unsettled' = unsettled \ {a}
  /\ rec' = FailSnapshotRequest(rec, a)
  /\ UNCHANGED <<canonVars, idle, live>>

RetryFired(r) == [r EXCEPT !.retry = NoRetry]

(* The retry timer fires: it asks again unless the document or epoch moved on. *)
RetryTimerFires ==
  /\ rec.retry # NoRetry
  /\ LET fired == RetryFired(rec)
         stale == \/ docId = NoDoc
                  \/ rec.retry.doc # docId
                  \/ rec.retry.epoch # epoch
                  \/ rec.requested
     IN  RecoverWith(IF stale THEN fired ELSE RequestSnapshot(fired, rec.retry.reason))
  /\ UNCHANGED <<canonVars, idle, live>>

(* The trim timer fires: it asks for the trim, or waits again if input came. *)
TrimTimerFires ==
  /\ rec.trim
  /\ RecoverWith(MaybeRequestTrim(ClearTrimTimer(rec), Len(deltas), deltaBytes))
  /\ UNCHANGED <<canonVars, idle, live>>

(* noteInput(): the driver acted, trims wait for an idle moment. *)
NoteInput ==
  /\ idle' = FALSE
  /\ rec' = IF OverDeltaLimit(Len(deltas), deltaBytes) /\ ~rec.requested
            THEN [rec EXCEPT !.trim = TRUE] ELSE rec
  /\ UNCHANGED <<canonVars, unsettled, live>>

InputIdles ==
  /\ ~idle
  /\ idle' = TRUE
  /\ UNCHANGED <<canonVars, rec, unsettled, live>>

Ingest ==
  \/ \E d \in Doc : IngestHello(d)
  \/ \E e \in Event : IngestMeta(e) \/ IngestFullSnapshot(e) \/ IngestIncremental(e)

Timers == RequestTimeout \/ RetryTimerFires \/ TrimTimerFires

Settle == \E a \in unsettled : CommandResolved(a) \/ CommandRejected(a)

HubNext ==
  \/ Ingest
  \/ \E reason \in {"resync", "viewport"} : RequestFromGateway(reason)
  \/ Timers
  \/ Settle
  \/ NoteInput \/ InputIdles

HubSpec == HubInit /\ [][HubNext]_hubVars

------------------------------------------------------------------------------
(* Properties. *)

NoEventOr(S) == S \cup {NoEvent}

RetryCapture == [doc : Doc \cup {NoDoc}, epoch : Nat, reason : {"nav", "resync"}]

RecoveryType ==
  [requested : BOOLEAN, attempt : Nat, timer : Nat,
   pending : Reason \cup {NoReason}, queued : Reason \cup {NoReason},
   retry : RetryCapture \cup {NoRetry}, delay : Nat, trim : BOOLEAN]

LiveType ==
  [epoch : Nat, seq : Nat, base : (Event \X Event) \cup {NoBase}, tail : Seq(Event)]

TypeOK ==
  /\ docId \in Doc \cup {NoDoc}
  /\ epoch \in Nat /\ seq \in Nat /\ snapshotSeq \in Nat /\ deltaBytes \in Nat
  /\ meta \in NoEventOr(Event) /\ snapshot \in NoEventOr(Event)
  /\ nextMeta \in NoEventOr(Event) /\ pendingFullSnapshot \in NoEventOr(Event)
  /\ deltas \in Seq(Event)
  /\ rec \in RecoveryType
  /\ unsettled \in SUBSET Nat
  /\ idle \in BOOLEAN
  /\ live \in LiveType

(***************************************************************************)
(* A viewer that joins now and one that heard everything since the start   *)
(* hold the same replica: same epoch, same snapshot pair, same deltas and  *)
(* the same next sequence number.  joinPayload() and the live tail are two *)
(* renderings of one stream, through every reset of the buffer.            *)
(***************************************************************************)
JoinMatchesLive == snapshot # NoEvent => Joined(JoinPayload) = live

(***************************************************************************)
(* A new document's stream is never abandoned: until its first snapshot is *)
(* there (and only until then) the pending reason is "nav", and either a   *)
(* command is in flight under its request timer or the retry timer is      *)
(* armed.  tabhub.ts failSnapshotRequest() and scheduleSnapshotRetry().    *)
(***************************************************************************)
NavNeverAbandoned ==
  /\ rec.pending = "nav" <=> (docId # NoDoc /\ snapshot = NoEvent)
  /\ rec.pending = "nav" => rec.requested \/ rec.retry # NoRetry

(***************************************************************************)
(* The same holds of a resync a viewer asked for, once it is the pending   *)
(* reason: it is in flight or its retry is armed until an epoch opens.     *)
(***************************************************************************)
PendingResyncNeverAbandoned ==
  docId # NoDoc /\ rec.pending = "resync" => rec.requested \/ rec.retry # NoRetry

(***************************************************************************)
(* Both: a snapshot that a document or a viewer needs is never given up.   *)
(***************************************************************************)
SnapshotPursued == NavNeverAbandoned /\ PendingResyncNeverAbandoned

(***************************************************************************)
(* The retry delay stays between its base and its maximum through every    *)
(* doubling, also for a maximum that is odd or no multiple of the base.    *)
(***************************************************************************)
BackoffBounded == RetryBase <= rec.delay /\ rec.delay <= RetryMax

(***************************************************************************)
(* The three timers know each other.  A request in flight always has its   *)
(* timeout armed for the current attempt (an answer that never comes       *)
(* cannot block the tab), no timer outlives it, a retry is armed only      *)
(* between requests and for the document and epoch that still hold, and a  *)
(* trim only waits over the limit and between requests.  The state is well *)
(* formed, and the retry delay within its bounds.                          *)
(***************************************************************************)
TimersConsistent ==
  /\ TypeOK /\ BackoffBounded
  /\ rec.timer = IF rec.requested THEN rec.attempt ELSE NoTimer
  /\ rec.retry # NoRetry => /\ ~rec.requested
                            /\ rec.retry.doc = docId
                            /\ rec.retry.epoch = epoch
  /\ rec.trim => ~rec.requested /\ OverDeltaLimit(Len(deltas), deltaBytes)

(***************************************************************************)
(* Nothing that is held for replay belongs to a document that is gone.     *)
(***************************************************************************)
HeldByCurrentDocument ==
  /\ \A e \in {meta, snapshot, nextMeta, pendingFullSnapshot} :
       e # NoEvent => e.doc = docId
  /\ \A i \in 1..Len(deltas) : deltas[i].doc = docId

(***************************************************************************)
(* A step that leaves a longer buffer over its limit also leaves a request *)
(* in flight or a trim armed: the buffer never grows unpursued.            *)
(***************************************************************************)
GrowthIsPursued ==
  [][ /\ Len(deltas') > Len(deltas)
      /\ OverDeltaLimit(Len(deltas'), deltaBytes')
      => rec'.requested \/ rec'.trim ]_hubVars

(***************************************************************************)
(* What the comment at main.ts:335 says of a viewer's resync-req: "TabHub's *)
(* existing F3 retry chain keeps trying invisibly".  Once a resync is       *)
(* accepted, pending or queued, a request is in flight or a retry armed.    *)
(***************************************************************************)
ResyncRequestPursued ==
  docId # NoDoc /\ "resync" \in {rec.pending, rec.queued}
    => rec.requested \/ rec.retry # NoRetry

(***************************************************************************)
(* The hub implements the stream it promises: every step opens an epoch,   *)
(* appends one delta, closes the document, or publishes nothing.           *)
(***************************************************************************)
ImplementsStream == Stream!StreamSpec
==============================================================================
