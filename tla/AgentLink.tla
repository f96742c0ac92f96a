------------------------------ MODULE AgentLink ------------------------------
(***************************************************************************)
(* One target's agent and the gateway's end of it (browser/agentlink.ts,    *)
(* browser/bridge.ts, browser/inject.ts; agent/src/emit.ts, commands.ts,    *)
(* index.ts; protocol/src/chunk.ts).                                        *)
(*                                                                          *)
(* The agent of every document says hello, records events and answers       *)
(* commands, in chunks that queue in the page until its isolated world is   *)
(* bound.  The gateway reassembles them, follows the newest document, takes *)
(* that document's bridge object over CDP, and sends commands through it.   *)
(* CDP is two FIFOs: `todo' towards Chromium and page.wire back.            *)
(***************************************************************************)
EXTENDS Integers, Sequences, FiniteSets, SequencesExt

CONSTANTS
  Call,        \* calls of sendCmd, each made once
  Snapshot,    \* those of them that ask for a snapshot
  Recent,      \* completed messages remembered: RECENT_COMPLETED_MESSAGES
  Reuse,       \* may Chromium reuse a numeric executionContextId?
  MaxDocs, MaxEvents, MaxOdd   \* bounds: documents, mutations, odd deliveries

ASSUME AgentLinkAssumption ==
  /\ Snapshot \subseteq Call
  /\ Recent \in Nat \ {0}
  /\ Reuse \in BOOLEAN
  /\ MaxDocs \in Nat \ {0} /\ MaxEvents \in Nat /\ MaxOdd \in Nat

VARIABLES
  page,   \* Chromium: the document in the target's main frame, and what it sent
  todo,   \* CDP calls on their way to Chromium
  link,   \* the gateway's TargetState, and the session's bridge channel
  call,   \* what has become of each sendCmd
  left    \* the bounds not used up yet

vars == <<page, todo, link, call, left>>

None == 0
Child == MaxDocs + 1       \* a same-process child frame: its document, its context
Doc == 1..MaxDocs

------------------------------------------------------------------------------
(* Messages and chunks. *)

Hello(d) == [k |-> "hello", doc |-> d, n |-> 0, for |-> {}]
Event(d, n, for) == [k |-> "rrweb", doc |-> d, n |-> n, for |-> for]
Result(d, req, ok, for) == [k |-> "cmdres", doc |-> d, n |-> req, for |-> for, ok |-> ok]

\* Only snapshots are longer than CHUNK_SLICE_CHARS.
Slices(m) == IF m.k = "rrweb" /\ m.for # {} THEN 2 ELSE 1

\* encodeChunks()
EncodeChunks(ctx, id, m) ==
  [i \in 1..Slices(m) |->
     [k |-> "chunk", ctx |-> ctx, doc |-> m.doc, id |-> id, idx |-> i, total |-> Slices(m),
      msg |-> m]]

\* ChunkReassembler.add(): what it keeps, and the message it completes, if any.
Incomplete(re) == [re |-> re, done |-> FALSE]
Completed(re, key) ==
  [re |-> [completed |-> LET o == Append(re.completed, key)
                         IN IF Len(o) <= Recent THEN o ELSE Tail(o),
           partial |-> {p \in re.partial : p.key # key}],
   done |-> TRUE]

Add(re, f) ==
  LET key == <<f.doc, f.id>>
      had == UNION {p.idx : p \in {q \in re.partial : q.key = key}}
      now == had \cup {f.idx}
  IN IF Contains(re.completed, key) THEN Incomplete(re)
     ELSE IF Cardinality(now) = f.total THEN Completed(re, key)
     ELSE Incomplete([re EXCEPT !.partial = {p \in @ : p.key # key}
                                              \cup {[key |-> key, idx |-> now]}])

------------------------------------------------------------------------------
(* The agent. *)

\* Mutant: once the binding is there, a message overtakes the queued ones.
Emit_Overtakes(p, m) ==
  LET chunks == EncodeChunks(p.ctx, p.next, m)
      q == [p EXCEPT !.next = @ + 1]
  IN IF p.ready THEN [q EXCEPT !.wire = @ \o chunks]
     ELSE [q EXCEPT !.queue = @ \o chunks]

\* send(): straight to the binding, or into the queue while there is one
Emit(p, m) ==
  LET chunks == EncodeChunks(p.ctx, p.next, m)
      q == [p EXCEPT !.next = @ + 1]
  IN IF p.ready /\ p.queue = <<>> THEN [q EXCEPT !.wire = @ \o chunks]
     ELSE [q EXCEPT !.queue = @ \o chunks]

EmitEvent(p, for) == Emit([p EXCEPT !.events = @ + 1], Event(p.doc, p.events + 1, for))
Answer(p, c, ok) == Emit(p, Result(p.doc, c.req, ok, {c.n}))

\* Mutant: the answer first.
EmitSnapshot_AnswersFirst(p, c, ok) ==
  IF ok THEN EmitEvent(Answer(p, c, TRUE), {c.n}) ELSE Answer(p, c, FALSE)

\* emitSnapshot(): the snapshot's event, then the answer; `ok' is FALSE when
\* takeFullSnapshot throws.
EmitSnapshot(p, c, ok) == IF ok THEN Answer(EmitEvent(p, {c.n}), c, TRUE) ELSE Answer(p, c, FALSE)

\* The agent starts in a document: hello, before recording has started.
Loaded(p, d, ctx) ==
  Emit([p EXCEPT !.doc = d, !.ctx = ctx, !.held = TRUE, !.ready = FALSE, !.queue = <<>>,
                 !.next = 0, !.events = 0, !.recording = FALSE, !.waiting = <<>>],
       Hello(d))

\* createCommandHandler(), for the two commands there are here: `snapshot', and
\* any other, which is answered at once
Handle(p, c, ok) ==
  IF c.n \notin Snapshot THEN Answer(p, c, TRUE)
  ELSE IF p.recording THEN EmitSnapshot(p, c, ok)
  ELSE [p EXCEPT !.waiting = Append(@, c)]

------------------------------------------------------------------------------
(* The gateway. *)

FreshLink(s) ==
  [session |-> s, attached |-> TRUE, docId |-> None, seen |-> {}, cleaned |-> {},
   bridgeReady |-> None, acq |-> <<>>, object |-> None, nextReq |-> 1, pending |-> {},
   re |-> [completed |-> <<>>, partial |-> {}], stream |-> <<>>]

Idle == [st |-> "idle", session |-> None, on |-> None, ok |-> FALSE, for |-> {}]
Live(n) == link.attached /\ call[n].session = link.session
Pending(l) == {p.n : p \in l.pending}
Settle(calls, ns, how) == [n \in Call |-> IF n \in ns THEN [Idle EXCEPT !.st = how] ELSE calls[n]]

\* Mutant: navigation clears the pending commands without rejecting them.
RejectPending_Forgets(l) == link' = [l EXCEPT !.pending = {}] /\ UNCHANGED call

\* rejectPending()
RejectPending(l) == /\ link' = [l EXCEPT !.pending = {}]
                    /\ call' = Settle(call, Pending(l), "failed")

\* Mutant: a late hello rolls the target back.
AcceptsHello_Late(l, m) == m.doc # l.docId /\ m.doc # Child

\* A hello that replaces the canonical document.
AcceptsHello(l, m) == m.doc # l.docId /\ m.doc \notin l.seen /\ m.doc # Child

\* The bridge of a document's context is acquired once.
Acquire(l, f) ==
  LET key == <<f.ctx, f.msg.doc>>
  IN IF key \in l.cleaned THEN l
     ELSE [l EXCEPT !.cleaned = @ \cup {key}, !.acq = Append(@, "waiting"),
                    !.bridgeReady = IF f.msg.doc = Child THEN @ ELSE Len(l.acq) + 1]

ReceiveHello(l, f) ==
  LET a == Acquire(l, f)
      b == [a EXCEPT !.docId = f.msg.doc, !.seen = @ \cup {f.msg.doc},
                     !.stream = Append(@, f.msg)]
  IN /\ todo' = IF a = l THEN todo
                ELSE Append(todo, [k |-> "acquire", ctx |-> f.ctx, p |-> Len(a.acq),
                                   retain |-> f.msg.doc # Child])
     /\ IF AcceptsHello(l, f.msg) THEN RejectPending(b) ELSE link' = a /\ UNCHANGED call

\* What one of the canonical document's rrweb messages does
Streamed(l, f) ==
  IF f.msg.doc = l.docId THEN [l EXCEPT !.stream = Append(@, f.msg)] ELSE l

ReceiveResult(l, f) ==
  LET hit == {p \in l.pending : f.doc = l.docId /\ p.req = f.msg.n /\ p.docId = l.docId}
  IN /\ link' = [l EXCEPT !.pending = @ \ hit]
     /\ call' = [n \in Call |->
                   IF \E p \in hit : p.n = n
                   THEN [call[n] EXCEPT !.st = "answered", !.ok = f.msg.ok, !.for = f.msg.for]
                   ELSE call[n]]

\* acquireAgentBridge(), once Chromium has answered: the new object replaces the
\* old one, and only when that is released is the promise resolved.
ReceiveAcquired(l, f) ==
  IF ~f.ok THEN /\ link' = [l EXCEPT !.acq[f.p] = "failed"]
                /\ UNCHANGED todo
  ELSE IF ~f.retain THEN link' = [l EXCEPT !.acq[f.p] = "done"] /\ UNCHANGED todo
  ELSE IF l.object = None
  THEN link' = [l EXCEPT !.object = f.object, !.acq[f.p] = "done"] /\ UNCHANGED todo
  ELSE /\ link' = [l EXCEPT !.object = f.object]
       /\ todo' = Append(todo, [k |-> "release", p |-> f.p])

\* callAgentBridge() rejected
ReceiveRefused(l, f) ==
  LET hit == {p \in l.pending : p.req = f.req}
  IN /\ link' = [l EXCEPT !.pending = @ \ hit]
     /\ call' = Settle(call, {p.n : p \in hit}, "failed")

\* Runtime.bindingCalled
ReceiveChunk(f) ==
  LET a == Add(link.re, f)
      l == [link EXCEPT !.re = a.re]
  IN CASE ~a.done -> link' = l /\ UNCHANGED <<todo, call>>
       [] a.done /\ f.msg.k = "hello" -> ReceiveHello(l, f)
       [] a.done /\ f.msg.k = "rrweb" -> link' = Streamed(l, f) /\ UNCHANGED <<todo, call>>
       [] a.done /\ f.msg.k = "cmdres" -> ReceiveResult(l, f) /\ UNCHANGED todo

\* A binding call, or the answer to a CDP call
Receives(f) ==
  CASE f.k = "chunk" -> ReceiveChunk(f)
    [] f.k = "acquired" -> ReceiveAcquired(link, f) /\ UNCHANGED call
    [] f.k = "released" -> /\ link' = [link EXCEPT !.acq[f.p] = "done"]
                           /\ UNCHANGED <<todo, call>>
    [] f.k = "refused" -> ReceiveRefused(link, f) /\ UNCHANGED todo

------------------------------------------------------------------------------
NoPage == [doc |-> None, ctx |-> None, held |-> FALSE, ready |-> FALSE, queue |-> <<>>,
           next |-> 0, events |-> 0, recording |-> FALSE, waiting |-> <<>>, wire |-> <<>>]

Init ==
  /\ page = Loaded(NoPage, 1, 1)
  /\ todo = <<>>
  /\ link = FreshLink(1)
  /\ call = [n \in Call |-> Idle]
  /\ left = [events |-> MaxEvents, odd |-> MaxOdd]

Odd == left.odd > 0 /\ left' = [left EXCEPT !.odd = @ - 1]

(* The page. *)

\* No task of the page runs between the start of the recorder and the commands it
\* wakes, which are microtasks.
PageIdle == page.recording => page.waiting = <<>>

\* The frame commits another document; frames of the old one still arrive.
Navigate ==
  /\ link.attached /\ PageIdle /\ page.doc < MaxDocs
  /\ \E ctx \in {page.doc + 1} \cup (IF Reuse THEN {page.ctx} ELSE {}) :
       page' = Loaded(page, page.doc + 1, ctx)
  /\ UNCHANGED <<todo, link, call, left>>

\* bindIsolatedBridgeWorld(): the binding is there and announceReady() says so.
BindWorld ==
  /\ link.attached /\ PageIdle /\ ~page.ready
  /\ page' = [page EXCEPT !.ready = TRUE]
  /\ UNCHANGED <<todo, link, call, left>>

\* flushLater()
Flush ==
  /\ link.attached /\ PageIdle /\ page.ready /\ page.queue # <<>>
  /\ page' = [page EXCEPT !.wire = @ \o page.queue, !.queue = <<>>]
  /\ UNCHANGED <<todo, link, call, left>>

\* record() starts: markStarted() and the initial snapshot.
StartRecording ==
  /\ link.attached /\ ~page.recording
  /\ page' = EmitEvent([page EXCEPT !.recording = TRUE], {None})
  /\ UNCHANGED <<todo, link, call, left>>

\* A command that waited for the start resumes, in the order they came.
ResumeSnapshot ==
  /\ link.attached /\ ~PageIdle
  /\ \E ok \in BOOLEAN :
       page' = EmitSnapshot([page EXCEPT !.waiting = Tail(@)], Head(page.waiting), ok)
  /\ UNCHANGED <<todo, link, call, left>>

\* waitUntilStarted() gives up.
SnapshotTimeout ==
  /\ link.attached /\ page.waiting # <<>> /\ PageIdle
  /\ page' = Answer([page EXCEPT !.waiting = Tail(@)], Head(page.waiting), FALSE)
  /\ UNCHANGED <<todo, link, call, left>>

\* The page changes.
Mutate ==
  /\ link.attached /\ PageIdle /\ page.recording /\ left.events > 0
  /\ page' = EmitEvent(page, {})
  /\ left' = [left EXCEPT !.events = @ - 1]
  /\ UNCHANGED <<todo, link, call>>

\* A same-process child frame loads.
ChildFrame ==
  /\ link.attached /\ PageIdle /\ page.ready /\ Odd
  /\ page' = [page EXCEPT !.wire = @ \o EncodeChunks(Child, 0, Hello(Child))]
  /\ UNCHANGED <<todo, link, call>>

\* What Chromium does with a CDP call.
Performed(c, ok) ==
  CASE c.k = "acquire" ->
         LET found == c.ctx = Child \/ (c.ctx = page.ctx /\ page.held)
         IN [page EXCEPT !.held = @ /\ c.ctx # page.ctx,
                         !.wire = Append(@, [k |-> "acquired", p |-> c.p, ok |-> found,
                                             retain |-> c.retain, object |-> page.doc])]
    [] c.k = "release" -> [page EXCEPT !.wire = Append(@, [k |-> "released", p |-> c.p])]
    [] c.k = "call" -> IF c.object = page.doc THEN Handle(page, c, ok)
                       ELSE [page EXCEPT !.wire = Append(@, [k |-> "refused", req |-> c.req])]

Perform ==
  /\ link.attached /\ PageIdle /\ todo # <<>>
  /\ \E ok \in BOOLEAN : page' = Performed(Head(todo), ok)
  /\ todo' = Tail(todo)
  /\ UNCHANGED <<link, call, left>>

(* The gateway. *)

AfterHead == page' = [page EXCEPT !.wire = Tail(@)]

Receive ==
  /\ link.attached /\ page.wire # <<>>
  /\ Receives(Head(page.wire)) /\ AfterHead
  /\ UNCHANGED left

\* A binding call that is delivered twice.
ReceiveTwice ==
  /\ link.attached /\ page.wire # <<>> /\ Head(page.wire).k = "chunk" /\ Odd
  /\ Receives(Head(page.wire))
  /\ UNCHANGED page

\* The hello of an earlier document, again.
LateHello ==
  /\ link.attached /\ Odd
  /\ \E key \in link.cleaned :
       Receives(EncodeChunks(key[1], 0, Hello(key[2]))[1])
  /\ UNCHANGED page

(* sendCmd(). *)

\* up to `await state.bridgeReady'
SendCmd(n) ==
  /\ call[n].st = "idle"
  /\ call' = IF link.attached /\ link.docId # None
             THEN [call EXCEPT ![n] = [@ EXCEPT !.st = "awaiting", !.session = link.session,
                                                !.on = link.bridgeReady]]
             ELSE Settle(call, {n}, "failed")
  /\ UNCHANGED <<page, todo, link, left>>

\* Mutant: the numbers of settled commands are used again.
RequestId_Recycled(l) == Cardinality(l.pending) + 1

\* state.nextReqId++
RequestId(l) == l.nextReq

\* The bridge is there: the command is registered and sent.
Command(n) ==
  LET req == RequestId(link)
  IN /\ link' = [link EXCEPT !.nextReq = @ + 1,
                             !.pending = @ \cup {[n |-> n, req |-> req, docId |-> link.docId]}]
     /\ todo' = Append(todo, [k |-> "call", object |-> link.object, req |-> req, n |-> n])
     /\ call' = [call EXCEPT ![n].st = "sent"]

\* The promise a call awaits; a session that is gone rejects it.
BridgeOf(n) == IF Live(n) THEN link.acq[call[n].on] ELSE "failed"

\* The await is over.
BridgeAwaited(n) ==
  /\ call[n].st = "awaiting"
  /\ \/ /\ BridgeOf(n) = "failed"
        /\ call' = Settle(call, {n}, "failed")
        /\ UNCHANGED <<todo, link>>
     \/ /\ BridgeOf(n) = "done"
        /\ Command(n)
  /\ UNCHANGED <<page, left>>

\* COMMAND_TIMEOUT_MS
CommandTimeout(n) ==
  /\ Live(n) /\ call[n].st = "sent"
  /\ link' = [link EXCEPT !.pending = {p \in @ : p.n # n}]
  /\ call' = Settle(call, {n}, "failed")
  /\ UNCHANGED <<page, todo, left>>

\* closeState()
Closed(l) == /\ RejectPending([l EXCEPT !.attached = FALSE])
             /\ todo' = <<>> /\ page' = [page EXCEPT !.wire = <<>>]

\* onDetached; or injectAgent() failed, before the world was bound
Detach ==
  /\ link.attached /\ Odd
  /\ Closed(link)

\* onAttached, of a new session for this target, where the old one may not have
\* been seen to detach: its agent is a new one, with a document number of its own.
Attach ==
  /\ page.doc < MaxDocs /\ Odd
  /\ link' = FreshLink(link.session + 1)
  /\ call' = Settle(call, Pending(link), "failed")
  /\ todo' = <<>>
  /\ page' = Loaded([page EXCEPT !.wire = <<>>], page.doc + 1, page.doc + 1)

------------------------------------------------------------------------------
Next ==
  \/ Navigate \/ BindWorld \/ Flush \/ StartRecording \/ ResumeSnapshot
  \/ SnapshotTimeout \/ Mutate \/ ChildFrame \/ Perform \/ Receive \/ ReceiveTwice \/ LateHello \/ Detach \/ Attach
  \/ \E n \in Call : SendCmd(n) \/ BridgeAwaited(n) \/ CommandTimeout(n)

Spec == Init /\ [][Next]_vars

------------------------------------------------------------------------------
(* Properties. *)

\* The state is well formed; every pending command belongs to one call that is
\* waiting for it, and to the canonical document.
TypeOK ==
  /\ page.doc \in Doc /\ page.ctx \in Doc /\ page.held \in BOOLEAN /\ page.ready \in BOOLEAN
  /\ link.docId \in {None} \cup Doc /\ link.docId <= page.doc
  /\ link.bridgeReady \in 0..Len(link.acq)
  /\ \A i \in 1..Len(link.acq) : link.acq[i] \in {"waiting", "done", "failed"}
  /\ Len(link.re.completed) <= Recent
  /\ \A n \in Call : call[n].st \in {"idle", "awaiting", "sent", "answered", "failed"}
  /\ \A p \in link.pending : p.docId = link.docId /\ call[p.n].st = "sent"
  /\ left.events \in 0..MaxEvents /\ left.odd \in 0..MaxOdd

\* What the hub reads is, document by document and never back to an earlier one,
\* an unbroken run of what that document's agent recorded: hello first, then every
\* event once, whatever was queued, split, duplicated or late.
\* (agentlink.ts:163-211, emit.ts, chunk.ts)
StreamFaithful ==
  LET s == link.stream
  IN /\ s # <<>> => s[1].n = 0
     /\ \A i \in 1..(Len(s) - 1) :
          \/ s[i + 1].doc = s[i].doc /\ s[i + 1].n = s[i].n + 1
          \/ s[i + 1].doc > s[i].doc /\ s[i + 1].n = 0

\* The answer a call gets is the answer to that call, although answers come late,
\* after a timeout, a navigation or a new session (agentlink.ts:214-225).
AnswersMatch == \A n \in Call : call[n].st = "answered" => call[n].for = {n}

\* A snapshot command that was answered `ok' has its snapshot in the stream by
\* then: the hub never waits for one that is not coming (commands.ts:196-205).
SnapshotBeforeAnswer ==
  \A n \in Snapshot :
    call[n].st = "answered" /\ call[n].ok /\ Live(n) =>
      \E i \in 1..Len(link.stream) : n \in link.stream[i].for

\* No command is forgotten, whatever navigates or detaches: one that waits for the
\* bridge has an acquisition under way or settled, and one that was sent is still
\* registered, with its timer, in the session it was sent in (agentlink.ts:106-122,
\* 280-307: "pending cmd promises must reject when docId changes, not hang").  The
\* state is well formed.
NoCommandForgotten ==
  TypeOK /\ \A n \in Call :
    /\ call[n].st = "awaiting" /\ BridgeOf(n) = "waiting" =>
         \E c \in Range(todo) \cup Range(page.wire) :
           c.k \in {"acquire", "acquired", "release", "released"} /\ c.p = call[n].on
    /\ call[n].st = "sent" => Live(n) /\ n \in Pending(link)

\* When nothing is on its way the link follows the document that is on the page,
\* however late an earlier document's hello was (agentlink.ts:195-202).
FollowsPage ==
  link.attached /\ page.ready /\ page.queue = <<>> /\ page.wire = <<>> => link.docId = page.doc
==============================================================================
