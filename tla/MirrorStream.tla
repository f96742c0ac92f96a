----------------------------- MODULE MirrorStream -----------------------------
(***************************************************************************)
(* From the tab's hub to the viewers' screens: the hub's stream (HubStream)*)
(* through the fan-out's 30 ms batch (packages/gateway/src/ws/server.ts,   *)
(* class Fanout), one connection per viewer with its backpressure rule     *)
(* (viewerconn.ts, class ViewerConn), a socket that delays and may break,  *)
(* and the mirror that replays what arrives and asks for a resync when it  *)
(* cannot (packages/viewer/src/mirror.ts).                                 *)
(*                                                                         *)
(* An event is identified by the number the hub gave it, so a replica is   *)
(* right exactly when it is a snapshot and the numbers that follow it.     *)
(* bufferedAmount is the number of messages a socket still holds.  The     *)
(* viewer's rate limiter (resync.ts) may delay a request and forgets it    *)
(* when a snapshot arrives first; its storm limit is left out here.        *)
(***************************************************************************)
EXTENDS HubStream

CONSTANTS Viewer,     \* browsers that watch the tab
          StallLen,   \* STALL_BYTES, in messages
          ResumeLen,  \* RESUME_BYTES, in messages
          MaxSeq,     \* bound on the events of the stream
          MaxChurn    \* bound on the disturbances, see Disturb

ASSUME MirrorConstants ==
  /\ NoBase = 0      \* no event has this number
  /\ StallLen \in Nat /\ ResumeLen \in Nat \ {0}
  /\ MaxSeq \in Nat /\ MaxChurn \in Nat

VARIABLES
  asked,   \* the hub owes a fresh snapshot (a navigation or a resync-req)
  forgot,  \* history: it dropped the resync-reqs it owed one to
  shown,   \* the tab is the active one and in DOM mode: what it says is published
  batch,   \* Fanout.pending of the tab
  link,    \* per viewer, its ViewerConn and what its socket still holds
  up,      \* per viewer, the resync-reqs on their way to the gateway
  mirror,  \* per viewer, the Mirror
  wants,   \* per viewer, its resync controller holds an unsent request
  churn    \* disturbances so far

vars == <<streamVars, asked, forgot, shown, batch, link, up, mirror, wants, churn>>

NoBatch   == [t |-> "none"]
NoCursor  == [epoch |-> 0, nextSeq |-> 0]
NoReplica == [epoch |-> 0, lastSeq |-> 0, base |-> NoBase, tail |-> <<>>]

------------------------------------------------------------------------------
(* ViewerConn: what one connection does with a message. *)

AlreadyReplayed(l, m) ==
  /\ l.cursor # NoCursor
  /\ l.cursor.epoch = m.epoch
  /\ m.seq + Len(m.data) <= l.cursor.nextSeq

CursorAfter(m) ==
  CASE m.t = "snapshot" -> [epoch |-> m.epoch, nextSeq |-> m.seq + 1]
    [] m.t = "delta"    -> [epoch |-> m.epoch, nextSeq |-> m.seq + Len(m.data)]
    [] m.t = "resync"   -> NoCursor

Transmit(l, m) == [l EXCEPT !.down = Append(@, m), !.cursor = CursorAfter(m)]

Droppable(m) == m.t = "delta"

\* Mutant: a congested socket loses the delta but is not marked stalled.
Sent_DropsSilently(l, m) ==
  IF ~l.open \/ (Droppable(m) /\ (AlreadyReplayed(l, m) \/ l.stalled)) THEN l
  ELSE IF Droppable(m) /\ Len(l.down) > StallLen THEN l
  ELSE Transmit(l, m)

\* send(): deltas are dropped while the viewer is stalled, snapshots never are.
Sent(l, m) ==
  IF ~l.open \/ (Droppable(m) /\ AlreadyReplayed(l, m)) THEN l
  ELSE IF Droppable(m) /\ Len(l.down) > StallLen THEN [l EXCEPT !.stalled = TRUE]
  ELSE IF Droppable(m) /\ l.stalled THEN l
  ELSE Transmit(l, m)

\* sendJoinPayload(), of the hub as it now is
SendJoin(l) ==
  [l EXCEPT !.down = @ \o JoinPayload, !.cursor = CursorAfter(JoinPayload[Len(JoinPayload)])]

------------------------------------------------------------------------------
(* Fanout. *)

Broadcast(links, m) == [v \in Viewer |-> Sent(links[v], m)]

\* flushTab(): the pending batch, if any, goes to every viewer.
Flushed == IF batch = NoBatch THEN link ELSE Broadcast(link, batch)

ContinuesBatch(m) ==
  /\ batch # NoBatch
  /\ batch.epoch = m.epoch
  /\ m.seq = batch.seq + Len(batch.data)

\* publish(delta)
PublishDelta(m) ==
  IF ContinuesBatch(m)
  THEN batch' = [batch EXCEPT !.data = @ \o m.data] /\ UNCHANGED link
  ELSE batch' = m /\ link' = Flushed

\* publish() of anything else
PublishNow(m) == batch' = NoBatch /\ link' = Broadcast(Flushed, m)

------------------------------------------------------------------------------
(* Mirror: what a viewer does with a message.  A viewer's Mirror is
   [replica, waiting, known]: what it replays, resyncRequested, activeTab # null. *)

Accepts(mr, m) == mr.replica = NoReplica \/ m.epoch > mr.replica.epoch \/ mr.waiting

Rebuilt(m) ==
  [replica |-> [epoch |-> m.epoch, lastSeq |-> m.seq, base |-> m.data, tail |-> <<>>],
   waiting |-> FALSE, known |-> TRUE]

\* It waits for a snapshot from now on, whatever it holds.
Awaiting(mr) == [mr EXCEPT !.waiting = TRUE, !.known = TRUE]

\* The next delta that the replica can be extended with.
Continues(mr, m) ==
  /\ mr.replica # NoReplica
  /\ m.epoch = mr.replica.epoch
  /\ m.seq = mr.replica.lastSeq + 1

Replayed(mr, m) ==
  [mr EXCEPT !.replica.tail = @ \o m.data, !.replica.lastSeq = m.seq + Len(m.data) - 1]

\* Mutant: the event that throws is skipped and the rest of the batch applied.
ReplayBroken_Skips(mr, m, k) ==
  [mr EXCEPT !.replica.tail = @ \o SelectSeq(m.data, LAMBDA n : n # m.data[k]),
             !.replica.lastSeq = m.seq + Len(m.data) - 1]

\* Replayer.addEvent threw at the k-th event: the earlier ones are applied.
ReplayBroken(mr, m, k) ==
  [mr EXCEPT !.replica.tail = @ \o SubSeq(m.data, 1, k - 1), !.waiting = TRUE]

------------------------------------------------------------------------------
Closed == [open |-> FALSE, stalled |-> FALSE, cursor |-> NoCursor, down |-> <<>>]

Init ==
  /\ StreamInit
  /\ asked = TRUE      \* the hello of the first document was heard
  /\ forgot = FALSE
  /\ shown = TRUE
  /\ batch = NoBatch
  /\ link = [v \in Viewer |-> Closed]
  /\ up = [v \in Viewer |-> 0]
  /\ mirror = [v \in Viewer |-> [replica |-> NoReplica, waiting |-> FALSE, known |-> FALSE]]
  /\ wants = [v \in Viewer |-> FALSE]
  /\ churn = 0

\* What the environment does of its own accord, within the bound.
Disturb == churn < MaxChurn /\ churn' = churn + 1

Client == <<up, mirror, wants>>

(* The hub opens an epoch, because it was asked to or because the page took a
   full snapshot or the buffer was trimmed. *)
OpenNext ==
  /\ OpenEpoch(seq + 1)
  /\ asked' = FALSE
  /\ forgot' = FALSE
  /\ IF shown THEN PublishNow(SnapshotMsg(epoch + 1, seq + 1, seq + 1))
              ELSE UNCHANGED <<batch, link>>
  /\ UNCHANGED <<shown, Client>>

Answer   == asked /\ OpenNext /\ UNCHANGED churn
Checkout == base # NoBase /\ seq < MaxSeq /\ OpenNext /\ Disturb

(* A resync is queued behind a request for a trim or a new viewport, or was taken
   over by the latter, and that request fails: failSnapshotRequest() retries for a
   navigation and for a resync only, so what was asked for is dropped. *)
Forget ==
  /\ asked /\ base # NoBase
  /\ Disturb
  /\ asked' = FALSE
  /\ forgot' = TRUE
  /\ UNCHANGED <<streamVars, shown, batch, link, Client>>

Mutate ==
  /\ seq < MaxSeq
  /\ AppendDelta(seq + 1)
  /\ IF shown THEN PublishDelta(DeltaMsg(epoch, seq + 1, <<seq + 1>>))
              ELSE UNCHANGED <<batch, link>>
  /\ UNCHANGED <<asked, forgot, shown, Client, churn>>

\* A new document: its hello makes the hub ask for the first snapshot.
Navigate ==
  /\ Disturb
  /\ CloseDocument
  /\ asked' = TRUE
  /\ forgot' = FALSE
  /\ UNCHANGED <<shown, batch, link, Client>>

\* Another tab is activated, or the tab is switched to pixels.
Hide ==
  /\ shown
  /\ Disturb
  /\ shown' = FALSE
  /\ UNCHANGED <<streamVars, asked, forgot, batch, link, Client>>

(* publishCatchUp() (tabs.ts), or the end of px mode (px.ts): the join payload is
   published message by message; its delta starts a new batch. *)
Show ==
  /\ ~shown
  /\ shown' = TRUE
  /\ LET reset == Broadcast(Flushed, ResyncMsg) IN
     link' = IF base = NoBase THEN reset ELSE Broadcast(reset, JoinPayload[2])
  /\ batch' = IF Len(JoinPayload) = 3 THEN JoinPayload[3] ELSE NoBatch
  /\ UNCHANGED <<streamVars, asked, forgot, Client, churn>>

FlushTimer ==
  /\ batch # NoBatch
  /\ link' = Flushed
  /\ batch' = NoBatch
  /\ UNCHANGED <<streamVars, asked, forgot, shown, Client, churn>>

\* Mutant: the join payload is sent while a batch it already contains is pending.
LinksForJoin_Unflushed == link
BatchForJoin_Unflushed == batch

\* flushAll(), before a viewer is sent a join payload
LinksForJoin == Flushed
BatchForJoin == NoBatch

(* A viewer's socket opens: addViewer().  The viewer that opens again asks for a
   fresh snapshot on top of the join payload (connectionRestored()). *)
Connect(v) ==
  /\ ~link[v].open
  /\ link' = [LinksForJoin EXCEPT ![v] = SendJoin([Closed EXCEPT !.open = TRUE])]
  /\ batch' = BatchForJoin
  /\ mirror' = [mirror EXCEPT ![v].waiting = mirror[v].known]
  /\ wants' = [wants EXCEPT ![v] = @ \/ mirror[v].known]
  /\ UNCHANGED <<streamVars, asked, forgot, shown, up, churn>>

(* The socket breaks: removeViewer() at one end, connectionLost() at the other.
   What it held is lost, in both directions. *)
Disconnect(v) ==
  /\ link[v].open
  /\ Disturb
  /\ link' = [link EXCEPT ![v] = Closed]
  /\ up' = [up EXCEPT ![v] = 0]
  /\ mirror' = [mirror EXCEPT ![v].waiting = FALSE]
  /\ UNCHANGED <<streamVars, asked, forgot, shown, batch, wants>>

(* The drain timer of a stalled viewer finds its socket drained.  The viewer is
   still stalled while the batch is flushed, so it gets that batch only once. *)
Drained(v) ==
  /\ link[v].open /\ link[v].stalled
  /\ Len(link[v].down) < ResumeLen
  /\ link' = [LinksForJoin EXCEPT ![v] = SendJoin([@ EXCEPT !.stalled = FALSE])]
  /\ batch' = BatchForJoin
  /\ UNCHANGED <<streamVars, asked, forgot, shown, Client, churn>>

\* requestFreshSnapshot(): the controller is asked, once per wait.
Request(v) == wants' = [wants EXCEPT ![v] = TRUE]

HandleSnapshot(v, m) ==
  \/ /\ ~Accepts(mirror[v], m)
     /\ UNCHANGED <<mirror, wants, churn>>
  \/ /\ Accepts(mirror[v], m)
     /\ mirror' = [mirror EXCEPT ![v] = Rebuilt(m)]
     /\ wants' = [wants EXCEPT ![v] = FALSE]      \* recovered()
     /\ UNCHANGED churn
  \/ /\ Accepts(mirror[v], m)                     \* the replay of the snapshot throws
     /\ Disturb
     /\ mirror' = [mirror EXCEPT ![v] =
                     [replica |-> NoReplica, waiting |-> TRUE, known |-> TRUE]]
     /\ Request(v)

HandleDelta(v, m) ==
  \/ /\ mirror[v].waiting
     /\ UNCHANGED <<mirror, wants, churn>>
  \/ /\ ~mirror[v].waiting /\ ~Continues(mirror[v], m)
     /\ mirror' = [mirror EXCEPT ![v] = Awaiting(@)]
     /\ Request(v)
     /\ UNCHANGED churn
  \/ /\ ~mirror[v].waiting /\ Continues(mirror[v], m)
     /\ mirror' = [mirror EXCEPT ![v] = Replayed(@, m)]
     /\ UNCHANGED <<wants, churn>>
  \/ /\ ~mirror[v].waiting /\ Continues(mirror[v], m)
     /\ Disturb
     /\ \E k \in 1..Len(m.data) : mirror' = [mirror EXCEPT ![v] = ReplayBroken(@, m, k)]
     /\ Request(v)

HandleResync(v) ==
  /\ mirror' = [mirror EXCEPT ![v] = Awaiting(@)]
  /\ UNCHANGED <<wants, churn>>

\* The next message reaches the viewer: handle().
Deliver(v) ==
  /\ link[v].down # <<>>
  /\ link' = [link EXCEPT ![v].down = Tail(@)]
  /\ LET m == Head(link[v].down) IN
     \/ m.t = "snapshot" /\ HandleSnapshot(v, m)
     \/ m.t = "delta" /\ HandleDelta(v, m)
     \/ m.t = "resync" /\ HandleResync(v)
  /\ UNCHANGED <<streamVars, asked, forgot, shown, batch, up>>

\* The controller lets the request go; offline it waits in the socket's queue.
SendRequest(v) ==
  /\ wants[v]
  /\ wants' = [wants EXCEPT ![v] = FALSE]
  /\ up' = [up EXCEPT ![v] = @ + 1]
  /\ UNCHANGED <<streamVars, asked, forgot, shown, batch, link, mirror, churn>>

\* handleAuthorizedUp(resync-req), main.ts
ReceiveRequest(v) ==
  /\ link[v].open /\ up[v] > 0
  /\ up' = [up EXCEPT ![v] = @ - 1]
  /\ link' = Flushed
  /\ batch' = NoBatch
  /\ asked' = TRUE
  /\ forgot' = FALSE
  /\ UNCHANGED <<streamVars, shown, mirror, wants, churn>>

Next ==
  \/ Answer \/ Checkout \/ Forget \/ Mutate \/ Navigate \/ Hide \/ Show \/ FlushTimer
  \/ \E v \in Viewer :
       Connect(v) \/ Disconnect(v) \/ Drained(v) \/ Deliver(v)
         \/ SendRequest(v) \/ ReceiveRequest(v)

(* Timers fire, sockets deliver, a client reconnects (ws.ts retries every 500 ms),
   the hub answers what it has not forgotten (its page does, and it retries), and a
   hidden tab is shown again. *)
Fairness ==
  /\ WF_vars(Answer) /\ WF_vars(FlushTimer) /\ WF_vars(Show)
  /\ \A v \in Viewer :
       /\ WF_vars(Connect(v)) /\ WF_vars(Drained(v)) /\ WF_vars(Deliver(v))
       /\ WF_vars(SendRequest(v)) /\ WF_vars(ReceiveRequest(v))

Spec == Init /\ [][Next]_vars
FairSpec == Spec /\ Fairness

------------------------------------------------------------------------------
(* Properties. *)

Message ==
  [t : {"resync"}]
    \cup [t : {"snapshot"}, epoch : Nat, seq : Nat, data : Nat]
    \cup [t : {"delta"}, epoch : Nat, seq : Nat, data : Seq(Nat) \ {<<>>}]

TypeOK ==
  /\ epoch \in Nat /\ seq \in Nat /\ base \in Nat /\ baseSeq \in Nat /\ tail \in Seq(Nat)
  /\ asked \in BOOLEAN /\ forgot \in BOOLEAN /\ shown \in BOOLEAN
  /\ batch \in Message \cup {NoBatch}
  /\ link \in [Viewer -> [open : BOOLEAN, stalled : BOOLEAN,
                          cursor : [epoch : Nat, nextSeq : Nat], down : Seq(Message)]]
  /\ up \in [Viewer -> Nat]
  /\ mirror \in [Viewer -> [replica : [epoch : Nat, lastSeq : Nat, base : Nat, tail : Seq(Nat)],
                            waiting : BOOLEAN, known : BOOLEAN]]
  /\ wants \in [Viewer -> BOOLEAN]
  /\ churn \in Nat

(***************************************************************************)
(* What a connected viewer looks at is never corrupt: a mirror that is not *)
(* waiting for a snapshot holds one snapshot and exactly the events that   *)
(* followed it, up to the sequence number it believes it has reached;      *)
(* through stalls, joins, navigations, hidden tabs, broken sockets and     *)
(* replays that throw in the middle of a batch.  The state is well formed. *)
(***************************************************************************)
ReplicaContiguous ==
  TypeOK /\ \A v \in Viewer :
    LET r == mirror[v].replica IN
    link[v].open /\ ~mirror[v].waiting /\ r # NoReplica =>
      /\ r.lastSeq = r.base + Len(r.tail)
      /\ \A i \in 1..Len(r.tail) : r.tail[i] = r.base + i

(***************************************************************************)
(* The gateway never makes a healthy viewer ask: whatever was dropped      *)
(* for it while it was slow or absent, the delta that reaches a mirror     *)
(* that is not waiting is the next one of its replica's epoch.             *)
(***************************************************************************)
NoGapReachesMirror ==
  \A v \in Viewer :
    LET d == link[v].down IN
    d # <<>> /\ Head(d).t = "delta" /\ ~mirror[v].waiting => Continues(mirror[v], Head(d))

InStep(v) ==
  /\ ~mirror[v].waiting
  /\ mirror[v].replica = [epoch |-> epoch, lastSeq |-> seq, base |-> base, tail |-> tail]

(***************************************************************************)
(* When nothing is on its way to a viewer that is connected and not        *)
(* waiting, its replica is the hub's canonical state (or a navigation has  *)
(* yet to bring its first snapshot): no loss goes unnoticed.               *)
(***************************************************************************)
QuietMeansInStep ==
  \A v \in Viewer :
    /\ link[v].open /\ ~link[v].stalled /\ link[v].down = <<>>
    /\ mirror[v].known /\ ~mirror[v].waiting
    /\ batch = NoBatch /\ shown /\ base # NoBase
    => InStep(v)

(***************************************************************************)
(* A viewer never goes back to an earlier epoch of the page.               *)
(***************************************************************************)
EpochNeverGoesBack ==
  [][\A v \in Viewer :
       LET r == mirror[v].replica s == mirror'[v].replica IN
       r # NoReplica /\ s # NoReplica => s.epoch >= r.epoch]_vars

(***************************************************************************)
(* Once the page stops changing and the disturbances stop, every viewer    *)
(* ends up, for good, with the canonical state of the page.  Set apart is  *)
(* the viewer that waits for the answer to a resync the hub has dropped    *)
(* (Forget; TabHub shows how): it stays behind until the next epoch.       *)
(***************************************************************************)
EventuallyMirrored ==
  <>[](base # NoBase => \A v \in Viewer : InStep(v) \/ (forgot /\ mirror[v].waiting))
==============================================================================
