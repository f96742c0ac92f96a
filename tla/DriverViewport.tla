---------------------------- MODULE DriverViewport ----------------------------
(***************************************************************************)
(* Who drives a tab, and at what geometry.  One driver per session, moved  *)
(* by transfer and by disconnection (packages/gateway/src/ws/roles.ts), and *)
(* the viewport agreement that locks the driver's input from its `view`    *)
(* until it has acknowledged a snapshot taken at that size                 *)
(* (packages/gateway/src/hub/viewport.ts: ViewportInputGate and            *)
(* createViewportAgreement), for one tab, with the driver's side of the    *)
(* protocol (packages/viewer/src/app.tsx).                                 *)
(*                                                                         *)
(* Chromium is one FIFO: what its page emits and the answers to CDP        *)
(* commands arrive in the order they happened.  Of the tab's hub only what *)
(* the agreement sees is kept: it owes a snapshot for the reason           *)
(* "viewport", it may put others before it, and it may forget (a failed    *)
(* request, a navigation).  A connection gets a fresh id when its socket   *)
(* opens; since closing it erases all that was kept under the old one, a   *)
(* viewer keeps its name here.  The retry timer of a snapshot is armed     *)
(* exactly while the snapshot is in flight and has no variable.            *)
(***************************************************************************)
EXTENDS Integers, SequencesExt

CONSTANTS Viewer,        \* browsers, each with at most one connection
          NoViewer,      \* nobody drives
          DriverInvite,  \* those whose invitation is for a driver
          Size,          \* viewport dimensions
          NoSize,        \* no viewport is known
          Native,        \* the size Chromium starts with
          Window,        \* the size each viewer's window starts with
          MaxEpoch,      \* bound on the epochs opened while the tab is not shown
          Budgets        \* bounds on the disturbances, see Churn and Fault

ASSUME ViewportConstants ==
  /\ NoViewer \notin Viewer /\ DriverInvite \subseteq Viewer
  /\ NoSize \notin Size /\ Native \in Size /\ Window \in [Viewer -> Size]
  /\ MaxEpoch \in Nat /\ Budgets \subseteq [churn : Nat, faults : Nat]

VARIABLES
  peers,    \* RoleSession.peers, in the order they connected
  driver,   \* RoleSession.driverId, or NoViewer
  latest,   \* Peer.latestViewport
  nego,     \* the tab's TabNegotiation
  gate,     \* the tab's part of the ViewportInputGate
  metrics,  \* the device metrics Chromium applies
  todo,     \* a setDeviceMetricsOverride is on its way to Chromium
  wire,     \* what Chromium has sent and the gateway not yet handled
  hub,      \* [epoch, held, owes]: epoch, size of its snapshot, see above
  shown,    \* the hub's output is published (active tab, DOM mode)
  up,       \* per viewer, messages on their way to the gateway
  down,     \* per viewer, messages on their way to it
  client,   \* per viewer, what its app knows, see ClientInit
  left      \* disturbances still to come

roleVars == <<peers, driver, latest>>
pageVars == <<metrics, todo, wire>>
vars == <<roleVars, nego, gate, pageVars, hub, shown, up, down, client, left>>

NoRevision == [rev |-> 0, size |-> NoSize]

\* app.tsx: its window, whether it believes to drive, an armed resize timer (kept only
\* while it does: fired earlier it does nothing, and driving arms it anew), the geometry
\* of the replay on screen, and (history) the last viewport epoch whose replay failed.
ClientInit(v) ==
  [window |-> Window[v], believes |-> FALSE, wants |-> FALSE, displays |-> NoSize, missed |-> 0]

Init ==
  /\ peers = <<>> /\ driver = NoViewer /\ latest = [v \in Viewer |-> NoSize]
  /\ nego = [desired |-> NoRevision, applied |-> 0, applying |-> NoRevision,
             inFlight |-> FALSE, debounce |-> FALSE]
  /\ gate = [pending |-> FALSE, required |-> 0, acked |-> [v \in Viewer |-> 0]]
  /\ metrics = Native /\ todo = FALSE /\ wire = <<>>
  /\ hub = [epoch |-> 0, held |-> NoSize, owes |-> FALSE]
  /\ shown = TRUE
  /\ up = [v \in Viewer |-> <<>>] /\ down = [v \in Viewer |-> <<>>]
  /\ client = [v \in Viewer |-> ClientInit(v)]
  /\ left \in Budgets

\* What users do of their own accord, what goes wrong, and everything else.
Churn == left.churn > 0 /\ left' = [left EXCEPT !.churn = @ - 1]
Fault == left.faults > 0 /\ left' = [left EXCEPT !.faults = @ - 1]
Calm  == UNCHANGED left

------------------------------------------------------------------------------
(* ViewportInputGate *)

NoteEpoch(g, e) == [g EXCEPT !.required = e, !.pending = FALSE]

Acknowledgeable(e) == ~gate.pending /\ gate.required = e

Acknowledge(v, e) == IF Acknowledgeable(e) THEN [gate EXCEPT !.acked[v] = e] ELSE gate

AllowsInput(v) == ~gate.pending /\ gate.required # 0 /\ gate.acked[v] = gate.required

(* createViewportAgreement *)

Busy(n) == n.inFlight \/ n.applying # NoRevision

ScheduleApply(n) == [n EXCEPT !.debounce = @ \/ ~Busy(n)]

\* Mutant: the lock waits for the override to be applied.
LockedByView_Late(g) == g

LockedByView(g) == [g EXCEPT !.pending = TRUE]

\* handle(view): the newest size is wanted, input is locked, the debounce starts.
View(s) ==
  /\ nego' = ScheduleApply([nego EXCEPT !.desired = [rev |-> @.rev + 1, size |-> s]])
  /\ gate' = LockedByView(gate)

\* handle(view) for what a peer last said, if it said anything
ViewAgain(s) == IF s = NoSize THEN UNCHANGED <<nego, gate>> ELSE View(s)

\* Mutant: any viewport snapshot settles the agreement.
Superseded_Never == FALSE

Superseded == nego.desired.rev > nego.applied \/ nego.applying # NoRevision

\* noteSnapshot() of a snapshot that is about to be published
NoteSnapshot(reason, e) ==
  LET settled == [nego EXCEPT !.inFlight = FALSE] IN
  IF reason # "viewport" THEN UNCHANGED <<nego, gate>>
  ELSE IF Superseded THEN nego' = ScheduleApply(settled) /\ UNCHANGED gate
  ELSE nego' = settled /\ gate' = NoteEpoch(gate, e)

------------------------------------------------------------------------------
(* Messages to the viewers. *)

HelloMsg(d)     == [t |-> "hello", driver |-> d]
DriverMsg(d)    == [t |-> "driver", driver |-> d]
ShotMsg(e, r, s) == [t |-> "snapshot", epoch |-> e, reason |-> r, size |-> s]

Tell(ps, m) == [v \in Viewer |-> IF v \in ToSet(ps) THEN Append(down[v], m) ELSE down[v]]

\* broadcastDriver(), when somebody drives
TellDriver(ps, d) == IF d = NoViewer THEN down ELSE Tell(ps, DriverMsg(d))

\* What a viewer's app reports.
ViewMsg(v) == [t |-> "view", size |-> client[v].window]

Canonical == ShotMsg(hub.epoch, "resync", hub.held)
Join == IF hub.held = NoSize THEN <<>> ELSE <<Canonical>>

------------------------------------------------------------------------------
(* Roles. *)

(* A socket opens.  The app that opens it again reports its viewport at once if
   it believes it drives, before whatever waited for the connection. *)
Connect(v) ==
  /\ v \notin ToSet(peers)
  /\ peers' = Append(peers, v)
  /\ driver' = IF driver = NoViewer /\ v \in DriverInvite THEN v ELSE driver
  /\ down' = [TellDriver(peers, driver') EXCEPT ![v] = <<HelloMsg(driver')>> \o Join]
  /\ up' = [up EXCEPT ![v] = IF client[v].believes THEN <<ViewMsg(v)>> \o @ ELSE @]
  /\ client' = [client EXCEPT ![v].wants = FALSE]
  /\ UNCHANGED <<latest, nego, gate, pageVars, hub, shown, left>>

\* removeViewer()
Forgotten(g, v) == [g EXCEPT !.acked[v] = 0]

\* Mutant: nobody takes over.
Replacement_None(ps) == NoViewer

\* Who drives after the driver has left these peers: the first one that may.
Replacement(ps) ==
  LET first == SelectInSeq(ps, LAMBDA p : p \in DriverInvite)
  IN  IF first = 0 THEN NoViewer ELSE ps[first]

Remaining(v) == RemoveFirst(peers, v)

(* A socket closes: what it carried is lost, and a new driver is found. *)
Disconnect(v) ==
  /\ v \in ToSet(peers)
  /\ Churn
  /\ peers' = Remaining(v)
  /\ latest' = [latest EXCEPT ![v] = NoSize]
  /\ driver' = IF driver = v THEN Replacement(Remaining(v)) ELSE driver
  /\ LET again == IF driver' = driver \/ driver' = NoViewer THEN NoSize ELSE latest[driver'] IN
     IF again = NoSize THEN gate' = Forgotten(gate, v) /\ UNCHANGED nego
     ELSE /\ nego' = ScheduleApply([nego EXCEPT !.desired = [rev |-> @.rev + 1, size |-> again]])
          /\ gate' = LockedByView(Forgotten(gate, v))
  /\ down' = [TellDriver(peers', driver') EXCEPT ![v] = <<>>]
  /\ up' = [up EXCEPT ![v] = <<>>]
  /\ UNCHANGED <<pageVars, hub, shown, client>>

Transfer(v, to) ==
  IF driver = v /\ to \in ToSet(peers) \ {v}
  THEN /\ driver' = to
       /\ ViewAgain(latest[to])
       /\ down' = TellDriver(peers, to)
  ELSE UNCHANGED <<driver, nego, gate, down>>

(* routeUp(): everything but a transfer is for the driver alone, and a peer's
   last viewport is remembered whoever it is. *)
ReceiveUp(v) ==
  /\ v \in ToSet(peers) /\ up[v] # <<>>
  /\ up' = [up EXCEPT ![v] = Tail(@)]
  /\ LET m == Head(up[v]) IN
     \/ /\ m.t = "view"
        /\ latest' = [latest EXCEPT ![v] = m.size]
        /\ IF driver = v THEN View(m.size) ELSE UNCHANGED <<nego, gate>>
        /\ UNCHANGED <<driver, down>>
     \/ /\ m.t = "view-ack"
        /\ gate' = IF driver = v THEN Acknowledge(v, m.epoch) ELSE gate
        /\ UNCHANGED <<latest, driver, nego, down>>
     \/ /\ m.t = "driver-transfer"
        /\ Transfer(v, m.to)
        /\ UNCHANGED latest
  /\ UNCHANGED <<peers, pageVars, hub, shown, client, left>>

------------------------------------------------------------------------------
(* The gateway and Chromium. *)

Gateway == <<roleVars, up, down, client, shown>>

\* The debounce ends: apply() sends the override.
ApplyOverride ==
  /\ nego.debounce
  /\ nego' = [nego EXCEPT !.debounce = FALSE, !.applying = IF Busy(nego) THEN @ ELSE nego.desired]
  /\ todo' = (todo \/ ~Busy(nego))
  /\ UNCHANGED <<gate, metrics, wire, hub, Gateway, left>>

Override ==
  /\ todo
  /\ todo' = FALSE
  /\ \/ Calm /\ metrics' = nego.applying.size /\ wire' = Append(wire, [t |-> "applied"])
     \/ Fault /\ metrics' \in {metrics, nego.applying.size} /\ wire' = Append(wire, [t |-> "refused"])
  /\ UNCHANGED <<nego, gate, hub, Gateway>>

(* apply() goes on.  The hub may lose the reason in a stronger one. *)
OverrideApplied ==
  /\ wire # <<>> /\ Head(wire).t = "applied"
  /\ wire' = Tail(wire)
  /\ nego' = [nego EXCEPT !.applied = nego.applying.rev, !.applying = NoRevision, !.inFlight = TRUE]
  /\ \/ Calm /\ hub' = [hub EXCEPT !.owes = TRUE]
     \/ Fault /\ UNCHANGED hub
  /\ UNCHANGED <<gate, metrics, todo, Gateway>>

\* Mutant: a refused override is not tried again.
AfterRefusal_GivesUp(n) == n

AfterRefusal(n) == ScheduleApply(n)

OverrideRefused ==
  /\ wire # <<>> /\ Head(wire).t = "refused"
  /\ wire' = Tail(wire)
  /\ nego' = AfterRefusal([nego EXCEPT !.applying = NoRevision])
  /\ UNCHANGED <<gate, metrics, todo, hub, Gateway, left>>

\* Mutant: a missing snapshot is not asked for again.
RetrySnapshot_Never == FALSE

\* The snapshot retry timer fires.
RetrySnapshot ==
  /\ nego.inFlight
  /\ hub' = [hub EXCEPT !.owes = TRUE]
  /\ UNCHANGED <<nego, gate, pageVars, Gateway, left>>

\* The hub's request fails, or a navigation replaces it.
ForgetRequest ==
  /\ hub.owes
  /\ Fault
  /\ hub' = [hub EXCEPT !.owes = FALSE]
  /\ UNCHANGED <<nego, gate, pageVars, Gateway>>

\* The page emits a full snapshot: on request, or of its own accord.
EmitSnapshot ==
  /\ shown \/ hub.epoch + Len(wire) < MaxEpoch
  /\ \/ Calm /\ hub.owes /\ \A i \in 1..Len(wire) : wire[i].t # "shot"
     \/ Fault
  /\ wire' = Append(wire, [t |-> "shot", size |-> metrics])
  /\ UNCHANGED <<nego, gate, metrics, todo, hub, Gateway>>

(* The hub opens an epoch with it, labelled by the reason it owes or by another
   one that comes first, and if the tab is shown it is published. *)
OpenEpoch(reason) ==
  /\ wire # <<>> /\ Head(wire).t = "shot"
  /\ wire' = Tail(wire)
  /\ LET e == hub.epoch + 1 s == Head(wire).size IN
     /\ hub' = [epoch |-> e, held |-> s, owes |-> hub.owes /\ reason # "viewport"]
     /\ IF shown
        THEN NoteSnapshot(reason, e) /\ down' = Tell(peers, ShotMsg(e, reason, s))
        ELSE UNCHANGED <<nego, gate, down>>
  /\ UNCHANGED <<roleVars, metrics, todo, shown, up, client>>

SnapshotArrives ==
  \/ hub.owes /\ Calm /\ OpenEpoch("viewport")
  \/ hub.owes /\ Fault /\ OpenEpoch("trim")
  \/ ~hub.owes /\ Calm /\ OpenEpoch("trim")

\* The tab goes to pixels, or another one is activated.
Hide ==
  /\ shown
  /\ Fault
  /\ shown' = FALSE
  /\ UNCHANGED <<roleVars, nego, gate, pageVars, hub, up, down, client>>

\* Back in DOM mode the join payload is published, its snapshot for a resync.
Show ==
  /\ ~shown
  /\ shown' = TRUE
  /\ down' = IF hub.held = NoSize THEN down ELSE Tell(peers, Canonical)
  /\ UNCHANGED <<roleVars, nego, gate, pageVars, hub, up, client, left>>

------------------------------------------------------------------------------
(* The viewers. *)

Server == <<roleVars, nego, gate, pageVars, hub, shown>>

\* The window of a viewer changes size.
Resize(v) ==
  /\ Churn
  /\ \E s \in Size \ {client[v].window} :
       client' = [client EXCEPT ![v].window = s, ![v].wants = client[v].believes]
  /\ UNCHANGED <<Server, up, down>>

\* The resize timer fires: reportViewport().
ReportViewport(v) ==
  /\ client[v].wants
  /\ client' = [client EXCEPT ![v].wants = FALSE]
  /\ up' = [up EXCEPT ![v] = Append(@, ViewMsg(v))]
  /\ UNCHANGED <<Server, down, left>>

TransferMsg(to) == [t |-> "driver-transfer", to |-> to]

(* The button "Request driver" of a viewer that does not drive asks for the role;
   the protocol also lets the driver name another viewer (no button does). *)
AskTransfer(v) ==
  /\ v \in ToSet(peers)
  /\ Churn
  /\ \E to \in IF client[v].believes THEN ToSet(peers) \ {v} ELSE {v} :
       up' = [up EXCEPT ![v] = Append(@, TransferMsg(to))]
  /\ UNCHANGED <<Server, down, client>>

\* A hello, or a change of role, makes the driver report its viewport soon.
Reports(v, m) == m.t = "hello" \/ client[v].wants \/ ~client[v].believes

HandleRole(v, m) ==
  client' = [client EXCEPT ![v].believes = (m.driver = v),
                           ![v].wants = m.driver = v /\ Reports(v, m)]

\* onSnapshotApplied(): only the driver acknowledges, and only viewport epochs.
AcksSnapshot(v, m) == client[v].believes /\ m.reason = "viewport"

Displayed(v, m) ==
  \/ /\ Calm
     /\ client' = [client EXCEPT ![v].displays = m.size]
     /\ up' = IF AcksSnapshot(v, m)
              THEN [up EXCEPT ![v] = Append(@, [t |-> "view-ack", epoch |-> m.epoch])] ELSE up
  \/ /\ Fault                                  \* its replay throws
     /\ client' = [client EXCEPT ![v].displays = NoSize,
                                 ![v].missed = IF m.reason = "viewport" THEN m.epoch ELSE @]
     /\ UNCHANGED up

Deliver(v) ==
  /\ down[v] # <<>>
  /\ down' = [down EXCEPT ![v] = Tail(@)]
  /\ LET m == Head(down[v]) IN
     \/ m.t \in {"hello", "driver"} /\ HandleRole(v, m) /\ Calm /\ UNCHANGED up
     \/ m.t = "snapshot" /\ Displayed(v, m)
  /\ UNCHANGED Server

Next ==
  \/ ApplyOverride \/ Override \/ OverrideApplied \/ OverrideRefused \/ RetrySnapshot
  \/ ForgetRequest \/ EmitSnapshot \/ SnapshotArrives \/ Hide \/ Show
  \/ \E v \in Viewer :
       Connect(v) \/ Disconnect(v) \/ ReceiveUp(v) \/ Deliver(v)
         \/ Resize(v) \/ ReportViewport(v) \/ AskTransfer(v)

(* Timers fire, Chromium answers, sockets deliver and a client reconnects; nothing
   obliges anybody to bring a tab back to DOM mode. *)
Fairness ==
  /\ WF_vars(ApplyOverride) /\ WF_vars(Override) /\ WF_vars(OverrideApplied)
  /\ WF_vars(OverrideRefused) /\ WF_vars(RetrySnapshot) /\ WF_vars(SnapshotArrives)
  /\ WF_vars(EmitSnapshot)
  /\ \A v \in Viewer :
       WF_vars(Connect(v)) /\ WF_vars(ReceiveUp(v)) /\ WF_vars(Deliver(v))
         /\ WF_vars(ReportViewport(v))

Spec == Init /\ [][Next]_vars
FairSpec == Spec /\ Fairness

------------------------------------------------------------------------------
(* Properties. *)

Revision == [rev : Nat, size : Size \cup {NoSize}]

UpMsg == [t : {"view"}, size : Size] \cup [t : {"view-ack"}, epoch : Nat]
           \cup [t : {"driver-transfer"}, to : Viewer]

DownMsg ==
  [t : {"hello", "driver"}, driver : Viewer \cup {NoViewer}]
    \cup [t : {"snapshot"}, epoch : Nat, reason : {"viewport", "trim", "resync"}, size : Size]

TypeOK ==
  /\ peers \in Seq(Viewer) /\ IsInjective(peers)
  /\ driver \in ToSet(peers) \cup {NoViewer}
  /\ latest \in [Viewer -> Size \cup {NoSize}]
  /\ nego \in [desired : Revision, applied : Nat, applying : Revision,
               inFlight : BOOLEAN, debounce : BOOLEAN]
  /\ gate \in [pending : BOOLEAN, required : Nat, acked : [Viewer -> Nat]]
  /\ metrics \in Size /\ todo \in BOOLEAN
  /\ wire \in Seq([t : {"applied", "refused"}] \cup [t : {"shot"}, size : Size])
  /\ hub \in [epoch : Nat, held : Size \cup {NoSize}, owes : BOOLEAN]
  /\ shown \in BOOLEAN
  /\ up \in [Viewer -> Seq(UpMsg)] /\ down \in [Viewer -> Seq(DownMsg)]
  /\ client \in [Viewer -> [window : Size, believes : BOOLEAN, wants : BOOLEAN,
                            displays : Size \cup {NoSize}, missed : Nat]]
  /\ left \in [churn : Nat, faults : Nat]

(***************************************************************************)
(* Input that is let through was aimed at the geometry Chromium has: the   *)
(* driver whose gate is open has on its screen a replay of exactly the     *)
(* device metrics the page is laid out with (or none, after a replay that  *)
(* failed), whatever resizes, transfers and reconnections came before.     *)
(***************************************************************************)
InputMatchesGeometry ==
  driver # NoViewer /\ AllowsInput(driver) => client[driver].displays \in {metrics, NoSize}

(***************************************************************************)
(* The gate only opens on the final geometry: a step that ends the lock    *)
(* publishes a snapshot taken at the size that was asked for last          *)
(* ("acknowledging this epoch must not unlock stale geometry").            *)
(***************************************************************************)
UnlocksAtFinalGeometry ==
  [][ gate.pending /\ ~gate'.pending
      => hub'.held = nego.desired.size /\ metrics = nego.desired.size ]_vars

(***************************************************************************)
(* Someone drives whenever somebody connected may: the session never stays *)
(* without a driver while a driver's invitation is connected.  The state   *)
(* is well formed, so that who drives is connected.                        *)
(***************************************************************************)
SomebodyDrives ==
  TypeOK /\ (driver = NoViewer => ToSet(peers) \cap DriverInvite = {})

(***************************************************************************)
(* A locked gate is being worked on: the debounce is armed, an override or *)
(* its answer is on its way, or a snapshot is in flight and retried.  No   *)
(* failure leaves the lock behind.                                         *)
(***************************************************************************)
LockIsPursued == gate.pending => nego.debounce \/ Busy(nego)

\* The snapshot the driver has to acknowledge is one whose replay failed.
AckMissed == ~gate.pending /\ gate.required # 0 /\ client[driver].missed = gate.required

DriverUnlocked == driver # NoViewer => AllowsInput(driver) \/ AckMissed

(***************************************************************************)
(* Once the disturbances stop, whoever drives a tab that is shown gets its *)
(* input back for good (unless the replay of the very snapshot to be       *)
(* acknowledged failed: nobody sends another).                             *)
(***************************************************************************)
DriverEventuallyUnlocked == <>[](shown => DriverUnlocked)
==============================================================================
