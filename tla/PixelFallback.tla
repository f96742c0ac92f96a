---------------------------- MODULE PixelFallback -----------------------------
(***************************************************************************)
(* Divergence and the way out of it, for one tab and one viewer: the       *)
(* controller that spaces out a mirror's resync requests and gives the tab *)
(* up to pixels when they storm (packages/viewer/src/resync.ts), the       *)
(* gateway's screencast that serializes the changes of mode                *)
(* (packages/gateway/src/px.ts), and the viewer's host element, which a    *)
(* replayed document and a canvas of pixel frames take from each other     *)
(* (packages/viewer/src/pxview.tsx, mirror.ts).                            *)
(*                                                                         *)
(* The page is the pair <<epoch, n>>: n events since the snapshot that     *)
(* opened the epoch.  The snapshot and the delta of a join payload are one *)
(* message, a snapshot of the pair.  How a loss is noticed is              *)
(* MirrorStream's subject and how the hub gets its snapshots TabHub's;     *)
(* here an epoch that is owed arrives, unless the hub forgets that it owes *)
(* it (Forget).  Time is what is left of a delay and the age of a request, *)
(* so the clock needs no bound.                                            *)
(***************************************************************************)
EXTENDS Integers, SequencesExt

CONSTANTS Window,      \* RESYNC_WINDOW_MS
          MaxResyncs,  \* MAX_RESYNCS_PER_WINDOW
          BackoffBase, \* RESYNC_BACKOFF_BASE_MS
          BackoffMax,  \* RESYNC_BACKOFF_MAX_MS
          Budgets      \* bounds on the disturbances, see Churn and Fault

ASSUME PixelConstants ==
  /\ Window \in Nat \ {0} /\ MaxResyncs \in Nat \ {0}
  /\ BackoffBase \in Nat \ {0} /\ BackoffMax \in Nat /\ BackoffMax >= BackoffBase
  /\ Budgets \subseteq [churn : Nat, faults : Nat]

VARIABLES
  drives,  \* the viewer is the driver
  resync,  \* its resync controller's state of the tab, sentAt as ages
  log,     \* (history) the ages of all requests it sent
  client,  \* its mirror and its pixel view, see Init
  up,      \* what it has sent to the gateway
  down,    \* what the gateway has sent to it
  hub,     \* [epoch, n, held, owes]: the page, whether its epoch is open, and asked for;
           \* forgot: (history) it dropped the resync-reqs it owed an epoch to
  cast,    \* the gateway's TabState and hub.mode, see Init
  chrome,  \* [casting, dirty]: Chromium screencasts, and has a frame to send
  missed,  \* (history) in DOM mode the tab lacks what pixel mode kept from the viewer
  cutoff,  \* (history) the viewer reconnected to a tab in pixel mode
  left     \* disturbances still to come

vars == <<drives, resync, log, client, up, down, hub, cast, chrome, missed, cutoff, left>>

Nothing == <<0, 0>>

Init ==
  /\ drives \in BOOLEAN
  /\ resync = [sentAt |-> <<>>, pending |-> FALSE, delay |-> 0, storm |-> FALSE]
  /\ log = <<>>
  /\ client = [replica |-> <<1, 0>>,  \* LiveState
               waiting |-> FALSE,     \* resyncRequested
               known |-> TRUE,        \* activeTab # null
               mode |-> "dom",        \* PxView.modes
               canvas |-> "none"]     \* "shown", or "detached" from its host
  /\ up = <<>> /\ down = <<>>
  /\ hub = [epoch |-> 1, n |-> 0, held |-> TRUE, owes |-> FALSE, forgot |-> FALSE]
  /\ cast = [mode |-> "dom", screencasting |-> FALSE, lastFrame |-> FALSE,
             queue |-> <<>>, doing |-> "nothing"]
  /\ chrome = [casting |-> FALSE, dirty |-> FALSE]
  /\ missed = FALSE /\ cutoff = FALSE
  /\ left \in Budgets

\* What users and pages do of their own accord, what goes wrong, and everything else.
Churn == left.churn > 0 /\ left' = [left EXCEPT !.churn = @ - 1]
Fault == left.faults > 0 /\ left' = [left EXCEPT !.faults = @ - 1]
Calm  == UNCHANGED left

ResyncReq      == [t |-> "resync-req"]
ModeMsg(m)     == [t |-> "mode", mode |-> m]
SnapshotMsg(p) == [t |-> "snapshot", page |-> p]
DeltaMsg(p)    == [t |-> "delta", page |-> p]
ResyncMsg      == [t |-> "resync"]
FrameMsg       == [t |-> "px"]

Page == <<hub.epoch, hub.n>>

------------------------------------------------------------------------------
(* createResyncController.  What may send is [state, out]: the controller's new
   state, and what it sends. *)

\* Mutant: only the last request is remembered.
Pruned_KeepsLast(r) == IF r.sentAt = <<>> THEN r ELSE [r EXCEPT !.sentAt = <<Last(@)>>]

Pruned(r) == [r EXCEPT !.sentAt = SelectSeq(@, LAMBDA age : age < Window)]

Backoff(k) ==
  IF k = 0 THEN 0
  ELSE LET d == BackoffBase * 2^(k - 1) IN IF d < BackoffMax THEN d ELSE BackoffMax

Silent(r) == [state |-> r, out |-> <<>>]

\* degrade()
Degraded(r) ==
  [state |-> [r EXCEPT !.pending = FALSE, !.delay = 0, !.storm = TRUE], out |-> <<ModeMsg("px")>>]

\* dispatch() of a pending request
Dispatched(r) ==
  LET p == [Pruned(r) EXCEPT !.pending = FALSE, !.delay = 0] IN
  IF Len(p.sentAt) >= MaxResyncs THEN Degraded(p)
  ELSE [state |-> [p EXCEPT !.sentAt = Append(@, 0)], out |-> <<ResyncReq>>]

\* request()
Requested(r) ==
  LET p == Pruned(r) k == Len(p.sentAt) IN
  IF p.storm \/ p.pending THEN Silent(p)
  ELSE IF k >= MaxResyncs THEN Degraded(p)
  ELSE IF k = 0 THEN Dispatched(p)
  ELSE Silent([p EXCEPT !.pending = TRUE, !.delay = Backoff(k)])

\* recovered()
Recovered(r) == Silent([r EXCEPT !.pending = FALSE, !.delay = 0])

\* Mutant: a snapshot whose replay threw also counts as a recovery.
AfterFailedReplay_Recovers(r) == [Requested(r) EXCEPT !.state.pending = FALSE, !.state.delay = 0]

AfterFailedReplay(r) == Requested(r)

\* The controller becomes what o says, and o's messages are on their way after ms.
Emit(ms, o) ==
  /\ resync' = o.state
  /\ up' = ms \o o.out
  /\ log' = IF ResyncReq \in ToSet(o.out) THEN Append(log, 0) ELSE log

Controller == <<resync, log, up>>

ResyncTimer ==
  /\ resync.pending /\ resync.delay = 0
  /\ Emit(up, Dispatched(resync))
  /\ UNCHANGED <<drives, client, down, hub, cast, chrome, missed, cutoff, left>>

\* Time passes; a timer may fire late.
Tick ==
  /\ log # <<>> \/ resync.delay > 0
  /\ LET Older(ages) == [i \in DOMAIN ages |-> IF ages[i] < Window THEN ages[i] + 1 ELSE Window] IN
     /\ resync' = [resync EXCEPT !.sentAt = Older(@), !.delay = IF @ > 0 THEN @ - 1 ELSE 0]
     /\ log' = SelectSeq(Older(log), LAMBDA age : age < Window)
  /\ UNCHANGED <<drives, client, up, down, hub, cast, chrome, missed, cutoff, left>>

------------------------------------------------------------------------------
(* The page and its hub; what they say is published in DOM mode. *)

Publish(m) ==
  IF cast.mode = "dom"
  THEN down' = Append(down, m) /\ missed' = (missed /\ m.t # "snapshot")
  ELSE missed' = TRUE /\ UNCHANGED down

Mutate ==
  /\ hub.held
  /\ Churn
  /\ hub' = [hub EXCEPT !.n = @ + 1]
  /\ chrome' = [chrome EXCEPT !.dirty = TRUE]
  /\ Publish(DeltaMsg(<<hub.epoch, hub.n + 1>>))
  /\ UNCHANGED <<drives, Controller, client, cast, cutoff>>

\* A new document: the hub asks for its snapshot, the latest frame is of the old one.
Navigate ==
  /\ Churn
  /\ hub' = [hub EXCEPT !.held = FALSE, !.n = 0, !.owes = TRUE, !.forgot = FALSE]
  /\ cast' = [cast EXCEPT !.lastFrame = FALSE]
  /\ chrome' = [chrome EXCEPT !.dirty = TRUE]
  /\ UNCHANGED <<drives, Controller, client, down, missed, cutoff>>

OpenEpoch ==
  /\ hub.owes
  /\ hub' = [epoch |-> hub.epoch + 1, n |-> 0, held |-> TRUE, owes |-> FALSE, forgot |-> FALSE]
  /\ Publish(SnapshotMsg(<<hub.epoch + 1, 0>>))
  /\ UNCHANGED <<drives, Controller, client, cast, chrome, cutoff, left>>

(* failSnapshotRequest() of a request for a trim or a new viewport, which a resync
   waits behind or was taken over by: neither is made again. *)
Forget ==
  /\ hub.owes /\ hub.held
  /\ Fault
  /\ hub' = [hub EXCEPT !.owes = FALSE, !.forgot = TRUE]
  /\ UNCHANGED <<drives, Controller, client, down, cast, chrome, missed, cutoff>>

JoinPayload == IF hub.held THEN <<ResyncMsg, SnapshotMsg(Page)>> ELSE <<ResyncMsg>>

------------------------------------------------------------------------------
(* createScreencast: one change of mode after another. *)

Others == <<drives, Controller, client, hub, cutoff>>

Announced == IF cast.lastFrame THEN <<ModeMsg("px"), FrameMsg>> ELSE <<ModeMsg("px")>>

BeginMode ==
  /\ cast.doing = "nothing" /\ cast.queue # <<>>
  /\ LET next == [cast EXCEPT !.queue = Tail(@)] IN
     \/ /\ Head(cast.queue) = "px" /\ cast.screencasting
        /\ cast' = next /\ down' = down \o Announced
     \/ /\ Head(cast.queue) = "px" /\ ~cast.screencasting
        /\ cast' = [next EXCEPT !.doing = "start", !.screencasting = TRUE, !.mode = "px"]
        /\ UNCHANGED down
     \/ /\ Head(cast.queue) = "dom" /\ ~cast.screencasting
        /\ cast' = next /\ UNCHANGED down
     \/ /\ Head(cast.queue) = "dom" /\ cast.screencasting
        /\ cast' = [next EXCEPT !.doing = "stop"] /\ UNCHANGED down
  /\ UNCHANGED <<Others, chrome, missed, left>>

\* Page.startScreencast: Chromium's first frames may precede its answer.
StartScreencast ==
  /\ cast.doing = "start"
  /\ chrome' = [casting |-> TRUE, dirty |-> TRUE]
  /\ cast' = [cast EXCEPT !.doing = "started"]
  /\ UNCHANGED <<Others, down, missed, left>>

ScreencastStarted ==
  /\ cast.doing = "started"
  /\ cast' = [cast EXCEPT !.doing = "nothing"]
  /\ down' = down \o Announced
  /\ UNCHANGED <<Others, chrome, missed, left>>

StartRefused ==
  /\ cast.doing = "start"
  /\ Fault
  /\ cast' = [cast EXCEPT !.doing = "nothing", !.screencasting = FALSE, !.mode = "dom",
                          !.lastFrame = FALSE]
  /\ UNCHANGED <<Others, chrome, down, missed>>

\* Mutant: back in DOM mode, the page is taken to be what the viewer last saw.
CatchUp_None == <<>>

CatchUp == JoinPayload

ScreencastStopped ==
  /\ cast.doing = "stop"
  /\ chrome' = [chrome EXCEPT !.casting = FALSE]
  /\ cast' = [cast EXCEPT !.doing = "nothing", !.screencasting = FALSE, !.mode = "dom",
                          !.lastFrame = FALSE]
  /\ down' = Append(down, ModeMsg("dom")) \o CatchUp
  /\ missed' = FALSE
  /\ UNCHANGED <<Others, left>>

StopRefused ==
  /\ cast.doing = "stop"
  /\ Fault
  /\ cast' = [cast EXCEPT !.doing = "nothing"]
  /\ UNCHANGED <<Others, chrome, down, missed>>

Frame ==
  /\ chrome.casting /\ chrome.dirty
  /\ chrome' = [chrome EXCEPT !.dirty = FALSE]
  /\ IF cast.screencasting
     THEN cast' = [cast EXCEPT !.lastFrame = TRUE] /\ down' = Append(down, FrameMsg)
     ELSE UNCHANGED <<cast, down>>
  /\ UNCHANGED <<Others, missed, left>>

(* The gateway hears the viewer: only the driver changes the mode. *)
ReceiveUp ==
  /\ up # <<>>
  /\ up' = Tail(up)
  /\ \/ /\ Head(up) = ResyncReq
        /\ hub' = [hub EXCEPT !.owes = TRUE, !.forgot = FALSE]
        /\ UNCHANGED cast
     \/ /\ Head(up) # ResyncReq
        /\ cast' = IF drives THEN [cast EXCEPT !.queue = Append(@, Head(up).mode)] ELSE cast
        /\ UNCHANGED hub
  /\ UNCHANGED <<drives, resync, log, client, down, chrome, missed, cutoff, left>>

------------------------------------------------------------------------------
(* The viewer. *)

OtherMode(m) == IF m = "px" THEN "dom" ELSE "px"

(* The button of the driver; another viewer's request arrives at the gateway. *)
AskMode ==
  /\ Churn
  /\ \/ /\ drives /\ up' = Append(up, ModeMsg(OtherMode(client.mode)))
        /\ UNCHANGED cast
     \/ /\ ~drives /\ cast' = [cast EXCEPT !.queue = Append(@, OtherMode(cast.mode))]
        /\ UNCHANGED up
  /\ UNCHANGED <<drives, resync, log, client, down, hub, chrome, missed, cutoff>>

\* The mirror's documents replace whatever the host element shows.
Covered(canvas) == IF canvas = "none" THEN "none" ELSE "detached"

Accepts(m) == client.replica = Nothing \/ m.page[1] > client.replica[1] \/ client.waiting

\* The mirror is built anew, or the replay of the snapshot throws.
Rebuild(m) ==
  \/ /\ client' = [client EXCEPT !.replica = m.page, !.waiting = FALSE, !.known = TRUE,
                                  !.canvas = Covered(@)]
     /\ Emit(up, Recovered(resync))
     /\ Calm
  \/ /\ client' = [client EXCEPT !.replica = Nothing, !.waiting = TRUE, !.known = TRUE,
                                  !.canvas = Covered(@)]
     /\ Emit(up, AfterFailedReplay(resync))
     /\ Fault

\* Another snapshot of the epoch it shows is ignored.
HandleSnapshot(m) == IF Accepts(m) THEN Rebuild(m) ELSE UNCHANGED <<client, Controller, left>>

Continues(p) == client.replica = <<p[1], p[2] - 1>>

HandleDelta(m) ==
  \/ /\ client.waiting
     /\ UNCHANGED <<client, Controller>> /\ Calm
  \/ /\ ~client.waiting /\ Continues(m.page)
     /\ client' = [client EXCEPT !.replica = m.page]
     /\ UNCHANGED Controller /\ Calm
  \/ /\ ~client.waiting
     /\ client' = [client EXCEPT !.waiting = TRUE, !.known = TRUE]
     /\ Emit(up, Requested(resync))
     /\ IF Continues(m.page) THEN Fault ELSE Calm        \* its replay throws, or there is a gap

\* removeCanvas() when DOM mode is announced, and teardown() when the first frame comes
HandleMode(m) ==
  client' = [client EXCEPT !.mode = m.mode, !.canvas = IF m.mode = "dom" THEN "none" ELSE @]

HandleFrame ==
  client' = IF client.mode = "px" /\ client.canvas = "none"
            THEN [client EXCEPT !.canvas = "shown", !.replica = Nothing, !.known = FALSE]
            ELSE client

Deliver ==
  /\ down # <<>>
  /\ down' = Tail(down)
  /\ LET m == Head(down) IN
     \/ m.t = "snapshot" /\ HandleSnapshot(m) /\ UNCHANGED cutoff
     \/ m.t = "delta" /\ HandleDelta(m) /\ UNCHANGED cutoff
     \/ /\ m.t = "resync"
        /\ client' = [client EXCEPT !.waiting = TRUE, !.known = TRUE]
        /\ UNCHANGED <<Controller, cutoff, left>>
     \/ /\ m.t = "mode" /\ HandleMode(m)
        /\ cutoff' = (cutoff /\ m.mode = "px" /\ client.canvas = "detached")
        /\ UNCHANGED <<Controller, left>>
     \/ m.t = "px" /\ HandleFrame /\ UNCHANGED <<Controller, cutoff, left>>
  /\ UNCHANGED <<drives, hub, cast, chrome, missed>>

(* The socket breaks and opens again: connectionLost() forgets what was asked for, and
   without a replayer renders a status, over a canvas too; connectionRestored() asks
   anew, and the join payload comes. *)
Reconnect ==
  /\ Churn
  /\ client' = [client EXCEPT !.waiting = client.known,
                              !.canvas = IF client.replica = Nothing THEN Covered(@) ELSE @]
  /\ Emit(<<>>, IF client.known THEN Requested(resync) ELSE Silent(resync))
  /\ down' = JoinPayload
  /\ missed' = FALSE
  /\ cutoff' = (cutoff \/ cast.mode = "px" \/ client.mode = "px")
  /\ UNCHANGED <<drives, hub, cast, chrome>>

Next ==
  \/ ResyncTimer \/ Tick \/ Mutate \/ Navigate \/ OpenEpoch \/ Forget
  \/ BeginMode \/ StartScreencast \/ ScreencastStarted \/ StartRefused
  \/ ScreencastStopped \/ StopRefused \/ Frame
  \/ ReceiveUp \/ AskMode \/ Deliver \/ Reconnect

(* Timers fire, Chromium answers, sockets deliver, and the hub brings the epoch it was
   asked for and has not forgotten. *)
Fairness ==
  /\ WF_vars(ResyncTimer) /\ WF_vars(Tick) /\ WF_vars(OpenEpoch)
  /\ WF_vars(BeginMode) /\ WF_vars(StartScreencast) /\ WF_vars(ScreencastStarted)
  /\ WF_vars(ScreencastStopped) /\ WF_vars(Frame)
  /\ WF_vars(ReceiveUp) /\ WF_vars(Deliver)

Spec == Init /\ [][Next]_vars
FairSpec == Spec /\ Fairness

------------------------------------------------------------------------------
(* Properties. *)

UpMsg == [t : {"resync-req"}] \cup [t : {"mode"}, mode : {"dom", "px"}]

DownMsg == [t : {"snapshot", "delta"}, page : Nat \X Nat] \cup [t : {"resync", "px"}]
             \cup [t : {"mode"}, mode : {"dom", "px"}]

TypeOK ==
  /\ drives \in BOOLEAN
  /\ resync \in [sentAt : Seq(0..Window), pending : BOOLEAN, delay : 0..BackoffMax, storm : BOOLEAN]
  /\ log \in Seq(0..Window)
  /\ client \in [replica : Nat \X Nat, waiting : BOOLEAN, known : BOOLEAN,
                  mode : {"dom", "px"}, canvas : {"none", "shown", "detached"}]
  /\ up \in Seq(UpMsg) /\ down \in Seq(DownMsg)
  /\ hub \in [epoch : Nat, n : Nat, held : BOOLEAN, owes : BOOLEAN, forgot : BOOLEAN]
  /\ cast \in [mode : {"dom", "px"}, screencasting : BOOLEAN, lastFrame : BOOLEAN,
                queue : Seq({"dom", "px"}), doing : {"nothing", "start", "started", "stop"}]
  /\ chrome \in [casting : BOOLEAN, dirty : BOOLEAN]
  /\ missed \in BOOLEAN /\ cutoff \in BOOLEAN
  /\ left \in [churn : Nat, faults : Nat]

(***************************************************************************)
(* However losses, failing replays, reconnections and late timers fall, a  *)
(* viewer never sends more than MaxResyncs requests for a tab within one   *)
(* window.  The state, whose delays are bounded by BackoffMax, is well     *)
(* formed.                                                                 *)
(***************************************************************************)
RateLimited == TypeOK /\ Len(log) <= MaxResyncs

(***************************************************************************)
(* A mirror that has stopped taking deltas is being repaired: its request  *)
(* is delayed, on its way or owed, or a snapshot is coming to it.  The     *)
(* exceptions are the policy's own (a tab that stormed, a tab in pixels),  *)
(* a snapshot that was withheld while a screencast was starting that was   *)
(* then refused (px.ts:95-113 publishes nothing to make up for it), and a  *)
(* resync-req that was received and then forgotten (tabhub.ts:313-318).    *)
(***************************************************************************)
FrozenIsPursued ==
  client.waiting =>
    \/ resync.pending \/ ResyncReq \in ToSet(up) \/ hub.owes
    \/ \E i \in DOMAIN down : down[i].t = "snapshot"
    \/ resync.storm \/ cast.mode = "px" \/ missed \/ hub.forgot

(***************************************************************************)
(* Once the disturbances stop, the viewer of a tab in DOM mode has the     *)
(* page on its screen, with the same exceptions; with a forgotten request  *)
(* it is in step, or waits for an epoch.                                   *)
(***************************************************************************)
DomInStep ==
  <>[]( cast.mode = "dom" /\ ~resync.storm /\ ~missed =>
          /\ client.canvas # "shown"
          /\ \/ client.replica = Page /\ ~client.waiting
             \/ hub.forgot /\ client.waiting )

(***************************************************************************)
(* And the viewer of a tab in pixel mode ends up looking at a canvas, also *)
(* of a page that never changes again, unless it reconnected meanwhile: a  *)
(* canvas that a status has replaced is painted, but no longer shown.      *)
(***************************************************************************)
PixelsShown == <>[](cast.mode = "px" /\ ~cutoff => client.canvas = "shown")

(***************************************************************************)
(* Both: whichever mode a tab ends in after any series of changes of mode, *)
(* refusals and losses, its viewer looks at exactly that.                  *)
(***************************************************************************)
ShownAsAnnounced == DomInStep /\ PixelsShown
==============================================================================
