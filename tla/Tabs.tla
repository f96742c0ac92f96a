--------------------------------- MODULE Tabs ---------------------------------
(***************************************************************************)
(* The tabs of a session (packages/gateway/src/session/tabs.ts) between    *)
(* Chromium's page targets and a viewer's mirror and tab strip: which tabs *)
(* there are, which one is active, whose output is published, and what a   *)
(* viewer makes of it.  Every operation awaits CDP, so creations, closes,  *)
(* activations and pages that go of their own accord interleave at each    *)
(* await; CDP itself is a FIFO to Chromium and one back, but what a page   *)
(* is asked about its icon it answers when it gets to it.                  *)
(*                                                                         *)
(* A tab's document is the number of its last event, and a snapshot, a     *)
(* catch-up and a join payload are one message, as their parts arrive      *)
(* together; what is dropped on the way is MirrorStream's subject.  A page *)
(* target keeps its CDP session.  The viewer's user clicks on the strip,   *)
(* and its mirror turns to that tab before the gateway has heard of it;    *)
(* other viewers' commands arrive as they are.  All tabs are in DOM mode.  *)
(***************************************************************************)
EXTENDS Integers, SequencesExt

CONSTANTS MaxTabs,   \* bound on the pages ever opened
          Budgets    \* bounds on what users, pages and failures do

ASSUME TabsConstants ==
  /\ MaxTabs \in Nat \ {0}
  /\ Budgets \subseteq [ops : Nat, pages : Nat, faults : Nat]

VARIABLES
  chrome,   \* [pages, dying, made]: targets, those told to go, how many there were
  calls,    \* browser commands on their way to Chromium
  events,   \* its events and answers on their way back
  order,    \* the tab ids in order; the keys of `tabs' are the same
  active,   \* activeTabId, or None
  hub,      \* tab -> number of the last event its hub holds, 0 before any
  owes,     \* tabs whose hub was asked for a snapshot
  bcast,    \* the tab list: "idle", "armed" (its timer) or "listing"
  registry, \* page targets that are attached (launch.ts)
  join,     \* the first list of a viewer that connected, in the making
  viewer,   \* its socket, its tab strip and its mirror
  refused,  \* (history) Chromium refused to create a page
  orphaned, \* (history) the neighbour that was to take over went first, or could not
  late,     \* (history) the viewer's first list was made before the last change
  unshown,  \* (history) the tab create() made active had output that was withheld
  strayed,  \* (history) the mirror's tab was clicked, and not activated
  left      \* disturbances still to come

gateway == <<order, active, hub, owes, bcast, registry, join>>
history == <<refused, orphaned, late, unshown, strayed>>
vars    == <<chrome, calls, events, gateway, viewer, history, left>>

Tab  == 1..MaxTabs
None == 0
tabs == ToSet(order)

NoJoin == [phase |-> "none", ids |-> <<>>, seen |-> {}]

Init ==
  /\ \E n \in Tab \cap 1..2 :    \* pages Chromium started with
       /\ chrome = [pages |-> 1..n, dying |-> {}, made |-> n]
       /\ events = [i \in 1..n |-> [e |-> "attached", tab |-> i]]
  /\ calls = <<>>
  /\ order = <<>> /\ active = None
  /\ hub = [t \in Tab |-> 0] /\ owes = {}
  /\ bcast = "idle" /\ registry = {} /\ join = NoJoin
  /\ viewer = [open |-> FALSE, conn |-> 0,                \* how often it connected
               ids |-> <<>>, shows |-> None,              \* tabs; the active one of its list
               tab |-> None, n |-> 0, waiting |-> FALSE,  \* activeTab, replica, resyncRequested
               asks |-> {}, clicks |-> <<>>]              \* its messages, sent or queued
  /\ refused = FALSE /\ orphaned = FALSE /\ late = FALSE /\ unshown = FALSE /\ strayed = FALSE
  /\ left \in Budgets

UserOp == left.ops > 0 /\ left' = [left EXCEPT !.ops = @ - 1]
OfPage == left.pages > 0 /\ left' = [left EXCEPT !.pages = @ - 1]
Fault  == left.faults > 0 /\ left' = [left EXCEPT !.faults = @ - 1]
Calm   == UNCHANGED left

Snapshot(t)     == [t |-> "snapshot", tab |-> t, n |-> hub[t]]
TabsMsg(ids, a) == [t |-> "tabs", ids |-> ids, active |-> a]

------------------------------------------------------------------------------
(* The viewer (packages/viewer/src/app.tsx, mirror.ts): v is it after the messages
   before m, and asks the requests they made it send. *)

Asking(v, t) == [v EXCEPT !.tab = t, !.waiting = TRUE, !.asks = @ \cup {t}]

Concerns(v, m) == v.tab \in {None, m.tab}

OnSnapshot(v, m) ==
  IF Concerns(v, m) /\ (v.waiting \/ m.n > v.n)
  THEN [v EXCEPT !.tab = m.tab, !.n = m.n, !.waiting = FALSE] ELSE v

OnDelta(v, m) ==
  IF ~Concerns(v, m) \/ v.waiting THEN v
  ELSE IF v.n > 0 /\ m.n = v.n + 1 THEN [v EXCEPT !.n = m.n]
  ELSE Asking(v, m.tab)

\* selectTab()
Selected(v, t) == IF v.tab = t THEN v ELSE Asking([v EXCEPT !.n = 0], t)

\* Mutant: the list changes the strip, and the mirror stays where it was.
OnTabs_StripOnly(v, m) == [v EXCEPT !.ids = m.ids, !.shows = m.active]

\* The mirror follows to a tab it does not show, once it shows one.
OnTabs(v, m) ==
  LET told == [v EXCEPT !.ids = m.ids, !.shows = m.active] IN
  IF m.active = None \/ v.tab = None THEN told ELSE Selected(told, m.active)

After(v, m) ==
  CASE m.t = "snapshot" -> OnSnapshot(v, m)
    [] m.t = "delta"    -> OnDelta(v, m)
    [] m.t = "tabs"     -> OnTabs(v, m)

(* publish() and viewer.send(), to a viewer that is connected.  What it makes of a
   message depends on what came before, not on when it arrives: a click that it
   overtakes on the way is a click before it was sent, whose own messages take long. *)
Publish(m) == viewer' = IF viewer.open THEN After(viewer, m) ELSE viewer

------------------------------------------------------------------------------
(* Browser commands and their answers. *)

\* A browser command, and what the operation that awaits it goes on to do.
Cmd(do, t, next) == [do |-> do, tab |-> t, next |-> next]
Go(what, arg)    == [what |-> what, arg |-> arg]
Done == Go("done", None)

CreateTab(next) == Cmd("create", None, next)
Activate(t)     == Cmd("activate", t, Go("publish", None))
CloseTab(t)     == Cmd("close", t, Done)

------------------------------------------------------------------------------
(* Chromium. *)

Made   == chrome.made + 1
Opened == [chrome EXCEPT !.pages = @ \cup {Made}, !.made = Made]

Event(e, t)      == [e |-> e, tab |-> t]
Answer(c, t, ok) == [e |-> c.do, tab |-> t, next |-> c.next, ok |-> ok]

\* A command is executed and answered.  A page that is closed goes when it is ready to.
Perform ==
  /\ calls # <<>>
  /\ calls' = Tail(calls)
  /\ LET c == Head(calls) IN
     \/ /\ c.do = "create" /\ Made \in Tab
        /\ chrome' = Opened
        /\ events' = events \o <<Event("attached", Made), Answer(c, Made, TRUE)>>
        /\ UNCHANGED refused /\ Calm
     \/ /\ c.do = "create" /\ Fault
        /\ refused' = TRUE
        /\ events' = Append(events, Answer(c, None, FALSE))
        /\ UNCHANGED chrome
     \/ /\ c.do # "create"
        /\ events' = Append(events, Answer(c, c.tab, c.tab \in chrome.pages))
        /\ chrome' = IF c.do = "close" /\ c.tab \in chrome.pages
                     THEN [chrome EXCEPT !.dying = @ \cup {c.tab}] ELSE chrome
        /\ UNCHANGED refused /\ Calm
     \/ /\ c.do = "activate" /\ Fault
        /\ events' = Append(events, Answer(c, c.tab, FALSE))
        /\ UNCHANGED <<chrome, refused>>
  /\ UNCHANGED <<gateway, viewer, orphaned, late, unshown, strayed>>

\* A page goes: it was told to, it crashed, or it closed itself.
Gone(t) ==
  /\ t \in chrome.pages
  /\ IF t \in chrome.dying THEN Calm ELSE OfPage
  /\ chrome' = [chrome EXCEPT !.pages = @ \ {t}, !.dying = @ \ {t}]
  /\ events' = Append(events, Event("detached", t))
  /\ UNCHANGED <<calls, gateway, viewer, history>>

\* A page opens another, or changes its title.
Popup ==
  /\ chrome.pages # {} /\ Made \in Tab
  /\ OfPage
  /\ chrome' = Opened
  /\ events' = Append(events, Event("attached", Made))
  /\ UNCHANGED <<calls, gateway, viewer, history>>

Retitle(t) ==
  /\ t \in chrome.pages
  /\ OfPage
  /\ events' = Append(events, Event("info", t))
  /\ UNCHANGED <<chrome, calls, gateway, viewer, history>>

------------------------------------------------------------------------------
(* The tab lifecycle. *)

Send(cs) == calls' = calls \o cs

(* scheduleTabsBroadcast(): the timer is set anew, and a list in the making, which
   bears an earlier version, will not be published. *)
Schedule == bcast' = "armed"

(* A viewer's first list is not so careful: it names the tabs there were, and flags
   each as it is when its page has answered what its icon is. *)
BeginFirstList == [phase |-> "listing", ids |-> order, seen |-> {active'}]
Notice(j)      == IF j.phase = "listing" THEN [j EXCEPT !.seen = @ \cup {active'}] ELSE j

\* remove(): the tab that takes over from the active one
Neighbor(t) ==
  LET rest == RemoveFirst(order, t)
      i == CHOOSE k \in DOMAIN order : order[k] = t IN
  IF t \notin tabs \/ active # t \/ rest = <<>> THEN None
  ELSE IF i \in DOMAIN rest THEN rest[i] ELSE rest[i - 1]

\* Mutant: nobody takes over.
Following_Nobody(t) == <<>>

\* activate(neighbor)
Following(t) == IF Neighbor(t) = None THEN <<>> ELSE <<Activate(Neighbor(t))>>

RemoveTab(t) ==
  /\ order' = RemoveFirst(order, t)
  /\ active' = IF active = t THEN None ELSE active
  /\ hub' = [hub EXCEPT ![t] = 0] /\ owes' = owes \ {t}
  /\ Schedule
  /\ join' = Notice(join)

\* onDetached: the last tab is replaced
AfterLoss(t) == IF tabs = {t} THEN <<CreateTab(Done)>> ELSE Following(t)

\* onAttached
HandleAttached(t) ==
  /\ registry' = registry \cup {t}
  /\ order' = Append(order, t)
  /\ active' = IF active = None THEN t ELSE active
  /\ orphaned' = (orphaned /\ active # None)
  /\ Schedule /\ join' = Notice(join)
  /\ UNCHANGED <<calls, hub, owes, viewer, late, unshown, strayed>>

\* onDetached
HandleDetached(t) ==
  /\ registry' = registry \ {t}
  /\ IF t \in tabs THEN RemoveTab(t) /\ Send(AfterLoss(t))
                   ELSE UNCHANGED <<order, active, hub, owes, bcast, join, calls>>
  /\ UNCHANGED <<viewer, orphaned, late, unshown, strayed>>

\* onTargetInfoChanged
HandleInfo(t) ==
  /\ IF t \in tabs THEN Schedule ELSE UNCHANGED bcast
  /\ UNCHANGED <<order, active, hub, owes, registry, join, calls, viewer, orphaned, late, unshown, strayed>>

\* create(), from Target.createTarget to Target.activateTarget
HandleCreated(m) ==
  /\ IF m.ok THEN Send(<<Cmd("activate", m.tab, m.next)>>) ELSE UNCHANGED calls
  /\ UNCHANGED <<order, active, hub, owes, bcast, registry, join, viewer, orphaned, late, unshown, strayed>>

\* create(), once its tab is activated; what close() and tabsMessage() go on to do
HandleMadeActive(m) ==
  /\ active' = m.tab
  /\ orphaned' = (m.tab \notin tabs) /\ unshown' = (active # m.tab /\ hub[m.tab] > 0 /\ Concerns(viewer, m))
  /\ Schedule
  /\ join' = IF m.next = Go("list", viewer.conn) /\ viewer.open THEN BeginFirstList ELSE Notice(join)
  /\ Send(IF m.next.what = "close" THEN <<CloseTab(m.next.arg)>> ELSE <<>>)
  /\ UNCHANGED <<order, hub, owes, registry, viewer, late, strayed>>

\* publishCatchUp(): the join payload, of a hub that has one
CatchUp(t) == IF hub[t] = 0 THEN UNCHANGED viewer ELSE Publish(Snapshot(t))

\* activate()
HandleActivated(m) ==
  /\ active' = m.tab
  /\ orphaned' = FALSE /\ unshown' = (unshown /\ active = m.tab)
  /\ Schedule /\ join' = Notice(join)
  /\ IF active = m.tab THEN UNCHANGED viewer ELSE CatchUp(m.tab)
  /\ UNCHANGED <<order, hub, owes, registry, calls, late, strayed>>

\* Nothing brings the mirror back from a tab that was clicked and is not activated.
Stray(t) == strayed' = (strayed \/ (viewer.tab = t /\ active # t))

\* An activation that was refused, or whose tab is gone.
HandleNotActivated(m) ==
  /\ orphaned' = (orphaned \/ active = None)
  /\ Stray(m.tab)
  /\ UNCHANGED <<order, active, hub, owes, bcast, registry, join, calls, viewer, late, unshown, strayed>>

\* close(), once Chromium has closed the tab
HandleClosed(m) ==
  /\ IF m.ok THEN RemoveTab(m.tab) /\ Send(Following(m.tab))
             ELSE UNCHANGED <<order, active, hub, owes, bcast, join, calls>>
  /\ UNCHANGED <<registry, viewer, orphaned, late, unshown, strayed>>

\* The gateway handles the next event or answer.
Handle ==
  /\ events # <<>>
  /\ events' = Tail(events)
  /\ LET m == Head(events) IN
     \/ m.e = "attached" /\ HandleAttached(m.tab)
     \/ m.e = "detached" /\ HandleDetached(m.tab)
     \/ m.e = "info" /\ HandleInfo(m.tab)
     \/ m.e = "create" /\ HandleCreated(m)
     \/ /\ m.e = "activate"
        /\ \/ m.next.what = "publish" /\ m.ok /\ m.tab \in tabs /\ HandleActivated(m)
           \/ m.next.what = "publish" /\ ~(m.ok /\ m.tab \in tabs) /\ HandleNotActivated(m)
           \/ m.next.what # "publish" /\ m.ok /\ HandleMadeActive(m)
           \/ m.next.what # "publish" /\ ~m.ok /\ HandleNotActivated(m)
     \/ m.e = "close" /\ HandleClosed(m)
  /\ UNCHANGED <<chrome, refused>> /\ Calm

\* A nav message: newtab, close, activate.  A tab that is unknown is refused.
NewTab ==
  /\ viewer.open /\ UserOp
  /\ Send(<<CreateTab(Done)>>)
  /\ UNCHANGED <<chrome, events, gateway, viewer, history>>

CloseReceived(t) ==
  /\ viewer.open /\ t \in tabs /\ UserOp
  /\ Send(IF tabs = {t} THEN <<CreateTab(Go("close", t))>> ELSE <<CloseTab(t)>>)
  /\ UNCHANGED <<chrome, events, gateway, viewer, history>>

\* of another viewer
ActivateReceived(t) ==
  /\ t \in tabs /\ UserOp
  /\ Send(<<Activate(t)>>)
  /\ UNCHANGED <<chrome, events, gateway, viewer, history>>

(* A click on the strip, whether connected or not: activate() (tabstrip.tsx) has the mirror
   turn to the tab, and then the nav sent. *)
Click(t) ==
  /\ t \in ToSet(viewer.ids) /\ UserOp
  /\ viewer' = [Selected(viewer, t) EXCEPT !.clicks = Append(@, t)]
  /\ strayed' = (strayed /\ viewer.tab = t)
  /\ UNCHANGED <<chrome, calls, events, gateway, refused, orphaned, late, unshown>>

\* routeUp() (roles.ts) drops the nav of a viewer that is not the driver.
ReceiveClick ==
  /\ viewer.open /\ viewer.clicks # <<>>
  /\ viewer' = [viewer EXCEPT !.clicks = Tail(@)]
  /\ LET t == Head(viewer.clicks) IN
     \/ t \in tabs /\ Send(<<Activate(t)>>) /\ UNCHANGED strayed
     \/ Stray(t) /\ UNCHANGED calls
  /\ UNCHANGED <<chrome, events, gateway, refused, orphaned, late, unshown, left>>

\* Mutant: without tabs there is nothing to list.
ListOfNone_Nothing == <<>>

\* tabsMessage() creates a tab if there is none.
ListOfNone == <<CreateTab(Done)>>

\* The timer of the broadcast: the list it starts with a new tab is outdated by that tab.
BroadcastTimer ==
  /\ bcast = "armed"
  /\ bcast' = IF tabs = {} THEN "idle" ELSE "listing"
  /\ Send(IF tabs = {} THEN ListOfNone ELSE <<>>)
  /\ UNCHANGED <<chrome, events, order, active, hub, owes, registry, join, viewer, history, left>>

\* A tab that close() has removed but whose page lingers holds up a first list.
HeldUp == \E t \in ToSet(join.ids) : t \in registry \ tabs

\* A list that names the active tab takes the mirror there.
Lead(a) == strayed' = (strayed /\ (a = None \/ ~viewer.open))

(* publishTabs(), when all icons are known: a page answers in order, so a first list
   that asked before is sent before. *)
PublishList ==
  /\ bcast = "listing"
  /\ join.phase = "listing" => HeldUp
  /\ bcast' = "idle"
  /\ Publish(TabsMsg(order, active))
  /\ late' = FALSE
  /\ Lead(active)
  /\ UNCHANGED <<chrome, calls, events, order, active, hub, owes, registry, join,
                 refused, orphaned, unshown, left>>

SendFirstList ==
  /\ join.phase = "listing"
  /\ \E a \in (join.seen \cap ToSet(join.ids)) \cup (IF Cardinality(join.seen) > 1 THEN {None} ELSE join.seen \cap {None}) :
       /\ Publish(TabsMsg(join.ids, a))
       /\ late' = (bcast = "idle" /\ (join.ids # order \/ a # active))
       /\ Lead(a)
  /\ join' = NoJoin
  /\ UNCHANGED <<chrome, calls, events, order, active, hub, owes, bcast, registry,
                 refused, orphaned, unshown, left>>

------------------------------------------------------------------------------
(* The hubs: only the active tab's output is published. *)

Output(t, m) == IF active = t THEN Publish(m) ELSE UNCHANGED viewer

\* The page changes, and its agent tells.
Ingest(t) ==
  /\ t \in tabs \cap chrome.pages
  /\ IF hub[t] = 0 THEN Calm ELSE OfPage
  /\ hub' = [hub EXCEPT ![t] = @ + 1]
  /\ Output(t, [t |-> IF hub[t] = 0 THEN "snapshot" ELSE "delta", tab |-> t, n |-> hub[t] + 1])
  /\ UNCHANGED <<chrome, calls, events, order, active, owes, bcast, registry, join, history>>

\* The snapshot that was asked for, once the page has recorded anything.
AnswerSnapshot(t) ==
  /\ t \in owes /\ hub[t] > 0
  /\ owes' = owes \ {t}
  /\ Output(t, Snapshot(t))
  /\ UNCHANGED <<chrome, calls, events, order, active, hub, bcast, registry, join,
                 history, left>>

\* resync-req (main.ts)
ReceiveAsk(t) ==
  /\ viewer.open /\ t \in viewer.asks
  /\ viewer' = [viewer EXCEPT !.asks = @ \ {t}]
  /\ owes' = IF t \in tabs THEN owes \cup {t} ELSE owes
  /\ UNCHANGED <<chrome, calls, events, order, active, hub, bcast, registry, join, history, left>>

------------------------------------------------------------------------------
(* Connections. *)

(* The join payloads of all tabs in their order: a mirror takes the first that is its
   tab's, of any tab if it shows none yet, and the others are not its. *)
Joined(v) ==
  LET i == SelectInSeq(order, LAMBDA t : hub[t] > 0 /\ Concerns(v, [tab |-> t])) IN
  IF i = 0 THEN v ELSE OnSnapshot(v, Snapshot(order[i]))

(* onConnection (main.ts) and addViewer (server.ts); a viewer that shows a tab asks for it
   when it is back (connectionRestored()), unless it did while it was away. *)
Connect ==
  LET back == [viewer EXCEPT !.open = TRUE, !.conn = @ + 1] IN
  /\ ~viewer.open
  /\ viewer' = Joined(IF viewer.tab = None THEN back ELSE Asking(back, viewer.tab))
  /\ IF tabs = {}
     THEN join' = NoJoin /\ Send(<<CreateTab(Go("list", viewer.conn + 1))>>)
     ELSE join' = [phase |-> "listing", ids |-> order, seen |-> {active}] /\ UNCHANGED calls
  /\ UNCHANGED <<chrome, events, order, active, hub, owes, bcast, registry, history, left>>

\* The socket breaks: onDisconnection at one end, connectionLost() at the other.
Break ==
  /\ viewer.open /\ Fault
  /\ viewer' = [viewer EXCEPT !.open = FALSE, !.waiting = FALSE, !.asks = {}, !.clicks = <<>>]
  /\ join' = NoJoin
  /\ UNCHANGED <<chrome, calls, events, order, active, hub, owes, bcast, registry, history>>

Next ==
  \/ Perform \/ Popup \/ Handle \/ NewTab \/ BroadcastTimer \/ PublishList \/ SendFirstList
  \/ Connect \/ Break \/ ReceiveClick
  \/ \E t \in Tab : Gone(t) \/ Retitle(t) \/ CloseReceived(t) \/ ActivateReceived(t)
                      \/ Click(t) \/ Ingest(t) \/ AnswerSnapshot(t) \/ ReceiveAsk(t)

Spec == Init /\ [][Next]_vars

------------------------------------------------------------------------------
(* Properties. *)

TypeOK ==
  /\ chrome.dying \subseteq chrome.pages /\ chrome.pages \subseteq 1..chrome.made
  /\ chrome.made \in Tab
  /\ IsInjective(order) /\ tabs \subseteq registry /\ registry \subseteq 1..chrome.made
  /\ active \in Tab \cup {None} /\ owes \subseteq tabs
  /\ hub \in [Tab -> Nat]
  /\ bcast \in {"idle", "armed", "listing"} /\ join.phase \in {"none", "listing"}
  /\ viewer.n \in Nat /\ viewer.tab \in Tab \cup {None} /\ viewer.asks \subseteq Tab

Creating ==
  \/ \E i \in DOMAIN calls : calls[i].do = "create"
  \/ \E i \in DOMAIN events : events[i].e = "attached"

(***************************************************************************)
(* A session is never left without a tab: when there is none, one is being *)
(* created or a list that would create it is due; even if the last two     *)
(* tabs are closed at once, each while the other one was still there.      *)
(* (Unless Chromium refuses to create it.)                                 *)
(***************************************************************************)
TabAlwaysComing == tabs = {} => Creating \/ bcast = "armed" \/ refused

Settled == calls = <<>> /\ events = <<>>

(***************************************************************************)
(* Tabs, order and the active id fit together, and with nothing under way  *)
(* a session that has tabs has an active one, whatever activations,        *)
(* creations and closes overlapped.  One case is set apart: the tab that   *)
(* was to become active had gone by then, or Chromium refused              *)
(* (`orphaned'), and nothing becomes active, or an id that is no tab's,    *)
(* until somebody activates a tab.                                         *)
(***************************************************************************)
OneIsActive == TypeOK /\ (Settled /\ tabs # {} /\ ~orphaned => active \in tabs)

Rested ==
  /\ Settled /\ bcast = "idle" /\ join.phase = "none" /\ tabs # {}
  /\ viewer.open /\ viewer.asks = {} /\ viewer.clicks = <<>> /\ owes = {}

(***************************************************************************)
(* Once nothing is under way, a connected viewer's tab strip lists the     *)
(* tabs and the active one, and its mirror shows that one, up to its last  *)
(* event: whether it was connected all along, its lists overtook the       *)
(* output of the tabs, or the other way round, and wherever its user's     *)
(* clicks had taken it before.  Three cases are set apart: a first list    *)
(* that a lingering tab held up until after the last change (`late'), a    *)
(* tab that create() activated without its catch-up while the mirror had   *)
(* no other tab to leave (`unshown'), and a tab that was clicked by a      *)
(* follower, or whose activation was refused: the mirror has left for a    *)
(* tab whose output is withheld, until the next list (`strayed').          *)
(***************************************************************************)
ViewersFollow ==
  Rested /\ ~late =>
    /\ viewer.ids = order /\ viewer.shows = active
    /\ active # None /\ hub[active] > 0 /\ ~unshown /\ ~strayed =>
         viewer.tab = active /\ ~viewer.waiting /\ viewer.n = hub[active]
==============================================================================
