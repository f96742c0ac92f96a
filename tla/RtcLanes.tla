------------------------------ MODULE RtcLanes ------------------------------
(***************************************************************************)
(* The signalling behind live canvases and videos: for one tab, a viewer's *)
(* mirror (viewer/src/mirror.ts, viewer/src/media/canvas-rtc.ts, with the  *)
(* socket of viewer/src/ws.ts), the relay of the gateway                   *)
(* (gateway/src/rtcsig.ts) and the recorder's lanes in the page            *)
(* (agent/src/canvas-rtc.ts).                                              *)
(*                                                                         *)
(* Each rebuild of the mirror is a generation with a "lane" of its own.    *)
(* The gateway keeps at most one lane per viewer and lets only that lane   *)
(* pass; the page keeps a peer connection for every lane it was asked      *)
(* about, until it is told to close it.  Three parties hold the same fact  *)
(* and none of them sees the others: the viewer reconnects under another   *)
(* name, the page navigates under the gateway, and a call the page refuses *)
(* comes back after later calls were made.                                 *)
(*                                                                         *)
(* SDP, ICE, media tracks and the sizes and shapes of messages are left    *)
(* out.  Viewers never touch each other's lanes, so the one client that is *)
(* modelled is one browser window with its successive connections.         *)
(***************************************************************************)
EXTENDS Naturals, Sequences, FiniteSets, SequencesExt

CONSTANTS
  MaxLanes,   \* rebuilds of the mirror (bound)
  MaxConns,   \* connections of the window (bound)
  MaxDocs,    \* documents of the page (bound)
  MaxAsks,    \* requests for media and signals of the viewer (bound)
  MaxSignals  \* signals of the page (bound)

ASSUME BoundsAssumption ==
  /\ MaxLanes \in Nat \ {0} /\ MaxConns \in Nat \ {0} /\ MaxDocs \in Nat \ {0}
  /\ MaxAsks \in Nat /\ MaxSignals \in Nat

Lane == 1..MaxLanes
ViewerId == 1..MaxConns
Pair == ViewerId \X Lane

VARIABLES
  conn,       \* the window's connection: its viewer id, 0 when there is none
  closing,    \* the socket is no longer open but its close event is not in yet
  conns,      \* connections made so far
  rtc,        \* lane of the mirror's live generation, 0 when it has none
  heard,      \* the generation's peer exists: it received a signal
  made,       \* lanes minted so far
  pending,    \* what was sent while the socket was not open
  up,         \* up[v]: on the wire from viewer v to the gateway
  down,       \* on the wire to the current connection
  here,       \* viewers the gateway knows
  lane,       \* lanesByViewer: the lane of each viewer for this tab, 0 for none
  attached,   \* pageByTab has the tab
  bridge,     \* the document whose bridge object the gateway holds
  cmds,       \* CDP commands on their way to the page
  events,     \* CDP events and answers on their way back
  doc,        \* the page's document, 0 once the tab is closed
  open,       \* lanes of the recorder in that document
  streams,    \* those of them that capture something
  asks, signals,
  stranded    \* (history) lanes the page has after the gateway dropped them

window == <<conn, closing, conns, rtc, heard, made, pending>>
gateway == <<here, lane, attached, bridge>>
page == <<doc, open, streams>>
budget == <<asks, signals>>
vars == <<window, up, down, gateway, cmds, events, page, budget, stranded>>

Message == [t: {"media", "signal", "close"}, lane: Lane]
Msg(t, l) == [t |-> t, lane |-> l]
Command == [t: {"media", "signal", "close"}, peer: ViewerId, lane: Lane, doc: 1..MaxDocs]
           \cup [t: {"acquire"}, doc: 1..MaxDocs]
Event == [t: {"context", "acquired"}, doc: 1..MaxDocs]
         \cup [t: {"signal", "failed"}, peer: ViewerId, lane: Lane]
         \cup [t: {"detached"}]

TypeOK ==
  /\ conn \in 0..MaxConns /\ conns \in 0..MaxConns /\ closing \in BOOLEAN
  /\ rtc \in 0..MaxLanes /\ made \in 0..MaxLanes /\ heard \in BOOLEAN
  /\ pending \in Seq(Message)
  /\ up \in [ViewerId -> Seq(Message)]
  /\ down \in Seq(Lane)
  /\ here \subseteq ViewerId
  /\ lane \in [ViewerId -> 0..MaxLanes]
  /\ attached \in BOOLEAN
  /\ bridge \in 1..MaxDocs
  /\ cmds \in Seq(Command) /\ events \in Seq(Event)
  /\ doc \in 0..MaxDocs
  /\ streams \subseteq open /\ open \subseteq Pair /\ stranded \subseteq Pair
  /\ asks \in 0..MaxAsks /\ signals \in 0..MaxSignals

Init ==
  /\ conn = 1 /\ conns = 1 /\ closing = FALSE
  /\ rtc = 0 /\ made = 0 /\ heard = FALSE
  /\ pending = <<>> /\ down = <<>>
  /\ up = [v \in ViewerId |-> <<>>]
  /\ here = {1}
  /\ lane = [v \in ViewerId |-> 0]
  /\ attached = TRUE /\ bridge = 1
  /\ cmds = <<>> /\ events = <<>>
  /\ doc = 1 /\ open = {} /\ streams = {}
  /\ asks = 0 /\ signals = 0 /\ stranded = {}

-----------------------------------------------------------------------------
(* The window.                                                             *)

\* The socket's send: on the wire when it is open, kept for the next
\* connection when it is not.  What is sent to a gateway that has already let
\* the viewer go is lost.
SocketOpen == conn # 0 /\ ~closing
Send(ms) ==
  /\ pending' = IF SocketOpen THEN pending ELSE pending \o ms
  /\ up' = IF SocketOpen /\ conn \in here THEN [up EXCEPT ![conn] = @ \o ms] ELSE up

\* disposeRtc: the lane is closed at the far end and its controller silenced.
Farewell_Silent == <<>>
Farewell == IF rtc = 0 THEN <<>> ELSE <<Msg("close", rtc)>>

\* A snapshot arrives: the old generation is discarded, the new one has a
\* fresh lane.
Rebuild ==
  /\ SocketOpen /\ made < MaxLanes
  /\ Send(Farewell)
  /\ made' = made + 1
  /\ rtc' = made + 1 /\ heard' = FALSE
  /\ UNCHANGED <<conn, closing, conns, down, gateway, cmds, events, page, budget, stranded>>

\* Another tab is selected, the replayer's construction fails or the mirror is
\* torn down.
Discard ==
  /\ rtc # 0
  /\ Send(Farewell)
  /\ rtc' = 0 /\ heard' = FALSE
  /\ UNCHANGED <<conn, closing, conns, made, down, gateway, cmds, events, page, budget, stranded>>

\* canvasFound, and onBuild for a video: the replayer built a node that wants
\* live media.
FindMedia ==
  /\ rtc # 0 /\ asks < MaxAsks
  /\ Send(<<Msg("media", rtc)>>)
  /\ asks' = asks + 1
  /\ UNCHANGED <<conn, closing, conns, rtc, heard, made, down, gateway, cmds, events, page,
                 signals, stranded>>

\* signalSend: the generation's peer, once it exists, has something to say.
SendSignal ==
  /\ rtc # 0 /\ heard /\ asks < MaxAsks
  /\ Send(<<Msg("signal", rtc)>>)
  /\ asks' = asks + 1
  /\ UNCHANGED <<conn, closing, conns, rtc, heard, made, down, gateway, cmds, events, page,
                 signals, stranded>>

\* rtc-sig in the mirror: only the live lane's controller takes it.
HearSignal ==
  /\ SocketOpen /\ down # <<>>
  /\ heard' = (heard \/ Head(down) = rtc)
  /\ down' = Tail(down)
  /\ UNCHANGED <<conn, closing, conns, rtc, made, pending, up, gateway, cmds, events, page,
                 budget, stranded>>

\* The socket leaves the open state; its close event follows.
SocketCloses ==
  /\ SocketOpen
  /\ closing' = TRUE /\ down' = <<>>
  /\ UNCHANGED <<conn, conns, rtc, heard, made, pending, up, gateway, cmds, events, page, budget,
                 stranded>>

\* onclose and connectionLost: the lane goes, its farewell waits for the next
\* connection.
ConnectionLost ==
  /\ conn # 0
  /\ conn' = 0 /\ closing' = FALSE /\ down' = <<>>
  /\ rtc' = 0 /\ heard' = FALSE
  /\ pending' = pending \o Farewell
  /\ UNCHANGED <<conns, made, up, gateway, cmds, events, page, budget, stranded>>

\* onopen and onConnection: a new viewer id, and what waited is sent first.
Reconnect ==
  /\ conn = 0 /\ conns < MaxConns
  /\ conns' = conns + 1 /\ conn' = conns + 1
  /\ here' = here \cup {conns + 1}
  /\ up' = [up EXCEPT ![conns + 1] = pending]
  /\ pending' = <<>>
  /\ UNCHANGED <<closing, rtc, heard, made, down, lane, attached, bridge, cmds, events, page,
                 budget, stranded>>

-----------------------------------------------------------------------------
(* The gateway.                                                            *)

\* callAgentBridge: the call names the bridge object the gateway holds now.
Call(t, v, l) == [t |-> t, peer |-> v, lane |-> l, doc |-> bridge]

\* handleViewer, "close": a farewell of another generation closes nothing.
RelayClose(v, l) ==
  IF attached /\ lane[v] = l
    THEN /\ lane' = [lane EXCEPT ![v] = 0]
         /\ cmds' = Append(cmds, Call("close", v, l))
    ELSE UNCHANGED <<lane, cmds>>

\* handleViewer, "signal": no lane is opened by one, nor replaced.
RelaySignal(v, l) ==
  /\ cmds' = IF attached /\ lane[v] = l THEN Append(cmds, Call("signal", v, l)) ELSE cmds
  /\ UNCHANGED lane

\* handleViewer, "canvas" and "video": the lane is opened.  The code closes a
\* lane of another generation first; OneGeneration shows there never is one.
RelayMedia(v, l) ==
  IF attached
    THEN /\ lane' = [lane EXCEPT ![v] = l]
         /\ cmds' = Append(cmds, Call("media", v, l))
    ELSE UNCHANGED <<lane, cmds>>

HandleViewer(v) ==
  /\ v \in here /\ up[v] # <<>>
  /\ LET m == Head(up[v])
     IN  \/ m.t = "close" /\ RelayClose(v, m.lane)
         \/ m.t = "signal" /\ RelaySignal(v, m.lane)
         \/ m.t = "media" /\ RelayMedia(v, m.lane)
  /\ up' = [up EXCEPT ![v] = Tail(@)]
  /\ UNCHANGED <<window, down, here, attached, bridge, events, page, budget, stranded>>

\* onDisconnection and removeViewer: the gateway learns, sooner or later than
\* the window does, that the connection is over.
CloseLane_Untold(v) == <<>>
CloseLane(v) == IF attached /\ lane[v] # 0 THEN <<Call("close", v, lane[v])>> ELSE <<>>
RemoveViewer(v) ==
  /\ v \in here
  /\ here' = here \ {v}
  /\ lane' = [lane EXCEPT ![v] = 0]
  /\ cmds' = cmds \o CloseLane(v)
  /\ up' = [up EXCEPT ![v] = <<>>]
  /\ UNCHANGED <<window, down, attached, bridge, events, page, budget, stranded>>

\* The page's lanes once it has run what is on its way to it.
Closed(q, n) == \E j \in (n + 1)..Len(cmds) :
                  cmds[j].t = "close" /\ <<cmds[j].peer, cmds[j].lane>> = q /\ cmds[j].doc = doc
Opens(i) == cmds[i].t \in {"media", "signal"} /\ cmds[i].doc = doc
PageWillHave ==
  {q \in open : ~Closed(q, 0)}
  \cup {<<cmds[i].peer, cmds[i].lane>> : i \in
          {k \in DOMAIN cmds : Opens(k) /\ ~Closed(<<cmds[k].peer, cmds[k].lane>>, k)}}

\* handleViewer's catch: a call that failed takes the lane with it if it is
\* still the viewer's, whatever was sent on the lane since.
CallFailed(v, l) ==
  /\ lane' = IF lane[v] = l THEN [lane EXCEPT ![v] = 0] ELSE lane
  /\ stranded' = IF lane[v] = l THEN stranded \cup (PageWillHave \cap {<<v, l>>}) ELSE stranded

\* The recorder's signals reach the viewer only on its current lane.
RelayToViewer(v, l) ==
  down' = IF lane[v] = l /\ v \in here /\ v = conn /\ ~closing THEN Append(down, l) ELSE down

HandleEvent ==
  /\ events # <<>>
  /\ LET e == Head(events)
     IN  \/ /\ e.t = "context"                     \* the new document's bridge is asked for
            /\ cmds' = Append(cmds, [t |-> "acquire", doc |-> e.doc])
            /\ UNCHANGED <<lane, attached, bridge, down, stranded>>
         \/ /\ e.t = "acquired"
            /\ bridge' = e.doc
            /\ UNCHANGED <<lane, attached, cmds, down, stranded>>
         \/ /\ e.t = "failed"
            /\ CallFailed(e.peer, e.lane)
            /\ UNCHANGED <<attached, bridge, cmds, down>>
         \/ /\ e.t = "signal"
            /\ RelayToViewer(e.peer, e.lane)
            /\ UNCHANGED <<lane, attached, bridge, cmds, stranded>>
         \/ /\ e.t = "detached"                    \* removeTabLanes
            /\ attached' = FALSE
            /\ lane' = [v \in ViewerId |-> 0]
            /\ UNCHANGED <<bridge, cmds, down, stranded>>
  /\ events' = Tail(events)
  /\ UNCHANGED <<window, up, here, page, budget>>

-----------------------------------------------------------------------------
(* The page.                                                               *)

Emit(es) == events' = events \o es

\* receiveSignal, "close".
DisposeLane(q) ==
  /\ open' = open \ {q} /\ streams' = streams \ {q}
  /\ Emit(<<>>)

\* receiveSignal, "signal": a lane the document does not have is created.
TakeSignal(q) ==
  /\ open' = open \cup {q}
  /\ UNCHANGED streams
  /\ Emit(<<>>)

\* receiveSignal, a request for media: the node is captured, or it cannot be,
\* which a video is told about and which ends a lane without any capture.
Capture(q) ==
  /\ open' = open \cup {q} /\ streams' = streams \cup {q}
  /\ Emit(<<>>)
Refuse(q, notice) ==
  /\ open' = IF q \in streams THEN open ELSE open \ {q}
  /\ UNCHANGED streams
  /\ Emit(IF notice THEN <<[t |-> "signal", peer |-> q[1], lane |-> q[2]]>> ELSE <<>>)

\* One command at the page.  A bridge object dies with its document, and a
\* call on a dead object fails.
RunCommand ==
  /\ cmds # <<>>
  /\ LET c == Head(cmds)
         q == <<c.peer, c.lane>>
     IN  \/ /\ c.t = "acquire"
            /\ Emit(IF c.doc = doc THEN <<[t |-> "acquired", doc |-> doc]>> ELSE <<>>)
            /\ UNCHANGED <<open, streams>>
         \/ /\ c.t # "acquire" /\ c.doc # doc
            /\ Emit(IF c.t = "close" THEN <<>>
                                     ELSE <<[t |-> "failed", peer |-> c.peer, lane |-> c.lane]>>)
            /\ UNCHANGED <<open, streams>>
         \/ c.t = "close" /\ c.doc = doc /\ DisposeLane(q)
         \/ c.t = "signal" /\ c.doc = doc /\ TakeSignal(q)
         \/ c.t = "media" /\ c.doc = doc /\ (Capture(q) \/ \E n \in BOOLEAN : Refuse(q, n))
  /\ cmds' = Tail(cmds)
  /\ UNCHANGED <<window, up, down, gateway, doc, budget, stranded>>

\* A lane's peer has something to say.
PageSignal ==
  /\ signals < MaxSignals
  /\ \E q \in open : Emit(<<[t |-> "signal", peer |-> q[1], lane |-> q[2]]>>)
  /\ signals' = signals + 1
  /\ UNCHANGED <<window, up, down, gateway, cmds, page, asks, stranded>>

\* A new document: the recorder, its lanes and its bridge go with the old one.
Navigate ==
  /\ doc # 0 /\ doc < MaxDocs
  /\ doc' = doc + 1 /\ open' = {} /\ streams' = {}
  /\ Emit(<<[t |-> "context", doc |-> doc + 1]>>)
  /\ stranded' = {}
  /\ UNCHANGED <<window, up, down, gateway, cmds, budget>>

\* The tab is closed.
TabCloses ==
  /\ doc # 0
  /\ doc' = 0 /\ open' = {} /\ streams' = {}
  /\ Emit(<<[t |-> "detached"]>>)
  /\ stranded' = {}
  /\ UNCHANGED <<window, up, down, gateway, cmds, budget>>

Next ==
  \/ Rebuild \/ Discard \/ FindMedia \/ SendSignal \/ HearSignal
  \/ SocketCloses \/ ConnectionLost \/ Reconnect
  \/ \E v \in ViewerId : HandleViewer(v) \/ RemoveViewer(v)
  \/ HandleEvent
  \/ RunCommand \/ PageSignal \/ Navigate \/ TabCloses

Spec == Init /\ [][Next]_vars

-----------------------------------------------------------------------------
(* Properties.                                                             *)

\* The lanes that remain open once the messages ms have been read, starting
\* with lane l (0 for none).
ClosedLater(ms, l, n) == \E j \in (n + 1)..Len(ms) : ms[j] = Msg("close", l)
LeftOpen(l, ms) ==
  {k \in {l} \ {0} : ~ClosedLater(ms, k, 0)}
  \cup {ms[i].lane : i \in {k \in DOMAIN ms : ms[k].t = "media" /\ ~ClosedLater(ms, ms[k].lane, k)}}

\* The generations of a window follow each other without overlapping, across
\* reconnections too: when the gateway reads a request for media it holds no
\* lane of another generation of that viewer, and once it has read everything
\* the window sent it holds at most the lane of the live generation.  What
\* waits for the next connection leaves no lane of the lost one behind.
OneGeneration ==
  /\ TypeOK
  /\ \A v \in here : \A i \in DOMAIN up[v] :
       up[v][i].t = "media" =>
         LeftOpen(lane[v], SubSeq(up[v], 1, i - 1)) \subseteq {up[v][i].lane}
  /\ SocketOpen /\ conn \in here => LeftOpen(lane[conn], up[conn]) \subseteq {rtc}
  /\ ~SocketOpen => LeftOpen(0, pending) \subseteq {rtc} \ {0}

\* The page keeps no lane the gateway has let go of: each lane it will have
\* once it has run what is on its way is the current lane of a viewer that is
\* connected, except the ones stranded by CallFailed.
PageFollowsGateway ==
  \A q \in PageWillHave : q \in stranded \/ (q[1] \in here /\ lane[q[1]] = q[2])
=============================================================================
