# Specifications of remote-browser

remote-browser runs Chromium in a container and lets several people watch and drive it.
An agent inside the page records the DOM with rrweb; a gateway keeps the recording of every
tab, and fans it out over WebSockets; each viewer replays it, sends input back, and falls back
to a pixel stream when replay keeps failing.  The hard part is not any one message but
the protocol around them: a replica is only right if it is one snapshot followed by every
event after it, and everything (navigation, backpressure, drops, reconnections, resizes,
failing replays, mode changes) tries to break that.

The modules here model that protocol from the code under `src/packages`, TLC checks them on
small instances, and TLAPS proves the safety of the hub, the mirrors, the driver and viewport gate, the
input path, the tabs, the sessions, the uploads and the agent link for every value of their constants.
File names below are relative to `src/packages`, `g/` is `gateway/src/`, `v/` is `viewer/src/`,
`a/` is `agent/src/` and `p/` is `protocol/src/`.

## 1. Inventory

| component | state it keeps | operations | what makes it hard | correct when |
|---|---|---|---|---|
| Tab hub, `g/hub/tabhub.ts` | document id, epoch, sequence number, last Meta and FullSnapshot, delta buffer, half-arrived pair, snapshot request (pending and queued reason, attempt, three timers, backoff) | ingest, joinPayload, requestSnapshot, noteInput, timers, command failure | late answers of dead attempts, navigation between the halves of a pair, requests that overlap | a join equals the live stream; no snapshot that is needed is forgotten; nothing of a dead document survives |
| Tabs of a session, `g/session/tabs.ts` | tab map, order, active tab, broadcast version | attach, detach, activate, create, close, list | every operation awaits CDP, others interleave | one active tab that exists, never zero tabs, no output of a hidden tab |
| Fan-out, `g/ws/server.ts`, `viewerconn.ts` | pending batch per tab, per viewer stall flag, drain timer, replay cursors | publish, flush, addViewer, removeViewer, send, drain | a viewer joins or drains while a batch is pending; deltas dropped under backpressure | each viewer gets every event once, or a snapshot instead |
| Roles, `g/ws/roles.ts` | peers, driver, last viewport of each | connect, disconnect, transfer, route | the driver leaves or hands over with messages in flight | one driver whenever somebody invited is present |
| Viewport agreement, `g/hub/viewport.ts` | desired, applied and applying revision, in-flight flag, timers; gate: pending, required epoch, acknowledgements | view, view-ack, noteSnapshot, apply, retry, onDriverChange | override answers, snapshots and acknowledgements of older sizes arrive late | input passes only at the geometry the driver sees, and is not locked for ever |
| Pixel mode, `g/px.ts`, `v/pxview.tsx` | mode and screencast flag, last frame, queue; the viewer's modes and canvas | setMode, frame, navigation, paint | start and stop are awaited while frames and mode changes arrive | the viewer looks at what the tab's mode says |
| Mirror, `v/mirror.ts` | replica (epoch, sequence number), waiting flag, replayer | handle, rebuild, connectionLost/Restored | messages during a rebuild, replays that throw, older epochs | the replica is contiguous, or the mirror waits and somebody is bringing a snapshot |
| Resync controller, `v/resync.ts` | times of requests, backoff, storm | request, dispatch, recovered, degrade | delayed requests overtaken by snapshots | rate limit kept, no frozen mirror forgotten |
| Viewer app and socket, `v/app.tsx`, `v/ws.ts`, `v/chrome/tabstrip.tsx` | messages queued offline, role, tabs as last listed | routing, reconnect, click on a tab | what was queued for one connection goes to the next, while the gateway still reads the previous one; a click turns the mirror before the gateway has decided | what a viewer did arrives in its order, whatever reconnects; a mirror that left for a tab comes back to the active one |
| Input relay, `g/input/relay.ts` | one promise chain per tab | dispatch | authority is checked before awaits; commands that time out still run | per-tab order, at most one late event per change of driver |
| Agent link, `g/browser/agentlink.ts`, `p/chunk.ts` | document, pending commands, bridge promise, partial messages | binding called, sendCmd, attach, detach | late answers, reused context ids, lost chunks | the hub reads each document unbroken; an answer settles its own command, and every command is settled |
| Local echo and scroll, `v/pipeline/*.ts`, `v/rebuild-restore.ts` | per field: window, timer, held-back value; per scroller: throttle, expected position, held-back position | input, filter, decay, localScroll, reset, capture, restore | server state of an older moment arrives while the user types or scrolls, and a snapshot rebuilds everything | once windows are over, field and scroller are where the page has them |
| Sessions, `g/session/manager.ts`, `dockerhost.ts` | records, status, failures, cleanup promise; containers | create, launch, destroy, reap, checkLiveness, close | each awaits the container runtime, which may refuse | no container leaks, a record outlives its container and not by much |
| Uploads, `g/uploads.ts`, `v/uploads.ts` | pending chooser, batch, timers, directories; staged keys and picks per tab | open, claim, extend, write, abandon, set files, close; pair | pick and chooser in any order; a batch ends while a body is written; two windows that believe they drive | an input gets one whole pick or a cancel, nothing stays on disk |
| Downloads, `g/downloads.ts` | records, one-time links | begin, progress, claim, expire | - | a link works once |
| WebRTC signalling, `v/mirror.ts`, `g/rtcsig.ts`, `a/canvas-rtc.ts` | a lane at the mirror, one per viewer at the relay, peers in the page | media, signal, close, removeViewer, binding called, navigation | three parties hold the same fact; calls of a page that is gone fail late | generations do not overlap; the page keeps no lane the relay has dropped |
| Asset plane, `g/assets/*.ts` | blobs, keys, sizes | get, put, evict | eviction against open readers | byte ceiling, key and blob index agree |
| Page agent, `a/*.ts` | rrweb recorder, command table, queue of chunks | hello, emit, commands | starts before its binding and its recorder are ready | an answered snapshot precedes its answer |
| Access control, static serving, types, chrome, deployment | little or none | - | - | - |

How they interact: the agent's messages arrive through the agent link at the hub (an async
iterator, in order).  What the hub publishes goes, if the tab is active and in DOM mode
(`g/session/tabs.ts:253-264`), to the fan-out, which batches deltas for 30 ms and hands them to one
`ViewerConn` per viewer.  Upward messages go through the role table to `main.ts`, which calls
the hub (`resync-req`), the viewport agreement (`view`, `view-ack`), pixel mode (`mode`), the
input relay and the rest.  The gateway is one event loop: a callback runs to its first `await`
without interruption, and that is the atomicity of the actions here.

`PROJECT.json` lists the hazards at their lines with the properties that catch them.

## 2. Modules

| module | models | actions and the code they stand for |
|---|---|---|
| `HubStream` | what a tab's hub promises: epochs that open with a snapshot and continue with numbered deltas | `OpenEpoch`, `AppendDelta`, `CloseDocument`; `JoinPayload` is `joinPayload()` |
| `TabHub` | `g/hub/tabhub.ts` whole | `Ingest*` are the branches of `ingest()`, `OpenPendingSnapshot` the private method, `RequestFromGateway` is `requestSnapshot`, the three timers, `CommandRejected` the `.catch` of a listener, `NoteInput` |
| `MirrorStream` | `HubStream` composed with `Fanout`, `ViewerConn`, a socket and a `Mirror` per viewer | `Mutate`/`Checkout`/`Answer`/`Navigate` publish, `Hide`/`Show` are tab switches and pixel mode as the stream sees them, `Forget` is `failSnapshotRequest()` of a request whose reason is not retried (what `TabHub` shows), `Connect`, `Disconnect`, `Drained`, `FlushTimer`, `Deliver`, `SendRequest`, `ReceiveRequest` |
| `DriverViewport` | `g/ws/roles.ts`, `g/hub/viewport.ts` and the viewer's side in `v/app.tsx`, `v/chrome/presence.tsx` | `View` and `Acknowledge` are `handle()`, `ApplyOverride`/`Override`/`OverrideApplied`/`OverrideRefused` the awaits of `apply()`, `SnapshotArrives` is `noteSnapshot()`, `RetrySnapshot`, `ReceiveUp`, `Connect`, `Disconnect`, `AskTransfer` |
| `PixelFallback` | `v/resync.ts`, `g/px.ts`, `v/pxview.tsx` and the host element they share with the mirror | `ResyncTimer`, `BeginMode`/`StartScreencast`/`ScreencastStarted`/`StartRefused`/`ScreencastStopped`/`StopRefused` (the awaits of `applyMode`), `Frame`, `Navigate`, `Forget`, `Deliver` (with `HandleSnapshot`, `HandleDelta`, `HandleMode`, `HandleFrame`), `ReceiveUp`, `AskMode`; `Reconnect` is `connectionLost()`, which shows a status instead of a canvas if there is no replayer, and `connectionRestored()` |
| `AgentLink` | the agent of a page (`a/index.ts`, `a/commands.ts`, `a/emit.ts`), `p/chunk.ts`, `g/browser/inject.ts`, `g/browser/bridge.ts` and `g/browser/agentlink.ts` | `Navigate`, `BindWorld`, `Flush`, `StartRecording`, `ResumeSnapshot`, `SnapshotTimeout`, `Mutate` in the page (once the recorder has started, the commands that waited for it are microtasks: no task of the page, `PageIdle`, comes before them); `Perform` is Chromium executing a CDP call; `Receive` is `Runtime.bindingCalled` or the answer of a CDP call; `SendCmd`/`BridgeAwaited`/`CommandTimeout` are the parts of `sendCmd`; `Attach`, `Detach` |
| `InputPath` | `v/ws.ts`, the connections and the driver (`g/ws/roles.ts`), `g/input/relay.ts` with `resolveNode`, up to Chromium | `MakeInput` is `send()`, `Connect`, `Break`, `Disconnect`, `ReceiveUp`, `HandOver`; `Dispatch`, `Locate`, `Send`, `Resolve`, `CommandTimeout` are the parts of `dispatch()` between awaits, `Execute` the agent's, `Replace` a new CDP session |
| `Tabs` | `g/session/tabs.ts`, what `g/main.ts` sends a new connection, and a viewer's strip and mirror, which follow it and which its user turns to other tabs | `Perform` is Chromium executing a browser command; `Handle` is one event or answer, with the rest of `create()`, `activate()`, `close()` or `tabsMessage()` after its await; `NewTab`, `CloseReceived`, `ActivateReceived` their beginnings; `BroadcastTimer`/`PublishList` the debounced list, `SendFirstList` a connection's; `Ingest` the ingest loop with `Output`, `AnswerSnapshot`, `ReceiveAsk`; `Click` is the strip's `activate()` (`mirror.selectTab()` at once, then the nav, queued if the socket is down), `ReceiveClick` its nav at `routeUp()`, which drops a follower's |
| `Sessions` | `g/session/manager.ts` and `g/session/dockerhost.ts` | `Create`, `MakeContainer`, `StartContainer`, `Connected`, `LaunchFails`, `KillLaunched`, `RemoveLaunched` are the awaits of `create()` and `launch()`; `CloseGracefully`, `CloseInVain`, `Kill`, `RemoveContainer`, `RemoveRefused`, `CleanedUp` those of `cleanup()`; `Destroy`, `Expire`, `Reap`, `Beat`, `BeatAnswered`, `BeatMissed`, `Close` |
| `RtcLanes` | `v/mirror.ts` and `v/media/canvas-rtc.ts`, `v/ws.ts`, `g/rtcsig.ts`, `a/canvas-rtc.ts` | `Rebuild`, `Discard`, `FindMedia`, `SendSignal`, `HearSignal`, `SocketCloses`, `ConnectionLost`, `Reconnect` in the window; `HandleViewer`, `RemoveViewer`, `HandleEvent` at the relay; `RunCommand`, `PageSignal`, `Navigate`, `TabCloses` in the page |
| `Uploads` | `g/uploads.ts`, `v/uploads.ts` and the role they see in `v/app.tsx` | `HandleEvent` is `openChooser()`, `offNavigation`, `onDetached`; `Upload`, `MakeDirectory`, `BodyArrives`, `TakeFiles`, `Finish`, `Break` the awaits of `upload()`; `TimeOut`, `RemoveDirectory`, `CancelArrives` what `abandon()` starts; `HandlePick`, `Select`, `ForgetPick`, `ForgetSelection`, `LearnRole` the window |
| `LocalEcho` | `v/pipeline/echo.ts`, `v/pipeline/scroll.ts`, `v/input/change.ts`, the captures of `v/rebuild-restore.ts` and the agent's `value` and `scroll` commands | `Type`, `EndComposition`, `Blur`, `DecayTimer`, `UserScrolls`, `NativeScroll` (`localScroll()`), `ThrottleTimer`, `SnapTimer`; `Hear` is the pipeline with `HearValue`, `HearScroll`, `Rebuild`; `ReceiveValue`, `ReceiveScroll`, `PageSets`, `PageScrolls`, `TakeSnapshot` the page |
| `TabHubProofs`, `MirrorStreamProofs`, `DriverViewportProofs`, `InputPathProofs`, `TabsProofs`, `SessionsProofs`, `UploadsProofs`, `AgentLinkProofs` | the theorems about the module each is named after, and their proofs | |
| `MC*` | instances for TLC | |

`TabHub` implements `HubStream` (checked and proved), and `MirrorStream` is built on `HubStream`,
so what it shows of the viewers holds of the real hub's output: that is why the mirror module
needs no request timers and the hub module no viewers.  `AgentLink` shows (`StreamFaithful`) that the hub is fed whole
documents in order; `TabHub` is checked for any order all the same, because the agent's side is a page.  `InputPath` leaves the geometry to
`DriverViewport`: there the gate is exact and an input is one step, here the gate may refuse at will and an input takes as many steps as it has awaits.
`Tabs` takes a tab's stream as `MirrorStream` leaves it (nothing is lost on the way but by a hidden tab) and asks which tab's stream it is.
`RtcLanes`, `Uploads` and `LocalEcho` each follow one fact through three parties: window, gateway and page.  `Sessions` is below all of them: a container per session.

Abstractions.  An event is its number (`MirrorStream`) or its document and a content
(`TabHub`).  A byte count is a number per content.  Time is an armed timer that may fire at any moment,
except in `PixelFallback`, whose property is about a rate: there it is what is left of each delay and
the age of each request, in ticks.  A socket is a FIFO that may break and lose what it holds; `bufferedAmount` is
its length.  CDP is a FIFO to Chromium and one back (`AgentLink`); `InputPath` keeps the order of events and of commands separately,
since the browser process injects the first and the renderer runs the second.  A geometry is a model value.  Expiry of a session, of a chooser or of a suppression window is a step that may
come at any moment after it is due.  What rrweb does with an event, and how Chromium lays out
a page, is external: an event is applied or throws.

## 3. What the runs check

Bounds are chosen so that every pair of interesting disturbances can meet; each bound is
a named constant and limits how much happens, never what may happen in a state.

| run | question | bounds |
|---|---|---|
| `hub` | Is the canonical state right and is a needed snapshot always pursued, whatever arrives? | 2 documents, 2 contents (one over the byte limit alone), limits of 1 event and 2 bytes, 2 epochs, 5 attempts, 2 commands pending, retry delay 2 to 7 (odd and no multiple, so that the doubling meets the cap between two powers) |
| `mirror` | Is no replica corrupt, does no loss go unnoticed, does everybody end up with the page? | 2 viewers, 3 events, stall above 1 waiting message, 2 disturbances (navigation, checkout, hidden tab, dropped request, broken socket, failing replay).  2 viewers because a flush for one is what may hurt the other; 3 events because a batch with a hole needs three |
| `viewport` | Does input reach the page only at the geometry its driver looks at, and is the lock always released? | 2 viewers, 2 sizes, 2 disturbances in every mix of user actions (resize, transfer, leave) and faults (refused override, forgotten request, failing replay, hidden tab) |
| `link` | Does the hub read each document unbroken, and is every command settled by its own answer or rejected? | 2 documents, the second in the context of the first or in one of its own; 2 calls, one of them for a snapshot (so that one may have the other's answer); 1 mutation besides the snapshots, which are two chunks each; 1 of: a binding call twice, a late hello, a child frame's hello, a detach, an attach; 2 completed messages remembered for 1024 |
| `input` | Does input reach the page in the order it was made in, and how much of a former driver's? | 2 viewers, 2 inputs of any kind (order is about pairs), 3 of: broken socket, hand-over, lost or replaced session (a viewer that returns and is handed control needs two and one more) |
| `tabs` | Does a session always get a tab again, is one of its tabs active, and is that what a viewer shows? | 3 tabs, 1 or 2 to begin with; 2 disturbances in every mix of operations (create, close, activate, click), pages (go, popup, output after the snapshot) and faults (refusal, crash, broken socket): two, because the hazards are about pairs of operations that overlap |
| `sessions` | Does every container have an owner, does a record last as long as its container, and does what died or expired go? | 2 names, 2 launches (of one name or of two), 2 missed heartbeats end a session, 2 faults (a call that fails, a browser that dies) |
| `rtc` | Do generations of a viewer's lane overlap, and does the page keep a lane the gateway let go of? | 2 generations, 2 connections, 2 documents, 3 messages of the window, 1 signal of the page |
| `uploads` | Does an input get one whole pick or a cancel, does every chooser end, and does anything stay on disk? | 2 windows, 2 tabs, 2 choosers, 2 picks of 1 or 2 files, 1 upset (a document goes, the driver changes, a staged half expires, the gateway stops); windows and tabs are symmetric |
| `echo` | Are field and scroller where the page has them once windows are over? | 3 values, 3 places, up to 3 acts of the user, 2 of the page and 1 snapshot, 5 in all, in every mix |
| `pixel` | Do requests stay in their rate, is a frozen mirror always being repaired, and does the viewer look at the mode of the tab? | window 3, 2 requests (so that the third storms), 4 disturbances in mixes of user actions and faults |

Properties of `hub`: `JoinMatchesLive` (a viewer that joins and one that missed nothing hold the
same replica), `SnapshotPursued` (a snapshot that a new document or a pending resync needs is in flight or
about to be retried), `TimersConsistent` (with the bounds of the delay), `HeldByCurrentDocument`, `GrowthIsPursued`,
`ImplementsStream` (refinement of `HubStream`).

Properties of `mirror`: `ReplicaContiguous`, `NoGapReachesMirror` (the gateway drops for slow viewers but
never makes a healthy one ask), `QuietMeansInStep` (nothing on its way means nothing
missing), `EpochNeverGoesBack`, and the liveness `EventuallyMirrored`.  That one sets a case apart, recorded in `forgot`: the hub accepted a
resync request and dropped it, because the request for a trim or a new viewport that it waited behind failed
(`g/hub/tabhub.ts:313-318`, step `Forget`; the run `hub_resync_lost` shows how it comes about).  A mirror that waits for that answer stays behind, and no other
does.  The case ends with the next epoch, the next document or the next request the hub receives, so that a viewer that asks again is pursued again.

Properties of `viewport`: `InputMatchesGeometry`, `UnlocksAtFinalGeometry` (an action property: the lock
opens only on a snapshot of the size wanted last), `SomebodyDrives`, `LockIsPursued`, and the liveness
`DriverEventuallyUnlocked`.  `DriverEventuallyUnlocked` sets one case apart: the replay of the very snapshot that
has to be acknowledged throws, nobody sends another of that kind, and the driver stays
locked until it resizes (`AckMissed`).

Properties of `pixel`: `RateLimited`, `FrozenIsPursued`, `ShownAsAnnounced` (the liveness: a tab that stays in a mode is looked at in it, in step).  Set apart are the
controller's own policy (a stormed tab), a viewer that lost what was withheld during the start of a screencast that
was then refused (`missed`; `g/px.ts:95-113` publishes nothing to make up for it), a request the hub received and dropped (`forgot`,
as in `mirror`: the viewer is in step or waits, and in either case no pixels cover its mirror), and the viewer that
reconnected during pixel mode (`cutoff`, see below): one without a replayer has even lost its canvas to the status that `connectionLost()` renders.

Properties of `link`: `StreamFaithful`, `AnswersMatch` (late answers, answers after a navigation or of an old session settle nobody
else's call), `SnapshotBeforeAnswer`, `NoCommandForgotten`, `FollowsPage`.  A navigation's rejection is about commands that were sent; one that still waits
for its bridge is sent to the document that is canonical by then.

Properties of `input`: `InputInOrder`, `ValuesInOrder`, `OneStraggler`.  The two orders set one case apart, recorded in `ghost`: control
coming (by hand-over, or because it is next when the driver's connection ends, `g/ws/roles.ts:134-139`) to a connection whose viewer had left it
while the gateway had not noticed; input that this connection still delivers may then
follow what the viewer sent on its next.  The second way takes four disturbances, one more than the run has: the proof met it first,
and TLC confirms it on the larger instance.  A driver that loses control may have one event in the relay, authorised and being located; `OneStraggler` bounds
that, and excludes commands: those that timed out stay with the page (`g/input/relay.ts:105`) and may be executed later, in order.

Properties of `tabs`: `TabAlwaysComing`, `OneIsActive`, `ViewersFollow`.  Each sets apart what the code does not
pursue, in a history variable: a creation that Chromium refused (`refused`), the neighbour of a closed tab that went before it could take over, or whose activation was refused
(`orphaned`), a first list made before the last change (`late`), a tab that `create()` activated after its snapshot was withheld (`unshown`), and
a tab that the viewer's user clicked and that did not become active (`strayed`): the mirror left for it at once, its output is withheld, and the
resync it asked for is answered by nothing that is published.  `strayed` is set where it comes about, when the nav is dropped or its activation refused while the
mirror stands on that tab, and ends with the next list that reaches the viewer and names an active tab, and with a click on another tab.  A click that is
forwarded and performed, one that a later click or a list overtakes, and one that waits out a broken connection are not set apart.

Properties of `sessions`: `NoContainerLost`, `ForgottenWhenGone`, and the liveness `DeadAndExpiredGo`.  Set apart are containers whose removal the
runtime refused (`refused`) and records that another session's `destroy()` deleted (`usurped`); both are the code's, see below.

Properties of `rtc`: `OneGeneration`, which looks at the messages on their way as well as at the lanes, and `PageFollowsGateway`, which sets apart the
lanes that a late failure of another document's call dropped (`stranded`).

Properties of `uploads`: `WholePicks` (the input gets the files of one pick, made on its tab, in order; no pick goes to two inputs), `ChooserEnds`, `NothingLeft`, which sets
apart a directory made again by the `mkdir` of a request whose batch was already removed (`late`), and says of every other batch that is over,
whatever its request is still at, that its directory is gone or its removal under way.

Properties of `echo`: `FieldReconciled`, `ScrollReconciled`.  Set apart (`astray`) is what the page does not tell: an edit or a
scroll that changed nothing there; and where the code decides against the page, see below.

Every run checks the type invariant of its module, as the first conjunct of one of these properties.

### Where the code and its own words disagree

| run | what it shows |
|---|---|
| `hub_resync_lost` | A resync that queued behind a trim or viewport request is dropped when that request fails: `failSnapshotRequest` looks at the pending reason only (`g/hub/tabhub.ts:317`) |

It checks one property that quotes the line it comes from; the source is named in `PROJECT.json`, "findings".

Others were met while modelling.  The modules take these steps, and the passing properties name the case they leave out, so that each would
surface again as a violation of a property without that exception:

| where | what the code does | what it says |
|---|---|---|
| `g/session/tabs.ts:258` | A resize in pixel mode locks the driver until the tab is back in DOM mode, because the unlocking snapshot is withheld (`DriverEventuallyUnlocked` says "if shown") | `docs/architecture.md:97`: "Pixel input uses the same authorized control path." |
| `g/ws/roles.ts:173` | The button "Request driver" sends a transfer to oneself, and the gateway drops a transfer from anybody but the driver (`AskTransfer` never changes the driver) | `v/chrome/presence.tsx:39-41` |
| `g/ws/server.ts:184` | A viewer that connects to a tab in pixel mode is told nothing of the mode (`cutoff` in `PixelFallback`) | `docs/architecture.md:112`: "pixel mode provides a user-visible fallback." |
| `v/app.tsx:138` | Degrading a tab to pixels is a driver's privilege, so a follower that storms stays frozen (`FrozenIsPursued` leaves out the stormed tab) | `v/resync.ts:5-6` |
| `g/browser/agentlink.ts:173` | A bridge is acquired by context id alone: when a navigation reuses the id before the old document's acquisition is performed, that one takes the new document's bridge, and commands are rejected until the next navigation | `g/browser/agentlink.ts:168-169`: "every replacement bridge is acquired exactly once" |
| `g/session/tabs.ts:204` | `create()` publishes no catch-up for the tab it makes active, whose first snapshot may have been withheld while the other tab was active (`unshown`) | `activate()` does, line 168 |
| `g/session/manager.ts:211` | Who waits for a cleanup deletes the record of that id, be it another session's by then (`usurped`) | |
| `g/session/manager.ts:284` | A cleanup whose removal was refused is memoised, and the reaper skips a session that is being destroyed: it is never tried again (`refused`) | |
| `g/session/manager.ts:191` | `create()` looks at `closed` before its launch only: a session whose launch ends after `close()` took its list of records is recorded in a closed manager, with no reaper and no heartbeat.  No property says otherwise: for `NoContainerLost` the record owns the container (a `destroy()` still removes it), and `DeadAndExpiredGo` is about what was recorded before | |
| `v/app.tsx:326-330` | A follower that clicks on a tab, or a driver whose activation is refused, leaves its mirror on a tab whose output is withheld until the next list (`strayed`); nothing in the strip keeps a follower from clicking, and `g/ws/roles.ts:189` drops its nav without a reply | |
| `g/rtcsig.ts:223` | A call that fails because its document is gone deletes the viewer's lane, even if the call was made for an earlier document and the lane works in the new one (`stranded`) | |
| `g/uploads.ts:389` | A chooser that opens while `setFileInputFiles` is awaited abandons the batch and removes the files the page has just been given (`given` and `removing` of one key) | `g/uploads.ts:396`: "Chromium may read these paths lazily." |
| `v/pipeline/scroll.ts:153` | A position held back for the window is enforced later although a newer scroll of the page has been shown since (`late` in `LocalEcho`) | `docs/architecture.md:82-83` |
| `v/pipeline/scroll.ts:174` | While a position is expected, every native scroll is taken for the replay's, the user's too (`swallowed`) | its comment, "None of those steps are fresh user input" |

## 4. Fairness

Weak fairness throughout, and only of steps the code schedules: timers that are armed fire
(`setTimeout`), a socket that is open delivers and a client that lost its own reconnects
(`v/ws.ts:119-126`), Chromium answers a command, and the hub's recovery chain, whose persistence
`TabHub` establishes (`SnapshotPursued`), opens the epoch that is owed.  What is owed is what the hub has not dropped: `WF(Answer)` in `MirrorStream` and `WF(OpenEpoch)` in
`PixelFallback` oblige it to nothing after a `Forget`, which the code may do to a resync request at any time (a navigation is always retried).  Nothing obliges a user to act, a page to change,
a request to fail, or a tab to leave pixel mode; a hidden tab is shown again in `MirrorStream` only
(`WF(Show)`: its liveness is about the tabs somebody looks at), not in `DriverViewport`, where the property
says "if shown" instead.  `TabHub` has no fairness and no liveness property: whether a page ever answers is not in its hands,
so its liveness is stated as the invariant that somebody is still asking.  `Sessions` assumes that the two intervals fire while
the manager runs (`setInterval`, `g/session/manager.ts:214-245`), that the runtime answers each call one way or the other, and that a heartbeat ends in
an answer or its timeout.  `AgentLink` and `InputPath` have none either, for the same reason: `NoCommandForgotten` says that a call
is registered with a timer, or that the answer it awaits is on its way.  `Tabs`, `RtcLanes`, `Uploads` and `LocalEcho` say what holds when
nothing is under way, which needs no fairness, and `ChooserEnds` that a chooser always has a timer or a request.

`CHECK_DEADLOCK FALSE` is set where the bounds exhaust the environment (all but the hub's): a system
whose users, pages and faults have spent their budget, with nothing in flight, rightly rests.  The hub
run keeps deadlock checking on.

## 5. What is proved

### The hub

`TabHubProofs` proves, for all sets of documents and contents, sizes, limits (0 included) and retry delays that satisfy
`HubConstants`, and `NoBaseAssumption` of the stream's instance:

| theorem | statement |
|---|---|
| `TypeCorrect` | `HubSpec => []TypeOK` |
| `SnapshotSafe` | a needed snapshot is never abandoned |
| `TimersSafe` | the three timers agree with the request and the delay stays in its bounds; `BackoffSafe` is the second part alone |
| `DocumentSafe` | nothing held belongs to a dead document |
| `JoinSafe` | a join equals the live replica |
| `GrowthSafe` | the action property on the buffer |
| `HubImplementsStream` | `HubSpec => ImplementsStream`, the refinement |

The argument.  None of the invariants is inductive alone.  `IInv` is the conjunction of four parts:

- `TypeOK`;
- `RecoveryPart`: the facts about the request machine together.  That a navigation is never abandoned needs to know that a request in flight
  has its timer armed for the current attempt, for otherwise a late failure could end it unseen; that a
  retry fires for the document it was armed for; and that "nav" is never queued (a document's hello
  clears the machine before it asks), for a queued "nav" would become pending after its document has its snapshot;
- `HeldByCurrentDocument`, inductive with the type of the half-arrived pair;
- `StreamPart`: `live` (a history variable: what a viewer that missed nothing holds) equals the canonical state while there is
  a snapshot, its epoch never exceeds the hub's, and the sequence number is the snapshot's plus the length of the buffer.

The operators on the request record get a lemma each (`RequestSnapshotEffect`, `FailKeepsRecovery`, ...), so that the step lemmas, one per action (`HelloInv`, `OpenInv`, `IncrementalInv`,
`TimersInv`, ...), never expand them.  `StepInv` collects them and the theorems follow with PTL.  `JoinSafe` unfolds the join payload on top of `StreamPart`; the refinement
needs `IInv` to know that a delta is only published on an open epoch and that opening moves both numbers.

### The mirrors

`MirrorStreamProofs` proves, for every set of viewers, every watermark and every bound on events and disturbances (`MirrorConstants`):

| theorem | statement |
|---|---|
| `ReplicaContiguousHolds` | a replica that is shown is one snapshot and every event after it |
| `NoGapReachesMirrorHolds` | the first message of a line never has a gap for a mirror that is not waiting |
| `QuietMeansInStepHolds` | with nothing on its way, a viewer has the canonical state |
| `EpochNeverGoesBackHolds` | the action property: a replica is never replaced by one of an older epoch |

`IInv` is `TypeOK`, `HubOK` (the open epoch is numbered on from its snapshot), `BatchOK` (so is the pending batch, and it ends where the hub
is) and `ViewerOK(v)` of every viewer, which looks at a connection as a line that ends in a mirror.  `Sound` says where the mirror is,
what each message of the line expects to find there when it arrives (`Before`: where the messages before it will have taken the
mirror), that snapshots rise along the line, and that the line ends at the gateway's cursor for the connection;
`KeepsUp` relates that cursor to batch and hub.  The properties only speak of the first message or of an
empty line; the induction needs the whole line, since any message becomes the first one.  Each handler of the gateway appends to
lines or resets a cursor, `Deliver` takes a head: a lemma each says that `Sound` survives.

### Driver and viewport

`DriverViewportProofs` proves, for every set of viewers, invitations and sizes and any number of disturbances (`ViewportConstants`):

| theorem | statement |
|---|---|
| `InputMatchesGeometryHolds` | input that passes was aimed at the geometry the page has |
| `SomebodyDrivesHolds` | somebody drives whenever an invited viewer is connected |
| `LockIsPursuedHolds` | a locked gate waits for something that is being worked on |
| `UnlocksAtFinalGeometryHolds` | the action property: the lock opens on a snapshot of the size wanted last |

`IInv` adds to the type: `RevisionsOK` (applied, applying and desired revisions in their order), `AppliedOK` (what was asked for last is what Chromium has
once it is applied), `LockOK` (which of the negotiation's stages a lock may be in), `WireOK` (one override is under way at a time, and a
snapshot that no answer follows was taken at the size Chromium has), `HubOK`, and per viewer what its down line
will show it, what its up line will acknowledge, and what the gate recorded.  The last is the core (`SeenOK`): a viewer that has acknowledged the epoch the gate awaits, or whose acknowledgement of it is on its way,
displays the page's metrics or nothing, and its line brings no snapshot from before that epoch;
hence a gate that is open for a viewer faces a viewer that displays the geometry.

### The input path

`InputPathProofs` proves, for every set of viewers and any number of inputs and disturbances (`InputPathAssumption` says that the two bounds are numbers):

| theorem | statement |
|---|---|
| `InputInOrderHolds`, `ValuesInOrderHolds` | what a viewer does reaches the page in its order, pointer and keys, values and scrolls |
| `OneStragglerHolds` | at most one event of a former driver per change of driver; the driver is connected |

`IInv` follows an input along its way.  `SourceOK` is the part before the gate: connections are numbered in the order they were made, a viewer
has at most one, it is its latest, what is on it or pending beside it is in the order it was made in.  `PastOK` says of everything that was let
through (chain, dispatch under way, commands with the page, reached) that nothing still to come of that
viewer on that connection was made before it (`Passed`), and that, unless control came back to a connection that is gone, the driver's connection is no older than
that one (`Superseding`).  `LineOK` orders the stations among each other, and `StragglersOK` bounds the events that were authorised before the
present term.  The proof changed the property once: the induction failed on a case that `ghost` left out, and the case was real (section 3).

### Tabs

`TabsProofs` proves, for any number of pages and all bounds on what users, pages and failures do (`TabsConstants`):

| theorem | statement |
|---|---|
| `TabAlwaysComingHolds` | a session without a tab gets one, unless Chromium refuses to create it |
| `OneIsActiveHolds` | with nothing under way one of the tabs is the active one, unless the one to be activated had gone or Chromium refused |
| `ViewersFollowHolds` | a viewer nothing is under way for lists the tabs and shows the active one up to its last event, wherever its user's clicks had taken it before, but for the three cases set apart (`late`, `unshown`, `strayed`) |

The properties speak of a session at rest; what holds on the way there is in `IInv`.  `QueuesOK` is about the commands to Chromium and its answers: a page is
attached once and before anything else is said of it, and `create()` activates a tab once (`Promises`, `Promoting`), so that once it has left a
tab's output unshown no second activation of its own can hide that.  `ActiveOK`: without an active tab an activation is under way (or its tab had gone, or it was refused).  `ViewerOK` says what a viewer
may be shown meanwhile: a mirror is never ahead of its tab (`MirrorOK`), it is in step with the active tab, or waits for a snapshot that was asked for, or shows another tab
(`ShownOK`), and the last only while something that leads it back is on its way: a list (`ListedOK`), or what its user clicked (`LedOK`): a click not yet
received, an activation asked of Chromium (`Clicked`) or answered by it (`Confirmed`; together `Selecting`).  A mirror on another tab with none of these before it has strayed.
`Taken` and `SentNow` say once what taking an event and sending a command do to the queues, and each handler's step cites them.

### Sessions

`SessionsProofs` proves, for every set of names, any number of launches and faults and every `LivenessLimit` (`SessionConstants`):

| theorem | statement |
|---|---|
| `NoContainerLostHolds` | a container that exists has a launch or a record, or its removal was refused, or its record was taken by another's `destroy()` |
| `ForgottenWhenGoneHolds` | the action property: a session keeps its record until its container is gone (the second exception applies) |

`IInv` says of each container what its launch (`LaunchOK`) and its cleanup (`SessionOK`) have reached tells of its state, `KeptOK` that it
keeps its record, and of all of them that a record is of a container of its name (`RecordsOK`) and that two containers of a name are not both alive (`NamesUnique`):
without the last, the launch of one session could overwrite the record of another that is alive when it connects (`Connected`), and that container would be lost.

### Uploads

`UploadsProofs` proves, for every set of windows, tabs and picks and all bounds on choosers, files and upsets (`BoundsAssumption`):

| theorem | statement |
|---|---|
| `WholePicksHolds` | an input gets the files of one pick, whole, in order, made on its tab; no pick goes to two inputs |
| `ChooserEndsHolds` | one chooser is live at a time, with a timer or a request in progress; one that is over gave its input files or a cancel, or is about to |
| `NothingLeftHolds` | of a batch that was given up nothing stays on disk but a directory that `mkdir` made again after the removal |

A window sends the files of a pick one request after the other, under the key of one chooser: a chain.  `KeyOK` says of each key what its record, its timer, its directory and the
input that waits for it have to do with each other.  `JobsOK`: a pick has one chain; of the chains that post under one key the gateway accepted
files of one only, and what the batch holds is exactly what that chain has sent (`BatchOK`).  That a pick has one chain rests on `StagedOK`: a window
pairs only what has been announced, and a pick that is staged, in one place, was never sent.  `GivenOK` carries the chain over to the input.  `EventsOK` is about the events
of Chromium: a chooser is announced once and nothing is known of it before, and when a document that went away is still to be heard of, the inputs that wait in
its tab are announced after it; so a key's chooser cannot be opened twice and an input is not taken for one that went.  `OneLive`: one chooser at a time.

### The agent link

`AgentLinkProofs` proves, for every set of calls, any number of documents, events and odd deliveries, with or without context ids that are used again, and every length of the reassembler's memory
(`AgentLinkAssumption`):

| theorem | statement |
|---|---|
| `AnswersMatchHolds` | a command is settled by its own answer or by none |
| `SnapshotBeforeAnswerHolds` | when the answer to a snapshot command says ok, the gateway has read the snapshot made for it |
| `NoCommandForgottenHolds` | a command that is not settled is registered, or awaits an acquisition that is over or on its way |
| `FollowsPageHolds` | with nothing on the way from a ready page, its document is the canonical one |
| `StreamFaithfulHolds` | given `MaxOdd <= Recent`, the stream is, document by document, an unbroken run of what was recorded, each event once |
| `Invariance` | the invariant below |

`IInv` has, besides the types, six parts.  `NumbersOK`: wherever a command is (on its way to the page, waiting there, answered, registered), its number is
its own; so a late answer finds its own entry or none.  `PendingOK`: registered is what is sent and unsettled.  `BridgeOK`: an acquisition that
is not over has its call or its answer on one of the two lines.  `PageOK` orders what the page has sent and queued, by document, message and
slice, and `HellosOK` says that while the target is attached nothing on its way is older than the canonical document, and that each newer document on its way is
announced by a hello that is on its way too, from which `FollowsPage` follows.  `ReassemblyOK` bounds what the reassembler may know
by what has been said, and says that it is not after what is still to come.  `SnapshotsOK`: a positive answer on its way has its snapshot in the
stream already, or the snapshot's last slice before it with the first one before that, or kept; the memory of completed messages may forget, and this needs
to know that it cannot make a message that is still to come look like one that has been.

The properties are about chunks that arrive; the chunk may be the head of the line, the head that stays there (a duplicate) or a
hello from long ago.  The relation `Takes(f)` covers the three, so that a handler's lemma is proved once.

`StreamFaithfulHolds` needs a second invariant, `SInv`, on top of `IInv`.  Its part `Flight` relates what is on its way (chunks on the wire, then those in the
queue), what the reassembler holds and what has been read: events are numbered in the order of their messages (`EventsOrdered`); the event before one that
is to be read has been read last, or is to be read too, and so is the last one recorded (`Unbroken`); a second slice comes after its first or finds it kept
(`Assembled`); an accepted hello that is still on its way is known (`Accepted`); and a message that was read and is not gone can only be the head of the wire
(`HeadOnly`), whose key is then within the part of the memory that the deliveries left cannot push out (`Remembered`).  A message read is thus always the next
one, and a duplicate always ignored.  The hypothesis `MaxOdd <= Recent` is about that last part and is as weak as it can be: with more odd deliveries than the reassembler
remembers messages (1024 in the code, `p/chunk.ts:26`), late hellos can push a key out between a message and its duplicate, and the hub reads the message twice:
TLC finds this with one remembered message and two odd deliveries.  `Recent` is the code's constant; `MaxOdd` is the model's bound on everything odd that
happens (duplicates, late hellos, child frames, detachments), of which the property tolerates as many as the memory is long.

`StartRecording` was given another form for the proof, and became truer on the way: the commands that waited for the recorder are now one step each (`ResumeSnapshot`),
where it folded over them; what the gateway and the wires do may come between.

### How the modules serve the proofs

TLC checked every `IInv` on the instance of the component's run.  Some definitions were given another form, with the same meaning, for the
induction's sake: a viewer's first messages are concatenated, not folded (`SendJoin` in `MirrorStream`); a replacement is the first invited peer by
`SelectInSeq` (`Replacement` in `DriverViewport`); a connection leaves by its index (`Disconnect` in `InputPath`); an order is stated by
index and not over a filtered sequence (`InOrder`); and a viewer that connects takes the first join payload that concerns its mirror,
which is what a fold over all of them comes to (`Joined` in `Tabs`).  `TabAlwaysComing` was made stronger: the answer to a creation is no promise of
a tab, its attachment is.  `NoContainerLost` lost a disjunct the proof showed to be redundant, and `NothingLeft` a condition on the request, which the proof did not need.

### Model-checked only

Every liveness property (`EventuallyMirrored`, `DriverEventuallyUnlocked`, `ShownAsAnnounced`, `DeadAndExpiredGo`): liveness under fairness and
ENABLED are beyond the prover.  And everything in `PixelFallback` (`RateLimited` counts the members of a filtered sequence, which needs induction over data), `RtcLanes` and `LocalEcho`.
No module uses a RECURSIVE operator; folds come from the community modules.

## 6. What is left

In the order of the plan:

1. Proofs: `PageFollowsGateway` and `OneGeneration` of `RtcLanes`, `FieldReconciled` and `ScrollReconciled` of `LocalEcho`, `FrozenIsPursued` of `PixelFallback`.
2. `AssetCache` (the index and its eviction against open readers) and downloads (records and one-time links).
3. Coordinates: the composition and clipping of rectangles in `g/input/relay.ts` as operators over small grids, and OOPIF targets in `AgentLink`.

Left out of the modelled parts, because it touches none of the properties or needs parties the module does not have:

- `Tabs`: tabs in pixel mode (a click on one does not turn the mirror, `v/app.tsx:328`), what a click does to the pixel view, `dispose()`, a tab that comes back with another CDP session (`g/session/tabs.ts:229-231`), the text of titles and icons.
- `Sessions`: ports, mounts, profiles, `browser/launch.ts`.  `createSessionManager` is exercised by its tests; `main.ts` launches its one browser itself (`g/main.ts:512`).
- `RtcLanes`: a tab with another CDP session, `dispose()`, `pendingMessages` of a page whose recorder is late, rendering, `notifyVideoBlocked`.
- `Uploads`: enabling the interception (`g/uploads.ts:140-153`), the parsing and limits of the request, names of files, `dispose()` in the window.
  Picks are paired with keys per tab and not per input, a body that stalls has no timer (`g/uploads.ts:364`) and a change of driver does not stop a batch under way:
  the module has all three, and the properties do not promise otherwise.
- `LocalEcho`: contenteditable subtrees, windows of child documents, selections and carets, snapshots of a navigation (they restore nothing), followers.

Not modelled, and why: what rrweb records (the environment: any document may say anything at any
time in `TabHub`); what waits in the socket of a viewer that reads nothing (`g/ws/viewerconn.ts:58` drops deltas and frames for it but
no snapshots, so it grows with the epochs of the tab); rewriting, fetching and sealing of assets (text and network I/O without state of
their own); access control (stateless checks); rendering, HUD and chrome (no state others depend on);
process launching, container images, scripts.
