------------------------------ MODULE InputPath ------------------------------
(***************************************************************************)
(* What a viewer does, on its way to the page of one tab: the socket that   *)
(* reconnects and keeps what was done meanwhile (viewer/src/ws.ts), the     *)
(* connections and their one driver (gateway/src/ws/roles.ts, server.ts,    *)
(* main.ts), and the relay's chain of dispatches for that tab               *)
(* (gateway/src/input/relay.ts, browser/resolvenode.ts), up to Chromium.    *)
(* The viewport gate, allowsInput, is DriverViewport's and lets through or  *)
(* refuses here as it pleases.                                              *)
(***************************************************************************)
EXTENDS Integers, Sequences, FiniteSets, SequencesExt

CONSTANTS
  Viewer,
  MaxMade,     \* bound: inputs that are made
  MaxChurn     \* bound: broken sockets, hand-overs and replaced sessions

ASSUME InputPathAssumption == MaxMade \in Nat /\ MaxChurn \in Nat

VARIABLES
  made,     \* inputs made so far, by anybody
  client,   \* per viewer: the connection that is open (0: none), and ws.ts's pending
  peers,    \* the gateway's connections, oldest first, and the messages they have in transit
  driver,   \* session.driverId: a connection, or 0
  term,     \* how often the driver has changed
  chain,    \* dispatches that wait for the tab's tail
  act,      \* the dispatch at the tail
  page,     \* the tab's session (0: none), commands its renderer has not run, what reached it
  churn,
  conns,    \* connections made so far
  ghost     \* has control come to a connection whose viewer had left it?

vars == <<made, client, peers, driver, term, chain, act, page, churn, conns, ghost>>

\* `ptr' asks the page where its node is; `raw' is a key, text or composition;
\* `cmd', a value or a scroll, is executed by the agent.
Kind == {"ptr", "raw", "cmd"}
NoAct == [stage |-> "none"]

------------------------------------------------------------------------------
Conns == {peers[i].id : i \in 1..Len(peers)}
PeerAt(id) == CHOOSE i \in 1..Len(peers) : peers[i].id = id
Left(id) == id # 0 /\ \A v \in Viewer : client[v].conn # id
Transmit(ps, id, msgs) ==
  [i \in 1..Len(ps) |-> IF ps[i].id = id THEN [ps[i] EXCEPT !.up = @ \o msgs] ELSE ps[i]]

Init ==
  /\ made = 0 /\ driver = 0 /\ term = 0 /\ conns = 0 /\ churn = 0 /\ ghost = FALSE
  /\ client = [v \in Viewer |-> [conn |-> 0, pending |-> <<>>]]
  /\ peers = <<>> /\ chain = <<>> /\ act = NoAct
  /\ page = [session |-> 1, commands |-> <<>>, reached |-> <<>>]

(* The viewer. *)

\* Mutant: what was done while offline is sent after what is done now.
Pend_Newest(pending, m) == <<m>> \o pending

Pend(pending, m) == Append(pending, m)

\* GatewaySocket.send()
MakeInput(v) ==
  /\ made < MaxMade
  /\ made' = made + 1
  /\ \E kind \in Kind :
       LET m == [v |-> v, n |-> made + 1, kind |-> kind, to |-> 0]
       IN IF client[v].conn # 0
          THEN /\ peers' = Transmit(peers, client[v].conn, <<m>>)
               /\ UNCHANGED client
          ELSE /\ client' = [client EXCEPT ![v].pending = Pend(@, m)]
               /\ UNCHANGED peers
  /\ UNCHANGED <<driver, term, chain, act, page, churn, conns, ghost>>

\* Somebody hands control to a connection that presence lists.
HandOver(v) ==
  /\ churn < MaxChurn /\ churn' = churn + 1
  /\ client[v].conn # 0
  /\ \E id \in Conns \ {client[v].conn} :
       peers' = Transmit(peers, client[v].conn,
                         <<[v |-> v, n |-> 0, kind |-> "transfer", to |-> id]>>)
  /\ UNCHANGED <<made, client, driver, term, chain, act, page, conns, ghost>>

\* A socket opens: RoleManager.connect(), and onopen sends what is pending.
Connect(v) ==
  /\ client[v].conn = 0
  /\ conns' = conns + 1
  /\ peers' = Append(peers, [id |-> conns + 1, up |-> client[v].pending])
  /\ client' = [client EXCEPT ![v] = [conn |-> conns + 1, pending |-> <<>>]]
  /\ driver' = IF driver = 0 THEN conns + 1 ELSE driver
  /\ UNCHANGED <<made, term, chain, act, page, churn, ghost>>

\* The viewer's socket closes; of what it sent, a part may still arrive, and the
\* gateway has not noticed.
Break(v) ==
  /\ churn < MaxChurn /\ churn' = churn + 1
  /\ client[v].conn # 0
  /\ client' = [client EXCEPT ![v].conn = 0]
  /\ LET i == PeerAt(client[v].conn)
     IN \E k \in 0..Len(peers[i].up) : peers' = [peers EXCEPT ![i].up = SubSeq(@, 1, k)]
  /\ UNCHANGED <<made, driver, term, chain, act, page, conns, ghost>>

(* The gateway. *)

Successor(rest) == IF rest = <<>> THEN 0 ELSE rest[1].id

\* RoleManager.disconnect(): the oldest connection that is left drives.
Disconnect(id) ==
  /\ id \in Conns /\ Left(id)
  /\ LET rest == RemoveAt(peers, PeerAt(id))
     IN /\ peers' = rest
        /\ IF driver = id
           THEN /\ driver' = Successor(rest)
                /\ term' = term + 1
                /\ ghost' = (ghost \/ Left(Successor(rest)))
           ELSE UNCHANGED <<driver, term, ghost>>
  /\ UNCHANGED <<made, client, chain, act, page, churn, conns>>

\* routeUp() of an input: it joins the tab's chain if its sender drives.
ReceiveInput(id, m) ==
  /\ m.kind \in Kind
  /\ chain' = IF driver = id THEN Append(chain, [id |-> id, m |-> m]) ELSE chain
  /\ UNCHANGED <<driver, term, ghost>>

\* routeUp() of a driver-transfer
ReceiveTransfer(id, m) ==
  /\ m.kind = "transfer"
  /\ IF driver = id /\ m.to \in Conns \ {id}
     THEN /\ driver' = m.to /\ term' = term + 1
          /\ ghost' = (ghost \/ Left(m.to))
     ELSE UNCHANGED <<driver, term, ghost>>
  /\ UNCHANGED chain

ReceiveUp(id) ==
  /\ id \in Conns /\ peers[PeerAt(id)].up # <<>>
  /\ LET m == Head(peers[PeerAt(id)].up)
     IN ReceiveInput(id, m) \/ ReceiveTransfer(id, m)
  /\ peers' = [peers EXCEPT ![PeerAt(id)].up = Tail(@)]
  /\ UNCHANGED <<made, client, act, page, churn, conns>>

\* Mutant: authority is only checked when the message is received.
Authorized_AtReceipt(id) == TRUE

Authorized(id) == driver = id

Begun(d) ==
  [stage |-> CASE d.m.kind = "ptr" -> "locate" [] d.m.kind = "raw" -> "send"
               [] d.m.kind = "cmd" -> "resolve",
   id |-> d.id, m |-> d.m, session |-> page.session]

\* dispatch() begins, up to its first await
Dispatch ==
  /\ act = NoAct /\ chain # <<>>
  /\ chain' = Tail(chain)
  /\ \/ /\ Authorized(Head(chain).id) /\ page.session # 0
        /\ act' = Begun(Head(chain))
     \/ act' = NoAct                  \* the gate refuses, or one of the above does
  /\ UNCHANGED <<made, client, peers, driver, term, page, churn, conns, ghost>>

Reach(p, a) ==
  [p EXCEPT !.reached = Append(@, [id |-> a.id, m |-> a.m, driver |-> driver, term |-> term])]

Idle == UNCHANGED <<made, client, peers, driver, term, chain, churn, conns, ghost>>

\* resolvePoint(): located or timed out, the event is dispatched.
Locate ==
  /\ act.stage = "locate"
  /\ act' = [act EXCEPT !.stage = "send"]
  /\ UNCHANGED page /\ Idle

\* Input.dispatch*, insertText, imeSetComposition on the session the dispatch began with
Send ==
  /\ act.stage = "send"
  /\ act' = NoAct
  /\ page' = IF act.session = page.session THEN Reach(page, act) ELSE page
  /\ Idle

\* resolveNode(), which may fail, and then sendCmd to whatever session there is
Resolve ==
  /\ act.stage = "resolve"
  /\ \/ act' = NoAct /\ UNCHANGED page
     \/ /\ page.session # 0
        /\ act' = [act EXCEPT !.stage = "command"]
        /\ page' = [page EXCEPT !.commands = Append(@, act)]
  /\ Idle

\* The agent executes a command, or finds no such node; its answer ends the dispatch
\* that waits for it.
Execute ==
  /\ page.commands # <<>>
  /\ LET c == Head(page.commands)
     IN /\ \E p \in {page, Reach(page, c)} : page' = [p EXCEPT !.commands = Tail(@)]
        /\ act' = IF act.stage = "command" /\ act.m = c.m THEN NoAct ELSE act
  /\ Idle

\* Mutant: a command that timed out is sent again.
CommandTimeout_Retries ==
  /\ act.stage = "command"
  /\ act' = NoAct
  /\ page' = [page EXCEPT !.commands = Append(@, act)]
  /\ Idle

\* sendCmd() times out: its command stays with the page.
CommandTimeout ==
  /\ act.stage = "command"
  /\ act' = NoAct
  /\ UNCHANGED page /\ Idle

\* The tab's target detaches, or is attached in a new session: what the old one had not
\* executed is lost, and the command that is awaited rejected.
Replace ==
  /\ churn < MaxChurn /\ churn' = churn + 1
  /\ \E session \in {0, churn + 2} :
       page' = [page EXCEPT !.session = session, !.commands = <<>>]
  /\ act' = IF act.stage = "command" THEN NoAct ELSE act
  /\ UNCHANGED <<made, client, peers, driver, term, chain, conns, ghost>>

------------------------------------------------------------------------------
Next ==
  \/ \E v \in Viewer : MakeInput(v) \/ HandOver(v) \/ Connect(v) \/ Break(v)
  \/ \E id \in Conns : Disconnect(id) \/ ReceiveUp(id)
  \/ Dispatch \/ Locate \/ Send \/ Resolve \/ Execute \/ CommandTimeout \/ Replace

Spec == Init /\ [][Next]_vars

------------------------------------------------------------------------------
\* The state is well formed: a driver is a connection, and nothing is in transit on,
\* or pending beside, a connection that is not there.
TypeOK ==
  /\ made \in 0..MaxMade /\ churn \in 0..MaxChurn
  /\ driver \in Conns \cup {0} /\ (peers = <<>> <=> driver = 0)
  /\ \A v \in Viewer : /\ client[v].conn \in Conns \cup {0}
                       /\ client[v].conn # 0 => client[v].pending = <<>>
  /\ act.stage \in {"none", "locate", "send", "resolve", "command"}
  /\ term \in Nat

\* Within a connection always; from one connection of a viewer to its next, unless
\* control came back to the one that is gone.
InOrder(kinds) ==
  \A i, j \in 1..Len(page.reached) :
    LET r == page.reached[i]  q == page.reached[j]
    IN /\ i < j /\ {r.m.kind, q.m.kind} \subseteq kinds
       /\ r.m.v = q.m.v /\ (r.id = q.id \/ ~ghost)
       => r.m.n < q.m.n

\* A viewer's pointer and key events reach the page in the order they were made in,
\* none twice, also across broken sockets, two connections of the same viewer, and
\* hand-overs: an `up' never overtakes its `down' (relay.ts:51-53).
InputInOrder == InOrder({"ptr", "raw"})

\* Of the values somebody set in a control, the last one that arrives is the last one set,
\* although a command that timed out is executed later (relay.ts:103-128).
ValuesInOrder == InOrder({"cmd"})

\* Authority is checked before awaits that a hand-over may fall into (relay.ts:79-89), yet
\* from one change of the driver to the next at most one event of anybody else reaches
\* the page: the one that had been authorised and was being located.  The state is
\* well formed, so that who drives is connected.
OneStraggler ==
  LET late == {r \in Range(page.reached) : r.m.kind # "cmd" /\ r.id # r.driver}
  IN TypeOK /\ \A r, q \in late : r.term = q.term => r = q
==============================================================================
