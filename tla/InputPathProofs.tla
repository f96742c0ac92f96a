--------------------------- MODULE InputPathProofs ---------------------------
(***************************************************************************)
(* Machine-checked proofs about InputPath, for every set of viewers and    *)
(* every number of inputs, broken sockets and hand-overs: what somebody    *)
(* does reaches the page in the order it was done in, and at most one      *)
(* event of a former driver arrives per change of driver.                  *)
(***************************************************************************)
EXTENDS InputPath, TLAPS

------------------------------------------------------------------------------
(* The inductive invariant. *)

Message == [v : Viewer, n : Nat, kind : Kind \cup {"transfer"}, to : Nat]
Peer == [id : Nat, up : Seq(Message)]
Entry == [id : Nat, m : Message]
Doing ==
  [stage : {"locate", "send", "resolve", "command"}, id : Nat, m : Message, session : Nat]
Arrival == [id : Nat, m : Message, driver : Nat, term : Nat]

Typed ==
  /\ made \in Nat /\ made <= MaxMade /\ churn \in Nat /\ churn <= MaxChurn
  /\ driver \in Nat /\ term \in Nat /\ conns \in Nat
  /\ ghost \in BOOLEAN
  /\ client \in [Viewer -> [conn : Nat, pending : Seq(Message)]]
  /\ peers \in Seq(Peer)
  /\ chain \in Seq(Entry)
  /\ act = NoAct \/ act \in Doing
  /\ page \in [session : Nat, commands : Seq(Doing), reached : Seq(Arrival)]

\* Connections are numbered in the order they were made in, and removed but never moved.
PeersOK ==
  /\ \A i \in 1..Len(peers) : 1 <= peers[i].id /\ peers[i].id <= conns
  /\ \A i, j \in 1..Len(peers) : i < j => peers[i].id < peers[j].id
  /\ driver \in Conns \cup {0}
  /\ peers = <<>> <=> driver = 0

\* A viewer has at most one connection open, the latest of those it made, and shares it
\* with nobody.
ClientsOK ==
  \A v \in Viewer :
    LET c == client[v].conn
    IN /\ c \in Conns \cup {0}
       /\ c # 0 => client[v].pending = <<>>
       /\ c # 0 => \A w \in Viewer : client[w].conn = c => w = v
       /\ \A i \in 1..Len(peers) : \A a \in 1..Len(peers[i].up) :
            LET m == peers[i].up[a]
            IN /\ c # 0 /\ m.v = v => peers[i].id <= c
               /\ c # 0 /\ peers[i].id = c => m.v = v

\* What a viewer has in transit is in the order it was made in, also from an older
\* connection to a newer one.
TransitOK ==
  /\ \A i \in 1..Len(peers) : \A a \in 1..Len(peers[i].up) :
       peers[i].up[a].kind \in Kind => peers[i].up[a].n <= made
  /\ \A i, j \in 1..Len(peers) : \A a \in 1..Len(peers[i].up), b \in 1..Len(peers[j].up) :
       LET m == peers[i].up[a]  q == peers[j].up[b]
       IN (peers[i].id < peers[j].id \/ (i = j /\ a < b))
            /\ m.kind \in Kind /\ q.kind \in Kind /\ m.v = q.v => m.n < q.n

\* What waits for a connection is later than what was sent.
PendingOK ==
  \A v \in Viewer : \A a \in 1..Len(client[v].pending) :
    LET m == client[v].pending[a]
    IN /\ m.v = v /\ m.kind \in Kind /\ m.n <= made
       /\ \A b \in 1..Len(client[v].pending) : a < b => m.n < client[v].pending[b].n
       /\ \A i \in 1..Len(peers) : \A b \in 1..Len(peers[i].up) :
            peers[i].up[b].v = v /\ peers[i].up[b].kind \in Kind => peers[i].up[b].n < m.n

\* Is connection c one of viewer v's, as far as it still matters?
Owns(v, c) ==
  \/ client[v].conn = c
  \/ \E i \in 1..Len(peers) : /\ peers[i].id = c
                              /\ \E b \in 1..Len(peers[i].up) : peers[i].up[b].v = v

\* What it takes to have let through input m of connection c: all its sender may still
\* bring is later, except from connections that are older than c ...
Passed(c, m) ==
  /\ m.kind \in Kind /\ m.n <= made /\ 1 <= c /\ c <= conns
  /\ client[m.v].conn # 0 => c <= client[m.v].conn
  /\ \A a \in 1..Len(client[m.v].pending) : m.n < client[m.v].pending[a].n
  /\ \A i \in 1..Len(peers) : \A b \in 1..Len(peers[i].up) :
       LET q == peers[i].up[b]
       IN c <= peers[i].id /\ q.v = m.v /\ q.kind \in Kind => m.n < q.n

\* ... and none of those drives.
Superseding(c, m) == ~ghost /\ driver # 0 /\ Owns(m.v, driver) => c <= driver

Past(c, m) == Passed(c, m) /\ Superseding(c, m)

\* Is input m of connection c with the relay, or has it been?
LetThrough(c, m) ==
  \/ \E i \in 1..Len(chain) : chain[i].id = c /\ chain[i].m = m
  \/ act # NoAct /\ act.id = c /\ act.m = m
  \/ \E i \in 1..Len(page.commands) : page.commands[i].id = c /\ page.commands[i].m = m
  \/ \E i \in 1..Len(page.reached) : page.reached[i].id = c /\ page.reached[i].m = m

PastOK == \A c \in Nat, m \in Message : LetThrough(c, m) => Past(c, m)

\* x was made before y, if they are somebody's; g is `ghost'.
Before(g, x, y) == x.m.v = y.m.v /\ (x.id = y.id \/ ~g) => x.m.n < y.m.n

\* A dispatch that has still to do what it is for
Undone == act.stage \in {"locate", "send", "resolve"}

\* The dispatches wait in order, behind the one under way and all that have been sent.
ChainOK ==
  /\ \A i, j \in 1..Len(chain) : i < j => Before(ghost, chain[i], chain[j])
  /\ \A j \in 1..Len(chain) :
       /\ act # NoAct => Before(ghost, act, chain[j])
       /\ \A i \in 1..Len(page.commands) : Before(ghost, page.commands[i], chain[j])
       /\ \A i \in 1..Len(page.reached) : Before(ghost, page.reached[i], chain[j])

\* The one under way is later than all that have been sent.
ActOK ==
  /\ act.stage \in {"locate", "send"} => act.m.kind \in {"ptr", "raw"}
  /\ act.stage \in {"resolve", "command"} => act.m.kind = "cmd"
  /\ Undone => /\ \A i \in 1..Len(page.commands) : Before(ghost, page.commands[i], act)
               /\ \A i \in 1..Len(page.reached) : Before(ghost, page.reached[i], act)

\* Commands are executed in the order they were sent in.
CommandsOK ==
  \A i \in 1..Len(page.commands) :
    LET c == page.commands[i]
    IN /\ c.m.kind = "cmd"
       /\ \A j \in 1..Len(page.commands) : i < j => Before(ghost, c, page.commands[j])
       /\ \A j \in 1..Len(page.reached) :
            page.reached[j].m.kind = "cmd" => Before(ghost, page.reached[j], c)

\* Events and values each arrived in order.
ReachedOK ==
  \A i, j \in 1..Len(page.reached) :
    LET r == page.reached[i]  q == page.reached[j]
    IN i < j /\ (r.m.kind = "cmd" <=> q.m.kind = "cmd") => Before(ghost, r, q)

Late(r) == r.m.kind # "cmd" /\ r.id # r.driver

\* An event that is under way although its sender drives no more is the first since.
StragglersOK ==
  /\ \A i \in 1..Len(page.reached) : page.reached[i].term <= term
  /\ \A i, j \in 1..Len(page.reached) :
       Late(page.reached[i]) /\ Late(page.reached[j])
         /\ page.reached[i].term = page.reached[j].term => i = j
  /\ act.stage \in {"locate", "send"} /\ act.id # driver =>
       \A i \in 1..Len(page.reached) : Late(page.reached[i]) => page.reached[i].term # term

SourceOK == PeersOK /\ ClientsOK /\ TransitOK /\ PendingOK
LineOK == ChainOK /\ ActOK /\ CommandsOK /\ ReachedOK

IInv == Typed /\ SourceOK /\ PastOK /\ LineOK /\ StragglersOK

------------------------------------------------------------------------------
(* The invariant gives the properties. *)

LEMMA InvTypeOK == IInv => TypeOK
<1> SUFFICES ASSUME IInv PROVE TypeOK
  OBVIOUS
<1>1. act.stage \in {"none", "locate", "send", "resolve", "command"}
  BY SMT DEF IInv, Typed, NoAct, Doing
<1>2. \A v \in Viewer : /\ client[v].conn \in Conns \cup {0}
                        /\ client[v].conn # 0 => client[v].pending = <<>>
  BY DEF IInv, SourceOK, ClientsOK
<1> QED BY <1>1, <1>2 DEF IInv, Typed, SourceOK, PeersOK, TypeOK

LEMMA InvOrders == IInv => InputInOrder /\ ValuesInOrder
<1> SUFFICES ASSUME IInv PROVE InputInOrder /\ ValuesInOrder
  OBVIOUS
<1>1. ReachedOK
  BY DEF IInv, LineOK
<1> QED BY <1>1 DEF ReachedOK, Before, InputInOrder, ValuesInOrder, InOrder

LEMMA InvOneStraggler == IInv => OneStraggler
<1> SUFFICES ASSUME IInv PROVE OneStraggler
  OBVIOUS
<1> DEFINE reached == page.reached
           late == {r \in Range(reached) : r.m.kind # "cmd" /\ r.id # r.driver}
<1>1. \A i, j \in 1..Len(reached) :
        Late(reached[i]) /\ Late(reached[j]) /\ reached[i].term = reached[j].term => i = j
  BY DEF IInv, StragglersOK
<1>2. reached \in Seq(Arrival)
  BY DEF IInv, Typed
<1> HIDE DEF reached
<1>3. Range(reached) = {reached[i] : i \in 1..Len(reached)}
  BY <1>2 DEF Range
<1>4. ASSUME NEW r \in late, NEW q \in late, r.term = q.term PROVE r = q
  <2>1. PICK i \in 1..Len(reached) : r = reached[i]
    BY <1>3
  <2>2. PICK j \in 1..Len(reached) : q = reached[j]
    BY <1>3
  <2> QED BY <1>1, <1>4, <2>1, <2>2 DEF Late
<1> QED BY <1>4, InvTypeOK DEF OneStraggler, reached

------------------------------------------------------------------------------
(* The connections. *)

LEMMA Carried ==
  ASSUME Typed
  PROVE  /\ Len(peers) \in Nat
         /\ \A i \in 1..Len(peers) :
              /\ peers[i].id \in Nat /\ peers[i].up \in Seq(Message) /\ Len(peers[i].up) \in Nat
              /\ \A a \in 1..Len(peers[i].up) :
                   /\ peers[i].up[a] \in Message /\ peers[i].up[a].n \in Nat
                   /\ peers[i].up[a].v \in Viewer
         /\ \A v \in Viewer :
              /\ client[v].conn \in Nat
              /\ client[v].pending \in Seq(Message) /\ Len(client[v].pending) \in Nat
              /\ \A a \in 1..Len(client[v].pending) :
                   client[v].pending[a] \in Message /\ client[v].pending[a].n \in Nat
<1>1. peers \in Seq(Peer) /\ client \in [Viewer -> [conn : Nat, pending : Seq(Message)]]
  BY DEF Typed
<1>2. ASSUME NEW i \in 1..Len(peers)
      PROVE  /\ peers[i].id \in Nat /\ peers[i].up \in Seq(Message) /\ Len(peers[i].up) \in Nat
             /\ \A a \in 1..Len(peers[i].up) :
                  /\ peers[i].up[a] \in Message /\ peers[i].up[a].n \in Nat
                  /\ peers[i].up[a].v \in Viewer
  <2>1. peers[i].id \in Nat /\ peers[i].up \in Seq(Message) /\ Len(peers[i].up) \in Nat
    <3>1. peers[i] \in Peer
      BY <1>1
    <3>2. peers[i] \in [id : Nat, up : Seq(Message)]
      BY <3>1 DEF Peer
    <3> QED BY <3>2
  <2>2. \A a \in 1..Len(peers[i].up) : peers[i].up[a] \in Message
    BY <2>1
  <2> QED BY <2>1, <2>2 DEF Message
<1>3. ASSUME NEW v \in Viewer
      PROVE  /\ client[v].conn \in Nat
             /\ client[v].pending \in Seq(Message) /\ Len(client[v].pending) \in Nat
             /\ \A a \in 1..Len(client[v].pending) :
                  client[v].pending[a] \in Message /\ client[v].pending[a].n \in Nat
  <2>1. /\ client[v].conn \in Nat
        /\ client[v].pending \in Seq(Message) /\ Len(client[v].pending) \in Nat
    BY <1>1
  <2>2. \A a \in 1..Len(client[v].pending) : client[v].pending[a] \in Message
    BY <2>1
  <2> QED BY <2>1, <2>2 DEF Message
<1>4. Len(peers) \in Nat
  BY <1>1
<1> QED BY <1>2, <1>3, <1>4

LEMMA PeerFound ==
  ASSUME Typed, NEW id \in Conns
  PROVE  PeerAt(id) \in 1..Len(peers) /\ peers[PeerAt(id)].id = id
<1>1. \E i \in 1..Len(peers) : peers[i].id = id
  BY DEF Conns
<1> QED BY <1>1 DEF PeerAt

\* What it is to send one message on a connection.
LEMMA Transmitted ==
  ASSUME Typed, NEW id \in Nat, NEW m \in Message
  PROVE  LET ps == Transmit(peers, id, <<m>>)
         IN /\ ps \in Seq(Peer) /\ Len(ps) = Len(peers)
            /\ \A i \in 1..Len(peers) :
                 /\ ps[i].id = peers[i].id
                 /\ peers[i].id # id => ps[i].up = peers[i].up
                 /\ peers[i].id = id =>
                      /\ Len(ps[i].up) = Len(peers[i].up) + 1
                      /\ ps[i].up[Len(peers[i].up) + 1] = m
                      /\ \A a \in 1..Len(peers[i].up) : ps[i].up[a] = peers[i].up[a]
<1> DEFINE p(i) == IF peers[i].id = id THEN [peers[i] EXCEPT !.up = @ \o <<m>>] ELSE peers[i]
           ps == [i \in 1..Len(peers) |-> p(i)]
<1>1. ASSUME NEW i \in 1..Len(peers)
      PROVE  /\ p(i) \in Peer
             /\ p(i).id = peers[i].id
             /\ peers[i].id # id => p(i).up = peers[i].up
             /\ peers[i].id = id =>
                  /\ Len(p(i).up) = Len(peers[i].up) + 1
                  /\ p(i).up[Len(peers[i].up) + 1] = m
                  /\ \A a \in 1..Len(peers[i].up) : p(i).up[a] = peers[i].up[a]
  <2> DEFINE q == peers[i]
             u == q.up
  <2>1. q \in Peer
    BY DEF Typed
  <2>2. q \in [id : Nat, up : Seq(Message)]
    BY <2>1 DEF Peer
  <2> HIDE DEF q
  <2>3. u \in Seq(Message)
    BY <2>2
  <2> HIDE DEF u
  <2>4. /\ u \o <<m>> \in Seq(Message)
        /\ Len(u \o <<m>>) = Len(u) + 1
        /\ (u \o <<m>>)[Len(u) + 1] = m
        /\ \A a \in 1..Len(u) : (u \o <<m>>)[a] = u[a]
    BY <2>3, SMT
  <2> DEFINE w == u \o <<m>>
  <2> HIDE DEF w
  <2>5. [q EXCEPT !.up = w] \in [id : Nat, up : Seq(Message)]
    BY <2>2, <2>4, Zenon DEF w
  <2>6. [q EXCEPT !.up = w].id = q.id /\ [q EXCEPT !.up = w].up = w
    BY <2>2
  <2>7. p(i) = IF q.id = id THEN [q EXCEPT !.up = w] ELSE q
    BY DEF q, w, u
  <2> HIDE DEF p
  <2>8. p(i) \in Peer
    BY <2>7, <2>5, <2>1, Zenon DEF Peer
  <2>9. CASE q.id = id
    BY <2>9, <2>8, <2>7, <2>6, <2>4, Zenon DEF q, w, u
  <2>10. CASE q.id # id
    BY <2>10, <2>8, <2>7, Zenon DEF q
  <2> QED BY <2>9, <2>10
<1> HIDE DEF p
<1>2. /\ ps \in Seq(Peer) /\ Len(ps) = Len(peers)
      /\ \A i \in 1..Len(peers) : ps[i] = p(i)
  <2>1. Len(peers) \in Nat
    BY DEF Typed
  <2> QED BY <1>1, <2>1, SMT
<1>3. Transmit(peers, id, <<m>>) = ps
  BY DEF Transmit, p
<1> HIDE DEF ps
<1> QED BY <1>1, <1>2, <1>3

LEMMA RemovedPeer ==
  ASSUME Typed, NEW k \in 1..Len(peers)
  PROVE  LET r == RemoveAt(peers, k)
         IN /\ r \in Seq(Peer) /\ Len(r) = Len(peers) - 1
            /\ \A i \in 1..Len(r) : r[i] = IF i < k THEN peers[i] ELSE peers[i+1]
<1> DEFINE s == peers
           a == SubSeq(s, 1, k-1)
           b == SubSeq(s, k+1, Len(s))
           r == a \o b
<1>1. s \in Seq(Peer) /\ k \in 1..Len(s)
  BY DEF Typed
<1> HIDE DEF s
<1>2. /\ a \in Seq(Peer) /\ Len(a) = k - 1
      /\ \A i \in 1..Len(a) : a[i] = s[i]
  BY <1>1, SMT
<1>3. /\ b \in Seq(Peer) /\ Len(b) = Len(s) - k
      /\ \A i \in 1..Len(b) : b[i] = s[k+i]
  BY <1>1, SMT
<1> HIDE DEF a, b
<1>4. a \in Seq(Peer) /\ b \in Seq(Peer)
  BY <1>2, <1>3
<1>5. r \in Seq(Peer) /\ Len(r) = Len(a) + Len(b)
  BY <1>4, SMT
<1>6. ASSUME NEW i \in 1..Len(r) PROVE r[i] = IF i < k THEN s[i] ELSE s[i+1]
  <2>1. CASE i < k
    <3>1. i \in 1..Len(a) /\ r[i] = a[i]
      BY <2>1, <1>1, <1>2, <1>3, <1>5, SMT
    <3> QED BY <3>1, <2>1, <1>2
  <2>2. CASE ~ (i < k)
    <3>1. i - Len(a) \in 1..Len(b) /\ r[i] = b[i - Len(a)] /\ k + (i - Len(a)) = i + 1
      BY <2>2, <1>1, <1>2, <1>3, <1>5, SMT
    <3> QED BY <3>1, <2>2, <1>3
  <2> QED BY <2>1, <2>2
<1>7. Len(r) = Len(s) - 1
  BY <1>1, <1>2, <1>3, <1>5, SMT
<1>8. RemoveAt(s, k) = r
  BY DEF RemoveAt, a, b
<1> QED BY <1>5, <1>6, <1>7, <1>8 DEF s

------------------------------------------------------------------------------
(* What is in transit. *)

\* Nothing is in transit that was not: ends of what the connections carried are left.
Thinned ==
  /\ \A i \in 1..Len(peers') :
       \E k \in 1..Len(peers), s \in Nat :
         /\ peers'[i].id = peers[k].id
         /\ \A a \in 1..Len(peers'[i].up) :
              a + s \in 1..Len(peers[k].up) /\ peers'[i].up[a] = peers[k].up[a + s]
  /\ \A v \in Viewer : /\ client'[v].pending = client[v].pending
                       /\ client'[v].conn \in {client[v].conn, 0}

LEMMA ThinnedOwns ==
  ASSUME Typed, Thinned, NEW v \in Viewer, NEW c \in Nat, c # 0, Owns(v, c)'
  PROVE  Owns(v, c)
<1>1. CASE client'[v].conn = c
  BY <1>1 DEF Thinned, Owns
<1>2. CASE \E i \in 1..Len(peers') :
             peers'[i].id = c /\ \E b \in 1..Len(peers'[i].up) : peers'[i].up[b].v = v
  <2>1. PICK i \in 1..Len(peers') :
          peers'[i].id = c /\ \E b \in 1..Len(peers'[i].up) : peers'[i].up[b].v = v
    BY <1>2
  <2>2. PICK b \in 1..Len(peers'[i].up) : peers'[i].up[b].v = v
    BY <2>1
  <2>3. PICK k \in 1..Len(peers), s \in Nat :
          /\ peers'[i].id = peers[k].id
          /\ \A a \in 1..Len(peers'[i].up) :
               a + s \in 1..Len(peers[k].up) /\ peers'[i].up[a] = peers[k].up[a + s]
    BY DEF Thinned
  <2> QED BY <2>1, <2>2, <2>3 DEF Owns
<1> QED BY <1>1, <1>2 DEF Owns

LEMMA ThinnedSource ==
  ASSUME Typed, Typed', SourceOK, PeersOK', Thinned, made' = made, conns' = conns,
         \A v \in Viewer : client'[v].conn \in Conns' \cup {0}
  PROVE  /\ SourceOK'
         /\ \A c \in Nat, m \in Message : Passed(c, m) => Passed(c, m)'
<1> DEFINE From(i, k, s) ==
             /\ peers'[i].id = peers[k].id
             /\ \A a \in 1..Len(peers'[i].up) :
                  a + s \in 1..Len(peers[k].up) /\ peers'[i].up[a] = peers[k].up[a + s]
<1>0. \A i \in 1..Len(peers') : \E k \in 1..Len(peers), s \in Nat : From(i, k, s)
  BY DEF Thinned
<1> HIDE DEF From
<1>c. \A v \in Viewer : /\ client'[v].pending = client[v].pending
                        /\ client'[v].conn \in {client[v].conn, 0}
  BY DEF Thinned
<1>n. Len(peers) \in Nat /\ Len(peers') \in Nat
  BY DEF Typed
<1>1. ClientsOK'
  <2> SUFFICES ASSUME NEW v \in Viewer
               PROVE  LET c == client'[v].conn
                      IN /\ c \in Conns' \cup {0}
                         /\ c # 0 => client'[v].pending = <<>>
                         /\ c # 0 => \A w \in Viewer : client'[w].conn = c => w = v
                         /\ \A i \in 1..Len(peers') : \A a \in 1..Len(peers'[i].up) :
                              LET m == peers'[i].up[a]
                              IN /\ c # 0 /\ m.v = v => peers'[i].id <= c
                                 /\ c # 0 /\ peers'[i].id = c => m.v = v
    BY DEF ClientsOK
  <2> DEFINE c == client'[v].conn
  <2>1. c \in Conns' \cup {0}
    OBVIOUS
  <2>2. c # 0 => c = client[v].conn /\ client'[v].pending = <<>>
    BY <1>c DEF SourceOK, ClientsOK
  <2>3. c # 0 => \A w \in Viewer : client'[w].conn = c => w = v
    BY <1>c, <2>2 DEF SourceOK, ClientsOK
  <2>4. ASSUME NEW i \in 1..Len(peers'), NEW a \in 1..Len(peers'[i].up), c # 0
        PROVE  /\ peers'[i].up[a].v = v => peers'[i].id <= c
               /\ peers'[i].id = c => peers'[i].up[a].v = v
    <3>1. PICK k \in 1..Len(peers), s \in Nat : From(i, k, s)
      BY <1>0
    <3>2. /\ peers'[i].id = peers[k].id
          /\ a + s \in 1..Len(peers[k].up) /\ peers'[i].up[a] = peers[k].up[a + s]
      BY <3>1 DEF From
    <3> QED BY <3>2, <2>4, <2>2 DEF SourceOK, ClientsOK
  <2> QED BY <2>1, <2>2, <2>3, <2>4
<1>2. TransitOK'
  <2>1. ASSUME NEW i \in 1..Len(peers'), NEW a \in 1..Len(peers'[i].up)
        PROVE  peers'[i].up[a].kind \in Kind => peers'[i].up[a].n <= made'
    <3>1. PICK k \in 1..Len(peers), s \in Nat : From(i, k, s)
      BY <1>0
    <3>2. a + s \in 1..Len(peers[k].up) /\ peers'[i].up[a] = peers[k].up[a + s]
      BY <3>1 DEF From
    <3> QED BY <3>2 DEF SourceOK, TransitOK
  <2>2. ASSUME NEW i \in 1..Len(peers'), NEW j \in 1..Len(peers'),
               NEW a \in 1..Len(peers'[i].up), NEW b \in 1..Len(peers'[j].up),
               peers'[i].id < peers'[j].id \/ (i = j /\ a < b),
               peers'[i].up[a].kind \in Kind, peers'[j].up[b].kind \in Kind,
               peers'[i].up[a].v = peers'[j].up[b].v
        PROVE  peers'[i].up[a].n < peers'[j].up[b].n
    <3>1. PICK k \in 1..Len(peers), s \in Nat : From(i, k, s)
      BY <1>0
    <3>2. /\ peers'[i].id = peers[k].id
          /\ a + s \in 1..Len(peers[k].up) /\ peers'[i].up[a] = peers[k].up[a + s]
      BY <3>1 DEF From
    <3>3. CASE i = j /\ a < b
      <4>1. b + s \in 1..Len(peers[k].up) /\ peers'[i].up[b] = peers[k].up[b + s]
        BY <3>1, <3>3 DEF From
      <4>2. a + s < b + s
        BY <3>3, <3>2, <4>1
      <4> QED BY <4>1, <4>2, <3>2, <3>3, <2>2 DEF SourceOK, TransitOK
    <3>4. CASE peers'[i].id < peers'[j].id
      <4>1. PICK l \in 1..Len(peers), t \in Nat : From(j, l, t)
        BY <1>0
      <4>2. /\ peers'[j].id = peers[l].id
            /\ b + t \in 1..Len(peers[l].up) /\ peers'[j].up[b] = peers[l].up[b + t]
        BY <4>1 DEF From
      <4> QED BY <4>2, <3>2, <3>4, <2>2 DEF SourceOK, TransitOK
    <3> QED BY <3>3, <3>4, <2>2
  <2> QED BY <2>1, <2>2 DEF TransitOK
<1>3. PendingOK'
  <2>1. ASSUME NEW v \in Viewer, NEW a \in 1..Len(client'[v].pending)
        PROVE  LET m == client'[v].pending[a]
               IN /\ m.v = v /\ m.kind \in Kind /\ m.n <= made'
                  /\ \A b \in 1..Len(client'[v].pending) :
                       a < b => m.n < client'[v].pending[b].n
                  /\ \A i \in 1..Len(peers') : \A b \in 1..Len(peers'[i].up) :
                       peers'[i].up[b].v = v /\ peers'[i].up[b].kind \in Kind
                         => peers'[i].up[b].n < m.n
    <3>1. client'[v].pending = client[v].pending
      BY <1>c
    <3>2. ASSUME NEW i \in 1..Len(peers'), NEW b \in 1..Len(peers'[i].up),
                 peers'[i].up[b].v = v, peers'[i].up[b].kind \in Kind
          PROVE  peers'[i].up[b].n < client'[v].pending[a].n
      <4>1. PICK k \in 1..Len(peers), s \in Nat : From(i, k, s)
        BY <1>0
      <4>2. b + s \in 1..Len(peers[k].up) /\ peers'[i].up[b] = peers[k].up[b + s]
        BY <4>1 DEF From
      <4>3. peers[k].up[b + s].v = v /\ peers[k].up[b + s].kind \in Kind
        BY <4>2, <3>2
      <4>4. peers[k].up[b + s].n < client[v].pending[a].n
        BY <4>2, <4>3, <3>1 DEF SourceOK, PendingOK
      <4> QED BY <4>2, <4>4, <3>1
    <3> QED BY <3>1, <3>2 DEF SourceOK, PendingOK
  <2> QED BY <2>1 DEF PendingOK
<1>4. ASSUME NEW c \in Nat, NEW m \in Message, Passed(c, m) PROVE Passed(c, m)'
  <2>0. m.v \in Viewer
    BY DEF Message
  <2>1. /\ client'[m.v].conn # 0 => c <= client'[m.v].conn
        /\ \A a \in 1..Len(client'[m.v].pending) : m.n < client'[m.v].pending[a].n
    BY <1>4, <1>c, <2>0 DEF Passed
  <2>2. ASSUME NEW i \in 1..Len(peers'), NEW b \in 1..Len(peers'[i].up),
               c <= peers'[i].id, peers'[i].up[b].v = m.v, peers'[i].up[b].kind \in Kind
        PROVE  m.n < peers'[i].up[b].n
    <3>1. PICK k \in 1..Len(peers), s \in Nat : From(i, k, s)
      BY <1>0
    <3>2. /\ peers'[i].id = peers[k].id
          /\ b + s \in 1..Len(peers[k].up) /\ peers'[i].up[b] = peers[k].up[b + s]
      BY <3>1 DEF From
    <3> QED BY <3>2, <2>2, <1>4 DEF Passed
  <2> QED BY <2>1, <2>2, <1>4 DEF Passed
<1> QED BY <1>1, <1>2, <1>3, <1>4 DEF SourceOK

\* The authority of the one who drives does not change, or comes to an open connection.
LEMMA StaysSuperseding ==
  ASSUME Typed, Typed', Thinned, driver' = driver, ghost' = ghost,
         NEW c \in Nat, NEW m \in Message, Past(c, m), Passed(c, m)'
  PROVE  Past(c, m)'
<1>1. m.v \in Viewer /\ driver \in Nat
  BY DEF Message, Typed
<1>2. Superseding(c, m)'
  BY ThinnedOwns, <1>1 DEF Past, Superseding
<1> QED BY <1>2 DEF Past

LEMMA HandedOver ==
  ASSUME Typed', ClientsOK', ghost' \/ driver' = 0 \/ \E v \in Viewer : client'[v].conn = driver',
         NEW c \in Nat, NEW m \in Message, Passed(c, m)'
  PROVE  Past(c, m)'
<1>1. ASSUME ~ghost', driver' # 0, Owns(m.v, driver)' PROVE c <= driver'
  <2>1. PICK v \in Viewer : client'[v].conn = driver'
    BY <1>1
  <2>2. m.v \in Viewer
    BY DEF Message
  <2>3. m.v = v
    BY <1>1, <2>1, <2>2 DEF Owns, ClientsOK
  <2> QED BY <2>1, <2>3, <1>1 DEF Passed
<1> QED BY <1>1 DEF Past, Superseding

\* Connection c carries m, behind what it carried.
Carries(c, m) ==
  /\ Len(peers') = Len(peers)
  /\ \A i \in 1..Len(peers) :
       /\ peers'[i].id = peers[i].id
       /\ peers[i].id # c => peers'[i].up = peers[i].up
       /\ peers[i].id = c =>
            /\ Len(peers'[i].up) = Len(peers[i].up) + 1
            /\ peers'[i].up[Len(peers[i].up) + 1] = m
            /\ \A a \in 1..Len(peers[i].up) : peers'[i].up[a] = peers[i].up[a]

\* A viewer sends one message more, later than all it sent.
LEMMA SentMore ==
  ASSUME Typed, Typed', SourceOK, NEW v \in Viewer, NEW m \in Message, m.v = v,
         client[v].conn # 0,
         Carries(client[v].conn, m),
         UNCHANGED <<client, driver, conns, ghost>>,
         made <= made', m.kind \in Kind => made < m.n /\ m.n <= made'
  PROVE  /\ SourceOK'
         /\ \A c \in Nat, x \in Message : Past(c, x) => Past(c, x)'
<1> DEFINE c == client[v].conn
<1>0. c \in Nat
  BY DEF Typed
<1>1. /\ Len(peers') = Len(peers)
      /\ \A i \in 1..Len(peers) :
           /\ peers'[i].id = peers[i].id
           /\ peers[i].id # c => peers'[i].up = peers[i].up
           /\ peers[i].id = c =>
                /\ Len(peers'[i].up) = Len(peers[i].up) + 1
                /\ peers'[i].up[Len(peers[i].up) + 1] = m
                /\ \A a \in 1..Len(peers[i].up) : peers'[i].up[a] = peers[i].up[a]
  BY DEF Carries
<1>l. /\ Len(peers) \in Nat
      /\ \A i \in 1..Len(peers) : Len(peers[i].up) \in Nat
  BY Carried
<1>t. made \in Nat /\ made' \in Nat /\ m.n \in Nat
  BY DEF Typed, Message
\* What is carried now was carried before, or is m.
<1>2. ASSUME NEW i \in 1..Len(peers'), NEW a \in 1..Len(peers'[i].up)
      PROVE  /\ i \in 1..Len(peers) /\ peers'[i].id = peers[i].id
             /\ \/ a \in 1..Len(peers[i].up) /\ peers'[i].up[a] = peers[i].up[a]
                \/ peers[i].id = c /\ a = Len(peers[i].up) + 1 /\ peers'[i].up[a] = m
  <2>1. i \in 1..Len(peers)
    BY <1>1
  <2>2. CASE peers[i].id # c
    BY <2>1, <2>2, <1>1
  <2>3. CASE peers[i].id = c
    BY <2>1, <2>3, <1>1, <1>l
  <2> QED BY <2>1, <2>2, <2>3, <1>1
<1>3. ClientsOK /\ TransitOK /\ PendingOK /\ PeersOK
  BY DEF SourceOK
<1>4. PeersOK'
  <2>1. Conns' = Conns
    BY <1>1 DEF Conns
  <2>2. peers' = <<>> <=> peers = <<>>
    BY <1>1 DEF Typed
  <2> QED BY <2>1, <2>2, <1>1, <1>3 DEF PeersOK
<1>5. ClientsOK'
  <2>1. Conns' = Conns
    BY <1>1 DEF Conns
  <2>2. ASSUME NEW w \in Viewer, NEW i \in 1..Len(peers'), NEW a \in 1..Len(peers'[i].up),
               client[w].conn # 0
        PROVE  /\ peers'[i].up[a].v = w => peers'[i].id <= client[w].conn
               /\ peers'[i].id = client[w].conn => peers'[i].up[a].v = w
    <3>1. CASE a \in 1..Len(peers[i].up) /\ peers'[i].up[a] = peers[i].up[a]
      BY <3>1, <1>2, <2>2, <1>3 DEF ClientsOK
    <3>2. CASE peers[i].id = c /\ peers'[i].up[a] = m
      BY <3>2, <1>2, <2>2, <1>3, <1>0 DEF ClientsOK
    <3> QED BY <3>1, <3>2, <1>2
  <2> QED BY <2>1, <2>2, <1>3 DEF ClientsOK
<1>6. TransitOK'
  <2>1. ASSUME NEW i \in 1..Len(peers'), NEW a \in 1..Len(peers'[i].up),
               peers'[i].up[a].kind \in Kind
        PROVE  peers'[i].up[a].n <= made'
    <3>1. CASE a \in 1..Len(peers[i].up) /\ peers'[i].up[a] = peers[i].up[a]
      <4>1. peers[i].up[a].n <= made /\ peers[i].up[a].n \in Int
        BY <3>1, <1>2, <2>1, <1>3, Carried DEF TransitOK
      <4> QED BY <4>1, <3>1, <1>t
    <3>2. CASE peers'[i].up[a] = m
      BY <3>2, <2>1
    <3> QED BY <3>1, <3>2, <1>2
  <2>2. ASSUME NEW i \in 1..Len(peers'), NEW j \in 1..Len(peers'),
               NEW a \in 1..Len(peers'[i].up), NEW b \in 1..Len(peers'[j].up),
               peers'[i].id < peers'[j].id \/ (i = j /\ a < b),
               peers'[i].up[a].kind \in Kind, peers'[j].up[b].kind \in Kind,
               peers'[i].up[a].v = peers'[j].up[b].v
        PROVE  peers'[i].up[a].n < peers'[j].up[b].n
    <3>0. /\ i \in 1..Len(peers) /\ peers'[i].id = peers[i].id
          /\ j \in 1..Len(peers) /\ peers'[j].id = peers[j].id
          /\ peers[i].id \in Nat /\ peers[j].id \in Nat
      BY <1>2, Carried
    <3>1. CASE a \in 1..Len(peers[i].up) /\ peers'[i].up[a] = peers[i].up[a]
      <4>1. CASE b \in 1..Len(peers[j].up) /\ peers'[j].up[b] = peers[j].up[b]
        BY <3>0, <3>1, <4>1, <2>2, <1>3 DEF TransitOK
      <4>2. CASE peers'[j].up[b] = m
        <5>1. peers[i].up[a].n <= made /\ peers[i].up[a].n \in Int
          BY <3>0, <3>1, <2>2, <1>3, Carried DEF TransitOK
        <5>2. made < m.n /\ m.n \in Int /\ made \in Int
          BY <4>2, <2>2, <1>t
        <5>3. peers[i].up[a].n < m.n
          BY <5>1, <5>2
        <5> QED BY <5>3, <3>1, <4>2
      <4> QED BY <4>1, <4>2, <1>2
    <3>2. CASE peers[i].id = c /\ a = Len(peers[i].up) + 1 /\ peers'[i].up[a] = m
      <4>1. CASE b \in 1..Len(peers[j].up) /\ peers'[j].up[b] = peers[j].up[b]
        <5>1. ~ (i = j /\ a < b)
          BY <4>1, <3>2, <3>0, <1>l
        <5>2. peers[j].up[b].v = v
          BY <4>1, <3>2, <2>2
        <5>3. peers[j].id <= c
          BY <5>2, <4>1, <3>0, <1>3 DEF ClientsOK
        <5>4. peers[i].id < peers[j].id
          BY <5>1, <3>0, <2>2
        <5> QED BY <5>3, <5>4, <3>0, <3>2, <1>0
      <4>2. CASE peers[j].id = c /\ b = Len(peers[j].up) + 1 /\ peers'[j].up[b] = m
        BY <4>2, <3>2, <3>0, <2>2, <1>l
      <4> QED BY <4>1, <4>2, <1>2
    <3> QED BY <3>1, <3>2, <1>2
  <2> QED BY <2>1, <2>2 DEF TransitOK
<1>7. PendingOK'
  <2>1. ASSUME NEW w \in Viewer, NEW a \in 1..Len(client[w].pending)
        PROVE  /\ client[w].pending[a].v = w /\ client[w].pending[a].kind \in Kind
               /\ client[w].pending[a].n <= made'
               /\ \A b \in 1..Len(client[w].pending) :
                    a < b => client[w].pending[a].n < client[w].pending[b].n
               /\ \A i \in 1..Len(peers') : \A b \in 1..Len(peers'[i].up) :
                    peers'[i].up[b].v = w /\ peers'[i].up[b].kind \in Kind
                      => peers'[i].up[b].n < client[w].pending[a].n
    <3>0. w # v
      BY <1>3, <2>1 DEF ClientsOK
    <3>1. client[w].pending[a].n <= made'
      <4>1. client[w].pending[a].n <= made /\ client[w].pending[a].n \in Int
        <5>1. client[w].pending[a].n <= made
          BY <1>3, <2>1 DEF PendingOK
        <5> QED BY <5>1, <2>1, Carried
      <4> QED BY <4>1, <1>t
    <3>2. ASSUME NEW i \in 1..Len(peers'), NEW b \in 1..Len(peers'[i].up),
                 peers'[i].up[b].v = w, peers'[i].up[b].kind \in Kind
          PROVE  peers'[i].up[b].n < client[w].pending[a].n
      <4>1. i \in 1..Len(peers) /\ b \in 1..Len(peers[i].up) /\ peers'[i].up[b] = peers[i].up[b]
        BY <1>2, <3>0, <3>2
      <4> QED BY <4>1, <3>2, <1>3 DEF PendingOK
    <3> QED BY <3>1, <3>2, <1>3 DEF PendingOK
  <2> QED BY <2>1 DEF PendingOK
<1>8. ASSUME NEW d \in Nat, NEW x \in Message, Past(d, x) PROVE Past(d, x)'
  <2>1. ASSUME NEW i \in 1..Len(peers'), NEW b \in 1..Len(peers'[i].up),
               d <= peers'[i].id, peers'[i].up[b].v = x.v, peers'[i].up[b].kind \in Kind
        PROVE  x.n < peers'[i].up[b].n
    <3>1. CASE b \in 1..Len(peers[i].up) /\ peers'[i].up[b] = peers[i].up[b]
      BY <3>1, <1>2, <2>1, <1>8 DEF Past, Passed
    <3>2. CASE peers'[i].up[b] = m
      <4>1. x.n <= made /\ made < m.n /\ x.n \in Int /\ made \in Int /\ m.n \in Int
        BY <3>2, <2>1, <1>8, <1>t DEF Past, Passed, Message
      <4> QED BY <4>1, <3>2
    <3> QED BY <3>1, <3>2, <1>2
  <2>2. x.n <= made'
    <3>1. x.n <= made /\ x.n \in Int
      BY <1>8 DEF Past, Passed, Message
    <3> QED BY <3>1, <1>t
  <2>3. Passed(d, x)'
    BY <2>1, <2>2, <1>8 DEF Past, Passed
  <2>4. ASSUME Owns(x.v, driver)' PROVE Owns(x.v, driver)
    <3>1. CASE client[x.v].conn = driver
      BY <3>1 DEF Owns
    <3>2. CASE \E i \in 1..Len(peers') :
                 peers'[i].id = driver /\ \E b \in 1..Len(peers'[i].up) : peers'[i].up[b].v = x.v
      <4>1. PICK i \in 1..Len(peers') :
              peers'[i].id = driver /\ \E b \in 1..Len(peers'[i].up) : peers'[i].up[b].v = x.v
        BY <3>2
      <4>2. PICK b \in 1..Len(peers'[i].up) : peers'[i].up[b].v = x.v
        BY <4>1
      <4>3. CASE b \in 1..Len(peers[i].up) /\ peers'[i].up[b] = peers[i].up[b]
        BY <4>3, <4>1, <4>2, <1>2 DEF Owns
      <4>4. CASE peers[i].id = c /\ peers'[i].up[b] = m
        BY <4>4, <4>1, <4>2, <1>2 DEF Owns
      <4> QED BY <4>3, <4>4, <1>2
    <3> QED BY <2>4, <3>1, <3>2 DEF Owns
  <2> QED BY <2>3, <2>4, <1>8 DEF Past, Superseding
<1> QED BY <1>4, <1>5, <1>6, <1>7, <1>8 DEF SourceOK

------------------------------------------------------------------------------
(* What was let through stays behind what is to come. *)

LEMMA PastStays ==
  ASSUME PastOK, UNCHANGED <<chain, act, page>>,
         \A c \in Nat, m \in Message : Past(c, m) => Past(c, m)'
  PROVE  PastOK'
<1>1. \A c \in Nat, m \in Message : LetThrough(c, m)' => LetThrough(c, m)
  BY DEF LetThrough
<1> QED BY <1>1 DEF PastOK

LEMMA MakeInputStep ==
  ASSUME IInv, NEW v \in Viewer, MakeInput(v)
  PROVE  Typed' /\ SourceOK' /\ PastOK'
<1>1. PICK kind \in Kind :
        LET m == [v |-> v, n |-> made + 1, kind |-> kind, to |-> 0]
        IN IF client[v].conn # 0
           THEN /\ peers' = Transmit(peers, client[v].conn, <<m>>)
                /\ UNCHANGED client
           ELSE /\ client' = [client EXCEPT ![v].pending = Pend(@, m)]
                /\ UNCHANGED peers
  BY DEF MakeInput
<1> DEFINE m == [v |-> v, n |-> made + 1, kind |-> kind, to |-> 0]
<1>2. m \in Message /\ m.v = v /\ m.kind \in Kind /\ m.n = made + 1
  BY DEF Message, IInv, Typed
<1>3. /\ made' = made + 1 /\ made' <= MaxMade /\ made \in Nat
      /\ UNCHANGED <<driver, term, chain, act, page, churn, conns, ghost>>
  BY InputPathAssumption DEF MakeInput, IInv, Typed
<1>4. CASE client[v].conn # 0
  <2> DEFINE c == client[v].conn
  <2>1. peers' = Transmit(peers, c, <<m>>) /\ UNCHANGED client
    BY <1>1, <1>4
  <2> HIDE DEF m
  <2>2. c \in Nat /\ Typed /\ SourceOK /\ PastOK
    BY DEF IInv, Typed
  <2>3. peers' \in Seq(Peer) /\ Carries(c, m)
    <3> DEFINE ps == Transmit(peers, c, <<m>>)
    <3> HIDE DEF c
    <3>1. /\ ps \in Seq(Peer) /\ Len(ps) = Len(peers)
          /\ \A i \in 1..Len(peers) :
               /\ ps[i].id = peers[i].id
               /\ peers[i].id # c => ps[i].up = peers[i].up
               /\ peers[i].id = c =>
                    /\ Len(ps[i].up) = Len(peers[i].up) + 1
                    /\ ps[i].up[Len(peers[i].up) + 1] = m
                    /\ \A a \in 1..Len(peers[i].up) : ps[i].up[a] = peers[i].up[a]
      BY <2>2, <1>2, Transmitted
    <3> HIDE DEF ps
    <3>2. peers' = ps
      BY <2>1 DEF ps
    <3> QED BY <3>1, <3>2 DEF Carries
  <2>4. Typed'
    BY <2>1, <2>2, <2>3, <1>3 DEF Typed
  <2>5. /\ SourceOK'
        /\ \A d \in Nat, x \in Message : Past(d, x) => Past(d, x)'
    BY <2>1, <2>2, <2>3, <2>4, <1>2, <1>3, <1>4, SentMore
  <2>6. PastOK'
    BY <2>5, <2>2, <1>3, PastStays
  <2> QED BY <2>4, <2>5, <2>6
<1>5. CASE client[v].conn = 0
  <2>1. client' = [client EXCEPT ![v].pending = Append(@, m)] /\ UNCHANGED peers
    BY <1>1, <1>5 DEF Pend
  <2> HIDE DEF m
  <2>2. Typed /\ SourceOK /\ PastOK /\ ClientsOK /\ TransitOK /\ PendingOK /\ PeersOK
    BY DEF IInv, SourceOK
  <2>3. /\ client[v] \in [conn : Nat, pending : Seq(Message)]
        /\ client[v].pending \in Seq(Message)
    BY <2>2 DEF Typed
  <2> DEFINE p == client[v].pending
             l == Append(p, m)
  <2>4. /\ l \in Seq(Message) /\ Len(l) = Len(p) + 1 /\ Len(p) \in Nat
        /\ l[Len(p) + 1] = m /\ \A a \in 1..Len(p) : l[a] = p[a]
    BY <2>3, <1>2
  <2>5. client' = [client EXCEPT ![v] = [client[v] EXCEPT !.pending = l]]
    BY <2>1
  <2> HIDE DEF l
  <2>6. [client[v] EXCEPT !.pending = l] \in [conn : Nat, pending : Seq(Message)]
    BY <2>3, <2>4, Zenon
  <2>7. client' \in [Viewer -> [conn : Nat, pending : Seq(Message)]]
    BY <2>2, <2>5, <2>6, Zenon DEF Typed
  <2>8. /\ \A w \in Viewer : client'[w].conn = client[w].conn
        /\ \A w \in Viewer \ {v} : client'[w].pending = client[w].pending
        /\ client'[v].pending = l
    <3>1. [client[v] EXCEPT !.pending = l].pending = l
      BY <2>3
    <3>2. [client[v] EXCEPT !.pending = l].conn = client[v].conn
      BY <2>3
    <3>3. client \in [Viewer -> [conn : Nat, pending : Seq(Message)]]
      BY <2>2 DEF Typed
    <3> QED BY <2>5, <3>1, <3>2, <3>3
  <2>9. Typed'
    <3>1. /\ driver' \in Nat /\ term' \in Nat /\ conns' \in Nat /\ ghost' \in BOOLEAN
          /\ churn' \in Nat /\ churn' <= MaxChurn /\ made' \in Nat
      BY <2>2, <1>3 DEF Typed
    <3>2. /\ peers' \in Seq(Peer) /\ chain' \in Seq(Entry) /\ (act' = NoAct \/ act' \in Doing)
          /\ page' \in [session : Nat, commands : Seq(Doing), reached : Seq(Arrival)]
      BY <2>1, <2>2, <1>3, Zenon DEF Typed
    <3> QED BY <3>1, <3>2, <2>7, <1>3, Zenon DEF Typed
  <2> HIDE DEF p
  <2>10. PeersOK'
    BY <2>1, <2>2, <1>3 DEF PeersOK, Conns
  <2>11. ClientsOK'
    <3>1. Conns' = Conns
      BY <2>1 DEF Conns
    <3>2. ASSUME NEW w \in Viewer, client'[w].conn # 0 PROVE client'[w].pending = <<>>
      BY <2>2, <2>8, <3>2, <1>5 DEF ClientsOK
    <3> QED BY <3>1, <3>2, <2>1, <2>2, <2>8 DEF ClientsOK
  <2>12. TransitOK'
    <3>1. ASSUME NEW i \in 1..Len(peers), NEW a \in 1..Len(peers[i].up),
                 peers[i].up[a].kind \in Kind
          PROVE  peers[i].up[a].n <= made'
      <4>1. peers[i].up[a].n <= made
        BY <3>1, <2>2 DEF TransitOK
      <4>2. peers[i].up[a].n \in Nat
        BY <2>2, Carried
      <4> QED BY <4>1, <4>2, <1>3
    <3> QED BY <3>1, <2>1, <2>2 DEF TransitOK
  <2>13. PendingOK'
    <3>1. ASSUME NEW w \in Viewer \ {v}, NEW a \in 1..Len(client[w].pending)
          PROVE  client[w].pending[a].n <= made'
      <4>1. client[w].pending[a].n <= made
        BY <3>1, <2>2 DEF PendingOK
      <4>2. client[w].pending[a].n \in Nat
        BY <2>2, Carried
      <4> QED BY <4>1, <4>2, <1>3
    <3>2. ASSUME NEW a \in 1..Len(l)
          PROVE  /\ l[a].v = v /\ l[a].kind \in Kind /\ l[a].n <= made'
                 /\ \A b \in 1..Len(l) : a < b => l[a].n < l[b].n
                 /\ \A i \in 1..Len(peers) : \A b \in 1..Len(peers[i].up) :
                      peers[i].up[b].v = v /\ peers[i].up[b].kind \in Kind
                        => peers[i].up[b].n < l[a].n
      <4>1. CASE a \in 1..Len(p)
        <5>1. l[a] = p[a] /\ p[a].n \in Nat /\ p[a].n <= made /\ p[a].v = v /\ p[a].kind \in Kind
          BY <4>1, <2>2, <2>4, Carried DEF PendingOK, p
        <5>2. ASSUME NEW b \in 1..Len(l), a < b PROVE l[a].n < l[b].n
          <6>1. CASE b \in 1..Len(p)
            BY <6>1, <5>1, <5>2, <4>1, <2>2, <2>4 DEF PendingOK, p
          <6>2. CASE b = Len(p) + 1
            BY <6>2, <5>1, <2>4, <1>2, <1>3
          <6> QED BY <6>1, <6>2, <2>4
        <5>3. \A i \in 1..Len(peers) : \A b \in 1..Len(peers[i].up) :
                peers[i].up[b].v = v /\ peers[i].up[b].kind \in Kind
                  => peers[i].up[b].n < p[a].n
          BY <4>1, <2>2 DEF PendingOK, p
        <5> QED BY <5>1, <5>2, <5>3, <1>3
      <4>2. CASE a = Len(p) + 1
        <5>1. ASSUME NEW i \in 1..Len(peers), NEW b \in 1..Len(peers[i].up),
                     peers[i].up[b].kind \in Kind
              PROVE  peers[i].up[b].n < l[a].n
          <6>1. peers[i].up[b].n <= made /\ peers[i].up[b].n \in Nat
            BY <5>1, <2>2, Carried DEF TransitOK
          <6> QED BY <6>1, <4>2, <2>4, <1>2, <1>3
        <5> QED BY <5>1, <4>2, <2>4, <1>2, <1>3
      <4> QED BY <4>1, <4>2, <2>4
    <3>3. ASSUME NEW w \in Viewer \ {v}, NEW a \in 1..Len(client[w].pending)
          PROVE  /\ client[w].pending[a].v = w /\ client[w].pending[a].kind \in Kind
                 /\ \A b \in 1..Len(client[w].pending) :
                      a < b => client[w].pending[a].n < client[w].pending[b].n
                 /\ \A i \in 1..Len(peers) : \A b \in 1..Len(peers[i].up) :
                      peers[i].up[b].v = w /\ peers[i].up[b].kind \in Kind
                        => peers[i].up[b].n < client[w].pending[a].n
      BY <2>2 DEF PendingOK
    <3>4. ASSUME NEW w \in Viewer, NEW a \in 1..Len(client'[w].pending)
          PROVE  LET x == client'[w].pending[a]
                 IN /\ x.v = w /\ x.kind \in Kind /\ x.n <= made'
                    /\ \A b \in 1..Len(client'[w].pending) :
                         a < b => x.n < client'[w].pending[b].n
                    /\ \A i \in 1..Len(peers') : \A b \in 1..Len(peers'[i].up) :
                         peers'[i].up[b].v = w /\ peers'[i].up[b].kind \in Kind
                           => peers'[i].up[b].n < x.n
      <4>1. CASE w = v
        <5>1. client'[w].pending = l /\ peers' = peers
          BY <4>1, <2>8, <2>1
        <5> QED BY <5>1, <4>1, <3>2, <3>4
      <4>2. CASE w # v
        <5>1. client'[w].pending = client[w].pending /\ peers' = peers
          BY <4>2, <2>8, <2>1
        <5> QED BY <5>1, <4>2, <3>1, <3>3, <3>4
      <4> QED BY <4>1, <4>2
    <3> QED BY <3>4 DEF PendingOK
  <2>14. ASSUME NEW c \in Nat, NEW x \in Message, Past(c, x) PROVE Past(c, x)'
    <3>0. x.v \in Viewer /\ x.n \in Nat /\ x.n <= made
      BY <2>14 DEF Message, Past, Passed
    <3>1. \A a \in 1..Len(client'[x.v].pending) : x.n < client'[x.v].pending[a].n
      <4>1. CASE x.v = v
        <5>1. \A a \in 1..Len(p) : x.n < p[a].n
          BY <2>14, <4>1 DEF Past, Passed, p
        <5> QED BY <5>1, <4>1, <2>4, <2>8, <3>0, <1>2, <1>3
      <4>2. CASE x.v # v
        BY <4>2, <2>14, <2>8, <3>0 DEF Past, Passed
      <4> QED BY <4>1, <4>2
    <3>2. Passed(c, x)'
      BY <3>0, <3>1, <2>14, <2>1, <2>8, <1>3 DEF Past, Passed
    <3>3. Owns(x.v, driver)' <=> Owns(x.v, driver)
      BY <3>0, <2>1, <2>8, <1>3 DEF Owns
    <3> QED BY <3>2, <3>3, <2>14, <1>3 DEF Past, Superseding
  <2>15. PastOK'
    BY <2>14, <2>2, <1>3, PastStays
  <2> QED BY <2>9, <2>10, <2>11, <2>12, <2>13, <2>15 DEF SourceOK
<1>6. client[v].conn \in Nat
  BY Carried DEF IInv
<1> QED BY <1>4, <1>5

LEMMA HandOverStep ==
  ASSUME IInv, NEW v \in Viewer, HandOver(v)
  PROVE  Typed' /\ SourceOK' /\ PastOK'
<1> DEFINE c == client[v].conn
<1>1. PICK id \in Conns \ {c} :
        peers' = Transmit(peers, c, <<[v |-> v, n |-> 0, kind |-> "transfer", to |-> id]>>)
  BY DEF HandOver
<1> DEFINE m == [v |-> v, n |-> 0, kind |-> "transfer", to |-> id]
<1>2. Typed /\ SourceOK /\ PastOK
  BY DEF IInv
<1>3. id \in Nat
  BY <1>2, Carried DEF Conns
<1>4. m \in Message /\ m.v = v /\ m.kind \notin Kind
  BY <1>3 DEF Message, Kind
<1>5. c \in Nat /\ c # 0
  BY <1>2, Carried DEF HandOver
<1>6. peers' = Transmit(peers, c, <<m>>)
  BY <1>1
<1> HIDE DEF m, c
<1>7. peers' \in Seq(Peer) /\ Carries(c, m)
  <2> DEFINE ps == Transmit(peers, c, <<m>>)
  <2>1. /\ ps \in Seq(Peer) /\ Len(ps) = Len(peers)
        /\ \A i \in 1..Len(peers) :
             /\ ps[i].id = peers[i].id
             /\ peers[i].id # c => ps[i].up = peers[i].up
             /\ peers[i].id = c =>
                  /\ Len(ps[i].up) = Len(peers[i].up) + 1
                  /\ ps[i].up[Len(peers[i].up) + 1] = m
                  /\ \A a \in 1..Len(peers[i].up) : ps[i].up[a] = peers[i].up[a]
    BY <1>2, <1>4, <1>5, Transmitted
  <2> HIDE DEF ps
  <2> QED BY <2>1, <1>6 DEF Carries, ps
<1>8. UNCHANGED <<made, client, driver, term, chain, act, page, conns, ghost>>
  BY DEF HandOver
<1>9. churn' \in Nat /\ churn' <= MaxChurn
  BY <1>2, InputPathAssumption DEF HandOver, Typed
<1>10. Typed'
  BY <1>2, <1>7, <1>8, <1>9 DEF Typed
<1>11. made <= made'
  BY <1>2, <1>8 DEF Typed
<1>12. /\ SourceOK'
       /\ \A d \in Nat, x \in Message : Past(d, x) => Past(d, x)'
  BY <1>2, <1>4, <1>5, <1>7, <1>8, <1>10, <1>11, SentMore DEF c
<1>13. PastOK'
  BY <1>2, <1>8, <1>12, PastStays
<1> QED BY <1>10, <1>12, <1>13

LEMMA BreakStep ==
  ASSUME IInv, NEW v \in Viewer, Break(v)
  PROVE  Typed' /\ SourceOK' /\ PastOK'
<1> DEFINE h == PeerAt(client[v].conn)
           u == peers[h].up
<1>1. PICK n \in 0..Len(u) : peers' = [peers EXCEPT ![h].up = SubSeq(@, 1, n)]
  BY DEF Break
<1>2. Typed /\ SourceOK /\ PastOK /\ PeersOK /\ ClientsOK
  BY DEF IInv, SourceOK
<1>3. client[v].conn \in Conns
  BY <1>2 DEF Break, ClientsOK
<1>4. h \in 1..Len(peers)
  BY <1>2, <1>3, PeerFound
<1> HIDE DEF h
<1>5. u \in Seq(Message) /\ peers[h] \in Peer
  BY <1>2, <1>4, Carried DEF Typed
<1> DEFINE w == SubSeq(u, 1, n)
<1>6. peers' = [peers EXCEPT ![h] = [peers[h] EXCEPT !.up = w]]
  BY <1>1
<1> HIDE DEF u
<1>7. w \in Seq(Message) /\ Len(w) = n /\ \A a \in 1..Len(w) : a \in 1..Len(u) /\ w[a] = u[a]
  BY <1>1, <1>5, SMT
<1> HIDE DEF w
<1>8. peers[h] \in [id : Nat, up : Seq(Message)]
  BY <1>5 DEF Peer
<1> DEFINE q == [peers[h] EXCEPT !.up = w]
<1>9. q \in Peer /\ q.id = peers[h].id /\ q.up = w
  <2>1. q \in [id : Nat, up : Seq(Message)]
    BY <1>7, <1>8, Zenon
  <2> QED BY <2>1, <1>8 DEF Peer
<1>10. peers' = [peers EXCEPT ![h] = q]
  BY <1>6
<1> HIDE DEF q
<1>11. /\ peers' \in Seq(Peer) /\ Len(peers') = Len(peers)
       /\ peers'[h] = q
       /\ \A i \in 1..Len(peers) : i # h => peers'[i] = peers[i]
  BY <1>2, <1>4, <1>9, <1>10 DEF Typed
<1>12. client' = [client EXCEPT ![v].conn = 0]
  BY DEF Break
<1>13. client' \in [Viewer -> [conn : Nat, pending : Seq(Message)]]
  BY <1>2, <1>12 DEF Typed
<1>14. /\ \A x \in Viewer : /\ client'[x].pending = client[x].pending
                            /\ client'[x].conn \in {client[x].conn, 0}
  BY <1>2, <1>12 DEF Typed
<1>15. UNCHANGED <<made, driver, term, chain, act, page, conns, ghost>>
  BY DEF Break
<1>16. churn' \in Nat /\ churn' <= MaxChurn
  <2>1. churn < MaxChurn /\ churn' = churn + 1
    BY DEF Break
  <2>2. churn \in Nat
    BY <1>2 DEF Typed
  <2> QED BY <2>1, <2>2, InputPathAssumption
<1>17. Typed'
  BY <1>2, <1>11, <1>13, <1>15, <1>16 DEF Typed
<1>18. Thinned
  <2>1. ASSUME NEW i \in 1..Len(peers')
        PROVE  /\ peers'[i].id = peers[i].id
               /\ \A a \in 1..Len(peers'[i].up) :
                    a + 0 \in 1..Len(peers[i].up) /\ peers'[i].up[a] = peers[i].up[a + 0]
    <3>1. CASE i = h
      <4>1. peers'[i].up = w /\ peers[i].up = u /\ peers'[i].id = peers[i].id
        BY <3>1, <1>11, <1>9 DEF u
      <4> QED BY <4>1, <1>7
    <3>2. CASE i # h
      BY <3>2, <1>11
    <3> QED BY <3>1, <3>2
  <2>2. ASSUME NEW i \in 1..Len(peers')
        PROVE  \E k \in 1..Len(peers), s \in Nat :
                 /\ peers'[i].id = peers[k].id
                 /\ \A a \in 1..Len(peers'[i].up) :
                      a + s \in 1..Len(peers[k].up) /\ peers'[i].up[a] = peers[k].up[a + s]
    <3>1. i \in 1..Len(peers) /\ 0 \in Nat
      BY <1>11
    <3> QED BY <2>1, <3>1, Zenon
  <2> QED BY <2>2, <1>14 DEF Thinned
<1>19. \A i \in 1..Len(peers) : peers'[i].id = peers[i].id
  BY <1>11, <1>9
<1>20. Conns' = Conns /\ (peers' = <<>> <=> peers = <<>>)
  <2>1. Conns' = Conns
    BY <1>11, <1>19 DEF Conns
  <2>2. Len(peers') # 0 /\ Len(peers) # 0
    BY <1>4, <1>11, <1>2, Carried
  <2>3. peers' # <<>> /\ peers # <<>>
    BY <2>2
  <2> QED BY <2>1, <2>3
<1>21. PeersOK'
  BY <1>2, <1>11, <1>15, <1>19, <1>20 DEF PeersOK
<1>22. \A x \in Viewer : client'[x].conn \in Conns' \cup {0}
  BY <1>2, <1>14, <1>20 DEF ClientsOK
<1>23. /\ SourceOK'
       /\ \A d \in Nat, x \in Message : Passed(d, x) => Passed(d, x)'
  BY <1>2, <1>15, <1>17, <1>18, <1>21, <1>22, ThinnedSource
<1>24. ASSUME NEW d \in Nat, NEW x \in Message, Past(d, x) PROVE Past(d, x)'
  <2>1. Passed(d, x)'
    BY <1>23, <1>24 DEF Past
  <2> QED BY <2>1, <1>24, <1>2, <1>15, <1>17, <1>18, StaysSuperseding
<1>25. PastOK'
  BY <1>2, <1>15, <1>24, PastStays
<1> QED BY <1>17, <1>23, <1>25

LEMMA ConnectStep ==
  ASSUME IInv, NEW v \in Viewer, Connect(v)
  PROVE  Typed' /\ SourceOK' /\ PastOK'
<1> DEFINE u == client[v].pending
           c == conns + 1
           q == [id |-> c, up |-> u]
           k == Len(peers)
<1>1. /\ peers' = Append(peers, q)
      /\ client' = [client EXCEPT ![v] = [conn |-> c, pending |-> <<>>]]
      /\ driver' = (IF driver = 0 THEN c ELSE driver)
      /\ conns' = c /\ client[v].conn = 0
      /\ UNCHANGED <<made, term, chain, act, page, churn, ghost>>
  BY DEF Connect
<1>2. Typed /\ SourceOK /\ PastOK /\ PeersOK /\ ClientsOK /\ TransitOK /\ PendingOK
  BY DEF IInv, SourceOK
<1>3. u \in Seq(Message) /\ k \in Nat /\ c \in Nat /\ conns \in Nat /\ peers \in Seq(Peer)
  BY <1>2, Carried DEF Typed
<1> HIDE DEF u
<1>4. q \in Peer /\ q.id = c /\ q.up = u
  BY <1>3 DEF Peer
<1> HIDE DEF q
<1>5. /\ peers' \in Seq(Peer) /\ Len(peers') = k + 1 /\ peers'[k+1] = q
      /\ \A i \in 1..k : peers'[i] = peers[i]
  BY <1>1, <1>3, <1>4
<1> HIDE DEF c
<1>6. c = conns + 1
  BY DEF c
<1>7. client' \in [Viewer -> [conn : Nat, pending : Seq(Message)]]
  BY <1>1, <1>2, <1>3 DEF Typed
<1>8. /\ client'[v].conn = c /\ client'[v].pending = <<>>
      /\ \A w \in Viewer : w # v => client'[w] = client[w]
  BY <1>1, <1>2 DEF Typed
<1>9. Typed'
  BY <1>1, <1>2, <1>3, <1>5, <1>7 DEF Typed
<1> HIDE DEF k
<1>10. \A i \in 1..k : /\ 1 <= peers[i].id /\ peers[i].id <= conns /\ peers[i].id \in Nat
                       /\ peers[i].id < c
  BY <1>2, <1>3, <1>6, Carried DEF PeersOK, k
\* What is carried now was carried before, or waited for the connection.
<1>11. ASSUME NEW i \in 1..Len(peers'), NEW a \in 1..Len(peers'[i].up)
       PROVE  \/ /\ i \in 1..Len(peers) /\ peers'[i].id = peers[i].id
                 /\ a \in 1..Len(peers[i].up) /\ peers'[i].up[a] = peers[i].up[a]
              \/ /\ i = k + 1 /\ peers'[i].id = c
                 /\ a \in 1..Len(u) /\ peers'[i].up[a] = u[a]
  <2>1. CASE i \in 1..k
    BY <2>1, <1>5, <1>11 DEF k
  <2>2. CASE i = k + 1
    BY <2>2, <1>4, <1>5, <1>11
  <2> QED BY <2>1, <2>2, <1>3, <1>5
<1>12. Conns' = Conns \cup {c}
  <2>1. \A i \in 1..k : i \in 1..Len(peers') /\ peers'[i].id = peers[i].id
    BY <1>3, <1>5
  <2>2. k + 1 \in 1..Len(peers') /\ peers'[k+1].id = c
    BY <1>3, <1>4, <1>5
  <2>3. \A i \in 1..Len(peers') : i \in 1..k \/ i = k + 1
    BY <1>3, <1>5
  <2>4. Conns = {peers[i].id : i \in 1..k} /\ Conns' = {peers'[i].id : i \in 1..Len(peers')}
    BY DEF Conns, k
  <2> QED BY <2>1, <2>2, <2>3, <2>4
<1>13. PeersOK'
  <2>1. ASSUME NEW i \in 1..Len(peers')
        PROVE  1 <= peers'[i].id /\ peers'[i].id <= conns'
    <3>1. CASE i \in 1..k
      BY <3>1, <1>1, <1>3, <1>5, <1>6, <1>10
    <3>2. CASE i = k + 1
      BY <3>2, <1>1, <1>3, <1>4, <1>5, <1>6
    <3> QED BY <3>1, <3>2, <1>3, <1>5
  <2>2. ASSUME NEW i \in 1..Len(peers'), NEW j \in 1..Len(peers'), i < j
        PROVE  peers'[i].id < peers'[j].id
    <3>1. i \in 1..k /\ peers'[i].id = peers[i].id
      BY <2>2, <1>3, <1>5
    <3>2. CASE j \in 1..k
      BY <3>1, <3>2, <2>2, <1>2, <1>5 DEF PeersOK, k
    <3>3. CASE j = k + 1
      BY <3>1, <3>3, <1>4, <1>5, <1>10
    <3> QED BY <3>2, <3>3, <1>3, <1>5
  <2>3. driver' \in Conns' \cup {0} /\ driver' # 0
    BY <1>1, <1>2, <1>3, <1>6, <1>12 DEF PeersOK
  <2>4. peers' # <<>>
    BY <1>3, <1>5
  <2> QED BY <2>1, <2>2, <2>3, <2>4 DEF PeersOK
<1>14. \A w \in Viewer : client[w].conn # c /\ (client[w].conn # 0 => client[w].conn < c)
  <2>1. \A d \in Conns : d < c
    BY <1>10 DEF Conns, k
  <2>2. c # 0 /\ \A w \in Viewer : client[w].conn \in Conns \cup {0}
    BY <1>2, <1>3, <1>6 DEF ClientsOK
  <2>3. \A w \in Viewer : client[w].conn \in Nat
    BY <1>2, Carried
  <2> QED BY <2>1, <2>2, <2>3, <1>3
<1>15. \A a \in 1..Len(u) : u[a].v = v /\ u[a].kind \in Kind /\ u[a].n <= made
  BY <1>2 DEF PendingOK, u
<1>16. ClientsOK'
  <2>1. ASSUME NEW w \in Viewer, NEW i \in 1..Len(peers'), NEW a \in 1..Len(peers'[i].up),
               client'[w].conn # 0
        PROVE  /\ peers'[i].up[a].v = w => peers'[i].id <= client'[w].conn
               /\ peers'[i].id = client'[w].conn => peers'[i].up[a].v = w
    <3>1. CASE /\ i \in 1..Len(peers) /\ peers'[i].id = peers[i].id
               /\ a \in 1..Len(peers[i].up) /\ peers'[i].up[a] = peers[i].up[a]
      <4>1. CASE w = v
        BY <3>1, <4>1, <1>3, <1>8, <1>10 DEF k
      <4>2. CASE w # v
        BY <3>1, <4>2, <2>1, <1>2, <1>8 DEF ClientsOK
      <4> QED BY <4>1, <4>2
    <3>2. CASE i = k + 1 /\ peers'[i].id = c /\ a \in 1..Len(u) /\ peers'[i].up[a] = u[a]
      <4>1. CASE w = v
        BY <3>2, <4>1, <1>3, <1>8, <1>15
      <4>2. CASE w # v
        BY <3>2, <4>2, <1>8, <1>14, <1>15
      <4> QED BY <4>1, <4>2
    <3> QED BY <3>1, <3>2, <1>11
  <2>2. ASSUME NEW w \in Viewer
        PROVE  /\ client'[w].conn \in Conns' \cup {0}
               /\ client'[w].conn # 0 => client'[w].pending = <<>>
               /\ client'[w].conn # 0 =>
                    \A x \in Viewer : client'[x].conn = client'[w].conn => x = w
    <3>1. CASE w = v
      BY <3>1, <1>8, <1>12, <1>14
    <3>2. CASE w # v
      BY <3>2, <1>2, <1>8, <1>12, <1>14 DEF ClientsOK
    <3> QED BY <3>1, <3>2
  <2> QED BY <2>1, <2>2 DEF ClientsOK
<1>17. TransitOK'
  <2>1. ASSUME NEW i \in 1..Len(peers'), NEW a \in 1..Len(peers'[i].up),
               peers'[i].up[a].kind \in Kind
        PROVE  peers'[i].up[a].n <= made'
    BY <2>1, <1>1, <1>2, <1>11, <1>15 DEF TransitOK
  <2>2. ASSUME NEW i \in 1..Len(peers'), NEW j \in 1..Len(peers'),
               NEW a \in 1..Len(peers'[i].up), NEW b \in 1..Len(peers'[j].up),
               peers'[i].id < peers'[j].id \/ (i = j /\ a < b),
               peers'[i].up[a].kind \in Kind, peers'[j].up[b].kind \in Kind,
               peers'[i].up[a].v = peers'[j].up[b].v
        PROVE  peers'[i].up[a].n < peers'[j].up[b].n
    <3>1. CASE /\ i \in 1..Len(peers) /\ peers'[i].id = peers[i].id
               /\ a \in 1..Len(peers[i].up) /\ peers'[i].up[a] = peers[i].up[a]
      <4>1. CASE /\ j \in 1..Len(peers) /\ peers'[j].id = peers[j].id
                 /\ b \in 1..Len(peers[j].up) /\ peers'[j].up[b] = peers[j].up[b]
        BY <3>1, <4>1, <2>2, <1>2 DEF TransitOK
      <4>2. CASE j = k + 1 /\ peers'[j].id = c /\ b \in 1..Len(u) /\ peers'[j].up[b] = u[b]
        <5>1. peers[i].up[a].v = v /\ peers[i].up[a].kind \in Kind
          BY <3>1, <4>2, <2>2, <1>15
        <5>2. peers[i].up[a].n < client[v].pending[b].n
          BY <3>1, <4>2, <5>1, <1>2 DEF PendingOK, u
        <5> QED BY <3>1, <4>2, <5>2 DEF u
      <4> QED BY <4>1, <4>2, <1>11
    <3>2. CASE i = k + 1 /\ peers'[i].id = c /\ a \in 1..Len(u) /\ peers'[i].up[a] = u[a]
      <4>1. CASE /\ j \in 1..Len(peers) /\ peers'[j].id = peers[j].id
                 /\ b \in 1..Len(peers[j].up) /\ peers'[j].up[b] = peers[j].up[b]
        <5>1. j \in 1..k
          BY <4>1 DEF k
        <5>2. peers[j].id < c /\ peers[j].id \in Nat
          BY <5>1, <1>10
        <5>3. ~(c < peers[j].id) /\ i # j
          BY <3>2, <5>1, <5>2, <1>3
        <5> QED BY <2>2, <3>2, <4>1, <5>3
      <4>2. CASE j = k + 1 /\ peers'[j].id = c /\ b \in 1..Len(u) /\ peers'[j].up[b] = u[b]
        BY <3>2, <4>2, <2>2, <1>2, <1>3 DEF PendingOK, u
      <4> QED BY <4>1, <4>2, <1>11
    <3> QED BY <3>1, <3>2, <1>11
  <2> QED BY <2>1, <2>2 DEF TransitOK
<1>18. PendingOK'
  <2>1. ASSUME NEW w \in Viewer, w # v, NEW a \in 1..Len(client[w].pending),
               NEW i \in 1..Len(peers'), NEW b \in 1..Len(peers'[i].up),
               peers'[i].up[b].v = w, peers'[i].up[b].kind \in Kind
        PROVE  peers'[i].up[b].n < client[w].pending[a].n
    <3>1. /\ i \in 1..Len(peers) /\ b \in 1..Len(peers[i].up)
          /\ peers'[i].up[b] = peers[i].up[b]
      BY <2>1, <1>11, <1>15
    <3>2. peers[i].up[b].v = w /\ peers[i].up[b].kind \in Kind
      BY <2>1, <3>1
    <3>3. peers[i].up[b].n < client[w].pending[a].n
      BY <2>1, <3>1, <3>2, <1>2 DEF PendingOK
    <3> QED BY <3>1, <3>3
  <2>2. ASSUME NEW w \in Viewer, NEW a \in 1..Len(client'[w].pending)
        PROVE  LET m == client'[w].pending[a]
               IN /\ m.v = w /\ m.kind \in Kind /\ m.n <= made'
                  /\ \A b \in 1..Len(client'[w].pending) :
                       a < b => m.n < client'[w].pending[b].n
                  /\ \A i \in 1..Len(peers') : \A b \in 1..Len(peers'[i].up) :
                       peers'[i].up[b].v = w /\ peers'[i].up[b].kind \in Kind
                         => peers'[i].up[b].n < m.n
    <3>1. w # v
      BY <2>2, <1>8
    <3>2. client'[w].pending = client[w].pending
      BY <3>1, <1>8
    <3>3. \A i \in 1..Len(peers') : \A b \in 1..Len(peers'[i].up) :
            peers'[i].up[b].v = w /\ peers'[i].up[b].kind \in Kind
              => peers'[i].up[b].n < client[w].pending[a].n
      BY <2>1, <2>2, <3>1, <3>2
    <3>4. /\ client[w].pending[a].v = w /\ client[w].pending[a].kind \in Kind
          /\ client[w].pending[a].n <= made
          /\ \A b \in 1..Len(client[w].pending) :
               a < b => client[w].pending[a].n < client[w].pending[b].n
      BY <2>2, <3>2, <1>2 DEF PendingOK
    <3> QED BY <3>2, <3>3, <3>4, <1>1
  <2> QED BY <2>2 DEF PendingOK
<1>19. ASSUME NEW d \in Nat, NEW x \in Message, Past(d, x) PROVE Past(d, x)'
  <2>0. x.v \in Viewer /\ x.kind \in Kind /\ x.n <= made /\ 1 <= d /\ d <= conns
    BY <1>19 DEF Message, Past, Passed
  <2>1. ASSUME NEW i \in 1..Len(peers'), NEW b \in 1..Len(peers'[i].up),
               d <= peers'[i].id, peers'[i].up[b].v = x.v, peers'[i].up[b].kind \in Kind
        PROVE  x.n < peers'[i].up[b].n
    <3>1. CASE /\ i \in 1..Len(peers) /\ peers'[i].id = peers[i].id
               /\ b \in 1..Len(peers[i].up) /\ peers'[i].up[b] = peers[i].up[b]
      BY <3>1, <2>1, <1>19 DEF Past, Passed
    <3>2. CASE i = k + 1 /\ b \in 1..Len(u) /\ peers'[i].up[b] = u[b]
      BY <3>2, <2>1, <1>15, <1>19 DEF Past, Passed, u
    <3> QED BY <3>1, <3>2, <1>11
  <2>2. /\ client'[x.v].conn # 0 => d <= client'[x.v].conn
        /\ \A a \in 1..Len(client'[x.v].pending) : x.n < client'[x.v].pending[a].n
    <3>1. CASE x.v = v
      BY <3>1, <2>0, <1>3, <1>6, <1>8
    <3>2. CASE x.v # v
      BY <3>2, <2>0, <1>8, <1>19 DEF Past, Passed
    <3> QED BY <3>1, <3>2
  <2>3. Passed(d, x)'
    BY <2>0, <2>1, <2>2, <1>1, <1>3, <1>6 DEF Passed
  <2>4. ASSUME ~ghost', driver' # 0, Owns(x.v, driver)' PROVE d <= driver'
    <3>1. CASE driver = 0
      BY <3>1, <2>0, <1>1, <1>3, <1>6
    <3>2. CASE driver # 0
      <4>1. driver' = driver /\ driver \in Conns
        BY <3>2, <1>1, <1>2 DEF PeersOK
      <4>2. driver # c
        BY <4>1, <1>3, <1>10 DEF Conns, k
      <4>3. Owns(x.v, driver)
        <5>1. CASE client'[x.v].conn = driver
          BY <5>1, <4>2, <1>8, <2>0 DEF Owns
        <5>2. CASE \E i \in 1..Len(peers') :
                     peers'[i].id = driver /\ \E b \in 1..Len(peers'[i].up) : peers'[i].up[b].v = x.v
          <6>1. PICK i \in 1..Len(peers') :
                  peers'[i].id = driver /\ \E b \in 1..Len(peers'[i].up) : peers'[i].up[b].v = x.v
            BY <5>2
          <6>2. PICK b \in 1..Len(peers'[i].up) : peers'[i].up[b].v = x.v
            BY <6>1
          <6>3. CASE /\ i \in 1..Len(peers) /\ peers'[i].id = peers[i].id
                     /\ b \in 1..Len(peers[i].up) /\ peers'[i].up[b] = peers[i].up[b]
            BY <6>1, <6>2, <6>3 DEF Owns
          <6>4. CASE peers'[i].id = c
            BY <6>1, <6>4, <4>2
          <6> QED BY <6>3, <6>4, <1>11
        <5> QED BY <5>1, <5>2, <2>4, <4>1 DEF Owns
      <4> QED BY <4>1, <4>3, <3>2, <2>4, <1>1, <1>19 DEF Past, Superseding
    <3> QED BY <3>1, <3>2
  <2> QED BY <2>3, <2>4 DEF Past, Superseding
<1>20. PastOK'
  BY <1>1, <1>2, <1>19, PastStays
<1> QED BY <1>9, <1>13, <1>16, <1>17, <1>18, <1>20 DEF SourceOK

\* One connection's first message is taken off it.
Takes(id) ==
  /\ peers[PeerAt(id)].up # <<>>
  /\ peers' = [peers EXCEPT ![PeerAt(id)].up = Tail(@)]
  /\ UNCHANGED <<made, client, conns>>

LEMMA Taken ==
  ASSUME IInv, NEW id \in Conns, Takes(id)
  PROVE  /\ peers' \in Seq(Peer) /\ Conns' = Conns /\ Thinned
         /\ driver' \in Conns \cup {0} /\ (peers = <<>> <=> driver' = 0) => PeersOK'
         /\ PeerAt(id) \in 1..Len(peers) /\ peers[PeerAt(id)].id = id
         /\ LET u == peers[PeerAt(id)].up
            IN /\ Head(u) = u[1] /\ 1 \in 1..Len(u)
               /\ peers'[PeerAt(id)].id = id
               /\ \A a \in 1..Len(peers'[PeerAt(id)].up) :
                    a + 1 \in 1..Len(u) /\ peers'[PeerAt(id)].up[a] = u[a+1]
         /\ \A i \in 1..Len(peers') : i \in 1..Len(peers) /\ peers'[i].id = peers[i].id
         /\ \A i \in 1..Len(peers) : i # PeerAt(id) => peers'[i] = peers[i]
<1> DEFINE h == PeerAt(id)
           u == peers[h].up
           w == Tail(u)
           q == [peers[h] EXCEPT !.up = w]
<1>1. Typed /\ PeersOK
  BY DEF IInv, SourceOK
<1>2. h \in 1..Len(peers) /\ peers[h].id = id
  BY <1>1, PeerFound
<1>3. peers' = [peers EXCEPT ![h] = q] /\ u # <<>>
  BY DEF Takes
<1> HIDE DEF h
<1>4. peers[h] \in [id : Nat, up : Seq(Message)] /\ peers \in Seq(Peer)
  <2>1. peers \in Seq(Peer)
    BY <1>1 DEF Typed
  <2>2. peers[h] \in Peer
    BY <2>1, <1>2
  <2> QED BY <2>1, <2>2 DEF Peer
<1>5. u \in Seq(Message)
  BY <1>4
<1> HIDE DEF u
<1>6. /\ w \in Seq(Message) /\ Head(u) = u[1] /\ 1 \in 1..Len(u)
      /\ \A a \in 1..Len(w) : a + 1 \in 1..Len(u) /\ w[a] = u[a+1]
  BY <1>3, <1>5
<1> HIDE DEF w
<1>7. q \in Peer /\ q.id = id /\ q.up = w
  <2>1. q \in [id : Nat, up : Seq(Message)]
    BY <1>4, <1>6, Zenon
  <2> QED BY <2>1, <1>2, <1>4 DEF Peer
<1> HIDE DEF q
<1>8. /\ peers' \in Seq(Peer) /\ Len(peers') = Len(peers) /\ peers'[h] = q
      /\ \A i \in 1..Len(peers) : i # h => peers'[i] = peers[i]
  <2>1. peers \in Seq(Peer) /\ q \in Peer
    BY <1>4, <1>7
  <2> QED BY <2>1, <1>2, <1>3
<1>9. \A i \in 1..Len(peers) : peers'[i].id = peers[i].id
  BY <1>2, <1>7, <1>8
<1>10. Conns' = Conns
  BY <1>8, <1>9 DEF Conns
<1>11. Thinned
  <2>1. ASSUME NEW i \in 1..Len(peers')
        PROVE  \E k \in 1..Len(peers), s \in Nat :
                 /\ peers'[i].id = peers[k].id
                 /\ \A a \in 1..Len(peers'[i].up) :
                      a + s \in 1..Len(peers[k].up) /\ peers'[i].up[a] = peers[k].up[a + s]
    <3>1. i \in 1..Len(peers) /\ 0 \in Nat /\ 1 \in Nat /\ peers'[i].id = peers[i].id
      BY <1>8, <1>9
    <3>2. CASE i = h
      <4>1. \A a \in 1..Len(peers'[i].up) :
              a + 1 \in 1..Len(peers[i].up) /\ peers'[i].up[a] = peers[i].up[a + 1]
        BY <3>2, <1>6, <1>7, <1>8 DEF u
      <4> QED BY <4>1, <3>1, Zenon
    <3>3. CASE i # h
      <4>1. \A a \in 1..Len(peers'[i].up) :
              a + 0 \in 1..Len(peers[i].up) /\ peers'[i].up[a] = peers[i].up[a + 0]
        <5>1. peers'[i] = peers[i]
          BY <3>1, <3>3, <1>8
        <5> QED BY <5>1
      <4> QED BY <4>1, <3>1, Zenon
    <3> QED BY <3>2, <3>3
  <2>2. \A v \in Viewer : client'[v].pending = client[v].pending
                          /\ client'[v].conn \in {client[v].conn, 0}
    BY DEF Takes
  <2> QED BY <2>1, <2>2 DEF Thinned
<1>12. ASSUME driver' \in Conns \cup {0}, peers = <<>> <=> driver' = 0 PROVE PeersOK'
  <2>1. peers' # <<>> /\ peers # <<>>
    BY <1>2, <1>4, <1>8
  <2> QED BY <2>1, <1>1, <1>8, <1>9, <1>10, <1>12 DEF PeersOK, Takes
<1>13. /\ peers'[h].id = id
       /\ \A a \in 1..Len(peers'[h].up) : a + 1 \in 1..Len(u) /\ peers'[h].up[a] = u[a+1]
  BY <1>6, <1>7, <1>8
<1> QED BY <1>2, <1>6, <1>8, <1>9, <1>10, <1>11, <1>12, <1>13 DEF h, u

\* All that was let through before is Before an input that the driver's connection brings.
LEMMA NextIsLater ==
  ASSUME IInv, NEW id \in Conns, peers[PeerAt(id)].up # <<>>, driver = id,
         Head(peers[PeerAt(id)].up).kind \in Kind,
         NEW c \in Nat, NEW x \in Message, Past(c, x),
         x.v = Head(peers[PeerAt(id)].up).v, c = id \/ ~ghost
  PROVE  x.n < Head(peers[PeerAt(id)].up).n
<1> DEFINE h == PeerAt(id)
           m == Head(peers[h].up)
<1>1. Typed /\ PeersOK
  BY DEF IInv, SourceOK
<1>2. h \in 1..Len(peers) /\ peers[h].id = id
  BY <1>1, PeerFound
<1>3. peers[h].up \in Seq(Message)
  BY <1>1, <1>2, Carried
<1>4. 1 \in 1..Len(peers[h].up) /\ m = peers[h].up[1]
  BY <1>3
<1>5. id # 0 /\ id \in Nat
  BY <1>1, <1>2, Carried DEF PeersOK
<1> HIDE DEF h
<1>6. c <= id
  <2>1. CASE ~ghost
    <3>1. Owns(x.v, driver)
      BY <1>2, <1>4 DEF Owns, h
    <3> QED BY <2>1, <3>1, <1>5 DEF Past, Superseding
  <2>2. CASE c = id
    BY <2>2, <1>5
  <2> QED BY <2>1, <2>2
<1> QED BY <1>2, <1>4, <1>6 DEF Past, Passed, h

LEMMA ReceiveUpStep ==
  ASSUME IInv, NEW id \in Conns, ReceiveUp(id)
  PROVE  Typed' /\ SourceOK' /\ PastOK'
<1> DEFINE h == PeerAt(id)
<1>0. PICK m : m = Head(peers[h].up)
  OBVIOUS
<1>1. /\ peers[h].up # <<>>
      /\ ReceiveInput(id, m) \/ ReceiveTransfer(id, m)
      /\ peers' = [peers EXCEPT ![h].up = Tail(@)]
      /\ UNCHANGED <<made, client, act, page, churn, conns>>
  BY <1>0 DEF ReceiveUp
<1>2. Typed /\ SourceOK /\ PastOK /\ PeersOK /\ ClientsOK /\ TransitOK /\ PendingOK
  BY DEF IInv, SourceOK
<1>3. /\ peers' \in Seq(Peer) /\ Conns' = Conns /\ Thinned
      /\ driver' \in Conns \cup {0} /\ (peers = <<>> <=> driver' = 0) => PeersOK'
      /\ h \in 1..Len(peers) /\ peers[h].id = id
      /\ m = peers[h].up[1] /\ 1 \in 1..Len(peers[h].up)
      /\ peers'[h].id = id
      /\ \A a \in 1..Len(peers'[h].up) :
           a + 1 \in 1..Len(peers[h].up) /\ peers'[h].up[a] = peers[h].up[a+1]
      /\ \A i \in 1..Len(peers') : i \in 1..Len(peers) /\ peers'[i].id = peers[i].id
      /\ \A i \in 1..Len(peers) : i # h => peers'[i] = peers[i]
  BY <1>0, <1>1, Taken DEF Takes
<1> HIDE DEF h
<1>4. id \in Nat /\ 1 <= id /\ id <= conns /\ m \in Message
  BY <1>2, <1>3, Carried DEF PeersOK
<1>5. ASSUME Typed', PeersOK'
      PROVE  SourceOK' /\ \A d \in Nat, x \in Message : Passed(d, x) => Passed(d, x)'
  <2>1. \A v \in Viewer : client'[v].conn \in Conns' \cup {0}
    BY <1>1, <1>2, <1>3 DEF ClientsOK
  <2> QED BY <2>1, <1>1, <1>2, <1>3, <1>5, ThinnedSource
<1>6. ASSUME ReceiveInput(id, m) PROVE Typed' /\ SourceOK' /\ PastOK'
  <2>1. /\ m.kind \in Kind
        /\ chain' = (IF driver = id THEN Append(chain, [id |-> id, m |-> m]) ELSE chain)
        /\ UNCHANGED <<driver, term, ghost>>
    BY <1>6 DEF ReceiveInput
  <2> DEFINE e == [id |-> id, m |-> m]
  <2>2. e \in Entry /\ e.id = id /\ e.m = m
    BY <1>4 DEF Entry
  <2> HIDE DEF e
  <2>3. /\ chain' \in Seq(Entry)
        /\ driver = id => /\ Len(chain') = Len(chain) + 1
                          /\ chain'[Len(chain)+1] = e
                          /\ \A i \in 1..Len(chain) : chain'[i] = chain[i]
        /\ driver # id => chain' = chain
        /\ Len(chain) \in Nat
    <3>1. chain \in Seq(Entry)
      BY <1>2 DEF Typed
    <3> QED BY <3>1, <2>1, <2>2 DEF e
  <2>4. Typed'
    BY <2>1, <2>3, <1>1, <1>2, <1>3 DEF Typed
  <2>5. PeersOK'
    BY <2>1, <1>2, <1>3 DEF PeersOK
  <2>6. ASSUME NEW d \in Nat, NEW x \in Message, Past(d, x) PROVE Past(d, x)'
    <3>1. Passed(d, x)'
      BY <2>4, <2>5, <2>6, <1>5 DEF Past
    <3> QED BY <3>1, <2>1, <2>4, <2>6, <1>2, <1>3, StaysSuperseding
  <2>7. ASSUME driver = id PROVE Past(id, m)'
    <3>0. m.v \in Viewer /\ m.n \in Nat
      BY <1>4 DEF Message
    <3>1. m.n <= made' /\ id <= conns'
      BY <2>1, <1>1, <1>2, <1>3, <1>4 DEF TransitOK
    <3>2. client'[m.v].conn # 0 => id <= client'[m.v].conn
      <4>1. client' = client
        BY <1>1
      <4>2. client[m.v].conn # 0 => peers[h].id <= client[m.v].conn
        BY <3>0, <1>2, <1>3 DEF ClientsOK
      <4> QED BY <4>1, <4>2, <1>3
    <3>3. ASSUME NEW a \in 1..Len(client'[m.v].pending)
          PROVE  m.n < client'[m.v].pending[a].n
      <4>1. a \in 1..Len(client[m.v].pending) /\ client' = client
        BY <3>3, <1>1
      <4> QED BY <4>1, <3>0, <2>1, <1>2, <1>3 DEF PendingOK
    <3>4. ASSUME NEW i \in 1..Len(peers'), NEW b \in 1..Len(peers'[i].up),
                 id <= peers'[i].id, peers'[i].up[b].v = m.v, peers'[i].up[b].kind \in Kind
          PROVE  m.n < peers'[i].up[b].n
      <4>1. i \in 1..Len(peers) /\ peers'[i].id = peers[i].id
        BY <1>3
      <4>2. CASE i = h
        <5>1. b + 1 \in 1..Len(peers[h].up) /\ peers'[h].up[b] = peers[h].up[b+1]
          BY <4>2, <3>4, <1>3
        <5>2. peers[h].up[b+1].v = m.v /\ peers[h].up[b+1].kind \in Kind /\ 1 < b + 1
          BY <5>1, <4>2, <3>4
        <5>3. m.n < peers[h].up[b+1].n
          BY <5>1, <5>2, <2>1, <1>2, <1>3 DEF TransitOK
        <5> QED BY <5>1, <5>3, <4>2
      <4>3. CASE i # h
        <5>1. id < peers[i].id
          <6>1. i < h \/ h < i
            BY <4>1, <4>3, <1>3
          <6>2. peers[i].id # id /\ peers[i].id \in Nat
            BY <6>1, <4>1, <1>2, <1>3, <1>4, Carried DEF PeersOK
          <6> QED BY <6>2, <4>1, <3>4, <1>4
        <5>2. peers'[i] = peers[i]
          BY <4>1, <4>3, <1>3
        <5>3. b \in 1..Len(peers[i].up) /\ peers[i].up[b].v = m.v /\ peers[i].up[b].kind \in Kind
          BY <5>2, <3>4
        <5>4. m.n < peers[i].up[b].n
          BY <5>1, <5>3, <4>1, <2>1, <1>2, <1>3 DEF TransitOK
        <5> QED BY <5>2, <5>4
      <4> QED BY <4>2, <4>3
    <3>5. Passed(id, m)'
      BY <3>1, <3>2, <3>3, <3>4, <2>1, <1>4 DEF Passed
    <3>6. Superseding(id, m)'
      BY <2>7, <2>1, <1>4 DEF Superseding
    <3> QED BY <3>5, <3>6 DEF Past
  <2>8. PastOK'
    <3>1. ASSUME NEW c \in Nat, NEW x \in Message, LetThrough(c, x)'
          PROVE  LetThrough(c, x) \/ (driver = id /\ c = id /\ x = m)
      <4>1. CASE \E i \in 1..Len(chain') : chain'[i].id = c /\ chain'[i].m = x
        <5>1. PICK i \in 1..Len(chain') : chain'[i].id = c /\ chain'[i].m = x
          BY <4>1
        <5>2. CASE driver = id
          <6>1. CASE i \in 1..Len(chain)
            BY <6>1, <5>1, <5>2, <2>3 DEF LetThrough
          <6>2. CASE i = Len(chain) + 1
            BY <6>2, <5>1, <5>2, <2>2, <2>3
          <6> QED BY <6>1, <6>2, <5>2, <2>3
        <5>3. CASE driver # id
          BY <5>1, <5>3, <2>3 DEF LetThrough
        <5> QED BY <5>2, <5>3
      <4>2. CASE ~ \E i \in 1..Len(chain') : chain'[i].id = c /\ chain'[i].m = x
        BY <3>1, <4>2, <1>1 DEF LetThrough
      <4> QED BY <4>1, <4>2
    <3> QED BY <3>1, <2>6, <2>7, <1>2 DEF PastOK
  <2> QED BY <2>4, <2>5, <2>8, <1>5
<1>7. ASSUME ReceiveTransfer(id, m) PROVE Typed' /\ SourceOK' /\ PastOK'
  <2>1. /\ IF driver = id /\ m.to \in Conns \ {id}
           THEN /\ driver' = m.to /\ term' = term + 1
                /\ ghost' = (ghost \/ Left(m.to))
           ELSE UNCHANGED <<driver, term, ghost>>
        /\ UNCHANGED chain
    BY <1>7 DEF ReceiveTransfer
  <2>2. \A d \in Conns : d \in Nat /\ d # 0
    BY <1>2, Carried DEF Conns, PeersOK
  <2>3. driver' \in Conns \cup {0} /\ driver' \in Nat /\ (peers = <<>> <=> driver' = 0)
    BY <2>1, <2>2, <1>2, <1>4 DEF PeersOK, Typed
  <2>4. term' \in Nat /\ ghost' \in BOOLEAN
    <3>1. term' \in Nat
      BY <2>1, <1>2 DEF Typed
    <3>2. ghost' = (ghost \/ Left(m.to)) \/ ghost' = ghost
      BY <2>1
    <3>3. ghost' \in BOOLEAN
      BY <3>2, <1>2, Zenon DEF Typed
    <3> QED BY <3>1, <3>3
  <2>5. Typed'
    BY <2>1, <2>3, <2>4, <1>1, <1>2, <1>3 DEF Typed
  <2>6. PeersOK'
    BY <2>3, <1>3
  <2>7. SourceOK'
    BY <2>5, <2>6, <1>5
  <2>8. ASSUME NEW d \in Nat, NEW x \in Message, Past(d, x) PROVE Past(d, x)'
    <3>1. Passed(d, x)'
      BY <2>5, <2>6, <2>8, <1>5 DEF Past
    <3>2. CASE UNCHANGED <<driver, ghost>>
      BY <3>1, <3>2, <2>5, <2>8, <1>2, <1>3, StaysSuperseding
    <3>3. CASE driver' = m.to /\ ghost' = (ghost \/ Left(m.to)) /\ m.to \in Conns
      <4>1. ghost' \/ \E v \in Viewer : client'[v].conn = driver'
        BY <3>3, <2>2, <1>1 DEF Left
      <4> QED BY <4>1, <3>1, <2>5, <2>7, HandedOver DEF SourceOK
    <3> QED BY <3>2, <3>3, <2>1
  <2>9. PastOK'
    BY <2>1, <2>8, <1>1, <1>2, PastStays
  <2> QED BY <2>5, <2>7, <2>9
<1> QED BY <1>1, <1>6, <1>7

LEMMA DisconnectStep ==
  ASSUME IInv, NEW id \in Conns, Disconnect(id)
  PROVE  Typed' /\ SourceOK' /\ PastOK'
<1> DEFINE h == PeerAt(id)
           rest == RemoveAt(peers, h)
<1>1. /\ peers' = rest
      /\ IF driver = id
         THEN /\ driver' = Successor(rest)
              /\ term' = term + 1
              /\ ghost' = (ghost \/ Left(Successor(rest)))
         ELSE UNCHANGED <<driver, term, ghost>>
      /\ UNCHANGED <<made, client, chain, act, page, churn, conns>>
      /\ Left(id)
  BY DEF Disconnect
<1>2. Typed /\ SourceOK /\ PastOK /\ PeersOK /\ ClientsOK
  BY DEF IInv, SourceOK
<1>3. h \in 1..Len(peers) /\ peers[h].id = id
  BY <1>2, PeerFound
<1>4. /\ peers' \in Seq(Peer) /\ Len(peers') = Len(peers) - 1
      /\ \A i \in 1..Len(peers') : peers'[i] = IF i < h THEN peers[i] ELSE peers[i+1]
  BY <1>1, <1>2, <1>3, RemovedPeer
<1>5. Successor(rest) = IF peers' = <<>> THEN 0 ELSE peers'[1].id
  BY <1>1 DEF Successor
<1> HIDE DEF h, rest
<1>6. Len(peers) \in Nat /\ Len(peers') \in Nat /\ h \in Nat
  BY <1>2, <1>3, <1>4, Carried
<1>7. ASSUME NEW i \in 1..Len(peers')
      PROVE  \/ i < h /\ i \in 1..Len(peers) /\ peers'[i] = peers[i]
             \/ h <= i /\ i + 1 \in 1..Len(peers) /\ peers'[i] = peers[i+1]
  BY <1>3, <1>4, <1>6
<1>8. Conns' = Conns \ {id}
  <2>1. ASSUME NEW i \in 1..Len(peers') PROVE peers'[i].id \in Conns /\ peers'[i].id # id
    <3>1. CASE i < h /\ i \in 1..Len(peers) /\ peers'[i] = peers[i]
      <4>1. peers[i].id < peers[h].id
        BY <3>1, <1>2, <1>3 DEF PeersOK
      <4> QED BY <3>1, <4>1, <1>2, <1>3, Carried DEF Conns
    <3>2. CASE h <= i /\ i + 1 \in 1..Len(peers) /\ peers'[i] = peers[i+1]
      <4>1. peers[h].id < peers[i+1].id
        BY <3>2, <1>2, <1>3, <1>6 DEF PeersOK
      <4> QED BY <3>2, <4>1, <1>2, <1>3, Carried DEF Conns
    <3> QED BY <3>1, <3>2, <1>7
  <2>2. ASSUME NEW i \in 1..Len(peers), peers[i].id # id
        PROVE  \E j \in 1..Len(peers') : peers'[j].id = peers[i].id
    <3>1. CASE i < h
      <4>1. i \in 1..Len(peers') /\ peers'[i] = peers[i]
        BY <3>1, <1>3, <1>4, <1>6
      <4> QED BY <4>1
    <3>2. CASE h < i
      <4>1. i - 1 \in 1..Len(peers') /\ peers'[i-1] = peers[i]
        BY <3>2, <1>3, <1>4, <1>6
      <4> QED BY <4>1
    <3>3. i # h
      BY <2>2, <1>3
    <3> QED BY <3>1, <3>2, <3>3, <1>6
  <2>3. Conns = {peers[i].id : i \in 1..Len(peers)} /\ Conns' = {peers'[i].id : i \in 1..Len(peers')}
    BY DEF Conns
  <2>4. Conns' \subseteq Conns \ {id}
    BY <2>1, <2>3
  <2>5. Conns \ {id} \subseteq Conns'
    BY <2>2, <2>3
  <2> QED BY <2>4, <2>5
<1>9. \A d \in Conns : d \in Nat /\ d # 0
  BY <1>2, Carried DEF Conns, PeersOK
<1>10. peers' # <<>> => peers'[1].id \in Conns'
  <2>1. ASSUME peers' # <<>> PROVE 1 \in 1..Len(peers')
    BY <2>1, <1>4
  <2> QED BY <2>1 DEF Conns
<1>11. driver' \in Conns' \cup {0} /\ (peers' = <<>> <=> driver' = 0) /\ driver' \in Nat
  <2>1. CASE driver = id
    BY <2>1, <1>1, <1>5, <1>8, <1>9, <1>10
  <2>2. CASE driver # id
    <3>1. driver' = driver /\ driver \in Conns
      BY <2>2, <1>1, <1>2, <1>3, <1>6 DEF PeersOK
    <3>2. driver \in Conns'
      BY <3>1, <2>2, <1>8
    <3>3. peers' # <<>>
      BY <3>2, <1>6 DEF Conns
    <3> QED BY <3>1, <3>2, <3>3, <1>9
  <2> QED BY <2>1, <2>2
<1>12. term' \in Nat /\ ghost' \in BOOLEAN
  <2>1. term' \in Nat
    BY <1>1, <1>2 DEF Typed
  <2>2. ghost' = (ghost \/ Left(Successor(rest))) \/ ghost' = ghost
    BY <1>1
  <2>3. ghost' \in BOOLEAN
    BY <2>2, <1>2, Zenon DEF Typed
  <2> QED BY <2>1, <2>3
<1>13. Typed'
  BY <1>1, <1>2, <1>4, <1>11, <1>12 DEF Typed
<1>14. Thinned
  <2>1. ASSUME NEW i \in 1..Len(peers')
        PROVE  \E k \in 1..Len(peers), s \in Nat :
                 /\ peers'[i].id = peers[k].id
                 /\ \A a \in 1..Len(peers'[i].up) :
                      a + s \in 1..Len(peers[k].up) /\ peers'[i].up[a] = peers[k].up[a + s]
    <3>1. PICK k \in 1..Len(peers) : peers'[i] = peers[k]
      BY <1>7
    <3>2. /\ 0 \in Nat /\ peers'[i].id = peers[k].id
          /\ \A a \in 1..Len(peers'[i].up) :
               a + 0 \in 1..Len(peers[k].up) /\ peers'[i].up[a] = peers[k].up[a + 0]
      BY <3>1
    <3> QED BY <3>2, Zenon
  <2>2. \A v \in Viewer : client'[v].pending = client[v].pending
                          /\ client'[v].conn \in {client[v].conn, 0}
    BY <1>1
  <2> QED BY <2>1, <2>2 DEF Thinned
<1>15. PeersOK'
  <2>1. ASSUME NEW i \in 1..Len(peers')
        PROVE  1 <= peers'[i].id /\ peers'[i].id <= conns'
    BY <1>1, <1>2, <1>7 DEF PeersOK
  <2>2. ASSUME NEW i \in 1..Len(peers'), NEW j \in 1..Len(peers'), i < j
        PROVE  peers'[i].id < peers'[j].id
    <3>0. ASSUME NEW a \in 1..Len(peers')
          PROVE  \E k \in 1..Len(peers) :
                   peers'[a] = peers[k] /\ ((k = a /\ a < h) \/ (k = a + 1 /\ h <= a))
      <4>1. CASE a < h /\ a \in 1..Len(peers) /\ peers'[a] = peers[a]
        BY <4>1
      <4>2. CASE h <= a /\ a + 1 \in 1..Len(peers) /\ peers'[a] = peers[a+1]
        BY <4>2
      <4> QED BY <4>1, <4>2, <1>7
    <3>1. PICK k \in 1..Len(peers) :
            peers'[i] = peers[k] /\ ((k = i /\ i < h) \/ (k = i + 1 /\ h <= i))
      BY <3>0
    <3>2. PICK l \in 1..Len(peers) :
            peers'[j] = peers[l] /\ ((l = j /\ j < h) \/ (l = j + 1 /\ h <= j))
      BY <3>0
    <3>3. k < l
      BY <3>1, <3>2, <2>2, <1>6
    <3> QED BY <3>1, <3>2, <3>3, <1>2 DEF PeersOK
  <2> QED BY <2>1, <2>2, <1>11 DEF PeersOK
<1>16. \A v \in Viewer : client'[v].conn \in Conns' \cup {0}
  BY <1>1, <1>2, <1>8 DEF ClientsOK, Left
<1>17. /\ SourceOK'
       /\ \A d \in Nat, x \in Message : Passed(d, x) => Passed(d, x)'
  BY <1>1, <1>2, <1>13, <1>14, <1>15, <1>16, ThinnedSource
<1>18. ASSUME NEW d \in Nat, NEW x \in Message, Past(d, x) PROVE Past(d, x)'
  <2>1. Passed(d, x)'
    BY <1>17, <1>18 DEF Past
  <2>2. CASE driver # id
    BY <2>1, <2>2, <1>1, <1>2, <1>13, <1>14, <1>18, StaysSuperseding
  <2>3. CASE driver = id
    <3>1. ghost' \/ driver' = 0 \/ \E v \in Viewer : client'[v].conn = driver'
      BY <2>3, <1>1 DEF Left
    <3> QED BY <2>1, <3>1, <1>13, <1>17, HandedOver DEF SourceOK
  <2> QED BY <2>2, <2>3
<1>19. PastOK'
  BY <1>1, <1>2, <1>18, PastStays
<1> QED BY <1>13, <1>17, <1>19

------------------------------------------------------------------------------
(* The relay and the page. *)

LEMMA BeforeAlike ==
  ASSUME NEW g, NEW x, NEW y, NEW a, NEW b, Before(g, x, y),
         a.id = x.id, a.m = x.m, b.id = y.id, b.m = y.m
  PROVE  Before(g, a, b)
BY Zenon DEF Before

LEMMA BeforeGhost ==
  ASSUME NEW g, NEW h, NEW x, NEW y, Before(g, x, y), g => h
  PROVE  Before(h, x, y)
BY Zenon DEF Before

\* What the viewers, their connections and the driver do leaves the line as it is.
LEMMA LineStays ==
  ASSUME LineOK, UNCHANGED <<chain, act, page>>, ghost => ghost'
  PROVE  LineOK'
<1>1. ChainOK'
  BY BeforeGhost DEF LineOK, ChainOK
<1>2. ActOK'
  BY BeforeGhost DEF LineOK, ActOK, Undone
<1>3. CommandsOK'
  BY BeforeGhost DEF LineOK, CommandsOK
<1>4. ReachedOK'
  BY BeforeGhost DEF LineOK, ReachedOK
<1> QED BY <1>1, <1>2, <1>3, <1>4 DEF LineOK

\* Whenever somebody else drives, a new term begins, but for the first to connect.
LEMMA StragglersStay ==
  ASSUME Typed, Typed', StragglersOK, PastOK, UNCHANGED <<act, page>>,
         \/ UNCHANGED <<driver, term>>
         \/ term' = term + 1
         \/ driver = 0 /\ term' = term
  PROVE  StragglersOK'
<1>1. term \in Nat /\ page.reached \in Seq(Arrival)
  BY DEF Typed
<1>2. \A i \in 1..Len(page.reached) : page.reached[i].term \in Nat
  <2>1. \A i \in 1..Len(page.reached) : page.reached[i] \in Arrival
    BY <1>1
  <2> QED BY <2>1 DEF Arrival
<1>3. act.stage \in {"locate", "send"} => act.id # 0
  <2>1. ASSUME act.stage \in {"locate", "send"} PROVE act.id # 0
    <3>1. act # NoAct
      BY <2>1 DEF NoAct
    <3>2. act.id \in Nat /\ act.m \in Message
      BY <3>1 DEF Typed, Doing
    <3>3. Past(act.id, act.m)
      BY <3>1, <3>2 DEF PastOK, LetThrough
    <3> QED BY <3>2, <3>3 DEF Past, Passed
  <2> QED BY <2>1
<1>4. \A i \in 1..Len(page.reached) : page.reached[i].term <= term
  BY DEF StragglersOK
<1>5. CASE UNCHANGED <<driver, term>>
  BY <1>5 DEF StragglersOK
<1>6. CASE term' = term + 1
  <2>1. \A i \in 1..Len(page.reached) :
          page.reached[i].term <= term' /\ page.reached[i].term # term'
    BY <1>1, <1>2, <1>4, <1>6
  <2> QED BY <2>1 DEF StragglersOK
<1>7. CASE driver = 0 /\ term' = term
  BY <1>3, <1>7 DEF StragglersOK
<1> QED BY <1>5, <1>6, <1>7

\* The relay and the page leave the viewers and their connections as they are.
LEMMA SourceStays ==
  ASSUME SourceOK, PastOK, UNCHANGED <<made, client, peers, driver, conns, ghost>>,
         \A c \in Nat, m \in Message : LetThrough(c, m)' => LetThrough(c, m)
  PROVE  SourceOK' /\ PastOK'
<1>1. PeersOK'
  BY DEF SourceOK, PeersOK, Conns
<1>2. ClientsOK'
  <2>1. client' = client /\ peers' = peers /\ ClientsOK /\ Conns' = Conns
    BY DEF SourceOK, Conns
  <2> QED BY <2>1 DEF ClientsOK
<1>3. TransitOK'
  <2>1. peers' = peers /\ made' = made /\ TransitOK
    BY DEF SourceOK
  <2>2. \A i \in 1..Len(peers') : \A a \in 1..Len(peers'[i].up) :
          peers'[i].up[a].kind \in Kind => peers'[i].up[a].n <= made'
    BY <2>1, Zenon DEF TransitOK
  <2>3. ASSUME NEW i \in 1..Len(peers'), NEW j \in 1..Len(peers'),
               NEW a \in 1..Len(peers'[i].up), NEW b \in 1..Len(peers'[j].up),
               peers'[i].id < peers'[j].id \/ (i = j /\ a < b),
               peers'[i].up[a].kind \in Kind, peers'[j].up[b].kind \in Kind,
               peers'[i].up[a].v = peers'[j].up[b].v
        PROVE  peers'[i].up[a].n < peers'[j].up[b].n
    <3>1. /\ i \in 1..Len(peers) /\ j \in 1..Len(peers)
          /\ a \in 1..Len(peers[i].up) /\ b \in 1..Len(peers[j].up)
          /\ peers'[i] = peers[i] /\ peers'[j] = peers[j]
      BY <2>1
    <3> QED BY <2>1, <2>3, <3>1 DEF TransitOK
  <2> QED BY <2>2, <2>3 DEF TransitOK
<1>4. PendingOK'
  BY DEF SourceOK, PendingOK
<1>5. \A c \in Nat, m \in Message : Past(c, m) => Past(c, m)'
  BY DEF Past, Passed, Superseding, Owns
<1> QED BY <1>1, <1>2, <1>3, <1>4, <1>5 DEF SourceOK, PastOK

\* An input joins the chain behind all that were let through.
LEMMA ReceiveUpLine ==
  ASSUME IInv, NEW id \in Conns, ReceiveUp(id)
  PROVE  LineOK'
<1> DEFINE h == PeerAt(id)
<1>0. PICK m : m = Head(peers[h].up)
  OBVIOUS
<1>1. /\ Takes(id)
      /\ ReceiveInput(id, m) \/ ReceiveTransfer(id, m)
      /\ UNCHANGED <<act, page>>
  BY <1>0 DEF ReceiveUp, Takes
<1>2. Typed /\ LineOK /\ PastOK
  BY DEF IInv
<1>3. CASE UNCHANGED chain
  <2>1. ghost => ghost'
    BY <1>1 DEF ReceiveInput, ReceiveTransfer
  <2> QED BY <2>1, <1>1, <1>2, <1>3, LineStays
<1>4. CASE ReceiveInput(id, m) /\ driver = id
  <2> DEFINE e == [id |-> id, m |-> m]
  <2>1. chain' = Append(chain, e) /\ ghost' = ghost /\ m.kind \in Kind
    BY <1>4 DEF ReceiveInput
  <2>2. chain \in Seq(Entry) /\ page.commands \in Seq(Doing) /\ page.reached \in Seq(Arrival)
    BY <1>2 DEF Typed
  <2>3. e.id = id /\ e.m = m
    OBVIOUS
  <2> HIDE DEF e
  <2>4. /\ Len(chain) \in Nat /\ Len(chain') = Len(chain) + 1 /\ chain'[Len(chain) + 1] = e
        /\ \A i \in 1..Len(chain) : chain'[i] = chain[i]
    BY <2>1, <2>2
  <2>5. ASSUME NEW x, x.id \in Nat, x.m \in Message, LetThrough(x.id, x.m)
        PROVE  Before(ghost, x, e)
    <3>1. Past(x.id, x.m)
      BY <2>5, <1>2 DEF PastOK
    <3>2. peers[PeerAt(id)].up # <<>> /\ Head(peers[PeerAt(id)].up).kind \in Kind
      BY <1>0, <1>1, <2>1 DEF Takes
    <3>3. x.m.v = m.v /\ (x.id = id \/ ~ghost) => x.m.n < m.n
      BY <3>1, <3>2, <2>5, <1>0, <1>4, NextIsLater
    <3> QED BY <3>3, <2>3 DEF Before
  <2>6. ASSUME NEW i \in 1..Len(chain) PROVE Before(ghost, chain[i], e)
    <3>1. chain[i] \in Entry
      BY <2>2
    <3>2. chain[i].id \in Nat /\ chain[i].m \in Message
      BY <3>1 DEF Entry
    <3> QED BY <3>2, <2>5 DEF LetThrough
  <2>7. act # NoAct => Before(ghost, act, e)
    <3>1. act # NoAct => act.id \in Nat /\ act.m \in Message
      BY <1>2 DEF Typed, Doing
    <3> QED BY <3>1, <2>5 DEF LetThrough
  <2>8. ASSUME NEW i \in 1..Len(page.commands) PROVE Before(ghost, page.commands[i], e)
    <3>1. page.commands[i] \in Doing
      BY <2>2
    <3>2. page.commands[i].id \in Nat /\ page.commands[i].m \in Message
      BY <3>1 DEF Doing
    <3> QED BY <3>2, <2>5 DEF LetThrough
  <2>9. ASSUME NEW i \in 1..Len(page.reached) PROVE Before(ghost, page.reached[i], e)
    <3>1. page.reached[i] \in Arrival
      BY <2>2
    <3>2. page.reached[i].id \in Nat /\ page.reached[i].m \in Message
      BY <3>1 DEF Arrival
    <3> QED BY <3>2, <2>5 DEF LetThrough
  <2>10. ChainOK'
    <3>1. ASSUME NEW i \in 1..Len(chain'), NEW j \in 1..Len(chain'), i < j
          PROVE  Before(ghost, chain'[i], chain'[j])
      <4>1. i \in 1..Len(chain) /\ chain'[i] = chain[i]
        BY <3>1, <2>4
      <4>2. CASE j \in 1..Len(chain)
        BY <4>1, <4>2, <3>1, <2>4, <1>2 DEF LineOK, ChainOK
      <4>3. CASE j = Len(chain) + 1
        BY <4>1, <4>3, <2>4, <2>6
      <4> QED BY <4>2, <4>3, <2>4
    <3>2. ASSUME NEW j \in 1..Len(chain')
          PROVE  /\ act # NoAct => Before(ghost, act, chain'[j])
                 /\ \A i \in 1..Len(page.commands) : Before(ghost, page.commands[i], chain'[j])
                 /\ \A i \in 1..Len(page.reached) : Before(ghost, page.reached[i], chain'[j])
      <4>1. CASE j \in 1..Len(chain)
        BY <4>1, <2>4, <1>2 DEF LineOK, ChainOK
      <4>2. CASE j = Len(chain) + 1
        BY <4>2, <2>4, <2>7, <2>8, <2>9
      <4> QED BY <4>1, <4>2, <2>4
    <3> QED BY <3>1, <3>2, <2>1, <1>1 DEF ChainOK
  <2>11. ActOK' /\ CommandsOK' /\ ReachedOK'
    BY <2>1, <1>1, <1>2 DEF LineOK, ActOK, Undone, CommandsOK, ReachedOK
  <2> QED BY <2>10, <2>11 DEF LineOK
<1> QED BY <1>1, <1>3, <1>4 DEF ReceiveInput, ReceiveTransfer

PageState == [session : Nat, commands : Seq(Doing), reached : Seq(Arrival)]

\* The input of dispatch d reaches the page.
LEMMA ReachFacts ==
  ASSUME Typed, NEW d \in Doing
  PROVE  LET p == Reach(page, d)
             k == Len(page.reached)
             r == [id |-> d.id, m |-> d.m, driver |-> driver, term |-> term]
         IN /\ p \in PageState /\ p.session = page.session /\ p.commands = page.commands
            /\ k \in Nat /\ Len(p.reached) = k + 1 /\ p.reached[k + 1] = r
            /\ \A i \in 1..k : p.reached[i] = page.reached[i]
<1> DEFINE r == [id |-> d.id, m |-> d.m, driver |-> driver, term |-> term]
           l == Append(page.reached, r)
           p == [page EXCEPT !.reached = l]
<1>1. d.id \in Nat /\ d.m \in Message
  BY DEF Doing
<1>2. r \in Arrival
  BY <1>1 DEF Arrival, Typed
<1>3. page \in PageState
  BY DEF Typed, PageState
<1>4. page.reached \in Seq(Arrival)
  BY <1>3 DEF PageState
<1>5. Reach(page, d) = p
  BY DEF Reach
<1> HIDE DEF r
<1>6. /\ l \in Seq(Arrival) /\ Len(page.reached) \in Nat /\ Len(l) = Len(page.reached) + 1
      /\ l[Len(page.reached) + 1] = r
      /\ \A i \in 1..Len(page.reached) : l[i] = page.reached[i]
  BY <1>2, <1>4
<1> HIDE DEF l
<1>7. p \in PageState
  BY <1>3, <1>6, Zenon DEF PageState
<1>8. p.session = page.session /\ p.commands = page.commands /\ p.reached = l
  BY <1>3 DEF PageState
<1> HIDE DEF p
<1> QED BY <1>5, <1>6, <1>7, <1>8 DEF r

LEMMA DispatchStep ==
  ASSUME IInv, Dispatch
  PROVE  IInv'
<1> DEFINE d == Head(chain)
<1>1. /\ act = NoAct /\ chain # <<>> /\ chain' = Tail(chain)
      /\ \/ driver = d.id /\ act' = Begun(d)
         \/ act' = NoAct
      /\ UNCHANGED <<made, client, peers, driver, term, page, churn, conns, ghost>>
  BY DEF Dispatch, Authorized
<1>2. Typed /\ SourceOK /\ PastOK /\ LineOK /\ StragglersOK
  BY DEF IInv
<1>3. chain \in Seq(Entry) /\ Len(chain) \in Nat
  BY <1>2 DEF Typed
<1>4. /\ 1 \in 1..Len(chain) /\ d = chain[1] /\ d \in Entry
      /\ chain' \in Seq(Entry) /\ Len(chain') \in Nat
      /\ \A i \in 1..Len(chain') : i + 1 \in 1..Len(chain) /\ chain'[i] = chain[i+1]
  BY <1>1, <1>3
<1> HIDE DEF d
<1>5. d.id \in Nat /\ d.m \in Message
  BY <1>4 DEF Entry
<1>6. d.m.kind \in Kind
  <2>1. Past(d.id, d.m)
    BY <1>2, <1>4, <1>5 DEF PastOK, LetThrough
  <2> QED BY <2>1 DEF Past, Passed
<1>7. page.session \in Nat
  BY <1>2 DEF Typed
<1>8. ASSUME act' = Begun(d)
      PROVE  /\ act' \in Doing /\ act'.id = d.id /\ act'.m = d.m
             /\ act'.stage \in {"locate", "send", "resolve"}
             /\ act'.stage \in {"locate", "send"} => act'.m.kind \in {"ptr", "raw"}
             /\ act'.stage = "resolve" => act'.m.kind = "cmd"
             /\ act' # NoAct
  <2>1. CASE d.m.kind = "ptr"
    <3>1. Begun(d) = [stage |-> "locate", id |-> d.id, m |-> d.m, session |-> page.session]
      BY <2>1 DEF Begun
    <3> QED BY <3>1, <2>1, <1>5, <1>7, <1>8 DEF Doing, NoAct
  <2>2. CASE d.m.kind = "raw"
    <3>1. Begun(d) = [stage |-> "send", id |-> d.id, m |-> d.m, session |-> page.session]
      BY <2>2 DEF Begun
    <3> QED BY <3>1, <2>2, <1>5, <1>7, <1>8 DEF Doing, NoAct
  <2>3. CASE d.m.kind = "cmd"
    <3>1. Begun(d) = [stage |-> "resolve", id |-> d.id, m |-> d.m, session |-> page.session]
      BY <2>3 DEF Begun
    <3> QED BY <3>1, <2>3, <1>5, <1>7, <1>8 DEF Doing, NoAct
  <2> QED BY <2>1, <2>2, <2>3, <1>6 DEF Kind
<1>9. Typed'
  <2>1. act' = NoAct \/ act' \in Doing
    BY <1>1, <1>8
  <2> QED BY <2>1, <1>1, <1>2, <1>4 DEF Typed
<1>10. ASSUME NEW c \in Nat, NEW m \in Message, LetThrough(c, m)' PROVE LetThrough(c, m)
  <2>1. CASE \E i \in 1..Len(chain') : chain'[i].id = c /\ chain'[i].m = m
    BY <2>1, <1>4 DEF LetThrough
  <2>2. CASE act' # NoAct /\ act'.id = c /\ act'.m = m
    BY <2>2, <1>1, <1>4, <1>8 DEF LetThrough
  <2>3. CASE \/ \E i \in 1..Len(page.commands) : page.commands[i].id = c /\ page.commands[i].m = m
             \/ \E i \in 1..Len(page.reached) : page.reached[i].id = c /\ page.reached[i].m = m
    BY <2>3 DEF LetThrough
  <2> QED BY <2>1, <2>2, <2>3, <1>1, <1>10 DEF LetThrough
<1>11. SourceOK' /\ PastOK'
  BY <1>1, <1>2, <1>10, SourceStays
<1>12. ChainOK'
  <2>1. \A i, j \in 1..Len(chain') : i < j => Before(ghost, chain'[i], chain'[j])
    <3>1. ASSUME NEW i \in 1..Len(chain'), NEW j \in 1..Len(chain'), i < j
          PROVE  Before(ghost, chain'[i], chain'[j])
      <4>1. i + 1 < j + 1
        BY <3>1, <1>4
      <4> QED BY <4>1, <1>2, <1>4 DEF LineOK, ChainOK
    <3> QED BY <3>1
  <2>2. ASSUME NEW j \in 1..Len(chain'), act' # NoAct PROVE Before(ghost, act', chain'[j])
    <3>1. act'.id = d.id /\ act'.m = d.m
      BY <2>2, <1>1, <1>8
    <3>2. Before(ghost, chain[1], chain[j+1])
      BY <1>2, <1>4 DEF LineOK, ChainOK
    <3> QED BY <3>1, <3>2, <1>4, BeforeAlike
  <2>3. \A j \in 1..Len(chain') :
          /\ \A i \in 1..Len(page.commands) : Before(ghost, page.commands[i], chain'[j])
          /\ \A i \in 1..Len(page.reached) : Before(ghost, page.reached[i], chain'[j])
    BY <1>2, <1>4 DEF LineOK, ChainOK
  <2> QED BY <2>1, <2>2, <2>3, <1>1 DEF ChainOK
<1>13. ActOK'
  <2>1. CASE act' = NoAct
    <3>1. act'.stage = "none"
      BY <2>1 DEF NoAct
    <3> QED BY <3>1 DEF ActOK, Undone
  <2>2. CASE act' = Begun(d)
    <3>1. ASSUME NEW x, Before(ghost, x, chain[1]) PROVE Before(ghost, x, act')
      BY <3>1, <2>2, <1>4, <1>8, BeforeAlike
    <3>2. /\ \A i \in 1..Len(page.commands) : Before(ghost, page.commands[i], act')
          /\ \A i \in 1..Len(page.reached) : Before(ghost, page.reached[i], act')
      BY <3>1, <1>2, <1>4 DEF LineOK, ChainOK
    <3> QED BY <3>2, <2>2, <1>1, <1>8 DEF ActOK
  <2> QED BY <2>1, <2>2, <1>1
<1>14. CommandsOK' /\ ReachedOK'
  BY <1>1, <1>2 DEF LineOK, CommandsOK, ReachedOK
<1>15. StragglersOK'
  <2>1. ~ (act'.stage \in {"locate", "send"} /\ act'.id # driver)
    <3>1. CASE act' = NoAct
      BY <3>1 DEF NoAct
    <3>2. CASE driver = d.id /\ act' = Begun(d)
      BY <3>2, <1>8
    <3> QED BY <3>1, <3>2, <1>1
  <2> QED BY <2>1, <1>1, <1>2 DEF StragglersOK
<1> QED BY <1>9, <1>11, <1>12, <1>13, <1>14, <1>15 DEF IInv, LineOK

LEMMA LocateStep ==
  ASSUME IInv, Locate
  PROVE  IInv'
<1>1. /\ act.stage = "locate" /\ act' = [act EXCEPT !.stage = "send"]
      /\ UNCHANGED <<made, client, peers, driver, term, chain, page, churn, conns, ghost>>
  BY DEF Locate, Idle
<1>2. Typed /\ SourceOK /\ PastOK /\ LineOK /\ StragglersOK
  BY DEF IInv
<1>3. act # NoAct /\ act \in Doing
  BY <1>1, <1>2 DEF Typed, NoAct
<1>4. act' \in Doing /\ act'.stage = "send" /\ act'.id = act.id /\ act'.m = act.m /\ act' # NoAct
  BY <1>1, <1>3 DEF Doing, NoAct
<1>5. Typed'
  BY <1>1, <1>2, <1>4 DEF Typed
<1>6. \A c \in Nat, m \in Message : LetThrough(c, m)' => LetThrough(c, m)
  BY <1>1, <1>3, <1>4 DEF LetThrough
<1>7. SourceOK' /\ PastOK'
  BY <1>1, <1>2, <1>6, SourceStays
<1>8. \A x : /\ Before(ghost, x, act) => Before(ghost, x, act')
             /\ Before(ghost, act, x) => Before(ghost, act', x)
  BY <1>4, BeforeAlike
<1>9. ChainOK'
  BY <1>1, <1>2, <1>3, <1>8 DEF LineOK, ChainOK
<1>10. ActOK'
  BY <1>1, <1>2, <1>4, <1>8 DEF LineOK, ActOK, Undone
<1>11. CommandsOK' /\ ReachedOK'
  BY <1>1, <1>2 DEF LineOK, CommandsOK, ReachedOK
<1>12. StragglersOK'
  BY <1>1, <1>2, <1>4 DEF StragglersOK
<1> QED BY <1>5, <1>7, <1>9, <1>10, <1>11, <1>12 DEF IInv, LineOK

\* The dispatch under way ends without a trace of its own.
LEMMA ActEnds ==
  ASSUME IInv, act' = NoAct,
         UNCHANGED <<made, client, peers, driver, term, chain, page, churn, conns, ghost>>
  PROVE  IInv'
<1>1. Typed /\ SourceOK /\ PastOK /\ LineOK /\ StragglersOK
  BY DEF IInv
<1>2. Typed'
  BY <1>1 DEF Typed
<1>3. \A c \in Nat, m \in Message : LetThrough(c, m)' => LetThrough(c, m)
  BY DEF LetThrough
<1>4. SourceOK' /\ PastOK'
  BY <1>1, <1>3, SourceStays
<1>5. act'.stage = "none"
  BY DEF NoAct
<1>6. ChainOK'
  BY <1>1 DEF LineOK, ChainOK
<1>7. ActOK'
  BY <1>5 DEF ActOK, Undone
<1>8. CommandsOK' /\ ReachedOK'
  BY <1>1 DEF LineOK, CommandsOK, ReachedOK
<1>9. StragglersOK'
  BY <1>1, <1>5 DEF StragglersOK
<1> QED BY <1>2, <1>4, <1>6, <1>7, <1>8, <1>9 DEF IInv, LineOK

LEMMA SendStep ==
  ASSUME IInv, Send
  PROVE  IInv'
<1>1. /\ act.stage = "send" /\ act' = NoAct
      /\ page' = (IF act.session = page.session THEN Reach(page, act) ELSE page)
      /\ UNCHANGED <<made, client, peers, driver, term, chain, churn, conns, ghost>>
  BY DEF Send, Idle
<1>2. Typed /\ SourceOK /\ PastOK /\ LineOK /\ StragglersOK
  BY DEF IInv
<1>3. act # NoAct /\ act \in Doing
  BY <1>1, <1>2 DEF Typed, NoAct
<1>4. CASE page' = page
  BY <1>1, <1>4, ActEnds
<1>5. CASE page' = Reach(page, act)
  <2> DEFINE k == Len(page.reached)
             r == [id |-> act.id, m |-> act.m, driver |-> driver, term |-> term]
  <2>1. /\ page' \in PageState /\ page'.commands = page.commands
        /\ k \in Nat /\ Len(page'.reached) = k + 1 /\ page'.reached[k + 1] = r
        /\ \A i \in 1..k : page'.reached[i] = page.reached[i]
    BY <1>2, <1>3, <1>5, ReachFacts
  <2>2. r.id = act.id /\ r.m = act.m /\ r.driver = driver /\ r.term = term
    OBVIOUS
  <2> HIDE DEF r, k
  <2>3. act.m.kind \in {"ptr", "raw"} /\ Undone
    BY <1>1, <1>2 DEF LineOK, ActOK, Undone
  <2>4. Typed'
    BY <1>1, <1>2, <2>1 DEF Typed, PageState
  <2>5. ASSUME NEW c \in Nat, NEW m \in Message, LetThrough(c, m)' PROVE LetThrough(c, m)
    <3>1. CASE \E i \in 1..Len(page'.reached) : page'.reached[i].id = c /\ page'.reached[i].m = m
      <4>1. PICK i \in 1..Len(page'.reached) : page'.reached[i].id = c /\ page'.reached[i].m = m
        BY <3>1
      <4>2. CASE i \in 1..k
        BY <4>1, <4>2, <2>1 DEF LetThrough, k
      <4>3. CASE i = k + 1
        BY <4>1, <4>3, <2>1, <2>2, <1>3 DEF LetThrough
      <4> QED BY <4>2, <4>3, <2>1
    <3>2. CASE ~ \E i \in 1..Len(page'.reached) : page'.reached[i].id = c /\ page'.reached[i].m = m
      BY <2>5, <3>2, <1>1, <2>1 DEF LetThrough
    <3> QED BY <3>1, <3>2
  <2>6. SourceOK' /\ PastOK'
    BY <1>1, <1>2, <2>5, SourceStays
  <2>7. ChainOK'
    <3>1. ASSUME NEW j \in 1..Len(chain), NEW i \in 1..Len(page'.reached)
          PROVE  Before(ghost, page'.reached[i], chain[j])
      <4>1. CASE i \in 1..k
        BY <4>1, <2>1, <1>2 DEF LineOK, ChainOK, k
      <4>2. CASE i = k + 1
        <5>1. Before(ghost, act, chain[j])
          BY <1>2, <1>3 DEF LineOK, ChainOK
        <5> QED BY <5>1, <4>2, <2>1, <2>2, BeforeAlike
      <4> QED BY <4>1, <4>2, <2>1
    <3> QED BY <3>1, <2>1, <1>1, <1>2 DEF LineOK, ChainOK
  <2>8. ActOK'
    <3>1. act'.stage = "none"
      BY <1>1 DEF NoAct
    <3> QED BY <3>1 DEF ActOK, Undone
  <2>9. CommandsOK'
    <3>1. ASSUME NEW i \in 1..Len(page.commands), NEW j \in 1..Len(page'.reached),
                 page'.reached[j].m.kind = "cmd"
          PROVE  Before(ghost, page'.reached[j], page.commands[i])
      <4>1. CASE j \in 1..k
        BY <3>1, <4>1, <2>1, <1>2 DEF LineOK, CommandsOK, k
      <4>2. CASE j = k + 1
        BY <3>1, <4>2, <2>1, <2>2, <2>3
      <4> QED BY <4>1, <4>2, <2>1
    <3> QED BY <3>1, <2>1, <1>1, <1>2 DEF LineOK, CommandsOK
  <2>10. ReachedOK'
    <3>1. ASSUME NEW i \in 1..Len(page'.reached), NEW j \in 1..Len(page'.reached), i < j,
                 page'.reached[i].m.kind = "cmd" <=> page'.reached[j].m.kind = "cmd"
          PROVE  Before(ghost, page'.reached[i], page'.reached[j])
      <4>1. i \in 1..k /\ page'.reached[i] = page.reached[i]
        BY <3>1, <2>1
      <4>2. CASE j \in 1..k
        BY <3>1, <4>1, <4>2, <2>1, <1>2 DEF LineOK, ReachedOK, k
      <4>3. CASE j = k + 1
        <5>1. Before(ghost, page.reached[i], act)
          BY <4>1, <2>3, <1>2 DEF LineOK, ActOK, k
        <5> QED BY <5>1, <4>1, <4>3, <2>1, <2>2, BeforeAlike
      <4> QED BY <4>2, <4>3, <2>1
    <3> QED BY <3>1, <1>1 DEF ReachedOK
  <2>11. StragglersOK'
    <3>0. term \in Nat
      BY <1>2 DEF Typed
    <3>1. ASSUME NEW i \in 1..Len(page'.reached) PROVE page'.reached[i].term <= term
      <4>1. CASE i \in 1..k
        BY <4>1, <2>1, <1>2 DEF StragglersOK, k
      <4>2. CASE i = k + 1
        BY <4>2, <2>1, <2>2, <3>0
      <4> QED BY <4>1, <4>2, <2>1
    <3>2. ASSUME NEW i \in 1..k, Late(page'.reached[i]), Late(page'.reached[k+1])
          PROVE  page'.reached[i].term # page'.reached[k+1].term
      <4>1. act.id # driver
        BY <3>2, <2>1, <2>2 DEF Late
      <4>2. Late(page.reached[i]) /\ page'.reached[i].term = page.reached[i].term
        BY <3>2, <2>1
      <4>3. page.reached[i].term # term
        BY <3>2, <4>1, <4>2, <1>1, <1>2 DEF StragglersOK, k
      <4> QED BY <4>2, <4>3, <2>1, <2>2
    <3>3. ASSUME NEW i \in 1..Len(page'.reached), NEW j \in 1..Len(page'.reached),
                 Late(page'.reached[i]), Late(page'.reached[j]),
                 page'.reached[i].term = page'.reached[j].term
          PROVE  i = j
      <4>1. CASE i \in 1..k /\ j \in 1..k
        BY <3>3, <4>1, <2>1, <1>2 DEF StragglersOK, k
      <4>2. CASE i \in 1..k /\ j = k + 1
        BY <3>2, <3>3, <4>2
      <4>3. CASE i = k + 1 /\ j \in 1..k
        BY <3>2, <3>3, <4>3
      <4>4. CASE i = k + 1 /\ j = k + 1
        BY <4>4
      <4> QED BY <4>1, <4>2, <4>3, <4>4, <2>1
    <3>4. act'.stage = "none"
      BY <1>1 DEF NoAct
    <3> QED BY <3>1, <3>3, <3>4, <1>1 DEF StragglersOK
  <2> QED BY <2>4, <2>6, <2>7, <2>8, <2>9, <2>10, <2>11 DEF IInv, LineOK
<1> QED BY <1>1, <1>4, <1>5

LEMMA ResolveStep ==
  ASSUME IInv, Resolve
  PROVE  IInv'
<1>1. /\ act.stage = "resolve"
      /\ \/ act' = NoAct /\ UNCHANGED page
         \/ /\ act' = [act EXCEPT !.stage = "command"]
            /\ page' = [page EXCEPT !.commands = Append(@, act)]
      /\ UNCHANGED <<made, client, peers, driver, term, chain, churn, conns, ghost>>
  BY DEF Resolve, Idle
<1>2. Typed /\ SourceOK /\ PastOK /\ LineOK /\ StragglersOK
  BY DEF IInv
<1>3. act # NoAct /\ act \in Doing
  BY <1>1, <1>2 DEF Typed, NoAct
<1>4. CASE act' = NoAct /\ UNCHANGED page
  BY <1>1, <1>4, ActEnds
<1>5. CASE /\ act' = [act EXCEPT !.stage = "command"]
           /\ page' = [page EXCEPT !.commands = Append(@, act)]
  <2> DEFINE l == Append(page.commands, act)
             k == Len(page.commands)
  <2>1. page \in PageState
    BY <1>2 DEF Typed, PageState
  <2>2. page.commands \in Seq(Doing)
    BY <2>1 DEF PageState
  <2>3. /\ l \in Seq(Doing) /\ k \in Nat /\ Len(l) = k + 1 /\ l[k + 1] = act
        /\ \A i \in 1..k : l[i] = page.commands[i]
    BY <2>2, <1>3
  <2>4. page' = [page EXCEPT !.commands = l]
    BY <1>5
  <2> HIDE DEF l, k
  <2>5. page' \in PageState
    BY <2>1, <2>3, <2>4, Zenon DEF PageState
  <2>6. page'.commands = l /\ page'.reached = page.reached
    BY <2>1, <2>4 DEF PageState
  <2>7. /\ act' \in Doing /\ act'.stage = "command" /\ act'.id = act.id /\ act'.m = act.m
        /\ act' # NoAct
    BY <1>3, <1>5 DEF Doing, NoAct
  <2>8. Typed'
    BY <1>1, <1>2, <2>5, <2>7 DEF Typed, PageState
  <2>9. ASSUME NEW c \in Nat, NEW m \in Message, LetThrough(c, m)' PROVE LetThrough(c, m)
    <3>1. CASE \E i \in 1..Len(l) : l[i].id = c /\ l[i].m = m
      <4>1. PICK i \in 1..Len(l) : l[i].id = c /\ l[i].m = m
        BY <3>1
      <4>2. CASE i \in 1..k
        BY <4>1, <4>2, <2>3 DEF LetThrough, k
      <4>3. CASE i = k + 1
        BY <4>1, <4>3, <2>3, <1>3 DEF LetThrough
      <4> QED BY <4>2, <4>3, <2>3
    <3>2. CASE ~ \E i \in 1..Len(l) : l[i].id = c /\ l[i].m = m
      BY <2>9, <3>2, <1>1, <1>3, <2>6, <2>7 DEF LetThrough
    <3> QED BY <3>1, <3>2
  <2>10. SourceOK' /\ PastOK'
    BY <1>1, <1>2, <2>9, SourceStays
  <2>11. \A x : Before(ghost, act, x) => Before(ghost, act', x)
    BY <2>7, BeforeAlike
  <2>12. ChainOK'
    <3>1. ASSUME NEW j \in 1..Len(chain), NEW i \in 1..Len(l)
          PROVE  Before(ghost, l[i], chain[j])
      <4>1. CASE i \in 1..k
        BY <4>1, <2>3, <1>2 DEF LineOK, ChainOK, k
      <4>2. CASE i = k + 1
        BY <4>2, <2>3, <1>2, <1>3 DEF LineOK, ChainOK
      <4> QED BY <4>1, <4>2, <2>3
    <3> QED BY <3>1, <2>6, <2>11, <1>1, <1>2, <1>3 DEF LineOK, ChainOK
  <2>13. act.m.kind = "cmd" /\ Undone
    BY <1>1, <1>2 DEF LineOK, ActOK, Undone
  <2>14. ActOK'
    BY <2>7, <2>13 DEF ActOK, Undone
  <2>15. CommandsOK'
    <3>1. ASSUME NEW i \in 1..Len(l)
          PROVE  /\ l[i].m.kind = "cmd"
                 /\ \A j \in 1..Len(page.reached) :
                      page.reached[j].m.kind = "cmd" => Before(ghost, page.reached[j], l[i])
      <4>1. CASE i \in 1..k
        BY <4>1, <2>3, <1>2 DEF LineOK, CommandsOK, k
      <4>2. CASE i = k + 1
        BY <4>2, <2>3, <2>13, <1>2 DEF LineOK, ActOK
      <4> QED BY <4>1, <4>2, <2>3
    <3>2. ASSUME NEW i \in 1..Len(l), NEW j \in 1..Len(l), i < j
          PROVE  Before(ghost, l[i], l[j])
      <4>1. i \in 1..k /\ l[i] = page.commands[i]
        BY <3>2, <2>3
      <4>2. CASE j \in 1..k
        BY <3>2, <4>1, <4>2, <2>3, <1>2 DEF LineOK, CommandsOK, k
      <4>3. CASE j = k + 1
        BY <4>1, <4>3, <2>3, <2>13, <1>2 DEF LineOK, ActOK, k
      <4> QED BY <4>2, <4>3, <2>3
    <3> QED BY <3>1, <3>2, <2>6, <1>1 DEF CommandsOK
  <2>16. ReachedOK'
    BY <2>6, <1>1, <1>2 DEF LineOK, ReachedOK
  <2>17. StragglersOK'
    BY <2>6, <2>7, <1>1, <1>2 DEF StragglersOK
  <2> QED BY <2>8, <2>10, <2>12, <2>14, <2>15, <2>16, <2>17 DEF IInv, LineOK
<1> QED BY <1>1, <1>4, <1>5

LEMMA ReplaceStep ==
  ASSUME IInv, Replace
  PROVE  IInv'
<1>1. PICK session \in {0, churn + 2} :
        page' = [page EXCEPT !.session = session, !.commands = <<>>]
  BY DEF Replace
<1>2. /\ churn < MaxChurn /\ churn' = churn + 1
      /\ act' = NoAct \/ act' = act
      /\ UNCHANGED <<made, client, peers, driver, term, chain, conns, ghost>>
  BY DEF Replace
<1>3. Typed /\ SourceOK /\ PastOK /\ LineOK /\ StragglersOK
  BY DEF IInv
<1>4. page \in PageState /\ session \in Nat
  BY <1>3 DEF Typed, PageState
<1>5. <<>> \in Seq(Doing)
  OBVIOUS
<1>6. page' \in PageState
  BY <1>1, <1>4, <1>5, Zenon DEF PageState
<1>7. page'.commands = <<>> /\ page'.reached = page.reached
  BY <1>1, <1>4 DEF PageState
<1>8. churn' \in Nat /\ churn' <= MaxChurn
  BY <1>2, <1>3, InputPathAssumption DEF Typed
<1>9. Typed'
  BY <1>2, <1>3, <1>6, <1>8 DEF Typed, PageState
<1>10. 1..Len(page'.commands) = {}
  BY <1>7
<1>11. \A c \in Nat, m \in Message : LetThrough(c, m)' => LetThrough(c, m)
  BY <1>2, <1>7, <1>10 DEF LetThrough
<1>12. SourceOK' /\ PastOK'
  BY <1>2, <1>3, <1>11, SourceStays
<1>13. act' = NoAct => act'.stage = "none"
  BY DEF NoAct
<1>14. ChainOK'
  BY <1>2, <1>3, <1>7, <1>10 DEF LineOK, ChainOK
<1>15. ActOK'
  BY <1>2, <1>3, <1>7, <1>10, <1>13 DEF LineOK, ActOK, Undone
<1>16. CommandsOK'
  BY <1>10 DEF CommandsOK
<1>17. ReachedOK'
  BY <1>2, <1>3, <1>7 DEF LineOK, ReachedOK
<1>18. StragglersOK'
  BY <1>2, <1>3, <1>7, <1>13 DEF StragglersOK
<1> QED BY <1>9, <1>12, <1>14, <1>15, <1>16, <1>17, <1>18 DEF IInv, LineOK

LEMMA ExecuteStep ==
  ASSUME IInv, Execute
  PROVE  IInv'
<1> DEFINE c == Head(page.commands)
<1>1. PICK p \in {page, Reach(page, c)} : page' = [p EXCEPT !.commands = Tail(@)]
  BY DEF Execute
<1>2. /\ page.commands # <<>> /\ (act' = NoAct \/ act' = act)
      /\ UNCHANGED <<made, client, peers, driver, term, chain, churn, conns, ghost>>
  BY DEF Execute, Idle
<1>3. Typed /\ SourceOK /\ PastOK /\ LineOK /\ StragglersOK
  BY DEF IInv
<1>4. page \in PageState /\ page.commands \in Seq(Doing) /\ Len(page.commands) \in Nat
  BY <1>3 DEF Typed, PageState
<1> DEFINE w == Tail(page.commands)
<1>5. /\ 1 \in 1..Len(page.commands) /\ c = page.commands[1] /\ c \in Doing
      /\ w \in Seq(Doing) /\ Len(w) \in Nat
      /\ \A i \in 1..Len(w) : i + 1 \in 1..Len(page.commands) /\ w[i] = page.commands[i+1]
  BY <1>2, <1>4
<1> HIDE DEF c
<1> DEFINE k == Len(page.reached)
           r == [id |-> c.id, m |-> c.m, driver |-> driver, term |-> term]
<1>6. /\ p \in PageState /\ p.commands = page.commands /\ k \in Nat
      /\ \/ p.reached = page.reached
         \/ Len(p.reached) = k + 1 /\ p.reached[k + 1] = r
      /\ \A i \in 1..k : p.reached[i] = page.reached[i]
  <2>1. k \in Nat
    BY <1>4 DEF PageState
  <2>2. CASE p = page
    BY <2>1, <2>2, <1>4
  <2>3. CASE p = Reach(page, c)
    BY <2>1, <2>3, <1>3, <1>5, ReachFacts
  <2> QED BY <2>2, <2>3, <1>1
<1>7. r.id = c.id /\ r.m = c.m /\ r.term = term
  OBVIOUS
<1> HIDE DEF r, k
<1>8. p \in [session : Nat, commands : Seq(Doing), reached : Seq(Arrival)]
  BY <1>6 DEF PageState
<1>9. page' = [p EXCEPT !.commands = w]
  BY <1>1, <1>6, <1>8
<1> HIDE DEF w
<1>10. page' \in PageState
  BY <1>5, <1>8, <1>9, Zenon DEF PageState
<1>11. page'.commands = w /\ page'.reached = p.reached
  BY <1>8, <1>9
\* What has reached the page had reached it before, or is what c carries.
<1>12. ASSUME NEW i \in 1..Len(page'.reached)
       PROVE  \/ i \in 1..k /\ page'.reached[i] = page.reached[i]
              \/ i = k + 1 /\ page'.reached[i] = r
  <2>1. CASE p.reached = page.reached
    BY <2>1, <1>11, <1>12 DEF k
  <2>2. CASE Len(p.reached) = k + 1 /\ p.reached[k + 1] = r
    <3>1. i \in 1..k \/ i = k + 1
      BY <2>2, <1>6, <1>11, <1>12
    <3> QED BY <3>1, <2>2, <1>6, <1>11
  <2> QED BY <2>1, <2>2, <1>6
<1>13. Typed'
  BY <1>2, <1>3, <1>10 DEF Typed, PageState
<1>14. ASSUME NEW d \in Nat, NEW m \in Message, LetThrough(d, m)' PROVE LetThrough(d, m)
  <2>1. CASE \E i \in 1..Len(page'.reached) : page'.reached[i].id = d /\ page'.reached[i].m = m
    <3>1. PICK i \in 1..Len(page'.reached) : page'.reached[i].id = d /\ page'.reached[i].m = m
      BY <2>1
    <3>2. CASE i \in 1..k /\ page'.reached[i] = page.reached[i]
      BY <3>1, <3>2 DEF LetThrough, k
    <3>3. CASE page'.reached[i] = r
      BY <3>1, <3>3, <1>5, <1>7 DEF LetThrough
    <3> QED BY <3>2, <3>3, <1>12
  <2>2. CASE \E i \in 1..Len(w) : w[i].id = d /\ w[i].m = m
    BY <2>2, <1>5 DEF LetThrough
  <2>3. CASE /\ ~ \E i \in 1..Len(page'.reached) : page'.reached[i].id = d /\ page'.reached[i].m = m
             /\ ~ \E i \in 1..Len(w) : w[i].id = d /\ w[i].m = m
    BY <1>14, <2>3, <1>2, <1>11 DEF LetThrough
  <2> QED BY <2>1, <2>2, <2>3
<1>15. SourceOK' /\ PastOK'
  BY <1>2, <1>3, <1>14, SourceStays
<1>16. \A x : Before(ghost, c, x) => Before(ghost, r, x)
  BY <1>7, BeforeAlike
<1>17. \A x : Before(ghost, x, c) => Before(ghost, x, r)
  BY <1>7, BeforeAlike
<1>18. c.m.kind = "cmd"
  BY <1>3, <1>5 DEF LineOK, CommandsOK
<1>19. ChainOK'
  <2>1. ASSUME NEW j \in 1..Len(chain), NEW i \in 1..Len(page'.reached)
        PROVE  Before(ghost, page'.reached[i], chain[j])
    <3>1. CASE i \in 1..k /\ page'.reached[i] = page.reached[i]
      BY <3>1, <1>3 DEF LineOK, ChainOK, k
    <3>2. CASE page'.reached[i] = r
      BY <3>2, <1>3, <1>5, <1>16 DEF LineOK, ChainOK
    <3> QED BY <3>1, <3>2, <1>12
  <2>2. ASSUME NEW j \in 1..Len(chain), NEW i \in 1..Len(w)
        PROVE  Before(ghost, w[i], chain[j])
    BY <1>3, <1>5 DEF LineOK, ChainOK
  <2>3. ASSUME NEW j \in 1..Len(chain), act' # NoAct
        PROVE  Before(ghost, act', chain[j])
    BY <2>3, <1>2, <1>3 DEF LineOK, ChainOK
  <2>4. \A i, j \in 1..Len(chain) : i < j => Before(ghost, chain[i], chain[j])
    BY <1>3 DEF LineOK, ChainOK
  <2> QED BY <2>1, <2>2, <2>3, <2>4, <1>2, <1>11 DEF ChainOK
<1>20. act' = NoAct => act'.stage = "none"
  BY DEF NoAct
<1>21. ActOK'
  <2>1. CASE act' = NoAct
    BY <2>1, <1>20 DEF ActOK, Undone
  <2>2. CASE act' = act
    <3>1. ASSUME Undone, NEW i \in 1..Len(page'.reached)
          PROVE  Before(ghost, page'.reached[i], act)
      <4>1. CASE i \in 1..k /\ page'.reached[i] = page.reached[i]
        BY <3>1, <4>1, <1>3 DEF LineOK, ActOK, k
      <4>2. CASE page'.reached[i] = r
        BY <3>1, <4>2, <1>3, <1>5, <1>16 DEF LineOK, ActOK
      <4> QED BY <4>1, <4>2, <1>12
    <3>2. ASSUME Undone, NEW i \in 1..Len(w) PROVE Before(ghost, w[i], act)
      BY <3>2, <1>3, <1>5 DEF LineOK, ActOK
    <3>3. Undone' <=> Undone
      BY <2>2 DEF Undone
    <3> QED BY <3>1, <3>2, <3>3, <2>2, <1>2, <1>3, <1>11 DEF LineOK, ActOK
  <2> QED BY <2>1, <2>2, <1>2
<1>22. CommandsOK'
  <2>1. ASSUME NEW i \in 1..Len(w)
        PROVE  /\ w[i].m.kind = "cmd" /\ Before(ghost, c, w[i])
               /\ \A j \in 1..Len(page.reached) :
                    page.reached[j].m.kind = "cmd" => Before(ghost, page.reached[j], w[i])
    <3>1. 1 < i + 1
      BY <1>5
    <3> QED BY <3>1, <1>3, <1>5 DEF LineOK, CommandsOK
  <2>2. ASSUME NEW i \in 1..Len(w), NEW j \in 1..Len(w), i < j
        PROVE  Before(ghost, w[i], w[j])
    <3>1. i + 1 < j + 1
      BY <2>2, <1>5
    <3> QED BY <3>1, <1>3, <1>5 DEF LineOK, CommandsOK
  <2>3. ASSUME NEW i \in 1..Len(w), NEW j \in 1..Len(page'.reached),
               page'.reached[j].m.kind = "cmd"
        PROVE  Before(ghost, page'.reached[j], w[i])
    <3>1. CASE j \in 1..k /\ page'.reached[j] = page.reached[j]
      BY <2>1, <2>3, <3>1 DEF k
    <3>2. CASE page'.reached[j] = r
      BY <2>1, <3>2, <1>16
    <3> QED BY <3>1, <3>2, <1>12
  <2> QED BY <2>1, <2>2, <2>3, <1>2, <1>11 DEF CommandsOK
<1>23. ReachedOK'
  <2>1. ASSUME NEW i \in 1..Len(page'.reached), NEW j \in 1..Len(page'.reached), i < j,
               page'.reached[i].m.kind = "cmd" <=> page'.reached[j].m.kind = "cmd"
        PROVE  Before(ghost, page'.reached[i], page'.reached[j])
    <3>1. CASE i = k + 1
      BY <2>1, <3>1, <1>6, <1>12
    <3>2. CASE i \in 1..k /\ page'.reached[i] = page.reached[i]
      <4>1. CASE j \in 1..k /\ page'.reached[j] = page.reached[j]
        BY <2>1, <3>2, <4>1, <1>3 DEF LineOK, ReachedOK, k
      <4>2. CASE j = k + 1 /\ page'.reached[j] = r
        <5>1. page.reached[i].m.kind = "cmd"
          BY <2>1, <3>2, <4>2, <1>7, <1>18
        <5>2. Before(ghost, page.reached[i], c)
          BY <5>1, <3>2, <1>3, <1>5 DEF LineOK, CommandsOK, k
        <5> QED BY <5>2, <3>2, <4>2, <1>17
      <4> QED BY <4>1, <4>2, <1>12
    <3> QED BY <3>1, <3>2, <1>12
  <2> QED BY <2>1, <1>2 DEF ReachedOK
<1>24. StragglersOK'
  <2>0. term \in Nat
    BY <1>3 DEF Typed
  <2>1. ASSUME NEW i \in 1..Len(page'.reached) PROVE page'.reached[i].term <= term
    BY <2>0, <1>3, <1>7, <1>12 DEF StragglersOK, k
  <2>2. ASSUME NEW i \in 1..Len(page'.reached), Late(page'.reached[i])
        PROVE  i \in 1..k /\ page'.reached[i] = page.reached[i]
    BY <2>2, <1>7, <1>12, <1>18 DEF Late
  <2>3. ASSUME NEW i \in 1..Len(page'.reached), NEW j \in 1..Len(page'.reached),
               Late(page'.reached[i]), Late(page'.reached[j]),
               page'.reached[i].term = page'.reached[j].term
        PROVE  i = j
    <3>1. /\ i \in 1..k /\ page'.reached[i] = page.reached[i]
          /\ j \in 1..k /\ page'.reached[j] = page.reached[j]
      BY <2>2, <2>3
    <3> QED BY <3>1, <2>3, <1>3 DEF StragglersOK, k
  <2>4. ASSUME act'.stage \in {"locate", "send"}, act'.id # driver,
               NEW i \in 1..Len(page'.reached), Late(page'.reached[i])
        PROVE  page'.reached[i].term # term
    <3>1. act' = act
      BY <2>4, <1>2, <1>20
    <3>2. i \in 1..k /\ page'.reached[i] = page.reached[i]
      BY <2>2, <2>4
    <3> QED BY <3>1, <3>2, <2>4, <1>3 DEF StragglersOK, k
  <2> QED BY <2>1, <2>3, <2>4, <1>2 DEF StragglersOK
<1> QED BY <1>13, <1>15, <1>19, <1>21, <1>22, <1>23, <1>24 DEF IInv, LineOK

------------------------------------------------------------------------------
(* The invariant holds. *)

LEMMA InitIInv == Init => IInv
<1> SUFFICES ASSUME Init PROVE IInv
  OBVIOUS
<1>1. /\ made = 0 /\ driver = 0 /\ term = 0 /\ conns = 0 /\ churn = 0 /\ ghost = FALSE
      /\ client = [v \in Viewer |-> [conn |-> 0, pending |-> <<>>]]
      /\ peers = <<>> /\ chain = <<>> /\ act = NoAct
      /\ page = [session |-> 1, commands |-> <<>>, reached |-> <<>>]
  BY DEF Init
<1>2. page.commands = <<>> /\ page.reached = <<>> /\ page \in PageState
  BY <1>1 DEF PageState
<1>3. client \in [Viewer -> [conn : Nat, pending : Seq(Message)]]
  BY <1>1
<1>4. Typed
  <2>1. made <= MaxMade /\ churn <= MaxChurn
    BY <1>1, InputPathAssumption
  <2>2. peers \in Seq(Peer) /\ chain \in Seq(Entry)
    BY <1>1
  <2>3. ghost \in BOOLEAN
    BY <1>1, Zenon
  <2> QED BY <2>1, <2>2, <2>3, <1>1, <1>2, <1>3 DEF Typed, PageState
<1>5. Len(peers) = 0 /\ Len(chain) = 0 /\ Len(page.commands) = 0 /\ Len(page.reached) = 0
  BY <1>1, <1>2
<1>6. act.stage = "none"
  BY <1>1 DEF NoAct
<1>7. PeersOK /\ ClientsOK /\ TransitOK
  BY <1>1, <1>5 DEF PeersOK, ClientsOK, TransitOK, Conns
<1>8. PendingOK
  BY <1>1 DEF PendingOK
<1>9. PastOK
  BY <1>1, <1>5 DEF PastOK, LetThrough
<1>10. LineOK
  BY <1>5, <1>6 DEF LineOK, ChainOK, ActOK, Undone, CommandsOK, ReachedOK
<1>11. StragglersOK
  BY <1>5 DEF StragglersOK
<1> QED BY <1>4, <1>7, <1>8, <1>9, <1>10, <1>11 DEF IInv, SourceOK

LEMMA NextIInv == IInv /\ [Next]_vars => IInv'
<1> SUFFICES ASSUME IInv, [Next]_vars PROVE IInv'
  OBVIOUS
<1>1. Typed /\ SourceOK /\ PastOK /\ LineOK /\ StragglersOK
  BY DEF IInv
\* What happens before the relay
<1>2. ASSUME Typed', SourceOK', PastOK', LineOK', UNCHANGED <<act, page>>,
             \/ UNCHANGED <<driver, term>>
             \/ term' = term + 1
             \/ driver = 0 /\ term' = term
      PROVE  IInv'
  BY <1>1, <1>2, StragglersStay DEF IInv
<1>3. ASSUME NEW v \in Viewer, MakeInput(v) PROVE IInv'
  <2>1. UNCHANGED <<driver, term, chain, act, page, ghost>>
    BY <1>3 DEF MakeInput
  <2> QED BY <2>1, <1>1, <1>2, <1>3, MakeInputStep, LineStays
<1>4. ASSUME NEW v \in Viewer, HandOver(v) PROVE IInv'
  <2>1. UNCHANGED <<driver, term, chain, act, page, ghost>>
    BY <1>4 DEF HandOver
  <2> QED BY <2>1, <1>1, <1>2, <1>4, HandOverStep, LineStays
<1>5. ASSUME NEW v \in Viewer, Connect(v) PROVE IInv'
  <2>1. UNCHANGED <<term, chain, act, page, ghost>> /\ (driver = 0 \/ driver' = driver)
    BY <1>5 DEF Connect
  <2> QED BY <2>1, <1>1, <1>2, <1>5, ConnectStep, LineStays
<1>6. ASSUME NEW v \in Viewer, Break(v) PROVE IInv'
  <2>1. UNCHANGED <<driver, term, chain, act, page, ghost>>
    BY <1>6 DEF Break
  <2> QED BY <2>1, <1>1, <1>2, <1>6, BreakStep, LineStays
<1>7. ASSUME NEW id \in Conns, Disconnect(id) PROVE IInv'
  <2>1. /\ UNCHANGED <<chain, act, page>> /\ (ghost => ghost')
        /\ UNCHANGED <<driver, term>> \/ term' = term + 1
    BY <1>7 DEF Disconnect
  <2> QED BY <2>1, <1>1, <1>2, <1>7, DisconnectStep, LineStays
<1>8. ASSUME NEW id \in Conns, ReceiveUp(id) PROVE IInv'
  <2>1. /\ UNCHANGED <<act, page>>
        /\ UNCHANGED <<driver, term>> \/ term' = term + 1
    BY <1>8 DEF ReceiveUp, ReceiveInput, ReceiveTransfer
  <2> QED BY <2>1, <1>2, <1>8, ReceiveUpStep, ReceiveUpLine
<1>9. ASSUME CommandTimeout PROVE IInv'
  BY <1>9, ActEnds DEF CommandTimeout, Idle
<1>10. ASSUME UNCHANGED vars PROVE IInv'
  <2>1. UNCHANGED <<made, client, peers, driver, term, chain, act, page, churn, conns, ghost>>
    BY <1>10 DEF vars
  <2>2. Typed'
    BY <2>1, <1>1 DEF Typed
  <2>3. SourceOK' /\ PastOK'
    <3>1. \A c \in Nat, m \in Message : LetThrough(c, m)' => LetThrough(c, m)
      BY <2>1 DEF LetThrough
    <3> QED BY <3>1, <2>1, <1>1, SourceStays
  <2> QED BY <2>1, <2>2, <2>3, <1>1, <1>2, LineStays
<1> QED BY <1>3, <1>4, <1>5, <1>6, <1>7, <1>8, <1>9, <1>10, DispatchStep, LocateStep, SendStep,
           ResolveStep, ExecuteStep, ReplaceStep DEF Next

THEOREM Invariance == Spec => []IInv
BY InitIInv, NextIInv, PTL DEF Spec

\* For any number of viewers, broken sockets, changes of driver and replaced sessions, what
\* a viewer does with pointer and keys reaches the page in the order it was done in: the
\* pending queue of ws.ts, the connections, the tab's tail (relay.ts:51-53).
THEOREM InputInOrderHolds == Spec => []InputInOrder
BY Invariance, InvOrders, PTL

\* The same of values and scrolls, although a command that timed out runs later
\* (relay.ts:103-128).
THEOREM ValuesInOrderHolds == Spec => []ValuesInOrder
BY Invariance, InvOrders, PTL

\* From one change of the driver to the next, at most one event of a former driver
\* reaches the page (relay.ts:79-89), and who drives is connected.
THEOREM OneStragglerHolds == Spec => []OneStraggler
BY Invariance, InvOneStraggler, PTL
==============================================================================
