-------------------------- MODULE MirrorStreamProofs --------------------------
(***************************************************************************)
(* What MirrorStream promises, proved for every set of viewers, every      *)
(* watermark of their sockets and every bound on events and disturbances.  *)
(*                                                                         *)
(* The inductive invariant looks at each connection as a line that ends in *)
(* a mirror: where the mirror is, what each message of the line expects to *)
(* find there, where the line ends (the cursor of the connection), and how *)
(* the end relates to the pending batch and to the hub.                    *)
(***************************************************************************)
EXTENDS MirrorStream, TLAPS

------------------------------------------------------------------------------
(* The inductive invariant. *)

(* The hub: the events of the open epoch are numbered on from its snapshot. *)
HubOK ==
  /\ base = NoBase => tail = <<>>
  /\ base # NoBase =>
       /\ epoch > 0 /\ baseSeq = base /\ seq = base + Len(tail)
       /\ \A i \in 1..Len(tail) : tail[i] = base + i

(* A message on its way, when the hub is in epoch e with snapshot b: its events are
   numbered on from its number, and an epoch has one snapshot. *)
MessageOK(m, e, b) ==
  /\ m.t = "snapshot" =>
       /\ m.epoch \in 1..e
       /\ m.data = m.seq
       /\ m.epoch = e /\ b # NoBase => m.data = b
  /\ m.t = "delta" =>
       /\ m.epoch \in 1..e
       /\ \A i \in 1..Len(m.data) : m.data[i] = m.seq + i - 1

MessagesOK(d, e, b) == \A i \in 1..Len(d) : MessageOK(d[i], e, b)

(* A replica, when the hub is in epoch e with snapshot b. *)
ReplicaOK(r, e, b) == r.epoch <= e /\ (r.epoch = e /\ b # NoBase => r.base = b)

Contiguous(r) ==
  /\ r.lastSeq = r.base + Len(r.tail)
  /\ \A i \in 1..Len(r.tail) : r.tail[i] = r.base + i

MirrorOK(l, mr) ==
  /\ mr.replica # NoReplica => mr.known
  /\ l.open /\ ~mr.waiting /\ mr.replica # NoReplica => Contiguous(mr.replica)

(* Where the mirror will be when the i-th message of its line reaches it. *)
Before(d, mr, i) ==
  IF i > 1 THEN CursorAfter(d[i - 1])
  ELSE IF mr.replica = NoReplica THEN NoCursor
  ELSE [epoch |-> mr.replica.epoch, nextSeq |-> mr.replica.lastSeq + 1]

Points(c, e, s) == c.epoch = e /\ c.nextSeq = s

(* A delta finds the mirror where it goes on from, unless the mirror waits. *)
DeltasFit(d, mr) ==
  \A i \in 1..Len(d) : d[i].t = "delta" =>
    (i = 1 /\ mr.waiting) \/ Points(Before(d, mr, i), d[i].epoch, d[i].seq)

(* A snapshot never is of an earlier epoch than what was replayed before it, *)
SnapshotsRise(d, mr) ==
  \A i \in 1..Len(d) : d[i].t = "snapshot" =>
    /\ d[i].epoch >= mr.replica.epoch
    /\ \A j \in 1..(i - 1) : d[j].t = "snapshot" => d[i].epoch >= d[j].epoch

(* and unless it is of a later one the mirror waits for it. *)
SnapshotsFit(d, mr) ==
  \A i \in 1..Len(d) : d[i].t = "snapshot" =>
    \/ i = 1 /\ mr.waiting
    \/ i > 1 /\ d[i - 1].t = "resync"
    \/ /\ d[i].epoch > mr.replica.epoch
       /\ \A j \in 1..(i - 1) : d[j].t = "snapshot" => d[i].epoch > d[j].epoch

(* The cursor is where the mirror will be at the end of the line. *)
CursorFits(l, mr) ==
  l.open => \/ l.down = <<>> /\ mr.waiting
            \/ l.cursor = Before(l.down, mr, Len(l.down) + 1)

LineOK(l, mr) ==
  /\ DeltasFit(l.down, mr) /\ SnapshotsRise(l.down, mr) /\ SnapshotsFit(l.down, mr)
  /\ CursorFits(l, mr)
  /\ ~l.open => l.down = <<>>

(* A connection and its mirror, when the hub is in epoch e with snapshot b. *)
Sound(l, mr, e, b) ==
  /\ MessagesOK(l.down, e, b)
  /\ ReplicaOK(mr.replica, e, b)
  /\ MirrorOK(l, mr)
  /\ LineOK(l, mr)

(* The pending batch goes on to where the hub is, *)
BatchOK ==
  batch # NoBatch =>
    /\ batch.t = "delta" /\ MessageOK(batch, epoch, base)
    /\ shown /\ base # NoBase => Points(CursorAfter(batch), epoch, seq + 1)

(* and the connection of a viewer that keeps up is where the batch, or the hub, goes on. *)
KeepsUp(l) ==
  l.open /\ ~l.stalled =>
    /\ batch # NoBatch => Points(l.cursor, batch.epoch, batch.seq)
    /\ batch = NoBatch /\ shown /\ base # NoBase => Points(l.cursor, epoch, seq + 1)

ViewerOK(v) == Sound(link[v], mirror[v], epoch, base) /\ KeepsUp(link[v])

IInv == TypeOK /\ HubOK /\ BatchOK /\ \A v \in Viewer : ViewerOK(v)

------------------------------------------------------------------------------
(* The messages and the connection. *)

Cursor  == [epoch : Nat, nextSeq : Nat]
Replica == [epoch : Nat, lastSeq : Nat, base : Nat, tail : Seq(Nat)]
LinkRecord   == [open : BOOLEAN, stalled : BOOLEAN, cursor : Cursor, down : Seq(Message)]
MirrorRecord == [replica : Replica, waiting : BOOLEAN, known : BOOLEAN]

LEMMA MessageKinds ==
  ASSUME NEW m \in Message
  PROVE  /\ m.t \in {"resync", "snapshot", "delta"}
         /\ m.t = "snapshot" => m.epoch \in Nat /\ m.seq \in Nat /\ m.data \in Nat
         /\ m.t = "delta" => /\ m.epoch \in Nat /\ m.seq \in Nat
                             /\ m.data \in Seq(Nat) /\ Len(m.data) > 0
         /\ CursorAfter(m) \in Cursor
<1>1. CASE m \in [t : {"resync"}]
  BY <1>1 DEF CursorAfter, NoCursor, Cursor
<1>2. CASE m \in [t : {"snapshot"}, epoch : Nat, seq : Nat, data : Nat]
  BY <1>2 DEF CursorAfter, NoCursor, Cursor
<1>3. CASE m \in [t : {"delta"}, epoch : Nat, seq : Nat, data : Seq(Nat) \ {<<>>}]
  BY <1>3 DEF CursorAfter, NoCursor, Cursor
<1> QED
  BY <1>1, <1>2, <1>3 DEF Message

LEMMA MessageTypes ==
  /\ ResyncMsg \in Message
  /\ \A e, s, n \in Nat : SnapshotMsg(e, s, n) \in Message
  /\ \A e, s \in Nat, ds \in Seq(Nat) : ds # <<>> => DeltaMsg(e, s, ds) \in Message
  BY DEF Message, ResyncMsg, SnapshotMsg, DeltaMsg

(* What Transmit touches. *)
LEMMA TransmitEffect ==
  ASSUME NEW l \in LinkRecord, NEW m \in Message
  PROVE  LET s == Transmit(l, m) IN
         /\ s \in LinkRecord
         /\ s.open = l.open /\ s.stalled = l.stalled
         /\ s.cursor = CursorAfter(m)
         /\ s.down = Append(l.down, m)
<1>1. CursorAfter(m) \in Cursor /\ Append(l.down, m) \in Seq(Message)
  BY MessageKinds DEF LinkRecord
<1> QED
  BY <1>1, Zenon DEF Transmit, LinkRecord

(* A message that goes on from the end of a line keeps the line in order. *)
LEMMA ExtendLine ==
  ASSUME NEW l \in LinkRecord, NEW mr \in MirrorRecord, NEW e \in Nat, NEW b \in Nat,
         Sound(l, mr, e, b), l.open, NEW m \in Message,
         m.t = "delta" => m.epoch > 0 /\ Points(l.cursor, m.epoch, m.seq),
         m.t = "snapshot" =>
           /\ m.epoch >= e
           /\ m.epoch > e \/ (l.down # <<>> /\ l.down[Len(l.down)].t = "resync")
  PROVE  LineOK(Transmit(l, m), mr)
<1> DEFINE d == l.down
           n == Len(d)
           s == Transmit(l, m)
<1>1. /\ s.open /\ s.cursor = CursorAfter(m) /\ s.down = Append(d, m)
      /\ d \in Seq(Message) /\ n \in Nat /\ s.down \in Seq(Message)
      /\ Len(s.down) = n + 1 /\ s.down[n + 1] = m
      /\ \A i \in 1..n : s.down[i] = d[i] /\ d[i] \in Message
  <2>1. /\ s.open /\ s.cursor = CursorAfter(m) /\ s.down = Append(d, m)
        /\ d \in Seq(Message)
    BY TransmitEffect DEF LinkRecord
  <2> HIDE DEF s, d
  <2> QED
    BY <2>1
<1>2. /\ DeltasFit(d, mr) /\ SnapshotsRise(d, mr) /\ SnapshotsFit(d, mr) /\ CursorFits(l, mr)
      /\ MessagesOK(d, e, b) /\ ReplicaOK(mr.replica, e, b)
      /\ mr.replica.epoch \in Nat /\ mr.replica.lastSeq \in Nat
  BY DEF Sound, LineOK, MirrorRecord, Replica
<1> HIDE DEF s
<1>7. \A i \in 1..n : d[i].t = "snapshot" => d[i].epoch \in Nat /\ d[i].epoch <= e
  BY <1>2 DEF MessagesOK, MessageOK
<1>8. mr.replica.epoch <= e
  BY <1>2 DEF ReplicaOK
<1>3. DeltasFit(s.down, mr)
  <2> SUFFICES ASSUME NEW i \in 1..(n + 1), s.down[i].t = "delta"
               PROVE  (i = 1 /\ mr.waiting)
                        \/ Points(Before(s.down, mr, i), s.down[i].epoch, s.down[i].seq)
    BY <1>1 DEF DeltasFit
  <2>1. CASE i \in 1..n
    BY <1>1, <1>2, <2>1 DEF DeltasFit, Before
  <2>2. CASE i = n + 1
    <3>1. Before(s.down, mr, i) = Before(d, mr, n + 1)
      BY <1>1, <2>2 DEF Before
    <3>2. (d = <<>> /\ mr.waiting) \/ l.cursor = Before(d, mr, n + 1)
      BY <1>2 DEF CursorFits
    <3> QED
      BY <1>1, <2>2, <3>1, <3>2
  <2> QED
    BY <2>1, <2>2
<1>4. SnapshotsRise(s.down, mr)
  <2> SUFFICES ASSUME NEW i \in 1..(n + 1), s.down[i].t = "snapshot"
               PROVE  /\ s.down[i].epoch >= mr.replica.epoch
                      /\ \A j \in 1..(i - 1) : s.down[j].t = "snapshot" =>
                           s.down[i].epoch >= s.down[j].epoch
    BY <1>1 DEF SnapshotsRise
  <2>1. CASE i \in 1..n
    BY <1>1, <1>2, <2>1 DEF SnapshotsRise
  <2>2. CASE i = n + 1
    <3>1. s.down[i] = m /\ m.epoch >= e /\ m.epoch \in Nat
      BY <1>1, <2>2, MessageKinds
    <3>2. s.down[i].epoch >= mr.replica.epoch
      BY <1>2, <1>8, <3>1
    <3>3. ASSUME NEW j \in 1..(i - 1), s.down[j].t = "snapshot"
          PROVE  s.down[i].epoch >= s.down[j].epoch
      <4>1. j \in 1..n /\ s.down[j] = d[j]
        BY <1>1, <2>2
      <4> QED
        BY <1>7, <3>1, <3>3, <4>1
    <3> QED
      BY <3>2, <3>3
  <2> QED
    BY <2>1, <2>2
<1>5. SnapshotsFit(s.down, mr)
  <2> SUFFICES ASSUME NEW i \in 1..(n + 1), s.down[i].t = "snapshot"
               PROVE  \/ i = 1 /\ mr.waiting
                      \/ i > 1 /\ s.down[i - 1].t = "resync"
                      \/ /\ s.down[i].epoch > mr.replica.epoch
                         /\ \A j \in 1..(i - 1) : s.down[j].t = "snapshot" =>
                              s.down[i].epoch > s.down[j].epoch
    BY <1>1 DEF SnapshotsFit
  <2>1. CASE i \in 1..n
    BY <1>1, <1>2, <2>1 DEF SnapshotsFit
  <2>2. CASE i = n + 1 /\ m.epoch > e
    <3>1. s.down[i] = m /\ m.epoch \in Nat
      BY <1>1, <2>2, MessageKinds
    <3>2. s.down[i].epoch > mr.replica.epoch
      BY <1>2, <1>8, <2>2, <3>1
    <3>3. ASSUME NEW j \in 1..(i - 1), s.down[j].t = "snapshot"
          PROVE  s.down[i].epoch > s.down[j].epoch
      <4>1. j \in 1..n /\ s.down[j] = d[j]
        BY <1>1, <2>2
      <4> QED
        BY <1>7, <2>2, <3>1, <3>3, <4>1
    <3> QED
      BY <3>2, <3>3
  <2>3. CASE i = n + 1 /\ d # <<>> /\ d[n].t = "resync"
    BY <1>1, <2>3
  <2>4. i = n + 1 => m.epoch > e \/ (d # <<>> /\ d[n].t = "resync")
    BY <1>1
  <2>5. i \in 1..n \/ i = n + 1
    BY <1>1
  <2> QED
    BY <2>1, <2>2, <2>3, <2>4, <2>5, Zenon
<1>6. CursorFits(s, mr)
  BY <1>1 DEF CursorFits, Before
<1> QED
  BY <1>1, <1>3, <1>4, <1>5, <1>6 DEF LineOK, s

(* So whatever is transmitted, the connection stays sound. *)
LEMMA TransmitSound ==
  ASSUME NEW l \in LinkRecord, NEW mr \in MirrorRecord, NEW e \in Nat, NEW b \in Nat,
         Sound(l, mr, e, b), l.open, NEW m \in Message, MessageOK(m, e, b),
         m.t = "delta" => Points(l.cursor, m.epoch, m.seq),
         m.t = "snapshot" =>
           m.epoch = e /\ l.down # <<>> /\ l.down[Len(l.down)].t = "resync"
  PROVE  Sound(Transmit(l, m), mr, e, b)
<1>1. LineOK(Transmit(l, m), mr)
  BY ExtendLine, MessageKinds DEF MessageOK
<1>2. MessagesOK(Transmit(l, m).down, e, b)
  <2> DEFINE d == l.down
             f == Transmit(l, m).down
  <2>1. f = Append(d, m) /\ d \in Seq(Message) /\ MessagesOK(d, e, b)
    BY TransmitEffect DEF Sound, LinkRecord
  <2> HIDE DEF d, f
  <2>2. Len(f) = Len(d) + 1 /\ f[Len(d) + 1] = m /\ \A i \in 1..Len(d) : f[i] = d[i]
    BY <2>1
  <2>3. MessagesOK(f, e, b)
    BY <2>1, <2>2 DEF MessagesOK
  <2> QED
    BY <2>3 DEF f
<1>3. MirrorOK(Transmit(l, m), mr) /\ ReplicaOK(mr.replica, e, b)
  BY TransmitEffect DEF MirrorOK, Sound
<1> QED
  BY <1>1, <1>2, <1>3 DEF Sound

(* The stall flag is not part of the line. *)
LEMMA StallFlag ==
  ASSUME NEW l \in LinkRecord, NEW mr \in MirrorRecord, NEW e \in Nat, NEW b \in Nat,
         NEW x \in BOOLEAN, Sound(l, mr, e, b)
  PROVE  LET s == [l EXCEPT !.stalled = x] IN
         /\ s \in LinkRecord
         /\ s.open = l.open /\ s.stalled = x /\ s.cursor = l.cursor /\ s.down = l.down
         /\ Sound(s, mr, e, b)
<1> DEFINE s == [l EXCEPT !.stalled = x]
<1>1. /\ s \in LinkRecord
      /\ s.open = l.open /\ s.stalled = x /\ s.cursor = l.cursor /\ s.down = l.down
  BY Zenon DEF LinkRecord
<1> HIDE DEF s
<1>2. Sound(s, mr, e, b)
  BY <1>1 DEF Sound, LineOK, CursorFits, MirrorOK
<1> QED
  BY <1>1, <1>2 DEF s

(* send() of a delta that goes on from where a viewer that keeps up is. *)
LEMMA SentDelta ==
  ASSUME NEW l \in LinkRecord, NEW mr \in MirrorRecord, NEW e \in Nat, NEW b \in Nat,
         Sound(l, mr, e, b), NEW m \in Message, m.t = "delta", MessageOK(m, e, b),
         l.open /\ ~l.stalled => Points(l.cursor, m.epoch, m.seq)
  PROVE  LET s == Sent(l, m) IN
         /\ s \in LinkRecord /\ s.open = l.open /\ Sound(s, mr, e, b)
         /\ s.open /\ ~s.stalled => s.cursor = CursorAfter(m)
<1>1. CASE l.open /\ ~l.stalled /\ ~(Len(l.down) > StallLen)
  <2>1. ~AlreadyReplayed(l, m)
    BY <1>1, MessageKinds DEF AlreadyReplayed, Points
  <2>2. Sent(l, m) = Transmit(l, m)
    BY <1>1, <2>1 DEF Sent
  <2> QED
    BY <1>1, <2>2, TransmitSound, TransmitEffect
<1>2. CASE Sent(l, m) = [l EXCEPT !.stalled = TRUE]
  <2> DEFINE s == [l EXCEPT !.stalled = TRUE]
  <2>1. /\ s \in LinkRecord
        /\ s.open = l.open /\ s.stalled = TRUE /\ s.cursor = l.cursor /\ s.down = l.down
        /\ Sound(s, mr, e, b)
    BY StallFlag, Zenon
  <2> HIDE DEF s
  <2> QED
    BY <1>2, <2>1 DEF s
<1>3. CASE Sent(l, m) = l /\ (~l.open \/ l.stalled)
  BY <1>3
<1>4. CASE l.open /\ ~l.stalled /\ Len(l.down) > StallLen
  <2>1. ~AlreadyReplayed(l, m)
    BY <1>4, MessageKinds DEF AlreadyReplayed, Points
  <2> QED
    BY <1>2, <1>4, <2>1 DEF Sent, Droppable
<1>5. CASE ~l.open \/ l.stalled
  BY <1>2, <1>3, <1>5 DEF Sent, Droppable
<1> QED
  BY <1>1, <1>4, <1>5

(* Anything else is never dropped. *)
LEMMA SentOther ==
  ASSUME NEW l \in LinkRecord, NEW m \in Message, m.t # "delta"
  PROVE  /\ l.open => Sent(l, m) = Transmit(l, m)
         /\ ~l.open => Sent(l, m) = l
  BY DEF Sent, Droppable

LEMMA SentResync ==
  ASSUME NEW l \in LinkRecord, NEW mr \in MirrorRecord, NEW e \in Nat, NEW b \in Nat,
         Sound(l, mr, e, b)
  PROVE  LET s == Sent(l, ResyncMsg) IN
         /\ s \in LinkRecord /\ s.open = l.open /\ s.stalled = l.stalled
         /\ Sound(s, mr, e, b)
         /\ s.open => s.down # <<>> /\ s.down[Len(s.down)].t = "resync"
<1>1. ResyncMsg \in Message /\ ResyncMsg.t = "resync" /\ MessageOK(ResyncMsg, e, b)
  BY MessageTypes DEF ResyncMsg, MessageOK
<1>2. CASE l.open
  <2> DEFINE s == Transmit(l, ResyncMsg)
  <2>1. Sent(l, ResyncMsg) = s
    BY <1>1, <1>2, SentOther
  <2>2. /\ s \in LinkRecord /\ s.open = l.open /\ s.stalled = l.stalled /\ Sound(s, mr, e, b)
        /\ s.down = Append(l.down, ResyncMsg) /\ l.down \in Seq(Message)
    BY <1>1, <1>2, TransmitSound, TransmitEffect DEF LinkRecord
  <2> HIDE DEF s
  <2>3. s.down # <<>> /\ s.down[Len(s.down)] = ResyncMsg
    BY <2>2
  <2> QED
    BY <1>1, <2>1, <2>2, <2>3
<1>3. CASE ~l.open
  BY <1>1, <1>3, SentOther
<1> QED
  BY <1>2, <1>3

(* The snapshot of the open epoch, after a resync. *)
LEMMA SentBase ==
  ASSUME NEW l \in LinkRecord, NEW mr \in MirrorRecord, NEW e \in Nat, NEW b \in Nat,
         Sound(l, mr, e, b), e > 0,
         l.open => l.down # <<>> /\ l.down[Len(l.down)].t = "resync"
  PROVE  LET s == Sent(l, SnapshotMsg(e, b, b)) IN
         /\ s \in LinkRecord /\ s.open = l.open /\ s.stalled = l.stalled
         /\ Sound(s, mr, e, b)
         /\ s.open => Points(s.cursor, e, b + 1)
<1> DEFINE m == SnapshotMsg(e, b, b)
<1>1. /\ m \in Message /\ m.t = "snapshot" /\ m.epoch = e /\ MessageOK(m, e, b)
      /\ Points(CursorAfter(m), e, b + 1)
  BY MessageTypes DEF SnapshotMsg, MessageOK, CursorAfter, Points
<1> HIDE DEF m
<1> SUFFICES LET s == Sent(l, m) IN
             /\ s \in LinkRecord /\ s.open = l.open /\ s.stalled = l.stalled
             /\ Sound(s, mr, e, b)
             /\ s.open => Points(s.cursor, e, b + 1)
  BY DEF m
<1>2. CASE l.open
  <2>1. Sent(l, m) = Transmit(l, m)
    BY <1>1, <1>2, SentOther
  <2> QED
    BY <1>1, <1>2, <2>1, TransmitSound, TransmitEffect
<1>3. CASE ~l.open
  BY <1>1, <1>3, SentOther
<1> QED
  BY <1>2, <1>3

LEMMA SameLink ==
  ASSUME NEW l \in LinkRecord, NEW s \in LinkRecord,
         l.open = s.open, l.stalled = s.stalled, l.cursor = s.cursor, l.down = s.down
  PROVE  l = s
  BY DEF LinkRecord

LEMMA AppendTwice ==
  ASSUME NEW d \in Seq(Message), NEW x \in Message, NEW y \in Message
  PROVE  Append(Append(d, x), y) = d \o <<x, y>>
<1> DEFINE f == Append(Append(d, x), y)
           g == d \o <<x, y>>
<1>1. f \in Seq(Message) /\ g \in Seq(Message) /\ Len(f) = Len(g)
  OBVIOUS
<1>2. \A i \in 1..Len(f) : f[i] = g[i]
  OBVIOUS
<1> HIDE DEF f, g
<1>3. f = g
  BY <1>1, <1>2
<1> QED
  BY <1>3 DEF f, g

LEMMA AppendThrice ==
  ASSUME NEW d \in Seq(Message), NEW x \in Message, NEW y \in Message, NEW z \in Message
  PROVE  Append(Append(Append(d, x), y), z) = d \o <<x, y, z>>
<1> DEFINE f == Append(d \o <<x, y>>, z)
           g == d \o <<x, y, z>>
<1>1. f \in Seq(Message) /\ g \in Seq(Message) /\ Len(f) = Len(g)
  OBVIOUS
<1>2. \A i \in 1..Len(f) : f[i] = g[i]
  OBVIOUS
<1> HIDE DEF f, g
<1>3. f = g
  BY <1>1, <1>2
<1> QED
  BY <1>3, AppendTwice DEF f, g

(* The buffered deltas of the hub, as one message. *)
LEMMA BufferMessage ==
  ASSUME TypeOK, HubOK, base # NoBase, tail # <<>>
  PROVE  LET m == DeltaMsg(epoch, baseSeq + 1, tail) IN
         /\ m \in Message /\ m.t = "delta" /\ MessageOK(m, epoch, base)
         /\ Points(CursorAfter(m), epoch, seq + 1)
         /\ m.epoch = epoch /\ m.seq = base + 1
<1> DEFINE m == DeltaMsg(epoch, baseSeq + 1, tail)
<1>1. m \in Message
  BY MessageTypes DEF TypeOK
<1>2. m.t = "delta" /\ m.epoch = epoch /\ m.seq = base + 1 /\ m.data = tail
  BY DEF DeltaMsg, HubOK
<1> HIDE DEF m
<1>3. MessageOK(m, epoch, base)
  BY <1>2 DEF MessageOK, HubOK, TypeOK
<1>4. Points(CursorAfter(m), epoch, seq + 1)
  BY <1>2 DEF CursorAfter, Points, HubOK, TypeOK
<1> QED
  BY <1>1, <1>2, <1>3, <1>4 DEF m

(* A join payload restores whatever the connection has missed. *)
LEMMA JoinSound ==
  ASSUME TypeOK, HubOK, NEW l \in LinkRecord, NEW mr \in MirrorRecord,
         Sound(l, mr, epoch, base), l.open
  PROVE  LET s == SendJoin(l) IN
         /\ s \in LinkRecord /\ s.open /\ s.stalled = l.stalled
         /\ Sound(s, mr, epoch, base)
         /\ base # NoBase => Points(s.cursor, epoch, seq + 1)
<1> DEFINE R == ResyncMsg
           S == SnapshotMsg(epoch, baseSeq, base)
           D == DeltaMsg(epoch, baseSeq + 1, tail)
           s1 == Transmit(l, R)
           s2 == Transmit(s1, S)
           s3 == Transmit(s2, D)
           j == SendJoin(l)
<1>0. epoch \in Nat /\ base \in Nat /\ l.down \in Seq(Message)
  BY DEF TypeOK, LinkRecord
<1>1. /\ R \in Message /\ R.t = "resync" /\ MessageOK(R, epoch, base)
      /\ S \in Message
      /\ base # NoBase => /\ S.t = "snapshot" /\ S.epoch = epoch /\ MessageOK(S, epoch, base)
                          /\ Points(CursorAfter(S), epoch, base + 1)
  BY MessageTypes DEF ResyncMsg, SnapshotMsg, MessageOK, CursorAfter, Points, TypeOK, HubOK
<1>2. base # NoBase /\ tail # <<>> =>
        /\ D \in Message /\ D.t = "delta" /\ MessageOK(D, epoch, base)
        /\ D.epoch = epoch /\ D.seq = base + 1
        /\ Points(CursorAfter(D), epoch, seq + 1)
  BY BufferMessage
<1> HIDE DEF R, S, D
<1>3. /\ s1 \in LinkRecord /\ s1.open /\ s1.stalled = l.stalled
      /\ Sound(s1, mr, epoch, base) /\ s1.cursor = CursorAfter(R) /\ s1.down = Append(l.down, R)
  BY <1>0, <1>1, TransmitSound, TransmitEffect
<1>4. s1.down # <<>> /\ s1.down[Len(s1.down)] = R
  <2> HIDE DEF s1
  <2> QED
    BY <1>0, <1>3
<1> HIDE DEF s1
<1>5. base # NoBase =>
      /\ s2 \in LinkRecord /\ s2.open /\ s2.stalled = l.stalled
      /\ Sound(s2, mr, epoch, base) /\ s2.cursor = CursorAfter(S) /\ s2.down = Append(s1.down, S)
  BY <1>0, <1>1, <1>3, <1>4, TransmitSound, TransmitEffect
<1> HIDE DEF s2
<1>6. base # NoBase /\ tail # <<>> =>
      /\ s3 \in LinkRecord /\ s3.open /\ s3.stalled = l.stalled
      /\ Sound(s3, mr, epoch, base) /\ s3.cursor = CursorAfter(D) /\ s3.down = Append(s2.down, D)
  <2> SUFFICES ASSUME base # NoBase, tail # <<>>
               PROVE  /\ s3 \in LinkRecord /\ s3.open /\ s3.stalled = l.stalled
                      /\ Sound(s3, mr, epoch, base) /\ s3.cursor = CursorAfter(D)
                      /\ s3.down = Append(s2.down, D)
    OBVIOUS
  <2>1. Points(s2.cursor, D.epoch, D.seq)
    BY <1>1, <1>2, <1>5
  <2> QED
    BY <1>0, <1>2, <1>5, <2>1, TransmitSound, TransmitEffect
<1> HIDE DEF s3
<1>7. JoinPayload = IF base = NoBase THEN <<R>> ELSE IF tail = <<>> THEN <<R, S>> ELSE <<R, S, D>>
  BY DEF JoinPayload, R, S, D
<1>8. /\ JoinPayload \in Seq(Message) /\ Len(JoinPayload) > 0
      /\ JoinPayload[Len(JoinPayload)] \in Message
  BY <1>1, <1>2, <1>7
<1>9. /\ j \in LinkRecord /\ j.open /\ j.stalled = l.stalled
      /\ j.cursor = CursorAfter(JoinPayload[Len(JoinPayload)]) /\ j.down = l.down \o JoinPayload
  <2> DEFINE c == CursorAfter(JoinPayload[Len(JoinPayload)])
             f == l.down \o JoinPayload
  <2>1. c \in Cursor /\ f \in Seq(Message)
    BY <1>0, <1>8, MessageKinds
  <2> HIDE DEF c, f
  <2>2. j = [l EXCEPT !.down = f, !.cursor = c]
    BY Zenon DEF SendJoin, c, f
  <2>3. j \in LinkRecord /\ j.open = l.open /\ j.stalled = l.stalled /\ j.cursor = c /\ j.down = f
    BY <2>1, <2>2, Zenon DEF LinkRecord
  <2> QED
    BY <2>3 DEF c, f
<1> HIDE DEF j
<1> SUFFICES /\ Sound(j, mr, epoch, base)
             /\ base # NoBase => Points(j.cursor, epoch, seq + 1)
  BY <1>9 DEF j
<1>10. CASE base = NoBase
  <2>1. j.cursor = s1.cursor /\ j.down = s1.down
    BY <1>0, <1>1, <1>3, <1>7, <1>9, <1>10
  <2>2. j = s1
    BY <1>3, <1>9, <2>1, SameLink
  <2> QED
    BY <1>3, <1>10, <2>2
<1>11. CASE base # NoBase /\ tail = <<>>
  <2>1. j.cursor = s2.cursor /\ j.down = s2.down
    BY <1>0, <1>1, <1>3, <1>5, <1>7, <1>9, <1>11, AppendTwice
  <2>2. j = s2
    BY <1>5, <1>9, <1>11, <2>1, SameLink
  <2>3. seq = base
    BY <1>11 DEF HubOK, TypeOK
  <2> QED
    BY <1>1, <1>5, <1>11, <2>2, <2>3
<1>12. CASE base # NoBase /\ tail # <<>>
  <2>1. JoinPayload = <<R, S, D>> /\ j.down = l.down \o <<R, S, D>> /\ j.cursor = s3.cursor
    BY <1>6, <1>7, <1>9, <1>12
  <2>2. s3.down = Append(Append(Append(l.down, R), S), D)
    BY <1>3, <1>5, <1>6, <1>12
  <2>3. j.down = s3.down
    BY <1>0, <1>1, <1>2, <1>12, <2>1, <2>2, AppendThrice
  <2>4. j = s3
    BY <1>6, <1>9, <1>12, <2>1, <2>3, SameLink
  <2> QED
    BY <1>2, <1>6, <1>12, <2>4
<1> QED
  BY <1>10, <1>11, <1>12

(* A new epoch, or a closed document, leaves what is on its way sound. *)
LEMMA MessageAges ==
  ASSUME NEW m, NEW e \in Nat, NEW b, NEW x, MessageOK(m, e, b)
  PROVE  MessageOK(m, e + 1, x) /\ MessageOK(m, e, NoBase)
  BY DEF MessageOK

LEMMA SoundAges ==
  ASSUME NEW l \in LinkRecord, NEW mr \in MirrorRecord, NEW e \in Nat, NEW b, NEW x,
         Sound(l, mr, e, b)
  PROVE  Sound(l, mr, e + 1, x) /\ Sound(l, mr, e, NoBase)
<1>1. MessagesOK(l.down, e + 1, x) /\ MessagesOK(l.down, e, NoBase)
  BY MessageAges DEF Sound, MessagesOK
<1>2. ReplicaOK(mr.replica, e + 1, x) /\ ReplicaOK(mr.replica, e, NoBase)
  BY DEF Sound, ReplicaOK, MirrorRecord, Replica
<1> QED
  BY <1>1, <1>2 DEF Sound

(* The snapshot that opens epoch e + 1 reaches every open connection. *)
LEMMA SentOpening ==
  ASSUME NEW l \in LinkRecord, NEW mr \in MirrorRecord, NEW e \in Nat, NEW b \in Nat,
         NEW n \in Nat, Sound(l, mr, e, b)
  PROVE  LET s == Sent(l, SnapshotMsg(e + 1, n, n)) IN
         /\ s \in LinkRecord /\ s.open = l.open
         /\ Sound(s, mr, e + 1, n)
         /\ s.open => Points(s.cursor, e + 1, n + 1)
<1> DEFINE m == SnapshotMsg(e + 1, n, n)
<1>1. /\ m \in Message /\ m.t = "snapshot" /\ m.epoch = e + 1 /\ MessageOK(m, e + 1, n)
      /\ Points(CursorAfter(m), e + 1, n + 1)
  BY MessageTypes DEF SnapshotMsg, MessageOK, CursorAfter, Points
<1>2. Sound(l, mr, e + 1, n) /\ e + 1 \in Nat
  BY SoundAges
<1> HIDE DEF m
<1> SUFFICES LET s == Sent(l, m) IN
             /\ s \in LinkRecord /\ s.open = l.open
             /\ Sound(s, mr, e + 1, n)
             /\ s.open => Points(s.cursor, e + 1, n + 1)
  BY DEF m
<1>3. CASE l.open
  <2> DEFINE s == Transmit(l, m)
  <2>1. Sent(l, m) = s
    BY <1>1, <1>3, SentOther
  <2>2. LineOK(s, mr)
    BY <1>1, <1>3, ExtendLine
  <2>3. /\ s \in LinkRecord /\ s.open /\ s.cursor = CursorAfter(m)
        /\ s.down = Append(l.down, m) /\ l.down \in Seq(Message)
    BY <1>1, <1>3, TransmitEffect DEF LinkRecord
  <2> HIDE DEF s
  <2>4. MessagesOK(l.down, e + 1, n) /\ ReplicaOK(mr.replica, e + 1, n) /\ MirrorOK(l, mr)
    BY <1>2 DEF Sound
  <2>5. Len(s.down) = Len(l.down) + 1 /\ s.down[Len(l.down) + 1] = m
        /\ \A i \in 1..Len(l.down) : s.down[i] = l.down[i]
    BY <2>3
  <2>6. MessagesOK(s.down, e + 1, n)
    BY <1>1, <2>3, <2>4, <2>5 DEF MessagesOK
  <2>7. MirrorOK(s, mr)
    BY <1>3, <2>3, <2>4 DEF MirrorOK
  <2> QED
    BY <1>1, <1>3, <2>1, <2>2, <2>3, <2>4, <2>6, <2>7 DEF Sound
<1>4. CASE ~l.open
  BY <1>1, <1>2, <1>4, SentOther
<1> QED
  BY <1>3, <1>4

------------------------------------------------------------------------------
(* The fan-out. *)

LEMMA Types ==
  ASSUME TypeOK
  PROVE  /\ link \in [Viewer -> LinkRecord] /\ mirror \in [Viewer -> MirrorRecord]
         /\ epoch \in Nat /\ seq \in Nat /\ base \in Nat /\ NoBase = 0
         /\ batch # NoBatch => batch \in Message
  BY MirrorConstants DEF TypeOK, LinkRecord, MirrorRecord, Cursor, Replica

(* flushTab(): every connection stays sound, and that of a viewer that keeps up is
   where the hub goes on, while what the hub says is published. *)
LEMMA FlushedSound ==
  ASSUME IInv
  PROVE  /\ Flushed \in [Viewer -> LinkRecord]
         /\ \A v \in Viewer :
              /\ Flushed[v].open = link[v].open
              /\ Sound(Flushed[v], mirror[v], epoch, base)
              /\ Flushed[v].open /\ ~Flushed[v].stalled =>
                   /\ batch # NoBatch => Flushed[v].cursor = CursorAfter(batch)
                   /\ shown /\ base # NoBase => Points(Flushed[v].cursor, epoch, seq + 1)
<1>1. CASE batch = NoBatch
  <2>1. Flushed = link
    BY <1>1 DEF Flushed
  <2> QED
    BY <1>1, <2>1, Types DEF IInv, ViewerOK, KeepsUp
<1>2. CASE batch # NoBatch
  <2>1. Flushed = [v \in Viewer |-> Sent(link[v], batch)]
    BY <1>2 DEF Flushed, Broadcast
  <2>2. \A v \in Viewer :
          /\ Sent(link[v], batch) \in LinkRecord /\ Sent(link[v], batch).open = link[v].open
          /\ Sound(Sent(link[v], batch), mirror[v], epoch, base)
          /\ Sent(link[v], batch).open /\ ~Sent(link[v], batch).stalled =>
               Sent(link[v], batch).cursor = CursorAfter(batch)
    <3> TAKE v \in Viewer
    <3>1. batch.t = "delta" /\ MessageOK(batch, epoch, base) /\ batch \in Message
      BY <1>2, Types DEF IInv, BatchOK
    <3>2. link[v].open /\ ~link[v].stalled => Points(link[v].cursor, batch.epoch, batch.seq)
      BY <1>2 DEF IInv, ViewerOK, KeepsUp
    <3>3. /\ link[v] \in LinkRecord /\ mirror[v] \in MirrorRecord
          /\ Sound(link[v], mirror[v], epoch, base) /\ epoch \in Nat /\ base \in Nat
      BY Types DEF IInv, ViewerOK
    <3> QED
      BY <3>1, <3>2, <3>3, SentDelta
  <2>3. shown /\ base # NoBase => Points(CursorAfter(batch), epoch, seq + 1)
    BY <1>2 DEF IInv, BatchOK
  <2> QED
    BY <2>1, <2>2, <2>3
<1> QED
  BY <1>1, <1>2

------------------------------------------------------------------------------
(* Each action preserves the invariant. *)

LEMMA InitIInv == Init => IInv
<1> SUFFICES ASSUME Init PROVE IInv
  OBVIOUS
<1>1. TypeOK
  <2>1. asked \in BOOLEAN /\ forgot \in BOOLEAN /\ shown \in BOOLEAN
    BY Zenon DEF Init
  <2> QED
    BY <2>1, MirrorConstants DEF Init, StreamInit, TypeOK, NoBatch, NoReplica, NoCursor, Closed
<1>2. HubOK /\ BatchOK
  BY DEF Init, StreamInit, HubOK, BatchOK
<1>3. ASSUME NEW v \in Viewer PROVE ViewerOK(v)
  <2>1. /\ link[v].open = FALSE /\ link[v].down = <<>>
        /\ mirror[v].replica = NoReplica /\ mirror[v].replica.epoch = 0
        /\ epoch = 0 /\ base = NoBase
    BY <1>3 DEF Init, StreamInit, Closed, NoReplica
  <2>2. LineOK(link[v], mirror[v])
    BY <2>1 DEF LineOK, DeltasFit, SnapshotsFit, SnapshotsRise, CursorFits
  <2> QED
    BY <2>1, <2>2 DEF ViewerOK, Sound, MessagesOK, ReplicaOK, MirrorOK, KeepsUp
<1> QED
  BY <1>1, <1>2, <1>3 DEF IInv

(* The hub opens the next epoch. *)
LEMMA OpenStep == ASSUME IInv, OpenNext, churn' \in Nat PROVE IInv'
<1>1. /\ epoch' = epoch + 1 /\ seq' = seq + 1 /\ base' = seq + 1 /\ baseSeq' = seq + 1
      /\ tail' = <<>> /\ asked' = FALSE /\ forgot' = FALSE /\ UNCHANGED <<shown, up, mirror, wants>>
  BY DEF OpenNext, OpenEpoch, Client
<1>2. /\ link \in [Viewer -> LinkRecord] /\ mirror \in [Viewer -> MirrorRecord]
      /\ epoch \in Nat /\ seq \in Nat /\ base \in Nat /\ NoBase = 0
      /\ batch # NoBatch => batch \in Message
  BY Types DEF IInv
<1>3. HubOK'
  BY <1>1, <1>2 DEF HubOK
<1>4. CASE shown
  <2> DEFINE m == SnapshotMsg(epoch + 1, seq + 1, seq + 1)
             s(v) == Sent(Flushed[v], m)
  <2>1. batch' = NoBatch /\ link' = [v \in Viewer |-> s(v)]
    BY <1>4 DEF OpenNext, PublishNow, Broadcast
  <2>2. ASSUME NEW v \in Viewer
        PROVE  /\ s(v) \in LinkRecord /\ s(v).open = link[v].open
               /\ Sound(s(v), mirror[v], epoch + 1, seq + 1)
               /\ s(v).open => Points(s(v).cursor, epoch + 1, seq + 2)
    <3>1. /\ Flushed[v] \in LinkRecord /\ mirror[v] \in MirrorRecord /\ seq + 1 \in Nat
          /\ Flushed[v].open = link[v].open /\ Sound(Flushed[v], mirror[v], epoch, base)
      BY <1>2, <2>2, FlushedSound
    <3> QED
      BY <1>2, <3>1, SentOpening
  <2> HIDE DEF s
  <2>3. link' \in [Viewer -> LinkRecord] /\ \A v \in Viewer : link'[v] = s(v)
    BY <2>1, <2>2
  <2>4. TypeOK'
    <3>1. asked' \in BOOLEAN /\ forgot' \in BOOLEAN /\ shown' \in BOOLEAN
      BY <1>1, Zenon DEF IInv, TypeOK
    <3> QED
      BY <1>1, <1>2, <2>1, <2>3, <3>1 DEF IInv, TypeOK, LinkRecord, Cursor
  <2>5. ASSUME NEW v \in Viewer PROVE ViewerOK(v)'
    BY <1>1, <1>2, <2>1, <2>2, <2>3, <2>5 DEF ViewerOK, KeepsUp
  <2> QED
    BY <1>3, <2>1, <2>4, <2>5 DEF IInv, BatchOK
<1>5. CASE ~shown
  <2>1. batch' = batch /\ link' = link
    BY <1>5 DEF OpenNext
  <2>2. TypeOK'
    <3>1. asked' \in BOOLEAN /\ forgot' \in BOOLEAN /\ shown' \in BOOLEAN
      BY <1>1, Zenon DEF IInv, TypeOK
    <3> QED
      BY <1>1, <1>2, <2>1, <3>1 DEF IInv, TypeOK
  <2>3. ASSUME NEW v \in Viewer PROVE ViewerOK(v)'
    BY <1>1, <1>2, <1>5, <2>1, <2>3, SoundAges DEF IInv, ViewerOK, KeepsUp
  <2>4. BatchOK'
    BY <1>1, <1>2, <1>5, <2>1, MessageAges DEF IInv, BatchOK
  <2> QED
    BY <1>3, <2>2, <2>3, <2>4 DEF IInv
<1> QED
  BY <1>4, <1>5

LEMMA AnswerStep == ASSUME IInv, Answer PROVE IInv'
  BY OpenStep DEF Answer, IInv, TypeOK

LEMMA CheckoutStep == ASSUME IInv, Checkout PROVE IInv'
  BY OpenStep DEF Checkout, Disturb, IInv, TypeOK

(* A document is closed: nothing of it can be replayed any more. *)
LEMMA NavigateStep == ASSUME IInv, Navigate PROVE IInv'
<1>1. /\ base' = NoBase /\ baseSeq' = 0 /\ tail' = <<>>
      /\ asked' = TRUE /\ forgot' = FALSE /\ churn' = churn + 1
      /\ UNCHANGED <<epoch, seq, shown, batch, link, up, mirror, wants>>
  BY DEF Navigate, CloseDocument, Disturb, Client
<1>2. /\ link \in [Viewer -> LinkRecord] /\ mirror \in [Viewer -> MirrorRecord]
      /\ epoch \in Nat /\ NoBase = 0
  BY Types DEF IInv
<1>3. TypeOK'
  <2>1. asked' \in BOOLEAN /\ forgot' \in BOOLEAN /\ shown' \in BOOLEAN
    BY <1>1, Zenon DEF IInv, TypeOK
  <2> QED
    BY <1>1, <1>2, <2>1 DEF IInv, TypeOK
<1>4. HubOK'
  BY <1>1 DEF HubOK
<1>5. BatchOK'
  BY <1>1, <1>2, MessageAges DEF IInv, BatchOK
<1>6. ASSUME NEW v \in Viewer PROVE ViewerOK(v)'
  BY <1>1, <1>2, <1>6, SoundAges DEF IInv, ViewerOK, KeepsUp
<1> QED
  BY <1>3, <1>4, <1>5, <1>6 DEF IInv

(* A hidden tab: what the hub says is not published, so nothing need keep up with it. *)
(* A request is forgotten: nothing that is on its way, held or shown is touched. *)
LEMMA ForgetStep == ASSUME IInv, Forget PROVE IInv'
<1>1. /\ asked' = FALSE /\ forgot' = TRUE /\ churn' = churn + 1
      /\ UNCHANGED <<epoch, seq, base, baseSeq, tail, shown, batch, link, up, mirror, wants>>
  BY DEF Forget, Disturb, Client, streamVars
<1>2. TypeOK'
  <2>1. asked' \in BOOLEAN /\ forgot' \in BOOLEAN /\ shown' \in BOOLEAN
    BY <1>1, Zenon DEF IInv, TypeOK
  <2> QED
    BY <1>1, <2>1 DEF IInv, TypeOK
<1>3. HubOK' /\ BatchOK'
  BY <1>1 DEF IInv, HubOK, BatchOK
<1>4. ASSUME NEW v \in Viewer PROVE ViewerOK(v)'
  BY <1>1, <1>4 DEF IInv, ViewerOK, KeepsUp
<1> QED
  BY <1>2, <1>3, <1>4 DEF IInv

LEMMA HideStep == ASSUME IInv, Hide PROVE IInv'
<1>1. /\ shown' = FALSE /\ churn' = churn + 1
      /\ UNCHANGED <<epoch, seq, base, baseSeq, tail, asked, forgot, batch, link, up, mirror, wants>>
  BY DEF Hide, Disturb, Client, streamVars
<1>2. TypeOK'
  <2>1. asked' \in BOOLEAN /\ forgot' \in BOOLEAN /\ shown' \in BOOLEAN
    BY <1>1, Zenon DEF IInv, TypeOK
  <2> QED
    BY <1>1, <2>1 DEF IInv, TypeOK
<1>3. HubOK' /\ BatchOK'
  BY <1>1 DEF IInv, HubOK, BatchOK
<1>4. ASSUME NEW v \in Viewer PROVE ViewerOK(v)'
  BY <1>1, <1>4 DEF IInv, ViewerOK, KeepsUp
<1> QED
  BY <1>2, <1>3, <1>4 DEF IInv

(* A batch takes the next event. *)
LEMMA ExtendBatch ==
  ASSUME NEW m \in Message, m.t = "delta", NEW n \in Nat, NEW e \in Nat, NEW b \in Nat,
         MessageOK(m, e, b), n = m.seq + Len(m.data)
  PROVE  LET s == [m EXCEPT !.data = @ \o <<n>>] IN
         /\ s \in Message /\ s.t = "delta" /\ s.epoch = m.epoch /\ s.seq = m.seq
         /\ MessageOK(s, e, b)
         /\ Points(CursorAfter(s), m.epoch, n + 1)
<1> DEFINE D  == [t : {"delta"}, epoch : Nat, seq : Nat, data : Seq(Nat) \ {<<>>}]
           ds == m.data \o <<n>>
           s  == [m EXCEPT !.data = ds]
<1>1. m \in D
  BY DEF Message
<1>2. /\ m.data \in Seq(Nat) /\ ds \in Seq(Nat) \ {<<>>} /\ Len(ds) = Len(m.data) + 1
      /\ ds[Len(m.data) + 1] = n /\ \A i \in 1..Len(m.data) : ds[i] = m.data[i]
      /\ m.seq \in Nat /\ m.epoch \in Nat
  BY <1>1
<1> HIDE DEF ds
<1>3. s \in D /\ s.t = "delta" /\ s.epoch = m.epoch /\ s.seq = m.seq /\ s.data = ds
  BY <1>1, <1>2, Zenon
<1>4. s = [m EXCEPT !.data = @ \o <<n>>]
  BY Zenon DEF ds
<1>5. s \in Message
  BY <1>3 DEF Message
<1> HIDE DEF s, D
<1>6. MessageOK(s, e, b)
  <2>1. m.epoch \in 1..e /\ \A i \in 1..Len(m.data) : m.data[i] = m.seq + i - 1
    BY DEF MessageOK
  <2>2. ASSUME NEW i \in 1..Len(ds) PROVE ds[i] = m.seq + i - 1
    <3>1. Len(m.data) \in Nat
      BY <1>2
    <3>2. CASE i \in 1..Len(m.data)
      BY <1>2, <2>1, <3>2
    <3>3. CASE i = Len(m.data) + 1
      BY <1>2, <3>1, <3>3
    <3>4. Len(ds) = Len(m.data) + 1
      BY <1>2
    <3>5. i \in 1..Len(m.data) \/ i = Len(m.data) + 1
      BY <3>1, <3>4
    <3> QED
      BY <3>2, <3>3, <3>5
  <2>3. s.t = "delta" /\ s.epoch \in 1..e /\ \A i \in 1..Len(s.data) : s.data[i] = s.seq + i - 1
    BY <1>3, <2>1, <2>2
  <2> QED
    BY <2>3 DEF MessageOK
<1>7. Points(CursorAfter(s), m.epoch, n + 1)
  BY <1>2, <1>3 DEF CursorAfter, Points
<1> QED
  BY <1>3, <1>4, <1>5, <1>6, <1>7

(* An event is appended to the open epoch, and to the batch or to a new one. *)
LEMMA MutateStep == ASSUME IInv, Mutate PROVE IInv'
<1> DEFINE m == DeltaMsg(epoch, seq + 1, <<seq + 1>>)
<1>1. /\ base # NoBase /\ seq' = seq + 1 /\ tail' = Append(tail, seq + 1)
      /\ UNCHANGED <<epoch, base, baseSeq, asked, forgot, shown, up, mirror, wants, churn>>
      /\ IF shown THEN PublishDelta(m) ELSE UNCHANGED <<batch, link>>
  BY DEF Mutate, AppendDelta, Client
<1>2. /\ link \in [Viewer -> LinkRecord] /\ mirror \in [Viewer -> MirrorRecord]
      /\ epoch \in Nat /\ seq \in Nat /\ base \in Nat /\ NoBase = 0 /\ tail \in Seq(Nat)
      /\ batch # NoBatch => batch \in Message
  BY Types DEF IInv, TypeOK
<1>3. HubOK'
  <2>1. /\ Len(tail') = Len(tail) + 1 /\ tail'[Len(tail) + 1] = seq + 1
        /\ \A i \in 1..Len(tail) : tail'[i] = tail[i]
    BY <1>1, <1>2
  <2> QED
    BY <1>1, <1>2, <2>1 DEF IInv, HubOK
<1>4. /\ m \in Message /\ m.t = "delta" /\ m.epoch = epoch /\ m.seq = seq + 1
      /\ m.data = <<seq + 1>> /\ MessageOK(m, epoch, base)
      /\ Points(CursorAfter(m), epoch, seq + 2)
  <2>1. /\ m \in Message /\ m.t = "delta" /\ m.epoch = epoch
        /\ m.seq = seq + 1 /\ m.data = <<seq + 1>>
    <3>1. seq + 1 \in Nat /\ <<seq + 1>> \in Seq(Nat) /\ <<seq + 1>> # <<>>
      BY <1>2
    <3> QED
      BY <1>2, <3>1, MessageTypes, Zenon DEF DeltaMsg
  <2>2. epoch > 0
    BY <1>1 DEF IInv, HubOK
  <2> HIDE DEF m
  <2> QED
    BY <1>2, <2>1, <2>2 DEF MessageOK, CursorAfter, Points
<1> HIDE DEF m
<1>5. ASSUME batch' \in Message \cup {NoBatch}, link' \in [Viewer -> LinkRecord]
      PROVE  TypeOK'
  <2>1. asked' \in BOOLEAN /\ forgot' \in BOOLEAN /\ shown' \in BOOLEAN
    BY <1>1, Zenon DEF IInv, TypeOK
  <2>2. tail' \in Seq(Nat)
    BY <1>1, <1>2
  <2>3. /\ epoch' \in Nat /\ seq' \in Nat /\ base' \in Nat /\ baseSeq' \in Nat
        /\ churn' \in Nat
    BY <1>1, <1>2 DEF IInv, TypeOK
  <2>4. /\ up' \in [Viewer -> Nat] /\ wants' \in [Viewer -> BOOLEAN]
        /\ mirror' \in [Viewer -> MirrorRecord]
    BY <1>1, <1>2 DEF IInv, TypeOK
  <2> QED
    BY <1>5, <2>1, <2>2, <2>3, <2>4
    DEF TypeOK, LinkRecord, Cursor, MirrorRecord, Replica
<1>6. CASE shown /\ ContinuesBatch(m)
  <2>1. batch # NoBatch /\ batch.epoch = epoch /\ seq + 1 = batch.seq + Len(batch.data)
    BY <1>4, <1>6 DEF ContinuesBatch
  <2>2. batch' = [batch EXCEPT !.data = @ \o <<seq + 1>>] /\ link' = link
    BY <1>1, <1>4, <1>6 DEF PublishDelta
  <2>3. /\ batch' \in Message /\ batch'.t = "delta" /\ batch'.epoch = batch.epoch
        /\ batch'.seq = batch.seq /\ MessageOK(batch', epoch, base)
        /\ Points(CursorAfter(batch'), epoch, seq + 2)
    <3>1. batch.t = "delta" /\ MessageOK(batch, epoch, base)
      BY <2>1 DEF IInv, BatchOK
    <3>2. seq + 1 \in Nat /\ batch \in Message
      BY <1>2, <2>1
    <3>3. /\ batch' \in Message /\ batch'.t = "delta" /\ batch'.epoch = batch.epoch
          /\ batch'.seq = batch.seq /\ MessageOK(batch', epoch, base)
          /\ Points(CursorAfter(batch'), batch.epoch, (seq + 1) + 1)
      BY <1>2, <2>1, <2>2, <3>1, <3>2, ExtendBatch, Zenon
    <3> QED
      BY <1>2, <2>1, <3>3
  <2>4. batch' # NoBatch
    BY <2>3 DEF NoBatch
  <2>5. BatchOK'
    BY <1>1, <1>2, <2>3 DEF BatchOK
  <2>6. ASSUME NEW v \in Viewer PROVE ViewerOK(v)'
    BY <1>1, <2>1, <2>2, <2>3, <2>4, <2>6 DEF IInv, ViewerOK, KeepsUp
  <2> QED
    BY <1>2, <1>3, <1>5, <2>2, <2>3, <2>5, <2>6 DEF IInv
<1>7. CASE shown /\ ~ContinuesBatch(m)
  <2>1. batch' = m /\ link' = Flushed
    BY <1>1, <1>7 DEF PublishDelta
  <2>2. m # NoBatch
    BY <1>4 DEF NoBatch
  <2>3. BatchOK'
    BY <1>1, <1>2, <1>4, <2>1 DEF BatchOK
  <2>4. ASSUME NEW v \in Viewer PROVE ViewerOK(v)'
    BY <1>1, <1>4, <1>7, <2>1, <2>2, <2>4, FlushedSound DEF ViewerOK, KeepsUp
  <2> QED
    BY <1>3, <1>4, <1>5, <2>1, <2>3, <2>4, FlushedSound DEF IInv
<1>8. CASE ~shown
  <2>1. batch' = batch /\ link' = link
    BY <1>1, <1>8
  <2>2. BatchOK'
    BY <1>1, <1>8, <2>1 DEF IInv, BatchOK
  <2>3. ASSUME NEW v \in Viewer PROVE ViewerOK(v)'
    BY <1>1, <1>8, <2>1, <2>3 DEF IInv, ViewerOK, KeepsUp
  <2> QED
    BY <1>2, <1>3, <1>5, <2>1, <2>2, <2>3 DEF IInv
<1> QED
  BY <1>6, <1>7, <1>8

(* Steps that flush: every connection is sound, and that of a viewer that keeps up is
   where the hub goes on. *)
LEMMA FlushingStep ==
  ASSUME IInv, UNCHANGED <<epoch, seq, base, baseSeq, tail, shown>>, batch' = NoBatch,
         asked' \in BOOLEAN, forgot' \in BOOLEAN, up' \in [Viewer -> Nat], wants' \in [Viewer -> BOOLEAN],
         churn' \in Nat,
         link' \in [Viewer -> LinkRecord], mirror' \in [Viewer -> MirrorRecord],
         \A v \in Viewer :
           /\ Sound(link'[v], mirror'[v], epoch, base)
           /\ link'[v].open /\ ~link'[v].stalled /\ shown /\ base # NoBase =>
                Points(link'[v].cursor, epoch, seq + 1)
  PROVE  IInv'
<1>1. TypeOK'
  <2>1. shown' \in BOOLEAN
    BY Zenon DEF IInv, TypeOK
  <2> QED
    BY <2>1 DEF IInv, TypeOK, LinkRecord, MirrorRecord, Cursor, Replica
<1>2. HubOK' /\ BatchOK'
  BY DEF IInv, HubOK, BatchOK
<1>3. ASSUME NEW v \in Viewer PROVE ViewerOK(v)'
  BY <1>3 DEF ViewerOK, KeepsUp
<1> QED
  BY <1>1, <1>2, <1>3 DEF IInv

LEMMA FlushTimerStep == ASSUME IInv, FlushTimer PROVE IInv'
<1>1. /\ batch' = NoBatch /\ link' = Flushed
      /\ UNCHANGED <<epoch, seq, base, baseSeq, tail, shown, asked, forgot, up, mirror, wants, churn>>
  BY DEF FlushTimer, Client, streamVars
<1>2. /\ asked \in BOOLEAN /\ forgot \in BOOLEAN
      /\ up \in [Viewer -> Nat] /\ wants \in [Viewer -> BOOLEAN] /\ churn \in Nat
  BY DEF IInv, TypeOK
<1> QED
  BY <1>1, <1>2, FlushedSound, Types, FlushingStep DEF IInv

LEMMA ReceiveRequestStep ==
  ASSUME IInv, NEW v \in Viewer, ReceiveRequest(v) PROVE IInv'
<1>1. /\ batch' = NoBatch /\ link' = Flushed /\ asked' = TRUE /\ forgot' = FALSE
      /\ up[v] > 0 /\ up' = [up EXCEPT ![v] = @ - 1]
      /\ UNCHANGED <<epoch, seq, base, baseSeq, tail, shown, mirror, wants, churn>>
  BY DEF ReceiveRequest, streamVars
<1>2. wants' \in [Viewer -> BOOLEAN] /\ churn' \in Nat /\ asked' \in BOOLEAN /\ forgot' \in BOOLEAN
  BY <1>1, Zenon DEF IInv, TypeOK
<1>3. up' \in [Viewer -> Nat]
  BY <1>1 DEF IInv, TypeOK
<1> QED
  BY <1>1, <1>2, <1>3, FlushedSound, Types, FlushingStep DEF IInv

(* The request leaves the client. *)
LEMMA SendRequestStep ==
  ASSUME IInv, NEW v \in Viewer, SendRequest(v) PROVE IInv'
<1>1. /\ up' = [up EXCEPT ![v] = @ + 1] /\ wants' = [wants EXCEPT ![v] = FALSE]
      /\ UNCHANGED <<epoch, seq, base, baseSeq, tail, asked, forgot, shown, batch, link, mirror, churn>>
  BY DEF SendRequest, streamVars
<1>2. TypeOK'
  <2>1. wants' \in [Viewer -> BOOLEAN] /\ asked' \in BOOLEAN /\ forgot' \in BOOLEAN /\ shown' \in BOOLEAN
    BY <1>1, Zenon DEF IInv, TypeOK
  <2>2. up' \in [Viewer -> Nat]
    BY <1>1 DEF IInv, TypeOK
  <2> QED
    BY <1>1, <2>1, <2>2 DEF IInv, TypeOK
<1>3. HubOK' /\ BatchOK'
  BY <1>1 DEF IInv, HubOK, BatchOK
<1>4. ASSUME NEW w \in Viewer PROVE ViewerOK(w)'
  BY <1>1, <1>4 DEF IInv, ViewerOK, KeepsUp
<1> QED
  BY <1>2, <1>3, <1>4 DEF IInv

(* A stalled viewer whose socket has drained. *)
LEMMA DrainedStep ==
  ASSUME IInv, NEW v \in Viewer, Drained(v) PROVE IInv'
<1> DEFINE l == [Flushed[v] EXCEPT !.stalled = FALSE]
           j == SendJoin(l)
<1>1. /\ batch' = NoBatch /\ link[v].open
      /\ UNCHANGED <<epoch, seq, base, baseSeq, tail, shown, asked, forgot, up, mirror, wants, churn>>
  BY DEF Drained, BatchForJoin, Client, streamVars
<1>2. link' = [Flushed EXCEPT ![v] = j]
  BY DEF Drained, LinksForJoin
<1>3. /\ asked \in BOOLEAN /\ forgot \in BOOLEAN
      /\ up \in [Viewer -> Nat] /\ wants \in [Viewer -> BOOLEAN] /\ churn \in Nat
  BY DEF IInv, TypeOK
<1>4. /\ Flushed \in [Viewer -> LinkRecord] /\ Flushed[v] \in LinkRecord
      /\ mirror \in [Viewer -> MirrorRecord] /\ mirror[v] \in MirrorRecord
      /\ epoch \in Nat /\ base \in Nat
      /\ Flushed[v].open = link[v].open /\ Sound(Flushed[v], mirror[v], epoch, base)
  BY FlushedSound, Types DEF IInv
<1>5. l \in LinkRecord /\ l.open = Flushed[v].open /\ Sound(l, mirror[v], epoch, base)
  BY <1>4, StallFlag, Zenon
<1> HIDE DEF l
<1>6. /\ j \in LinkRecord /\ Sound(j, mirror[v], epoch, base)
      /\ base # NoBase => Points(j.cursor, epoch, seq + 1)
  BY <1>1, <1>4, <1>5, JoinSound DEF IInv
<1> HIDE DEF j
<1>7. /\ link' \in [Viewer -> LinkRecord] /\ link'[v] = j
      /\ \A w \in Viewer : w # v => link'[w] = Flushed[w]
  BY <1>2, <1>4, <1>6, Zenon
<1>8. ASSUME NEW w \in Viewer
      PROVE  /\ Sound(link'[w], mirror[w], epoch, base)
             /\ link'[w].open /\ ~link'[w].stalled /\ shown /\ base # NoBase =>
                  Points(link'[w].cursor, epoch, seq + 1)
  BY <1>6, <1>7, <1>8, FlushedSound
<1> QED
  BY <1>1, <1>3, <1>4, <1>7, <1>8, FlushingStep

(* A line with nothing on it. *)
LEMMA EmptyLine ==
  ASSUME NEW l \in LinkRecord, NEW mr \in MirrorRecord, NEW e \in Nat, NEW b \in Nat,
         l.down = <<>>, ReplicaOK(mr.replica, e, b), MirrorOK(l, mr), CursorFits(l, mr)
  PROVE  Sound(l, mr, e, b)
  BY DEF Sound, LineOK, MessagesOK, DeltasFit, SnapshotsRise, SnapshotsFit

(* A socket breaks, and what it held is lost. *)
LEMMA DisconnectStep ==
  ASSUME IInv, NEW v \in Viewer, Disconnect(v) PROVE IInv'
<1> DEFINE k == [mirror[v] EXCEPT !.waiting = FALSE]
<1>1. /\ link' = [link EXCEPT ![v] = Closed] /\ up' = [up EXCEPT ![v] = 0] /\ churn' = churn + 1
      /\ UNCHANGED <<epoch, seq, base, baseSeq, tail, asked, forgot, shown, batch, wants>>
  BY DEF Disconnect, Disturb, streamVars
<1>2. mirror' = [mirror EXCEPT ![v] = k]
  BY Zenon DEF Disconnect
<1>3. /\ link \in [Viewer -> LinkRecord] /\ mirror \in [Viewer -> MirrorRecord]
      /\ epoch \in Nat /\ base \in Nat
  BY Types DEF IInv
<1>4. Closed \in LinkRecord /\ ~Closed.open /\ Closed.down = <<>>
  BY DEF Closed, LinkRecord, NoCursor, Cursor
<1>5. k \in MirrorRecord /\ k.replica = mirror[v].replica /\ k.known = mirror[v].known
  BY <1>3, Zenon DEF MirrorRecord
<1> HIDE DEF k
<1>6. /\ link' \in [Viewer -> LinkRecord] /\ link'[v] = Closed
      /\ mirror' \in [Viewer -> MirrorRecord] /\ mirror'[v] = k
      /\ \A w \in Viewer : w # v => link'[w] = link[w] /\ mirror'[w] = mirror[w]
  BY <1>1, <1>2, <1>3, <1>4, <1>5, Zenon
<1>7. TypeOK'
  <2>1. wants' \in [Viewer -> BOOLEAN] /\ asked' \in BOOLEAN /\ forgot' \in BOOLEAN /\ shown' \in BOOLEAN
    BY <1>1, Zenon DEF IInv, TypeOK
  <2>2. up' \in [Viewer -> Nat] /\ churn' \in Nat
    BY <1>1 DEF IInv, TypeOK
  <2>3. batch' \in Message \cup {NoBatch}
    BY <1>1 DEF IInv, TypeOK
  <2> QED
    BY <1>1, <1>3, <1>6, <2>1, <2>2, <2>3
    DEF IInv, TypeOK, LinkRecord, MirrorRecord, Cursor, Replica
<1>8. HubOK' /\ BatchOK'
  BY <1>1 DEF IInv, HubOK, BatchOK
<1>9. Sound(Closed, k, epoch, base)
  <2>1. ReplicaOK(mirror[v].replica, epoch, base) /\ (mirror[v].replica # NoReplica => mirror[v].known)
    BY DEF IInv, ViewerOK, Sound, MirrorOK
  <2> QED
    BY <1>3, <1>4, <1>5, <2>1, EmptyLine DEF MirrorOK, CursorFits
<1>10. ASSUME NEW w \in Viewer PROVE ViewerOK(w)'
  <2>1. CASE w = v
    BY <1>1, <1>4, <1>6, <1>9, <2>1 DEF ViewerOK, KeepsUp
  <2>2. CASE w # v
    BY <1>1, <1>6, <1>10, <2>2 DEF IInv, ViewerOK, KeepsUp
  <2> QED
    BY <2>1, <2>2
<1> QED
  BY <1>7, <1>8, <1>10 DEF IInv

(* A socket opens: the join payload is the first it carries, and the mirror that has
   shown something before waits for it. *)
LEMMA ConnectStep ==
  ASSUME IInv, NEW v \in Viewer, Connect(v) PROVE IInv'
<1> DEFINE l == [Closed EXCEPT !.open = TRUE]
           j == SendJoin(l)
           k == [mirror[v] EXCEPT !.waiting = mirror[v].known]
<1>1. /\ batch' = NoBatch /\ wants' = [wants EXCEPT ![v] = @ \/ mirror[v].known]
      /\ UNCHANGED <<epoch, seq, base, baseSeq, tail, shown, asked, forgot, up, churn>>
  BY DEF Connect, BatchForJoin, streamVars
<1>2. link' = [Flushed EXCEPT ![v] = j] /\ mirror' = [mirror EXCEPT ![v] = k]
  BY Zenon DEF Connect, LinksForJoin
<1>3. /\ asked \in BOOLEAN /\ forgot \in BOOLEAN
      /\ up \in [Viewer -> Nat] /\ wants' \in [Viewer -> BOOLEAN] /\ churn \in Nat
  BY <1>1, Zenon DEF IInv, TypeOK
<1>4. /\ Flushed \in [Viewer -> LinkRecord] /\ mirror \in [Viewer -> MirrorRecord]
      /\ mirror[v] \in MirrorRecord /\ epoch \in Nat /\ base \in Nat
  BY FlushedSound, Types DEF IInv
<1>5. l \in LinkRecord /\ l.open /\ l.down = <<>> /\ l.cursor = NoCursor
  <2>1. Closed \in LinkRecord /\ Closed.down = <<>> /\ Closed.cursor = NoCursor
    BY DEF Closed, LinkRecord, NoCursor, Cursor
  <2> QED
    BY <2>1, Zenon DEF LinkRecord
<1>6. /\ k \in MirrorRecord /\ k.replica = mirror[v].replica /\ k.known = mirror[v].known
      /\ k.waiting = mirror[v].known
  BY <1>4, Zenon DEF MirrorRecord
<1> HIDE DEF l, k
<1>7. Sound(l, k, epoch, base)
  <2>1. ReplicaOK(mirror[v].replica, epoch, base) /\ (mirror[v].replica # NoReplica => mirror[v].known)
    BY DEF IInv, ViewerOK, Sound, MirrorOK
  <2>2. MirrorOK(l, k)
    BY <1>6, <2>1 DEF MirrorOK
  <2>3. CursorFits(l, k)
    BY <1>5, <1>6, <2>1 DEF CursorFits, Before
  <2> QED
    BY <1>4, <1>5, <1>6, <2>1, <2>2, <2>3, EmptyLine
<1>8. /\ j \in LinkRecord /\ Sound(j, k, epoch, base)
      /\ base # NoBase => Points(j.cursor, epoch, seq + 1)
  BY <1>4, <1>5, <1>6, <1>7, JoinSound DEF IInv
<1> HIDE DEF j
<1>9. /\ link' \in [Viewer -> LinkRecord] /\ link'[v] = j
      /\ mirror' \in [Viewer -> MirrorRecord] /\ mirror'[v] = k
      /\ \A w \in Viewer : w # v => link'[w] = Flushed[w] /\ mirror'[w] = mirror[w]
  BY <1>2, <1>4, <1>6, <1>8, Zenon
<1>10. ASSUME NEW w \in Viewer
       PROVE  /\ Sound(link'[w], mirror'[w], epoch, base)
              /\ link'[w].open /\ ~link'[w].stalled /\ shown /\ base # NoBase =>
                   Points(link'[w].cursor, epoch, seq + 1)
  BY <1>8, <1>9, <1>10, FlushedSound
<1> QED
  BY <1>1, <1>3, <1>4, <1>9, <1>10, FlushingStep

(* A tab is shown again: what a viewer has missed is published, the deltas as a batch. *)
LEMMA ShowStep == ASSUME IInv, Show PROVE IInv'
<1> DEFINE D == DeltaMsg(epoch, baseSeq + 1, tail)
           r(v) == Sent(Flushed[v], ResyncMsg)
           S == SnapshotMsg(epoch, base, base)
           s(v) == Sent(r(v), S)
<1>1. /\ shown' = TRUE
      /\ UNCHANGED <<epoch, seq, base, baseSeq, tail, asked, forgot, up, mirror, wants, churn>>
  BY DEF Show, Client, streamVars
<1>2. /\ link \in [Viewer -> LinkRecord] /\ mirror \in [Viewer -> MirrorRecord]
      /\ epoch \in Nat /\ seq \in Nat /\ base \in Nat /\ baseSeq \in Nat
  BY Types DEF IInv, TypeOK
<1>3. base # NoBase => epoch > 0 /\ baseSeq = base
  BY DEF IInv, HubOK
<1>4. /\ base = NoBase => /\ link' = [v \in Viewer |-> r(v)] /\ batch' = NoBatch
      /\ base # NoBase => /\ link' = [v \in Viewer |-> s(v)]
                          /\ batch' = IF tail = <<>> THEN NoBatch ELSE D
  <2>1. CASE base = NoBase
    BY <2>1 DEF Show, JoinPayload, Broadcast
  <2>2. CASE base # NoBase
    <3>1. /\ JoinPayload[2] = S
          /\ IF tail = <<>> THEN Len(JoinPayload) = 2
                            ELSE Len(JoinPayload) = 3 /\ JoinPayload[3] = D
      BY <1>3, <2>2 DEF JoinPayload
    <3>2. /\ link' = Broadcast(Broadcast(Flushed, ResyncMsg), JoinPayload[2])
          /\ batch' = IF Len(JoinPayload) = 3 THEN JoinPayload[3] ELSE NoBatch
      BY <2>2 DEF Show
    <3>3. link' = [v \in Viewer |-> s(v)]
      BY <3>1, <3>2 DEF Broadcast
    <3> QED
      BY <2>2, <3>1, <3>2, <3>3
  <2> QED
    BY <2>1, <2>2
<1>5. ASSUME NEW v \in Viewer
      PROVE  /\ r(v) \in LinkRecord /\ Sound(r(v), mirror[v], epoch, base)
             /\ r(v).open => r(v).down # <<>> /\ r(v).down[Len(r(v).down)].t = "resync"
  <2>1. Flushed[v] \in LinkRecord /\ mirror[v] \in MirrorRecord /\ Sound(Flushed[v], mirror[v], epoch, base)
    BY <1>2, <1>5, FlushedSound
  <2> QED
    BY <1>2, <2>1, SentResync
<1> HIDE DEF r, D
<1>6. ASSUME NEW v \in Viewer, base # NoBase
      PROVE  /\ s(v) \in LinkRecord /\ Sound(s(v), mirror[v], epoch, base)
             /\ s(v).open => Points(s(v).cursor, epoch, base + 1)
  <2>1. mirror[v] \in MirrorRecord
    BY <1>2, <1>6
  <2> QED
    BY <1>2, <1>3, <1>5, <1>6, <2>1, SentBase
<1> HIDE DEF s
<1>7. link' \in [Viewer -> LinkRecord]
  BY <1>4, <1>5, <1>6
<1>8. base # NoBase /\ tail # <<>> =>
        /\ D \in Message /\ D.t = "delta" /\ MessageOK(D, epoch, base)
        /\ Points(CursorAfter(D), epoch, seq + 1)
        /\ D.epoch = epoch /\ D.seq = base + 1
  BY BufferMessage DEF IInv, D
<1>9. base # NoBase /\ tail = <<>> => seq = base
  BY <1>2 DEF IInv, HubOK
<1>10. TypeOK'
  <2>1. asked' \in BOOLEAN /\ forgot' \in BOOLEAN /\ shown' \in BOOLEAN
    BY <1>1, Zenon DEF IInv, TypeOK
  <2>2. batch' \in Message \cup {NoBatch}
    BY <1>4, <1>8
  <2> QED
    BY <1>1, <1>7, <2>1, <2>2 DEF IInv, TypeOK, LinkRecord, Cursor
<1>11. HubOK'
  BY <1>1 DEF IInv, HubOK
<1>12. BatchOK'
  BY <1>1, <1>4, <1>8 DEF BatchOK
<1>13. ASSUME NEW v \in Viewer PROVE ViewerOK(v)'
  <2>1. CASE base = NoBase
    BY <1>1, <1>4, <1>5, <1>13, <2>1 DEF ViewerOK, KeepsUp
  <2>2. CASE base # NoBase
    <3>1. /\ link'[v] = s(v) /\ Sound(s(v), mirror[v], epoch, base)
          /\ s(v).open => Points(s(v).cursor, epoch, base + 1)
      BY <1>4, <1>6, <1>13, <2>2
    <3>2. tail # <<>> => batch' = D /\ D # NoBatch /\ D.epoch = epoch /\ D.seq = base + 1
      BY <1>4, <1>8, <2>2 DEF NoBatch
    <3>3. tail = <<>> => batch' = NoBatch /\ seq = base
      BY <1>4, <1>9, <2>2
    <3> QED
      BY <1>1, <2>2, <3>1, <3>2, <3>3 DEF ViewerOK, KeepsUp
  <2> QED
    BY <2>1, <2>2
<1> QED
  BY <1>10, <1>11, <1>12, <1>13 DEF IInv

------------------------------------------------------------------------------
(* A message reaches the mirror. *)

(* The rest of a line fits a mirror that waits, or is where the first message ends. *)
LEMMA RestOfLine ==
  ASSUME NEW l \in LinkRecord, NEW mr \in MirrorRecord, NEW k \in MirrorRecord,
         NEW e \in Nat, NEW b \in Nat, l.down # <<>>, Sound(l, mr, e, b),
         ReplicaOK(k.replica, e, b), MirrorOK(l, k),
         k.waiting \/ Before(<<>>, k, 1) = CursorAfter(l.down[1]),
         l.down[1].t = "resync" => k.waiting,
         k.replica.epoch <= IF l.down[1].t = "snapshot" THEN l.down[1].epoch
                                                        ELSE mr.replica.epoch
  PROVE  LET s == [l EXCEPT !.down = Tail(@)] IN
         /\ s \in LinkRecord /\ s.open = l.open /\ s.stalled = l.stalled /\ s.cursor = l.cursor
         /\ Sound(s, k, e, b)
<1> DEFINE d == l.down
           f == Tail(d)
           n == Len(f)
           s == [l EXCEPT !.down = Tail(@)]
<1>1. d \in Seq(Message) /\ f \in Seq(Message)
  BY DEF LinkRecord
<1>2. /\ s \in LinkRecord /\ s.open = l.open /\ s.stalled = l.stalled /\ s.cursor = l.cursor
      /\ s.down = f
  BY <1>1, Zenon DEF LinkRecord
<1>3. /\ n \in Nat /\ Len(d) = n + 1 /\ \A i \in 1..n : f[i] = d[i + 1] /\ i + 1 \in 1..Len(d)
  BY <1>1
<1>4. /\ DeltasFit(d, mr) /\ SnapshotsRise(d, mr) /\ SnapshotsFit(d, mr) /\ CursorFits(l, mr)
      /\ MessagesOK(d, e, b) /\ l.open
  BY DEF Sound, LineOK
<1>5. /\ \A i \in 1..n : f[i] \in Message /\ (f[i].t = "snapshot" => f[i].epoch \in Nat)
      /\ d[1] \in Message /\ (d[1].t = "snapshot" => d[1].epoch \in Nat)
      /\ k.replica.epoch \in Nat /\ mr.replica.epoch \in Nat
  BY <1>1, <1>3, MessageKinds DEF MirrorRecord, Replica
<1>6. k.waiting \/ Before(f, k, 1) = CursorAfter(d[1])
  BY DEF Before
<1> HIDE DEF s, f, d
<1>7. MessagesOK(f, e, b)
  BY <1>3, <1>4 DEF MessagesOK
<1>8. DeltasFit(f, k)
  <2> SUFFICES ASSUME NEW i \in 1..n, f[i].t = "delta", ~(i = 1 /\ k.waiting)
               PROVE  Points(Before(f, k, i), f[i].epoch, f[i].seq)
    BY DEF DeltasFit
  <2>1. Points(Before(d, mr, i + 1), f[i].epoch, f[i].seq)
    BY <1>3, <1>4 DEF DeltasFit
  <2>2. CASE i = 1
    BY <1>6, <2>1, <2>2 DEF Before
  <2>3. CASE i > 1
    <3>1. i - 1 \in 1..n /\ d[(i + 1) - 1] = f[i - 1]
      BY <1>3, <2>3
    <3> QED
      BY <2>1, <2>3, <3>1 DEF Before
  <2> QED
    BY <2>2, <2>3
<1>9. SnapshotsRise(f, k)
  <2> SUFFICES ASSUME NEW i \in 1..n, f[i].t = "snapshot"
               PROVE  /\ f[i].epoch >= k.replica.epoch
                      /\ \A j \in 1..(i - 1) : f[j].t = "snapshot" => f[i].epoch >= f[j].epoch
    BY DEF SnapshotsRise
  <2>1. /\ f[i].epoch >= mr.replica.epoch
        /\ \A j \in 1..i : d[j].t = "snapshot" => f[i].epoch >= d[j].epoch
    BY <1>3, <1>4 DEF SnapshotsRise
  <2>2. f[i].epoch >= k.replica.epoch
    <3>1. CASE d[1].t = "snapshot"
      <4>1. k.replica.epoch <= d[1].epoch
        BY <3>1 DEF d
      <4>2. f[i].epoch >= d[1].epoch
        BY <1>3, <2>1, <3>1
      <4> QED
        BY <1>5, <3>1, <4>1, <4>2
    <3>2. CASE d[1].t # "snapshot"
      <4>1. k.replica.epoch <= mr.replica.epoch
        BY <3>2 DEF d
      <4> QED
        BY <1>5, <2>1, <4>1
    <3> QED
      BY <3>1, <3>2
  <2>3. ASSUME NEW j \in 1..(i - 1), f[j].t = "snapshot" PROVE f[i].epoch >= f[j].epoch
    <3>1. j \in 1..n /\ j + 1 \in 1..i
      BY <1>3
    <3>2. f[j] = d[j + 1]
      BY <1>3, <3>1
    <3> QED
      BY <2>1, <2>3, <3>1, <3>2
  <2> QED
    BY <2>2, <2>3
<1>10. SnapshotsFit(f, k)
  <2> SUFFICES ASSUME NEW i \in 1..n, f[i].t = "snapshot",
                      ~(i = 1 /\ k.waiting), ~(i > 1 /\ f[i - 1].t = "resync")
               PROVE  /\ f[i].epoch > k.replica.epoch
                      /\ \A j \in 1..(i - 1) : f[j].t = "snapshot" => f[i].epoch > f[j].epoch
    BY DEF SnapshotsFit
  <2>1. d[i].t # "resync"
    <3>1. CASE i = 1
      BY <3>1 DEF d
    <3>2. CASE i > 1
      BY <1>3, <3>2
    <3> QED
      BY <3>1, <3>2
  <2>2. /\ f[i].epoch > mr.replica.epoch
        /\ \A j \in 1..i : d[j].t = "snapshot" => f[i].epoch > d[j].epoch
    BY <1>3, <1>4, <2>1 DEF SnapshotsFit
  <2>3. f[i].epoch > k.replica.epoch
    <3>1. 1 \in 1..i /\ f[i].epoch \in Nat
      BY <1>5
    <3>2. CASE d[1].t = "snapshot"
      <4>1. f[i].epoch > d[1].epoch /\ k.replica.epoch <= d[1].epoch
        BY <2>2, <3>1, <3>2 DEF d
      <4> QED
        BY <1>5, <3>1, <3>2, <4>1
    <3>3. CASE d[1].t # "snapshot"
      BY <1>5, <2>2, <3>1, <3>3 DEF d
    <3> QED
      BY <3>2, <3>3
  <2>4. ASSUME NEW j \in 1..(i - 1), f[j].t = "snapshot" PROVE f[i].epoch > f[j].epoch
    <3>1. j \in 1..n /\ j + 1 \in 1..i
      BY <1>3
    <3>2. f[j] = d[j + 1]
      BY <1>3, <3>1
    <3> QED
      BY <2>2, <2>4, <3>1, <3>2
  <2> QED
    BY <2>3, <2>4
<1>11. CursorFits(s, k)
  <2>1. l.cursor = CursorAfter(d[n + 1])
    <3>1. l.cursor = Before(d, mr, (n + 1) + 1)
      BY <1>3, <1>4 DEF CursorFits, d
    <3> QED
      BY <1>3, <3>1 DEF Before
  <2>2. CASE n = 0
    BY <1>1, <1>2, <1>3, <1>6, <2>1, <2>2 DEF CursorFits
  <2>3. CASE n > 0
    BY <1>2, <1>3, <2>1, <2>3 DEF CursorFits, Before
  <2> QED
    BY <1>3, <2>2, <2>3
<1>12. Sound(s, k, e, b)
  BY <1>2, <1>4, <1>7, <1>8, <1>9, <1>10, <1>11 DEF Sound, LineOK, MirrorOK
<1> QED
  BY <1>2, <1>12 DEF s

(* What is left to show of a delivery, once it is known what the mirror becomes. *)
LEMMA DeliveredStep ==
  ASSUME IInv, NEW v \in Viewer, NEW k \in MirrorRecord, link[v].down # <<>>,
         UNCHANGED <<epoch, seq, base, baseSeq, tail, asked, forgot, shown, batch, up>>,
         link' = [link EXCEPT ![v].down = Tail(@)], mirror' = [mirror EXCEPT ![v] = k],
         wants' \in [Viewer -> BOOLEAN], churn' \in Nat,
         ReplicaOK(k.replica, epoch, base), MirrorOK(link[v], k),
         k.waiting \/ Before(<<>>, k, 1) = CursorAfter(link[v].down[1]),
         link[v].down[1].t = "resync" => k.waiting,
         k.replica.epoch <= IF link[v].down[1].t = "snapshot" THEN link[v].down[1].epoch
                                                              ELSE mirror[v].replica.epoch
  PROVE  IInv'
<1> DEFINE s == [link[v] EXCEPT !.down = Tail(@)]
<1>1. /\ link \in [Viewer -> LinkRecord] /\ mirror \in [Viewer -> MirrorRecord]
      /\ link[v] \in LinkRecord /\ mirror[v] \in MirrorRecord
      /\ epoch \in Nat /\ base \in Nat /\ Sound(link[v], mirror[v], epoch, base)
  BY Types DEF IInv, ViewerOK
<1>2. /\ s \in LinkRecord /\ s.open = link[v].open /\ s.stalled = link[v].stalled
      /\ s.cursor = link[v].cursor /\ Sound(s, k, epoch, base)
  BY <1>1, RestOfLine
<1>3. link' = [link EXCEPT ![v] = s]
  BY Zenon
<1> HIDE DEF s
<1>4. /\ link' \in [Viewer -> LinkRecord] /\ link'[v] = s
      /\ mirror' \in [Viewer -> MirrorRecord] /\ mirror'[v] = k
      /\ \A w \in Viewer : w # v => link'[w] = link[w] /\ mirror'[w] = mirror[w]
  BY <1>1, <1>2, <1>3, Zenon
<1>5. TypeOK'
  <2>1. asked' \in BOOLEAN /\ forgot' \in BOOLEAN /\ shown' \in BOOLEAN
    BY Zenon DEF IInv, TypeOK
  <2> QED
    BY <1>4, <2>1 DEF IInv, TypeOK, LinkRecord, MirrorRecord, Cursor, Replica
<1>6. HubOK' /\ BatchOK'
  BY DEF IInv, HubOK, BatchOK
<1>7. ASSUME NEW w \in Viewer PROVE ViewerOK(w)'
  <2>1. CASE w = v
    <3>1. KeepsUp(link[v])
      BY DEF IInv, ViewerOK
    <3> QED
      BY <1>2, <1>4, <2>1, <3>1 DEF ViewerOK, KeepsUp
  <2>2. CASE w # v
    BY <1>4, <1>7, <2>2 DEF IInv, ViewerOK, KeepsUp
  <2> QED
    BY <2>1, <2>2
<1> QED
  BY <1>5, <1>6, <1>7 DEF IInv

(* What the invariant says of the message that is delivered. *)
LEMMA FirstMessage ==
  ASSUME IInv, NEW v \in Viewer, link[v].down # <<>>
  PROVE  LET m == Head(link[v].down) mr == mirror[v] IN
         /\ m = link[v].down[1] /\ m \in Message /\ MessageOK(m, epoch, base)
         /\ link[v].open /\ mr \in MirrorRecord
         /\ ReplicaOK(mr.replica, epoch, base) /\ MirrorOK(link[v], mr)
         /\ m.t = "delta" => mr.waiting \/ Continues(mr, m)
         /\ m.t = "snapshot" => Accepts(mr, m) /\ m.epoch >= mr.replica.epoch
<1> DEFINE d == link[v].down
           m == d[1]
           mr == mirror[v]
<1>1. /\ d \in Seq(Message) /\ mr \in MirrorRecord /\ Sound(link[v], mr, epoch, base)
      /\ epoch \in Nat /\ base \in Nat
  BY Types DEF IInv, ViewerOK, LinkRecord
<1>2. Head(d) = m /\ m \in Message /\ 1 \in 1..Len(d)
  BY <1>1
<1>3. /\ MessageOK(m, epoch, base) /\ link[v].open /\ ReplicaOK(mr.replica, epoch, base)
      /\ MirrorOK(link[v], mr) /\ DeltasFit(d, mr) /\ SnapshotsRise(d, mr) /\ SnapshotsFit(d, mr)
  BY <1>1, <1>2 DEF Sound, LineOK, MessagesOK
<1>4. m.t = "delta" => mr.waiting \/ Continues(mr, m)
  <2> SUFFICES ASSUME m.t = "delta", ~mr.waiting PROVE Continues(mr, m)
    OBVIOUS
  <2>1. m.epoch > 0
    BY <1>1, <1>2, <1>3, MessageKinds DEF MessageOK
  <2>2. Points(Before(d, mr, 1), m.epoch, m.seq)
    BY <1>2, <1>3 DEF DeltasFit
  <2>3. mr.replica # NoReplica
    BY <2>1, <2>2 DEF Before, Points, NoCursor
  <2> QED
    BY <2>2, <2>3 DEF Before, Points, Continues
<1>5. m.t = "snapshot" => Accepts(mr, m) /\ m.epoch >= mr.replica.epoch
  BY <1>2, <1>3 DEF SnapshotsRise, SnapshotsFit, Accepts
<1> QED
  BY <1>1, <1>2, <1>3, <1>4, <1>5

LEMMA ConcatNumbered ==
  ASSUME NEW f \in Seq(Nat), NEW g \in Seq(Nat), NEW n \in Nat,
         \A i \in 1..Len(f) : f[i] = n + i, \A i \in 1..Len(g) : g[i] = n + Len(f) + i
  PROVE  /\ f \o g \in Seq(Nat) /\ Len(f \o g) = Len(f) + Len(g)
         /\ \A i \in 1..Len(f \o g) : (f \o g)[i] = n + i
<1>1. f \o g \in Seq(Nat) /\ Len(f \o g) = Len(f) + Len(g)
  OBVIOUS
<1>2. ASSUME NEW i \in 1..Len(f \o g) PROVE (f \o g)[i] = n + i
  <2>1. CASE i <= Len(f)
    BY <2>1
  <2>2. CASE i > Len(f)
    <3>1. i - Len(f) \in 1..Len(g) /\ (f \o g)[i] = g[i - Len(f)]
      BY <2>2
    <3> QED
      BY <3>1
  <2> QED
    BY <2>1, <2>2
<1> QED
  BY <1>1, <1>2

(* A replica that is extended with the next events stays contiguous. *)
LEMMA ReplayedContiguous ==
  ASSUME NEW mr \in MirrorRecord, NEW m \in Message, NEW e \in Nat, NEW b \in Nat,
         m.t = "delta", MessageOK(m, e, b), Contiguous(mr.replica), Continues(mr, m)
  PROVE  LET k == Replayed(mr, m) IN
         /\ k \in MirrorRecord /\ k.known = mr.known
         /\ k.replica.epoch = mr.replica.epoch /\ k.replica.base = mr.replica.base
         /\ k.replica.lastSeq = m.seq + Len(m.data) - 1
         /\ Contiguous(k.replica)
<1> DEFINE r == mr.replica
           x == r.tail \o m.data
           y == m.seq + Len(m.data) - 1
           q == [[r EXCEPT !.tail = x] EXCEPT !.lastSeq = y]
           k == [mr EXCEPT !.replica = q]
<1>1. /\ r \in Replica /\ r.lastSeq \in Nat /\ r.base \in Nat /\ r.tail \in Seq(Nat)
      /\ m.seq \in Nat /\ m.data \in Seq(Nat) /\ Len(m.data) > 0
      /\ m.seq = r.lastSeq + 1 /\ r.lastSeq = r.base + Len(r.tail)
      /\ \A i \in 1..Len(r.tail) : r.tail[i] = r.base + i
  BY MessageKinds DEF MirrorRecord, Replica, Contiguous, Continues
<1>2. \A i \in 1..Len(m.data) : m.data[i] = m.seq + i - 1
  BY DEF MessageOK
<1>3. /\ x \in Seq(Nat) /\ Len(x) = Len(r.tail) + Len(m.data)
      /\ \A i \in 1..Len(x) : x[i] = r.base + i
  <2> DEFINE t == r.tail
             u == m.data
             o == r.base
  <2>1. /\ t \in Seq(Nat) /\ u \in Seq(Nat) /\ o \in Nat /\ x = t \o u
        /\ \A i \in 1..Len(t) : t[i] = o + i
    BY <1>1
  <2>2. \A i \in 1..Len(u) : u[i] = o + Len(t) + i
    BY <1>1, <1>2
  <2> HIDE DEF t, u, o
  <2>3. /\ t \o u \in Seq(Nat) /\ Len(t \o u) = Len(t) + Len(u)
        /\ \A i \in 1..Len(t \o u) : (t \o u)[i] = o + i
    BY <2>1, <2>2, ConcatNumbered
  <2> QED
    BY <2>1, <2>3 DEF t, u, o
<1>4. y \in Nat /\ y = r.base + Len(x)
  <2> DEFINE n == Len(m.data)
             t == Len(r.tail)
             o == r.base
  <2>1. n \in Nat /\ t \in Nat /\ o \in Nat /\ m.seq = o + t + 1 /\ y = m.seq + n - 1
    BY <1>1
  <2>2. Len(x) = t + n
    BY <1>3, Zenon
  <2> HIDE DEF x, y, n, t, o
  <2>3. y \in Nat /\ y = o + Len(x)
    BY <2>1, <2>2
  <2> QED
    BY <2>3 DEF o
<1> HIDE DEF x, y
<1>5. /\ q \in Replica /\ q.epoch = r.epoch /\ q.base = r.base /\ q.lastSeq = y /\ q.tail = x
  BY <1>1, <1>3, <1>4, Zenon DEF Replica
<1>6. Replayed(mr, m) = k
  BY Zenon DEF Replayed, x, y
<1> HIDE DEF q
<1>7. k \in MirrorRecord /\ k.replica = q /\ k.known = mr.known
  BY <1>5, Zenon DEF MirrorRecord
<1> HIDE DEF k
<1>8. Contiguous(q)
  BY <1>3, <1>4, <1>5 DEF Contiguous
<1> QED
  BY <1>5, <1>6, <1>7, <1>8 DEF y

LEMMA DeliverStep ==
  ASSUME IInv, NEW v \in Viewer, Deliver(v) PROVE IInv'
<1> DEFINE m  == Head(link[v].down)
           mr == mirror[v]
<1>1. /\ link[v].down # <<>> /\ link' = [link EXCEPT ![v].down = Tail(@)]
      /\ UNCHANGED <<epoch, seq, base, baseSeq, tail, asked, forgot, shown, batch, up>>
  BY DEF Deliver, streamVars
<1>2. /\ m = link[v].down[1] /\ m \in Message /\ MessageOK(m, epoch, base)
      /\ link[v].open /\ mr \in MirrorRecord
      /\ ReplicaOK(mr.replica, epoch, base) /\ MirrorOK(link[v], mr)
      /\ m.t = "delta" => mr.waiting \/ Continues(mr, m)
      /\ m.t = "snapshot" => Accepts(mr, m) /\ m.epoch >= mr.replica.epoch
  BY <1>1, FirstMessage
<1>3. /\ epoch \in Nat /\ base \in Nat /\ NoBase = 0
      /\ mirror \in [Viewer -> MirrorRecord] /\ mr.replica.epoch \in Nat
  BY <1>2, Types DEF IInv, MirrorRecord, Replica
<1>4. /\ m.t = "snapshot" => m.epoch \in Nat /\ m.seq \in Nat /\ m.data \in Nat
      /\ m.t = "delta" => m.epoch \in Nat /\ m.seq \in Nat /\ m.data \in Seq(Nat)
  BY <1>2, MessageKinds
<1>5. \/ m.t = "snapshot" /\ HandleSnapshot(v, m)
      \/ m.t = "delta" /\ HandleDelta(v, m)
      \/ m.t = "resync" /\ HandleResync(v)
  BY DEF Deliver
<1>6. wants' \in [Viewer -> BOOLEAN]
  <2>1. wants \in [Viewer -> BOOLEAN] /\ \E x \in BOOLEAN : wants' \in {wants, [wants EXCEPT ![v] = x]}
    BY <1>5, Zenon DEF HandleSnapshot, HandleDelta, HandleResync, Request, IInv, TypeOK
  <2> QED
    BY <2>1, Zenon
<1>7. churn' \in Nat
  <2>1. churn \in Nat /\ churn' \in {churn, churn + 1}
    BY <1>5, Zenon DEF HandleSnapshot, HandleDelta, HandleResync, Disturb, IInv, TypeOK
  <2> QED
    BY <2>1
<1> HIDE DEF m
<1>8. ASSUME NEW k \in MirrorRecord, mirror' = [mirror EXCEPT ![v] = k],
             ReplicaOK(k.replica, epoch, base), MirrorOK(link[v], k),
             k.waiting \/ Before(<<>>, k, 1) = CursorAfter(m), m.t = "resync" => k.waiting,
             k.replica.epoch <= IF m.t = "snapshot" THEN m.epoch ELSE mr.replica.epoch
      PROVE  IInv'
  BY <1>1, <1>2, <1>6, <1>7, <1>8, DeliveredStep
<1>9. mirror = [mirror EXCEPT ![v] = mr]
  BY <1>3, Zenon
<1>10. CASE m.t = "snapshot" /\ mirror' = [mirror EXCEPT ![v] = Rebuilt(m)]
  <2> DEFINE k == Rebuilt(m)
  <2>1. /\ k.replica.epoch = m.epoch /\ k.replica.lastSeq = m.seq /\ k.replica.base = m.data
        /\ k.replica.tail = <<>> /\ k.waiting = FALSE /\ k.known = TRUE
        /\ k \in MirrorRecord
    BY <1>4, <1>10 DEF Rebuilt, MirrorRecord, Replica
  <2>2. m.epoch \in 1..epoch /\ m.data = m.seq /\ (m.epoch = epoch /\ base # NoBase => m.data = base)
    BY <1>2, <1>10 DEF MessageOK
  <2> HIDE DEF k
  <2>3. ReplicaOK(k.replica, epoch, base) /\ MirrorOK(link[v], k)
    BY <1>3, <1>4, <1>10, <2>1, <2>2 DEF ReplicaOK, MirrorOK, Contiguous
  <2>4. k.replica # NoReplica
    BY <2>1, <2>2 DEF NoReplica
  <2>5. Before(<<>>, k, 1) = CursorAfter(m)
    BY <1>10, <2>1, <2>4 DEF Before, CursorAfter
  <2>6. k.replica.epoch <= m.epoch /\ m.t # "resync"
    BY <1>4, <1>10, <2>1
  <2>7. mirror' = [mirror EXCEPT ![v] = k]
    BY <1>10 DEF k
  <2> QED
    BY <1>8, <1>10, <2>1, <2>3, <2>5, <2>6, <2>7
<1>11. CASE /\ m.t = "snapshot"
            /\ mirror' = [mirror EXCEPT ![v] =
                            [replica |-> NoReplica, waiting |-> TRUE, known |-> TRUE]]
  <2> DEFINE k == [replica |-> NoReplica, waiting |-> TRUE, known |-> TRUE]
  <2>1. /\ k.replica = NoReplica /\ k.waiting = TRUE /\ k.known = TRUE
        /\ k.replica.epoch = 0 /\ k \in MirrorRecord
    BY <1>3 DEF NoReplica, MirrorRecord, Replica
  <2> HIDE DEF k
  <2>2. epoch > 0 /\ m.epoch > 0
    BY <1>2, <1>3, <1>11 DEF MessageOK
  <2>3. ReplicaOK(k.replica, epoch, base) /\ MirrorOK(link[v], k)
    BY <1>3, <2>1, <2>2 DEF ReplicaOK, MirrorOK
  <2>4. mirror' = [mirror EXCEPT ![v] = k]
    BY <1>11 DEF k
  <2>5. k.replica.epoch <= m.epoch
    BY <1>4, <1>11, <2>1
  <2> QED
    BY <1>8, <1>11, <2>1, <2>3, <2>4, <2>5
<1>12. CASE m.t # "snapshot" /\ mirror' = [mirror EXCEPT ![v] = Awaiting(mr)]
  <2> DEFINE k == Awaiting(mr)
  <2>1. k \in MirrorRecord /\ k.replica = mr.replica /\ k.waiting = TRUE /\ k.known = TRUE
    BY <1>2, Zenon DEF Awaiting, MirrorRecord
  <2> HIDE DEF k
  <2>2. ReplicaOK(k.replica, epoch, base) /\ MirrorOK(link[v], k)
    BY <1>2, <2>1 DEF MirrorOK
  <2>3. mirror' = [mirror EXCEPT ![v] = k]
    BY <1>12 DEF k
  <2>4. k.replica.epoch <= mr.replica.epoch /\ m.t # "snapshot"
    BY <1>3, <1>12, <2>1
  <2> HIDE DEF mr
  <2> QED
    BY <1>8, <1>12, <2>1, <2>2, <2>3, <2>4
<1>13. CASE m.t = "delta" /\ mr.waiting /\ mirror' = mirror
  BY <1>2, <1>3, <1>8, <1>9, <1>13
<1>14. CASE /\ m.t = "delta" /\ ~mr.waiting /\ Continues(mr, m)
            /\ mirror' = [mirror EXCEPT ![v] = Replayed(mr, m)]
  <2> DEFINE k == Replayed(mr, m)
  <2>1. Contiguous(mr.replica) /\ mr.known
    BY <1>2, <1>14 DEF MirrorOK, Continues
  <2>2. /\ k \in MirrorRecord /\ k.known = mr.known
        /\ k.replica.epoch = mr.replica.epoch /\ k.replica.base = mr.replica.base
        /\ k.replica.lastSeq = m.seq + Len(m.data) - 1
        /\ Contiguous(k.replica)
    BY <1>2, <1>3, <1>14, <2>1, ReplayedContiguous
  <2> HIDE DEF k
  <2>3. m.epoch > 0 /\ m.epoch = mr.replica.epoch
    BY <1>2, <1>3, <1>14 DEF MessageOK, Continues
  <2>4. k.replica # NoReplica
    BY <2>2, <2>3 DEF NoReplica
  <2>5. Before(<<>>, k, 1) = CursorAfter(m)
    BY <1>4, <1>14, <2>2, <2>3, <2>4 DEF Before, CursorAfter
  <2>6. ReplicaOK(k.replica, epoch, base) /\ MirrorOK(link[v], k)
    BY <1>2, <2>1, <2>2 DEF ReplicaOK, MirrorOK
  <2>7. mirror' = [mirror EXCEPT ![v] = k]
    BY <1>14 DEF k
  <2>8. k.replica.epoch <= mr.replica.epoch /\ m.t # "snapshot" /\ m.t # "resync"
    BY <1>3, <1>14, <2>2
  <2> HIDE DEF mr
  <2> QED
    BY <1>8, <1>14, <2>2, <2>5, <2>6, <2>7, <2>8
<1>15. CASE /\ m.t = "delta" /\ ~mr.waiting /\ Continues(mr, m)
            /\ \E n \in 1..Len(m.data) : mirror' = [mirror EXCEPT ![v] = ReplayBroken(mr, m, n)]
  <2>1. PICK n \in 1..Len(m.data) : mirror' = [mirror EXCEPT ![v] = ReplayBroken(mr, m, n)]
    BY <1>15
  <2> DEFINE k == ReplayBroken(mr, m, n)
  <2>2. /\ k \in MirrorRecord /\ k.waiting = TRUE /\ k.known = mr.known
        /\ k.replica.epoch = mr.replica.epoch /\ k.replica.base = mr.replica.base
    <3> DEFINE x == mr.replica.tail \o SubSeq(m.data, 1, n - 1)
               q == [mr.replica EXCEPT !.tail = x]
    <3>1. x \in Seq(Nat)
      <4>1. mr.replica.tail \in Seq(Nat) /\ m.data \in Seq(Nat)
        BY <1>2, <1>4, <1>15 DEF MirrorRecord, Replica
      <4> DEFINE y == SubSeq(m.data, 1, n - 1)
      <4>2. y \in Seq(Nat)
        <5>1. n - 1 \in 0..Len(m.data)
          BY <4>1
        <5> QED
          BY <4>1, <5>1
      <4> HIDE DEF y
      <4>3. mr.replica.tail \o y \in Seq(Nat)
        BY <4>1, <4>2
      <4> QED
        BY <4>3 DEF y
    <3> HIDE DEF x
    <3>2. q \in Replica /\ q.epoch = mr.replica.epoch /\ q.base = mr.replica.base
      BY <1>2, <3>1, Zenon DEF MirrorRecord, Replica
    <3>3. k = [mr EXCEPT !.replica = q, !.waiting = TRUE]
      BY Zenon DEF ReplayBroken, x
    <3> HIDE DEF q
    <3> QED
      BY <1>2, <3>2, <3>3, Zenon DEF MirrorRecord
  <2> HIDE DEF k
  <2>3. mr.known
    BY <1>2, <1>15 DEF MirrorOK, Continues
  <2>4. ReplicaOK(k.replica, epoch, base) /\ MirrorOK(link[v], k)
    BY <1>2, <2>2, <2>3 DEF ReplicaOK, MirrorOK
  <2>5. mirror' = [mirror EXCEPT ![v] = k]
    BY <2>1 DEF k
  <2>6. k.replica.epoch <= mr.replica.epoch /\ m.t # "snapshot" /\ m.t # "resync"
    BY <1>3, <1>15, <2>2
  <2> HIDE DEF mr
  <2> QED
    BY <1>8, <1>15, <2>2, <2>4, <2>5, <2>6
<1>16. m.t = "snapshot" /\ HandleSnapshot(v, m) => IInv'
  BY <1>2, <1>10, <1>11, Zenon DEF HandleSnapshot
<1>17. m.t = "delta" /\ HandleDelta(v, m) => IInv'
  BY <1>2, <1>12, <1>13, <1>14, <1>15, Zenon DEF HandleDelta
<1>18. m.t = "resync" /\ HandleResync(v) => IInv'
  BY <1>12, Zenon DEF HandleResync
<1> QED
  BY <1>5, <1>16, <1>17, <1>18 DEF m

------------------------------------------------------------------------------
LEMMA StutterStep == ASSUME IInv, UNCHANGED vars PROVE IInv'
<1>1. UNCHANGED <<epoch, seq, base, baseSeq, tail, asked, forgot, shown, batch, link, up, mirror,
                  wants, churn>>
  BY DEF vars, streamVars
<1>2. TypeOK' /\ HubOK' /\ BatchOK'
  BY <1>1, Zenon DEF IInv, TypeOK, HubOK, BatchOK
<1>3. ASSUME NEW v \in Viewer PROVE ViewerOK(v)'
  BY <1>1, <1>3 DEF IInv, ViewerOK, KeepsUp
<1> QED
  BY <1>2, <1>3 DEF IInv

LEMMA NextIInv == IInv /\ [Next]_vars => IInv'
<1> SUFFICES ASSUME IInv, [Next]_vars PROVE IInv'
  OBVIOUS
<1>1. CASE Answer \/ Checkout \/ Forget \/ Mutate \/ Navigate \/ Hide \/ Show \/ FlushTimer
  BY <1>1, AnswerStep, CheckoutStep, ForgetStep, MutateStep, NavigateStep, HideStep, ShowStep, FlushTimerStep
<1>2. CASE \E v \in Viewer : Connect(v) \/ Disconnect(v) \/ Drained(v)
  BY <1>2, ConnectStep, DisconnectStep, DrainedStep
<1>3. CASE \E v \in Viewer : Deliver(v) \/ SendRequest(v) \/ ReceiveRequest(v)
  BY <1>3, DeliverStep, SendRequestStep, ReceiveRequestStep
<1>4. CASE UNCHANGED vars
  BY <1>4, StutterStep
<1> QED
  BY <1>1, <1>2, <1>3, <1>4 DEF Next

LEMMA Invariance == Spec => []IInv
<1>1. Init => IInv
  BY InitIInv
<1>2. IInv /\ [Next]_vars => IInv'
  BY NextIInv
<1> QED
  BY <1>1, <1>2, PTL DEF Spec

------------------------------------------------------------------------------
(* What a connected viewer replays is one snapshot and the events that follow it,
   without a hole or a duplicate, however its connection stalls, breaks and joins again
   (viewerconn.ts, mirror.ts). *)
THEOREM ReplicaContiguousHolds == Spec => []ReplicaContiguous
<1>1. IInv => ReplicaContiguous
  <2> SUFFICES ASSUME IInv, NEW v \in Viewer, link[v].open, ~mirror[v].waiting,
                      mirror[v].replica # NoReplica
               PROVE  Contiguous(mirror[v].replica)
    BY DEF ReplicaContiguous, Contiguous, IInv
  <2> QED
    BY DEF IInv, ViewerOK, Sound, MirrorOK
<1> QED
  BY <1>1, Invariance, PTL

(* The delta that reaches a mirror that does not wait is the next of its epoch: what the
   gateway drops, it drops so that no viewer that keeps up has to ask (viewerconn.ts). *)
THEOREM NoGapReachesMirrorHolds == Spec => []NoGapReachesMirror
<1>1. IInv => NoGapReachesMirror
  BY FirstMessage DEF NoGapReachesMirror
<1> QED
  BY <1>1, Invariance, PTL

(* A viewer to which nothing is on its way, and that does not wait, shows the canonical
   state of the hub: no loss goes unnoticed (server.ts, viewerconn.ts). *)
THEOREM QuietMeansInStepHolds == Spec => []QuietMeansInStep
<1>1. IInv => QuietMeansInStep
  <2> SUFFICES ASSUME IInv, NEW v \in Viewer,
                      link[v].open, ~link[v].stalled, link[v].down = <<>>,
                      ~mirror[v].waiting, batch = NoBatch, shown, base # NoBase
               PROVE  InStep(v)
    BY DEF QuietMeansInStep
  <2> DEFINE r == mirror[v].replica
  <2>1. /\ r \in Replica /\ epoch \in Nat /\ seq \in Nat /\ base \in Nat /\ tail \in Seq(Nat)
        /\ epoch > 0 /\ seq = base + Len(tail) /\ \A i \in 1..Len(tail) : tail[i] = base + i
    BY Types DEF IInv, TypeOK, HubOK, Replica
  <2>2. link[v].cursor = Before(<<>>, mirror[v], 1) /\ Points(link[v].cursor, epoch, seq + 1)
    BY DEF IInv, ViewerOK, Sound, LineOK, CursorFits, KeepsUp
  <2>3. r # NoReplica
    BY <2>1, <2>2 DEF Before, Points, NoCursor
  <2>4. r.epoch = epoch /\ r.lastSeq + 1 = seq + 1
    BY <2>2, <2>3 DEF Before, Points
  <2>5. Contiguous(r) /\ r.base = base
    BY <2>3, <2>4 DEF IInv, ViewerOK, Sound, MirrorOK, ReplicaOK
  <2> HIDE DEF r
  <2>6. r.lastSeq = seq /\ r.tail \in Seq(Nat) /\ Len(r.tail) = Len(tail)
    BY <2>1, <2>4, <2>5 DEF Contiguous, Replica
  <2>7. \A i \in 1..Len(tail) : r.tail[i] = tail[i]
    BY <2>1, <2>5, <2>6 DEF Contiguous
  <2>8. r.tail = tail
    <3> DEFINE f == r.tail
    <3>1. /\ f \in Seq(Nat) /\ tail \in Seq(Nat) /\ Len(f) = Len(tail)
          /\ \A i \in 1..Len(f) : f[i] = tail[i]
      BY <2>1, <2>6, <2>7
    <3> HIDE DEF f
    <3>2. f = tail
      BY <3>1
    <3> QED
      BY <3>2 DEF f
  <2>9. r = [epoch |-> epoch, lastSeq |-> seq, base |-> base, tail |-> tail]
    BY <2>1, <2>4, <2>5, <2>6, <2>8 DEF Replica
  <2> QED
    BY <2>9 DEF InStep, r
<1> QED
  BY <1>1, Invariance, PTL

(* No step takes a viewer back to an earlier epoch: a snapshot that waits in a socket is
   never older than what the mirror shows when it arrives (mirror.ts, handle). *)
THEOREM EpochNeverGoesBackHolds == Spec => EpochNeverGoesBack
<1> DEFINE Forward == \A v \in Viewer :
              LET r == mirror[v].replica s == mirror'[v].replica IN
              r # NoReplica /\ s # NoReplica => s.epoch >= r.epoch
<1>1. IInv /\ [Next]_vars => [Forward]_vars
  <2> SUFFICES ASSUME IInv, Next, NEW w \in Viewer, mirror'[w].replica # NoReplica
               PROVE  mirror'[w].replica.epoch >= mirror[w].replica.epoch
    BY DEF vars
  <2>1. mirror \in [Viewer -> MirrorRecord] /\ mirror[w].replica.epoch \in Nat
    BY Types DEF IInv, MirrorRecord, Replica
  <2>2. CASE mirror'[w].replica.epoch = mirror[w].replica.epoch
    BY <2>1, <2>2
  <2>3. CASE UNCHANGED mirror
    BY <2>2, <2>3
  <2>4. ASSUME NEW v \in Viewer, NEW k, mirror' = [mirror EXCEPT ![v] = k],
               k.replica.epoch = mirror[v].replica.epoch
        PROVE  mirror'[w].replica.epoch = mirror[w].replica.epoch
    BY <2>1, <2>4, Zenon
  <2>8. ASSUME NEW v \in Viewer, Connect(v) \/ Disconnect(v)
        PROVE  mirror'[w].replica.epoch = mirror[w].replica.epoch
    <3>1. mirror[v] \in MirrorRecord
      BY <2>1
    <3>2. CASE Connect(v)
      <4> DEFINE k == [mirror[v] EXCEPT !.waiting = mirror[v].known]
      <4>1. mirror' = [mirror EXCEPT ![v] = k] /\ k.replica = mirror[v].replica
        BY <3>1, <3>2, Zenon DEF Connect, MirrorRecord
      <4> QED
        BY <2>4, <4>1, Zenon
    <3>3. CASE Disconnect(v)
      <4> DEFINE k == [mirror[v] EXCEPT !.waiting = FALSE]
      <4>1. mirror' = [mirror EXCEPT ![v] = k] /\ k.replica = mirror[v].replica
        BY <3>1, <3>3, Zenon DEF Disconnect, MirrorRecord
      <4> QED
        BY <2>4, <4>1, Zenon
    <3> QED
      BY <2>8, <3>2, <3>3
  <2>5. ASSUME NEW v \in Viewer, Deliver(v)
        PROVE  mirror'[w].replica.epoch >= mirror[w].replica.epoch
    <3> DEFINE m == Head(link[v].down)
    <3>1. m.t = "snapshot" => m.epoch >= mirror[v].replica.epoch
      BY <2>5, FirstMessage DEF Deliver
    <3> HIDE DEF m
    <3>2. CASE m.t = "snapshot" /\ HandleSnapshot(v, m)
      <4>1. CASE mirror' = [mirror EXCEPT ![v] = Rebuilt(m)]
        BY <2>1, <2>2, <3>1, <3>2, <4>1 DEF Rebuilt
      <4>2. CASE mirror' = [mirror EXCEPT ![v] =
                              [replica |-> NoReplica, waiting |-> TRUE, known |-> TRUE]]
        BY <2>1, <2>2, <4>2
      <4> QED
        BY <2>3, <3>2, <4>1, <4>2, Zenon DEF HandleSnapshot
    <3>3. CASE HandleDelta(v, m) \/ HandleResync(v)
      <4> DEFINE r == mirror[v].replica
      <4>1. mirror[v] \in MirrorRecord /\ r \in Replica
        BY <2>1 DEF MirrorRecord
      <4>2. CASE mirror' = [mirror EXCEPT ![v] = Awaiting(mirror[v])]
        <5>1. Awaiting(mirror[v]).replica = r
          BY <4>1, Zenon DEF Awaiting, MirrorRecord
        <5> QED
          BY <2>2, <2>4, <4>2, <5>1
      <4>3. CASE mirror' = [mirror EXCEPT ![v] = Replayed(mirror[v], m)]
        <5>1. Replayed(mirror[v], m).replica.epoch = r.epoch
          BY <4>1, Zenon DEF Replayed, MirrorRecord, Replica
        <5> QED
          BY <2>2, <2>4, <4>3, <5>1
      <4>4. CASE \E n \in 1..Len(m.data) :
                   mirror' = [mirror EXCEPT ![v] = ReplayBroken(mirror[v], m, n)]
        <5>1. PICK n \in 1..Len(m.data) :
                mirror' = [mirror EXCEPT ![v] = ReplayBroken(mirror[v], m, n)]
          BY <4>4
        <5>2. ReplayBroken(mirror[v], m, n).replica.epoch = r.epoch
          BY <4>1, Zenon DEF ReplayBroken, MirrorRecord, Replica
        <5> QED
          BY <2>2, <2>4, <5>1, <5>2
      <4> QED
        BY <2>3, <3>3, <4>2, <4>3, <4>4, Zenon DEF HandleDelta, HandleResync
    <3> QED
      BY <2>5, <3>2, <3>3, Zenon DEF Deliver, m
  <2>6. CASE \E v \in Viewer : SendRequest(v) \/ ReceiveRequest(v) \/ Drained(v)
    BY <2>3, <2>6 DEF SendRequest, ReceiveRequest, Drained, Client
  <2>7. CASE Answer \/ Checkout \/ Forget \/ Mutate \/ Navigate \/ Hide \/ Show \/ FlushTimer
    BY <2>3, <2>7
    DEF Answer, Checkout, Forget, OpenNext, Mutate, Navigate, Hide, Show, FlushTimer, Client
  <2> QED
    BY <2>2, <2>5, <2>6, <2>7, <2>8 DEF Next
<1> QED
  BY <1>1, Invariance, PTL DEF Spec, EpochNeverGoesBack
==============================================================================
