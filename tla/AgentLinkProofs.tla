-------------------------- MODULE AgentLinkProofs --------------------------
(***************************************************************************)
(* Proofs about AgentLink: commands are answered by their own answers and  *)
(* never forgotten, the link follows the document of the page, an ok means *)
(* that the snapshot has been read, and the stream is what the documents   *)
(* recorded, for any number of calls, documents, duplicates and late       *)
(* messages.                                                               *)
(***************************************************************************)
EXTENDS AgentLink, FiniteSetTheorems, TLAPS

-----------------------------------------------------------------------------
(* The invariant, part 1: what the state is made of. *)

Whose == Call \cup {None}
CallCmd == [k: {"call"}, object: Nat, req: Nat, n: Call]
AcquireCmd == [k: {"acquire"}, ctx: Nat, p: Nat, retain: BOOLEAN]
ReleaseCmd == [k: {"release"}, p: Nat]
Todo == CallCmd \cup AcquireCmd \cup ReleaseCmd

DocNo == Nat \ {0}
Said == [k: {"hello", "rrweb"}, doc: DocNo, n: Nat, for: SUBSET Whose]
Answers == [k: {"cmdres"}, doc: DocNo, n: Nat, for: SUBSET Whose, ok: BOOLEAN]
Message == Said \cup Answers
Chunk == [k: {"chunk"}, ctx: Nat, doc: DocNo, id: Nat, idx: Nat, total: Nat, msg: Message]
Acquired == [k: {"acquired"}, p: Nat, ok: BOOLEAN, retain: BOOLEAN, object: Nat]
Released == [k: {"released"}, p: Nat]
Refused == [k: {"refused"}, req: Nat]
Frame == Chunk \cup Acquired \cup Released \cup Refused

Page == [doc: Doc, ctx: Doc, held: BOOLEAN, ready: BOOLEAN, queue: Seq(Chunk), next: Nat,
         events: Nat, recording: BOOLEAN, waiting: Seq(CallCmd), wire: Seq(Frame)]

Key == Nat \X Nat
Kept == [key: Key, idx: SUBSET Nat]
Reassembler == [completed: Seq(Key), partial: SUBSET Kept]
Registered == [n: Call, req: Nat, docId: Nat]
Link == [session: Nat, attached: BOOLEAN, docId: Nat, seen: SUBSET DocNo, cleaned: SUBSET Key,
         bridgeReady: Nat, acq: Seq({"waiting", "done", "failed"}), object: Nat, nextReq: Nat,
         pending: SUBSET Registered, re: Reassembler, stream: Seq(Message)]

CallState == [st: {"idle", "awaiting", "sent", "answered", "failed"}, session: Nat, on: Nat,
              ok: BOOLEAN, for: SUBSET Whose]

Types ==
  /\ page \in Page /\ todo \in Seq(Todo) /\ link \in Link /\ call \in [Call -> CallState]
  /\ left \in [events: 0..MaxEvents, odd: 0..MaxOdd]

-----------------------------------------------------------------------------
(* Part 2: what is on its way. *)

Chunks(s) == {f \in Range(s) : f.k = "chunk"}
InFlight(p) == Chunks(p.wire) \cup Range(p.queue)
Own(p) == {f \in InFlight(p) : f.doc # Child}

\* A chunk is a slice of the message it belongs to, and the first message of a
\* document is its hello.
ChunkOK(f) ==
  /\ f.msg.doc = f.doc /\ f.total = Slices(f.msg) /\ f.idx \in 1..f.total
  /\ f.id = 0 <=> f.msg.k = "hello"
  /\ f.msg.k = "hello" => f.msg = Hello(f.doc)
  /\ f.doc = Child => f.id = 0

\* The order the chunks of the target's documents are recorded in.
Before(f, g) ==
  \/ f.doc < g.doc
  \/ f.doc = g.doc /\ f.id < g.id
  \/ f.doc = g.doc /\ f.id = g.id /\ f.idx < g.idx

Sorted(s) ==
  \A i, j \in 1..Len(s) :
    /\ i < j
    /\ s[i].k = "chunk" /\ s[i].doc # Child
    /\ s[j].k = "chunk" /\ s[j].doc # Child
    => Before(s[i], s[j])

\* The page's chunks are in order, the queue's after the wire's, and what the
\* page says next comes after them all.
PageOK(p) ==
  /\ \A f \in InFlight(p) : ChunkOK(f)
  /\ Sorted(p.wire) /\ Sorted(p.queue)
  /\ \A f \in Own(p) : f.doc < p.doc \/ (f.doc = p.doc /\ f.id < p.next)
  /\ \A f \in Range(p.queue) : f.doc = p.doc
  /\ \A f \in Chunks(p.wire), g \in Range(p.queue) : f.doc # Child => Before(f, g)
  /\ p.next >= 1

-----------------------------------------------------------------------------
(* Part 3: commands. *)

\* The number of each command, with whom it is for, wherever it is.
Numbered(cs) == {<<c.req, {c.n}>> : c \in cs}
Results(fs) == {<<f.msg.n, f.msg.for>> : f \in {g \in fs : g.msg.k = "cmdres"}}
Calls(t) == {c \in Range(t) : c.k = "call"}
Carried(p, t, l) ==
  Numbered(Calls(t)) \cup Numbered(Range(p.waiting)) \cup Results(InFlight(p))
  \cup Numbered(l.pending)

\* A number is one command's.
NumbersOK ==
  /\ \A a \in Carried(page, todo, link) : a[1] < link.nextReq
  /\ \A a, b \in Carried(page, todo, link) : a[1] = b[1] => a[2] = b[2]

\* A command is registered from when it is sent until it is settled.
PendingOK ==
  /\ \A q \in link.pending : q.docId = link.docId /\ call[q.n].st = "sent"
  /\ \A q, r \in link.pending : q.n = r.n => q = r
  /\ \A n \in Call : call[n].st = "sent" => Live(n) /\ n \in Pending(link)

Carries(c, i) == c.k \in {"acquire", "acquired", "release", "released"} /\ c.p = i

\* An acquisition that is not over is on its way, and every call waits for one.
BridgeOK ==
  /\ link.session >= 1 /\ \A n \in Call : call[n].session <= link.session
  /\ \A n \in Call : call[n].st = "awaiting" /\ Live(n) => call[n].on \in 1..Len(link.acq)
  /\ link.bridgeReady <= Len(link.acq)
  /\ link.docId # None => link.bridgeReady >= 1
  /\ \A key \in link.cleaned : key[2] # Child => link.bridgeReady >= 1
  /\ link.attached => \A i \in 1..Len(link.acq) :
       link.acq[i] = "waiting" => \E c \in Range(todo) \cup Range(page.wire) : Carries(c, i)

-----------------------------------------------------------------------------
(* Part 4: documents. *)

DocumentsOK ==
  /\ link.docId <= page.doc /\ Len(link.re.completed) <= Recent
  /\ \A d \in link.seen : d <= link.docId
  /\ link.docId # None => link.docId \in link.seen
  /\ \A key \in link.cleaned : key[2] \in link.seen \cup {Child}
  /\ \A key \in Range(link.re.completed) : key[2] = 0 => key[1] <= link.docId \/ key[1] = Child
  /\ \A q \in link.re.partial : q.key[2] # 0

\* While the target is attached, nothing of an older document is on its way, and
\* the hello of each newer one is.
Announced(d) == \E h \in InFlight(page) : h.doc = d /\ h.id = 0
HellosOK ==
  link.attached =>
    /\ \A f \in Own(page) : f.doc >= link.docId
    /\ \A f \in Own(page) : f.doc # link.docId => Announced(f.doc)
    /\ page.doc # link.docId => Announced(page.doc)

-----------------------------------------------------------------------------
(* Part 5: snapshots. *)

\* What the reassembler knows of has been said, and is not after what is on its
\* way.
Spoken(key, p) == key[1] < p.doc \/ (key[1] = p.doc /\ key[2] < p.next)
Reached(key, f) ==
  \/ key[1] < f.doc
  \/ key[1] = f.doc /\ key[2] < f.id
ReassemblyOK ==
  /\ \A key \in Range(link.re.completed) : key[1] = Child \/ Spoken(key, page)
  /\ \A q \in link.re.partial : Spoken(q.key, page)
  /\ link.attached => \A f \in Own(page) :
       /\ \A key \in Range(link.re.completed) :
            key[1] = Child \/ Reached(key, f) \/ (key = <<f.doc, f.id>> /\ f.idx = f.total)
       /\ \A q \in link.re.partial :
            \/ Reached(q.key, f)
            \/ q.key = <<f.doc, f.id>> /\ f.total = 2 /\ \A i \in q.idx : i \in 1..f.idx

\* The snapshot of call n is in the stream.
InStream(n) == \E i \in 1..Len(link.stream) : n \in link.stream[i].for

\* It comes before r.
Coming(n, r) ==
  \E e \in Own(page) :
    /\ e.doc = r.doc /\ e.id < r.id /\ e.idx = 2 /\ e.msg.k = "rrweb" /\ e.msg.for = {n}
    /\ <<e.doc, e.id>> \notin Range(link.re.completed)
    /\ \/ \E g \in Own(page) : g.doc = e.doc /\ g.id = e.id /\ g.idx = 1 /\ g.msg = e.msg
       \/ \E q \in link.re.partial : q.key = <<e.doc, e.id>> /\ 1 \in q.idx

SnapshotsOK ==
  link.attached =>
    \A r \in Own(page), n \in Snapshot :
      r.msg.k = "cmdres" /\ r.msg.ok /\ r.msg.for = {n} => InStream(n) \/ Coming(n, r)

IInv ==
  /\ Types /\ PageOK(page) /\ NumbersOK /\ PendingOK /\ BridgeOK /\ DocumentsOK /\ HellosOK
  /\ ReassemblyOK /\ SnapshotsOK /\ AnswersMatch /\ SnapshotBeforeAnswer

-----------------------------------------------------------------------------
(* Sequences. *)

\* What a sequence holds, position by position.
LEMMA RangeIs ==
  ASSUME NEW S, NEW s \in Seq(S)
  PROVE  Range(s) = {s[i] : i \in 1..Len(s)} /\ Range(s) \subseteq S
BY DEF Range

LEMMA RangeAppend ==
  ASSUME NEW S, NEW s \in Seq(S), NEW x \in S
  PROVE  Range(Append(s, x)) = Range(s) \cup {x}
<1>1. /\ Append(s, x) \in Seq(S) /\ Len(Append(s, x)) = Len(s) + 1
      /\ \A i \in 1..Len(s) : Append(s, x)[i] = s[i]
      /\ Append(s, x)[Len(s) + 1] = x
  OBVIOUS
<1>2. Range(Append(s, x)) = {Append(s, x)[i] : i \in 1..(Len(s) + 1)}
  BY <1>1, RangeIs
<1>3. 1..(Len(s) + 1) = 1..Len(s) \cup {Len(s) + 1}
  OBVIOUS
<1> QED BY <1>1, <1>2, <1>3, RangeIs

LEMMA RangeConcat ==
  ASSUME NEW S, NEW s \in Seq(S), NEW t \in Seq(S)
  PROVE  Range(s \o t) = Range(s) \cup Range(t)
<1>1. /\ s \o t \in Seq(S) /\ Len(s \o t) = Len(s) + Len(t)
      /\ \A i \in 1..Len(s) : (s \o t)[i] = s[i]
      /\ \A i \in 1..Len(t) : (s \o t)[Len(s) + i] = t[i]
      /\ \A i \in 1..Len(s \o t) : i > Len(s) => i - Len(s) \in 1..Len(t)
                                     /\ (s \o t)[i] = t[i - Len(s)]
  OBVIOUS
<1>2. Range(s \o t) = {(s \o t)[i] : i \in 1..Len(s \o t)}
  BY <1>1, RangeIs
<1>3. ASSUME NEW i \in 1..Len(s \o t) PROVE (s \o t)[i] \in Range(s) \cup Range(t)
  <2>1. CASE i \in 1..Len(s)
    BY <1>1, <2>1, RangeIs
  <2>2. CASE i > Len(s)
    BY <1>1, <2>2, RangeIs
  <2> QED BY <2>1, <2>2
<1>4. ASSUME NEW i \in 1..Len(s) PROVE s[i] \in Range(s \o t)
  BY <1>1, <1>2
<1>5. ASSUME NEW i \in 1..Len(t) PROVE t[i] \in Range(s \o t)
  <2>1. Len(s) + i \in 1..Len(s \o t)
    BY <1>1
  <2> QED BY <1>1, <1>2, <2>1
<1>6. Range(s \o t) \subseteq Range(s) \cup Range(t)
  BY <1>2, <1>3
<1>7. Range(s) \subseteq Range(s \o t)
  BY <1>4, RangeIs
<1>8. Range(t) \subseteq Range(s \o t)
  BY <1>5, RangeIs
<1> QED BY <1>6, <1>7, <1>8

LEMMA RangeTail ==
  ASSUME NEW S, NEW s \in Seq(S), s # <<>>
  PROVE  /\ Head(s) \in Range(s) /\ Head(s) = s[1] /\ Head(s) \in S
         /\ Tail(s) \in Seq(S) /\ Range(s) = {Head(s)} \cup Range(Tail(s))
<1>1. /\ Head(s) = s[1] /\ Tail(s) \in Seq(S) /\ Len(Tail(s)) = Len(s) - 1 /\ Len(s) >= 1
      /\ \A i \in 1..Len(Tail(s)) : Tail(s)[i] = s[i + 1] /\ i + 1 \in 1..Len(s)
      /\ \A i \in 1..Len(s) : i = 1 \/ (i - 1 \in 1..Len(Tail(s)) /\ Tail(s)[i - 1] = s[i])
  OBVIOUS
<1>2. Range(s) = {s[i] : i \in 1..Len(s)} /\ Range(s) \subseteq S
  BY RangeIs
<1>3. Range(Tail(s)) = {Tail(s)[i] : i \in 1..Len(Tail(s))}
  BY <1>1, RangeIs
<1>4. ASSUME NEW i \in 1..Len(s) PROVE s[i] \in {Head(s)} \cup Range(Tail(s))
  BY <1>1, <1>3
<1>5. Range(Tail(s)) \subseteq Range(s)
  BY <1>1, <1>2, <1>3
<1>6. Head(s) \in Range(s)
  BY <1>1, <1>2
<1> QED BY <1>1, <1>2, <1>4, <1>5, <1>6

LEMMA RangeEmpty ==
  Range(<<>>) = {}
BY DEF Range

-----------------------------------------------------------------------------
(* Frames and commands, by their kind. *)

LEMMA FrameKinds ==
  ASSUME NEW f \in Frame
  PROVE  /\ f.k = "chunk" => f \in Chunk
         /\ f.k = "acquired" => f \in Acquired
         /\ f.k = "released" => f \in Released
         /\ f.k = "refused" => f \in Refused
         /\ f.k \in {"chunk", "acquired", "released", "refused"}
BY DEF Frame, Chunk, Acquired, Released, Refused

LEMMA TodoKinds ==
  ASSUME NEW c \in Todo
  PROVE  /\ c.k = "call" => c \in CallCmd
         /\ c.k = "acquire" => c \in AcquireCmd
         /\ c.k = "release" => c \in ReleaseCmd
         /\ c.k \in {"call", "acquire", "release"}
BY DEF Todo, CallCmd, AcquireCmd, ReleaseCmd

LEMMA ChunkFields ==
  ASSUME NEW f \in Chunk
  PROVE  /\ f.k = "chunk" /\ f.ctx \in Nat /\ f.doc \in DocNo /\ f.doc \in Nat
         /\ f.id \in Nat /\ f.idx \in Nat
         /\ f.total \in Nat /\ f.msg \in Message /\ f \in Frame
BY DEF Chunk, Frame, DocNo

LEMMA MessageFields ==
  ASSUME NEW m \in Message
  PROVE  /\ m.k \in {"hello", "rrweb", "cmdres"} /\ m.doc \in DocNo /\ m.n \in Nat
         /\ m.for \in SUBSET Whose /\ (m.k = "cmdres" => m.ok \in BOOLEAN)
BY DEF Message, Said, Answers

\* The page is a record of these fields.
LEMMA PageFields ==
  ASSUME NEW p \in Page
  PROVE  /\ p.doc \in Doc /\ p.ctx \in Doc /\ p.held \in BOOLEAN /\ p.ready \in BOOLEAN
         /\ p.queue \in Seq(Chunk) /\ p.next \in Nat /\ p.events \in Nat
         /\ p.recording \in BOOLEAN /\ p.waiting \in Seq(CallCmd) /\ p.wire \in Seq(Frame)
         /\ p.doc \in Nat /\ p.doc \in DocNo /\ p.doc # Child /\ p.doc < Child
BY AgentLinkAssumption DEF Page, Doc, Child, DocNo

\* What is in flight are chunks.
LEMMA FlightTypes ==
  ASSUME NEW p \in Page
  PROVE  InFlight(p) \subseteq Chunk
<1>1. Range(p.wire) \subseteq Frame /\ Range(p.queue) \subseteq Chunk
  BY PageFields, RangeIs
<1>2. ASSUME NEW f \in Chunks(p.wire) PROVE f \in Chunk
  BY <1>1, FrameKinds DEF Chunks
<1> QED BY <1>1, <1>2 DEF InFlight

-----------------------------------------------------------------------------
(* What the agent sends. *)

\* The chunks of a message are its slices, in order.
LEMMA EncodeFacts ==
  ASSUME NEW ctx \in Nat, NEW id \in Nat, NEW m \in Message
  PROVE  LET s == EncodeChunks(ctx, id, m)
         IN /\ s \in Seq(Chunk) /\ Len(s) = Slices(m) /\ Slices(m) \in {1, 2}
            /\ \A i \in 1..Slices(m) :
                 /\ s[i] \in Range(s) /\ s[i].ctx = ctx /\ s[i].doc = m.doc /\ s[i].id = id
                 /\ s[i].idx = i /\ s[i].total = Slices(m) /\ s[i].msg = m /\ s[i].k = "chunk"
            /\ \A f \in Range(s) :
                 /\ f \in Chunk /\ f.k = "chunk" /\ f.ctx = ctx /\ f.doc = m.doc /\ f.id = id
                 /\ f.idx \in 1..Slices(m) /\ f.total = Slices(m) /\ f.msg = m
<1> DEFINE s == EncodeChunks(ctx, id, m)
           c(i) == [k |-> "chunk", ctx |-> ctx, doc |-> m.doc, id |-> id, idx |-> i,
                    total |-> Slices(m), msg |-> m]
<1>1. Slices(m) \in {1, 2}
  BY DEF Slices
<1>2. ASSUME NEW i \in 1..Slices(m) PROVE c(i) \in Chunk
  <2>1. m.doc \in DocNo /\ i \in Nat /\ Slices(m) \in Nat
    BY <1>1, MessageFields
  <2> QED BY <2>1, Zenon DEF Chunk
<1>3. s = [i \in 1..Slices(m) |-> c(i)]
  BY DEF EncodeChunks
<1> HIDE DEF s
<1>4. ASSUME NEW i \in 1..Slices(m)
      PROVE  /\ c(i).ctx = ctx /\ c(i).doc = m.doc /\ c(i).id = id /\ c(i).k = "chunk"
             /\ c(i).idx = i /\ c(i).total = Slices(m) /\ c(i).msg = m
  OBVIOUS
<1> HIDE DEF c
<1>5. s \in Seq(Chunk) /\ Len(s) = Slices(m) /\ \A i \in 1..Slices(m) : s[i] = c(i)
  BY <1>1, <1>2, <1>3
<1>6. Range(s) = {s[i] : i \in 1..Slices(m)}
  BY <1>5, RangeIs
<1>7. \A i \in 1..Slices(m) :
        /\ s[i] \in Range(s) /\ s[i].ctx = ctx /\ s[i].doc = m.doc /\ s[i].id = id
        /\ s[i].idx = i /\ s[i].total = Slices(m) /\ s[i].msg = m /\ s[i].k = "chunk"
  BY <1>4, <1>5, <1>6
<1>8. \A f \in Range(s) :
        /\ f \in Chunk /\ f.k = "chunk" /\ f.ctx = ctx /\ f.doc = m.doc /\ f.id = id
        /\ f.idx \in 1..Slices(m) /\ f.total = Slices(m) /\ f.msg = m
  BY <1>2, <1>4, <1>5, <1>6
<1> QED BY <1>1, <1>5, <1>7, <1>8 DEF s

LEMMA SliceAt ==
  ASSUME NEW ctx \in Nat, NEW id \in Nat, NEW m \in Message, NEW i \in 1..Slices(m)
  PROVE  \E e \in Range(EncodeChunks(ctx, id, m)) :
           e.doc = m.doc /\ e.id = id /\ e.idx = i /\ e.msg = m
<1> DEFINE s == EncodeChunks(ctx, id, m)
<1>1. s[i] \in Range(s) /\ s[i].doc = m.doc /\ s[i].id = id /\ s[i].idx = i /\ s[i].msg = m
  BY EncodeFacts
<1> HIDE DEF s
<1> QED BY <1>1 DEF s

\* A page whose chunks are those of another is as well ordered.
LEMMA PageSame ==
  ASSUME NEW p, NEW q, PageOK(p), q.wire = p.wire, q.queue = p.queue, q.doc = p.doc,
         q.next = p.next
  PROVE  PageOK(q) /\ InFlight(q) = InFlight(p) /\ Own(q) = Own(p)
<1>1. InFlight(q) = InFlight(p)
  BY DEF InFlight
<1>2. Own(q) = Own(p)
  BY <1>1 DEF Own
<1> QED BY <1>1, <1>2 DEF PageOK

\* Slices of one message are in order.
LEMMA SlicesSorted ==
  ASSUME NEW ctx \in Nat, NEW id \in Nat, NEW m \in Message
  PROVE  Sorted(EncodeChunks(ctx, id, m))
<1> DEFINE s == EncodeChunks(ctx, id, m)
<1>1. /\ Len(s) = Slices(m) /\ Slices(m) \in {1, 2}
      /\ \A i \in 1..Slices(m) : s[i].doc = m.doc /\ s[i].id = id /\ s[i].idx = i
  BY EncodeFacts
<1> HIDE DEF s
<1> SUFFICES Sorted(s)
  BY DEF s
<1> QED BY <1>1 DEF Sorted, Before

\* Two runs of frames in order, the second after the first.
LEMMA SortedConcat ==
  ASSUME NEW s \in Seq(Frame), NEW t \in Seq(Frame), Sorted(s), Sorted(t),
         \A f \in Range(s), g \in Range(t) :
           f.k = "chunk" /\ f.doc # Child /\ g.k = "chunk" /\ g.doc # Child => Before(f, g)
  PROVE  Sorted(s \o t)
<1> DEFINE u == s \o t
<1>1. /\ Len(u) = Len(s) + Len(t) /\ Len(s) \in Nat /\ Len(t) \in Nat
      /\ \A i \in 1..Len(u) : \/ i \in 1..Len(s) /\ u[i] = s[i]
                              \/ i > Len(s) /\ i - Len(s) \in 1..Len(t) /\ u[i] = t[i - Len(s)]
  OBVIOUS
<1> HIDE DEF u
<1> SUFFICES ASSUME NEW i \in 1..Len(u), NEW j \in 1..Len(u), i < j,
                    u[i].k = "chunk", u[i].doc # Child, u[j].k = "chunk", u[j].doc # Child
             PROVE  Before(u[i], u[j])
  BY DEF Sorted, u
<1>2. CASE j \in 1..Len(s) /\ u[j] = s[j]
  <2>1. i \in 1..Len(s) /\ u[i] = s[i]
    BY <1>1, <1>2
  <2> QED BY <1>2, <2>1 DEF Sorted
<1>3. CASE j > Len(s) /\ j - Len(s) \in 1..Len(t) /\ u[j] = t[j - Len(s)]
  <2>1. CASE i \in 1..Len(s) /\ u[i] = s[i]
    <3>1. u[i] \in Range(s) /\ u[j] \in Range(t)
      BY <1>3, <2>1, RangeIs
    <3> QED BY <3>1
  <2>2. CASE i > Len(s) /\ i - Len(s) \in 1..Len(t) /\ u[i] = t[i - Len(s)]
    <3> DEFINE a == i - Len(s)
               b == j - Len(s)
    <3>1. a < b /\ a \in 1..Len(t) /\ b \in 1..Len(t) /\ u[i] = t[a] /\ u[j] = t[b]
      BY <1>1, <1>3, <2>2
    <3> HIDE DEF a, b
    <3> QED BY <3>1 DEF Sorted
  <2> QED BY <1>1, <2>1, <2>2
<1> QED BY <1>1, <1>2, <1>3

\* A message added to a stream leaves the others where they are.
LEMMA AppendAt ==
  ASSUME NEW s \in Seq(Message), NEW m \in Message, NEW i \in 1..Len(s)
  PROVE  Append(s, m)[i] = s[i]
OBVIOUS

\* The first frame is the first, and the others stay in order.
LEMMA SortedTail ==
  ASSUME NEW s \in Seq(Frame), s # <<>>, Sorted(s)
  PROVE  /\ Sorted(Tail(s))
         /\ \A g \in Range(Tail(s)) :
              s[1].k = "chunk" /\ s[1].doc # Child /\ g.k = "chunk" /\ g.doc # Child
                => Before(s[1], g)
<1> DEFINE t == Tail(s)
<1>1. /\ t \in Seq(Frame) /\ Len(s) >= 1 /\ Len(s) \in Nat /\ Len(t) = Len(s) - 1
      /\ \A i \in 1..Len(t) : t[i] = s[i + 1] /\ i + 1 \in 1..Len(s)
  OBVIOUS
<1> HIDE DEF t
<1>2. Range(t) = {t[i] : i \in 1..Len(t)}
  BY <1>1, RangeIs
<1>3. Sorted(t)
  <2> SUFFICES ASSUME NEW i \in 1..Len(t), NEW j \in 1..Len(t), i < j,
                      t[i].k = "chunk", t[i].doc # Child, t[j].k = "chunk", t[j].doc # Child
               PROVE  Before(t[i], t[j])
    BY DEF Sorted
  <2>1. t[i] = s[i + 1] /\ i + 1 \in 1..Len(s) /\ t[j] = s[j + 1] /\ j + 1 \in 1..Len(s)
    BY <1>1
  <2>2. i + 1 < j + 1
    BY <1>1
  <2> QED BY <2>1, <2>2 DEF Sorted
<1>4. ASSUME NEW i \in 1..Len(t), s[1].k = "chunk", s[1].doc # Child,
             t[i].k = "chunk", t[i].doc # Child
      PROVE  Before(s[1], t[i])
  <2>1. 1 < i + 1 /\ 1 \in 1..Len(s)
    BY <1>1
  <2> QED BY <1>1, <1>4, <2>1 DEF Sorted
<1> QED BY <1>2, <1>3, <1>4 DEF t

\* What a page has after it said more: nothing of what is on its way is lost, and
\* what is new comes last, or is a child frame's.
Adds(p, q, new) ==
  /\ q \in Page /\ PageOK(q) /\ q.doc = p.doc /\ q.next >= p.next
  /\ InFlight(q) = InFlight(p) \cup new /\ Range(p.wire) \subseteq Range(q.wire)
  /\ \A f \in new : f.doc = Child \/ (f.doc = p.doc /\ f.id >= p.next)

\* The page's own message, anything but a hello.
LEMMA EmitFacts ==
  ASSUME NEW p \in Page, PageOK(p), NEW m \in Message, m.doc = p.doc, m.k # "hello"
  PROVE  LET q == Emit(p, m)
         IN /\ Adds(p, q, Range(EncodeChunks(p.ctx, p.next, m)))
            /\ q.next = p.next + 1 /\ q.ctx = p.ctx /\ q.waiting = p.waiting
            /\ q.events = p.events
<1> DEFINE s == EncodeChunks(p.ctx, p.next, m)
           a == [p EXCEPT !.next = @ + 1]
           v == [a EXCEPT !.wire = @ \o s]
           w == [a EXCEPT !.queue = @ \o s]
           q == Emit(p, m)
<1>1. /\ p.doc \in Nat /\ p.ctx \in Nat /\ p.next \in Nat /\ p.wire \in Seq(Frame)
      /\ p.queue \in Seq(Chunk) /\ p.doc # Child /\ p.next + 1 \in Nat
  BY PageFields DEF Doc
<1>2. /\ s \in Seq(Chunk) /\ Sorted(s)
      /\ \A f \in Range(s) : /\ f \in Chunk /\ f.k = "chunk" /\ f.doc = m.doc /\ f.id = p.next
                             /\ f.idx \in 1..Slices(m) /\ f.total = Slices(m) /\ f.msg = m
  <2>1. p.ctx \in Nat /\ p.next \in Nat
    BY <1>1
  <2>2. /\ s \in Seq(Chunk)
        /\ \A f \in Range(s) : /\ f \in Chunk /\ f.k = "chunk" /\ f.doc = m.doc /\ f.id = p.next
                               /\ f.idx \in 1..Slices(m) /\ f.total = Slices(m) /\ f.msg = m
    BY <2>1, EncodeFacts
  <2>3. Sorted(s)
    BY <2>1, SlicesSorted
  <2> QED BY <2>2, <2>3
<1>3. s \in Seq(Frame) /\ p.queue \in Seq(Frame)
  BY <1>1, <1>2 DEF Frame
<1>4. q = IF p.ready /\ p.queue = <<>> THEN v ELSE w
  BY DEF Emit
<1> HIDE DEF s
<1>5. a \in Page /\ a.next = p.next + 1 /\ a.wire = p.wire /\ a.queue = p.queue
      /\ a.doc = p.doc /\ a.ctx = p.ctx /\ a.waiting = p.waiting /\ a.events = p.events
  <2>1. a \in Page
    BY <1>1, Zenon DEF Page
  <2> QED BY <2>1 DEF Page
<1> HIDE DEF a
<1>6. v \in Page /\ v.next = p.next + 1 /\ v.wire = p.wire \o s /\ v.queue = p.queue
      /\ v.doc = p.doc /\ v.ctx = p.ctx /\ v.waiting = p.waiting /\ v.events = p.events
  <2>1. a.wire \o s \in Seq(Frame)
    BY <1>1, <1>3, <1>5
  <2>2. v \in Page
    BY <1>5, <2>1, Zenon DEF Page
  <2> QED BY <1>5, <2>2 DEF Page
<1>7. w \in Page /\ w.next = p.next + 1 /\ w.wire = p.wire /\ w.queue = p.queue \o s
      /\ w.doc = p.doc /\ w.ctx = p.ctx /\ w.waiting = p.waiting /\ w.events = p.events
  <2>1. a.queue \o s \in Seq(Chunk)
    BY <1>1, <1>2, <1>5
  <2>2. w \in Page
    BY <1>5, <2>1, Zenon DEF Page
  <2> QED BY <1>5, <2>2 DEF Page
<1> HIDE DEF v, w
<1>8. \A f \in Range(s) : ChunkOK(f) /\ f.doc = p.doc /\ f.doc # Child
  BY <1>1, <1>2 DEF ChunkOK, PageOK
<1>9. \A f \in Own(p), g \in Range(s) : Before(f, g)
  BY <1>1, <1>2 DEF PageOK, Before
<1>10. \A f \in Own(p) \cup Range(s) : f.doc < p.doc \/ (f.doc = p.doc /\ f.id < p.next + 1)
  <2>1. \A f \in Own(p) : f.id \in Nat
    BY FlightTypes, ChunkFields DEF Own
  <2> QED BY <1>1, <1>2, <2>1 DEF PageOK
<1>11. CASE p.ready /\ p.queue = <<>>
  <2>1. q = v
    BY <1>4, <1>11
  <2>2. Range(v.wire) = Range(p.wire) \cup Range(s)
    BY <1>1, <1>3, <1>6, RangeConcat
  <2>3. InFlight(v) = InFlight(p) \cup Range(s) /\ Chunks(v.wire) = Chunks(p.wire) \cup Range(s)
    BY <1>2, <1>6, <2>2 DEF InFlight, Chunks
  <2>4. Own(v) = Own(p) \cup Range(s)
    BY <1>8, <2>3 DEF Own
  <2>5. Sorted(v.wire)
    <3>1. ASSUME NEW f \in Range(p.wire), NEW g \in Range(s), f.k = "chunk", f.doc # Child
          PROVE  Before(f, g)
      <4>1. f \in Own(p)
        BY <3>1 DEF Own, InFlight, Chunks
      <4> QED BY <1>9, <4>1
    <3>2. Sorted(p.wire)
      BY DEF PageOK
    <3> QED BY <1>1, <1>2, <1>3, <1>6, <3>1, <3>2, SortedConcat
  <2>6. Range(v.queue) = {}
    BY <1>6, <1>11, RangeEmpty
  <2>7. PageOK(v)
    BY <1>1, <1>6, <1>8, <1>10, <2>3, <2>4, <2>5, <2>6 DEF PageOK
  <2>8. Range(p.wire) \subseteq Range(v.wire) /\ v.next >= p.next
    BY <1>1, <1>6, <2>2
  <2>9. \A f \in Range(s) : f.doc = p.doc /\ f.id >= p.next
    BY <1>1, <1>2, <1>8
  <2>10. Adds(p, v, Range(s))
    BY <1>6, <2>3, <2>7, <2>8, <2>9 DEF Adds
  <2> QED BY <1>6, <2>1, <2>10 DEF s
<1>12. CASE ~(p.ready /\ p.queue = <<>>)
  <2>1. q = w
    BY <1>4, <1>12
  <2>2. Range(w.queue) = Range(p.queue) \cup Range(s)
    BY <1>1, <1>2, <1>7, RangeConcat
  <2>3. InFlight(w) = InFlight(p) \cup Range(s) /\ Chunks(w.wire) = Chunks(p.wire)
    BY <1>2, <1>7, <2>2 DEF InFlight, Chunks
  <2>4. Own(w) = Own(p) \cup Range(s)
    BY <1>8, <2>3 DEF Own
  <2>5. ASSUME NEW f \in Range(p.queue) PROVE f \in Own(p)
    BY <1>1, <2>5 DEF PageOK, Own, InFlight
  <2>6. Sorted(w.queue)
    <3>1. Sorted(p.queue)
      BY DEF PageOK
    <3>2. \A f \in Range(p.queue), g \in Range(s) : Before(f, g)
      BY <1>9, <2>5
    <3> QED BY <1>1, <1>2, <1>3, <1>7, <3>1, <3>2, SortedConcat
  <2>7. \A f \in Range(w.queue) : f.doc = w.doc
    BY <1>7, <1>8, <2>2 DEF PageOK
  <2>8. ASSUME NEW f \in Chunks(w.wire), NEW g \in Range(w.queue), f.doc # Child
        PROVE  Before(f, g)
    <3>1. CASE g \in Range(s)
      BY <1>9, <2>3, <2>8, <3>1 DEF Own, InFlight
    <3>2. CASE g \in Range(p.queue)
      BY <2>3, <2>8, <3>2 DEF PageOK
    <3> QED BY <2>2, <3>1, <3>2
  <2>9. PageOK(w)
    <3>1. Sorted(w.wire)
      BY <1>7 DEF PageOK
    <3>2. \A f \in InFlight(w) : ChunkOK(f)
      BY <1>8, <2>3 DEF PageOK
    <3>3. w.next >= 1
      BY <1>1, <1>7
    <3> QED BY <1>7, <1>10, <2>4, <2>6, <2>7, <2>8, <3>1, <3>2, <3>3 DEF PageOK
  <2> QED BY <1>1, <1>2, <1>7, <1>8, <2>1, <2>3, <2>9 DEF Adds, s
<1> QED BY <1>11, <1>12

LEMMA AddsTwice ==
  ASSUME NEW p \in Page, NEW q, NEW r, NEW A, NEW B, Adds(p, q, A), Adds(q, r, B)
  PROVE  Adds(p, r, A \cup B)
<1>1. p.next \in Nat /\ q.next \in Nat /\ r.next \in Nat /\ q.next >= p.next /\ r.next >= q.next
      /\ r.doc = p.doc /\ q.doc = p.doc
  BY PageFields DEF Adds
<1>2. ASSUME NEW f \in A \cup B PROVE f.doc = Child \/ (f.doc = p.doc /\ f.id >= p.next)
  <2>1. CASE f \in A
    BY <2>1 DEF Adds
  <2>2. CASE f \in B /\ f.doc # Child
    <3>1. f \in InFlight(r) /\ r \in Page
      BY <2>2 DEF Adds
    <3>2. f.id \in Nat
      BY <3>1, FlightTypes, ChunkFields
    <3> QED BY <1>1, <2>2, <3>2 DEF Adds
  <2> QED BY <2>1, <2>2
<1>3. InFlight(r) = InFlight(p) \cup (A \cup B)
  BY DEF Adds
<1>4. Range(p.wire) \subseteq Range(r.wire)
  BY DEF Adds
<1> QED BY <1>1, <1>2, <1>3, <1>4 DEF Adds

LEMMA AddsNothing ==
  ASSUME NEW p \in Page, NEW q \in Page, PageOK(p), q.wire = p.wire, q.queue = p.queue,
         q.doc = p.doc, q.next = p.next
  PROVE  Adds(p, q, {})
<1>1. PageOK(q) /\ InFlight(q) = InFlight(p)
  BY PageSame
<1>2. q.next >= p.next
  BY PageFields
<1> QED BY <1>1, <1>2 DEF Adds

\* In what is new, the snapshot comes before the answer.
SnapsFirst(new) ==
  \A r \in new, n \in Snapshot :
    r.msg.k = "cmdres" /\ r.msg.ok /\ r.msg.for = {n} =>
      \E e, g \in new :
        /\ e.doc = r.doc /\ e.id < r.id /\ e.idx = 2 /\ e.msg.k = "rrweb" /\ e.msg.for = {n}
        /\ g.doc = e.doc /\ g.id = e.id /\ g.idx = 1 /\ g.msg = e.msg

\* An event, which is in two slices when it is a snapshot.
LEMMA EventFacts ==
  ASSUME NEW p \in Page, PageOK(p), NEW for \in SUBSET Whose
  PROVE  LET q == EmitEvent(p, for)
         IN \E new : /\ Adds(p, q, new) /\ q.waiting = p.waiting /\ q.ctx = p.ctx
                     /\ q.next = p.next + 1
                     /\ \A f \in new : f.msg.k = "rrweb"
                     /\ for # {} => \A i \in {1, 2} :
                          \E e \in new : /\ e.doc = p.doc /\ e.id = p.next /\ e.idx = i
                                         /\ e.msg = Event(p.doc, p.events + 1, for)
<1> DEFINE a == [p EXCEPT !.events = @ + 1]
           m == Event(p.doc, p.events + 1, for)
           q == EmitEvent(p, for)
<1>1. p.doc \in DocNo /\ p.events + 1 \in Nat /\ p.ctx \in Nat /\ p.next \in Nat
  BY PageFields DEF Doc
<1>2. a \in Page
  BY <1>1, Zenon DEF Page
<1>3. /\ a.wire = p.wire /\ a.queue = p.queue /\ a.doc = p.doc /\ a.next = p.next
      /\ a.ctx = p.ctx /\ a.waiting = p.waiting
  BY <1>2 DEF Page
<1>4. m \in Message /\ m.k = "rrweb" /\ m.doc = p.doc /\ m.for = for
  <2>1. m \in Said
    BY <1>1, Zenon DEF Event, Said
  <2> QED BY <2>1 DEF Event, Message
<1>5. q = Emit(a, m)
  BY DEF EmitEvent
<1> DEFINE new == Range(EncodeChunks(p.ctx, p.next, m))
<1> HIDE DEF a, m
<1>6. PageOK(a) /\ Adds(p, a, {})
  BY <1>2, <1>3, PageSame, AddsNothing
<1>7. /\ Adds(a, q, new) /\ q.next = p.next + 1 /\ q.ctx = p.ctx /\ q.waiting = p.waiting
  BY <1>2, <1>3, <1>4, <1>5, <1>6, EmitFacts
<1>8. Adds(p, q, new)
  <2>1. Adds(p, q, {} \cup new)
    BY <1>6, <1>7, AddsTwice
  <2> QED BY <2>1
<1>9. \A f \in new : f.msg.k = "rrweb"
  BY <1>1, <1>4, EncodeFacts
<1>10. ASSUME for # {}, NEW x \in {1, 2}
       PROVE  \E e \in new : e.doc = p.doc /\ e.id = p.next /\ e.idx = x /\ e.msg = m
  <2>1. Slices(m) = 2
    BY <1>4, <1>10 DEF Slices
  <2>2. x \in 1..Slices(m)
    BY <2>1
  <2>3. p.ctx \in Nat /\ p.next \in Nat
    BY <1>1
  <2>4. m \in Message /\ m.doc = p.doc
    BY <1>4
  <2>5. \E e \in Range(EncodeChunks(p.ctx, p.next, m)) :
          e.doc = m.doc /\ e.id = p.next /\ e.idx = x /\ e.msg = m
    BY <2>2, <2>3, <2>4, SliceAt
  <2> QED BY <2>4, <2>5
<1> HIDE DEF new, q
<1> QED BY <1>7, <1>8, <1>9, <1>10 DEF q, m

\* The answer to a command.
LEMMA AnswerFacts ==
  ASSUME NEW p \in Page, PageOK(p), NEW c \in CallCmd, NEW ok \in BOOLEAN
  PROVE  LET q == Answer(p, c, ok)
         IN \E new : /\ Adds(p, q, new) /\ q.waiting = p.waiting
                     /\ \A f \in new : /\ f.id = p.next /\ f.doc = p.doc
                                       /\ f.msg = Result(p.doc, c.req, ok, {c.n})
<1> DEFINE m == Result(p.doc, c.req, ok, {c.n})
           q == Answer(p, c, ok)
           new == Range(EncodeChunks(p.ctx, p.next, m))
<1>1. p.doc \in DocNo /\ p.ctx \in Nat /\ p.next \in Nat
  BY PageFields DEF Doc
<1>2. c.req \in Nat /\ {c.n} \in SUBSET Whose
  BY DEF CallCmd, Whose
<1>3. m \in Message /\ m.k = "cmdres" /\ m.doc = p.doc
  <2>1. m \in Answers
    BY <1>1, <1>2, Zenon DEF Result, Answers
  <2> QED BY <2>1 DEF Result, Message
<1>4. q = Emit(p, m)
  BY DEF Answer
<1> HIDE DEF m
<1>5. Adds(p, q, new) /\ q.waiting = p.waiting
  BY <1>3, <1>4, EmitFacts
<1>6. \A f \in new : f.id = p.next /\ f.doc = p.doc /\ f.msg = m
  BY <1>1, <1>3, EncodeFacts
<1> HIDE DEF new, q
<1> QED BY <1>5, <1>6 DEF q, m

\* The answer that is not preceded by a snapshot is not one to a snapshot command,
\* or it is a refusal.
LEMMA PlainAnswer ==
  ASSUME NEW p \in Page, PageOK(p), NEW c \in CallCmd, NEW ok \in BOOLEAN,
         ok => c.n \notin Snapshot
  PROVE  LET q == Answer(p, c, ok)
         IN \E new : /\ Adds(p, q, new) /\ q.waiting = p.waiting /\ SnapsFirst(new)
                     /\ Results(new) \subseteq Numbered({c})
<1> DEFINE q == Answer(p, c, ok)
<1>1. PICK new : /\ Adds(p, q, new) /\ q.waiting = p.waiting
                 /\ \A f \in new : /\ f.id = p.next /\ f.doc = p.doc
                                   /\ f.msg = Result(p.doc, c.req, ok, {c.n})
  BY AnswerFacts
<1>2. \A f \in new : /\ f.msg.k = "cmdres" /\ f.msg.n = c.req /\ f.msg.for = {c.n}
                     /\ f.msg.ok = ok
  <2> DEFINE m == Result(p.doc, c.req, ok, {c.n})
  <2>1. m.k = "cmdres" /\ m.n = c.req /\ m.for = {c.n} /\ m.ok = ok
    BY DEF Result
  <2>2. \A f \in new : f.msg = m
    BY <1>1
  <2> HIDE DEF m
  <2> QED BY <2>1, <2>2
<1>3. SnapsFirst(new)
  BY <1>2 DEF SnapsFirst
<1>4. Results(new) \subseteq Numbered({c})
  BY <1>2 DEF Results, Numbered
<1> HIDE DEF q
<1> QED BY <1>1, <1>3, <1>4 DEF q

\* emitSnapshot() sends the snapshot and then the answer.
LEMMA SnapshotFacts ==
  ASSUME NEW p \in Page, PageOK(p), NEW c \in CallCmd, NEW ok \in BOOLEAN
  PROVE  LET q == EmitSnapshot(p, c, ok)
         IN \E new : /\ Adds(p, q, new) /\ q.waiting = p.waiting /\ SnapsFirst(new)
                     /\ Results(new) \subseteq Numbered({c})
<1>1. CASE ~ok
  <2>1. EmitSnapshot(p, c, ok) = Answer(p, c, FALSE)
    BY <1>1 DEF EmitSnapshot
  <2>2. FALSE \in BOOLEAN /\ (FALSE => c.n \notin Snapshot)
    OBVIOUS
  <2> QED BY <2>1, <2>2, PlainAnswer
<1>2. CASE ok
  <2> DEFINE a == EmitEvent(p, {c.n})
             q == Answer(a, c, TRUE)
             m == Event(p.doc, p.events + 1, {c.n})
  <2>1. EmitSnapshot(p, c, ok) = q
    BY <1>2 DEF EmitSnapshot
  <2>2. {c.n} \in SUBSET Whose /\ {c.n} # {}
    BY DEF CallCmd, Whose
  <2>3. PICK A : /\ Adds(p, a, A) /\ a.waiting = p.waiting /\ a.ctx = p.ctx
                 /\ a.next = p.next + 1
                 /\ \A f \in A : f.msg.k = "rrweb"
                 /\ {c.n} # {} => \A i \in {1, 2} :
                      \E e \in A : e.doc = p.doc /\ e.id = p.next /\ e.idx = i /\ e.msg = m
    BY <2>2, EventFacts
  <2>4. a \in Page /\ PageOK(a) /\ a.doc = p.doc
    BY <2>3 DEF Adds
  <2> HIDE DEF a
  <2>5. PICK B : /\ Adds(a, q, B) /\ q.waiting = a.waiting
                 /\ \A f \in B : /\ f.id = a.next /\ f.doc = a.doc
                                 /\ f.msg = Result(a.doc, c.req, TRUE, {c.n})
    BY <2>4, AnswerFacts
  <2>6. \A f \in B : /\ f.msg.k = "cmdres" /\ f.msg.n = c.req /\ f.msg.for = {c.n}
    <3> DEFINE r == Result(a.doc, c.req, TRUE, {c.n})
    <3>1. r.k = "cmdres" /\ r.n = c.req /\ r.for = {c.n}
      BY DEF Result
    <3>2. \A f \in B : f.msg = r
      BY <2>5
    <3> HIDE DEF r
    <3> QED BY <3>1, <3>2
  <2> HIDE DEF q
  <2>7. Adds(p, q, A \cup B)
    BY <2>3, <2>5, AddsTwice
  <2>8. Results(A \cup B) \subseteq Numbered({c})
    BY <2>3, <2>6 DEF Results, Numbered
  <2>9. SnapsFirst(A \cup B)
    <3> SUFFICES ASSUME NEW r \in A \cup B, NEW n \in Snapshot, r.msg.k = "cmdres",
                        r.msg.for = {n}
                 PROVE  \E e, g \in A \cup B :
                          /\ e.doc = r.doc /\ e.id < r.id /\ e.idx = 2
                          /\ e.msg.k = "rrweb" /\ e.msg.for = {n}
                          /\ g.doc = e.doc /\ g.id = e.id /\ g.idx = 1 /\ g.msg = e.msg
      BY DEF SnapsFirst
    <3>1. r \in B
      BY <2>3
    <3>2. n = c.n
      BY <2>6, <3>1
    <3>3. r.doc = p.doc /\ r.id = p.next + 1
      BY <2>3, <2>4, <2>5, <3>1
    <3>4. PICK e \in A : e.doc = p.doc /\ e.id = p.next /\ e.idx = 2 /\ e.msg = m
      BY <2>2, <2>3
    <3>5. PICK g \in A : g.doc = p.doc /\ g.id = p.next /\ g.idx = 1 /\ g.msg = m
      BY <2>2, <2>3
    <3>6. m.k = "rrweb" /\ m.for = {c.n}
      BY DEF Event
    <3>7. p.next < p.next + 1
      BY PageFields
    <3> HIDE DEF m
    <3> QED BY <3>2, <3>3, <3>4, <3>5, <3>6, <3>7
  <2> QED BY <2>1, <2>3, <2>5, <2>7, <2>8, <2>9
<1> QED BY <1>1, <1>2

\* A frame that is not a chunk of the target's documents may come between them.
LEMMA AsideFacts ==
  ASSUME NEW p \in Page, PageOK(p), NEW t \in Seq(Frame),
         \A x \in Range(t) : x.k = "chunk" => x.doc = Child /\ ChunkOK(x)
  PROVE  LET q == [p EXCEPT !.wire = @ \o t]
         IN /\ Adds(p, q, Chunks(t)) /\ q.waiting = p.waiting
            /\ Range(q.wire) = Range(p.wire) \cup Range(t)
<1> DEFINE q == [p EXCEPT !.wire = @ \o t]
<1>1. p.wire \in Seq(Frame) /\ p.wire \o t \in Seq(Frame) /\ p.next \in Nat
  BY PageFields
<1>2. q \in Page
  BY <1>1, Zenon DEF Page
<1>3. /\ q.wire = p.wire \o t /\ q.queue = p.queue /\ q.doc = p.doc /\ q.next = p.next
      /\ q.waiting = p.waiting
  BY <1>2 DEF Page
<1> HIDE DEF q
<1>4. Range(q.wire) = Range(p.wire) \cup Range(t)
  BY <1>1, <1>3, RangeConcat
<1>5. /\ Chunks(q.wire) = Chunks(p.wire) \cup Chunks(t)
      /\ InFlight(q) = InFlight(p) \cup Chunks(t)
  BY <1>3, <1>4 DEF Chunks, InFlight
<1>6. \A x \in Chunks(t) : x.doc = Child /\ ChunkOK(x)
  BY DEF Chunks
<1>7. Own(q) = Own(p)
  BY <1>5, <1>6 DEF Own
<1>8. Sorted(q.wire)
  <2>1. Sorted(t)
    <3>1. ASSUME NEW i \in 1..Len(t), t[i].k = "chunk" PROVE t[i].doc = Child
      BY <3>1, RangeIs
    <3> QED BY <3>1 DEF Sorted
  <2>2. Sorted(p.wire)
    BY DEF PageOK
  <2> QED BY <1>1, <1>3, <2>1, <2>2, SortedConcat
<1>9. PageOK(q)
  <2>1. \A f \in InFlight(q) : ChunkOK(f)
    BY <1>5, <1>6 DEF PageOK
  <2>2. \A f \in Chunks(q.wire), g \in Range(q.queue) : f.doc # Child => Before(f, g)
    BY <1>3, <1>5, <1>6 DEF PageOK
  <2> QED BY <1>3, <1>7, <1>8, <2>1, <2>2 DEF PageOK
<1>10. Adds(p, q, Chunks(t))
  BY <1>1, <1>2, <1>3, <1>4, <1>5, <1>6, <1>9 DEF Adds
<1> QED BY <1>3, <1>4, <1>10 DEF q

LEMMA AnswerFrame ==
  ASSUME NEW p \in Page, PageOK(p), NEW x \in Frame, x.k # "chunk"
  PROVE  LET q == [p EXCEPT !.wire = Append(@, x)]
         IN /\ Adds(p, q, {}) /\ q.waiting = p.waiting
            /\ Range(q.wire) = Range(p.wire) \cup {x}
<1> DEFINE t == <<x>>
           q == [p EXCEPT !.wire = @ \o t]
<1>1. t \in Seq(Frame) /\ Range(t) = {x}
  BY DEF Range
<1>2. p.wire \in Seq(Frame)
  BY PageFields
<1>3. p.wire \o t = Append(p.wire, x)
  BY <1>2
<1>4. [p EXCEPT !.wire = Append(@, x)] = q
  BY <1>3
<1>5. Chunks(t) = {}
  BY <1>1 DEF Chunks
<1> HIDE DEF t
<1>6. \A y \in Range(t) : y.k = "chunk" => y.doc = Child /\ ChunkOK(y)
  BY <1>1
<1>7. /\ Adds(p, q, Chunks(t)) /\ q.waiting = p.waiting
      /\ Range(q.wire) = Range(p.wire) \cup Range(t)
  BY <1>1, <1>6, AsideFacts
<1> HIDE DEF q
<1> QED BY <1>1, <1>4, <1>5, <1>7

\* The hello of a document.
LEMMA HelloFacts ==
  ASSUME NEW d \in DocNo, NEW ctx \in Nat
  PROVE  LET s == EncodeChunks(ctx, 0, Hello(d))
         IN /\ s \in Seq(Chunk) /\ Sorted(s) /\ Len(s) = 1 /\ Range(s) = {s[1]}
            /\ ChunkOK(s[1]) /\ s[1] \in Chunk /\ s[1].doc = d /\ s[1].id = 0
            /\ s[1].ctx = ctx /\ s[1].k = "chunk" /\ s[1].msg = Hello(d)
<1> DEFINE m == Hello(d)
           s == EncodeChunks(ctx, 0, m)
<1>1. m \in Message /\ m.k = "hello" /\ m.doc = d /\ m.for = {}
  <2>1. {} \in SUBSET Whose /\ 0 \in Nat
    OBVIOUS
  <2>2. m \in Said
    BY <2>1, Zenon DEF Hello, Said
  <2> QED BY <2>2 DEF Hello, Message
<1>2. Slices(m) = 1
  BY <1>1 DEF Slices
<1> HIDE DEF m
<1>3. /\ s \in Seq(Chunk) /\ Len(s) = 1
      /\ \A i \in 1..Slices(m) :
           /\ s[i] \in Range(s) /\ s[i].ctx = ctx /\ s[i].doc = m.doc /\ s[i].id = 0
           /\ s[i].idx = i /\ s[i].total = Slices(m) /\ s[i].msg = m /\ s[i].k = "chunk"
  <2>1. 0 \in Nat /\ m \in Message
    BY <1>1
  <2>2. /\ s \in Seq(Chunk) /\ Len(s) = Slices(m)
        /\ \A i \in 1..Slices(m) :
             /\ s[i] \in Range(s) /\ s[i].ctx = ctx /\ s[i].doc = m.doc /\ s[i].id = 0
             /\ s[i].idx = i /\ s[i].total = Slices(m) /\ s[i].msg = m /\ s[i].k = "chunk"
    BY <2>1, EncodeFacts
  <2> QED BY <1>2, <2>2
<1>4. Sorted(s)
  BY <1>1, SlicesSorted
<1> HIDE DEF s
<1>5. Range(s) = {s[1]}
  BY <1>3, RangeIs
<1>6. s[1] \in Chunk
  BY <1>3, <1>5, RangeIs
<1>7. /\ s[1].ctx = ctx /\ s[1].doc = d /\ s[1].id = 0 /\ s[1].idx = 1 /\ s[1].total = 1
      /\ s[1].msg = m /\ s[1].k = "chunk"
  BY <1>1, <1>2, <1>3
<1>8. ChunkOK(s[1])
  <2>1. s[1].total = Slices(s[1].msg) /\ s[1].idx \in 1..s[1].total
    BY <1>2, <1>7
  <2>2. s[1].msg = Hello(s[1].doc) /\ s[1].msg.doc = s[1].doc /\ s[1].msg.k = "hello"
    BY <1>1, <1>7 DEF m
  <2> QED BY <1>7, <2>1, <2>2 DEF ChunkOK
<1> QED BY <1>3, <1>4, <1>5, <1>6, <1>7, <1>8 DEF s, m

\* A document that has just loaded has said hello and nothing else.
LEMMA LoadedFacts ==
  ASSUME NEW p \in Page, PageOK(p), NEW d \in Doc, NEW ctx \in Doc,
         d > p.doc \/ p.wire = <<>>
  PROVE  LET q == Loaded(p, d, ctx)
         IN /\ q \in Page /\ PageOK(q) /\ q.doc = d /\ q.next = 1 /\ q.waiting = <<>>
            /\ q.wire = p.wire
            /\ \E h : /\ InFlight(q) = Chunks(p.wire) \cup {h} /\ h.doc = d /\ h.id = 0
                      /\ h.msg.k = "hello"
<1> DEFINE a1 == [p EXCEPT !.doc = d]
           a2 == [a1 EXCEPT !.ctx = ctx]
           a3 == [a2 EXCEPT !.held = TRUE]
           a4 == [a3 EXCEPT !.ready = FALSE]
           a5 == [a4 EXCEPT !.queue = <<>>]
           a6 == [a5 EXCEPT !.next = 0]
           a7 == [a6 EXCEPT !.events = 0]
           a8 == [a7 EXCEPT !.recording = FALSE]
           a9 == [a8 EXCEPT !.waiting = <<>>]
           s == EncodeChunks(ctx, 0, Hello(d))
           b == [a9 EXCEPT !.next = @ + 1]
           q == [b EXCEPT !.queue = @ \o s]
<1>1. 0 \in Nat /\ <<>> \in Seq(Chunk) /\ <<>> \in Seq(CallCmd) /\ d \in DocNo /\ ctx \in Nat
      /\ d # Child
  BY AgentLinkAssumption DEF Doc, Child, DocNo
<1>2. /\ s \in Seq(Chunk) /\ Sorted(s) /\ Range(s) = {s[1]} /\ Len(s) = 1
      /\ ChunkOK(s[1]) /\ s[1] \in Chunk /\ s[1].doc = d /\ s[1].id = 0 /\ s[1].k = "chunk"
      /\ s[1].msg = Hello(d)
  BY <1>1, HelloFacts
<1> HIDE DEF s
<1>3. a9 = [p EXCEPT !.doc = d, !.ctx = ctx, !.held = TRUE, !.ready = FALSE, !.queue = <<>>,
                     !.next = 0, !.events = 0, !.recording = FALSE, !.waiting = <<>>]
  OBVIOUS
<1>4. a1 \in Page
  BY Zenon DEF Page
<1> HIDE DEF a1
<1>5. a2 \in Page
  BY <1>4, Zenon DEF Page
<1> HIDE DEF a2
<1>6. a3 \in Page
  BY <1>5, Zenon DEF Page
<1> HIDE DEF a3
<1>7. a4 \in Page
  BY <1>6, Zenon DEF Page
<1> HIDE DEF a4
<1>8. a5 \in Page
  BY <1>1, <1>7, Zenon DEF Page
<1> HIDE DEF a5
<1>9. a6 \in Page
  BY <1>1, <1>8, Zenon DEF Page
<1> HIDE DEF a6
<1>10. a7 \in Page
  BY <1>1, <1>9, Zenon DEF Page
<1> HIDE DEF a7
<1>11. a8 \in Page
  BY <1>10, Zenon DEF Page
<1> HIDE DEF a8
<1>12. a9 \in Page
  BY <1>1, <1>11, Zenon DEF Page
<1>13. /\ a9.doc = d /\ a9.ready = FALSE /\ a9.queue = <<>> /\ a9.next = 0 /\ a9.ctx = ctx
       /\ a9.waiting = <<>> /\ a9.wire = p.wire
  BY <1>3, <1>12 DEF Page
<1> HIDE DEF a9
<1>14. Loaded(p, d, ctx) = q
  BY <1>3, <1>13 DEF Loaded, Emit, s
<1>15. b \in Page /\ b.queue = <<>> /\ b.next = 1 /\ b.doc = d /\ b.wire = p.wire
       /\ b.waiting = <<>>
  <2>1. a9.next + 1 \in Nat
    BY <1>13
  <2>2. b \in Page
    BY <1>12, <2>1, Zenon DEF Page
  <2> QED BY <1>13, <2>2 DEF Page
<1> HIDE DEF b
<1>16. q \in Page /\ q.queue = s /\ q.next = 1 /\ q.doc = d /\ q.wire = p.wire
       /\ q.waiting = <<>>
  <2>1. b.queue \o s \in Seq(Chunk) /\ b.queue \o s = s
    BY <1>2, <1>15
  <2>2. q \in Page
    BY <1>15, <2>1, Zenon DEF Page
  <2> QED BY <1>15, <2>1, <2>2 DEF Page
<1> HIDE DEF q
<1>17. InFlight(q) = Chunks(p.wire) \cup {s[1]}
  BY <1>2, <1>16 DEF InFlight
<1>18. \A f \in Chunks(p.wire) : f.doc # Child => f.doc < d
  <2>1. CASE p.wire = <<>>
    BY <2>1, RangeEmpty DEF Chunks
  <2>2. CASE d > p.doc
    <3> SUFFICES ASSUME NEW f \in Chunks(p.wire), f.doc # Child PROVE f.doc < d
      OBVIOUS
    <3>1. f \in Own(p) /\ f.doc \in Nat
      BY FlightTypes, ChunkFields DEF Own, InFlight
    <3>2. p.doc \in Nat /\ d \in Nat
      BY <1>1, PageFields DEF DocNo
    <3>3. f.doc <= p.doc
      BY <3>1, <3>2 DEF PageOK
    <3> QED BY <2>2, <3>1, <3>2, <3>3
  <2> QED BY <2>1, <2>2
<1>19. PageOK(q)
  <2>1. \A f \in InFlight(q) : ChunkOK(f)
    BY <1>2, <1>17 DEF PageOK, InFlight
  <2>2. Sorted(q.wire) /\ Sorted(q.queue)
    BY <1>2, <1>16 DEF PageOK
  <2>3. \A f \in Own(q) : f.doc < q.doc \/ (f.doc = q.doc /\ f.id < q.next)
    BY <1>2, <1>16, <1>17, <1>18 DEF Own
  <2>4. \A f \in Range(q.queue) : f.doc = q.doc
    BY <1>2, <1>16
  <2>5. \A f \in Chunks(q.wire), g \in Range(q.queue) : f.doc # Child => Before(f, g)
    BY <1>2, <1>16, <1>18 DEF Before
  <2> QED BY <1>16, <2>1, <2>2, <2>3, <2>4, <2>5 DEF PageOK
<1>20. s[1].msg.k = "hello"
  BY <1>2 DEF Hello
<1> HIDE DEF s
<1> QED BY <1>2, <1>14, <1>16, <1>17, <1>19, <1>20

-----------------------------------------------------------------------------
(* What each part of the invariant needs of a step. *)

LEMMA LinkFields ==
  ASSUME NEW l \in Link
  PROVE  /\ l.session \in Nat /\ l.attached \in BOOLEAN /\ l.docId \in Nat
         /\ l.seen \in SUBSET DocNo /\ l.cleaned \in SUBSET Key /\ l.bridgeReady \in Nat
         /\ l.acq \in Seq({"waiting", "done", "failed"}) /\ l.object \in Nat
         /\ l.nextReq \in Nat /\ l.pending \in SUBSET Registered /\ l.re \in Reassembler
         /\ l.stream \in Seq(Message) /\ l.re.completed \in Seq(Key)
         /\ l.re.partial \in SUBSET Kept
BY DEF Link, Reassembler

\* The keys the reassembler remembers.
LEMMA KeyTypes ==
  ASSUME NEW l \in Link
  PROVE  /\ \A key \in Range(l.re.completed) :
              key \in Key /\ key[1] \in Nat /\ key[2] \in Nat /\ key = <<key[1], key[2]>>
         /\ \A q \in l.re.partial :
              q.key \in Key /\ q.key[1] \in Nat /\ q.key[2] \in Nat /\ q.idx \in SUBSET Nat
<1>1. Range(l.re.completed) \subseteq Key /\ l.re.partial \subseteq Kept
  BY LinkFields, RangeIs
<1>2. \A key \in Key : key[1] \in Nat /\ key[2] \in Nat /\ key = <<key[1], key[2]>>
  BY DEF Key
<1>3. \A q \in Kept : q.key \in Key /\ q.idx \in SUBSET Nat
  BY DEF Kept
<1> QED BY <1>1, <1>2, <1>3

\* No command has a number that another had.
LEMMA NumbersStep ==
  ASSUME NumbersOK, link.nextReq' = link.nextReq,
         Carried(page', todo', link') \subseteq Carried(page, todo, link)
  PROVE  NumbersOK'
BY DEF NumbersOK

\* Carried is the union of what each carrier has.
LEMMA CarriedParts ==
  ASSUME NEW p, NEW q, NEW t, NEW u, NEW l, NEW m, NEW rest,
         Numbered(Calls(u)) \subseteq rest, Numbered(Range(q.waiting)) \subseteq rest,
         Results(InFlight(q)) \subseteq rest, Numbered(m.pending) \subseteq rest,
         rest = Carried(p, t, l)
  PROVE  Carried(q, u, m) \subseteq Carried(p, t, l)
BY DEF Carried

LEMMA CarriedHas ==
  ASSUME NEW p, NEW t, NEW l
  PROVE  /\ Numbered(Calls(t)) \subseteq Carried(p, t, l)
         /\ Numbered(Range(p.waiting)) \subseteq Carried(p, t, l)
         /\ Results(InFlight(p)) \subseteq Carried(p, t, l)
         /\ Numbered(l.pending) \subseteq Carried(p, t, l)
BY DEF Carried

LEMMA ResultsUnion ==
  ASSUME NEW A, NEW B
  PROVE  Results(A \cup B) = Results(A) \cup Results(B)
BY DEF Results

LEMMA NumberedSubset ==
  ASSUME NEW A, NEW B, A \subseteq B
  PROVE  Numbered(A) \subseteq Numbered(B)
BY DEF Numbered

\* The page says more, and the gateway does nothing.
LEMMA PageStep ==
  ASSUME IInv, Types', link.attached, UNCHANGED <<link, call>>,
         NEW new, Adds(page, page', new), SnapsFirst(new),
         Carried(page', todo', link) \subseteq Carried(page, todo, link),
         \A i \in 1..Len(link.acq) :
           (\E c \in Range(todo) \cup Range(page.wire) : Carries(c, i))
             => \E c \in Range(todo') \cup Range(page'.wire) : Carries(c, i)
  PROVE  IInv'
<1>1. page \in Page /\ page' \in Page /\ link \in Link
  BY DEF IInv, Types
<1>2. /\ page'.doc = page.doc /\ page'.next >= page.next /\ page.next \in Nat
      /\ page'.next \in Nat /\ page.doc \in Nat /\ page.doc # Child
      /\ InFlight(page') = InFlight(page) \cup new
      /\ \A f \in new : f.doc = Child \/ (f.doc = page.doc /\ f.id >= page.next)
  BY <1>1, PageFields DEF Adds
<1>3. \A f \in InFlight(page') : f.doc \in Nat /\ f.id \in Nat /\ f.idx \in Nat
  BY <1>1, FlightTypes, ChunkFields
<1>4. PageOK(page')
  BY DEF Adds
<1>5. NumbersOK'
  BY NumbersStep DEF IInv
<1>6. PendingOK'
  BY DEF IInv, PendingOK, Live
<1>7. BridgeOK'
  BY DEF IInv, BridgeOK, Live
<1>8. DocumentsOK'
  BY <1>2 DEF IInv, DocumentsOK
<1>9. ASSUME NEW d, Announced(d)
      PROVE  \E h \in InFlight(page') : h.doc = d /\ h.id = 0
  BY <1>2, <1>9 DEF Announced
<1>10. \A f \in Own(page') : f \in Own(page) \/ (f \in new /\ f.doc = page.doc /\ f.id >= page.next)
  BY <1>2 DEF Own
<1>11. HellosOK'
  <2>1. link.docId <= page.doc /\ link.docId \in Nat
    BY <1>1, LinkFields DEF IInv, DocumentsOK
  <2>2. \A f \in Own(page') : f.doc >= link.docId
    BY <1>2, <1>10, <2>1 DEF IInv, HellosOK
  <2>3. \A f \in Own(page') : f.doc # link.docId => Announced(f.doc)
    BY <1>10 DEF IInv, HellosOK
  <2>4. \A f \in Own(page') : f.doc # link.docId
          => \E h \in InFlight(page') : h.doc = f.doc /\ h.id = 0
    BY <1>9, <2>3
  <2>5. page.doc # link.docId => \E h \in InFlight(page') : h.doc = page.doc /\ h.id = 0
    <3>1. page.doc # link.docId => Announced(page.doc)
      BY DEF IInv, HellosOK
    <3> QED BY <1>9, <3>1
  <2> QED BY <1>2, <2>2, <2>4, <2>5 DEF HellosOK, Announced
<1>12. ReassemblyOK'
  <2>0. /\ \A key \in Range(link.re.completed) : key[1] \in Nat /\ key[2] \in Nat
        /\ \A q \in link.re.partial : q.key[1] \in Nat /\ q.key[2] \in Nat
    BY <1>1, KeyTypes
  <2>1. ASSUME NEW key, Spoken(key, page), key[1] \in Nat, key[2] \in Nat
        PROVE  Spoken(key, page')
    BY <1>2, <2>1 DEF Spoken
  <2>2. ASSUME NEW key, Spoken(key, page), key[1] \in Nat, key[2] \in Nat, NEW f \in new,
               f.id \in Nat, f.doc = page.doc, f.id >= page.next
        PROVE  Reached(key, f)
    BY <1>2, <2>2 DEF Spoken, Reached
  <2>3. \A key \in Range(link.re.completed) : key[1] = Child \/ Spoken(key, page)
    BY DEF IInv, ReassemblyOK
  <2>4. \A q \in link.re.partial : Spoken(q.key, page)
    BY DEF IInv, ReassemblyOK
  <2>5. ASSUME NEW f \in Own(page')
        PROVE  /\ \A key \in Range(link.re.completed) :
                    key[1] = Child \/ Reached(key, f)
                      \/ (key = <<f.doc, f.id>> /\ f.idx = f.total)
               /\ \A q \in link.re.partial :
                    \/ Reached(q.key, f)
                    \/ q.key = <<f.doc, f.id>> /\ f.total = 2 /\ \A i \in q.idx : i \in 1..f.idx
    <3>1. CASE f \in Own(page)
      BY <3>1 DEF IInv, ReassemblyOK
    <3>2. CASE f \in new /\ f.doc = page.doc /\ f.id >= page.next
      <4>1. f.id \in Nat
        BY <1>3 DEF Own
      <4> QED BY <2>0, <2>2, <2>3, <2>4, <3>2, <4>1
    <3> QED BY <1>10, <3>1, <3>2
  <2>6. Own(page)' = Own(page') /\ link' = link
    OBVIOUS
  <2>7. \A key \in Range(link.re.completed) : key[1] = Child \/ Spoken(key, page')
    BY <2>0, <2>1, <2>3
  <2>8. \A q \in link.re.partial : Spoken(q.key, page')
    BY <2>0, <2>1, <2>4
  <2> QED BY <2>5, <2>6, <2>7, <2>8 DEF ReassemblyOK
<1>13. SnapshotsOK'
  <2>1. ASSUME NEW n, InStream(n) PROVE InStream(n)'
    BY <2>1 DEF InStream
  <2>2. ASSUME NEW n, NEW r, Coming(n, r) PROVE Coming(n, r)'
    <3>1. Own(page) \subseteq Own(page')
      BY <1>2 DEF Own
    <3> QED BY <2>2, <3>1 DEF Coming
  <2>3. ASSUME NEW r \in Own(page'), NEW n \in Snapshot, r.msg.k = "cmdres", r.msg.ok,
               r.msg.for = {n}
        PROVE  (InStream(n) \/ Coming(n, r))'
    <3>1. CASE r \in Own(page)
      <4>1. InStream(n) \/ Coming(n, r)
        BY <2>3, <3>1 DEF IInv, SnapshotsOK
      <4> QED BY <2>1, <2>2, <4>1
    <3>2. CASE r \in new
      <4>1. PICK e \in new, g \in new :
              /\ e.doc = r.doc /\ e.id < r.id /\ e.idx = 2 /\ e.msg.k = "rrweb" /\ e.msg.for = {n}
              /\ g.doc = e.doc /\ g.id = e.id /\ g.idx = 1 /\ g.msg = e.msg
        BY <2>3, <3>2 DEF SnapsFirst
      <4>2. r.doc # Child
        BY DEF Own
      <4>3. e \in Own(page') /\ g \in Own(page')
        BY <1>2, <4>1, <4>2 DEF Own
      <4>4. e.doc = page.doc /\ e.id >= page.next
        BY <1>2, <4>1, <4>2
      <4>5. <<e.doc, e.id>> \notin Range(link.re.completed)
        <5> SUFFICES ASSUME <<e.doc, e.id>> \in Range(link.re.completed) PROVE FALSE
          OBVIOUS
        <5> DEFINE key == <<e.doc, e.id>>
        <5>1. key[1] = Child \/ Spoken(key, page)
          BY DEF IInv, ReassemblyOK
        <5>2. key[1] = e.doc /\ key[2] = e.id
          OBVIOUS
        <5> HIDE DEF key
        <5>3. e.id \in Nat
          BY <1>3, <4>3 DEF Own
        <5> QED BY <1>2, <4>4, <5>1, <5>2, <5>3 DEF Spoken
      <4>6. \E x \in Own(page') : x.doc = e.doc /\ x.id = e.id /\ x.idx = 1 /\ x.msg = e.msg
        BY <4>1, <4>3
      <4>7. Own(page)' = Own(page') /\ link' = link
        OBVIOUS
      <4>8. Coming(n, r)'
        BY <4>1, <4>3, <4>5, <4>6, <4>7 DEF Coming
      <4> QED BY <4>8
    <3> QED BY <1>10, <3>1, <3>2
  <2> QED BY <2>3 DEF SnapshotsOK
<1>14. AnswersMatch'
  BY DEF IInv, AnswersMatch
<1>15. SnapshotBeforeAnswer'
  BY DEF IInv, SnapshotBeforeAnswer, Live
<1> QED BY <1>4, <1>5, <1>6, <1>7, <1>8, <1>11, <1>12, <1>13, <1>14, <1>15 DEF IInv

\* Numbers that only move stay whose they are.
LEMMA CarriedMoves ==
  ASSUME NEW p, NEW q, NEW t, NEW u, NEW l, NEW new,
         InFlight(q) = InFlight(p) \cup new, Results(new) \subseteq Carried(p, t, l),
         Numbered(Range(q.waiting)) \subseteq Carried(p, t, l),
         Numbered(Calls(u)) \subseteq Carried(p, t, l)
  PROVE  Carried(q, u, l) \subseteq Carried(p, t, l)
<1>1. Results(InFlight(q)) \subseteq Carried(p, t, l)
  BY ResultsUnion, CarriedHas
<1>2. Numbered(l.pending) \subseteq Carried(p, t, l)
  BY CarriedHas
<1> QED BY <1>1, <1>2, CarriedParts

LEMMA CarriedFewer ==
  ASSUME NEW p, NEW q, NEW t, NEW u, NEW l, NEW m,
         InFlight(q) \subseteq InFlight(p), Range(q.waiting) \subseteq Range(p.waiting),
         Calls(u) \subseteq Calls(t), m.pending \subseteq l.pending
  PROVE  Carried(q, u, m) \subseteq Carried(p, t, l)
<1>1. Results(InFlight(q)) \subseteq Results(InFlight(p))
  BY DEF Results
<1>2. /\ Numbered(Calls(u)) \subseteq Numbered(Calls(t))
      /\ Numbered(Range(q.waiting)) \subseteq Numbered(Range(p.waiting))
      /\ Numbered(m.pending) \subseteq Numbered(l.pending)
  BY NumberedSubset
<1> QED BY <1>1, <1>2 DEF Carried

\* An action of the page alone, that answers no command, or one that waited.
LEMMA PageActs ==
  ASSUME IInv, link.attached, UNCHANGED <<todo, link, call>>,
         left' \in [events: 0..MaxEvents, odd: 0..MaxOdd],
         NEW new, Adds(page, page', new), SnapsFirst(new),
         Results(new) \subseteq Numbered(Range(page.waiting)),
         Range(page'.waiting) \subseteq Range(page.waiting)
  PROVE  IInv'
<1>1. Types'
  BY DEF IInv, Types, Adds
<1>2. Numbered(Range(page.waiting)) \subseteq Carried(page, todo, link)
  BY CarriedHas
<1>3. Numbered(Range(page'.waiting)) \subseteq Carried(page, todo, link)
  BY <1>2, NumberedSubset
<1>4. Numbered(Calls(todo)) \subseteq Carried(page, todo, link)
  BY CarriedHas
<1>5. InFlight(page') = InFlight(page) \cup new /\ Range(page.wire) \subseteq Range(page'.wire)
  BY DEF Adds
<1>6. Carried(page', todo', link) \subseteq Carried(page, todo, link)
  BY <1>2, <1>3, <1>4, <1>5, CarriedMoves
<1>7. \A i \in 1..Len(link.acq) :
        (\E c \in Range(todo) \cup Range(page.wire) : Carries(c, i))
          => \E c \in Range(todo') \cup Range(page'.wire) : Carries(c, i)
  BY <1>5
<1> QED BY <1>1, <1>6, <1>7, PageStep

\* What an event is not.
LEMMA EventsAnswerNothing ==
  ASSUME NEW new, \A f \in new : f.msg.k # "cmdres"
  PROVE  SnapsFirst(new) /\ Results(new) = {}
BY DEF SnapsFirst, Results

LEMMA PageTypes ==
  ASSUME IInv
  PROVE  /\ page \in Page /\ PageOK(page) /\ todo \in Seq(Todo) /\ link \in Link
         /\ call \in [Call -> CallState] /\ left \in [events: 0..MaxEvents, odd: 0..MaxOdd]
BY DEF IInv, Types

LEMMA LeftOdd ==
  ASSUME IInv, Odd
  PROVE  left' \in [events: 0..MaxEvents, odd: 0..MaxOdd]
<1>1. left \in [events: 0..MaxEvents, odd: 0..MaxOdd]
  BY PageTypes
<1>2. left.odd \in 0..MaxOdd
  BY <1>1
<1>3. left.odd - 1 \in 0..MaxOdd
  BY <1>2, AgentLinkAssumption DEF Odd
<1>4. left' = [left EXCEPT !.odd = left.odd - 1]
  BY DEF Odd
<1> QED BY <1>1, <1>3, <1>4, Zenon

LEMMA BindWorldStep ==
  ASSUME IInv, BindWorld
  PROVE  IInv'
<1>1. page \in Page /\ PageOK(page) /\ left \in [events: 0..MaxEvents, odd: 0..MaxOdd]
  BY PageTypes
<1>2. /\ link.attached /\ page' = [page EXCEPT !.ready = TRUE]
      /\ UNCHANGED <<todo, link, call, left>>
  BY DEF BindWorld
<1>3. page' \in Page
  BY <1>1, <1>2, Zenon DEF Page
<1>4. /\ page'.wire = page.wire /\ page'.queue = page.queue /\ page'.doc = page.doc
      /\ page'.next = page.next /\ page'.waiting = page.waiting
  BY <1>1, <1>2 DEF Page
<1>5. Adds(page, page', {})
  BY <1>1, <1>3, <1>4, AddsNothing
<1>6. SnapsFirst({}) /\ Results({}) = {}
  BY EventsAnswerNothing
<1> QED BY <1>1, <1>2, <1>4, <1>5, <1>6, PageActs

\* What waited in the page is on the wire, in the same order.
LEMMA FlushStep ==
  ASSUME IInv, Flush
  PROVE  IInv'
<1>1. page \in Page /\ PageOK(page) /\ left \in [events: 0..MaxEvents, odd: 0..MaxOdd]
  BY PageTypes
<1>2. /\ link.attached /\ page' = [page EXCEPT !.wire = @ \o page.queue, !.queue = <<>>]
      /\ UNCHANGED <<todo, link, call, left>>
  BY DEF Flush
<1>3. page.wire \in Seq(Frame) /\ page.queue \in Seq(Chunk) /\ page.queue \in Seq(Frame)
      /\ page.next \in Nat
  BY <1>1, PageFields DEF Frame
<1> DEFINE a == [page EXCEPT !.wire = @ \o page.queue]
<1>4. a \in Page
  <2>1. page.wire \o page.queue \in Seq(Frame)
    BY <1>3
  <2> QED BY <1>1, <2>1, Zenon DEF Page
<1>5. page' = [a EXCEPT !.queue = <<>>]
  BY <1>2
<1>6. page' \in Page
  <2>1. <<>> \in Seq(Chunk)
    OBVIOUS
  <2> HIDE DEF a
  <2> QED BY <1>4, <1>5, <2>1, Zenon DEF Page
<1>7. /\ page'.wire = page.wire \o page.queue /\ page'.queue = <<>> /\ page'.doc = page.doc
      /\ page'.next = page.next /\ page'.waiting = page.waiting
  BY <1>1, <1>2 DEF Page
<1> HIDE DEF a
<1>8. Range(page'.wire) = Range(page.wire) \cup Range(page.queue) /\ Range(page'.queue) = {}
  BY <1>3, <1>7, RangeConcat, RangeEmpty
<1>9. \A f \in Range(page.queue) : f.k = "chunk"
  BY <1>3, RangeIs, ChunkFields
<1>10. InFlight(page') = InFlight(page)
  BY <1>8, <1>9 DEF InFlight, Chunks
<1>11. Sorted(page'.wire)
  <2>1. Sorted(page.wire) /\ Sorted(page.queue)
    BY <1>1 DEF PageOK
  <2>2. \A f \in Range(page.wire), g \in Range(page.queue) :
          f.k = "chunk" /\ f.doc # Child => Before(f, g)
    BY <1>1 DEF PageOK, Chunks
  <2> QED BY <1>3, <1>7, <2>1, <2>2, SortedConcat
<1>12. PageOK(page')
  <2>1. Own(page') = Own(page)
    BY <1>10 DEF Own
  <2>2. Sorted(page'.queue)
    BY <1>7 DEF Sorted
  <2> QED BY <1>1, <1>7, <1>8, <1>10, <1>11, <2>1, <2>2 DEF PageOK
<1>13. Adds(page, page', {})
  BY <1>3, <1>6, <1>7, <1>8, <1>10, <1>12 DEF Adds
<1>14. SnapsFirst({}) /\ Results({}) = {}
  BY EventsAnswerNothing
<1> QED BY <1>1, <1>2, <1>7, <1>13, <1>14, PageActs

LEMMA StartRecordingStep ==
  ASSUME IInv, StartRecording
  PROVE  IInv'
<1>1. page \in Page /\ PageOK(page) /\ left \in [events: 0..MaxEvents, odd: 0..MaxOdd]
  BY PageTypes
<1> DEFINE a == [page EXCEPT !.recording = TRUE]
           q == EmitEvent(a, {None})
<1>2. /\ link.attached /\ page' = q /\ UNCHANGED <<todo, link, call, left>>
  BY DEF StartRecording
<1>3. a \in Page
  BY <1>1, Zenon DEF Page
<1>4. /\ a.wire = page.wire /\ a.queue = page.queue /\ a.doc = page.doc
      /\ a.next = page.next /\ a.waiting = page.waiting
  BY <1>1 DEF Page
<1> HIDE DEF a
<1>5. PageOK(a) /\ Adds(page, a, {})
  BY <1>1, <1>3, <1>4, PageSame, AddsNothing
<1>6. {None} \in SUBSET Whose
  BY DEF Whose
<1>7. PICK new : /\ Adds(a, q, new) /\ q.waiting = a.waiting
                 /\ \A f \in new : f.msg.k = "rrweb"
  BY <1>3, <1>5, <1>6, EventFacts
<1> HIDE DEF q
<1>8. Adds(page, page', new)
  <2>1. Adds(page, q, {} \cup new)
    BY <1>1, <1>5, <1>7, AddsTwice
  <2> QED BY <1>2, <2>1
<1>9. SnapsFirst(new) /\ Results(new) = {}
  BY <1>7, EventsAnswerNothing
<1> QED BY <1>1, <1>2, <1>4, <1>7, <1>8, <1>9, PageActs

LEMMA MutateStep ==
  ASSUME IInv, Mutate
  PROVE  IInv'
<1>1. page \in Page /\ PageOK(page) /\ left \in [events: 0..MaxEvents, odd: 0..MaxOdd]
  BY PageTypes
<1> DEFINE q == EmitEvent(page, {})
<1>2. /\ link.attached /\ page' = q /\ UNCHANGED <<todo, link, call>>
      /\ left' = [left EXCEPT !.events = @ - 1] /\ left.events > 0
  BY DEF Mutate
<1>3. left' \in [events: 0..MaxEvents, odd: 0..MaxOdd]
  <2>1. left.events \in 0..MaxEvents
    BY <1>1
  <2>2. left.events - 1 \in 0..MaxEvents
    BY <1>2, <2>1, AgentLinkAssumption
  <2> QED BY <1>1, <1>2, <2>2, Zenon
<1>4. {} \in SUBSET Whose
  OBVIOUS
<1>5. PICK new : /\ Adds(page, q, new) /\ q.waiting = page.waiting
                 /\ \A f \in new : f.msg.k = "rrweb"
  BY <1>1, <1>4, EventFacts
<1> HIDE DEF q
<1>6. SnapsFirst(new) /\ Results(new) = {}
  BY <1>5, EventsAnswerNothing
<1> QED BY <1>1, <1>2, <1>3, <1>5, <1>6, PageActs

\* The first of the commands that wait, and the others.
LEMMA FirstWaits ==
  ASSUME NEW p \in Page, p.waiting # <<>>, PageOK(p)
  PROVE  LET a == [p EXCEPT !.waiting = Tail(@)]
         IN /\ a \in Page /\ PageOK(a) /\ Adds(p, a, {}) /\ Head(p.waiting) \in CallCmd
            /\ {Head(p.waiting)} \subseteq Range(p.waiting)
            /\ Range(a.waiting) \subseteq Range(p.waiting)
<1> DEFINE a == [p EXCEPT !.waiting = Tail(@)]
<1>1. p.waiting \in Seq(CallCmd)
  BY PageFields
<1>2. /\ Tail(p.waiting) \in Seq(CallCmd) /\ Head(p.waiting) \in CallCmd
      /\ Range(p.waiting) = {Head(p.waiting)} \cup Range(Tail(p.waiting))
  BY <1>1, RangeTail
<1>3. a \in Page
  BY <1>2, Zenon DEF Page
<1>4. /\ a.wire = p.wire /\ a.queue = p.queue /\ a.doc = p.doc /\ a.next = p.next
      /\ a.waiting = Tail(p.waiting)
  BY DEF Page
<1> HIDE DEF a
<1>5. PageOK(a) /\ Adds(p, a, {})
  BY <1>3, <1>4, PageSame, AddsNothing
<1> QED BY <1>2, <1>3, <1>4, <1>5 DEF a

LEMMA ResumeSnapshotStep ==
  ASSUME IInv, ResumeSnapshot
  PROVE  IInv'
<1>1. page \in Page /\ PageOK(page) /\ left \in [events: 0..MaxEvents, odd: 0..MaxOdd]
  BY PageTypes
<1> DEFINE a == [page EXCEPT !.waiting = Tail(@)]
           c == Head(page.waiting)
<1>2. /\ link.attached /\ UNCHANGED <<todo, link, call, left>> /\ page.waiting # <<>>
      /\ \E ok \in BOOLEAN : page' = EmitSnapshot(a, c, ok)
  BY DEF ResumeSnapshot, PageIdle
<1>3. /\ a \in Page /\ PageOK(a) /\ Adds(page, a, {}) /\ c \in CallCmd
      /\ {c} \subseteq Range(page.waiting) /\ Range(a.waiting) \subseteq Range(page.waiting)
  BY <1>1, <1>2, FirstWaits
<1>4. PICK ok \in BOOLEAN : page' = EmitSnapshot(a, c, ok)
  BY <1>2
<1> HIDE DEF a, c
<1>5. PICK new : /\ Adds(a, page', new) /\ page'.waiting = a.waiting /\ SnapsFirst(new)
                 /\ Results(new) \subseteq Numbered({c})
  BY <1>3, <1>4, SnapshotFacts
<1>6. Adds(page, page', new)
  <2>1. Adds(page, page', {} \cup new)
    BY <1>1, <1>3, <1>5, AddsTwice
  <2> QED BY <2>1
<1>7. Results(new) \subseteq Numbered(Range(page.waiting))
  BY <1>3, <1>5, NumberedSubset
<1> QED BY <1>1, <1>2, <1>3, <1>5, <1>6, <1>7, PageActs

LEMMA SnapshotTimeoutStep ==
  ASSUME IInv, SnapshotTimeout
  PROVE  IInv'
<1>1. page \in Page /\ PageOK(page) /\ left \in [events: 0..MaxEvents, odd: 0..MaxOdd]
  BY PageTypes
<1> DEFINE a == [page EXCEPT !.waiting = Tail(@)]
           c == Head(page.waiting)
<1>2. /\ link.attached /\ UNCHANGED <<todo, link, call, left>> /\ page.waiting # <<>>
      /\ page' = Answer(a, c, FALSE)
  BY DEF SnapshotTimeout
<1>3. /\ a \in Page /\ PageOK(a) /\ Adds(page, a, {}) /\ c \in CallCmd
      /\ {c} \subseteq Range(page.waiting) /\ Range(a.waiting) \subseteq Range(page.waiting)
  BY <1>1, <1>2, FirstWaits
<1> HIDE DEF a, c
<1>4. PICK new : /\ Adds(a, page', new) /\ page'.waiting = a.waiting /\ SnapsFirst(new)
                 /\ Results(new) \subseteq Numbered({c})
  <2>1. FALSE \in BOOLEAN /\ (FALSE => c.n \notin Snapshot)
    OBVIOUS
  <2> QED BY <1>2, <1>3, <2>1, PlainAnswer
<1>5. Adds(page, page', new)
  <2>1. Adds(page, page', {} \cup new)
    BY <1>1, <1>3, <1>4, AddsTwice
  <2> QED BY <2>1
<1>6. Results(new) \subseteq Numbered(Range(page.waiting))
  BY <1>3, <1>4, NumberedSubset
<1> QED BY <1>1, <1>2, <1>3, <1>4, <1>5, <1>6, PageActs

LEMMA ChildFrameStep ==
  ASSUME IInv, ChildFrame
  PROVE  IInv'
<1>1. page \in Page /\ PageOK(page)
  BY PageTypes
<1> DEFINE s == EncodeChunks(Child, 0, Hello(Child))
           q == [page EXCEPT !.wire = @ \o s]
<1>2. /\ link.attached /\ page' = q /\ UNCHANGED <<todo, link, call>> /\ Odd
  BY DEF ChildFrame
<1>3. Child \in Nat /\ Child \in DocNo
  BY AgentLinkAssumption DEF Child, DocNo
<1>4. /\ s \in Seq(Chunk) /\ Range(s) = {s[1]} /\ ChunkOK(s[1]) /\ s[1] \in Chunk
      /\ s[1].doc = Child /\ s[1].msg = Hello(Child)
  BY <1>3, HelloFacts
<1>5. s[1].msg.k = "hello"
  BY <1>4 DEF Hello
<1> HIDE DEF s
<1>6. s \in Seq(Frame) /\ \A x \in Range(s) : x.doc = Child /\ ChunkOK(x)
  BY <1>4 DEF Frame
<1>7. Adds(page, q, Chunks(s)) /\ q.waiting = page.waiting
  BY <1>1, <1>6, AsideFacts
<1> HIDE DEF q
<1>8. SnapsFirst(Chunks(s)) /\ Results(Chunks(s)) = {}
  BY <1>4, <1>5, EventsAnswerNothing DEF Chunks
<1>9. left' \in [events: 0..MaxEvents, odd: 0..MaxOdd]
  BY <1>2, LeftOdd
<1> QED BY <1>2, <1>7, <1>8, <1>9, PageActs

\* Another document: of the old one only what is on the wire arrives.
LEMMA NavigateStep ==
  ASSUME IInv, Navigate
  PROVE  IInv'
<1>1. page \in Page /\ PageOK(page) /\ link \in Link
  BY PageTypes
<1>2. /\ link.attached /\ UNCHANGED <<todo, link, call, left>> /\ page.doc < MaxDocs
      /\ \E ctx \in {page.doc + 1} \cup (IF Reuse THEN {page.ctx} ELSE {}) :
           page' = Loaded(page, page.doc + 1, ctx)
  BY DEF Navigate
<1> DEFINE d == page.doc + 1
<1>3. d \in Doc /\ d > page.doc /\ page.ctx \in Doc /\ page.doc \in Nat /\ d \in Nat /\ d # Child
  BY <1>1, <1>2, PageFields, AgentLinkAssumption DEF Doc, Child
<1>4. PICK ctx \in Doc : page' = Loaded(page, d, ctx)
  BY <1>2, <1>3
<1> HIDE DEF d
<1>5. /\ page' \in Page /\ PageOK(page') /\ page'.doc = d /\ page'.next = 1
      /\ page'.waiting = <<>> /\ page'.wire = page.wire
      /\ \E h : /\ InFlight(page') = Chunks(page.wire) \cup {h} /\ h.doc = d /\ h.id = 0
                /\ h.msg.k = "hello"
  BY <1>1, <1>3, <1>4, LoadedFacts
<1>6. PICK h : /\ InFlight(page') = Chunks(page.wire) \cup {h} /\ h.doc = d /\ h.id = 0
               /\ h.msg.k = "hello"
  BY <1>5
<1>7. Own(page') = {f \in Chunks(page.wire) : f.doc # Child} \cup {h}
  BY <1>3, <1>6 DEF Own
<1>8. \A f \in Own(page') : f \in Own(page) \/ f = h
  BY <1>7 DEF Own, InFlight
<1>9. \A f \in InFlight(page) : f.doc \in Nat /\ f.id \in Nat /\ f.idx \in Nat
  BY <1>1, FlightTypes, ChunkFields
<1>10. Types'
  BY <1>2, <1>5 DEF IInv, Types
<1>11. NumbersOK'
  <2>1. Results(InFlight(page')) \subseteq Results(InFlight(page))
    BY <1>6 DEF Results, InFlight
  <2>2. Range(page'.waiting) = {}
    BY <1>5, RangeEmpty
  <2>3. Numbered(Range(page'.waiting)) = {}
    BY <2>2 DEF Numbered
  <2>4. Carried(page', todo, link) \subseteq Carried(page, todo, link)
    BY <2>1, <2>3, CarriedHas, CarriedParts
  <2> QED BY <1>2, <2>4, NumbersStep DEF IInv
<1>12. PendingOK'
  BY <1>2 DEF IInv, PendingOK, Live
<1>13. BridgeOK'
  BY <1>2, <1>5 DEF IInv, BridgeOK, Live
<1>14. DocumentsOK'
  <2>1. link.docId <= page.doc /\ link.docId \in Nat
    BY <1>1, LinkFields DEF IInv, DocumentsOK
  <2>2. link.docId <= page'.doc
    BY <1>3, <1>5, <2>1
  <2> QED BY <1>2, <2>2 DEF IInv, DocumentsOK
<1>15. HellosOK'
  <2>1. link.docId <= page.doc /\ link.docId \in Nat
    BY <1>1, LinkFields DEF IInv, DocumentsOK
  <2>2. \A f \in Own(page') : f.doc >= link.docId
    BY <1>2, <1>3, <1>6, <1>8, <2>1 DEF IInv, HellosOK
  <2>3. ASSUME NEW f \in Own(page'), f.doc # link.docId
        PROVE  \E x \in InFlight(page') : x.doc = f.doc /\ x.id = 0
    <3>1. CASE f = h
      BY <1>6, <3>1
    <3>2. CASE f \in Own(page) /\ f \in Chunks(page.wire)
      <4>1. PICK x \in InFlight(page) : x.doc = f.doc /\ x.id = 0
        BY <1>2, <2>3, <3>2 DEF IInv, HellosOK, Announced
      <4>2. CASE x \in Chunks(page.wire)
        BY <1>6, <4>1, <4>2
      <4>3. CASE x \in Range(page.queue)
        <5>1. Before(f, x)
          BY <1>1, <3>2, <4>3 DEF PageOK, Own
        <5>2. f.id = 0
          BY <1>9, <3>2, <4>1, <5>1 DEF Before, Own
        <5> QED BY <1>6, <3>2, <5>2
      <4> QED BY <4>1, <4>2, <4>3 DEF InFlight
    <3> QED BY <1>7, <1>8, <3>1, <3>2
  <2>4. \E x \in InFlight(page') : x.doc = d /\ x.id = 0
    BY <1>6
  <2> QED BY <1>2, <1>5, <2>2, <2>3, <2>4 DEF HellosOK, Announced
<1>16. ReassemblyOK'
  <2>0. /\ \A key \in Range(link.re.completed) : key[1] \in Nat /\ key[2] \in Nat
        /\ \A q \in link.re.partial : q.key[1] \in Nat /\ q.key[2] \in Nat
    BY <1>1, KeyTypes
  <2>1. ASSUME NEW key, Spoken(key, page), key[1] \in Nat
        PROVE  Spoken(key, page') /\ Reached(key, h)
    BY <1>3, <1>5, <1>6, <2>1 DEF Spoken, Reached, d
  <2>3. \A key \in Range(link.re.completed) :
          key[1] = Child \/ (Spoken(key, page') /\ Reached(key, h))
    BY <2>0, <2>1 DEF IInv, ReassemblyOK
  <2>4. \A q \in link.re.partial : Spoken(q.key, page') /\ Reached(q.key, h)
    BY <2>0, <2>1 DEF IInv, ReassemblyOK
  <2>5. ASSUME NEW f \in Own(page')
        PROVE  /\ \A key \in Range(link.re.completed) :
                    key[1] = Child \/ Reached(key, f)
                      \/ (key = <<f.doc, f.id>> /\ f.idx = f.total)
               /\ \A q \in link.re.partial :
                    \/ Reached(q.key, f)
                    \/ q.key = <<f.doc, f.id>> /\ f.total = 2 /\ \A i \in q.idx : i \in 1..f.idx
    <3>1. CASE f \in Own(page)
      BY <1>2, <3>1 DEF IInv, ReassemblyOK
    <3>2. CASE f = h
      BY <2>3, <2>4, <3>2
    <3> QED BY <1>8, <3>1, <3>2
  <2>6. Own(page)' = Own(page') /\ link' = link
    BY <1>2
  <2> QED BY <2>3, <2>4, <2>5, <2>6 DEF ReassemblyOK
<1>17. SnapshotsOK'
  <2>1. ASSUME NEW r \in Own(page'), NEW n \in Snapshot, r.msg.k = "cmdres", r.msg.ok,
               r.msg.for = {n}
        PROVE  (InStream(n) \/ Coming(n, r))'
    <3>1. r \in Own(page) /\ r \in Chunks(page.wire)
      BY <1>6, <1>7, <1>8, <2>1
    <3>2. InStream(n) \/ Coming(n, r)
      BY <1>2, <2>1, <3>1 DEF IInv, SnapshotsOK
    <3>3. CASE InStream(n)
      BY <1>2, <3>3 DEF InStream
    <3>4. CASE Coming(n, r)
      <4>1. ASSUME NEW e \in Own(page), e.doc = r.doc, e.id < r.id PROVE e \in Own(page')
        <5>1. CASE e \in Range(page.queue)
          <6>1. Before(r, e)
            BY <1>1, <3>1, <5>1 DEF PageOK, Own
          <6> QED BY <1>9, <3>1, <4>1, <6>1 DEF Before, Own
        <5>2. CASE e \in Chunks(page.wire)
          BY <1>7, <5>2 DEF Own
        <5> QED BY <5>1, <5>2 DEF Own, InFlight
      <4>2. PICK e \in Own(page) :
              /\ e.doc = r.doc /\ e.id < r.id /\ e.idx = 2 /\ e.msg.k = "rrweb"
              /\ e.msg.for = {n} /\ <<e.doc, e.id>> \notin Range(link.re.completed)
              /\ \/ \E g \in Own(page) : /\ g.doc = e.doc /\ g.id = e.id /\ g.idx = 1
                                         /\ g.msg = e.msg
                 \/ \E q \in link.re.partial : q.key = <<e.doc, e.id>> /\ 1 \in q.idx
        BY <3>4 DEF Coming
      <4>3. e \in Own(page')
        BY <4>1, <4>2
      <4>4. \/ \E g \in Own(page') : g.doc = e.doc /\ g.id = e.id /\ g.idx = 1 /\ g.msg = e.msg
            \/ \E q \in link.re.partial : q.key = <<e.doc, e.id>> /\ 1 \in q.idx
        BY <4>1, <4>2
      <4>5. Own(page)' = Own(page') /\ link' = link
        BY <1>2
      <4> QED BY <4>2, <4>3, <4>4, <4>5 DEF Coming
    <3> QED BY <3>2, <3>3, <3>4
  <2> QED BY <2>1 DEF SnapshotsOK
<1>18. AnswersMatch' /\ SnapshotBeforeAnswer'
  BY <1>2 DEF IInv, AnswersMatch, SnapshotBeforeAnswer, Live
<1> QED BY <1>5, <1>10, <1>11, <1>12, <1>13, <1>14, <1>15, <1>16, <1>17, <1>18 DEF IInv

\* What is left to do is a part of what there was.
LEMMA FirstTodo ==
  ASSUME NEW t \in Seq(Todo), t # <<>>
  PROVE  /\ Head(t) \in Todo /\ Tail(t) \in Seq(Todo)
         /\ Range(t) = {Head(t)} \cup Range(Tail(t))
         /\ Calls(Tail(t)) \subseteq Calls(t)
         /\ Head(t).k = "call" => {Head(t)} \subseteq Calls(t)
<1>1. /\ Head(t) \in Todo /\ Tail(t) \in Seq(Todo)
      /\ Range(t) = {Head(t)} \cup Range(Tail(t))
  BY RangeTail
<1> QED BY <1>1 DEF Calls

\* Chromium runs a call: the agent handles a command, or the call is answered.
LEMMA HandleFacts ==
  ASSUME NEW p \in Page, PageOK(p), NEW c \in CallCmd, NEW ok \in BOOLEAN
  PROVE  LET q == Handle(p, c, ok)
         IN \E new : /\ Adds(p, q, new) /\ SnapsFirst(new) /\ Results(new) \subseteq Numbered({c})
                     /\ Range(q.waiting) \subseteq Range(p.waiting) \cup {c}
<1>1. CASE c.n \notin Snapshot
  <2>1. Handle(p, c, ok) = Answer(p, c, TRUE)
    BY <1>1 DEF Handle
  <2>2. TRUE \in BOOLEAN /\ (TRUE => c.n \notin Snapshot)
    BY <1>1
  <2> DEFINE q == Answer(p, c, TRUE)
  <2>3. PICK new : /\ Adds(p, q, new) /\ q.waiting = p.waiting /\ SnapsFirst(new)
                   /\ Results(new) \subseteq Numbered({c})
    BY <2>2, PlainAnswer
  <2> HIDE DEF q
  <2>4. Range(q.waiting) \subseteq Range(p.waiting) \cup {c}
    BY <2>3
  <2> QED BY <2>1, <2>3, <2>4 DEF q
<1>2. CASE c.n \in Snapshot /\ p.recording
  <2> DEFINE q == EmitSnapshot(p, c, ok)
  <2>1. Handle(p, c, ok) = q
    BY <1>2 DEF Handle
  <2>2. PICK new : /\ Adds(p, q, new) /\ q.waiting = p.waiting /\ SnapsFirst(new)
                   /\ Results(new) \subseteq Numbered({c})
    BY SnapshotFacts
  <2> HIDE DEF q
  <2>3. Range(q.waiting) \subseteq Range(p.waiting) \cup {c}
    BY <2>2
  <2> QED BY <2>1, <2>2, <2>3
<1>3. CASE c.n \in Snapshot /\ ~p.recording
  <2> DEFINE q == [p EXCEPT !.waiting = Append(@, c)]
  <2>1. Handle(p, c, ok) = q
    BY <1>3 DEF Handle
  <2>2. p.waiting \in Seq(CallCmd)
    BY PageFields
  <2>3. q \in Page
    <3>1. Append(p.waiting, c) \in Seq(CallCmd)
      BY <2>2
    <3> QED BY <3>1, Zenon DEF Page
  <2>4. /\ q.wire = p.wire /\ q.queue = p.queue /\ q.doc = p.doc /\ q.next = p.next
        /\ q.waiting = Append(p.waiting, c)
    BY DEF Page
  <2> HIDE DEF q
  <2>5. Adds(p, q, {})
    BY <2>3, <2>4, AddsNothing
  <2>6. Range(q.waiting) = Range(p.waiting) \cup {c}
    BY <2>2, <2>4, RangeAppend
  <2>7. SnapsFirst({}) /\ Results({}) = {}
    BY EventsAnswerNothing
  <2> QED BY <2>1, <2>5, <2>6, <2>7
<1> QED BY <1>1, <1>2, <1>3

LEMMA PerformStep ==
  ASSUME IInv, Perform
  PROVE  IInv'
<1>1. page \in Page /\ PageOK(page) /\ todo \in Seq(Todo) /\ page.doc \in Nat
  BY PageTypes, PageFields
<1> DEFINE c == Head(todo)
<1>2. /\ link.attached /\ todo # <<>> /\ todo' = Tail(todo) /\ UNCHANGED <<link, call, left>>
      /\ \E ok \in BOOLEAN : page' = Performed(c, ok)
  BY DEF Perform
<1>3. /\ c \in Todo /\ Tail(todo) \in Seq(Todo) /\ Range(todo) = {c} \cup Range(todo')
      /\ Calls(todo') \subseteq Calls(todo) /\ (c.k = "call" => {c} \subseteq Calls(todo))
  BY <1>1, <1>2, FirstTodo
<1>4. PICK ok \in BOOLEAN : page' = Performed(c, ok)
  BY <1>2
<1> HIDE DEF c
<1>5. \E new : /\ Adds(page, page', new) /\ SnapsFirst(new)
               /\ Results(new) \subseteq Carried(page, todo, link)
               /\ Numbered(Range(page'.waiting)) \subseteq Carried(page, todo, link)
               /\ \A i \in 1..Len(link.acq) :
                    Carries(c, i) => \E e \in Range(page'.wire) : Carries(e, i)
  <2>0. SnapsFirst({}) /\ Results({}) = {}
    BY EventsAnswerNothing
  <2>9. Numbered(Range(page.waiting)) \subseteq Carried(page, todo, link)
    BY CarriedHas
  <2>1. CASE c.k = "acquire"
    <3> DEFINE found == c.ctx = Child \/ (c.ctx = page.ctx /\ page.held)
               x == [k |-> "acquired", p |-> c.p, ok |-> found, retain |-> c.retain,
                     object |-> page.doc]
               a == [page EXCEPT !.held = @ /\ c.ctx # page.ctx]
               q == [a EXCEPT !.wire = Append(@, x)]
    <3>1. c \in AcquireCmd
      BY <1>3, <2>1, TodoKinds
    <3>2. found \in BOOLEAN /\ c.p \in Nat /\ c.retain \in BOOLEAN
      BY <3>1 DEF AcquireCmd
    <3> HIDE DEF found
    <3>3. x \in Acquired
      BY <1>1, <3>2, Zenon DEF Acquired
    <3>4. x \in Frame /\ x.k = "acquired" /\ x.p = c.p
      BY <3>3 DEF Frame
    <3> HIDE DEF x
    <3>5. a \in Page
      <4>1. (page.held /\ c.ctx # page.ctx) \in BOOLEAN
        OBVIOUS
      <4> QED BY <1>1, <4>1, Zenon DEF Page
    <3>6. /\ a.wire = page.wire /\ a.queue = page.queue /\ a.doc = page.doc
          /\ a.next = page.next /\ a.waiting = page.waiting
      BY <1>1 DEF Page
    <3>7. page' = q
      BY <1>4, <2>1 DEF Performed, x, found
    <3> HIDE DEF a
    <3>8. PageOK(a) /\ Adds(page, a, {})
      BY <1>1, <3>5, <3>6, PageSame, AddsNothing
    <3>9. /\ Adds(a, q, {}) /\ q.waiting = a.waiting
          /\ Range(q.wire) = Range(a.wire) \cup {x}
      BY <3>4, <3>5, <3>8, AnswerFrame
    <3> HIDE DEF q
    <3>10. Adds(page, page', {})
      <4>1. Adds(page, q, {} \cup {})
        BY <1>1, <3>8, <3>9, AddsTwice
      <4> QED BY <3>7, <4>1
    <3>11. Numbered(Range(page'.waiting)) \subseteq Carried(page, todo, link)
      BY <2>9, <3>6, <3>7, <3>9
    <3>12. \A i \in 1..Len(link.acq) :
             Carries(c, i) => \E e \in Range(page'.wire) : Carries(e, i)
      BY <3>4, <3>7, <3>9 DEF Carries
    <3> QED BY <2>0, <3>10, <3>11, <3>12
  <2>2. CASE c.k = "release"
    <3> DEFINE x == [k |-> "released", p |-> c.p]
               q == [page EXCEPT !.wire = Append(@, x)]
    <3>1. c \in ReleaseCmd
      BY <1>3, <2>2, TodoKinds
    <3>2. x \in Frame /\ x.k = "released" /\ x.p = c.p
      BY <3>1 DEF ReleaseCmd, Frame, Released
    <3>3. page' = q
      BY <1>4, <2>2 DEF Performed
    <3> HIDE DEF x
    <3>4. /\ Adds(page, q, {}) /\ q.waiting = page.waiting
          /\ Range(q.wire) = Range(page.wire) \cup {x}
      BY <1>1, <3>2, AnswerFrame
    <3> HIDE DEF q
    <3>5. \A i \in 1..Len(link.acq) :
            Carries(c, i) => \E e \in Range(page'.wire) : Carries(e, i)
      BY <3>2, <3>3, <3>4 DEF Carries
    <3> QED BY <2>0, <2>9, <3>3, <3>4, <3>5
  <2>3. CASE c.k = "call"
    <3>1. c \in CallCmd /\ ~(\E i : Carries(c, i))
      BY <1>3, <2>3, TodoKinds DEF Carries
    <3>2. Numbered({c}) \subseteq Carried(page, todo, link)
      <4>1. Numbered({c}) \subseteq Numbered(Calls(todo))
        BY <1>3, <2>3, NumberedSubset
      <4> QED BY <4>1, CarriedHas
    <3>3. CASE c.object = page.doc
      <4> DEFINE q == Handle(page, c, ok)
      <4>1. page' = q
        BY <1>4, <2>3, <3>3 DEF Performed
      <4>2. PICK new : /\ Adds(page, q, new) /\ SnapsFirst(new)
                       /\ Results(new) \subseteq Numbered({c})
                       /\ Range(q.waiting) \subseteq Range(page.waiting) \cup {c}
        BY <1>1, <3>1, HandleFacts
      <4> HIDE DEF q
      <4>3. Numbered(Range(q.waiting)) \subseteq Carried(page, todo, link)
        <5>1. Numbered(Range(q.waiting)) \subseteq Numbered(Range(page.waiting) \cup {c})
          BY <4>2, NumberedSubset
        <5>2. Numbered(Range(page.waiting) \cup {c})
                = Numbered(Range(page.waiting)) \cup Numbered({c})
          BY DEF Numbered
        <5> QED BY <2>9, <3>2, <5>1, <5>2
      <4> QED BY <3>1, <3>2, <4>1, <4>2, <4>3
    <3>4. CASE c.object # page.doc
      <4> DEFINE x == [k |-> "refused", req |-> c.req]
                 q == [page EXCEPT !.wire = Append(@, x)]
      <4>1. x \in Frame /\ x.k = "refused"
        BY <3>1 DEF CallCmd, Frame, Refused
      <4>2. page' = q
        BY <1>4, <2>3, <3>4 DEF Performed
      <4> HIDE DEF x
      <4>3. Adds(page, q, {}) /\ q.waiting = page.waiting
        BY <1>1, <4>1, AnswerFrame
      <4> HIDE DEF q
      <4> QED BY <2>0, <2>9, <3>1, <4>2, <4>3
    <3> QED BY <3>3, <3>4
  <2> QED BY <1>3, <2>1, <2>2, <2>3, TodoKinds
<1>6. PICK new : /\ Adds(page, page', new) /\ SnapsFirst(new)
                 /\ Results(new) \subseteq Carried(page, todo, link)
                 /\ Numbered(Range(page'.waiting)) \subseteq Carried(page, todo, link)
                 /\ \A i \in 1..Len(link.acq) :
                      Carries(c, i) => \E e \in Range(page'.wire) : Carries(e, i)
  BY <1>5
<1>7. Types'
  BY <1>2, <1>3, <1>6 DEF IInv, Types, Adds
<1>8. InFlight(page') = InFlight(page) \cup new /\ Range(page.wire) \subseteq Range(page'.wire)
  BY <1>6 DEF Adds
<1>9. Carried(page', todo', link) \subseteq Carried(page, todo, link)
  <2>1. Numbered(Calls(todo')) \subseteq Carried(page, todo, link)
    <3>1. Numbered(Calls(todo')) \subseteq Numbered(Calls(todo))
      BY <1>3, NumberedSubset
    <3> QED BY <3>1, CarriedHas
  <2> QED BY <1>6, <1>8, <2>1, CarriedMoves
<1>10. \A i \in 1..Len(link.acq) :
         (\E e \in Range(todo) \cup Range(page.wire) : Carries(e, i))
           => \E e \in Range(todo') \cup Range(page'.wire) : Carries(e, i)
  BY <1>3, <1>6, <1>8
<1> QED BY <1>2, <1>6, <1>7, <1>9, <1>10, PageStep

-----------------------------------------------------------------------------
(* The gateway acts by itself. *)

LEMMA IdleCall ==
  ASSUME NEW how \in {"idle", "awaiting", "sent", "answered", "failed"}
  PROVE  LET c == [Idle EXCEPT !.st = how]
         IN c \in CallState /\ c.st = how /\ c.session = 0 /\ c.for = {}
<1> DEFINE c == [Idle EXCEPT !.st = how]
<1>1. Idle \in CallState
  <2>1. "idle" \in {"idle", "awaiting", "sent", "answered", "failed"} /\ None \in Nat
        /\ FALSE \in BOOLEAN /\ {} \in SUBSET Whose
    BY DEF None
  <2> QED BY <2>1, Zenon DEF Idle, CallState
<1>2. c \in CallState
  BY <1>1, Zenon DEF CallState
<1>3. c.st = how /\ c.session = 0 /\ c.for = {}
  BY DEF Idle, None
<1> QED BY <1>2, <1>3

\* Those that are settled fail, and the others stay as they are.
LEMMA SettleFacts ==
  ASSUME call \in [Call -> CallState], NEW ns
  PROVE  LET c == Settle(call, ns, "failed")
         IN /\ c \in [Call -> CallState]
            /\ \A n \in Call : /\ n \in ns => c[n].st = "failed" /\ c[n].session = 0
                               /\ n \notin ns => c[n] = call[n]
<1> DEFINE x == [Idle EXCEPT !.st = "failed"]
           c == Settle(call, ns, "failed")
<1>1. x \in CallState /\ x.st = "failed" /\ x.session = 0
  BY IdleCall
<1>2. c = [n \in Call |-> IF n \in ns THEN x ELSE call[n]]
  BY DEF Settle
<1> HIDE DEF x, c
<1>3. c \in [Call -> CallState]
  BY <1>1, <1>2
<1>4. \A n \in Call : c[n] = IF n \in ns THEN x ELSE call[n]
  BY <1>2
<1> QED BY <1>1, <1>3, <1>4 DEF c

LEMMA PendingFields ==
  ASSUME IInv
  PROVE  \A q \in link.pending : q.n \in Call /\ q.req \in Nat /\ q.docId \in Nat
<1>1. link.pending \in SUBSET Registered
  BY PageTypes, LinkFields
<1> QED BY <1>1 DEF Registered

\* Calls that fail, and with them what was registered of them; the documents are
\* as they were.
LEMMA FailCalls ==
  ASSUME IInv, NEW ns \in SUBSET Call, call' = Settle(call, ns, "failed"),
         link'.pending = {q \in link.pending : q.n \notin ns},
         link'.docId = link.docId, link'.session = link.session,
         link'.attached = link.attached, link'.stream = link.stream
  PROVE  PendingOK' /\ AnswersMatch' /\ SnapshotBeforeAnswer' /\ call' \in [Call -> CallState]
<1>1. /\ call' \in [Call -> CallState]
      /\ \A n \in Call : /\ n \in ns => call'[n].st = "failed" /\ call'[n].session = 0
                         /\ n \notin ns => call'[n] = call[n]
  BY PageTypes, SettleFacts
<1>2. PendingOK
  BY DEF IInv
<1>3. \A q \in link.pending : q.n \in Call
  BY PendingFields
<1>4. \A q \in link'.pending : q.docId = link'.docId /\ call'[q.n].st = "sent"
  BY <1>1, <1>2, <1>3 DEF PendingOK
<1>5. \A q, r \in link'.pending : q.n = r.n => q = r
  BY <1>2 DEF PendingOK
<1>6. ASSUME NEW n \in Call, call'[n].st = "sent" PROVE Live(n)' /\ n \in Pending(link')
  <2>1. n \notin ns /\ call'[n] = call[n] /\ call[n].st = "sent"
    BY <1>1, <1>6
  <2>2. Live(n) /\ n \in Pending(link)
    BY <1>2, <2>1 DEF PendingOK
  <2>3. n \in Pending(link')
    BY <2>1, <2>2 DEF Pending
  <2> QED BY <2>1, <2>2, <2>3 DEF Live
<1>7. PendingOK'
  BY <1>4, <1>5, <1>6 DEF PendingOK
<1>8. AnswersMatch'
  BY <1>1 DEF IInv, AnswersMatch
<1>9. SnapshotBeforeAnswer'
  <2>1. ASSUME NEW n \in Snapshot, call'[n].st = "answered", call'[n].ok, Live(n)'
        PROVE  \E i \in 1..Len(link'.stream) : n \in link'.stream[i].for
    <3>1. n \in Call
      BY AgentLinkAssumption
    <3>2. call'[n] = call[n]
      BY <1>1, <2>1, <3>1
    <3>3. Live(n)
      BY <2>1, <3>2 DEF Live
    <3> QED BY <2>1, <3>2, <3>3 DEF IInv, SnapshotBeforeAnswer
  <2> QED BY <2>1 DEF SnapshotBeforeAnswer
<1> QED BY <1>1, <1>7, <1>8, <1>9

\* Nothing of what the documents depend on changes.
LEMMA DocumentsKept ==
  ASSUME IInv, link'.docId = link.docId, link'.seen = link.seen, link'.cleaned = link.cleaned,
         link'.re = link.re, link'.stream = link.stream, link'.attached = link.attached,
         InFlight(page') = InFlight(page), page'.doc = page.doc, page'.next = page.next
  PROVE  DocumentsOK' /\ HellosOK' /\ ReassemblyOK' /\ SnapshotsOK'
<1>1. Own(page') = Own(page)
  BY DEF Own
<1>2. DocumentsOK'
  BY DEF IInv, DocumentsOK
<1>3. HellosOK'
  BY <1>1 DEF IInv, HellosOK, Announced
<1>4. ReassemblyOK'
  BY <1>1 DEF IInv, ReassemblyOK, Spoken
<1>5. SnapshotsOK'
  <2>1. ASSUME NEW r \in Own(page), NEW n, InStream(n) \/ Coming(n, r)
        PROVE  (InStream(n) \/ Coming(n, r))'
    <3>1. CASE InStream(n)
      BY <3>1 DEF InStream
    <3>2. CASE Coming(n, r)
      BY <1>1, <3>2 DEF Coming
    <3> QED BY <2>1, <3>1, <3>2
  <2> QED BY <1>1, <2>1 DEF IInv, SnapshotsOK
<1> QED BY <1>2, <1>3, <1>4, <1>5

\* The bridge is as it was, and calls only begin to wait for it or stop.
LEMMA BridgeKept ==
  ASSUME IInv, link'.session = link.session, link'.attached = link.attached,
         link'.acq = link.acq, link'.bridgeReady = link.bridgeReady, link'.docId = link.docId,
         link'.cleaned = link.cleaned,
         \A n \in Call : \/ call'[n] = call[n]
                         \/ call'[n].session = 0 /\ call'[n].st # "awaiting"
                         \/ /\ call'[n].session = call[n].session /\ call'[n].st # "awaiting"
                         \/ call'[n].session = link.session /\ call'[n].on \in 1..Len(link.acq),
         \A i \in 1..Len(link.acq) :
           (\E c \in Range(todo) \cup Range(page.wire) : Carries(c, i))
             => \E c \in Range(todo') \cup Range(page'.wire) : Carries(c, i)
  PROVE  BridgeOK'
<1>1. link.session \in Nat /\ link.session >= 1
  BY PageTypes, LinkFields DEF IInv, BridgeOK
<1>2. \A n \in Call : call'[n].session <= link'.session
  BY <1>1 DEF IInv, BridgeOK
<1>3. \A n \in Call : call'[n].st = "awaiting" /\ Live(n)' => call'[n].on \in 1..Len(link'.acq)
  BY <1>1 DEF IInv, BridgeOK, Live
<1> QED BY <1>1, <1>2, <1>3 DEF IInv, BridgeOK

\* A call that fails: nothing but the call changes, and what was registered of it.
LEMMA FailStep ==
  ASSUME IInv, NEW ns \in SUBSET Call, call' = Settle(call, ns, "failed"),
         link' = [link EXCEPT !.pending = {q \in @ : q.n \notin ns}],
         UNCHANGED <<page, todo, left>>
  PROVE  IInv'
<1>1. /\ page \in Page /\ PageOK(page) /\ todo \in Seq(Todo) /\ link \in Link
      /\ call \in [Call -> CallState] /\ left \in [events: 0..MaxEvents, odd: 0..MaxOdd]
  BY PageTypes
<1>2. link' \in Link
  <2>1. {q \in link.pending : q.n \notin ns} \in SUBSET Registered
    BY <1>1, LinkFields
  <2> QED BY <1>1, <2>1, Zenon DEF Link
<1>3. /\ link'.pending = {q \in link.pending : q.n \notin ns}
      /\ link'.docId = link.docId /\ link'.session = link.session /\ link'.re = link.re
      /\ link'.attached = link.attached /\ link'.stream = link.stream /\ link'.seen = link.seen
      /\ link'.cleaned = link.cleaned /\ link'.acq = link.acq
      /\ link'.bridgeReady = link.bridgeReady /\ link'.nextReq = link.nextReq
  BY <1>1 DEF Link
<1>4. /\ call' \in [Call -> CallState]
      /\ \A n \in Call : /\ n \in ns => call'[n].st = "failed" /\ call'[n].session = 0
                         /\ n \notin ns => call'[n] = call[n]
  BY <1>1, SettleFacts
<1>5. PendingOK' /\ AnswersMatch' /\ SnapshotBeforeAnswer'
  BY <1>3, FailCalls
<1>6. DocumentsOK' /\ HellosOK' /\ ReassemblyOK' /\ SnapshotsOK'
  BY <1>3, DocumentsKept
<1>7. BridgeOK'
  BY <1>3, <1>4, BridgeKept
<1>8. NumbersOK'
  <2>1. link'.pending \subseteq link.pending
    BY <1>3
  <2>2. Numbered(link'.pending) \subseteq Numbered(link.pending)
    BY <2>1, NumberedSubset
  <2>3. Carried(page, todo, link') \subseteq Carried(page, todo, link)
    BY <2>2 DEF Carried
  <2> QED BY <1>3, <2>3, NumbersStep DEF IInv
<1>9. Types'
  BY <1>1, <1>2, <1>4 DEF Types
<1> QED BY <1>1, <1>5, <1>6, <1>7, <1>8, <1>9 DEF IInv

\* Failing calls that are not sent.
LEMMA FailUnsent ==
  ASSUME IInv, NEW n \in Call, call[n].st # "sent", call' = Settle(call, {n}, "failed"),
         UNCHANGED <<page, todo, link, left>>
  PROVE  IInv'
<1>1. {q \in link.pending : q.n \notin {n}} = link.pending
  BY DEF IInv, PendingOK
<1>2. link \in Link
  BY PageTypes
<1>3. [link EXCEPT !.pending = {q \in @ : q.n \notin {n}}] = link
  <2>1. [link EXCEPT !.pending = link.pending] = link
    BY <1>2 DEF Link
  <2> QED BY <1>1, <2>1
<1> QED BY <1>3, FailStep

LEMMA CommandTimeoutStep ==
  ASSUME IInv, NEW n \in Call, CommandTimeout(n)
  PROVE  IInv'
<1>1. /\ link' = [link EXCEPT !.pending = {p \in @ : p.n # n}]
      /\ call' = Settle(call, {n}, "failed") /\ UNCHANGED <<page, todo, left>>
  BY DEF CommandTimeout
<1>2. {p \in link.pending : p.n # n} = {q \in link.pending : q.n \notin {n}}
  OBVIOUS
<1>3. link' = [link EXCEPT !.pending = {q \in @ : q.n \notin {n}}]
  BY <1>1, <1>2
<1> QED BY <1>1, <1>3, FailStep

LEMMA SendCmdStep ==
  ASSUME IInv, NEW n \in Call, SendCmd(n)
  PROVE  IInv'
<1>1. /\ page \in Page /\ PageOK(page) /\ todo \in Seq(Todo) /\ link \in Link
      /\ call \in [Call -> CallState] /\ left \in [events: 0..MaxEvents, odd: 0..MaxOdd]
  BY PageTypes
<1>2. call[n].st = "idle" /\ UNCHANGED <<page, todo, link, left>>
  BY DEF SendCmd
<1>3. CASE ~(link.attached /\ link.docId # None)
  <2>1. call' = Settle(call, {n}, "failed")
    BY <1>3 DEF SendCmd
  <2> QED BY <1>2, <2>1, FailUnsent
<1>4. CASE link.attached /\ link.docId # None
  <2> DEFINE c1 == [call[n] EXCEPT !.st = "awaiting"]
             c2 == [c1 EXCEPT !.session = link.session]
             c == [c2 EXCEPT !.on = link.bridgeReady]
  <2>1. call' = [call EXCEPT ![n] = c]
    BY <1>4 DEF SendCmd
  <2>2. c1 \in CallState
    BY <1>1, Zenon DEF CallState
  <2> HIDE DEF c1
  <2>3. c2 \in CallState
    <3>1. link.session \in Nat
      BY <1>1, LinkFields
    <3> QED BY <2>2, <3>1, Zenon DEF CallState
  <2>4. c1.st = "awaiting"
    BY <1>1 DEF c1, CallState
  <2>5. c2.st = "awaiting" /\ c2.session = link.session
    BY <2>2, <2>4 DEF CallState
  <2> HIDE DEF c2
  <2>6. c \in CallState
    <3>1. link.bridgeReady \in Nat
      BY <1>1, LinkFields
    <3> QED BY <2>3, <3>1, Zenon DEF CallState
  <2>7. c.st = "awaiting" /\ c.session = link.session /\ c.on = link.bridgeReady
    BY <2>3, <2>5 DEF CallState
  <2> HIDE DEF c
  <2>8. /\ call' \in [Call -> CallState] /\ call'[n] = c
        /\ \A m \in Call : m # n => call'[m] = call[m]
    BY <1>1, <2>1, <2>6
  <2>9. link.bridgeReady \in 1..Len(link.acq)
    BY <1>1, <1>4, LinkFields DEF IInv, BridgeOK
  <2>10. BridgeOK'
    <3>1. \A m \in Call : \/ call'[m] = call[m]
                          \/ call'[m].session = link.session /\ call'[m].on \in 1..Len(link.acq)
      BY <2>7, <2>8, <2>9
    <3> QED BY <1>2, <3>1, BridgeKept
  <2>11. PendingOK'
    <3>1. \A q \in link.pending : q.n \in Call /\ q.n # n
      BY <1>2, PendingFields DEF IInv, PendingOK
    <3>2. \A m \in Call : call'[m].st = "sent" => call'[m] = call[m]
      BY <2>7, <2>8
    <3> QED BY <1>2, <2>8, <3>1, <3>2 DEF IInv, PendingOK, Live
  <2>12. AnswersMatch'
    BY <2>7, <2>8 DEF IInv, AnswersMatch
  <2>13. SnapshotBeforeAnswer'
    <3>1. \A m \in Snapshot : call'[m].st = "answered" => call'[m] = call[m]
      BY <2>7, <2>8, AgentLinkAssumption
    <3> QED BY <1>2, <3>1 DEF IInv, SnapshotBeforeAnswer, Live
  <2>14. DocumentsOK' /\ HellosOK' /\ ReassemblyOK' /\ SnapshotsOK'
    BY <1>2, DocumentsKept
  <2>15. NumbersOK'
    BY <1>2 DEF IInv, NumbersOK
  <2>16. Types' /\ PageOK(page)'
    BY <1>1, <1>2, <2>8 DEF Types
  <2> QED BY <2>10, <2>11, <2>12, <2>13, <2>14, <2>15, <2>16 DEF IInv
<1> QED BY <1>3, <1>4

\* The number of a new command is nobody's.
LEMMA CommandStep ==
  ASSUME IInv, NEW n \in Call, call[n].st = "awaiting", Live(n), Command(n),
         UNCHANGED <<page, left>>
  PROVE  IInv'
<1>1. /\ page \in Page /\ PageOK(page) /\ todo \in Seq(Todo) /\ link \in Link
      /\ call \in [Call -> CallState] /\ left \in [events: 0..MaxEvents, odd: 0..MaxOdd]
  BY PageTypes
<1> DEFINE req == link.nextReq
           x == [n |-> n, req |-> req, docId |-> link.docId]
           c == [k |-> "call", object |-> link.object, req |-> req, n |-> n]
           l1 == [link EXCEPT !.nextReq = @ + 1]
<1>2. /\ link' = [l1 EXCEPT !.pending = @ \cup {x}] /\ todo' = Append(todo, c)
      /\ call' = [call EXCEPT ![n].st = "sent"]
  BY DEF Command, RequestId
<1>3. /\ req \in Nat /\ req + 1 \in Nat /\ link.docId \in Nat /\ link.object \in Nat
      /\ link.pending \in SUBSET Registered
  BY <1>1, LinkFields
<1>4. x \in Registered /\ x.n = n /\ x.req = req /\ x.docId = link.docId
  BY <1>3 DEF Registered
<1>5. c \in CallCmd /\ c.k = "call" /\ c.req = req /\ c.n = n
  BY <1>3 DEF CallCmd
<1> HIDE DEF x, c
<1>6. link' \in Link
  <2>1. l1 \in Link
    BY <1>1, <1>3, Zenon DEF Link
  <2>2. l1.pending \cup {x} \in SUBSET Registered
    BY <1>4, <2>1, LinkFields
  <2> HIDE DEF l1
  <2> QED BY <1>2, <2>1, <2>2, Zenon DEF Link
<1>7. /\ link'.pending = link.pending \cup {x} /\ link'.nextReq = req + 1
      /\ link'.docId = link.docId /\ link'.session = link.session /\ link'.re = link.re
      /\ link'.attached = link.attached /\ link'.stream = link.stream /\ link'.seen = link.seen
      /\ link'.cleaned = link.cleaned /\ link'.acq = link.acq
      /\ link'.bridgeReady = link.bridgeReady
  BY <1>1, <1>2 DEF Link
<1> HIDE DEF l1
<1>8. c \in Todo /\ todo' \in Seq(Todo) /\ Range(todo') = Range(todo) \cup {c}
  <2>1. c \in Todo
    BY <1>5 DEF Todo
  <2>2. Append(todo, c) \in Seq(Todo)
    BY <1>1, <2>1
  <2> QED BY <1>1, <1>2, <2>1, <2>2, RangeAppend
<1>9. /\ call' \in [Call -> CallState] /\ call'[n].st = "sent"
      /\ call'[n].session = call[n].session
      /\ \A m \in Call : m # n => call'[m] = call[m]
  <2>1. call[n] \in CallState
    BY <1>1
  <2> DEFINE d == [call[n] EXCEPT !.st = "sent"]
  <2>2. d \in CallState
    BY <2>1, Zenon DEF CallState
  <2>3. d.st = "sent" /\ d.session = call[n].session
    BY <2>1 DEF CallState
  <2>4. call' = [call EXCEPT ![n] = d]
    BY <1>2
  <2> HIDE DEF d
  <2> QED BY <1>1, <2>2, <2>3, <2>4
<1>10. NumbersOK'
  <2> DEFINE b == <<req, {n}>>
  <2>1. Carried(page, todo', link') = Carried(page, todo, link) \cup {b}
    <3>1. Calls(todo') = Calls(todo) \cup {c}
      BY <1>5, <1>8 DEF Calls
    <3>2. Numbered(Calls(todo')) = Numbered(Calls(todo)) \cup {b}
      BY <1>5, <3>1 DEF Numbered
    <3>3. Numbered(link'.pending) = Numbered(link.pending) \cup {b}
      BY <1>4, <1>7 DEF Numbered
    <3> QED BY <3>2, <3>3 DEF Carried
  <2>2. b[1] = req
    OBVIOUS
  <2>3. \A a \in Carried(page, todo, link) : a[1] < req
    BY DEF IInv, NumbersOK
  <2>4. \A a \in Carried(page, todo, link) : a[1] \in Nat
    <3>1. \A y \in Calls(todo) : y.req \in Nat
      <4>1. \A y \in Range(todo) : y \in Todo
        BY <1>1, RangeIs
      <4> QED BY <4>1, TodoKinds DEF Calls, CallCmd
    <3>2. \A y \in Range(page.waiting) : y.req \in Nat
      <4>1. page.waiting \in Seq(CallCmd)
        BY <1>1, PageFields
      <4>2. Range(page.waiting) \subseteq CallCmd
        BY <4>1, RangeIs
      <4> QED BY <4>2 DEF CallCmd
    <3>3. \A y \in link.pending : y.req \in Nat
      BY PendingFields
    <3>4. \A f \in InFlight(page) : f.msg.n \in Nat
      BY <1>1, FlightTypes, ChunkFields, MessageFields
    <3> QED BY <3>1, <3>2, <3>3, <3>4 DEF Carried, Numbered, Results
  <2> HIDE DEF b
  <2>5. \A a \in Carried(page, todo', link') : a[1] < link'.nextReq
    BY <1>3, <1>7, <2>1, <2>2, <2>3, <2>4
  <2>6. \A a, e \in Carried(page, todo', link') : a[1] = e[1] => a[2] = e[2]
    <3>1. \A a, e \in Carried(page, todo, link) : a[1] = e[1] => a[2] = e[2]
      BY DEF IInv, NumbersOK
    <3>2. \A a \in Carried(page, todo, link) : a[1] # req
      BY <1>3, <2>3, <2>4
    <3> QED BY <2>1, <2>2, <3>1, <3>2
  <2> QED BY <2>5, <2>6 DEF NumbersOK
<1>11. PendingOK'
  <2>1. \A q \in link.pending : q.n \in Call /\ q.n # n /\ q.docId = link.docId
                                /\ call[q.n].st = "sent"
    BY PendingFields DEF IInv, PendingOK
  <2>2. \A q \in link'.pending : q.docId = link'.docId /\ call'[q.n].st = "sent"
    BY <1>4, <1>7, <1>9, <2>1
  <2>3. \A q, r \in link'.pending : q.n = r.n => q = r
    BY <1>4, <1>7, <2>1 DEF IInv, PendingOK
  <2>4. \A m \in Call : call'[m].st = "sent" => Live(m)' /\ m \in Pending(link')
    <3>1. Live(n)' /\ n \in Pending(link')
      BY <1>4, <1>7, <1>9 DEF Live, Pending
    <3>2. ASSUME NEW m \in Call, m # n, call'[m].st = "sent"
          PROVE  Live(m)' /\ m \in Pending(link')
      <4>1. Live(m) /\ m \in Pending(link)
        BY <1>9, <3>2 DEF IInv, PendingOK
      <4>2. m \in Pending(link')
        BY <1>7, <4>1 DEF Pending
      <4> QED BY <1>7, <1>9, <3>2, <4>1, <4>2 DEF Live
    <3> QED BY <3>1, <3>2
  <2> QED BY <2>2, <2>3, <2>4 DEF PendingOK
<1>12. BridgeOK'
  <2>1. \A m \in Call : \/ call'[m] = call[m]
                        \/ call'[m].session = call[m].session /\ call'[m].st # "awaiting"
    BY <1>9
  <2>2. Range(todo) \subseteq Range(todo') /\ page' = page
    BY <1>8
  <2> QED BY <1>7, <2>1, <2>2, BridgeKept
<1>13. DocumentsOK' /\ HellosOK' /\ ReassemblyOK' /\ SnapshotsOK'
  BY <1>7, DocumentsKept
<1>14. AnswersMatch'
  BY <1>9 DEF IInv, AnswersMatch
<1>15. SnapshotBeforeAnswer'
  <2>1. \A m \in Snapshot : call'[m].st = "answered" => call'[m] = call[m]
    BY <1>9, AgentLinkAssumption
  <2> QED BY <1>7, <2>1 DEF IInv, SnapshotBeforeAnswer, Live
<1>16. Types' /\ PageOK(page)'
  BY <1>1, <1>6, <1>8, <1>9 DEF Types
<1> QED BY <1>10, <1>11, <1>12, <1>13, <1>14, <1>15, <1>16 DEF IInv

LEMMA BridgeAwaitedStep ==
  ASSUME IInv, NEW n \in Call, BridgeAwaited(n)
  PROVE  IInv'
<1>1. call[n].st = "awaiting" /\ UNCHANGED <<page, left>>
  BY DEF BridgeAwaited
<1>2. CASE call' = Settle(call, {n}, "failed") /\ UNCHANGED <<todo, link>>
  BY <1>1, <1>2, FailUnsent
<1>3. CASE BridgeOf(n) = "done" /\ Command(n)
  <2>1. Live(n)
    BY <1>3 DEF BridgeOf
  <2> QED BY <1>1, <1>3, <2>1, CommandStep
<1> QED BY <1>2, <1>3 DEF BridgeAwaited

\* When all that is registered fails, nothing is.
LEMMA AllFail ==
  ASSUME IInv, call' = Settle(call, Pending(link), "failed"), link'.pending = {},
         \A n \in Call : call[n].session = link'.session /\ link'.attached
                            => Live(n) /\ (InStream(n) => InStream(n)')
  PROVE  /\ PendingOK' /\ AnswersMatch' /\ SnapshotBeforeAnswer' /\ call' \in [Call -> CallState]
         /\ \A n \in Call : \/ call'[n] = call[n]
                            \/ call'[n].session = 0 /\ call'[n].st # "awaiting"
<1>1. /\ call' \in [Call -> CallState]
      /\ \A n \in Call :
           /\ n \in Pending(link) => call'[n].st = "failed" /\ call'[n].session = 0
           /\ n \notin Pending(link) => call'[n] = call[n]
  BY PageTypes, SettleFacts
<1>2. \A n \in Call : call'[n].st # "sent"
  BY <1>1 DEF IInv, PendingOK
<1>3. PendingOK'
  BY <1>2 DEF PendingOK
<1>4. AnswersMatch'
  BY <1>1 DEF IInv, AnswersMatch
<1>5. SnapshotBeforeAnswer'
  <2> SUFFICES ASSUME NEW n \in Snapshot, call'[n].st = "answered", call'[n].ok, Live(n)'
               PROVE  InStream(n)'
    BY DEF SnapshotBeforeAnswer, InStream
  <2>1. n \in Call
    BY AgentLinkAssumption
  <2>2. call'[n] = call[n]
    BY <1>1, <2>1
  <2>3. Live(n) /\ (InStream(n) => InStream(n)')
    BY <2>1, <2>2 DEF Live
  <2>4. InStream(n)
    BY <2>2, <2>3 DEF IInv, SnapshotBeforeAnswer, InStream
  <2> QED BY <2>3, <2>4
<1> QED BY <1>1, <1>3, <1>4, <1>5

\* What was on its way from Chromium is lost.
LEMMA WireLost ==
  ASSUME NEW p \in Page, PageOK(p)
  PROVE  LET q == [p EXCEPT !.wire = <<>>]
         IN /\ q \in Page /\ PageOK(q) /\ q.wire = <<>> /\ q.doc = p.doc /\ q.next = p.next
            /\ q.waiting = p.waiting /\ InFlight(q) = Range(p.queue)
            /\ InFlight(q) \subseteq InFlight(p)
<1> DEFINE q == [p EXCEPT !.wire = <<>>]
<1>1. q \in Page
  <2>1. <<>> \in Seq(Frame)
    OBVIOUS
  <2> QED BY <2>1, Zenon DEF Page
<1>2. /\ q.wire = <<>> /\ q.queue = p.queue /\ q.doc = p.doc /\ q.next = p.next
      /\ q.waiting = p.waiting
  BY DEF Page
<1> HIDE DEF q
<1>3. Chunks(q.wire) = {}
  BY <1>2, RangeEmpty DEF Chunks
<1>4. InFlight(q) = Range(p.queue) /\ InFlight(q) \subseteq InFlight(p)
  BY <1>2, <1>3 DEF InFlight
<1>5. Sorted(q.wire)
  BY <1>2 DEF Sorted
<1>6. PageOK(q)
  BY <1>2, <1>3, <1>4, <1>5 DEF PageOK, Own
<1> QED BY <1>1, <1>2, <1>4, <1>6 DEF q

LEMMA DetachStep ==
  ASSUME IInv, Detach
  PROVE  IInv'
<1>1. /\ page \in Page /\ PageOK(page) /\ todo \in Seq(Todo) /\ link \in Link
      /\ call \in [Call -> CallState]
  BY PageTypes
<1> DEFINE l1 == [link EXCEPT !.attached = FALSE]
           q == [page EXCEPT !.wire = <<>>]
<1>2. /\ Odd /\ link' = [l1 EXCEPT !.pending = {}] /\ call' = Settle(call, Pending(l1), "failed")
      /\ todo' = <<>> /\ page' = q
  BY DEF Detach, Closed, RejectPending
<1>3. l1 \in Link
  BY <1>1, Zenon DEF Link
<1>4. l1.pending = link.pending /\ l1.attached = FALSE
  BY <1>1 DEF Link
<1>5. link' \in Link
  <2> HIDE DEF l1
  <2>1. {} \in SUBSET Registered
    OBVIOUS
  <2> QED BY <1>2, <1>3, <2>1, Zenon DEF Link
<1>6. /\ link'.pending = {} /\ link'.attached = FALSE /\ link'.nextReq = link.nextReq
      /\ link'.docId = link.docId /\ link'.session = link.session /\ link'.re = link.re
      /\ link'.stream = link.stream /\ link'.seen = link.seen /\ link'.cleaned = link.cleaned
      /\ link'.acq = link.acq /\ link'.bridgeReady = link.bridgeReady
  BY <1>1, <1>2 DEF Link
<1>7. call' = Settle(call, Pending(link), "failed")
  BY <1>2, <1>4 DEF Pending
<1> HIDE DEF l1
<1>8. /\ q \in Page /\ PageOK(q) /\ q.doc = page.doc /\ q.next = page.next
      /\ q.waiting = page.waiting /\ InFlight(q) \subseteq InFlight(page)
  BY <1>1, WireLost
<1> HIDE DEF q
<1>9. /\ PendingOK' /\ AnswersMatch' /\ SnapshotBeforeAnswer' /\ call' \in [Call -> CallState]
      /\ \A n \in Call : \/ call'[n] = call[n]
                         \/ call'[n].session = 0 /\ call'[n].st # "awaiting"
  BY <1>6, <1>7, AllFail
<1>10. NumbersOK'
  <2>1. Calls(todo') = {}
    BY <1>2, RangeEmpty DEF Calls
  <2>2. Carried(q, todo', link') \subseteq Carried(page, todo, link)
    BY <1>6, <1>8, <2>1, CarriedFewer
  <2> QED BY <1>2, <1>6, <2>2, NumbersStep DEF IInv
<1>11. BridgeOK'
  <2>1. link.session >= 1 /\ link.session \in Nat
    BY <1>1, LinkFields DEF IInv, BridgeOK
  <2>2. \A n \in Call : call'[n].session <= link'.session
    BY <1>6, <1>9, <2>1 DEF IInv, BridgeOK
  <2>3. \A n \in Call : ~Live(n)'
    BY <1>6 DEF Live
  <2> QED BY <1>6, <2>1, <2>2, <2>3 DEF IInv, BridgeOK
<1>12. DocumentsOK'
  BY <1>2, <1>6, <1>8 DEF IInv, DocumentsOK
<1>13. HellosOK' /\ SnapshotsOK'
  BY <1>6 DEF HellosOK, SnapshotsOK
<1>14. ReassemblyOK'
  BY <1>2, <1>6, <1>8 DEF IInv, ReassemblyOK, Spoken
<1>15. Types'
  <2>1. <<>> \in Seq(Todo)
    OBVIOUS
  <2>2. left' \in [events: 0..MaxEvents, odd: 0..MaxOdd]
    BY <1>2, LeftOdd
  <2> QED BY <1>2, <1>5, <1>8, <1>9, <2>1, <2>2 DEF Types
<1> QED BY <1>2, <1>8, <1>9, <1>10, <1>11, <1>12, <1>13, <1>14, <1>15 DEF IInv

\* A new session starts with nothing.
LEMMA FreshFacts ==
  ASSUME NEW s \in Nat
  PROVE  LET l == FreshLink(s)
         IN /\ l \in Link /\ l.session = s /\ l.attached /\ l.docId = 0 /\ l.seen = {}
            /\ l.cleaned = {} /\ l.bridgeReady = 0 /\ l.acq = <<>> /\ l.nextReq = 1
            /\ l.pending = {} /\ l.re.completed = <<>> /\ l.re.partial = {} /\ l.stream = <<>>
<1> DEFINE r == [completed |-> <<>>, partial |-> {}]
<1>1. r \in Reassembler
  BY DEF Reassembler
<1>2. r.completed = <<>> /\ r.partial = {}
  OBVIOUS
<1> HIDE DEF r
<1>3. <<>> \in Seq({"waiting", "done", "failed"}) /\ <<>> \in Seq(Message)
  OBVIOUS
<1>4. TRUE \in BOOLEAN /\ 0 \in Nat /\ 1 \in Nat
  OBVIOUS
<1>5. FreshLink(s) =
        [session |-> s, attached |-> TRUE, docId |-> 0, seen |-> {}, cleaned |-> {},
         bridgeReady |-> 0, acq |-> <<>>, object |-> 0, nextReq |-> 1, pending |-> {},
         re |-> r, stream |-> <<>>]
  BY DEF FreshLink, None, r
<1>6. FreshLink(s) \in Link
  <2>1. {} \in SUBSET Nat /\ {} \in SUBSET Key /\ {} \in SUBSET Registered
    OBVIOUS
  <2> QED BY <1>1, <1>3, <1>4, <1>5, <2>1, SMT DEF Link
<1> QED BY <1>2, <1>5, <1>6

LEMMA NoneCarried ==
  ASSUME NEW t, NEW l, NEW p, NEW fs, t = <<>>, p.waiting = <<>>, l.pending = {},
         InFlight(p) = fs, \A f \in fs : f.msg.k # "cmdres"
  PROVE  Carried(p, t, l) = {}
<1>1. Range(t) = {} /\ Range(p.waiting) = {}
  BY RangeEmpty
<1>2. Calls(t) = {}
  BY <1>1 DEF Calls
<1>3. Results(fs) = {}
  BY DEF Results
<1> QED BY <1>1, <1>2, <1>3 DEF Carried, Numbered

\* A fresh link and a page that has only said hello.
LEMMA Afresh ==
  ASSUME Types', PageOK(page'), page'.next = 1, page'.waiting = <<>>, todo' = <<>>,
         NEW s \in Nat, s >= 1, link' = FreshLink(s),
         \A n \in Call : call'[n].session <= s /\ call'[n].st # "sent",
         \A n \in Call : call'[n].st = "awaiting" => call'[n].session # s,
         NEW h, InFlight(page') = {h}, h.doc = page'.doc, h.id = 0, h.msg.k = "hello",
         AnswersMatch', SnapshotBeforeAnswer'
  PROVE  IInv'
<1>1. /\ link'.session = s /\ link'.attached /\ link'.docId = 0 /\ link'.seen = {}
      /\ link'.cleaned = {} /\ link'.bridgeReady = 0 /\ link'.acq = <<>> /\ link'.nextReq = 1
      /\ link'.pending = {} /\ link'.re.completed = <<>> /\ link'.re.partial = {}
  BY FreshFacts
<1>2. page'.doc \in Nat /\ page'.doc \in Doc
  BY PageFields DEF Types
<1>3. Range(link'.re.completed) = {}
  BY <1>1, RangeEmpty
<1>4. NumbersOK'
  <2>1. Carried(page', todo', link') = {}
    BY <1>1, NoneCarried
  <2> QED BY <2>1 DEF NumbersOK
<1>5. PendingOK'
  BY <1>1 DEF PendingOK
<1>6. BridgeOK'
  <2>1. \A n \in Call : call'[n].st = "awaiting" => ~Live(n)'
    BY <1>1 DEF Live
  <2> QED BY <1>1, <2>1 DEF BridgeOK, None
<1>7. DocumentsOK'
  <2>1. Len(link'.re.completed) = 0
    BY <1>1
  <2> QED BY <1>1, <1>2, <1>3, <2>1, AgentLinkAssumption DEF DocumentsOK, None
<1>8. Own(page') = {h}
  BY <1>2, PageFields DEF Own, Types
<1>9. HellosOK'
  BY <1>1, <1>2, <1>8 DEF HellosOK, Announced
<1>10. ReassemblyOK'
  BY <1>1, <1>3 DEF ReassemblyOK
<1>11. SnapshotsOK'
  BY <1>8 DEF SnapshotsOK
<1> QED BY <1>4, <1>5, <1>6, <1>7, <1>9, <1>10, <1>11 DEF IInv

LEMMA AttachStep ==
  ASSUME IInv, Attach
  PROVE  IInv'
<1>1. /\ page \in Page /\ PageOK(page) /\ link \in Link
  BY PageTypes
<1> DEFINE q == [page EXCEPT !.wire = <<>>]
           d == page.doc + 1
           s == link.session + 1
<1>2. /\ page.doc < MaxDocs /\ Odd /\ link' = FreshLink(s)
      /\ call' = Settle(call, Pending(link), "failed") /\ todo' = <<>>
      /\ page' = Loaded(q, d, d)
  BY DEF Attach
<1>3. q \in Page /\ PageOK(q) /\ q.wire = <<>>
  BY <1>1, WireLost
<1> HIDE DEF q
<1>4. d \in Doc
  BY <1>1, <1>2, PageFields, AgentLinkAssumption DEF Doc
<1>5. link.session \in Nat /\ s \in Nat /\ s >= 1 /\ link.session < s
  BY <1>1, LinkFields
<1> HIDE DEF d, s
<1>6. /\ page' \in Page /\ PageOK(page') /\ page'.doc = d /\ page'.next = 1
      /\ page'.waiting = <<>>
      /\ \E h : /\ InFlight(page') = Chunks(q.wire) \cup {h} /\ h.doc = d /\ h.id = 0
                /\ h.msg.k = "hello"
  BY <1>2, <1>3, <1>4, LoadedFacts
<1>7. Chunks(q.wire) = {}
  BY <1>3, RangeEmpty DEF Chunks
<1>8. PICK h : /\ InFlight(page') = {h} /\ h.doc = page'.doc /\ h.id = 0
               /\ h.msg.k = "hello"
  BY <1>6, <1>7
<1>9. link' \in Link /\ link'.session = s /\ link'.pending = {}
  BY <1>2, <1>5, FreshFacts
<1>10. \A n \in Call : call[n].session <= link.session /\ call[n].session \in Nat
  BY PageTypes DEF IInv, BridgeOK, CallState
<1>11. \A n \in Call : call[n].session = link'.session /\ link'.attached
                         => Live(n) /\ (InStream(n) => InStream(n)')
  BY <1>5, <1>9, <1>10
<1>12. /\ AnswersMatch' /\ SnapshotBeforeAnswer' /\ call' \in [Call -> CallState] /\ PendingOK'
       /\ \A n \in Call : \/ call'[n] = call[n]
                          \/ call'[n].session = 0 /\ call'[n].st # "awaiting"
  BY <1>2, <1>9, <1>11, AllFail
<1>13. \A n \in Call : call'[n].session <= s
  BY <1>5, <1>10, <1>12
<1>14. \A n \in Call : call'[n].st # "sent"
  BY <1>9, <1>12 DEF PendingOK, Pending
<1>15. \A n \in Call : call'[n].st = "awaiting" => call'[n].session # s
  BY <1>5, <1>10, <1>12
<1>16. Types'
  <2>1. <<>> \in Seq(Todo)
    OBVIOUS
  <2>2. left' \in [events: 0..MaxEvents, odd: 0..MaxOdd]
    BY <1>2, LeftOdd
  <2> QED BY <1>2, <1>6, <1>9, <1>12, <2>1, <2>2 DEF Types
<1> QED BY <1>2, <1>5, <1>6, <1>8, <1>12, <1>13, <1>14, <1>15, <1>16, Afresh


-----------------------------------------------------------------------------
(* The gateway receives f: from the head of what is on its way, once more, or *)
(* late.                                                                      *)

\* What becomes of the page when f is taken.
Takes(f) ==
  /\ page' \in Page /\ PageOK(page') /\ page'.doc = page.doc /\ page'.next = page.next
  /\ page'.waiting = page.waiting /\ InFlight(page') \subseteq InFlight(page)
  /\ InFlight(page) \subseteq InFlight(page') \cup {f}
  /\ Range(page.wire) \subseteq Range(page'.wire) \cup {f}
  /\ f \in Frame /\ (f.k # "chunk" => f \in Range(page.wire))
  /\ f.k = "chunk" =>
       /\ ChunkOK(f)
       /\ \/ f.id = 0 /\ f.doc \in link.seen \cup {Child}
          \/ /\ f \in InFlight(page)
             /\ f.doc # Child => \A g \in Own(page') : g = f \/ Before(f, g)

LEMMA TakesHead ==
  ASSUME IInv, page.wire # <<>>, AfterHead
  PROVE  Takes(Head(page.wire))
<1>1. page \in Page /\ PageOK(page) /\ page.wire \in Seq(Frame)
  BY PageTypes, PageFields
<1> DEFINE f == Head(page.wire)
           q == [page EXCEPT !.wire = Tail(@)]
<1>2. page' = q
  BY DEF AfterHead
<1>3. /\ f \in Range(page.wire) /\ f = page.wire[1] /\ f \in Frame /\ Tail(page.wire) \in Seq(Frame)
      /\ Range(page.wire) = {f} \cup Range(Tail(page.wire))
  BY <1>1, RangeTail
<1>4. q \in Page
  BY <1>1, <1>3, Zenon DEF Page
<1>5. /\ q.wire = Tail(page.wire) /\ q.queue = page.queue /\ q.doc = page.doc
      /\ q.next = page.next /\ q.waiting = page.waiting
  BY <1>1 DEF Page
<1> HIDE DEF f, q
<1>6. /\ InFlight(q) \subseteq InFlight(page) /\ InFlight(page) \subseteq InFlight(q) \cup {f}
      /\ Chunks(q.wire) \subseteq Chunks(page.wire) /\ Own(q) \subseteq Own(page)
  BY <1>3, <1>5 DEF InFlight, Chunks, Own
<1>7. /\ Sorted(q.wire)
      /\ \A g \in Range(q.wire) :
           f.k = "chunk" /\ f.doc # Child /\ g.k = "chunk" /\ g.doc # Child => Before(f, g)
  <2>1. Sorted(page.wire)
    BY <1>1 DEF PageOK
  <2> QED BY <1>1, <1>3, <1>5, <2>1, SortedTail
<1>8. PageOK(q)
  BY <1>1, <1>5, <1>6, <1>7 DEF PageOK
<1>9. ASSUME f.k = "chunk"
      PROVE  /\ f \in InFlight(page) /\ ChunkOK(f)
             /\ f.doc # Child => \A g \in Own(q) : Before(f, g)
  <2>1. f \in Chunks(page.wire)
    BY <1>3, <1>9 DEF Chunks
  <2>2. ASSUME f.doc # Child, NEW g \in Own(q) PROVE Before(f, g)
    <3>1. CASE g \in Chunks(q.wire)
      BY <1>7, <1>9, <2>2, <3>1 DEF Own, Chunks
    <3>2. CASE g \in Range(page.queue)
      BY <1>1, <2>1, <2>2, <3>2 DEF PageOK
    <3> QED BY <1>5, <2>2, <3>1, <3>2 DEF Own, InFlight
  <2>3. f \in InFlight(page) /\ ChunkOK(f)
    BY <1>1, <2>1 DEF InFlight, PageOK
  <2> QED BY <2>2, <2>3
<1> QED BY <1>2, <1>3, <1>4, <1>5, <1>6, <1>8, <1>9 DEF Takes, f

LEMMA TakesAgain ==
  ASSUME IInv, page.wire # <<>>, Head(page.wire).k = "chunk", UNCHANGED page
  PROVE  Takes(Head(page.wire))
<1>1. page \in Page /\ PageOK(page) /\ page.wire \in Seq(Frame)
  BY PageTypes, PageFields
<1> DEFINE f == Head(page.wire)
<1>3. /\ f \in Range(page.wire) /\ f = page.wire[1] /\ f \in Frame /\ Tail(page.wire) \in Seq(Frame)
      /\ Range(page.wire) = {f} \cup Range(Tail(page.wire))
  BY <1>1, RangeTail
<1> HIDE DEF f
<1>4. f.k = "chunk" /\ f \in Chunks(page.wire)
  BY <1>3 DEF f, Chunks
<1>5. \A g \in Range(Tail(page.wire)) :
        f.k = "chunk" /\ f.doc # Child /\ g.k = "chunk" /\ g.doc # Child => Before(f, g)
  <2>1. Sorted(page.wire)
    BY <1>1 DEF PageOK
  <2> QED BY <1>1, <1>3, <2>1, SortedTail
<1>6. ASSUME f.doc # Child, NEW g \in Own(page) PROVE g = f \/ Before(f, g)
  <2>1. CASE g \in Chunks(page.wire)
    BY <1>3, <1>4, <1>5, <1>6, <2>1 DEF Own, Chunks
  <2>2. CASE g \in Range(page.queue)
    BY <1>1, <1>4, <1>6, <2>2 DEF PageOK
  <2> QED BY <1>6, <2>1, <2>2 DEF Own, InFlight
<1>7. f \in InFlight(page) /\ ChunkOK(f)
  BY <1>1, <1>4 DEF InFlight, PageOK
<1> QED BY <1>1, <1>3, <1>4, <1>6, <1>7 DEF Takes, f

LEMMA TakesLate ==
  ASSUME IInv, UNCHANGED page, NEW key \in link.cleaned
  PROVE  Takes(EncodeChunks(key[1], 0, Hello(key[2]))[1])
<1> DEFINE s == EncodeChunks(key[1], 0, Hello(key[2]))
           f == s[1]
<1>1. page \in Page /\ PageOK(page) /\ link \in Link
  BY PageTypes
<1>2. key[1] \in Nat /\ key[2] \in link.seen \cup {Child}
  BY <1>1, LinkFields DEF IInv, DocumentsOK, Key
<1>3. key[2] \in DocNo
  BY <1>1, <1>2, LinkFields, AgentLinkAssumption DEF DocNo, Child
<1>4. ChunkOK(f) /\ f \in Chunk /\ f.doc = key[2] /\ f.id = 0 /\ f.k = "chunk"
  BY <1>2, <1>3, HelloFacts
<1> HIDE DEF s, f
<1>5. f \in Frame
  BY <1>4, ChunkFields
<1> QED BY <1>1, <1>2, <1>4, <1>5 DEF Takes, f, s

\* A chunk that is taken: what it is, and what is on its way.
LEMMA TakenChunk ==
  ASSUME IInv, link.attached, NEW f, Takes(f), f.k = "chunk"
  PROVE  /\ f \in Chunk /\ f.doc \in Nat /\ f.doc # 0 /\ f.id \in Nat /\ f.idx \in 1..f.total
         /\ f.total \in {1, 2} /\ f.total = Slices(f.msg) /\ f.msg \in Message
         /\ f.msg.doc = f.doc /\ (f.id = 0 <=> f.msg.k = "hello") /\ (f.doc = Child => f.id = 0)
         /\ f.msg.k = "hello" => f.total = 1 /\ f.msg = Hello(f.doc)
         /\ Own(page') \subseteq Own(page) /\ Own(page) \subseteq Own(page') \cup {f}
         /\ \/ f.id = 0 /\ f.doc \in link.seen \cup {Child}
            \/ f \in Own(page) /\ \A g \in Own(page') : g = f \/ Before(f, g)
         /\ f.id # 0 => f.doc = link.docId
<1>1. f \in Chunk /\ ChunkOK(f)
  BY FrameKinds DEF Takes
<1>2. /\ f.doc \in Nat /\ f.doc # 0 /\ f.id \in Nat /\ f.msg \in Message
  BY <1>1, ChunkFields DEF DocNo
<1>3. f.total \in {1, 2}
  BY <1>1 DEF ChunkOK, Slices
<1>4. f.msg.k = "hello" => f.total = 1
  BY <1>1 DEF ChunkOK, Slices
<1>5. Own(page') \subseteq Own(page) /\ Own(page) \subseteq Own(page') \cup {f}
  BY DEF Takes, Own
<1>6. \/ f.id = 0 /\ f.doc \in link.seen \cup {Child}
      \/ f \in Own(page) /\ \A g \in Own(page') : g = f \/ Before(f, g)
  BY <1>1 DEF Takes, Own, ChunkOK
<1>7. ASSUME f.id # 0 PROVE f.doc = link.docId
  <2>1. f \in Own(page) /\ \A g \in Own(page') : g = f \/ Before(f, g)
    BY <1>6, <1>7
  <2> SUFFICES ASSUME f.doc # link.docId PROVE FALSE
    OBVIOUS
  <2>2. PICK h \in InFlight(page) : h.doc = f.doc /\ h.id = 0
    BY <2>1 DEF IInv, HellosOK, Announced
  <2>3. h \in Own(page') /\ h # f
    BY <1>5, <1>7, <2>1, <2>2 DEF Own
  <2>4. Before(f, h)
    BY <2>1, <2>3
  <2> QED BY <1>2, <1>7, <2>2, <2>4 DEF Before
<1> QED BY <1>1, <1>2, <1>3, <1>4, <1>5, <1>6, <1>7 DEF ChunkOK

LEMMA FlightFields ==
  ASSUME IInv
  PROVE  \A f \in Own(page) :
           /\ f.doc \in Nat /\ f.id \in Nat /\ f.idx \in Nat /\ f.idx >= 1 /\ f.idx <= f.total
           /\ f.total \in {1, 2} /\ f.total = Slices(f.msg)
           /\ (f.id = 0 => f.total = 1) /\ (f.id = 0 <=> f.msg.k = "hello") /\ f.doc # Child
           /\ f.doc < page.doc \/ (f.doc = page.doc /\ f.id < page.next)
           /\ link.attached => f.doc >= link.docId
<1>1. page \in Page /\ PageOK(page)
  BY PageTypes
<1> SUFFICES ASSUME NEW f \in Own(page)
             PROVE  /\ f.doc \in Nat /\ f.id \in Nat /\ f.idx \in Nat /\ f.idx >= 1
                    /\ f.idx <= f.total /\ f.total \in {1, 2} /\ f.total = Slices(f.msg)
                    /\ (f.id = 0 => f.total = 1) /\ (f.id = 0 <=> f.msg.k = "hello")
                    /\ f.doc # Child
                    /\ f.doc < page.doc \/ (f.doc = page.doc /\ f.id < page.next)
                    /\ link.attached => f.doc >= link.docId
  OBVIOUS
<1>2. f \in InFlight(page) /\ ChunkOK(f) /\ f.doc # Child
  BY <1>1 DEF PageOK, Own
<1>3. f.doc \in Nat /\ f.id \in Nat /\ f.idx \in Nat
  BY <1>1, <1>2, FlightTypes, ChunkFields
<1>4. f.total \in {1, 2} /\ (f.id = 0 => f.total = 1) /\ f.total = Slices(f.msg)
  BY <1>2 DEF ChunkOK, Slices
<1>5. f.idx >= 1 /\ f.idx <= f.total
  BY <1>2, <1>4 DEF ChunkOK
<1>6. f.doc < page.doc \/ (f.doc = page.doc /\ f.id < page.next)
  BY <1>1 DEF PageOK
<1>7. link.attached => f.doc >= link.docId
  BY DEF IInv, HellosOK
<1> QED BY <1>2, <1>3, <1>4, <1>5, <1>6, <1>7 DEF ChunkOK

-----------------------------------------------------------------------------
(* The reassembler. *)

\* The message of f needs more.
Grows(f, r) ==
  /\ <<f.doc, f.id>> \notin Range(link.re.completed) /\ f.id # 0 /\ f.total = 2
  /\ r.completed = link.re.completed
  /\ \A q \in r.partial :
       q \in link.re.partial \/ (q.key = <<f.doc, f.id>> /\ \A i \in q.idx : i \in 1..f.idx)
  /\ \A q \in link.re.partial : \E s \in r.partial : s.key = q.key /\ q.idx \subseteq s.idx
  /\ \E s \in r.partial : s.key = <<f.doc, f.id>> /\ f.idx \in s.idx
  /\ f.idx = 2 => \A q \in link.re.partial : q.key = <<f.doc, f.id>> => 1 \notin q.idx

\* f completes its message.
Completes(f, r) ==
  /\ <<f.doc, f.id>> \notin Range(link.re.completed) /\ f.idx = f.total
  /\ Range(r.completed) \subseteq Range(link.re.completed) \cup {<<f.doc, f.id>>}
  /\ \A q \in r.partial : q \in link.re.partial /\ q.key # <<f.doc, f.id>>
  /\ \A q \in link.re.partial : q.key # <<f.doc, f.id>> => q \in r.partial

LEMMA OneOrTwo ==
  /\ Cardinality({1}) = 1 /\ Cardinality({2}) = 1 /\ Cardinality({1, 2}) = 2
<1>1. IsFiniteSet({1}) /\ Cardinality({1}) = 1 /\ Cardinality({2}) = 1
  BY FS_Singleton
<1>2. Cardinality({1} \cup {2}) = 2
  BY <1>1, FS_AddElement
<1>3. {1, 2} = {1} \cup {2}
  OBVIOUS
<1> QED BY <1>1, <1>2, <1>3

LEMMA CompletedFacts ==
  ASSUME NEW re \in Reassembler, Len(re.completed) <= Recent, NEW key \in Key
  PROVE  LET r == Completed(re, key).re
         IN /\ r \in Reassembler /\ Len(r.completed) <= Recent
            /\ Range(r.completed) \subseteq Range(re.completed) \cup {key}
            /\ r.partial = {p \in re.partial : p.key # key}
<1> DEFINE o == Append(re.completed, key)
           c == IF Len(o) <= Recent THEN o ELSE Tail(o)
           part == {p \in re.partial : p.key # key}
<1>1. re.completed \in Seq(Key) /\ re.partial \in SUBSET Kept
  BY DEF Reassembler
<1>2. o \in Seq(Key) /\ Len(o) = Len(re.completed) + 1 /\ o # <<>>
  BY <1>1
<1>3. Range(o) = Range(re.completed) \cup {key}
  BY <1>1, RangeAppend
<1>4. Completed(re, key).re = [completed |-> c, partial |-> part]
  BY DEF Completed
<1> HIDE DEF o
<1>5. /\ Tail(o) \in Seq(Key) /\ Range(Tail(o)) \subseteq Range(o)
  BY <1>2, RangeTail
<1>6. Len(Tail(o)) = Len(re.completed)
  BY <1>1, <1>2
<1>7. c \in Seq(Key) /\ Len(c) <= Recent /\ Range(c) \subseteq Range(o)
  BY <1>2, <1>5, <1>6
<1>8. part \in SUBSET Kept
  BY <1>1
<1> HIDE DEF c, part
<1>9. [completed |-> c, partial |-> part] \in Reassembler
  BY <1>7, <1>8, Zenon DEF Reassembler
<1> QED BY <1>3, <1>4, <1>7, <1>9 DEF part

\* A chunk is ignored, kept, or completes its message.
LEMMA AddFacts ==
  ASSUME IInv, link.attached, NEW f, Takes(f), f.k = "chunk"
  PROVE  LET a == Add(link.re, f)
         IN /\ a.re \in Reassembler /\ Len(a.re.completed) <= Recent
            /\ \/ ~a.done /\ a.re = link.re /\ <<f.doc, f.id>> \in Range(link.re.completed)
               \/ ~a.done /\ Grows(f, a.re)
               \/ a.done /\ Completes(f, a.re)
<1> DEFINE key == <<f.doc, f.id>>
           had == UNION {p.idx : p \in {q \in link.re.partial : q.key = key}}
           now == had \cup {f.idx}
           a == Add(link.re, f)
           part == {p \in link.re.partial : p.key # key} \cup {[key |-> key, idx |-> now]}
<1>1. /\ f.doc \in Nat /\ f.id \in Nat /\ f.idx \in 1..f.total /\ f.total \in {1, 2}
      /\ (f.id = 0 => f.total = 1)
      /\ f.id # 0 => f \in Own(page)
  BY TakenChunk
<1>2. link.re \in Reassembler /\ Len(link.re.completed) <= Recent
  BY PageTypes, LinkFields DEF IInv, DocumentsOK
<1>3. link.re.completed \in Seq(Key) /\ link.re.partial \in SUBSET Kept
  BY <1>2 DEF Reassembler
<1>4. key \in Key /\ key[1] = f.doc /\ key[2] = f.id
  BY <1>1 DEF Key
<1>5. CASE key \in Range(link.re.completed)
  <2>1. Contains(link.re.completed, key)
    BY <1>3, <1>5, RangeIs DEF Contains
  <2>2. a = Incomplete(link.re)
    BY <2>1 DEF Add
  <2> QED BY <1>2, <1>5, <2>2 DEF Incomplete
<1>6. CASE key \notin Range(link.re.completed)
  <2>1. ~Contains(link.re.completed, key)
    BY <1>3, <1>6, RangeIs DEF Contains
  <2>2. a = IF Cardinality(now) = f.total THEN Completed(link.re, key)
            ELSE Incomplete([link.re EXCEPT !.partial = part])
    BY <2>1 DEF Add
  <2>3. ASSUME NEW q \in link.re.partial, q.key = key
        PROVE  f.id # 0 /\ f.total = 2 /\ \A i \in q.idx : i \in 1..f.idx
    <3>1. f.id # 0 /\ f \in Own(page)
      BY <1>1, <1>4, <2>3 DEF IInv, DocumentsOK
    <3>2. ~Reached(q.key, f)
      BY <1>1, <1>4, <2>3 DEF Reached
    <3>3. \/ Reached(q.key, f)
          \/ q.key = <<f.doc, f.id>> /\ f.total = 2 /\ \A i \in q.idx : i \in 1..f.idx
      BY <3>1 DEF IInv, ReassemblyOK
    <3> QED BY <3>1, <3>2, <3>3
  <2>4. \A i \in had : i \in 1..f.idx
    BY <2>3
  <2>5. \A i \in now : i \in 1..f.idx
    BY <1>1, <2>4
  <2>6. f.idx \in {1, 2} /\ f.idx <= f.total
    BY <1>1
  <2>7. CASE Cardinality(now) = f.total
    <3>1. f.idx = f.total
      <4>1. CASE f.idx = 2
        BY <1>1, <2>6, <4>1
      <4>2. CASE f.idx = 1
        <5>1. now = {1}
          BY <2>5, <4>2
        <5> QED BY <2>7, <4>2, <5>1, OneOrTwo
      <4> QED BY <2>6, <4>1, <4>2
    <3>2. a = Completed(link.re, key)
      BY <2>2, <2>7
    <3>3. a.done
      BY <3>2 DEF Completed
    <3> HIDE DEF key, a
    <3>4. /\ a.re \in Reassembler /\ Len(a.re.completed) <= Recent
          /\ Range(a.re.completed) \subseteq Range(link.re.completed) \cup {key}
          /\ a.re.partial = {p \in link.re.partial : p.key # key}
      <4>1. link.re \in Reassembler /\ Len(link.re.completed) <= Recent
        BY <1>2, <1>4
      <4>2. key \in Key
        BY <1>2, <1>4
      <4>3. /\ Completed(link.re, key).re \in Reassembler
            /\ Len(Completed(link.re, key).re.completed) <= Recent
            /\ Range(Completed(link.re, key).re.completed)
                 \subseteq Range(link.re.completed) \cup {key}
            /\ Completed(link.re, key).re.partial = {p \in link.re.partial : p.key # key}
        BY <4>1, <4>2, CompletedFacts, Zenon
      <4> QED BY <3>2, <4>3, Zenon
    <3> USE DEF key
    <3>5. Completes(f, a.re)
      BY <1>6, <3>1, <3>4 DEF Completes
    <3> USE DEF a
    <3> QED BY <3>3, <3>4, <3>5
  <2>8. CASE Cardinality(now) # f.total
    <3> DEFINE r == [link.re EXCEPT !.partial = part]
               new == [key |-> key, idx |-> now]
    <3>1. a = Incomplete(r)
      BY <2>2, <2>8
    <3>2. ~a.done /\ a.re = r
      BY <3>1 DEF Incomplete
    <3>3. had \in SUBSET Nat /\ now \in SUBSET Nat
      BY <1>1, <2>4
    <3>4. new \in Kept /\ new.key = key /\ new.idx = now
      BY <1>4, <3>3 DEF Kept
    <3>5. part \in SUBSET Kept
      BY <1>3, <3>4
    <3>6. r \in Reassembler
      <4> HIDE DEF part
      <4> QED BY <1>2, <3>5, Zenon DEF Reassembler
    <3>7. r.completed = link.re.completed /\ r.partial = part
      BY <1>2 DEF Reassembler
    <3>8. f.total = 2
      <4> SUFFICES ASSUME f.total = 1 PROVE FALSE
        BY <1>1
      <4>1. f.idx = 1
        BY <2>6
      <4>2. now = {1}
        BY <2>5, <4>1
      <4> QED BY <2>8, <4>2, OneOrTwo
    <3>9. f.idx = 2 => 1 \notin had
      <4> SUFFICES ASSUME f.idx = 2, 1 \in had PROVE FALSE
        OBVIOUS
      <4>1. now = {1, 2}
        BY <2>5
      <4> QED BY <2>8, <3>8, <4>1, OneOrTwo
    <3> DEFINE rest == {p \in link.re.partial : p.key # key}
    <3>10. part = rest \cup {new}
      OBVIOUS
    <3>11. \A q \in link.re.partial : q.key = key => q.idx \subseteq had
      OBVIOUS
    <3>12. had \subseteq now /\ f.idx \in now
      OBVIOUS
    <3> HIDE DEF had, now, new, part, r, a
    <3>13. \A q \in part : q \in link.re.partial \/ (q.key = key /\ \A i \in q.idx : i \in 1..f.idx)
      BY <2>5, <3>4, <3>10
    <3>14. \A q \in link.re.partial : \E s \in part : s.key = q.key /\ q.idx \subseteq s.idx
      <4> SUFFICES ASSUME NEW q \in link.re.partial
                   PROVE  \E s \in part : s.key = q.key /\ q.idx \subseteq s.idx
        OBVIOUS
      <4>1. CASE q.key = key
        <5>1. new \in part /\ new.key = q.key /\ q.idx \subseteq new.idx
          BY <3>4, <3>10, <3>11, <3>12, <4>1
        <5> QED BY <5>1
      <4>2. CASE q.key # key
        BY <3>10, <4>2
      <4> QED BY <4>1, <4>2
    <3>15. \E s \in part : s.key = key /\ f.idx \in s.idx
      BY <3>4, <3>10, <3>12
    <3>16. Grows(f, r)
      BY <1>1, <1>6, <3>7, <3>8, <3>9, <3>11, <3>13, <3>14, <3>15 DEF Grows
    <3> QED BY <1>2, <3>2, <3>6, <3>7, <3>16 DEF a
  <2> QED BY <2>7, <2>8
<1> QED BY <1>5, <1>6

-----------------------------------------------------------------------------
(* What the documents, and what is on its way, are after a chunk. *)

\* A hello that is taken and is not accepted is of no newer document.
LEMMA HellosKept ==
  ASSUME IInv, link.attached, NEW f, Takes(f), link'.docId = link.docId,
         f.k = "chunk" /\ f.id = 0 /\ f.doc # Child => f.doc <= link.docId
  PROVE  HellosOK'
<1>1. Own(page') \subseteq Own(page) /\ page'.doc = page.doc
  BY DEF Takes, Own
<1>2. link.docId \in Nat
  BY PageTypes, LinkFields
<1>3. ASSUME NEW d, d # link.docId, d \in Nat, d >= link.docId, d # Child, Announced(d)
      PROVE  \E h \in InFlight(page') : h.doc = d /\ h.id = 0
  <2>1. PICK h \in InFlight(page) : h.doc = d /\ h.id = 0
    BY <1>3 DEF Announced
  <2>2. h.k = "chunk"
    BY <2>1, PageTypes, FlightTypes, ChunkFields
  <2>3. h # f
    BY <1>2, <1>3, <2>1, <2>2
  <2> QED BY <2>1, <2>3 DEF Takes
<1>4. \A g \in Own(page') : g.doc >= link.docId
  BY <1>1 DEF IInv, HellosOK
<1>5. \A g \in Own(page') : g.doc # link.docId
        => \E h \in InFlight(page') : h.doc = g.doc /\ h.id = 0
  <2> SUFFICES ASSUME NEW g \in Own(page'), g.doc # link.docId
               PROVE  \E h \in InFlight(page') : h.doc = g.doc /\ h.id = 0
    OBVIOUS
  <2>1. g \in Own(page)
    BY <1>1
  <2>2. g.doc \in Nat /\ g.doc >= link.docId /\ g.doc # Child
    BY <2>1, FlightFields
  <2>3. Announced(g.doc)
    BY <2>1 DEF IInv, HellosOK
  <2> QED BY <1>3, <2>2, <2>3
<1>6. page.doc # link.docId => \E h \in InFlight(page') : h.doc = page.doc /\ h.id = 0
  <2> SUFFICES ASSUME page.doc # link.docId
               PROVE  \E h \in InFlight(page') : h.doc = page.doc /\ h.id = 0
    OBVIOUS
  <2>1. page.doc \in Nat /\ page.doc # Child /\ page.doc >= link.docId
    BY <1>2, PageTypes, PageFields DEF IInv, DocumentsOK
  <2>2. Announced(page.doc)
    BY DEF IInv, HellosOK
  <2> QED BY <1>3, <2>1, <2>2
<1> QED BY <1>1, <1>4, <1>5, <1>6 DEF HellosOK, Announced

\* The hello of a newer document makes it the canonical one.
LEMMA HellosFollow ==
  ASSUME IInv, link.attached, NEW f, Takes(f), f.k = "chunk", link'.docId = f.doc,
         f \in Own(page), f.doc # link.docId, \A g \in Own(page') : g = f \/ Before(f, g)
  PROVE  HellosOK' /\ f.doc > link.docId /\ f.doc <= page.doc
<1>1. Own(page') \subseteq Own(page) /\ page'.doc = page.doc
  BY DEF Takes, Own
<1>2. link.docId \in Nat /\ page.doc \in Nat
  BY PageTypes, LinkFields, PageFields
<1>3. /\ f.doc \in Nat /\ f.doc > link.docId /\ f.doc <= page.doc
  <2>1. /\ f.doc \in Nat /\ f.doc >= link.docId
        /\ f.doc < page.doc \/ (f.doc = page.doc /\ f.id < page.next)
    BY FlightFields
  <2> QED BY <1>2, <2>1
<1>4. ASSUME NEW d, d # f.doc, Announced(d)
      PROVE  \E h \in InFlight(page') : h.doc = d /\ h.id = 0
  <2>1. PICK h \in InFlight(page) : h.doc = d /\ h.id = 0
    BY <1>4 DEF Announced
  <2> QED BY <1>4, <2>1 DEF Takes
<1>5. \A g \in Own(page') : g.doc >= f.doc /\ g.doc \in Nat
  BY <1>1, <1>3, FlightFields DEF Before
<1>6. \A g \in Own(page') : g.doc # f.doc
        => \E h \in InFlight(page') : h.doc = g.doc /\ h.id = 0
  <2> SUFFICES ASSUME NEW g \in Own(page'), g.doc # f.doc
               PROVE  \E h \in InFlight(page') : h.doc = g.doc /\ h.id = 0
    OBVIOUS
  <2>1. g \in Own(page) /\ g.doc # link.docId
    BY <1>1, <1>2, <1>3, <1>5
  <2>2. Announced(g.doc)
    BY <2>1 DEF IInv, HellosOK
  <2> QED BY <1>4, <2>2
<1>7. page.doc # f.doc => \E h \in InFlight(page') : h.doc = page.doc /\ h.id = 0
  <2> SUFFICES ASSUME page.doc # f.doc
               PROVE  \E h \in InFlight(page') : h.doc = page.doc /\ h.id = 0
    OBVIOUS
  <2>1. Announced(page.doc)
    BY <1>2, <1>3 DEF IInv, HellosOK
  <2> QED BY <1>4, <2>1
<1> QED BY <1>1, <1>3, <1>5, <1>6, <1>7 DEF HellosOK, Announced

\* What the reassembler knows of stays in order.
LEMMA ReassemblyKept ==
  ASSUME IInv, link.attached, NEW f, Takes(f), f.k = "chunk",
         \/ link'.re = link.re
         \/ Grows(f, link'.re)
         \/ Completes(f, link'.re)
  PROVE  ReassemblyOK'
<1>1. /\ Own(page') \subseteq Own(page) /\ page'.doc = page.doc /\ page'.next = page.next
      /\ page.next >= 1
  BY PageTypes DEF Takes, Own, PageOK
<1>2. CASE link'.re = link.re
  <2>1. \A key \in Range(link.re.completed) : key[1] = Child \/ Spoken(key, page')
    BY <1>1 DEF IInv, ReassemblyOK, Spoken
  <2>2. \A q \in link.re.partial : Spoken(q.key, page')
    BY <1>1 DEF IInv, ReassemblyOK, Spoken
  <2>3. \A g \in Own(page') :
          /\ \A key \in Range(link.re.completed) :
               key[1] = Child \/ Reached(key, g) \/ (key = <<g.doc, g.id>> /\ g.idx = g.total)
          /\ \A q \in link.re.partial :
               \/ Reached(q.key, g)
               \/ q.key = <<g.doc, g.id>> /\ g.total = 2 /\ \A i \in q.idx : i \in 1..g.idx
    BY <1>1 DEF IInv, ReassemblyOK
  <2> QED BY <1>2, <2>1, <2>2, <2>3 DEF ReassemblyOK
<1> DEFINE key == <<f.doc, f.id>>
<1>3. key[1] = f.doc /\ key[2] = f.id
  OBVIOUS
<1>4. /\ f.doc \in Nat /\ f.id \in Nat /\ f.idx \in Nat /\ f.idx >= 1 /\ f.idx <= f.total
      /\ f.total \in {1, 2} /\ (f.doc = Child => f.id = 0)
  <2>1. /\ f.doc \in Nat /\ f.id \in Nat /\ f.idx \in 1..f.total /\ f.total \in {1, 2}
        /\ (f.doc = Child => f.id = 0)
    BY TakenChunk
  <2> QED BY <2>1
<1>5. \/ f.id = 0 /\ f.doc \in link.seen \cup {Child}
      \/ f \in Own(page) /\ \A g \in Own(page') : g = f \/ Before(f, g)
  BY TakenChunk
<1>6. key[1] = Child \/ Spoken(key, page')
  <2>1. CASE f.doc \in link.seen /\ f.id = 0
    <3>1. f.doc <= link.docId /\ link.docId <= page.doc /\ link.docId \in Nat /\ page.doc \in Nat
      BY <2>1, PageTypes, LinkFields, PageFields DEF IInv, DocumentsOK
    <3>2. page.next \in Nat
      BY PageTypes, PageFields
    <3> QED BY <1>1, <1>3, <1>4, <2>1, <3>1, <3>2 DEF Spoken
  <2>2. CASE f \in Own(page)
    BY <1>1, <1>3, <2>2, FlightFields DEF Spoken
  <2> QED BY <1>3, <1>5, <2>1, <2>2
<1>7. ASSUME NEW g \in Own(page')
      PROVE  \/ key[1] = Child
             \/ Reached(key, g)
             \/ key = <<g.doc, g.id>> /\ (g.id = 0 \/ g.idx > f.idx \/ g = f)
  <2>1. g \in Own(page) /\ g.doc \in Nat /\ g.id \in Nat /\ g.doc >= link.docId
    BY <1>1, FlightFields
  <2>2. CASE f.doc \in link.seen /\ f.id = 0
    <3>1. f.doc <= link.docId /\ link.docId \in Nat
      BY <2>2, PageTypes, LinkFields DEF IInv, DocumentsOK
    <3> QED BY <1>3, <1>4, <2>1, <2>2, <3>1 DEF Reached
  <2>3. CASE f \in Own(page) /\ (g = f \/ Before(f, g))
    BY <1>3, <1>4, <2>1, <2>3, FlightFields DEF Reached, Before
  <2> QED BY <1>3, <1>5, <2>2, <2>3
<1>8. \A k \in Range(link.re.completed) : k[1] = Child \/ Spoken(k, page')
  BY <1>1 DEF IInv, ReassemblyOK, Spoken
<1>9. \A q \in link.re.partial : Spoken(q.key, page')
  BY <1>1 DEF IInv, ReassemblyOK, Spoken
<1> HIDE DEF key
<1>10. CASE Grows(f, link'.re)
  <2>1. f.id # 0 /\ key[1] # Child /\ f.total = 2
    BY <1>3, <1>4, <1>10 DEF Grows
  <2>2. \A q \in link'.re.partial :
          q \in link.re.partial \/ (q.key = key /\ \A i \in q.idx : i \in 1..f.idx)
    BY <1>10 DEF Grows, key
  <2>3. Range(link'.re.completed) = Range(link.re.completed)
    BY <1>10 DEF Grows
  <2>4. \A q \in link'.re.partial : Spoken(q.key, page')
    BY <1>6, <1>9, <2>1, <2>2
  <2>5. ASSUME NEW g \in Own(page'), NEW q \in link'.re.partial
        PROVE  \/ Reached(q.key, g)
               \/ q.key = <<g.doc, g.id>> /\ g.total = 2 /\ \A i \in q.idx : i \in 1..g.idx
    <3>1. CASE q \in link.re.partial
      BY <1>1, <3>1 DEF IInv, ReassemblyOK
    <3>2. CASE q.key = key /\ \A i \in q.idx : i \in 1..f.idx
      <4>1. /\ g.idx \in Nat /\ g.idx >= 1 /\ g.idx <= g.total /\ g.total \in {1, 2}
            /\ (g.id = 0 => g.total = 1) /\ g.id \in Nat
        BY <1>1, FlightFields
      <4>2. CASE Reached(key, g)
        BY <3>2, <4>2
      <4>3. CASE key = <<g.doc, g.id>> /\ (g.id = 0 \/ g.idx > f.idx \/ g = f)
        <5>1. g.id # 0
          BY <1>3, <2>1, <4>3
        <5>2. g.total = 2 /\ f.idx <= g.idx
          BY <1>4, <2>1, <4>1, <4>3, <5>1
        <5>3. \A i \in q.idx : i \in 1..g.idx
          BY <1>4, <3>2, <4>1, <5>2
        <5> QED BY <3>2, <4>3, <5>2, <5>3
      <4> QED BY <1>7, <2>1, <4>2, <4>3
    <3> QED BY <2>2, <3>1, <3>2
  <2>6. \A g \in Own(page') : \A k \in Range(link.re.completed) :
          k[1] = Child \/ Reached(k, g) \/ (k = <<g.doc, g.id>> /\ g.idx = g.total)
    BY <1>1 DEF IInv, ReassemblyOK
  <2> QED BY <1>8, <2>3, <2>4, <2>5, <2>6 DEF ReassemblyOK
<1>11. CASE Completes(f, link'.re)
  <2>1. /\ f.idx = f.total /\ Range(link'.re.completed) \subseteq Range(link.re.completed) \cup {key}
        /\ \A q \in link'.re.partial : q \in link.re.partial
    BY <1>11 DEF Completes, key
  <2>2. \A k \in Range(link'.re.completed) : k[1] = Child \/ Spoken(k, page')
    BY <1>6, <1>8, <2>1
  <2>3. ASSUME NEW g \in Own(page'), NEW k \in Range(link'.re.completed)
        PROVE  k[1] = Child \/ Reached(k, g) \/ (k = <<g.doc, g.id>> /\ g.idx = g.total)
    <3>1. CASE k \in Range(link.re.completed)
      BY <1>1, <3>1 DEF IInv, ReassemblyOK
    <3>2. CASE k = key
      <4>1. /\ g.idx \in Nat /\ g.idx >= 1 /\ g.idx <= g.total /\ g.total \in {1, 2}
            /\ (g.id = 0 => g.total = 1)
        BY <1>1, FlightFields
      <4>2. g.id = 0 \/ g.idx > f.idx \/ g = f => g.idx = g.total
        BY <1>4, <2>1, <4>1
      <4> QED BY <1>7, <3>2, <4>2
    <3> QED BY <2>1, <3>1, <3>2
  <2>4. \A g \in Own(page') : \A q \in link'.re.partial :
               \/ Reached(q.key, g)
               \/ q.key = <<g.doc, g.id>> /\ g.total = 2 /\ \A i \in q.idx : i \in 1..g.idx
    BY <1>1, <2>1 DEF IInv, ReassemblyOK
  <2> QED BY <1>9, <2>1, <2>2, <2>3, <2>4 DEF ReassemblyOK
<1> QED BY <1>2, <1>10, <1>11

\* A snapshot that is coming goes on coming, or is read.
LEMMA SnapshotsKept ==
  ASSUME IInv, link.attached, NEW f, Takes(f), f.k = "chunk",
         \/ link'.re = link.re /\ <<f.doc, f.id>> \in Range(link.re.completed)
         \/ Grows(f, link'.re)
         \/ Completes(f, link'.re),
         \A n \in Snapshot : InStream(n) => InStream(n)',
         Completes(f, link'.re) /\ f.msg.k = "rrweb" =>
           \A n \in Snapshot : n \in f.msg.for => InStream(n)'
  PROVE  SnapshotsOK'
<1>1. Own(page') \subseteq Own(page) /\ Own(page) \subseteq Own(page') \cup {f}
  BY TakenChunk
<1>2. ASSUME NEW r \in Own(page'), NEW n \in Snapshot, Coming(n, r)
      PROVE  (InStream(n) \/ Coming(n, r))'
  <2>1. PICK e \in Own(page) :
          /\ e.doc = r.doc /\ e.id < r.id /\ e.idx = 2 /\ e.msg.k = "rrweb" /\ e.msg.for = {n}
          /\ <<e.doc, e.id>> \notin Range(link.re.completed)
          /\ \/ \E g \in Own(page) : g.doc = e.doc /\ g.id = e.id /\ g.idx = 1 /\ g.msg = e.msg
             \/ \E q \in link.re.partial : q.key = <<e.doc, e.id>> /\ 1 \in q.idx
    BY <1>2 DEF Coming
  <2> DEFINE k == <<e.doc, e.id>>
  <2>2. /\ e.doc \in Nat /\ e.id \in Nat /\ e.total = 2 /\ e.id # 0
    BY <2>1, FlightFields DEF Slices
  <2>3. CASE e.doc # f.doc \/ e.id # f.id
    <3>1. k # <<f.doc, f.id>> /\ e # f
      BY <2>3
    <3>2. e \in Own(page')
      BY <1>1, <3>1
    <3>3. k \notin Range(link'.re.completed)
      BY <2>1, <3>1 DEF Grows, Completes
    <3>4. \/ \E g \in Own(page') : g.doc = e.doc /\ g.id = e.id /\ g.idx = 1 /\ g.msg = e.msg
          \/ \E q \in link'.re.partial : q.key = k /\ 1 \in q.idx
      <4>1. CASE \E g \in Own(page) : g.doc = e.doc /\ g.id = e.id /\ g.idx = 1 /\ g.msg = e.msg
        BY <1>1, <2>3, <4>1
      <4>2. CASE \E q \in link.re.partial : q.key = k /\ 1 \in q.idx
        <5>1. PICK q \in link.re.partial : q.key = k /\ 1 \in q.idx
          BY <4>2
        <5>2. \E s \in link'.re.partial : s.key = q.key /\ q.idx \subseteq s.idx
          BY <3>1, <5>1 DEF Grows, Completes
        <5> QED BY <5>1, <5>2
      <4> QED BY <2>1, <4>1, <4>2
    <3>5. Coming(n, r)'
      BY <2>1, <3>2, <3>3, <3>4 DEF Coming
    <3> QED BY <3>5
  <2>4. CASE e.doc = f.doc /\ e.id = f.id
    <3>1. f.id # 0 /\ f.id \in Nat /\ f.doc \in Nat
      BY <2>2, <2>4
    <3>2. f \in Own(page) /\ \A g \in Own(page') : g = f \/ Before(f, g)
      BY <3>1, TakenChunk
    <3>3. f.idx \in Nat /\ f.idx >= 1 /\ f.idx <= f.total /\ f.total \in {1, 2}
      BY <3>2, FlightFields
    <3>4. ASSUME NEW g \in Own(page), g.doc = f.doc, g.id = f.id, g # f
          PROVE  g \in Own(page') /\ g.idx = 2 /\ f.idx = 1
      <4>1. g \in Own(page')
        BY <1>1, <3>4
      <4>2. Before(f, g)
        BY <3>2, <3>4, <4>1
      <4>3. g.idx \in Nat /\ g.idx <= g.total /\ g.total \in {1, 2}
        BY <3>4, FlightFields
      <4>4. f.idx < g.idx
        BY <3>1, <3>4, <4>2 DEF Before
      <4> QED BY <3>3, <4>1, <4>3, <4>4
    <3>5. CASE link'.re = link.re /\ <<f.doc, f.id>> \in Range(link.re.completed)
      BY <2>1, <2>4, <3>5
    <3>6. CASE Grows(f, link'.re)
      <4>1. k \notin Range(link'.re.completed)
        BY <2>1, <3>6 DEF Grows
      <4>2. \E s \in link'.re.partial : s.key = k /\ f.idx \in s.idx
        BY <2>4, <3>6 DEF Grows
      <4>3. CASE e = f
        <5>1. \A q \in link.re.partial : q.key = k => 1 \notin q.idx
          BY <2>1, <3>6, <4>3 DEF Grows
        <5>2. PICK g \in Own(page) : g.doc = e.doc /\ g.id = e.id /\ g.idx = 1 /\ g.msg = e.msg
          BY <2>1, <5>1
        <5> QED BY <2>1, <3>4, <4>3, <5>2
      <4>4. CASE e # f
        <5>1. e \in Own(page') /\ f.idx = 1
          BY <2>4, <3>4, <4>4
        <5>2. \E q \in link'.re.partial : q.key = k /\ 1 \in q.idx
          BY <4>2, <5>1
        <5>3. Coming(n, r)'
          BY <2>1, <4>1, <5>1, <5>2 DEF Coming
        <5> QED BY <5>3
      <4> QED BY <4>3, <4>4
    <3>7. CASE Completes(f, link'.re)
      <4>1. f.idx = f.total
        BY <3>7 DEF Completes
      <4>2. CASE e = f
        <5>1. n \in f.msg.for /\ f.msg.k = "rrweb"
          BY <2>1, <4>2
        <5> QED BY <3>7, <5>1
      <4>3. CASE e # f
        <5>1. f.idx = 1 /\ f.total = 1
          BY <2>4, <3>4, <4>1, <4>3
        <5>2. ASSUME NEW g \in Own(page), g.doc = e.doc, g.id = e.id, g.idx = 1, g.msg = e.msg
              PROVE  FALSE
          <6>1. g = f
            BY <2>4, <3>4, <5>2
          <6>2. f.total = Slices(f.msg) /\ e.total = Slices(e.msg)
            BY <3>2, FlightFields
          <6> QED BY <2>2, <5>1, <5>2, <6>1, <6>2
        <5>3. ASSUME NEW q \in link.re.partial, q.key = k PROVE FALSE
          <6>1. ~Reached(q.key, f)
            BY <2>2, <2>4, <5>3 DEF Reached
          <6>2. f.total = 2
            BY <3>2, <5>3, <6>1 DEF IInv, ReassemblyOK
          <6> QED BY <5>1, <6>2
        <5> QED BY <2>1, <5>2, <5>3
      <4> QED BY <4>2, <4>3
    <3> QED BY <3>5, <3>6, <3>7
  <2> QED BY <2>3, <2>4
<1>3. ASSUME NEW r \in Own(page'), NEW n \in Snapshot, r.msg.k = "cmdres", r.msg.ok,
             r.msg.for = {n}
      PROVE  (InStream(n) \/ Coming(n, r))'
  <2>1. r \in Own(page)
    BY <1>1
  <2>2. InStream(n) \/ Coming(n, r)
    BY <1>3, <2>1 DEF IInv, SnapshotsOK
  <2> QED BY <1>2, <2>2
<1> QED BY <1>3 DEF SnapshotsOK

\* What is known of documents after a chunk that brings no newer one.
LEMMA DocumentsAfter ==
  ASSUME IInv, link.attached, NEW f, Takes(f), f.k = "chunk",
         link'.docId = link.docId, link'.seen = link.seen,
         \A key \in link'.cleaned : key[2] \in link.seen \cup {Child},
         Len(link'.re.completed) <= Recent,
         \/ link'.re = link.re
         \/ Grows(f, link'.re)
         \/ Completes(f, link'.re),
         f.id = 0 => f.doc <= link.docId \/ f.doc = Child
  PROVE  DocumentsOK'
<1>1. page'.doc = page.doc
  BY DEF Takes
<1>2. \A key \in Range(link'.re.completed) :
        key[2] = 0 => key[1] <= link.docId \/ key[1] = Child
  <2>1. \A key \in Range(link'.re.completed) :
          key \in Range(link.re.completed) \/ key = <<f.doc, f.id>>
    BY DEF Grows, Completes
  <2>2. <<f.doc, f.id>>[1] = f.doc /\ <<f.doc, f.id>>[2] = f.id
    OBVIOUS
  <2> QED BY <2>1, <2>2 DEF IInv, DocumentsOK
<1>3. \A q \in link'.re.partial : q.key[2] # 0
  <2>1. \A q \in link'.re.partial :
          q \in link.re.partial \/ (q.key = <<f.doc, f.id>> /\ f.id # 0)
    BY DEF Grows, Completes
  <2>2. <<f.doc, f.id>>[2] = f.id
    OBVIOUS
  <2> QED BY <2>1, <2>2 DEF IInv, DocumentsOK
<1> QED BY <1>1, <1>2, <1>3 DEF IInv, DocumentsOK

\* A chunk carries nothing of an acquisition.
LEMMA BridgeUntouched ==
  ASSUME IInv, NEW f, Takes(f), f.k = "chunk", Range(todo) \subseteq Range(todo'),
         NEW i, \E c \in Range(todo) \cup Range(page.wire) : Carries(c, i)
  PROVE  \E c \in Range(todo') \cup Range(page'.wire) : Carries(c, i)
<1>1. PICK c \in Range(todo) \cup Range(page.wire) : Carries(c, i)
  OBVIOUS
<1>2. c # f
  BY <1>1 DEF Carries
<1>3. c \in Range(todo') \cup Range(page'.wire)
  BY <1>1, <1>2 DEF Takes
<1> QED BY <1>1, <1>3

\* A chunk after which the documents, the commands and the bridge are as they were.
LEMMA OnlyRead ==
  ASSUME IInv, link.attached, NEW f, Takes(f), f.k = "chunk",
         left' \in [events: 0..MaxEvents, odd: 0..MaxOdd], UNCHANGED <<todo, call>>,
         link' \in Link, Len(link'.re.completed) <= Recent,
         \/ link'.re = link.re /\ <<f.doc, f.id>> \in Range(link.re.completed)
         \/ Grows(f, link'.re)
         \/ Completes(f, link'.re) /\ f.id # 0,
         link'.session = link.session, link'.attached = link.attached,
         link'.docId = link.docId, link'.seen = link.seen, link'.cleaned = link.cleaned,
         link'.bridgeReady = link.bridgeReady, link'.acq = link.acq,
         link'.nextReq = link.nextReq, link'.pending = link.pending,
         \A n \in Call : InStream(n) => InStream(n)',
         Completes(f, link'.re) /\ f.msg.k = "rrweb" =>
           \A n \in Snapshot : n \in f.msg.for => InStream(n)'
  PROVE  IInv'
<1>1. Snapshot \subseteq Call
  BY AgentLinkAssumption
<1>2. f.id = 0 => f.doc <= link.docId \/ f.doc = Child
  <2>1. <<f.doc, f.id>>[1] = f.doc /\ <<f.doc, f.id>>[2] = f.id
    OBVIOUS
  <2> QED BY <2>1 DEF IInv, DocumentsOK, Grows
<1>3. HellosOK'
  BY <1>2, HellosKept
<1>4. ReassemblyOK'
  BY ReassemblyKept
<1>5. SnapshotsOK'
  BY <1>1, SnapshotsKept
<1>6. DocumentsOK'
  <2>1. \A key \in link'.cleaned : key[2] \in link.seen \cup {Child}
    BY DEF IInv, DocumentsOK
  <2> QED BY <1>2, <2>1, DocumentsAfter
<1>7. NumbersOK'
  <2>1. Carried(page', todo', link') \subseteq Carried(page, todo, link)
    BY CarriedFewer DEF Takes
  <2> QED BY <2>1, NumbersStep DEF IInv
<1>8. PendingOK'
  BY DEF IInv, PendingOK, Live, Pending
<1>9. BridgeOK'
  <2>1. \A i \in 1..Len(link.acq) :
          (\E c \in Range(todo) \cup Range(page.wire) : Carries(c, i))
            => \E c \in Range(todo') \cup Range(page'.wire) : Carries(c, i)
    BY BridgeUntouched
  <2> QED BY <2>1, BridgeKept
<1>10. AnswersMatch'
  BY DEF IInv, AnswersMatch
<1>11. SnapshotBeforeAnswer'
  BY <1>1 DEF IInv, SnapshotBeforeAnswer, Live, InStream
<1>12. Types' /\ PageOK(page)'
  BY PageTypes DEF Types, Takes
<1> QED BY <1>3, <1>4, <1>5, <1>6, <1>7, <1>8, <1>9, <1>10, <1>11, <1>12 DEF IInv

\* A chunk that completes nothing.
LEMMA IncompleteStep ==
  ASSUME IInv, link.attached, NEW f, Takes(f), f.k = "chunk",
         left' \in [events: 0..MaxEvents, odd: 0..MaxOdd], UNCHANGED <<todo, call>>,
         ~Add(link.re, f).done, link' = [link EXCEPT !.re = Add(link.re, f).re]
  PROVE  IInv'
<1> DEFINE a == Add(link.re, f)
<1>1. /\ a.re \in Reassembler /\ Len(a.re.completed) <= Recent
      /\ \/ ~a.done /\ a.re = link.re /\ <<f.doc, f.id>> \in Range(link.re.completed)
         \/ ~a.done /\ Grows(f, a.re)
         \/ a.done /\ Completes(f, a.re)
  BY AddFacts
<1>2. ~a.done /\ link' = [link EXCEPT !.re = a.re] /\ link \in Link
  BY PageTypes
<1> HIDE DEF a
<1>3. /\ link' \in Link /\ link'.re = a.re /\ link'.session = link.session
      /\ link'.attached = link.attached /\ link'.docId = link.docId /\ link'.seen = link.seen
      /\ link'.cleaned = link.cleaned /\ link'.bridgeReady = link.bridgeReady
      /\ link'.acq = link.acq /\ link'.nextReq = link.nextReq /\ link'.pending = link.pending
      /\ link'.stream = link.stream
  <2>1. a.re \in Reassembler
    BY <1>1
  <2>2. link' \in Link
    BY <1>2, <2>1, Zenon DEF Link
  <2> QED BY <1>2, <2>2 DEF Link
<1>4. /\ Len(link'.re.completed) <= Recent
      /\ \/ link'.re = link.re /\ <<f.doc, f.id>> \in Range(link.re.completed)
         \/ Grows(f, link'.re)
  BY <1>1, <1>2, <1>3
<1>5. \A n \in Call : InStream(n) => InStream(n)'
  BY <1>3 DEF InStream
<1>6. ~Completes(f, link'.re) \/ f.msg.k # "rrweb"
  <2>1. CASE link'.re = link.re /\ <<f.doc, f.id>> \in Range(link.re.completed)
    BY <2>1 DEF Completes
  <2>2. CASE Grows(f, link'.re)
    BY <2>2 DEF Grows, Completes
  <2> QED BY <1>4, <2>1, <2>2
<1> QED BY <1>3, <1>4, <1>5, <1>6, OnlyRead

\* An event is read into the stream.
LEMMA EventStep ==
  ASSUME IInv, link.attached, NEW f, Takes(f), f.k = "chunk", f.msg.k = "rrweb",
         left' \in [events: 0..MaxEvents, odd: 0..MaxOdd], UNCHANGED <<todo, call>>,
         Add(link.re, f).done,
         link' = Streamed([link EXCEPT !.re = Add(link.re, f).re], f)
  PROVE  IInv'
<1> DEFINE a == Add(link.re, f)
           l == [link EXCEPT !.re = a.re]
<1>1. /\ a.re \in Reassembler /\ Len(a.re.completed) <= Recent
      /\ \/ ~a.done /\ a.re = link.re /\ <<f.doc, f.id>> \in Range(link.re.completed)
         \/ ~a.done /\ Grows(f, a.re)
         \/ a.done /\ Completes(f, a.re)
  BY AddFacts
<1>2. a.done /\ link' = Streamed(l, f) /\ link \in Link
  BY PageTypes
<1>3. f.id # 0 /\ f.doc = link.docId /\ f.msg.doc = f.doc /\ f.msg \in Message
  BY TakenChunk
<1> HIDE DEF a
<1>4. /\ l \in Link /\ l.re = a.re /\ l.session = link.session
      /\ l.attached = link.attached /\ l.docId = link.docId /\ l.seen = link.seen
      /\ l.cleaned = link.cleaned /\ l.bridgeReady = link.bridgeReady
      /\ l.acq = link.acq /\ l.nextReq = link.nextReq /\ l.pending = link.pending
      /\ l.stream = link.stream
  <2>1. a.re \in Reassembler
    BY <1>1
  <2>2. l \in Link
    BY <1>2, <2>1, Zenon DEF Link
  <2> QED BY <1>2, <2>2 DEF Link
<1> HIDE DEF l
<1>5. link' = [l EXCEPT !.stream = Append(@, f.msg)]
  BY <1>2, <1>3, <1>4 DEF Streamed
<1>6. link.stream \in Seq(Message) /\ Append(l.stream, f.msg) \in Seq(Message)
  BY <1>2, <1>3, <1>4, LinkFields
<1>7. link' \in Link
  BY <1>4, <1>5, <1>6, Zenon DEF Link
<1>8. /\ link'.re = a.re /\ link'.session = link.session
      /\ link'.attached = link.attached /\ link'.docId = link.docId /\ link'.seen = link.seen
      /\ link'.cleaned = link.cleaned /\ link'.bridgeReady = link.bridgeReady
      /\ link'.acq = link.acq /\ link'.nextReq = link.nextReq /\ link'.pending = link.pending
      /\ link'.stream = Append(link.stream, f.msg)
  BY <1>4, <1>5 DEF Link
<1>9. /\ Len(link'.stream) = Len(link.stream) + 1 /\ Len(link.stream) \in Nat
      /\ link'.stream[Len(link.stream) + 1] = f.msg
      /\ \A i \in 1..Len(link.stream) : link'.stream[i] = link.stream[i]
  <2>1. link.stream \in Seq(Message)
    BY <1>6
  <2>2. f.msg \in Message
    BY <1>3
  <2>3. link'.stream = Append(link.stream, f.msg)
    BY <1>8
  <2>4. Len(link'.stream) = Len(link.stream) + 1 /\ Len(link.stream) \in Nat
    BY <2>1, <2>2, <2>3
  <2>5. link'.stream[Len(link.stream) + 1] = f.msg
    BY <2>1, <2>2, <2>3
  <2>6. ASSUME NEW i \in 1..Len(link.stream) PROVE link'.stream[i] = link.stream[i]
    <3>1. Append(link.stream, f.msg)[i] = link.stream[i]
      BY <2>1, <2>2, AppendAt, Zenon
    <3> QED BY <2>3, <3>1, Zenon
  <2> QED BY <2>4, <2>5, <2>6
<1>10. \A n \in Call : InStream(n) => InStream(n)'
  <2> SUFFICES ASSUME NEW n \in Call, InStream(n) PROVE InStream(n)'
    OBVIOUS
  <2>1. PICK i \in 1..Len(link.stream) : n \in link.stream[i].for
    BY DEF InStream
  <2>2. i \in 1..Len(link'.stream) /\ link'.stream[i] = link.stream[i]
    BY <1>9
  <2> QED BY <2>1, <2>2 DEF InStream
<1>11. \A n \in Snapshot : n \in f.msg.for => InStream(n)'
  <2>1. Len(link.stream) + 1 \in 1..Len(link'.stream)
    BY <1>9
  <2>2. link'.stream[Len(link.stream) + 1].for = f.msg.for
    BY <1>9
  <2> QED BY <2>1, <2>2 DEF InStream
<1>12. Len(link'.re.completed) <= Recent /\ Completes(f, link'.re) /\ f.id # 0
  BY <1>1, <1>2, <1>3, <1>8
<1> QED BY <1>7, <1>8, <1>10, <1>11, <1>12, OnlyRead

\* The answer of a command settles the command of its number, and no other.
LEMMA ResultStep ==
  ASSUME IInv, link.attached, NEW f, Takes(f), f.k = "chunk", f.msg.k = "cmdres",
         left' \in [events: 0..MaxEvents, odd: 0..MaxOdd], UNCHANGED todo,
         Add(link.re, f).done,
         ReceiveResult([link EXCEPT !.re = Add(link.re, f).re], f)
  PROVE  IInv'
<1> DEFINE a == Add(link.re, f)
           l == [link EXCEPT !.re = a.re]
           hit == {p \in link.pending : f.doc = link.docId /\ p.req = f.msg.n
                                          /\ p.docId = link.docId}
<1>1. /\ a.re \in Reassembler /\ Len(a.re.completed) <= Recent
      /\ \/ ~a.done /\ a.re = link.re /\ <<f.doc, f.id>> \in Range(link.re.completed)
         \/ ~a.done /\ Grows(f, a.re)
         \/ a.done /\ Completes(f, a.re)
  BY AddFacts
<1>2. a.done /\ ReceiveResult(l, f) /\ link \in Link /\ call \in [Call -> CallState]
  BY PageTypes
<1>3. /\ f.id # 0 /\ f.doc = link.docId /\ f.msg.doc = f.doc /\ f.msg \in Message
      /\ f \in Own(page) /\ \A g \in Own(page') : g = f \/ Before(f, g)
  BY TakenChunk
<1> HIDE DEF a
<1>4. /\ l \in Link /\ l.re = a.re /\ l.session = link.session
      /\ l.attached = link.attached /\ l.docId = link.docId /\ l.seen = link.seen
      /\ l.cleaned = link.cleaned /\ l.bridgeReady = link.bridgeReady
      /\ l.acq = link.acq /\ l.nextReq = link.nextReq /\ l.pending = link.pending
      /\ l.stream = link.stream
  <2>1. a.re \in Reassembler
    BY <1>1
  <2>2. l \in Link
    BY <1>2, <2>1, Zenon DEF Link
  <2> QED BY <1>2, <2>2 DEF Link
<1> HIDE DEF l
<1>5. /\ link' = [l EXCEPT !.pending = @ \ hit]
      /\ call' = [n \in Call |->
                    IF \E p \in hit : p.n = n
                    THEN [call[n] EXCEPT !.st = "answered", !.ok = f.msg.ok, !.for = f.msg.for]
                    ELSE call[n]]
  <2> DEFINE h == {p \in l.pending : f.doc = l.docId /\ p.req = f.msg.n /\ p.docId = l.docId}
  <2>1. h = hit
    BY <1>4
  <2>2. /\ link' = [l EXCEPT !.pending = @ \ h]
        /\ call' = [n \in Call |->
                      IF \E p \in h : p.n = n
                      THEN [call[n] EXCEPT !.st = "answered", !.ok = f.msg.ok, !.for = f.msg.for]
                      ELSE call[n]]
    BY <1>2 DEF ReceiveResult
  <2> HIDE DEF h, hit
  <2> QED BY <2>1, <2>2
<1>6. \A p \in hit : p \in link.pending /\ p.n \in Call /\ p.req = f.msg.n
  BY PendingFields
<1> HIDE DEF hit
<1>7. link' \in Link
  <2>1. l.pending \ hit \in SUBSET Registered
    BY <1>4, LinkFields
  <2> QED BY <1>4, <1>5, <2>1, Zenon DEF Link
<1>8. /\ link'.re = a.re /\ link'.session = link.session
      /\ link'.attached = link.attached /\ link'.docId = link.docId /\ link'.seen = link.seen
      /\ link'.cleaned = link.cleaned /\ link'.bridgeReady = link.bridgeReady
      /\ link'.acq = link.acq /\ link'.nextReq = link.nextReq
      /\ link'.stream = link.stream /\ link'.pending = link.pending \ hit
  BY <1>4, <1>5 DEF Link
<1>9. ASSUME NEW n \in Call, \E p \in hit : p.n = n
      PROVE  /\ call'[n] \in CallState /\ call'[n].st = "answered" /\ call'[n].ok = f.msg.ok
             /\ call'[n].for = f.msg.for /\ call'[n].session = call[n].session
             /\ call[n].st = "sent" /\ f.msg.for = {n}
  <2> DEFINE c1 == [call[n] EXCEPT !.st = "answered"]
             c2 == [c1 EXCEPT !.ok = f.msg.ok]
             c == [c2 EXCEPT !.for = f.msg.for]
  <2>1. call'[n] = c
    BY <1>5, <1>9
  <2>2. c1 \in CallState
    BY <1>2, Zenon DEF CallState
  <2>3. c1.st = "answered" /\ c1.session = call[n].session
    BY <1>2 DEF CallState
  <2> HIDE DEF c1
  <2>4. f.msg.ok \in BOOLEAN /\ f.msg.for \in SUBSET Whose
    BY <1>3, MessageFields
  <2>5. c2 \in CallState
    BY <2>2, <2>4, Zenon DEF CallState
  <2>6. c2.st = "answered" /\ c2.session = call[n].session /\ c2.ok = f.msg.ok
    BY <2>2, <2>3 DEF CallState
  <2> HIDE DEF c2
  <2>7. c \in CallState
    BY <2>4, <2>5, Zenon DEF CallState
  <2>8. /\ c.st = "answered" /\ c.session = call[n].session /\ c.ok = f.msg.ok
        /\ c.for = f.msg.for
    BY <2>5, <2>6 DEF CallState
  <2> HIDE DEF c
  <2>9. PICK p \in hit : p.n = n
    BY <1>9
  <2>10. call[n].st = "sent"
    BY <1>6, <2>9 DEF IInv, PendingOK
  <2>11. f.msg.for = {n}
    <3>1. <<p.req, {p.n}>> \in Numbered(link.pending)
      BY <1>6, <2>9 DEF Numbered
    <3>2. <<f.msg.n, f.msg.for>> \in Results(InFlight(page))
      BY <1>3 DEF Results, Own
    <3> DEFINE x == <<p.req, {p.n}>>
               y == <<f.msg.n, f.msg.for>>
    <3>3. x \in Carried(page, todo, link) /\ y \in Carried(page, todo, link)
      BY <3>1, <3>2 DEF Carried
    <3>4. x[1] = y[1]
      BY <1>6, <2>9
    <3>5. x[2] = y[2]
      <4> HIDE DEF x, y
      <4> QED BY <3>3, <3>4 DEF IInv, NumbersOK
    <3> QED BY <2>9, <3>5
  <2> QED BY <2>1, <2>7, <2>8, <2>10, <2>11
<1>10. \A n \in Call : ~(\E p \in hit : p.n = n) => call'[n] = call[n]
  BY <1>5
<1>11. call' \in [Call -> CallState]
  <2>1. \A n \in Call : call'[n] \in CallState
    BY <1>2, <1>9, <1>10
  <2>2. \E F : call' = [n \in Call |-> F[n]]
    <3>1. call' = [n \in Call |-> call'[n]]
      BY <1>5
    <3> QED BY <3>1
  <2> QED BY <2>1, <2>2
<1>12. PendingOK'
  <2>1. \A q \in link'.pending : q \in link.pending /\ q \notin hit /\ q.n \in Call
    BY <1>8, PendingFields
  <2>2. \A q \in link'.pending : ~(\E p \in hit : p.n = q.n)
    BY <1>6, <2>1 DEF IInv, PendingOK
  <2>3. \A q \in link'.pending : q.docId = link'.docId /\ call'[q.n].st = "sent"
    BY <1>8, <1>10, <2>1, <2>2 DEF IInv, PendingOK
  <2>4. \A q, r \in link'.pending : q.n = r.n => q = r
    BY <2>1 DEF IInv, PendingOK
  <2>5. ASSUME NEW n \in Call, call'[n].st = "sent" PROVE Live(n)' /\ n \in Pending(link')
    <3>1. ~(\E p \in hit : p.n = n)
      BY <1>9, <2>5
    <3>2. call'[n] = call[n]
      BY <1>10, <3>1
    <3>3. Live(n) /\ n \in Pending(link)
      BY <2>5, <3>2 DEF IInv, PendingOK
    <3>4. n \in Pending(link')
      BY <1>8, <3>1, <3>3 DEF Pending
    <3> QED BY <1>8, <3>2, <3>3, <3>4 DEF Live
  <2> QED BY <2>3, <2>4, <2>5 DEF PendingOK
<1>13. AnswersMatch'
  BY <1>9, <1>10 DEF IInv, AnswersMatch
<1>14. SnapshotBeforeAnswer'
  <2> SUFFICES ASSUME NEW n \in Snapshot, call'[n].st = "answered", call'[n].ok, Live(n)'
               PROVE  InStream(n)'
    BY DEF SnapshotBeforeAnswer, InStream
  <2>1. n \in Call
    BY AgentLinkAssumption
  <2>2. CASE \E p \in hit : p.n = n
    <3>1. f.msg.ok /\ f.msg.for = {n}
      BY <1>9, <2>1, <2>2
    <3>2. InStream(n) \/ Coming(n, f)
      BY <1>3, <3>1 DEF IInv, SnapshotsOK
    <3>3. ~Coming(n, f)
      <4> SUFFICES ASSUME Coming(n, f) PROVE FALSE
        OBVIOUS
      <4>1. PICK e \in Own(page) : e.doc = f.doc /\ e.id < f.id
        BY DEF Coming
      <4>2. e.id \in Nat /\ f.id \in Nat /\ e.doc \in Nat
        BY <1>3, FlightFields
      <4>3. e # f
        BY <4>1, <4>2
      <4>4. e \in Own(page')
        BY <4>3, TakenChunk
      <4>5. Before(f, e)
        BY <1>3, <4>3, <4>4
      <4> QED BY <4>1, <4>2, <4>5 DEF Before
    <3> QED BY <1>8, <3>2, <3>3 DEF InStream
  <2>3. CASE ~(\E p \in hit : p.n = n)
    <3>1. call'[n] = call[n]
      BY <1>10, <2>1, <2>3
    <3>2. Live(n)
      BY <1>8, <3>1 DEF Live
    <3>3. InStream(n)
      BY <3>1, <3>2 DEF IInv, SnapshotBeforeAnswer, InStream
    <3> QED BY <1>8, <3>3 DEF InStream
  <2> QED BY <2>2, <2>3
<1>15. Len(link'.re.completed) <= Recent /\ Completes(f, link'.re)
  BY <1>1, <1>2, <1>8
<1>16. HellosOK'
  BY <1>3, <1>8, HellosKept
<1>17. ReassemblyOK'
  BY <1>15, ReassemblyKept
<1>18. SnapshotsOK'
  <2>1. \A n \in Snapshot : InStream(n) => InStream(n)'
    BY <1>8 DEF InStream
  <2> QED BY <1>15, <2>1, SnapshotsKept
<1>19. DocumentsOK'
  <2>1. \A key \in link'.cleaned : key[2] \in link.seen \cup {Child}
    BY <1>8 DEF IInv, DocumentsOK
  <2> QED BY <1>3, <1>8, <1>15, <2>1, DocumentsAfter
<1>20. NumbersOK'
  <2>1. link'.pending \subseteq link.pending
    BY <1>8
  <2>2. Carried(page', todo', link') \subseteq Carried(page, todo, link)
    BY <2>1, CarriedFewer DEF Takes
  <2> QED BY <1>8, <2>2, NumbersStep DEF IInv
<1>21. BridgeOK'
  <2>1. \A i \in 1..Len(link.acq) :
          (\E c \in Range(todo) \cup Range(page.wire) : Carries(c, i))
            => \E c \in Range(todo') \cup Range(page'.wire) : Carries(c, i)
    BY BridgeUntouched
  <2>2. \A n \in Call : \/ call'[n] = call[n]
                        \/ call'[n].session = call[n].session /\ call'[n].st # "awaiting"
    BY <1>9, <1>10
  <2> QED BY <1>8, <2>1, <2>2, BridgeKept
<1>22. Types' /\ PageOK(page)'
  BY <1>7, <1>11, PageTypes DEF Types, Takes
<1> QED BY <1>12, <1>13, <1>14, <1>16, <1>17, <1>18, <1>19, <1>20, <1>21, <1>22 DEF IInv

\* The bridge of a document's context is acquired once.
LEMMA AcquireFacts ==
  ASSUME NEW l \in Link, NEW f \in Chunk, f.msg.doc = f.doc
  PROVE  LET a == Acquire(l, f)
             key == <<f.ctx, f.doc>>
         IN /\ a \in Link /\ a.session = l.session /\ a.attached = l.attached
            /\ a.docId = l.docId /\ a.seen = l.seen /\ a.object = l.object
            /\ a.nextReq = l.nextReq /\ a.pending = l.pending /\ a.stream = l.stream
            /\ a.re = l.re /\ a.cleaned = l.cleaned \cup {key}
            /\ \/ a = l /\ key \in l.cleaned /\ a.acq = l.acq /\ a.bridgeReady = l.bridgeReady
               \/ /\ a # l /\ key \notin l.cleaned /\ a.acq = Append(l.acq, "waiting")
                  /\ a.bridgeReady = IF f.doc = Child THEN l.bridgeReady ELSE Len(l.acq) + 1
<1> DEFINE key == <<f.ctx, f.doc>>
           b == IF f.doc = Child THEN l.bridgeReady ELSE Len(l.acq) + 1
           a1 == [l EXCEPT !.cleaned = @ \cup {key}]
           a2 == [a1 EXCEPT !.acq = Append(@, "waiting")]
           a3 == [a2 EXCEPT !.bridgeReady = b]
<1>1. CASE key \in l.cleaned
  <2>1. Acquire(l, f) = l
    BY <1>1 DEF Acquire
  <2>2. l.cleaned = l.cleaned \cup {key}
    BY <1>1
  <2> QED BY <1>1, <2>1, <2>2
<1>2. CASE key \notin l.cleaned
  <2>1. Acquire(l, f) = a3
    BY <1>2 DEF Acquire
  <2>2. /\ key \in Key /\ l.cleaned \in SUBSET Key /\ l.bridgeReady \in Nat
        /\ l.acq \in Seq({"waiting", "done", "failed"})
    BY ChunkFields, LinkFields DEF Key
  <2>3. l.cleaned \cup {key} \in SUBSET Key
    BY <2>2
  <2>4. a1 \in Link
    BY <2>3, Zenon DEF Link
  <2>5. /\ a1.session = l.session /\ a1.attached = l.attached
        /\ a1.docId = l.docId /\ a1.seen = l.seen /\ a1.object = l.object
        /\ a1.nextReq = l.nextReq /\ a1.pending = l.pending /\ a1.stream = l.stream
        /\ a1.re = l.re /\ a1.cleaned = l.cleaned \cup {key} /\ a1.acq = l.acq
        /\ a1.bridgeReady = l.bridgeReady
    BY DEF Link
  <2> HIDE DEF a1
  <2>6. Append(a1.acq, "waiting") \in Seq({"waiting", "done", "failed"})
    BY <2>2, <2>5
  <2>7. a2 \in Link
    BY <2>4, <2>6, Zenon DEF Link
  <2>8. /\ a2.session = l.session /\ a2.attached = l.attached
        /\ a2.docId = l.docId /\ a2.seen = l.seen /\ a2.object = l.object
        /\ a2.nextReq = l.nextReq /\ a2.pending = l.pending /\ a2.stream = l.stream
        /\ a2.re = l.re /\ a2.cleaned = l.cleaned \cup {key}
        /\ a2.acq = Append(l.acq, "waiting") /\ a2.bridgeReady = l.bridgeReady
    BY <2>4, <2>5 DEF Link
  <2> HIDE DEF a2
  <2>9. b \in Nat
    BY <2>2
  <2> HIDE DEF b
  <2>10. a3 \in Link
    BY <2>7, <2>9, Zenon DEF Link
  <2>11. /\ a3.session = l.session /\ a3.attached = l.attached
         /\ a3.docId = l.docId /\ a3.seen = l.seen /\ a3.object = l.object
         /\ a3.nextReq = l.nextReq /\ a3.pending = l.pending /\ a3.stream = l.stream
         /\ a3.re = l.re /\ a3.cleaned = l.cleaned \cup {key}
         /\ a3.acq = Append(l.acq, "waiting") /\ a3.bridgeReady = b
    BY <2>7, <2>8 DEF Link
  <2> HIDE DEF a3
  <2>12. a3 # l
    <3>1. key \in a3.cleaned
      BY <2>11
    <3> QED BY <1>2, <3>1
  <2> QED BY <1>2, <2>1, <2>10, <2>11, <2>12 DEF b
<1> QED BY <1>1, <1>2

\* What a hello does to the bridge, accepted or not.
LEMMA HelloBridge ==
  ASSUME IInv, link.attached, NEW f, Takes(f), f.k = "chunk", f.msg.k = "hello",
         NEW a \in Link, NEW key, key = <<f.ctx, f.doc>>,
         a.cleaned = link.cleaned \cup {key},
         \/ key \in link.cleaned /\ a.acq = link.acq /\ a.bridgeReady = link.bridgeReady
                                 /\ todo' = todo
         \/ /\ key \notin link.cleaned /\ a.acq = Append(link.acq, "waiting")
            /\ a.bridgeReady = IF f.doc = Child THEN link.bridgeReady ELSE Len(link.acq) + 1
            /\ todo' = Append(todo, [k |-> "acquire", ctx |-> f.ctx, p |-> Len(a.acq),
                                     retain |-> f.msg.doc # Child]),
         link'.session = link.session, link'.attached, link'.cleaned = a.cleaned,
         link'.acq = a.acq, link'.bridgeReady = a.bridgeReady,
         \/ link'.docId = link.docId
         \/ link'.docId = f.doc /\ f.doc # Child,
         \A n \in Call : \/ call'[n] = call[n]
                         \/ call'[n].session = 0 /\ call'[n].st # "awaiting"
  PROVE  BridgeOK' /\ todo' \in Seq(Todo) /\ Calls(todo') = Calls(todo)
<1> DEFINE c == [k |-> "acquire", ctx |-> f.ctx, p |-> Len(a.acq), retain |-> f.msg.doc # Child]
<1>1. /\ f \in Chunk /\ f.doc \in Nat /\ f.doc # 0
  BY TakenChunk
<1>2. /\ todo \in Seq(Todo) /\ link \in Link /\ link.acq \in Seq({"waiting", "done", "failed"})
      /\ link.bridgeReady \in Nat /\ link.session \in Nat
      /\ a.acq \in Seq({"waiting", "done", "failed"})
  BY PageTypes, LinkFields
<1>3. c \in AcquireCmd /\ c.k = "acquire" /\ c.p = Len(a.acq)
  <2>1. f.ctx \in Nat /\ Len(a.acq) \in Nat /\ (f.msg.doc # Child) \in BOOLEAN
    BY <1>1, <1>2, ChunkFields
  <2> QED BY <2>1 DEF AcquireCmd
<1>4. c \in Todo
  BY <1>3 DEF Todo
<1>5. key[2] = f.doc
  OBVIOUS
<1> HIDE DEF c
<1>6. /\ todo' \in Seq(Todo) /\ Calls(todo') = Calls(todo) /\ Range(todo) \subseteq Range(todo')
      /\ todo' # todo => c \in Range(todo')
  <2>1. CASE todo' = todo
    BY <1>2, <2>1
  <2>2. CASE todo' = Append(todo, c)
    <3>1. todo' \in Seq(Todo) /\ Range(todo') = Range(todo) \cup {c}
      BY <1>2, <1>4, <2>2, RangeAppend
    <3>2. Calls(todo') = Calls(todo)
      <4>1. c.k # "call"
        BY <1>3
      <4> QED BY <3>1, <4>1, Zenon DEF Calls
    <3> QED BY <3>1, <3>2
  <2> QED BY <2>1, <2>2 DEF c
<1>7. /\ Len(link.acq) \in Nat /\ Len(a.acq) \in Nat /\ Len(a.acq) >= Len(link.acq)
      /\ a.bridgeReady <= Len(a.acq) /\ a.bridgeReady >= link.bridgeReady
      /\ f.doc # Child => a.bridgeReady >= 1
  <2>1. link.bridgeReady <= Len(link.acq)
    BY DEF IInv, BridgeOK
  <2>2. key \in link.cleaned /\ f.doc # Child => link.bridgeReady >= 1
    BY <1>5 DEF IInv, BridgeOK
  <2>3. Len(link.acq) \in Nat /\ Len(a.acq) \in Nat
    BY <1>2
  <2>4. CASE key \in link.cleaned
    <3>1. a.acq = link.acq /\ a.bridgeReady = link.bridgeReady
      BY <2>4
    <3> QED BY <1>2, <2>1, <2>2, <2>3, <2>4, <3>1
  <2>5. CASE key \notin link.cleaned
    <3>1. /\ a.acq = Append(link.acq, "waiting")
          /\ a.bridgeReady = IF f.doc = Child THEN link.bridgeReady ELSE Len(link.acq) + 1
      BY <2>5
    <3>2. Len(a.acq) = Len(link.acq) + 1
      BY <1>2, <3>1
    <3> QED BY <1>2, <2>1, <2>3, <3>1, <3>2
  <2> QED BY <2>4, <2>5
<1>8. link'.session >= 1 /\ \A n \in Call : call'[n].session <= link'.session
  BY <1>2 DEF IInv, BridgeOK
<1>9. \A n \in Call : call'[n].st = "awaiting" /\ Live(n)' => call'[n].on \in 1..Len(link'.acq)
  <2> SUFFICES ASSUME NEW n \in Call, call'[n].st = "awaiting", Live(n)'
               PROVE  call'[n].on \in 1..Len(link'.acq)
    OBVIOUS
  <2>1. call'[n] = call[n] /\ Live(n)
    BY DEF Live
  <2>2. call[n].on \in 1..Len(link.acq)
    BY <2>1 DEF IInv, BridgeOK
  <2> QED BY <1>7, <2>1, <2>2
<1>10. link'.docId # None => link'.bridgeReady >= 1
  <2>1. link.docId # None => link.bridgeReady >= 1
    BY DEF IInv, BridgeOK
  <2> QED BY <1>2, <1>7, <2>1, LinkFields
<1>11. \A k \in link'.cleaned : k[2] # Child => link'.bridgeReady >= 1
  <2>1. \A k \in link.cleaned : k[2] # Child => link.bridgeReady >= 1
    BY DEF IInv, BridgeOK
  <2> QED BY <1>2, <1>5, <1>7, <2>1, LinkFields
<1>12. \A i \in 1..Len(link'.acq) : link'.acq[i] = "waiting"
         => \E x \in Range(todo') \cup Range(page'.wire) : Carries(x, i)
  <2>1. \A i \in 1..Len(link.acq) : link.acq[i] = "waiting"
          => \E x \in Range(todo') \cup Range(page'.wire) : Carries(x, i)
    <3> SUFFICES ASSUME NEW i \in 1..Len(link.acq), link.acq[i] = "waiting"
                 PROVE  \E x \in Range(todo') \cup Range(page'.wire) : Carries(x, i)
      OBVIOUS
    <3>1. \E x \in Range(todo) \cup Range(page.wire) : Carries(x, i)
      BY DEF IInv, BridgeOK
    <3> QED BY <1>6, <3>1, BridgeUntouched
  <2>2. CASE a.acq = link.acq
    BY <2>1, <2>2
  <2>3. CASE a.acq = Append(link.acq, "waiting") /\ todo' = Append(todo, c)
    <3>1. /\ Len(a.acq) = Len(link.acq) + 1
          /\ \A i \in 1..Len(link.acq) : a.acq[i] = link.acq[i]
      BY <1>2, <2>3
    <3>2. c \in Range(todo') /\ Carries(c, Len(a.acq))
      <4>1. c \in Range(todo')
        BY <1>2, <1>4, <2>3, RangeAppend
      <4> QED BY <1>3, <4>1 DEF Carries
    <3>3. ASSUME NEW i \in 1..Len(a.acq), a.acq[i] = "waiting"
          PROVE  \E x \in Range(todo') \cup Range(page'.wire) : Carries(x, i)
      <4>1. CASE i = Len(a.acq)
        BY <3>2, <4>1
      <4>2. CASE i # Len(a.acq)
        <5>1. i \in 1..Len(link.acq)
          BY <1>7, <3>1, <4>2
        <5> QED BY <2>1, <3>1, <3>3, <5>1
      <4> QED BY <4>1, <4>2
    <3> QED BY <3>3
  <2> QED BY <2>2, <2>3 DEF c
<1> QED BY <1>6, <1>7, <1>8, <1>9, <1>10, <1>11, <1>12 DEF BridgeOK

\* What the gateway makes of a hello.
LEMMA HelloRead ==
  ASSUME IInv, link.attached, NEW f, Takes(f), f.k = "chunk", f.msg.k = "hello",
         Add(link.re, f).done,
         ReceiveHello([link EXCEPT !.re = Add(link.re, f).re], f)
  PROVE  \E a \in Link :
           /\ a.session = link.session /\ a.attached = link.attached /\ a.docId = link.docId
           /\ a.seen = link.seen /\ a.nextReq = link.nextReq /\ a.pending = link.pending
           /\ a.stream = link.stream /\ a.cleaned = link.cleaned \cup {<<f.ctx, f.doc>>}
           /\ Len(a.re.completed) <= Recent /\ Completes(f, a.re)
           /\ \/ /\ <<f.ctx, f.doc>> \in link.cleaned /\ a.acq = link.acq
                 /\ a.bridgeReady = link.bridgeReady /\ todo' = todo
              \/ /\ <<f.ctx, f.doc>> \notin link.cleaned /\ a.acq = Append(link.acq, "waiting")
                 /\ a.bridgeReady = IF f.doc = Child THEN link.bridgeReady ELSE Len(link.acq) + 1
                 /\ todo' = Append(todo, [k |-> "acquire", ctx |-> f.ctx, p |-> Len(a.acq),
                                          retain |-> f.msg.doc # Child])
           /\ IF AcceptsHello(link, f.msg)
              THEN RejectPending([a EXCEPT !.docId = f.msg.doc, !.seen = @ \cup {f.msg.doc},
                                           !.stream = Append(@, f.msg)])
              ELSE link' = a /\ UNCHANGED call
<1> DEFINE r == Add(link.re, f)
           l == [link EXCEPT !.re = r.re]
           a == Acquire(l, f)
<1>1. /\ r.re \in Reassembler /\ Len(r.re.completed) <= Recent
      /\ \/ ~r.done /\ r.re = link.re /\ <<f.doc, f.id>> \in Range(link.re.completed)
         \/ ~r.done /\ Grows(f, r.re)
         \/ r.done /\ Completes(f, r.re)
  BY AddFacts
<1>2. r.done /\ ReceiveHello(l, f) /\ link \in Link
  BY PageTypes
<1>3. f \in Chunk /\ f.msg.doc = f.doc
  BY TakenChunk
<1> HIDE DEF r
<1>4. /\ l \in Link /\ l.re = r.re /\ l.session = link.session
      /\ l.attached = link.attached /\ l.docId = link.docId /\ l.seen = link.seen
      /\ l.cleaned = link.cleaned /\ l.bridgeReady = link.bridgeReady
      /\ l.acq = link.acq /\ l.nextReq = link.nextReq /\ l.pending = link.pending
      /\ l.stream = link.stream
  <2>1. r.re \in Reassembler
    BY <1>1
  <2>2. l \in Link
    BY <1>2, <2>1, Zenon DEF Link
  <2> QED BY <1>2, <2>2 DEF Link
<1> HIDE DEF l
<1>5. /\ todo' = IF a = l THEN todo
                 ELSE Append(todo, [k |-> "acquire", ctx |-> f.ctx, p |-> Len(a.acq),
                                    retain |-> f.msg.doc # Child])
      /\ IF AcceptsHello(l, f.msg)
         THEN RejectPending([a EXCEPT !.docId = f.msg.doc, !.seen = @ \cup {f.msg.doc},
                                      !.stream = Append(@, f.msg)])
         ELSE link' = a /\ UNCHANGED call
  BY <1>2 DEF ReceiveHello
<1>6. AcceptsHello(l, f.msg) <=> AcceptsHello(link, f.msg)
  BY <1>4 DEF AcceptsHello
<1>7. l \in Link
  BY <1>4
<1>8. /\ a \in Link /\ a.session = l.session /\ a.attached = l.attached
      /\ a.docId = l.docId /\ a.seen = l.seen
      /\ a.nextReq = l.nextReq /\ a.pending = l.pending /\ a.stream = l.stream
      /\ a.re = l.re /\ a.cleaned = l.cleaned \cup {<<f.ctx, f.doc>>}
      /\ \/ /\ a = l /\ <<f.ctx, f.doc>> \in l.cleaned /\ a.acq = l.acq
            /\ a.bridgeReady = l.bridgeReady
         \/ /\ a # l /\ <<f.ctx, f.doc>> \notin l.cleaned /\ a.acq = Append(l.acq, "waiting")
            /\ a.bridgeReady = IF f.doc = Child THEN l.bridgeReady ELSE Len(l.acq) + 1
  BY <1>3, <1>7, AcquireFacts
<1> HIDE DEF a
<1>9. Len(a.re.completed) <= Recent /\ Completes(f, a.re)
  BY <1>1, <1>2, <1>4, <1>8
<1>10. IF AcceptsHello(link, f.msg)
       THEN RejectPending([a EXCEPT !.docId = f.msg.doc, !.seen = @ \cup {f.msg.doc},
                                    !.stream = Append(@, f.msg)])
       ELSE link' = a /\ UNCHANGED call
  BY <1>5, <1>6
<1>11. \/ /\ <<f.ctx, f.doc>> \in link.cleaned /\ a.acq = link.acq
          /\ a.bridgeReady = link.bridgeReady /\ todo' = todo
       \/ /\ <<f.ctx, f.doc>> \notin link.cleaned /\ a.acq = Append(link.acq, "waiting")
          /\ a.bridgeReady = IF f.doc = Child THEN link.bridgeReady ELSE Len(link.acq) + 1
          /\ todo' = Append(todo, [k |-> "acquire", ctx |-> f.ctx, p |-> Len(a.acq),
                                   retain |-> f.msg.doc # Child])
  BY <1>4, <1>5, <1>8
<1>12. /\ a.session = link.session /\ a.attached = link.attached /\ a.docId = link.docId
       /\ a.seen = link.seen /\ a.nextReq = link.nextReq /\ a.pending = link.pending
       /\ a.stream = link.stream /\ a.cleaned = link.cleaned \cup {<<f.ctx, f.doc>>}
  BY <1>4, <1>8
<1> QED BY <1>8, <1>9, <1>10, <1>11, <1>12

\* A hello that is not accepted.
LEMMA HelloRefused ==
  ASSUME IInv, link.attached, NEW f, Takes(f), f.k = "chunk", f.msg.k = "hello",
         left' \in [events: 0..MaxEvents, odd: 0..MaxOdd],
         Add(link.re, f).done, ~AcceptsHello(link, f.msg),
         ReceiveHello([link EXCEPT !.re = Add(link.re, f).re], f)
  PROVE  IInv'
<1>1. PICK a \in Link :
        /\ a.session = link.session /\ a.attached = link.attached /\ a.docId = link.docId
        /\ a.seen = link.seen /\ a.nextReq = link.nextReq /\ a.pending = link.pending
        /\ a.stream = link.stream /\ a.cleaned = link.cleaned \cup {<<f.ctx, f.doc>>}
        /\ Len(a.re.completed) <= Recent /\ Completes(f, a.re)
        /\ \/ /\ <<f.ctx, f.doc>> \in link.cleaned /\ a.acq = link.acq
              /\ a.bridgeReady = link.bridgeReady /\ todo' = todo
           \/ /\ <<f.ctx, f.doc>> \notin link.cleaned /\ a.acq = Append(link.acq, "waiting")
              /\ a.bridgeReady = IF f.doc = Child THEN link.bridgeReady ELSE Len(link.acq) + 1
              /\ todo' = Append(todo, [k |-> "acquire", ctx |-> f.ctx, p |-> Len(a.acq),
                                       retain |-> f.msg.doc # Child])
        /\ link' = a /\ UNCHANGED call
  BY HelloRead
<1>2. /\ f.doc \in Nat /\ f.doc # 0 /\ f.msg.doc = f.doc /\ f.id = 0
  BY TakenChunk
<1>3. f.doc = Child \/ f.doc \in link.seen
  BY <1>2 DEF AcceptsHello, IInv, DocumentsOK, None
<1>4. f.doc = Child \/ f.doc <= link.docId
  BY <1>3 DEF IInv, DocumentsOK
<1>5. BridgeOK' /\ todo' \in Seq(Todo) /\ Calls(todo') = Calls(todo)
  <2> DEFINE key == <<f.ctx, f.doc>>
  <2>1. a.cleaned = link.cleaned \cup {key}
    BY <1>1
  <2>2. \/ key \in link.cleaned /\ a.acq = link.acq /\ a.bridgeReady = link.bridgeReady
                                /\ todo' = todo
        \/ /\ key \notin link.cleaned /\ a.acq = Append(link.acq, "waiting")
           /\ a.bridgeReady = IF f.doc = Child THEN link.bridgeReady ELSE Len(link.acq) + 1
           /\ todo' = Append(todo, [k |-> "acquire", ctx |-> f.ctx, p |-> Len(a.acq),
                                    retain |-> f.msg.doc # Child])
    BY <1>1
  <2>3. /\ link'.session = link.session /\ link'.attached /\ link'.cleaned = a.cleaned
        /\ link'.acq = a.acq /\ link'.bridgeReady = a.bridgeReady /\ link'.docId = link.docId
    BY <1>1
  <2>4. \A n \in Call : call'[n] = call[n]
    BY <1>1
  <2>5. a \in Link /\ key = <<f.ctx, f.doc>>
    OBVIOUS
  <2> HIDE DEF key
  <2> QED BY <2>1, <2>2, <2>3, <2>4, <2>5, HelloBridge
<1>6. /\ link'.docId = link.docId /\ link'.seen = link.seen /\ link'.re = a.re
      /\ link'.stream = link.stream /\ link'.pending = link.pending
      /\ link'.session = link.session /\ link'.attached = link.attached /\ link'.nextReq = link.nextReq
      /\ Len(link'.re.completed) <= Recent /\ Completes(f, link'.re)
  BY <1>1
<1>7. HellosOK'
  BY <1>4, <1>6, HellosKept
<1>8. ReassemblyOK'
  BY <1>6, ReassemblyKept
<1>9. SnapshotsOK'
  <2>1. \A n \in Snapshot : InStream(n) => InStream(n)'
    BY <1>6 DEF InStream
  <2> QED BY <1>6, <2>1, SnapshotsKept
<1>10. DocumentsOK'
  <2>1. \A key \in link'.cleaned : key[2] \in link.seen \cup {Child}
    <3>1. <<f.ctx, f.doc>>[2] = f.doc
      OBVIOUS
    <3>2. \A key \in link'.cleaned : key \in link.cleaned \/ key = <<f.ctx, f.doc>>
      BY <1>1
    <3> QED BY <1>3, <3>1, <3>2 DEF IInv, DocumentsOK
  <2> QED BY <1>4, <1>6, <2>1, DocumentsAfter
<1>11. NumbersOK'
  <2>1. Carried(page', todo', link') \subseteq Carried(page, todo, link)
    BY <1>5, <1>6, CarriedFewer DEF Takes
  <2> QED BY <1>6, <2>1, NumbersStep DEF IInv
<1>12. PendingOK'
  BY <1>1, <1>6 DEF IInv, PendingOK, Live, Pending
<1>13. AnswersMatch' /\ SnapshotBeforeAnswer'
  BY <1>1, <1>6 DEF IInv, AnswersMatch, SnapshotBeforeAnswer, Live
<1>14. Types' /\ PageOK(page)'
  BY <1>1, <1>5, PageTypes DEF Types, Takes
<1> QED BY <1>5, <1>7, <1>8, <1>9, <1>10, <1>11, <1>12, <1>13, <1>14 DEF IInv

\* A hello that replaces the canonical document.
LEMMA HelloAccepted ==
  ASSUME IInv, link.attached, NEW f, Takes(f), f.k = "chunk", f.msg.k = "hello",
         left' \in [events: 0..MaxEvents, odd: 0..MaxOdd],
         Add(link.re, f).done, AcceptsHello(link, f.msg),
         ReceiveHello([link EXCEPT !.re = Add(link.re, f).re], f)
  PROVE  IInv'
<1>1. PICK a \in Link :
        /\ a.session = link.session /\ a.attached = link.attached /\ a.docId = link.docId
        /\ a.seen = link.seen /\ a.nextReq = link.nextReq /\ a.pending = link.pending
        /\ a.stream = link.stream /\ a.cleaned = link.cleaned \cup {<<f.ctx, f.doc>>}
        /\ Len(a.re.completed) <= Recent /\ Completes(f, a.re)
        /\ \/ /\ <<f.ctx, f.doc>> \in link.cleaned /\ a.acq = link.acq
              /\ a.bridgeReady = link.bridgeReady /\ todo' = todo
           \/ /\ <<f.ctx, f.doc>> \notin link.cleaned /\ a.acq = Append(link.acq, "waiting")
              /\ a.bridgeReady = IF f.doc = Child THEN link.bridgeReady ELSE Len(link.acq) + 1
              /\ todo' = Append(todo, [k |-> "acquire", ctx |-> f.ctx, p |-> Len(a.acq),
                                       retain |-> f.msg.doc # Child])
        /\ RejectPending([a EXCEPT !.docId = f.msg.doc, !.seen = @ \cup {f.msg.doc},
                                   !.stream = Append(@, f.msg)])
  BY HelloRead
<1>2. /\ f \in Chunk /\ f.doc \in Nat /\ f.doc # 0 /\ f.msg.doc = f.doc /\ f.id = 0
      /\ f.msg \in Message
      /\ \/ f.id = 0 /\ f.doc \in link.seen \cup {Child}
         \/ f \in Own(page) /\ \A g \in Own(page') : g = f \/ Before(f, g)
  BY TakenChunk
<1>3. f.doc # link.docId /\ f.doc \notin link.seen /\ f.doc # Child
  BY <1>2 DEF AcceptsHello
<1>4. f \in Own(page) /\ \A g \in Own(page') : g = f \/ Before(f, g)
  BY <1>2, <1>3
<1> DEFINE b1 == [a EXCEPT !.docId = f.doc]
           b2 == [b1 EXCEPT !.seen = @ \cup {f.doc}]
           b == [b2 EXCEPT !.stream = Append(@, f.msg)]
           b4 == [b EXCEPT !.pending = {}]
<1>5. link' = b4 /\ call' = Settle(call, Pending(b), "failed")
  BY <1>1, <1>2 DEF RejectPending
<1>6. f.doc \in DocNo
  BY <1>2 DEF DocNo
<1>7. b1 \in Link
  BY <1>2, Zenon DEF Link
<1>8. /\ b1.session = a.session /\ b1.attached = a.attached
      /\ b1.docId = f.doc /\ b1.seen = a.seen /\ b1.nextReq = a.nextReq
      /\ b1.pending = a.pending /\ b1.stream = a.stream
      /\ b1.re = a.re /\ b1.cleaned = a.cleaned /\ b1.acq = a.acq
      /\ b1.bridgeReady = a.bridgeReady
  BY DEF Link
<1> HIDE DEF b1
<1>9. b2 \in Link
  <2>1. b1.seen \cup {f.doc} \in SUBSET DocNo
    BY <1>6, <1>7, LinkFields
  <2> QED BY <1>7, <2>1, Zenon DEF Link
<1>10. /\ b2.session = a.session /\ b2.attached = a.attached
       /\ b2.docId = f.doc /\ b2.seen = a.seen \cup {f.doc} /\ b2.nextReq = a.nextReq
       /\ b2.pending = a.pending /\ b2.stream = a.stream
       /\ b2.re = a.re /\ b2.cleaned = a.cleaned /\ b2.acq = a.acq
       /\ b2.bridgeReady = a.bridgeReady
  BY <1>7, <1>8 DEF Link
<1> HIDE DEF b2
<1>11. b \in Link
  <2>1. b2.stream \in Seq(Message)
    BY <1>9, LinkFields
  <2>2. Append(b2.stream, f.msg) \in Seq(Message)
    BY <1>2, <2>1
  <2> QED BY <1>9, <2>2, Zenon DEF Link
<1>12. /\ b.session = a.session /\ b.attached = a.attached
       /\ b.docId = f.doc /\ b.seen = a.seen \cup {f.doc} /\ b.nextReq = a.nextReq
       /\ b.pending = a.pending /\ b.stream = Append(a.stream, f.msg)
       /\ b.re = a.re /\ b.cleaned = a.cleaned /\ b.acq = a.acq
       /\ b.bridgeReady = a.bridgeReady
  BY <1>9, <1>10 DEF Link
<1> HIDE DEF b
<1>13. link' \in Link
  <2>1. {} \in SUBSET Registered
    OBVIOUS
  <2> QED BY <1>5, <1>11, <2>1, Zenon DEF Link
<1>14. /\ link'.session = link.session /\ link'.attached = link.attached
       /\ link'.docId = f.doc /\ link'.seen = link.seen \cup {f.doc}
       /\ link'.nextReq = link.nextReq /\ link'.pending = {}
       /\ link'.stream = Append(link.stream, f.msg)
       /\ link'.re = a.re /\ link'.cleaned = a.cleaned /\ link'.acq = a.acq
       /\ link'.bridgeReady = a.bridgeReady
  BY <1>1, <1>5, <1>11, <1>12 DEF Link
<1> HIDE DEF b4
<1>15. call' = Settle(call, Pending(link), "failed")
  BY <1>1, <1>5, <1>12 DEF Pending
<1>16. \A n \in Call : InStream(n) => InStream(n)'
  <2>1. link.stream \in Seq(Message)
    BY PageTypes, LinkFields
  <2>2. /\ Len(link'.stream) = Len(link.stream) + 1 /\ Len(link.stream) \in Nat
        /\ \A i \in 1..Len(link.stream) : link'.stream[i] = link.stream[i]
    BY <1>2, <1>14, <2>1
  <2> QED BY <2>2 DEF InStream
<1>17. /\ PendingOK' /\ AnswersMatch' /\ SnapshotBeforeAnswer' /\ call' \in [Call -> CallState]
       /\ \A n \in Call : \/ call'[n] = call[n]
                          \/ call'[n].session = 0 /\ call'[n].st # "awaiting"
  <2>1. \A n \in Call : call[n].session = link'.session /\ link'.attached
                          => Live(n) /\ (InStream(n) => InStream(n)')
    BY <1>14, <1>16 DEF Live
  <2> QED BY <1>14, <1>15, <2>1, AllFail
<1>18. BridgeOK' /\ todo' \in Seq(Todo) /\ Calls(todo') = Calls(todo)
  <2> DEFINE key == <<f.ctx, f.doc>>
  <2>1. a.cleaned = link.cleaned \cup {key}
    BY <1>1
  <2>2. \/ key \in link.cleaned /\ a.acq = link.acq /\ a.bridgeReady = link.bridgeReady
                                /\ todo' = todo
        \/ /\ key \notin link.cleaned /\ a.acq = Append(link.acq, "waiting")
           /\ a.bridgeReady = IF f.doc = Child THEN link.bridgeReady ELSE Len(link.acq) + 1
           /\ todo' = Append(todo, [k |-> "acquire", ctx |-> f.ctx, p |-> Len(a.acq),
                                    retain |-> f.msg.doc # Child])
    BY <1>1
  <2>3. /\ link'.session = link.session /\ link'.attached /\ link'.cleaned = a.cleaned
        /\ link'.acq = a.acq /\ link'.bridgeReady = a.bridgeReady
        /\ link'.docId = f.doc /\ f.doc # Child
    BY <1>3, <1>14
  <2>4. \A n \in Call : \/ call'[n] = call[n]
                        \/ call'[n].session = 0 /\ call'[n].st # "awaiting"
    BY <1>17
  <2>5. a \in Link /\ key = <<f.ctx, f.doc>>
    OBVIOUS
  <2> HIDE DEF key
  <2> QED BY <2>1, <2>2, <2>3, <2>4, <2>5, HelloBridge
<1>19. HellosOK' /\ f.doc > link.docId /\ f.doc <= page.doc
  BY <1>3, <1>4, <1>14, HellosFollow
<1>20. Len(link'.re.completed) <= Recent /\ Completes(f, link'.re)
  BY <1>1, <1>14
<1>21. ReassemblyOK'
  BY <1>20, ReassemblyKept
<1>22. SnapshotsOK'
  <2>1. \A n \in Snapshot : InStream(n) => InStream(n)'
    BY <1>16, AgentLinkAssumption
  <2> QED BY <1>20, <2>1, SnapshotsKept
<1>23. DocumentsOK'
  <2>0. link.docId \in Nat /\ \A d \in link.seen : d \in Nat
    BY PageTypes, LinkFields DEF DocNo
  <2>1. page'.doc = page.doc
    BY DEF Takes
  <2>2. \A d \in link'.seen : d <= f.doc
    BY <1>2, <1>14, <1>19, <2>0 DEF IInv, DocumentsOK
  <2>3. \A key \in link'.cleaned : key[2] \in link'.seen \cup {Child}
    <3>1. <<f.ctx, f.doc>>[2] = f.doc
      OBVIOUS
    <3>2. \A key \in link'.cleaned : key \in link.cleaned \/ key = <<f.ctx, f.doc>>
      BY <1>1, <1>14
    <3> QED BY <1>14, <3>1, <3>2 DEF IInv, DocumentsOK
  <2>4. \A key \in Range(link'.re.completed) :
          key[2] = 0 => key[1] <= f.doc \/ key[1] = Child
    <3>1. \A key \in Range(link'.re.completed) :
            key \in Range(link.re.completed) \/ key = <<f.doc, f.id>>
      BY <1>20 DEF Completes
    <3>2. <<f.doc, f.id>>[1] = f.doc
      OBVIOUS
    <3>3. \A key \in Range(link.re.completed) : key[1] \in Nat
      BY PageTypes, KeyTypes
    <3>4. \A key \in Range(link.re.completed) :
            key[2] = 0 => key[1] <= link.docId \/ key[1] = Child
      BY DEF IInv, DocumentsOK
    <3> QED BY <1>2, <1>19, <2>0, <3>1, <3>2, <3>3, <3>4
  <2>5. \A q \in link'.re.partial : q.key[2] # 0
    BY <1>20 DEF IInv, DocumentsOK, Completes
  <2> QED BY <1>14, <1>19, <1>20, <2>1, <2>2, <2>3, <2>4, <2>5 DEF DocumentsOK
<1>24. NumbersOK'
  <2>1. link'.pending \subseteq link.pending
    BY <1>14
  <2>2. Carried(page', todo', link') \subseteq Carried(page, todo, link)
    BY <1>18, <2>1, CarriedFewer DEF Takes
  <2> QED BY <1>14, <2>2, NumbersStep DEF IInv
<1>25. Types' /\ PageOK(page)'
  BY <1>13, <1>17, <1>18 DEF Types, Takes
<1> QED BY <1>17, <1>18, <1>19, <1>21, <1>22, <1>23, <1>24, <1>25 DEF IInv

-----------------------------------------------------------------------------
(* The answers to CDP calls. *)

LEMMA AcqSet ==
  ASSUME NEW s \in Seq({"waiting", "done", "failed"}), NEW p \in Nat,
         NEW v \in {"waiting", "done", "failed"}
  PROVE  LET t == [s EXCEPT ![p] = v]
         IN /\ t \in Seq({"waiting", "done", "failed"}) /\ Len(t) = Len(s)
            /\ \A i \in 1..Len(s) : /\ i # p => t[i] = s[i]
                                    /\ i = p => t[i] = v
<1> DEFINE V == {"waiting", "done", "failed"}
           t == [s EXCEPT ![p] = v]
<1> HIDE DEF V
<1>1. s \in Seq(V) /\ v \in V
  BY DEF V
<1>2. s \in [1..Len(s) -> V] /\ Len(s) \in Nat
  BY <1>1
<1>3. t \in [1..Len(s) -> V]
  BY <1>1, <1>2
<1>4. t \in Seq(V) /\ Len(t) = Len(s)
  BY <1>2, <1>3
<1>5. \A i \in 1..Len(s) : /\ i # p => t[i] = s[i]
                          /\ i = p => t[i] = v
  BY <1>2
<1> QED BY <1>4, <1>5 DEF V

\* The answer to an acquisition, or to the release that ends one.
LEMMA BridgeFrame ==
  ASSUME IInv, link.attached, NEW f, Takes(f), f.k \in {"acquired", "released"},
         left' \in [events: 0..MaxEvents, odd: 0..MaxOdd], UNCHANGED call,
         link' \in Link, Len(link'.acq) = Len(link.acq),
         link'.session = link.session, link'.attached = link.attached,
         link'.docId = link.docId, link'.seen = link.seen, link'.cleaned = link.cleaned,
         link'.bridgeReady = link.bridgeReady, link'.re = link.re,
         link'.nextReq = link.nextReq, link'.pending = link.pending,
         link'.stream = link.stream,
         \A i \in 1..Len(link.acq) : i # f.p => link'.acq[i] = link.acq[i],
         todo' \in Seq(Todo), Calls(todo') = Calls(todo), Range(todo) \subseteq Range(todo'),
         \/ \A i \in 1..Len(link.acq) : i = f.p => link'.acq[i] # "waiting"
         \/ \E c \in Range(todo') : Carries(c, f.p)
  PROVE  IInv'
<1>1. f \notin InFlight(page)
  BY PageTypes, FlightTypes, ChunkFields
<1>2. InFlight(page') = InFlight(page) /\ page'.doc = page.doc /\ page'.next = page.next
  BY <1>1 DEF Takes
<1>3. DocumentsOK' /\ HellosOK' /\ ReassemblyOK' /\ SnapshotsOK'
  BY <1>2, DocumentsKept
<1>4. NumbersOK'
  <2>1. Carried(page', todo', link') \subseteq Carried(page, todo, link)
    BY CarriedFewer DEF Takes
  <2> QED BY <2>1, NumbersStep DEF IInv
<1>5. BridgeOK'
  <2>1. ASSUME NEW i \in 1..Len(link'.acq), link'.acq[i] = "waiting"
        PROVE  \E c \in Range(todo') \cup Range(page'.wire) : Carries(c, i)
    <3>1. CASE i = f.p
      BY <2>1, <3>1
    <3>2. CASE i # f.p
      <4>1. PICK c \in Range(todo) \cup Range(page.wire) : Carries(c, i)
        BY <2>1, <3>2 DEF IInv, BridgeOK
      <4>2. c # f
        BY <3>2, <4>1 DEF Carries
      <4>3. c \in Range(todo') \cup Range(page'.wire)
        BY <4>1, <4>2 DEF Takes
      <4> QED BY <4>1, <4>3
    <3> QED BY <3>1, <3>2
  <2> QED BY <2>1 DEF IInv, BridgeOK, Live
<1>6. PendingOK'
  BY DEF IInv, PendingOK, Live, Pending
<1>7. AnswersMatch' /\ SnapshotBeforeAnswer'
  BY DEF IInv, AnswersMatch, SnapshotBeforeAnswer, Live
<1>8. Types' /\ PageOK(page)'
  BY PageTypes DEF Types, Takes
<1> QED BY <1>3, <1>4, <1>5, <1>6, <1>7, <1>8 DEF IInv

\* An acquisition is over, as v says, and the object is o.
LEMMA BridgeOver ==
  ASSUME IInv, link.attached, NEW f, Takes(f), f.k \in {"acquired", "released"}, f.p \in Nat,
         left' \in [events: 0..MaxEvents, odd: 0..MaxOdd], UNCHANGED <<call, todo>>,
         NEW v \in {"done", "failed"}, NEW o \in Nat,
         link' = [link EXCEPT !.object = o, !.acq[f.p] = v]
  PROVE  IInv'
<1> DEFINE t == [link.acq EXCEPT ![f.p] = v]
           l == [link EXCEPT !.object = o]
<1>1. link \in Link /\ todo \in Seq(Todo)
  BY PageTypes
<1>2. v \in {"waiting", "done", "failed"} /\ link.acq \in Seq({"waiting", "done", "failed"})
  BY <1>1, LinkFields
<1>3. /\ t \in Seq({"waiting", "done", "failed"}) /\ Len(t) = Len(link.acq)
      /\ \A i \in 1..Len(link.acq) : /\ i # f.p => t[i] = link.acq[i]
                                     /\ i = f.p => t[i] = v
  BY <1>2, AcqSet
<1>4. l \in Link
  BY <1>1, Zenon DEF Link
<1>5. l.acq = link.acq
  BY <1>1 DEF Link
<1>6. link' = [l EXCEPT !.acq = t]
  BY <1>1, <1>5 DEF Link
<1> HIDE DEF t
<1>7. /\ link'.acq = t /\ link'.session = link.session /\ link'.attached = link.attached
      /\ link'.docId = link.docId /\ link'.seen = link.seen /\ link'.cleaned = link.cleaned
      /\ link'.bridgeReady = link.bridgeReady /\ link'.re = link.re
      /\ link'.nextReq = link.nextReq /\ link'.pending = link.pending
      /\ link'.stream = link.stream
  BY <1>1, <1>6 DEF Link
<1> HIDE DEF l
<1>8. link' \in Link
  BY <1>3, <1>4, <1>6, Zenon DEF Link
<1>9. \A i \in 1..Len(link.acq) : i = f.p => link'.acq[i] # "waiting"
  BY <1>3, <1>7
<1>10. /\ Len(link'.acq) = Len(link.acq)
       /\ \A i \in 1..Len(link.acq) : i # f.p => link'.acq[i] = link.acq[i]
       /\ todo' \in Seq(Todo) /\ Calls(todo') = Calls(todo) /\ Range(todo) \subseteq Range(todo')
  BY <1>1, <1>3, <1>7
<1> QED BY <1>7, <1>8, <1>9, <1>10, BridgeFrame

LEMMA AcquiredStep ==
  ASSUME IInv, link.attached, NEW f, Takes(f), f.k = "acquired",
         left' \in [events: 0..MaxEvents, odd: 0..MaxOdd], UNCHANGED call,
         ReceiveAcquired(link, f)
  PROVE  IInv'
<1>1. f \in Acquired
  BY FrameKinds DEF Takes
<1>2. f.p \in Nat /\ f.object \in Nat
  BY <1>1 DEF Acquired
<1>3. link \in Link /\ link.object \in Nat /\ todo \in Seq(Todo)
  BY PageTypes, LinkFields
<1>4. ASSUME NEW v, link' = [link EXCEPT !.acq[f.p] = v]
      PROVE  link' = [link EXCEPT !.object = link.object, !.acq[f.p] = v]
  <2>1. [link EXCEPT !.object = link.object] = link
    BY <1>3 DEF Link
  <2> QED BY <1>4, <2>1
<1>5. CASE link' = [link EXCEPT !.acq[f.p] = "failed"] /\ UNCHANGED todo
  BY <1>2, <1>3, <1>4, <1>5, BridgeOver
<1>6. CASE link' = [link EXCEPT !.acq[f.p] = "done"] /\ UNCHANGED todo
  BY <1>2, <1>3, <1>4, <1>6, BridgeOver
<1>7. CASE link' = [link EXCEPT !.object = f.object, !.acq[f.p] = "done"] /\ UNCHANGED todo
  BY <1>2, <1>7, BridgeOver
<1>8. CASE /\ link' = [link EXCEPT !.object = f.object]
           /\ todo' = Append(todo, [k |-> "release", p |-> f.p])
  <2> DEFINE c == [k |-> "release", p |-> f.p]
  <2>1. c \in ReleaseCmd /\ c.k = "release" /\ c.p = f.p
    BY <1>2 DEF ReleaseCmd
  <2>2. c \in Todo
    BY <2>1 DEF Todo
  <2>3. todo' = Append(todo, c)
    BY <1>8
  <2> HIDE DEF c
  <2>4. todo' \in Seq(Todo) /\ Range(todo') = Range(todo) \cup {c}
    BY <1>3, <2>2, <2>3, RangeAppend
  <2>5. Calls(todo') = Calls(todo)
    BY <2>1, <2>4 DEF Calls
  <2>6. \E x \in Range(todo') : Carries(x, f.p)
    BY <2>1, <2>4 DEF Carries
  <2>7. link' \in Link
    BY <1>2, <1>3, <1>8, Zenon DEF Link
  <2>8. /\ link'.acq = link.acq /\ link'.session = link.session /\ link'.attached = link.attached
        /\ link'.docId = link.docId /\ link'.seen = link.seen /\ link'.cleaned = link.cleaned
        /\ link'.bridgeReady = link.bridgeReady /\ link'.re = link.re
        /\ link'.nextReq = link.nextReq /\ link'.pending = link.pending
        /\ link'.stream = link.stream
    BY <1>3, <1>8 DEF Link
  <2>9. /\ Len(link'.acq) = Len(link.acq)
        /\ \A i \in 1..Len(link.acq) : i # f.p => link'.acq[i] = link.acq[i]
        /\ Range(todo) \subseteq Range(todo')
    BY <2>4, <2>8
  <2> QED BY <2>4, <2>5, <2>6, <2>7, <2>8, <2>9, BridgeFrame
<1> QED BY <1>5, <1>6, <1>7, <1>8 DEF ReceiveAcquired

LEMMA ReleasedStep ==
  ASSUME IInv, link.attached, NEW f, Takes(f), f.k = "released",
         left' \in [events: 0..MaxEvents, odd: 0..MaxOdd],
         link' = [link EXCEPT !.acq[f.p] = "done"], UNCHANGED <<todo, call>>
  PROVE  IInv'
<1>1. f \in Released
  BY FrameKinds DEF Takes
<1>2. f.p \in Nat
  BY <1>1 DEF Released
<1>3. link \in Link /\ link.object \in Nat
  BY PageTypes, LinkFields
<1>4. link' = [link EXCEPT !.object = link.object, !.acq[f.p] = "done"]
  <2>1. [link EXCEPT !.object = link.object] = link
    BY <1>3 DEF Link
  <2> QED BY <2>1
<1> QED BY <1>2, <1>3, <1>4, BridgeOver

\* A call that is refused fails, with its own number and no other.
LEMMA RefusedStep ==
  ASSUME IInv, link.attached, NEW f, Takes(f), f.k = "refused",
         left' \in [events: 0..MaxEvents, odd: 0..MaxOdd], UNCHANGED todo,
         ReceiveRefused(link, f)
  PROVE  IInv'
<1> DEFINE hit == {p \in link.pending : p.req = f.req}
           ns == {p.n : p \in hit}
<1>1. /\ link' = [link EXCEPT !.pending = @ \ hit]
      /\ call' = Settle(call, ns, "failed")
  BY DEF ReceiveRefused
<1>2. link \in Link
  BY PageTypes
<1>3. ns \in SUBSET Call
  BY PendingFields
<1>4. link.pending \ hit = {q \in link.pending : q.n \notin ns}
  <2>1. \A q \in link.pending : q \in hit <=> q.n \in ns
    BY DEF IInv, PendingOK
  <2> HIDE DEF hit, ns
  <2> QED BY <2>1
<1>5. link' \in Link
  <2>1. link.pending \ hit \in SUBSET Registered
    BY <1>2, LinkFields
  <2> HIDE DEF hit
  <2> QED BY <1>1, <1>2, <2>1, Zenon DEF Link
<1> HIDE DEF hit, ns
<1>6. /\ link'.pending = {q \in link.pending : q.n \notin ns}
      /\ link'.acq = link.acq /\ link'.session = link.session /\ link'.attached = link.attached
      /\ link'.docId = link.docId /\ link'.seen = link.seen /\ link'.cleaned = link.cleaned
      /\ link'.bridgeReady = link.bridgeReady /\ link'.re = link.re
      /\ link'.nextReq = link.nextReq /\ link'.stream = link.stream
  BY <1>1, <1>2, <1>4 DEF Link
<1>7. PendingOK' /\ AnswersMatch' /\ SnapshotBeforeAnswer' /\ call' \in [Call -> CallState]
  BY <1>1, <1>3, <1>6, FailCalls
<1>8. f \notin InFlight(page)
  BY PageTypes, FlightTypes, ChunkFields
<1>9. InFlight(page') = InFlight(page) /\ page'.doc = page.doc /\ page'.next = page.next
  BY <1>8 DEF Takes
<1>10. DocumentsOK' /\ HellosOK' /\ ReassemblyOK' /\ SnapshotsOK'
  BY <1>6, <1>9, DocumentsKept
<1>11. NumbersOK'
  <2>1. link'.pending \subseteq link.pending
    BY <1>6
  <2>2. Carried(page', todo', link') \subseteq Carried(page, todo, link)
    BY <2>1, CarriedFewer DEF Takes
  <2> QED BY <1>6, <2>2, NumbersStep DEF IInv
<1>12. BridgeOK'
  <2>1. \A i \in 1..Len(link.acq) :
          (\E c \in Range(todo) \cup Range(page.wire) : Carries(c, i))
            => \E c \in Range(todo') \cup Range(page'.wire) : Carries(c, i)
    <3> SUFFICES ASSUME NEW i \in 1..Len(link.acq),
                        NEW c \in Range(todo) \cup Range(page.wire), Carries(c, i)
                 PROVE  \E x \in Range(todo') \cup Range(page'.wire) : Carries(x, i)
      OBVIOUS
    <3>1. c # f
      BY DEF Carries
    <3>2. c \in Range(todo') \cup Range(page'.wire)
      BY <3>1 DEF Takes
    <3> QED BY <3>2
  <2>2. \A n \in Call : \/ call'[n] = call[n]
                        \/ call'[n].session = 0 /\ call'[n].st # "awaiting"
    <3>1. \A n \in Call : /\ n \in ns => call'[n].st = "failed" /\ call'[n].session = 0
                          /\ n \notin ns => call'[n] = call[n]
      BY <1>1, PageTypes, SettleFacts
    <3> QED BY <3>1
  <2> QED BY <1>6, <2>1, <2>2, BridgeKept
<1>13. Types' /\ PageOK(page)'
  BY <1>5, <1>7, PageTypes DEF Types, Takes
<1> QED BY <1>7, <1>10, <1>11, <1>12, <1>13 DEF IInv

-----------------------------------------------------------------------------
(* The steps and the theorems. *)

LEMMA ChunkStep ==
  ASSUME IInv, link.attached, NEW f, Takes(f), f.k = "chunk",
         left' \in [events: 0..MaxEvents, odd: 0..MaxOdd], ReceiveChunk(f)
  PROVE  IInv'
<1> DEFINE a == Add(link.re, f)
           l == [link EXCEPT !.re = a.re]
<1>1. f.msg.k \in {"hello", "rrweb", "cmdres"}
  BY TakenChunk, MessageFields
<1>2. a.done \in BOOLEAN
  BY DEF Add, Incomplete, Completed
<1>3. CASE ~a.done
  <2>1. link' = l /\ UNCHANGED <<todo, call>>
    BY <1>3 DEF ReceiveChunk
  <2> QED BY <1>3, <2>1, IncompleteStep
<1>4. CASE a.done /\ f.msg.k = "hello"
  <2>1. ReceiveHello(l, f)
    BY <1>4 DEF ReceiveChunk
  <2> QED BY <1>4, <2>1, HelloRefused, HelloAccepted
<1>5. CASE a.done /\ f.msg.k = "rrweb"
  <2>1. link' = Streamed(l, f) /\ UNCHANGED <<todo, call>>
    BY <1>5 DEF ReceiveChunk
  <2> QED BY <1>5, <2>1, EventStep
<1>6. CASE a.done /\ f.msg.k = "cmdres"
  <2>1. ReceiveResult(l, f) /\ UNCHANGED todo
    BY <1>6 DEF ReceiveChunk
  <2> QED BY <1>6, <2>1, ResultStep
<1> QED BY <1>1, <1>3, <1>4, <1>5, <1>6

LEMMA ReceivesStep ==
  ASSUME IInv, link.attached, NEW f, Takes(f),
         left' \in [events: 0..MaxEvents, odd: 0..MaxOdd], Receives(f)
  PROVE  IInv'
<1>1. f.k \in {"chunk", "acquired", "released", "refused"}
  BY FrameKinds DEF Takes
<1>2. CASE f.k = "chunk"
  BY <1>2, ChunkStep DEF Receives
<1>3. CASE f.k = "acquired"
  BY <1>3, AcquiredStep DEF Receives
<1>4. CASE f.k = "released"
  BY <1>4, ReleasedStep DEF Receives
<1>5. CASE f.k = "refused"
  BY <1>5, RefusedStep DEF Receives
<1> QED BY <1>1, <1>2, <1>3, <1>4, <1>5

LEMMA ReceiveStep ==
  ASSUME IInv, Receive
  PROVE  IInv'
<1> DEFINE f == Head(page.wire)
<1>1. link.attached /\ page.wire # <<>> /\ Receives(f) /\ AfterHead /\ UNCHANGED left
  BY DEF Receive
<1>2. Takes(f)
  BY <1>1, TakesHead
<1>3. left' \in [events: 0..MaxEvents, odd: 0..MaxOdd]
  BY <1>1, PageTypes
<1> HIDE DEF f
<1> QED BY <1>1, <1>2, <1>3, ReceivesStep

LEMMA ReceiveTwiceStep ==
  ASSUME IInv, ReceiveTwice
  PROVE  IInv'
<1> DEFINE f == Head(page.wire)
<1>1. /\ link.attached /\ page.wire # <<>> /\ f.k = "chunk" /\ Odd /\ Receives(f)
      /\ UNCHANGED page
  BY DEF ReceiveTwice
<1>2. Takes(f)
  BY <1>1, TakesAgain
<1>3. left' \in [events: 0..MaxEvents, odd: 0..MaxOdd]
  BY <1>1, LeftOdd
<1> HIDE DEF f
<1> QED BY <1>1, <1>2, <1>3, ReceivesStep

LEMMA LateHelloStep ==
  ASSUME IInv, LateHello
  PROVE  IInv'
<1>1. /\ link.attached /\ Odd /\ UNCHANGED page
      /\ \E key \in link.cleaned : Receives(EncodeChunks(key[1], 0, Hello(key[2]))[1])
  BY DEF LateHello
<1>2. PICK key \in link.cleaned : Receives(EncodeChunks(key[1], 0, Hello(key[2]))[1])
  BY <1>1
<1> DEFINE f == EncodeChunks(key[1], 0, Hello(key[2]))[1]
<1>3. Takes(f) /\ Receives(f)
  BY <1>1, <1>2, TakesLate
<1>4. left' \in [events: 0..MaxEvents, odd: 0..MaxOdd]
  BY <1>1, LeftOdd
<1> HIDE DEF f
<1> QED BY <1>1, <1>3, <1>4, ReceivesStep

\* The first page says hello, and nothing else.
LEMMA FirstPage ==
  ASSUME Init
  PROVE  /\ page \in Page /\ PageOK(page) /\ page.doc = 1 /\ page.next = 1 /\ page.waiting = <<>>
         /\ \E h : InFlight(page) = {h} /\ h.doc = 1 /\ h.id = 0 /\ h.msg.k = "hello"
<1> DEFINE q == [doc |-> 1, ctx |-> 1, held |-> FALSE, ready |-> FALSE, queue |-> <<>>,
                 next |-> 1, events |-> 0, recording |-> FALSE, waiting |-> <<>>, wire |-> <<>>]
<1>1. 1 \in Doc /\ 1 \in Nat /\ MaxDocs \in Nat
  BY AgentLinkAssumption DEF Doc
<1>2. q \in Page
  <2>1. /\ <<>> \in Seq(Chunk) /\ <<>> \in Seq(CallCmd) /\ <<>> \in Seq(Frame)
        /\ FALSE \in BOOLEAN /\ 0 \in Nat
    OBVIOUS
  <2> QED BY <1>1, <2>1, SMT DEF Page
<1>3. q.wire = <<>> /\ q.queue = <<>> /\ q.doc = 1 /\ q.next = 1
  OBVIOUS
<1>4. page = Loaded(q, 1, 1)
  <2> DEFINE a == [NoPage EXCEPT !.doc = 1, !.ctx = 1, !.held = TRUE, !.ready = FALSE,
                                 !.queue = <<>>, !.next = 0, !.events = 0, !.recording = FALSE,
                                 !.waiting = <<>>]
             b == [q EXCEPT !.doc = 1, !.ctx = 1, !.held = TRUE, !.ready = FALSE,
                            !.queue = <<>>, !.next = 0, !.events = 0, !.recording = FALSE,
                            !.waiting = <<>>]
             any == [doc: Nat, ctx: Nat, held: BOOLEAN, ready: BOOLEAN, queue: Seq(Chunk),
                     next: Nat, events: Nat, recording: BOOLEAN, waiting: Seq(CallCmd),
                     wire: Seq(Frame)]
  <2>1. a = b
    <3>1. /\ <<>> \in Seq(Chunk) /\ <<>> \in Seq(CallCmd) /\ <<>> \in Seq(Frame)
          /\ TRUE \in BOOLEAN /\ FALSE \in BOOLEAN /\ 0 \in Nat /\ 1 \in Nat
      OBVIOUS
    <3>2. NoPage \in any /\ q \in any
      BY <3>1, SMT DEF NoPage, None, q
    <3>3. NoPage.wire = <<>>
      BY DEF NoPage
    <3>4. a \in any /\ b \in any
      BY <3>1, <3>2, Zenon
    <3>5. /\ a.doc = b.doc /\ a.ctx = b.ctx /\ a.held = b.held /\ a.ready = b.ready
          /\ a.queue = b.queue /\ a.next = b.next /\ a.events = b.events
          /\ a.recording = b.recording /\ a.waiting = b.waiting /\ a.wire = b.wire
      <4>1. /\ a.doc = 1 /\ a.ctx = 1 /\ a.held = TRUE /\ a.ready = FALSE /\ a.queue = <<>>
            /\ a.next = 0 /\ a.events = 0 /\ a.recording = FALSE /\ a.waiting = <<>>
            /\ a.wire = <<>>
        BY <3>2, <3>3
      <4>2. /\ b.doc = 1 /\ b.ctx = 1 /\ b.held = TRUE /\ b.ready = FALSE /\ b.queue = <<>>
            /\ b.next = 0 /\ b.events = 0 /\ b.recording = FALSE /\ b.waiting = <<>>
            /\ b.wire = <<>>
        BY <1>3, <3>2
      <4> QED BY <4>1, <4>2
    <3> HIDE DEF a, b
    <3>6. /\ a = [doc |-> a.doc, ctx |-> a.ctx, held |-> a.held, ready |-> a.ready,
                  queue |-> a.queue, next |-> a.next, events |-> a.events,
                  recording |-> a.recording, waiting |-> a.waiting, wire |-> a.wire]
          /\ b = [doc |-> b.doc, ctx |-> b.ctx, held |-> b.held, ready |-> b.ready,
                  queue |-> b.queue, next |-> b.next, events |-> b.events,
                  recording |-> b.recording, waiting |-> b.waiting, wire |-> b.wire]
      BY <3>4
    <3> QED BY <3>5, <3>6, Zenon
  <2>2. Loaded(NoPage, 1, 1) = Emit(a, Hello(1)) /\ Loaded(q, 1, 1) = Emit(b, Hello(1))
    BY DEF Loaded
  <2> HIDE DEF a, b
  <2> QED BY <2>1, <2>2 DEF Init
<1> HIDE DEF q
<1>5. InFlight(q) = {}
  BY <1>3, RangeEmpty DEF InFlight, Chunks
<1>6. PageOK(q)
  <2>1. Own(q) = {} /\ Range(q.queue) = {} /\ Chunks(q.wire) = {}
    BY <1>3, <1>5, RangeEmpty DEF Own, InFlight
  <2>2. Sorted(q.wire) /\ Sorted(q.queue)
    BY <1>3 DEF Sorted
  <2> QED BY <1>3, <1>5, <2>1, <2>2 DEF PageOK
<1>7. /\ page \in Page /\ PageOK(page) /\ page.doc = 1 /\ page.next = 1 /\ page.waiting = <<>>
      /\ \E h : /\ InFlight(page) = Chunks(q.wire) \cup {h} /\ h.doc = 1 /\ h.id = 0
                /\ h.msg.k = "hello"
  BY <1>1, <1>2, <1>3, <1>4, <1>6, LoadedFacts
<1>8. Chunks(q.wire) = {}
  BY <1>5 DEF InFlight
<1>9. PICK h : InFlight(page) = {h} /\ h.doc = 1 /\ h.id = 0 /\ h.msg.k = "hello"
  BY <1>7, <1>8
<1> QED BY <1>7, <1>9

LEMMA InitIInv ==
  Init => IInv
<1> SUFFICES ASSUME Init PROVE IInv
  OBVIOUS
<1>1. 1 \in Doc /\ 1 \in Nat /\ MaxDocs \in Nat
  BY AgentLinkAssumption DEF Doc
<1>7. page \in Page /\ PageOK(page) /\ page.doc = 1 /\ page.next = 1 /\ page.waiting = <<>>
  BY FirstPage
<1>9. PICK h : InFlight(page) = {h} /\ h.doc = 1 /\ h.id = 0 /\ h.msg.k = "hello"
  BY FirstPage
<1>10. link = FreshLink(1) /\ todo = <<>>
  BY DEF Init
<1>11. /\ link \in Link /\ link.session = 1 /\ link.attached /\ link.docId = 0 /\ link.seen = {}
       /\ link.cleaned = {} /\ link.bridgeReady = 0 /\ link.acq = <<>> /\ link.nextReq = 1
       /\ link.pending = {} /\ link.re.completed = <<>> /\ link.re.partial = {}
  BY <1>1, <1>10, FreshFacts
<1>12. Range(link.re.completed) = {}
  BY <1>11, RangeEmpty
<1>13. Idle \in CallState /\ Idle.st = "idle" /\ Idle.session = 0
  <2>1. "idle" \in {"idle", "awaiting", "sent", "answered", "failed"} /\ None \in Nat
        /\ FALSE \in BOOLEAN /\ {} \in SUBSET Whose
    BY DEF None
  <2>2. Idle \in CallState
    BY <2>1, Zenon DEF Idle, CallState
  <2> QED BY <2>2 DEF Idle, None
<1>14. call \in [Call -> CallState] /\ \A n \in Call : call[n] = Idle
  BY <1>13 DEF Init
<1>15. Types
  <2>1. left \in [events: 0..MaxEvents, odd: 0..MaxOdd]
    BY AgentLinkAssumption DEF Init
  <2>2. todo \in Seq(Todo)
    BY <1>10
  <2> QED BY <1>7, <1>11, <1>14, <2>1, <2>2 DEF Types
<1>16. NumbersOK
  <2>1. Carried(page, todo, link) = {}
    BY <1>7, <1>9, <1>10, <1>11, NoneCarried
  <2> QED BY <2>1 DEF NumbersOK
<1>17. PendingOK
  BY <1>11, <1>13, <1>14 DEF PendingOK
<1>18. BridgeOK
  BY <1>11, <1>13, <1>14 DEF BridgeOK, None
<1>19. DocumentsOK
  <2>1. Len(link.re.completed) = 0
    BY <1>11
  <2> QED BY <1>7, <1>11, <1>12, <2>1, AgentLinkAssumption DEF DocumentsOK, None
<1>20. Own(page) = {h}
  BY <1>7, <1>9, PageFields DEF Own
<1>21. HellosOK
  BY <1>7, <1>9, <1>11, <1>20 DEF HellosOK, Announced
<1>22. ReassemblyOK
  BY <1>11, <1>12 DEF ReassemblyOK
<1>23. SnapshotsOK
  BY <1>9, <1>20 DEF SnapshotsOK
<1>24. AnswersMatch /\ SnapshotBeforeAnswer
  BY <1>13, <1>14, AgentLinkAssumption DEF AnswersMatch, SnapshotBeforeAnswer
<1> QED BY <1>7, <1>15, <1>16, <1>17, <1>18, <1>19, <1>21, <1>22, <1>23, <1>24 DEF IInv

LEMMA NextIInv ==
  IInv /\ [Next]_vars => IInv'
<1> SUFFICES ASSUME IInv, [Next]_vars PROVE IInv'
  OBVIOUS
<1>1. CASE Navigate
  BY <1>1, NavigateStep
<1>2. CASE BindWorld
  BY <1>2, BindWorldStep
<1>3. CASE Flush
  BY <1>3, FlushStep
<1>4. CASE StartRecording
  BY <1>4, StartRecordingStep
<1>5. CASE ResumeSnapshot
  BY <1>5, ResumeSnapshotStep
<1>6. CASE SnapshotTimeout
  BY <1>6, SnapshotTimeoutStep
<1>7. CASE Mutate
  BY <1>7, MutateStep
<1>8. CASE ChildFrame
  BY <1>8, ChildFrameStep
<1>9. CASE Perform
  BY <1>9, PerformStep
<1>10. CASE Receive
  BY <1>10, ReceiveStep
<1>11. CASE ReceiveTwice
  BY <1>11, ReceiveTwiceStep
<1>12. CASE LateHello
  BY <1>12, LateHelloStep
<1>13. CASE Detach
  BY <1>13, DetachStep
<1>14. CASE Attach
  BY <1>14, AttachStep
<1>15. ASSUME NEW n \in Call, SendCmd(n) PROVE IInv'
  BY <1>15, SendCmdStep
<1>16. ASSUME NEW n \in Call, BridgeAwaited(n) PROVE IInv'
  BY <1>16, BridgeAwaitedStep
<1>17. ASSUME NEW n \in Call, CommandTimeout(n) PROVE IInv'
  BY <1>17, CommandTimeoutStep
<1>18. CASE UNCHANGED vars
  <2>1. page' = page /\ todo' = todo /\ link' = link /\ call' = call /\ left' = left
    BY <1>18 DEF vars
  <2>2. DocumentsOK' /\ HellosOK' /\ ReassemblyOK' /\ SnapshotsOK'
    BY <2>1, DocumentsKept
  <2>3. NumbersOK' /\ PendingOK' /\ BridgeOK'
    BY <2>1 DEF IInv, NumbersOK, PendingOK, BridgeOK, Live
  <2>4. AnswersMatch' /\ SnapshotBeforeAnswer'
    BY <2>1 DEF IInv, AnswersMatch, SnapshotBeforeAnswer, Live
  <2>5. Types' /\ PageOK(page)'
    BY <2>1, PageTypes DEF Types
  <2> QED BY <2>2, <2>3, <2>4, <2>5 DEF IInv
<1> QED
  BY <1>1, <1>2, <1>3, <1>4, <1>5, <1>6, <1>7, <1>8, <1>9, <1>10, <1>11, <1>12, <1>13, <1>14,
     <1>15, <1>16, <1>17, <1>18 DEF Next

\* The invariant holds in every reachable state, for any number of calls, documents,
\* mutations and odd deliveries (agentlink.ts, emit.ts, commands.ts, chunk.ts).
THEOREM Invariance == Spec => []IInv
<1>1. Init => IInv
  BY InitIInv
<1>2. IInv /\ [Next]_vars => IInv'
  BY NextIInv
<1> QED BY <1>1, <1>2, PTL DEF Spec

\* A call is answered with its own answer, however late answers come and whatever was
\* navigated, timed out or attached meanwhile (agentlink.ts:214-225).
THEOREM AnswersMatchHolds == Spec => []AnswersMatch
<1>1. IInv => AnswersMatch
  BY DEF IInv
<1> QED BY <1>1, Invariance, PTL

\* A snapshot command that was answered `ok' has its snapshot in the stream by then
\* (commands.ts:196-205).
THEOREM SnapshotBeforeAnswerHolds == Spec => []SnapshotBeforeAnswer
<1>1. IInv => SnapshotBeforeAnswer
  BY DEF IInv
<1> QED BY <1>1, Invariance, PTL

\* A command that waits for the bridge waits for an acquisition that is under way or
\* over, and one that was sent is registered, with its timer, in its own session
\* (agentlink.ts:106-122, 280-307); the state is well formed.
THEOREM NoCommandForgottenHolds == Spec => []NoCommandForgotten
<1>1. IInv => NoCommandForgotten
  <2> SUFFICES ASSUME IInv PROVE NoCommandForgotten
    OBVIOUS
  <2>1. page \in Page /\ link \in Link /\ call \in [Call -> CallState]
        /\ left \in [events: 0..MaxEvents, odd: 0..MaxOdd]
    BY PageTypes
  <2>2. /\ page.doc \in Doc /\ page.ctx \in Doc /\ page.held \in BOOLEAN /\ page.ready \in BOOLEAN
    BY <2>1, PageFields
  <2>3. /\ link.docId \in Nat /\ link.bridgeReady \in Nat
        /\ link.acq \in Seq({"waiting", "done", "failed"})
    BY <2>1, LinkFields
  <2>4. link.docId \in {None} \cup Doc
    <3>1. link.docId <= page.doc
      BY DEF IInv, DocumentsOK
    <3> QED BY <2>2, <2>3, <3>1, AgentLinkAssumption DEF Doc, None
  <2>5. link.bridgeReady \in 0..Len(link.acq)
    BY <2>3 DEF IInv, BridgeOK
  <2>6. \A i \in 1..Len(link.acq) : link.acq[i] \in {"waiting", "done", "failed"}
    BY <2>3
  <2>7. \A n \in Call : call[n].st \in {"idle", "awaiting", "sent", "answered", "failed"}
    BY <2>1 DEF CallState
  <2>8. left.events \in 0..MaxEvents /\ left.odd \in 0..MaxOdd
    BY <2>1
  <2>9. TypeOK
    BY <2>2, <2>4, <2>5, <2>6, <2>7, <2>8 DEF TypeOK, IInv, DocumentsOK, PendingOK
  <2>10. ASSUME NEW n \in Call, call[n].st = "awaiting", BridgeOf(n) = "waiting"
         PROVE  \E c \in Range(todo) \cup Range(page.wire) :
                  /\ c.k \in {"acquire", "acquired", "release", "released"}
                  /\ c.p = call[n].on
    <3>1. Live(n) /\ link.acq[call[n].on] = "waiting"
      BY <2>10 DEF BridgeOf
    <3>2. call[n].on \in 1..Len(link.acq) /\ link.attached
      BY <2>10, <3>1 DEF IInv, BridgeOK, Live
    <3> QED BY <3>1, <3>2 DEF IInv, BridgeOK, Carries
  <2>11. \A n \in Call : call[n].st = "sent" => Live(n) /\ n \in Pending(link)
    BY DEF IInv, PendingOK
  <2> QED BY <2>9, <2>10, <2>11 DEF NoCommandForgotten
<1> QED BY <1>1, Invariance, PTL

\* When nothing is on its way the link follows the document that is on the page: a
\* late hello never rolls it back, and none is lost (agentlink.ts:195-202).
THEOREM FollowsPageHolds == Spec => []FollowsPage
<1>1. IInv => FollowsPage
  <2> SUFFICES ASSUME IInv, link.attached, page.queue = <<>>, page.wire = <<>>
               PROVE  link.docId = page.doc
    BY DEF FollowsPage
  <2>1. InFlight(page) = {}
    BY RangeEmpty DEF InFlight, Chunks
  <2> QED BY <2>1 DEF IInv, HellosOK, Announced
<1> QED BY <1>1, Invariance, PTL

-----------------------------------------------------------------------------
(* The stream.  An event of the link's document is read once, and only when   *)
(* the one before it has been read, as long as there are no more odd          *)
(* deliveries than the messages the reassembler remembers.                    *)

Known(l) == Range(l.re.completed)
KeyOf(f) == <<f.doc, f.id>>
Heard(f) == f.msg.k \in {"hello", "rrweb"}

\* The last slices of the messages that are yet to be read.
Due(p, l) == {f \in Own(p) : Heard(f) /\ f.idx = f.total /\ KeyOf(f) \notin Known(l)}

\* Message n of document d has just been read, or is to be.
ReadUpTo(l, d, n) == l.docId = d /\ l.stream[Len(l.stream)].n = n
Owed(p, l, d, n) == ReadUpTo(l, d, n) \/ \E g \in Due(p, l) : g.doc = d /\ g.msg.n = n

EventsOrdered(p) ==
  /\ \A f, g \in Own(p) :
       Heard(f) /\ Heard(g) /\ f.doc = g.doc /\ f.id < g.id => f.msg.n < g.msg.n
  /\ \A f, g \in Own(p) : f.doc = g.doc /\ f.id = g.id => f.msg = g.msg
  /\ \A f \in Own(p) : Heard(f) /\ f.doc = p.doc => f.msg.n <= p.events

\* What comes before a message that is to be read is read, or is to be.
Unbroken(p, l) ==
  /\ \A f \in Due(p, l) : f.id # 0 => Owed(p, l, f.doc, f.msg.n - 1)
  /\ Owed(p, l, p.doc, p.events)

\* The second slice finds the first, or comes after it.
Assembled(p, l) ==
  \A f \in Own(p) : f.idx = 2 /\ KeyOf(f) \notin Known(l) =>
    \/ \E g \in Own(p) : g.doc = f.doc /\ g.id = f.id /\ g.idx = 1
    \/ \E q \in l.re.partial : q.key = KeyOf(f) /\ 1 \in q.idx

\* A message that was read and may come once more, which is the first one on the
\* wire, is remembered; each message that pushes it out costs an odd delivery.
Remembered(p, l, o) ==
  \A f \in Own(p) : KeyOf(f) \in Known(l) =>
    \E i \in 1..Len(l.re.completed) :
      l.re.completed[i] = KeyOf(f) /\ Len(l.re.completed) - i < MaxOdd - o
HeadOnly(p, l) == \A f \in Own(p) : KeyOf(f) \in Known(l) => p.wire # <<>> /\ f = Head(p.wire)
Accepted(p, l) == \A f \in Own(p) : f.id = 0 /\ f.doc \in l.seen => KeyOf(f) \in Known(l)

Flight(p, l, o) ==
  /\ EventsOrdered(p) /\ Unbroken(p, l) /\ Assembled(p, l)
  /\ Remembered(p, l, o) /\ HeadOnly(p, l) /\ Accepted(p, l)

ReadOK(l) ==
  /\ l.docId # None => l.stream # <<>> /\ l.stream[Len(l.stream)].doc = l.docId
  /\ l.stream # <<>> => l.docId # None

SInv ==
  /\ StreamFaithful /\ ReadOK(link)
  /\ link.attached => Flight(page, link, left.odd)

\* What is on its way is what was, and is not known in another way.
LEMMA FlightSame ==
  ASSUME NEW p, NEW q, NEW l, NEW m, NEW o \in Nat, NEW u \in Nat, l.re.completed \in Seq(Key),
         Flight(p, l, o), Own(q) = Own(p), q.doc = p.doc, q.events = p.events,
         m.re = l.re, m.docId = l.docId, m.seen = l.seen, m.stream = l.stream,
         u <= o, HeadOnly(q, m)
  PROVE  Flight(q, m, u)
<1>1. Known(m) = Known(l) /\ Due(q, m) = Due(p, l)
  BY DEF Known, Due
<1>2. EventsOrdered(q)
  BY DEF Flight, EventsOrdered
<1>3. Unbroken(q, m)
  BY <1>1 DEF Flight, Unbroken, Owed, ReadUpTo
<1>4. Assembled(q, m)
  BY <1>1 DEF Flight, Assembled
<1>5. Remembered(q, m, u)
  <2> SUFFICES ASSUME NEW f \in Own(q), KeyOf(f) \in Known(m)
               PROVE  \E i \in 1..Len(l.re.completed) :
                        l.re.completed[i] = KeyOf(f) /\ Len(l.re.completed) - i < MaxOdd - u
    BY DEF Remembered
  <2>1. PICK i \in 1..Len(l.re.completed) :
          l.re.completed[i] = KeyOf(f) /\ Len(l.re.completed) - i < MaxOdd - o
    BY <1>1 DEF Flight, Remembered
  <2>2. Len(l.re.completed) \in Nat /\ MaxOdd \in Nat
    BY AgentLinkAssumption
  <2>3. Len(l.re.completed) - i < MaxOdd - u
    BY <2>1, <2>2
  <2> QED BY <2>1, <2>3
<1>6. Accepted(q, m)
  BY <1>1 DEF Flight, Accepted
<1> QED BY <1>2, <1>3, <1>4, <1>5, <1>6 DEF Flight

\* The first frame stays the first when more is said.
Leads(p, q) == p.wire # <<>> => q.wire # <<>> /\ Head(q.wire) = Head(p.wire)

LEMMA LeadsConcat ==
  ASSUME NEW S, NEW s \in Seq(S), NEW t \in Seq(S), s # <<>>
  PROVE  s \o t # <<>> /\ Head(s \o t) = Head(s)
<1>1. Len(s \o t) = Len(s) + Len(t) /\ Len(s) \in Nat /\ Len(t) \in Nat /\ Len(s) # 0
  OBVIOUS
<1>2. (s \o t)[1] = s[1]
  BY <1>1
<1>3. s \o t # <<>>
  BY <1>1
<1> QED BY <1>2, <1>3

\* The page says one message more.
LEMMA FlightSays ==
  ASSUME NEW p \in Page, NEW q, NEW l, NEW o, NEW m \in Message, NEW new,
         PageOK(p), Flight(p, l, o), q.doc = p.doc, Own(q) = Own(p) \cup new, Leads(p, q),
         \A key \in Known(l) : key[1] = Child \/ Spoken(key, p),
         \A f \in new : /\ f.doc = p.doc /\ f.id = p.next /\ f.msg = m /\ f.total = Slices(m)
                        /\ f.idx \in 1..Slices(m),
         \A i \in 1..Slices(m) : \E f \in new : f.idx = i,
         \/ m.k = "cmdres" /\ q.events = p.events
         \/ m.k = "rrweb" /\ m.n = p.events + 1 /\ q.events = p.events + 1
  PROVE  Flight(q, l, o)
<1>1. /\ p.doc \in Nat /\ p.next \in Nat /\ p.events \in Nat /\ p.doc # Child /\ p.next >= 1
      /\ m.n \in Nat /\ Slices(m) \in {1, 2}
  BY PageFields, MessageFields DEF PageOK, Slices
<1>2. \A f \in Own(p) : /\ f.doc \in Nat /\ f.id \in Nat /\ f.msg.n \in Nat
                        /\ f.doc < p.doc \/ (f.doc = p.doc /\ f.id < p.next)
  <2> SUFFICES ASSUME NEW f \in Own(p)
               PROVE  /\ f.doc \in Nat /\ f.id \in Nat /\ f.msg.n \in Nat
                      /\ f.doc < p.doc \/ (f.doc = p.doc /\ f.id < p.next)
    OBVIOUS
  <2>1. f \in Chunk
    BY FlightTypes DEF Own
  <2>2. f.msg.n \in Nat
    BY <2>1, ChunkFields, MessageFields
  <2> QED BY <2>1, <2>2, ChunkFields DEF PageOK
<1>3. \A f \in new : KeyOf(f) \notin Known(l)
  <2> SUFFICES ASSUME NEW f \in new, KeyOf(f) \in Known(l) PROVE FALSE
    OBVIOUS
  <2>1. KeyOf(f) = <<p.doc, p.next>>
    BY DEF KeyOf
  <2>2. KeyOf(f)[1] = p.doc /\ KeyOf(f)[2] = p.next
    BY <2>1
  <2> QED BY <1>1, <2>2 DEF Spoken
<1>4. EventsOrdered(q)
  <2>1. EventsOrdered(p)
    BY DEF Flight
  <2>2. ASSUME NEW f \in Own(q), NEW g \in Own(q), Heard(f), Heard(g), f.doc = g.doc, f.id < g.id
        PROVE  f.msg.n < g.msg.n
    <3>1. CASE f \in Own(p) /\ g \in Own(p)
      BY <2>1, <2>2, <3>1 DEF EventsOrdered
    <3>2. CASE f \in Own(p) /\ g \in new
      <4>1. f.msg.n <= p.events
        BY <2>1, <2>2, <3>2 DEF EventsOrdered
      <4>2. g.msg.n = p.events + 1
        BY <2>2, <3>2 DEF Heard
      <4> QED BY <1>1, <1>2, <3>2, <4>1, <4>2
    <3>3. CASE f \in new
      BY <1>1, <1>2, <2>2, <3>3
    <3> QED BY <3>1, <3>2, <3>3
  <2>3. ASSUME NEW f \in Own(q), NEW g \in Own(q), f.doc = g.doc, f.id = g.id
        PROVE  f.msg = g.msg
    <3>1. CASE f \in Own(p) /\ g \in Own(p)
      BY <2>1, <2>3, <3>1 DEF EventsOrdered
    <3>2. CASE f \in Own(p) /\ g \in new
      BY <1>1, <1>2, <2>3, <3>2
    <3>3. CASE f \in new /\ g \in Own(p)
      BY <1>1, <1>2, <2>3, <3>3
    <3> QED BY <3>1, <3>2, <3>3
  <2>4. ASSUME NEW f \in Own(q), Heard(f), f.doc = q.doc
        PROVE  f.msg.n <= q.events
    <3>1. CASE f \in Own(p)
      <4>1. f.msg.n <= p.events
        BY <2>1, <2>4, <3>1 DEF EventsOrdered
      <4> QED BY <1>1, <1>2, <3>1, <4>1
    <3>2. CASE f \in new
      BY <1>1, <2>4, <3>2 DEF Heard
    <3> QED BY <3>1, <3>2
  <2> QED BY <2>2, <2>3, <2>4 DEF EventsOrdered
<1>5. Due(p, l) \subseteq Due(q, l) /\ Due(q, l) \subseteq Due(p, l) \cup new
  BY DEF Due
<1>6. \A d, n : Owed(p, l, d, n) => Owed(q, l, d, n)
  BY <1>5 DEF Owed
<1>7. Unbroken(q, l)
  <2>1. Unbroken(p, l)
    BY DEF Flight
  <2>2. ASSUME NEW f \in Due(q, l), f.id # 0 PROVE Owed(q, l, f.doc, f.msg.n - 1)
    <3>1. CASE f \in Due(p, l)
      BY <1>6, <2>1, <2>2, <3>1 DEF Unbroken
    <3>2. CASE f \in new
      <4>1. f.doc = p.doc /\ f.msg.n = p.events + 1
        BY <3>2 DEF Due, Heard
      <4>2. f.msg.n - 1 = p.events
        BY <1>1, <4>1
      <4> QED BY <1>6, <2>1, <4>1, <4>2 DEF Unbroken
    <3> QED BY <1>5, <2>2, <3>1, <3>2
  <2>3. Owed(q, l, q.doc, q.events)
    <3>1. CASE m.k = "cmdres"
      BY <1>6, <2>1, <3>1 DEF Unbroken
    <3>2. CASE m.k = "rrweb"
      <4>1. PICK f \in new : f.idx = Slices(m)
        BY <1>1
      <4>2. f \in Due(q, l)
        BY <1>3, <3>2, <4>1 DEF Due, Heard
      <4>3. f.doc = q.doc /\ f.msg.n = q.events
        BY <3>2, <4>1
      <4> QED BY <4>2, <4>3 DEF Owed
    <3> QED BY <3>1, <3>2
  <2> QED BY <2>2, <2>3 DEF Unbroken
<1>8. Assembled(q, l)
  <2> SUFFICES ASSUME NEW f \in Own(q), f.idx = 2, KeyOf(f) \notin Known(l)
               PROVE  \/ \E g \in Own(q) : g.doc = f.doc /\ g.id = f.id /\ g.idx = 1
                      \/ \E r \in l.re.partial : r.key = KeyOf(f) /\ 1 \in r.idx
    BY DEF Assembled
  <2>1. CASE f \in Own(p)
    BY <2>1 DEF Flight, Assembled
  <2>2. CASE f \in new
    <3>1. PICK g \in new : g.idx = 1
      BY <1>1
    <3> QED BY <2>2, <3>1
  <2> QED BY <2>1, <2>2
<1>9. Remembered(q, l, o)
  BY <1>3 DEF Flight, Remembered
<1>10. HeadOnly(q, l)
  <2> SUFFICES ASSUME NEW f \in Own(q), KeyOf(f) \in Known(l)
               PROVE  q.wire # <<>> /\ f = Head(q.wire)
    BY DEF HeadOnly
  <2>1. f \in Own(p)
    BY <1>3
  <2>2. p.wire # <<>> /\ f = Head(p.wire)
    BY <2>1 DEF Flight, HeadOnly
  <2> QED BY <2>2 DEF Leads
<1>11. Accepted(q, l)
  BY <1>1 DEF Flight, Accepted
<1> QED BY <1>4, <1>7, <1>8, <1>9, <1>10, <1>11 DEF Flight

\* What Emit does to the wire.
LEMMA EmitLeads ==
  ASSUME NEW p \in Page, NEW m \in Message
  PROVE  Leads(p, Emit(p, m))
<1> DEFINE s == EncodeChunks(p.ctx, p.next, m)
           a == [p EXCEPT !.next = @ + 1]
<1>1. p.wire \in Seq(Frame) /\ p.next \in Nat /\ p.next + 1 \in Nat /\ p.ctx \in Nat
  BY PageFields, AgentLinkAssumption DEF Doc
<1>2. s \in Seq(Chunk)
  BY <1>1, EncodeFacts
<1>3. s \in Seq(Frame)
  BY <1>2 DEF Frame
<1> HIDE DEF s
<1>4. a.wire = p.wire /\ a.queue = p.queue
  BY DEF Page
<1>5. a \in Page
  BY <1>1, Zenon DEF Page
<1>6. Emit(p, m).wire = p.wire \/ Emit(p, m).wire = p.wire \o s
  <2>1. [a EXCEPT !.wire = @ \o s].wire = p.wire \o s
    BY <1>4, <1>5 DEF Page
  <2>2. [a EXCEPT !.queue = @ \o s].wire = p.wire
    BY <1>4, <1>5 DEF Page
  <2> QED BY <2>1, <2>2 DEF Emit, s
<1> QED BY <1>1, <1>3, <1>6, LeadsConcat DEF Leads

\* What the reassembler knows of has been said by p.
SpokenBy(l, p) == \A key \in Known(l) : key \in Key /\ (key[1] = Child \/ Spoken(key, p))

LEMMA EmitFlight ==
  ASSUME NEW p \in Page, PageOK(p), NEW a \in Page, NEW l, NEW o, NEW m \in Message,
         a.wire = p.wire, a.queue = p.queue, a.doc = p.doc, a.next = p.next, m.doc = p.doc,
         \/ m.k = "cmdres" /\ a.events = p.events
         \/ m.k = "rrweb" /\ m.n = p.events + 1 /\ a.events = p.events + 1,
         Flight(p, l, o), SpokenBy(l, p)
  PROVE  LET q == Emit(a, m)
         IN q \in Page /\ PageOK(q) /\ Flight(q, l, o) /\ SpokenBy(l, q)
<1> DEFINE q == Emit(a, m)
           new == Range(EncodeChunks(a.ctx, a.next, m))
<1>1. PageOK(a) /\ Own(a) = Own(p)
  BY PageSame
<1>2. Adds(a, q, new) /\ q.next = a.next + 1 /\ q.events = a.events
  BY <1>1, EmitFacts
<1>3. Leads(a, q)
  BY EmitLeads
<1>4. p.doc # Child /\ p.doc \in Nat /\ p.next \in Nat /\ a.ctx \in Nat /\ a.next \in Nat
  BY PageFields, AgentLinkAssumption DEF Doc
<1>5. \A f \in new : /\ f.doc = p.doc /\ f.id = p.next /\ f.msg = m /\ f.total = Slices(m)
                     /\ f.idx \in 1..Slices(m)
  BY <1>4, EncodeFacts
<1>6. ASSUME NEW i \in 1..Slices(m) PROVE \E f \in new : f.idx = i
  BY <1>4, SliceAt
<1> HIDE DEF new, q
<1>7. q \in Page /\ PageOK(q) /\ q.doc = p.doc /\ Own(q) = Own(p) \cup new
  BY <1>1, <1>2, <1>4, <1>5 DEF Adds, Own
<1>8. Leads(p, q)
  BY <1>3 DEF Leads
<1>9. \A key \in Known(l) : key[1] = Child \/ Spoken(key, p)
  BY Zenon DEF SpokenBy
<1>10. Flight(q, l, o)
  <2>1. \/ m.k = "cmdres" /\ q.events = p.events
        \/ m.k = "rrweb" /\ m.n = p.events + 1 /\ q.events = p.events + 1
    BY <1>2
  <2> QED BY <1>5, <1>6, <1>7, <1>8, <1>9, <2>1, FlightSays
<1>11. SpokenBy(l, q)
  <2> SUFFICES ASSUME NEW key \in Known(l), key[1] # Child PROVE Spoken(key, q)
    BY DEF SpokenBy
  <2>5. key[2] \in Nat
    BY DEF SpokenBy, Key
  <2>1. Spoken(key, p)
    BY <1>9
  <2>2. q.next = p.next + 1
    BY <1>2
  <2>3. CASE key[1] < p.doc
    BY <1>7, <2>3 DEF Spoken
  <2>4. CASE key[1] = p.doc /\ key[2] < p.next
    <3>1. key[2] < q.next
      BY <1>4, <2>2, <2>4, <2>5
    <3> QED BY <1>7, <2>4, <3>1 DEF Spoken
  <2> QED BY <2>1, <2>3, <2>4 DEF Spoken
<1> QED BY <1>7, <1>10, <1>11 DEF q

LEMMA EventFlight ==
  ASSUME NEW p \in Page, PageOK(p), NEW for \in SUBSET Whose, NEW l, NEW o,
         Flight(p, l, o), SpokenBy(l, p)
  PROVE  LET q == EmitEvent(p, for)
         IN q \in Page /\ PageOK(q) /\ Flight(q, l, o) /\ SpokenBy(l, q)
<1> DEFINE a == [p EXCEPT !.events = @ + 1]
           m == Event(p.doc, p.events + 1, for)
<1>1. p.doc \in DocNo /\ p.events + 1 \in Nat
  BY PageFields
<1>2. a \in Page
  BY <1>1, Zenon DEF Page
<1>3. /\ a.wire = p.wire /\ a.queue = p.queue /\ a.doc = p.doc /\ a.next = p.next
      /\ a.events = p.events + 1
  BY <1>2 DEF Page
<1>4. m \in Message /\ m.k = "rrweb" /\ m.doc = p.doc /\ m.n = p.events + 1
  <2>1. m \in Said
    BY <1>1, Zenon DEF Event, Said
  <2> QED BY <2>1 DEF Event, Message
<1>5. EmitEvent(p, for) = Emit(a, m)
  BY DEF EmitEvent
<1> HIDE DEF a, m
<1> QED BY <1>2, <1>3, <1>4, <1>5, EmitFlight

LEMMA AnswerFlight ==
  ASSUME NEW p \in Page, PageOK(p), NEW c \in CallCmd, NEW ok \in BOOLEAN, NEW l, NEW o,
         Flight(p, l, o), SpokenBy(l, p)
  PROVE  LET q == Answer(p, c, ok)
         IN q \in Page /\ PageOK(q) /\ Flight(q, l, o) /\ SpokenBy(l, q)
<1> DEFINE m == Result(p.doc, c.req, ok, {c.n})
<1>1. p.doc \in DocNo /\ c.req \in Nat /\ {c.n} \in SUBSET Whose
  BY PageFields DEF CallCmd, Whose
<1>2. m \in Message /\ m.k = "cmdres" /\ m.doc = p.doc
  <2>1. m \in Answers
    BY <1>1, Zenon DEF Result, Answers
  <2> QED BY <2>1 DEF Result, Message
<1>3. Answer(p, c, ok) = Emit(p, m)
  BY DEF Answer
<1> HIDE DEF m
<1> QED BY <1>2, <1>3, EmitFlight

LEMMA SnapshotFlight ==
  ASSUME NEW p \in Page, PageOK(p), NEW c \in CallCmd, NEW ok \in BOOLEAN, NEW l, NEW o,
         Flight(p, l, o), SpokenBy(l, p)
  PROVE  Flight(EmitSnapshot(p, c, ok), l, o)
<1>1. CASE ~ok
  <2>1. EmitSnapshot(p, c, ok) = Answer(p, c, FALSE)
    BY <1>1 DEF EmitSnapshot
  <2> QED BY <2>1, AnswerFlight
<1>2. CASE ok
  <2> DEFINE a == EmitEvent(p, {c.n})
  <2>1. EmitSnapshot(p, c, ok) = Answer(a, c, TRUE)
    BY <1>2 DEF EmitSnapshot
  <2>2. {c.n} \in SUBSET Whose
    BY DEF CallCmd, Whose
  <2>3. a \in Page /\ PageOK(a) /\ Flight(a, l, o) /\ SpokenBy(l, a)
    BY <2>2, EventFlight
  <2> HIDE DEF a
  <2> QED BY <2>1, <2>3, AnswerFlight
<1> QED BY <1>1, <1>2

\* The page in two steps: what is not said changes first.
LEMMA AsideFlight ==
  ASSUME NEW p \in Page, PageOK(p), NEW a, NEW l, NEW o \in Nat, l.re.completed \in Seq(Key),
         a.wire = p.wire, a.queue = p.queue, a.doc = p.doc, a.next = p.next,
         a.events = p.events, Flight(p, l, o), SpokenBy(l, p)
  PROVE  PageOK(a) /\ Flight(a, l, o) /\ SpokenBy(l, a)
<1>1. PageOK(a) /\ Own(a) = Own(p)
  BY PageSame
<1>2. HeadOnly(a, l)
  BY <1>1 DEF Flight, HeadOnly
<1>3. o <= o
  OBVIOUS
<1>4. Flight(a, l, o)
  BY <1>1, <1>2, <1>3, FlightSame
<1>5. SpokenBy(l, a)
  BY DEF SpokenBy, Spoken
<1> QED BY <1>1, <1>4, <1>5

\* More on the wire that is not the document's.
LEMMA WireFlight ==
  ASSUME NEW p \in Page, NEW q, NEW l, NEW o \in Nat, NEW u \in Nat, NEW t \in Seq(Frame),
         l.re.completed \in Seq(Key),
         Flight(p, l, o), Own(q) = Own(p), q.doc = p.doc, q.events = p.events, u <= o,
         q.wire = p.wire \o t
  PROVE  Flight(q, l, u)
<1>1. p.wire \in Seq(Frame)
  BY PageFields
<1>2. HeadOnly(q, l)
  BY <1>1, LeadsConcat DEF Flight, HeadOnly
<1> QED BY <1>2, FlightSame

LEMMA HandleFlight ==
  ASSUME NEW p \in Page, PageOK(p), NEW c \in CallCmd, NEW ok \in BOOLEAN, NEW l, NEW o \in Nat,
         l.re.completed \in Seq(Key), Flight(p, l, o), SpokenBy(l, p)
  PROVE  Flight(Handle(p, c, ok), l, o)
<1>1. CASE c.n \notin Snapshot
  BY <1>1, AnswerFlight DEF Handle
<1>2. CASE c.n \in Snapshot /\ p.recording
  BY <1>2, SnapshotFlight DEF Handle
<1>3. CASE c.n \in Snapshot /\ ~p.recording
  <2> DEFINE q == [p EXCEPT !.waiting = Append(@, c)]
  <2>1. Handle(p, c, ok) = q
    BY <1>3 DEF Handle
  <2>2. /\ q.wire = p.wire /\ q.queue = p.queue /\ q.doc = p.doc /\ q.next = p.next
        /\ q.events = p.events
    BY DEF Page
  <2> HIDE DEF q
  <2> QED BY <2>1, <2>2, AsideFlight
<1> QED BY <1>1, <1>2, <1>3

LEMMA StreamFacts ==
  ASSUME IInv, SInv, link.attached
  PROVE  /\ page \in Page /\ PageOK(page) /\ link \in Link /\ link.re.completed \in Seq(Key)
         /\ left.odd \in Nat /\ Flight(page, link, left.odd) /\ SpokenBy(link, page)
<1>1. page \in Page /\ PageOK(page) /\ link \in Link
      /\ left \in [events: 0..MaxEvents, odd: 0..MaxOdd]
  BY PageTypes
<1>2. link.re.completed \in Seq(Key)
  BY <1>1, LinkFields
<1>3. left.odd \in Nat
  BY <1>1, AgentLinkAssumption
<1>4. Flight(page, link, left.odd)
  BY DEF SInv
<1>5. SpokenBy(link, page)
  BY <1>1, KeyTypes DEF SpokenBy, Known, IInv, ReassemblyOK
<1> QED BY <1>1, <1>2, <1>3, <1>4, <1>5

\* The gateway has read nothing.
LEMMA NothingRead ==
  ASSUME SInv, UNCHANGED link, link.attached => Flight(page', link, left'.odd)
  PROVE  SInv'
BY DEF SInv, StreamFaithful, ReadOK

LEMMA OddOnce ==
  ASSUME IInv, Odd
  PROVE  left'.odd \in Nat /\ left'.odd < left.odd
<1>1. left \in [events: 0..MaxEvents, odd: 0..MaxOdd]
  BY PageTypes
<1> QED BY <1>1, AgentLinkAssumption DEF Odd

LEMMA BindWorldRead ==
  ASSUME IInv, SInv, BindWorld
  PROVE  SInv'
<1>1. /\ link.attached /\ page' = [page EXCEPT !.ready = TRUE]
      /\ UNCHANGED <<todo, link, call, left>>
  BY DEF BindWorld
<1>2. /\ page'.wire = page.wire /\ page'.queue = page.queue /\ page'.doc = page.doc
      /\ page'.next = page.next /\ page'.events = page.events
  BY <1>1, StreamFacts DEF Page
<1>3. Flight(page', link, left.odd)
  BY <1>1, <1>2, StreamFacts, AsideFlight
<1> QED BY <1>1, <1>3, NothingRead

LEMMA FlushRead ==
  ASSUME IInv, SInv, Flush
  PROVE  SInv'
<1>1. /\ link.attached /\ page' = [page EXCEPT !.wire = @ \o page.queue, !.queue = <<>>]
      /\ UNCHANGED <<todo, link, call, left>>
  BY DEF Flush
<1>2. page \in Page /\ link.re.completed \in Seq(Key) /\ left.odd \in Nat
      /\ Flight(page, link, left.odd)
  BY <1>1, StreamFacts
<1>3. /\ page'.wire = page.wire \o page.queue /\ page'.queue = <<>> /\ page'.doc = page.doc
      /\ page'.events = page.events
  BY <1>1, <1>2 DEF Page
<1>4. page.wire \in Seq(Frame) /\ page.queue \in Seq(Chunk) /\ page.queue \in Seq(Frame)
  BY <1>2, PageFields DEF Frame
<1>5. Range(page'.wire) = Range(page.wire) \cup Range(page.queue) /\ Range(page'.queue) = {}
  BY <1>3, <1>4, RangeConcat, RangeEmpty
<1>6. \A f \in Range(page.queue) : f.k = "chunk"
  BY <1>4, RangeIs, ChunkFields
<1>7. Own(page') = Own(page)
  BY <1>5, <1>6 DEF Own, InFlight, Chunks
<1>8. left.odd <= left.odd
  BY <1>2
<1>9. Flight(page', link, left.odd)
  BY <1>2, <1>3, <1>4, <1>7, <1>8, WireFlight
<1> QED BY <1>1, <1>9, NothingRead

LEMMA StartRecordingRead ==
  ASSUME IInv, SInv, StartRecording
  PROVE  SInv'
<1> DEFINE a == [page EXCEPT !.recording = TRUE]
<1>1. /\ link.attached /\ page' = EmitEvent(a, {None}) /\ UNCHANGED <<todo, link, call, left>>
  BY DEF StartRecording
<1>2. page \in Page
  BY PageTypes
<1>3. a \in Page
  BY <1>2, Zenon DEF Page
<1>4. /\ a.wire = page.wire /\ a.queue = page.queue /\ a.doc = page.doc /\ a.next = page.next
      /\ a.events = page.events
  BY <1>2 DEF Page
<1> HIDE DEF a
<1>5. PageOK(a) /\ Flight(a, link, left.odd) /\ SpokenBy(link, a)
  BY <1>1, <1>4, StreamFacts, AsideFlight
<1>6. {None} \in SUBSET Whose
  BY DEF Whose
<1>7. Flight(page', link, left.odd)
  BY <1>1, <1>3, <1>5, <1>6, EventFlight
<1> QED BY <1>1, <1>7, NothingRead

LEMMA MutateRead ==
  ASSUME IInv, SInv, Mutate
  PROVE  SInv'
<1>1. /\ link.attached /\ page' = EmitEvent(page, {}) /\ UNCHANGED <<todo, link, call>>
      /\ left' = [left EXCEPT !.events = @ - 1]
  BY DEF Mutate
<1>2. left \in [events: 0..MaxEvents, odd: 0..MaxOdd]
  BY PageTypes
<1>3. left'.odd = left.odd
  BY <1>1, <1>2
<1>4. {} \in SUBSET Whose
  OBVIOUS
<1>5. Flight(page', link, left.odd)
  BY <1>1, <1>4, StreamFacts, EventFlight
<1> QED BY <1>1, <1>3, <1>5, NothingRead

\* A command that waited in the page is about to be answered.
LEMMA WaitedFlight ==
  ASSUME IInv, SInv, link.attached, page.waiting # <<>>
  PROVE  LET a == [page EXCEPT !.waiting = Tail(@)]
         IN /\ a \in Page /\ PageOK(a) /\ Flight(a, link, left.odd) /\ SpokenBy(link, a)
            /\ Head(page.waiting) \in CallCmd
<1> DEFINE a == [page EXCEPT !.waiting = Tail(@)]
<1>1. a \in Page /\ Head(page.waiting) \in CallCmd
  BY StreamFacts, FirstWaits
<1>2. /\ a.wire = page.wire /\ a.queue = page.queue /\ a.doc = page.doc /\ a.next = page.next
      /\ a.events = page.events
  BY StreamFacts DEF Page
<1> HIDE DEF a
<1>3. PageOK(a) /\ Flight(a, link, left.odd) /\ SpokenBy(link, a)
  BY <1>2, StreamFacts, AsideFlight
<1> QED BY <1>1, <1>3 DEF a

LEMMA ResumeSnapshotRead ==
  ASSUME IInv, SInv, ResumeSnapshot
  PROVE  SInv'
<1> DEFINE a == [page EXCEPT !.waiting = Tail(@)]
           c == Head(page.waiting)
<1>1. /\ link.attached /\ UNCHANGED <<todo, link, call, left>> /\ page.waiting # <<>>
      /\ \E ok \in BOOLEAN : page' = EmitSnapshot(a, c, ok)
  BY DEF ResumeSnapshot, PageIdle
<1>2. PICK ok \in BOOLEAN : page' = EmitSnapshot(a, c, ok)
  BY <1>1
<1>3. a \in Page /\ PageOK(a) /\ Flight(a, link, left.odd) /\ SpokenBy(link, a) /\ c \in CallCmd
  BY <1>1, WaitedFlight
<1> HIDE DEF a, c
<1>4. Flight(page', link, left.odd)
  BY <1>2, <1>3, SnapshotFlight
<1> QED BY <1>1, <1>4, NothingRead

LEMMA SnapshotTimeoutRead ==
  ASSUME IInv, SInv, SnapshotTimeout
  PROVE  SInv'
<1> DEFINE a == [page EXCEPT !.waiting = Tail(@)]
           c == Head(page.waiting)
<1>1. /\ link.attached /\ UNCHANGED <<todo, link, call, left>> /\ page.waiting # <<>>
      /\ page' = Answer(a, c, FALSE)
  BY DEF SnapshotTimeout
<1>2. a \in Page /\ PageOK(a) /\ Flight(a, link, left.odd) /\ SpokenBy(link, a) /\ c \in CallCmd
  BY <1>1, WaitedFlight
<1> HIDE DEF a, c
<1>3. Flight(page', link, left.odd)
  BY <1>1, <1>2, AnswerFlight
<1> QED BY <1>1, <1>3, NothingRead

LEMMA ChildFrameRead ==
  ASSUME IInv, SInv, ChildFrame
  PROVE  SInv'
<1> DEFINE s == EncodeChunks(Child, 0, Hello(Child))
           q == [page EXCEPT !.wire = @ \o s]
<1>1. /\ link.attached /\ page' = q /\ UNCHANGED <<todo, link, call>> /\ Odd
  BY DEF ChildFrame
<1>2. page \in Page /\ PageOK(page) /\ link.re.completed \in Seq(Key) /\ left.odd \in Nat
      /\ Flight(page, link, left.odd)
  BY <1>1, StreamFacts
<1>3. Child \in Nat /\ Child \in DocNo
  BY AgentLinkAssumption DEF Child, DocNo
<1>4. s \in Seq(Chunk) /\ Range(s) = {s[1]} /\ s[1].doc = Child /\ ChunkOK(s[1])
  BY <1>3, HelloFacts
<1> HIDE DEF s
<1>5. s \in Seq(Frame) /\ \A x \in Range(s) : x.doc = Child /\ ChunkOK(x)
  BY <1>4 DEF Frame
<1>6. q.wire = page.wire \o s /\ q.doc = page.doc /\ q.events = page.events
  BY <1>2 DEF Page
<1>7. InFlight(q) = InFlight(page) \cup Chunks(s)
  BY <1>2, <1>5, AsideFacts DEF Adds
<1> HIDE DEF q
<1>8. Own(q) = Own(page)
  BY <1>5, <1>7 DEF Own, Chunks
<1>9. left'.odd \in Nat /\ left'.odd <= left.odd
  BY <1>1, <1>2, OddOnce
<1>10. Flight(page', link, left'.odd)
  BY <1>1, <1>2, <1>5, <1>6, <1>8, <1>9, WireFlight
<1> QED BY <1>1, <1>10, NothingRead

LEMMA PerformRead ==
  ASSUME IInv, SInv, Perform
  PROVE  SInv'
<1> DEFINE c == Head(todo)
<1>1. /\ link.attached /\ todo # <<>> /\ UNCHANGED <<link, call, left>>
      /\ \E ok \in BOOLEAN : page' = Performed(c, ok)
  BY DEF Perform
<1>2. /\ page \in Page /\ PageOK(page) /\ link.re.completed \in Seq(Key) /\ left.odd \in Nat
      /\ Flight(page, link, left.odd) /\ SpokenBy(link, page)
  BY <1>1, StreamFacts
<1>3. c \in Todo
  BY <1>1, FirstTodo, PageTypes
<1>4. PICK ok \in BOOLEAN : page' = Performed(c, ok)
  BY <1>1
<1> HIDE DEF c
<1>5. page.doc \in Nat /\ page.wire \in Seq(Frame)
  BY <1>2, PageFields
<1>6. ASSUME NEW a, NEW x \in Frame, x.k # "chunk", a \in Page,
             a.wire = page.wire, a.queue = page.queue, a.doc = page.doc, a.next = page.next,
             a.events = page.events
      PROVE  Flight([a EXCEPT !.wire = Append(@, x)], link, left.odd)
  <2> DEFINE q == [a EXCEPT !.wire = Append(@, x)]
  <2>1. PageOK(a) /\ Flight(a, link, left.odd)
    BY <1>2, <1>6, AsideFlight
  <2>2. InFlight(q) = InFlight(a)
    BY <1>6, <2>1, AnswerFrame DEF Adds
  <2>3. q.wire = Append(a.wire, x) /\ q.doc = a.doc /\ q.events = a.events
    BY <1>6 DEF Page
  <2> HIDE DEF q
  <2>4. <<x>> \in Seq(Frame) /\ Append(a.wire, x) = a.wire \o <<x>>
    BY <1>5, <1>6
  <2>5. Own(q) = Own(a) /\ left.odd <= left.odd
    BY <1>2, <2>2 DEF Own
  <2>6. Flight(q, link, left.odd)
    BY <1>2, <1>6, <2>1, <2>3, <2>4, <2>5, WireFlight
  <2> QED BY <2>6 DEF q
<1>7. Flight(page', link, left.odd)
  <2>1. CASE c.k = "acquire"
    <3> DEFINE found == c.ctx = Child \/ (c.ctx = page.ctx /\ page.held)
               x == [k |-> "acquired", p |-> c.p, ok |-> found, retain |-> c.retain,
                     object |-> page.doc]
               a == [page EXCEPT !.held = @ /\ c.ctx # page.ctx]
    <3>1. c \in AcquireCmd
      BY <1>3, <2>1, TodoKinds
    <3>2. found \in BOOLEAN /\ c.p \in Nat /\ c.retain \in BOOLEAN
      BY <3>1 DEF AcquireCmd
    <3> HIDE DEF found
    <3>3. x \in Acquired
      BY <1>5, <3>2, Zenon DEF Acquired
    <3>4. x \in Frame /\ x.k = "acquired"
      BY <3>3 DEF Frame
    <3>5. page' = [a EXCEPT !.wire = Append(@, x)]
      BY <1>4, <2>1 DEF Performed, found
    <3> HIDE DEF x
    <3>6. a \in Page
      <4>1. (page.held /\ c.ctx # page.ctx) \in BOOLEAN
        OBVIOUS
      <4> QED BY <1>2, <4>1, Zenon DEF Page
    <3>7. /\ a.wire = page.wire /\ a.queue = page.queue /\ a.doc = page.doc
          /\ a.next = page.next /\ a.events = page.events
      BY <1>2 DEF Page
    <3> HIDE DEF a
    <3> QED BY <1>6, <3>4, <3>5, <3>6, <3>7
  <2>2. CASE c.k = "release"
    <3> DEFINE x == [k |-> "released", p |-> c.p]
    <3>1. c \in ReleaseCmd
      BY <1>3, <2>2, TodoKinds
    <3>2. x \in Frame /\ x.k = "released"
      BY <3>1 DEF ReleaseCmd, Frame, Released
    <3>3. page' = [page EXCEPT !.wire = Append(@, x)]
      BY <1>4, <2>2 DEF Performed
    <3> HIDE DEF x
    <3> QED BY <1>2, <1>6, <3>2, <3>3
  <2>3. CASE c.k = "call"
    <3>1. c \in CallCmd
      BY <1>3, <2>3, TodoKinds
    <3>2. CASE c.object = page.doc
      <4>1. page' = Handle(page, c, ok)
        BY <1>4, <2>3, <3>2 DEF Performed
      <4> QED BY <1>2, <3>1, <4>1, HandleFlight
    <3>3. CASE c.object # page.doc
      <4> DEFINE x == [k |-> "refused", req |-> c.req]
      <4>1. x \in Frame /\ x.k = "refused"
        BY <3>1 DEF CallCmd, Frame, Refused
      <4>2. page' = [page EXCEPT !.wire = Append(@, x)]
        BY <1>4, <2>3, <3>3 DEF Performed
      <4> HIDE DEF x
      <4> QED BY <1>2, <1>6, <4>1, <4>2
    <3> QED BY <3>2, <3>3
  <2> QED BY <1>3, <2>1, <2>2, <2>3, TodoKinds
<1> QED BY <1>1, <1>7, NothingRead

\* A document starts with no events.
AnyPage == [doc: Nat, ctx: Nat, held: BOOLEAN, ready: BOOLEAN, queue: Seq(Chunk), next: Nat,
            events: Nat, recording: BOOLEAN, waiting: Seq(CallCmd), wire: Seq(Frame)]

LEMMA LoadedEvents ==
  ASSUME NEW p \in AnyPage, NEW d \in DocNo, NEW ctx \in Nat
  PROVE  Loaded(p, d, ctx).events = 0
<1> DEFINE a == [p EXCEPT !.doc = d, !.ctx = ctx, !.held = TRUE, !.ready = FALSE, !.queue = <<>>,
                          !.next = 0, !.events = 0, !.recording = FALSE, !.waiting = <<>>]
           m == Hello(d)
           s == EncodeChunks(a.ctx, a.next, m)
           b == [a EXCEPT !.next = @ + 1]
<1>1. Loaded(p, d, ctx) = Emit(a, m)
  BY DEF Loaded
<1>2. Emit(a, m) = [b EXCEPT !.wire = @ \o s] \/ Emit(a, m) = [b EXCEPT !.queue = @ \o s]
  BY DEF Emit
<1>3. a \in AnyPage
  <2>1. /\ <<>> \in Seq(Chunk) /\ <<>> \in Seq(CallCmd) /\ 0 \in Nat /\ d \in Nat
        /\ TRUE \in BOOLEAN /\ FALSE \in BOOLEAN
    BY DEF DocNo
  <2> QED BY <2>1, Zenon DEF AnyPage
<1>4. a.events = 0 /\ a.next = 0
  BY <1>3 DEF AnyPage
<1> HIDE DEF a, s
<1>5. a.next + 1 \in Nat
  BY <1>4
<1>6. b \in AnyPage
  BY <1>3, <1>5, Zenon DEF AnyPage
<1>7. b.events = 0
  BY <1>3, <1>4 DEF AnyPage
<1> HIDE DEF b
<1>8. [b EXCEPT !.wire = @ \o s].events = 0 /\ [b EXCEPT !.queue = @ \o s].events = 0
  BY <1>6, <1>7 DEF AnyPage
<1> QED BY <1>1, <1>2, <1>8

LEMMA AnyPages ==
  Page \subseteq AnyPage
<1>1. \A d \in Doc : d \in Nat
  BY DEF Doc
<1> QED BY <1>1, SMT DEF Page, AnyPage

\* A new document's hello comes after all that is on the wire; what was queued is lost.
LEMMA LoadedFlight ==
  ASSUME NEW p \in Page, PageOK(p), NEW q \in Page, PageOK(q), NEW l, NEW o,
         q.wire = p.wire, q.doc > p.doc, q.events = 0, NEW h,
         InFlight(q) = Chunks(p.wire) \cup {h}, h.doc = q.doc, h.id = 0, h.msg.k = "hello",
         Flight(p, l, o), SpokenBy(l, p), \A d \in l.seen : d <= p.doc /\ d \in Nat
  PROVE  Flight(q, l, o)
<1>1. q.doc \in Nat /\ p.doc \in Nat /\ q.doc # Child /\ p.events \in Nat
  BY PageFields
<1>2. Own(q) = {f \in Chunks(p.wire) : f.doc # Child} \cup {h}
  BY <1>1 DEF Own
<1>3. \A f \in Own(q) : f = h \/ (f \in Own(p) /\ f \in Chunks(p.wire))
  BY <1>2 DEF Own, InFlight
<1>4. \A f \in Own(p) : /\ f.doc \in Nat /\ f.id \in Nat /\ f.idx \in Nat /\ f.msg.n \in Nat
                        /\ f.doc <= p.doc /\ f.doc # q.doc
  <2> SUFFICES ASSUME NEW f \in Own(p)
               PROVE  /\ f.doc \in Nat /\ f.id \in Nat /\ f.idx \in Nat /\ f.msg.n \in Nat
                      /\ f.doc <= p.doc /\ f.doc # q.doc
    OBVIOUS
  <2>1. f \in Chunk
    BY FlightTypes DEF Own
  <2>2. /\ f.doc \in Nat /\ f.id \in Nat /\ f.idx \in Nat /\ f.msg.n \in Nat
    BY <2>1, ChunkFields, MessageFields
  <2>3. f.doc <= p.doc
    BY <1>1, <2>2 DEF PageOK
  <2> QED BY <1>1, <2>2, <2>3
<1>5. h.idx = h.total /\ h.total = 1 /\ h.msg.n = 0
  <2>1. ChunkOK(h)
    BY DEF PageOK
  <2>2. h.total = 1
    BY <2>1 DEF ChunkOK, Slices
  <2>3. h.msg = Hello(h.doc)
    BY <2>1 DEF ChunkOK
  <2>4. h.msg.n = 0
    BY <2>3 DEF Hello
  <2> QED BY <2>1, <2>2, <2>4 DEF ChunkOK
<1>6. KeyOf(h) \notin Known(l)
  <2> SUFFICES ASSUME KeyOf(h) \in Known(l) PROVE FALSE
    OBVIOUS
  <2>1. KeyOf(h)[1] = q.doc
    BY DEF KeyOf
  <2>2. KeyOf(h)[1] = Child \/ Spoken(KeyOf(h), p)
    BY DEF SpokenBy
  <2> QED BY <1>1, <2>1, <2>2 DEF Spoken
<1>7. \A f \in Chunks(p.wire), g \in Range(p.queue) : f.doc # Child => Before(f, g)
  BY DEF PageOK
<1>8. EventsOrdered(p) /\ Unbroken(p, l) /\ Assembled(p, l)
  BY DEF Flight
<1>9. EventsOrdered(q)
  <2>1. ASSUME NEW f \in Own(q), NEW g \in Own(q), f.doc = g.doc
        PROVE  (f = h /\ g = h) \/ (f \in Own(p) /\ g \in Own(p))
    BY <1>3, <1>4, <2>1
  <2>2. ASSUME NEW f \in Own(q), NEW g \in Own(q), Heard(f), Heard(g), f.doc = g.doc, f.id < g.id
        PROVE  f.msg.n < g.msg.n
    <3>1. CASE f = h /\ g = h
      BY <2>2, <3>1
    <3>2. CASE f \in Own(p) /\ g \in Own(p)
      BY <1>8, <2>2, <3>2 DEF EventsOrdered
    <3> QED BY <2>1, <2>2, <3>1, <3>2
  <2>3. ASSUME NEW f \in Own(q), NEW g \in Own(q), f.doc = g.doc, f.id = g.id
        PROVE  f.msg = g.msg
    <3>2. CASE f \in Own(p) /\ g \in Own(p)
      BY <1>8, <2>3, <3>2 DEF EventsOrdered
    <3> QED BY <2>1, <2>3, <3>2
  <2>4. ASSUME NEW f \in Own(q), f.doc = q.doc
        PROVE  f.msg.n <= q.events
    BY <1>3, <1>4, <1>5, <2>4
  <2> QED BY <2>2, <2>3, <2>4 DEF EventsOrdered
<1>10. Due(q, l) = {f \in Due(p, l) : f \in Chunks(p.wire)} \cup {h}
  <2>1. h \in Due(q, l)
    BY <1>2, <1>5, <1>6 DEF Due, Heard
  <2>2. \A f : f \in Chunks(p.wire) => (f \in Own(q) <=> f \in Own(p))
    BY <1>2, <1>3 DEF Own, InFlight
  <2> QED BY <1>2, <1>3, <2>1, <2>2 DEF Due, Own
<1>11. Unbroken(q, l)
  <2>1. ASSUME NEW f \in Due(q, l), f.id # 0 PROVE Owed(q, l, f.doc, f.msg.n - 1)
    <3>1. f \in Due(p, l) /\ f \in Chunks(p.wire) /\ f \in Own(p)
      BY <1>10, <2>1 DEF Due
    <3>2. Owed(p, l, f.doc, f.msg.n - 1)
      BY <1>8, <2>1, <3>1 DEF Unbroken
    <3>3. CASE ReadUpTo(l, f.doc, f.msg.n - 1)
      BY <3>3 DEF Owed
    <3>4. ASSUME NEW g \in Due(p, l), g.doc = f.doc, g.msg.n = f.msg.n - 1
          PROVE  g \in Chunks(p.wire)
      <4> SUFFICES ASSUME g \in Range(p.queue) PROVE FALSE
        BY DEF Due, Own, InFlight
      <4>1. Before(f, g) /\ g \in Own(p) /\ Heard(f) /\ Heard(g)
        BY <1>7, <3>1 DEF Due, Own
      <4>2. CASE f.id < g.id
        <5>1. f.msg.n < g.msg.n
          BY <1>8, <3>1, <3>4, <4>1, <4>2 DEF EventsOrdered
        <5> QED BY <1>4, <3>1, <3>4, <4>1, <5>1
      <4>3. CASE f.id = g.id
        <5>1. f.msg = g.msg
          BY <1>8, <3>1, <3>4, <4>1, <4>3 DEF EventsOrdered
        <5> QED BY <1>4, <3>1, <3>4, <5>1
      <4> QED BY <1>4, <3>1, <3>4, <4>1, <4>2, <4>3 DEF Before
    <3> QED BY <1>10, <3>2, <3>3, <3>4 DEF Owed
  <2>2. Owed(q, l, q.doc, q.events)
    BY <1>5, <1>10 DEF Owed
  <2> QED BY <2>1, <2>2 DEF Unbroken
<1>12. Assembled(q, l)
  <2> SUFFICES ASSUME NEW f \in Own(q), f.idx = 2, KeyOf(f) \notin Known(l)
               PROVE  \/ \E g \in Own(q) : g.doc = f.doc /\ g.id = f.id /\ g.idx = 1
                      \/ \E r \in l.re.partial : r.key = KeyOf(f) /\ 1 \in r.idx
    BY DEF Assembled
  <2>1. f \in Own(p) /\ f \in Chunks(p.wire)
    BY <1>3, <1>5
  <2>2. ASSUME NEW g \in Own(p), g.doc = f.doc, g.id = f.id, g.idx = 1
        PROVE  g \in Own(q)
    <3>1. g \notin Range(p.queue)
      <4> SUFFICES ASSUME g \in Range(p.queue) PROVE FALSE
        OBVIOUS
      <4>1. Before(f, g)
        BY <1>7, <2>1 DEF Own
      <4> QED BY <1>4, <2>1, <2>2, <4>1 DEF Before
    <3> QED BY <1>2, <3>1 DEF Own, InFlight
  <2> QED BY <1>8, <2>1, <2>2 DEF Assembled
<1>13. Remembered(q, l, o)
  BY <1>3, <1>6 DEF Flight, Remembered
<1>14. HeadOnly(q, l)
  BY <1>3, <1>6 DEF Flight, HeadOnly
<1>15. Accepted(q, l)
  <2>1. q.doc \notin l.seen
    BY <1>1
  <2> QED BY <1>3, <2>1 DEF Flight, Accepted
<1> QED BY <1>9, <1>11, <1>12, <1>13, <1>14, <1>15 DEF Flight

LEMMA NavigateRead ==
  ASSUME IInv, SInv, Navigate
  PROVE  SInv'
<1> DEFINE d == page.doc + 1
<1>1. /\ link.attached /\ UNCHANGED <<todo, link, call, left>> /\ page.doc < MaxDocs
      /\ \E ctx \in {page.doc + 1} \cup (IF Reuse THEN {page.ctx} ELSE {}) :
           page' = Loaded(page, d, ctx)
  BY DEF Navigate
<1>2. /\ page \in Page /\ PageOK(page) /\ link \in Link
      /\ Flight(page, link, left.odd) /\ SpokenBy(link, page)
  BY <1>1, StreamFacts
<1>3. d \in Doc /\ d > page.doc /\ page.ctx \in Doc /\ page.doc \in Nat /\ d \in DocNo
  BY <1>1, <1>2, PageFields, AgentLinkAssumption DEF Doc, DocNo
<1>4. PICK ctx \in Doc : page' = Loaded(page, d, ctx)
  BY <1>1, <1>3
<1> HIDE DEF d
<1>5. /\ page' \in Page /\ PageOK(page') /\ page'.doc = d /\ page'.wire = page.wire
      /\ \E h : /\ InFlight(page') = Chunks(page.wire) \cup {h} /\ h.doc = d /\ h.id = 0
                /\ h.msg.k = "hello"
  BY <1>2, <1>3, <1>4, LoadedFacts
<1>6. page'.events = 0
  <2>1. page \in AnyPage /\ ctx \in Nat
    BY <1>2, AnyPages DEF Doc
  <2> QED BY <1>3, <1>4, <2>1, LoadedEvents
<1>7. PICK h : /\ InFlight(page') = Chunks(page.wire) \cup {h} /\ h.doc = d /\ h.id = 0
               /\ h.msg.k = "hello"
  BY <1>5
<1>8. \A e \in link.seen : e <= page.doc /\ e \in Nat
  <2>1. link.docId \in Nat /\ link.docId <= page.doc /\ \A e \in link.seen : e \in Nat
    BY <1>2, LinkFields DEF IInv, DocumentsOK, DocNo
  <2>2. \A e \in link.seen : e <= link.docId
    BY DEF IInv, DocumentsOK
  <2> QED BY <1>3, <2>1, <2>2
<1>9. Flight(page', link, left.odd)
  <2> DEFINE q == page'
  <2>1. /\ q \in Page /\ PageOK(q) /\ q.doc = d /\ q.wire = page.wire /\ q.events = 0
        /\ InFlight(q) = Chunks(page.wire) \cup {h}
    BY <1>5, <1>6, <1>7
  <2> HIDE DEF q
  <2>2. Flight(q, link, left.odd)
    BY <1>2, <1>3, <1>7, <1>8, <2>1, LoadedFlight
  <2> QED BY <2>2 DEF q
<1> QED BY <1>1, <1>9, NothingRead

\* A page that has said nothing but hello, to a gateway that has read nothing.
LEMMA FreshFlight ==
  ASSUME NEW p \in Page, PageOK(p), NEW l, NEW o, p.events = 0, NEW h, InFlight(p) = {h},
         h.doc = p.doc, h.id = 0, h.msg.k = "hello", Known(l) = {}, l.seen = {}
  PROVE  Flight(p, l, o)
<1>1. Own(p) = {h}
  BY PageFields DEF Own
<1>2. h.idx = h.total /\ h.total = 1 /\ h.msg.n = 0
  <2>1. ChunkOK(h)
    BY DEF PageOK
  <2>2. h.total = 1
    BY <2>1 DEF ChunkOK, Slices
  <2>3. h.msg = Hello(h.doc)
    BY <2>1 DEF ChunkOK
  <2>4. h.msg.n = 0
    BY <2>3 DEF Hello
  <2> QED BY <2>1, <2>2, <2>4 DEF ChunkOK
<1>3. Due(p, l) = {h}
  BY <1>1, <1>2 DEF Due, Heard
<1>4. EventsOrdered(p)
  BY <1>1, <1>2 DEF EventsOrdered
<1>5. Unbroken(p, l)
  BY <1>2, <1>3 DEF Unbroken, Owed
<1>6. Assembled(p, l) /\ Remembered(p, l, o) /\ HeadOnly(p, l) /\ Accepted(p, l)
  BY <1>1, <1>2 DEF Assembled, Remembered, HeadOnly, Accepted
<1> QED BY <1>4, <1>5, <1>6 DEF Flight

LEMMA AttachRead ==
  ASSUME IInv, SInv, Attach
  PROVE  SInv'
<1> DEFINE q == [page EXCEPT !.wire = <<>>]
           d == page.doc + 1
           s == link.session + 1
<1>1. /\ page.doc < MaxDocs /\ link' = FreshLink(s) /\ page' = Loaded(q, d, d)
  BY DEF Attach
<1>2. page \in Page /\ PageOK(page) /\ link \in Link
  BY PageTypes
<1>3. q \in Page /\ PageOK(q) /\ q.wire = <<>>
  BY <1>2, WireLost
<1> HIDE DEF q
<1>4. d \in Doc /\ d \in DocNo /\ d \in Nat
  BY <1>1, <1>2, PageFields, AgentLinkAssumption DEF Doc, DocNo
<1>5. s \in Nat
  BY <1>2, LinkFields
<1> HIDE DEF d, s
<1>6. /\ page' \in Page /\ PageOK(page') /\ page'.doc = d
      /\ \E h : /\ InFlight(page') = Chunks(q.wire) \cup {h} /\ h.doc = d /\ h.id = 0
                /\ h.msg.k = "hello"
  BY <1>1, <1>3, <1>4, LoadedFacts
<1>7. page'.events = 0
  <2>1. q \in AnyPage
    BY <1>3, AnyPages
  <2> QED BY <1>1, <1>4, <2>1, LoadedEvents
<1>8. Chunks(q.wire) = {}
  BY <1>3, RangeEmpty DEF Chunks
<1>9. PICK h : InFlight(page') = {h} /\ h.doc = d /\ h.id = 0 /\ h.msg.k = "hello"
  BY <1>6, <1>8
<1>10. /\ link'.docId = 0 /\ link'.seen = {} /\ link'.re.completed = <<>> /\ link'.stream = <<>>
  BY <1>1, <1>5, FreshFacts
<1>11. Known(link') = {}
  BY <1>10, RangeEmpty DEF Known
<1>12. Flight(page', link', left'.odd)
  <2> DEFINE p == page'
             l == link'
             o == left'.odd
  <2>1. /\ p \in Page /\ PageOK(p) /\ p.events = 0 /\ InFlight(p) = {h} /\ h.doc = p.doc
        /\ Known(l) = {} /\ l.seen = {}
    BY <1>6, <1>7, <1>9, <1>10, <1>11
  <2> HIDE DEF p, l, o
  <2>2. Flight(p, l, o)
    BY <1>9, <2>1, FreshFlight
  <2> QED BY <2>2 DEF p, l, o
<1>13. StreamFaithful' /\ ReadOK(link)'
  BY <1>10 DEF StreamFaithful, ReadOK, None
<1> QED BY <1>12, <1>13 DEF SInv

LEMMA InitRead ==
  Init => SInv
<1> SUFFICES ASSUME Init PROVE SInv
  OBVIOUS
<1>1. page = Loaded(NoPage, 1, 1) /\ link = FreshLink(1)
  BY DEF Init
<1>2. 1 \in Nat /\ 1 \in DocNo
  BY DEF DocNo
<1>3. NoPage \in AnyPage
  <2>1. /\ <<>> \in Seq(Chunk) /\ <<>> \in Seq(CallCmd) /\ <<>> \in Seq(Frame)
        /\ FALSE \in BOOLEAN /\ 0 \in Nat
    OBVIOUS
  <2> QED BY <2>1, SMT DEF NoPage, None, AnyPage
<1>4. page.events = 0
  BY <1>1, <1>2, <1>3, LoadedEvents
<1>5. IInv
  BY InitIInv
<1>6. page \in Page /\ PageOK(page)
  BY <1>5, PageTypes
<1>7. /\ link.docId = 0 /\ link.seen = {} /\ link.re.completed = <<>> /\ link.stream = <<>>
      /\ link.attached
  BY <1>1, <1>2, FreshFacts
<1>8. Known(link) = {}
  BY <1>7, RangeEmpty DEF Known
<1>9. PICK h : InFlight(page) = {h} /\ h.doc = page.doc /\ h.id = 0 /\ h.msg.k = "hello"
  BY FirstPage
<1>10. Flight(page, link, left.odd)
  BY <1>4, <1>6, <1>7, <1>8, <1>9, FreshFlight
<1>11. StreamFaithful /\ ReadOK(link)
  BY <1>7 DEF StreamFaithful, ReadOK, None
<1> QED BY <1>10, <1>11 DEF SInv

LEMMA DetachRead ==
  ASSUME IInv, SInv, Detach
  PROVE  SInv'
<1> DEFINE l1 == [link EXCEPT !.attached = FALSE]
<1>1. link' = [l1 EXCEPT !.pending = {}]
  BY DEF Detach, Closed, RejectPending
<1>2. link'.attached = FALSE /\ link'.docId = link.docId /\ link'.stream = link.stream
  BY <1>1, PageTypes DEF Link
<1> QED BY <1>2 DEF SInv, StreamFaithful, ReadOK

\* The gateway does something else.
LEMMA ReadStill ==
  ASSUME IInv, SInv, link.attached => Own(page') = Own(page),
         page'.doc = page.doc, page'.events = page.events, UNCHANGED left,
         link'.re = link.re, link'.docId = link.docId, link'.seen = link.seen,
         link'.stream = link.stream, link'.attached = link.attached,
         link.attached => HeadOnly(page', link)
  PROVE  SInv'
<1>1. StreamFaithful' /\ ReadOK(link)'
  BY DEF SInv, StreamFaithful, ReadOK
<1>2. ASSUME link.attached PROVE Flight(page', link', left'.odd)
  <2>1. /\ link.re.completed \in Seq(Key) /\ left.odd \in Nat /\ Flight(page, link, left.odd)
    BY <1>2, StreamFacts
  <2> DEFINE q == page'
             m == link'
  <2>2. /\ Own(q) = Own(page) /\ q.doc = page.doc /\ q.events = page.events /\ HeadOnly(q, m)
        /\ m.re = link.re /\ m.docId = link.docId /\ m.seen = link.seen
        /\ m.stream = link.stream /\ left.odd <= left.odd
    BY <1>2, <2>1 DEF HeadOnly, Known
  <2> HIDE DEF q, m
  <2>3. Flight(q, m, left.odd)
    BY <2>1, <2>2, FlightSame
  <2> QED BY <2>3 DEF q, m
<1> QED BY <1>1, <1>2 DEF SInv

LEMMA CallRead ==
  ASSUME IInv, SInv, NEW n \in Call, SendCmd(n) \/ BridgeAwaited(n) \/ CommandTimeout(n)
  PROVE  SInv'
<1>1. UNCHANGED <<page, left>> /\ link \in Link
  BY PageTypes DEF SendCmd, BridgeAwaited, CommandTimeout
<1>2. /\ link'.re = link.re /\ link'.docId = link.docId /\ link'.seen = link.seen
      /\ link'.stream = link.stream /\ link'.attached = link.attached
  <2>1. CASE SendCmd(n)
    BY <2>1 DEF SendCmd
  <2>2. CASE BridgeAwaited(n)
    BY <1>1, <2>2 DEF BridgeAwaited, Command, Link
  <2>3. CASE CommandTimeout(n)
    BY <1>1, <2>3 DEF CommandTimeout, Link
  <2> QED BY <2>1, <2>2, <2>3
<1>3. link.attached => HeadOnly(page, link)
  BY DEF SInv, Flight
<1> QED BY <1>1, <1>2, <1>3, ReadStill

\* Once a frame that is no chunk is the first, nothing that is known is on its way.
LEMMA OtherFrameRead ==
  ASSUME IInv, SInv, Receive, Head(page.wire).k # "chunk"
  PROVE  SInv'
<1> DEFINE f == Head(page.wire)
<1>1. link.attached /\ page.wire # <<>> /\ Receives(f) /\ AfterHead /\ UNCHANGED left
  BY DEF Receive
<1>2. page \in Page /\ link \in Link /\ Flight(page, link, left.odd)
  BY <1>1, StreamFacts
<1>3. Takes(f)
  BY <1>1, TakesHead
<1>4. f.k \in {"acquired", "released", "refused"}
  BY <1>3, FrameKinds DEF Takes
<1> HIDE DEF f
<1>5. page'.doc = page.doc /\ page'.events = page.events
  BY <1>1, <1>2 DEF AfterHead, Page
<1>6. \A g \in InFlight(page) : g.k = "chunk"
  BY <1>2, FlightTypes, ChunkFields
<1>7. Own(page') = Own(page)
  <2>1. InFlight(page') = InFlight(page)
    BY <1>3, <1>4, <1>6 DEF Takes
  <2> QED BY <2>1 DEF Own
<1>8. HeadOnly(page', link)
  <2> SUFFICES ASSUME NEW g \in Own(page), KeyOf(g) \in Known(link) PROVE FALSE
    BY <1>7 DEF HeadOnly
  <2>1. g = f
    BY <1>2 DEF Flight, HeadOnly, f
  <2> QED BY <1>4, <1>6, <2>1 DEF Own
<1>9. /\ link'.re = link.re /\ link'.docId = link.docId /\ link'.seen = link.seen
      /\ link'.stream = link.stream /\ link'.attached = link.attached
  <2>1. CASE f.k = "acquired"
    BY <1>1, <1>2, <2>1 DEF Receives, ReceiveAcquired, Link
  <2>2. CASE f.k = "released"
    BY <1>1, <1>2, <2>2 DEF Receives, Link
  <2>3. CASE f.k = "refused"
    BY <1>1, <1>2, <2>3 DEF Receives, ReceiveRefused, Link
  <2> QED BY <1>4, <2>1, <2>2, <2>3
<1> QED BY <1>1, <1>5, <1>7, <1>8, <1>9, ReadStill

LEMMA OwnFields ==
  ASSUME NEW p \in Page, PageOK(p), NEW f \in Own(p)
  PROVE  /\ f \in Chunk /\ f.doc \in Nat /\ f.doc # Child /\ f.id \in Nat /\ f.idx \in Nat
         /\ f.msg.n \in Nat /\ f.msg.doc = f.doc
         /\ f.idx >= 1 /\ f.idx <= f.total /\ f.total \in {1, 2} /\ f.total = Slices(f.msg)
         /\ (f.id = 0 <=> f.msg.k = "hello")
         /\ f.doc < p.doc \/ (f.doc = p.doc /\ f.id < p.next)
<1>1. f \in Chunk /\ f \in InFlight(p) /\ f.doc # Child
  BY FlightTypes DEF Own
<1>2. ChunkOK(f)
  BY <1>1 DEF PageOK
<1>3. f.doc \in Nat /\ f.id \in Nat /\ f.idx \in Nat /\ f.msg.n \in Nat
  BY <1>1, ChunkFields, MessageFields
<1>4. f.total \in {1, 2} /\ f.total = Slices(f.msg)
  BY <1>2 DEF ChunkOK, Slices
<1>5. f.idx >= 1 /\ f.idx <= f.total
  BY <1>2, <1>4 DEF ChunkOK
<1> QED BY <1>1, <1>2, <1>3, <1>4, <1>5 DEF ChunkOK, PageOK

\* A chunk arrives: a late hello, the first chunk on the wire once more, or that
\* chunk, which is then off the wire.
Arrives(p, q, l, o, u, f) ==
  /\ f \in Chunk /\ Own(q) \subseteq Own(p) /\ Own(p) \subseteq Own(q) \cup {f}
  /\ q.doc = p.doc /\ q.events = p.events
  /\ \/ /\ q = p /\ u < o /\ f.id = 0 /\ f.doc \in l.seen \cup {Child}
     \/ /\ q = p /\ u < o /\ p.wire # <<>> /\ f = Head(p.wire)
        /\ f.doc # Child => f \in Own(p) /\ \A g \in Own(p) : g = f \/ Before(f, g)
     \/ /\ u = o /\ p.wire # <<>> /\ f = Head(p.wire)
        /\ f.doc # Child => f \in Own(p) /\ \A g \in Own(q) : Before(f, g)

\* What is in order stays so when some of it is gone.
LEMMA OrderedFewer ==
  ASSUME NEW p, NEW q, Own(q) \subseteq Own(p), q.doc = p.doc, q.events = p.events,
         EventsOrdered(p)
  PROVE  EventsOrdered(q)
BY DEF EventsOrdered

\* A chunk whose message is known is ignored.
LEMMA Ignored ==
  ASSUME NEW p \in Page, PageOK(p), NEW q, NEW l \in Link, NEW o \in Nat, NEW u \in Nat, NEW f,
         Flight(p, l, o), Arrives(p, q, l, o, u, f), KeyOf(f) \in Known(l)
  PROVE  Flight(q, l, u)
<1>1. l.re.completed \in Seq(Key) /\ f.doc \in Nat /\ f.id \in Nat /\ f.idx \in Nat
  BY LinkFields, ChunkFields DEF Arrives
<1>2. CASE q = p /\ u < o
  <2>1. u <= o /\ HeadOnly(q, l)
    BY <1>2 DEF Flight
  <2> QED BY <1>1, <1>2, <2>1, FlightSame
<1>3. CASE u = o /\ f = Head(p.wire) /\ (f.doc # Child => \A g \in Own(q) : Before(f, g))
  <2>1. Own(q) \subseteq Own(p) /\ Own(p) \subseteq Own(q) \cup {f} /\ q.doc = p.doc
        /\ q.events = p.events
    BY DEF Arrives
  <2>2. \A g \in Own(q) : g # f
    <3>1. ~Before(f, f)
      BY <1>1 DEF Before
    <3> QED BY <1>3, <3>1 DEF Own
  <2>3. \A g \in Own(q) : KeyOf(g) \notin Known(l)
    BY <1>3, <2>1, <2>2 DEF Flight, HeadOnly
  <2>4. Due(q, l) = Due(p, l)
    BY <2>1 DEF Due
  <2>5. EventsOrdered(q)
    BY <2>1, OrderedFewer DEF Flight
  <2>6. Unbroken(q, l)
    BY <2>1, <2>4 DEF Flight, Unbroken, Owed
  <2>7. Assembled(q, l)
    <3> SUFFICES ASSUME NEW g \in Own(q), g.idx = 2, KeyOf(g) \notin Known(l)
                 PROVE  \/ \E e \in Own(q) : e.doc = g.doc /\ e.id = g.id /\ e.idx = 1
                        \/ \E r \in l.re.partial : r.key = KeyOf(g) /\ 1 \in r.idx
      BY DEF Assembled
    <3>1. ASSUME NEW e \in Own(p), e.doc = g.doc, e.id = g.id
          PROVE  e \in Own(q)
      <4>1. KeyOf(e) = KeyOf(g)
        BY <3>1 DEF KeyOf
      <4> QED BY <2>1, <4>1
    <3> QED BY <2>1, <3>1 DEF Flight, Assembled
  <2> QED BY <2>1, <2>3, <2>5, <2>6, <2>7 DEF Flight, Remembered, HeadOnly, Accepted
<1> QED BY <1>2, <1>3 DEF Arrives

\* The first slice of two.
LEMMA Grown ==
  ASSUME NEW p \in Page, PageOK(p), NEW q, NEW l \in Link, NEW m, NEW o \in Nat, NEW u \in Nat,
         NEW f, Flight(p, l, o), Arrives(p, q, l, o, u, f), KeyOf(f) \notin Known(l),
         f.id # 0, f.total = 2, f.idx \in {1, 2},
         m.re.completed = l.re.completed, m.docId = l.docId, m.seen = l.seen,
         m.stream = l.stream,
         \A r \in l.re.partial : \E s \in m.re.partial : s.key = r.key /\ r.idx \subseteq s.idx,
         \E s \in m.re.partial : s.key = KeyOf(f) /\ f.idx \in s.idx,
         f.idx = 2 => \A r \in l.re.partial : r.key = KeyOf(f) => 1 \notin r.idx
  PROVE  Flight(q, m, u)
<1>1. l.re.completed \in Seq(Key) /\ f.doc \in Nat /\ f.id \in Nat /\ f.idx \in Nat
  BY LinkFields, ChunkFields DEF Arrives
<1>2. /\ f = Head(p.wire) /\ p.wire # <<>> /\ u <= o
      /\ f.doc # Child => f \in Own(p) /\ \A g \in Own(q) : g = f \/ Before(f, g)
  BY DEF Arrives
<1>3. Own(q) \subseteq Own(p) /\ Own(p) \subseteq Own(q) \cup {f} /\ q.doc = p.doc
      /\ q.events = p.events
  BY DEF Arrives
<1>4. Known(m) = Known(l)
  BY DEF Known
<1>5. \A g \in Own(q) : KeyOf(g) \notin Known(l)
  BY <1>2, <1>3 DEF Flight, HeadOnly
<1>6. f \in Own(p) => f.idx = 1
  <2> SUFFICES ASSUME f \in Own(p), f.idx = 2 PROVE FALSE
    OBVIOUS
  <2>1. PICK g \in Own(p) : g.doc = f.doc /\ g.id = f.id /\ g.idx = 1
    BY DEF Flight, Assembled
  <2>2. g \in Own(q) /\ g # f
    BY <1>3, <2>1
  <2>3. Before(f, g)
    BY <1>2, <2>2 DEF Own
  <2> QED BY <1>1, <2>1, <2>3 DEF Before
<1>7. Due(q, m) = Due(p, l)
  BY <1>3, <1>4, <1>6 DEF Due
<1>8. EventsOrdered(q)
  BY <1>3, OrderedFewer DEF Flight
<1>9. Unbroken(q, m)
  BY <1>3, <1>7 DEF Flight, Unbroken, Owed, ReadUpTo
<1>10. Assembled(q, m)
  <2> SUFFICES ASSUME NEW g \in Own(q), g.idx = 2, KeyOf(g) \notin Known(m)
               PROVE  \/ \E e \in Own(q) : e.doc = g.doc /\ e.id = g.id /\ e.idx = 1
                      \/ \E s \in m.re.partial : s.key = KeyOf(g) /\ 1 \in s.idx
    BY DEF Assembled
  <2>1. \/ \E e \in Own(p) : e.doc = g.doc /\ e.id = g.id /\ e.idx = 1
        \/ \E r \in l.re.partial : r.key = KeyOf(g) /\ 1 \in r.idx
    BY <1>3, <1>4 DEF Flight, Assembled
  <2>2. CASE \E e \in Own(p) : e.doc = g.doc /\ e.id = g.id /\ e.idx = 1
    <3>1. PICK e \in Own(p) : e.doc = g.doc /\ e.id = g.id /\ e.idx = 1
      BY <2>2
    <3>2. CASE e \in Own(q)
      BY <3>1, <3>2
    <3>3. CASE e = f
      <4>1. KeyOf(f) = KeyOf(g)
        BY <3>1, <3>3 DEF KeyOf
      <4> QED BY <3>1, <3>3, <4>1
    <3> QED BY <1>3, <3>2, <3>3
  <2>3. CASE \E r \in l.re.partial : r.key = KeyOf(g) /\ 1 \in r.idx
    BY <2>3
  <2> QED BY <2>1, <2>2, <2>3
<1>11. Remembered(q, m, u) /\ HeadOnly(q, m)
  BY <1>4, <1>5 DEF Remembered, HeadOnly
<1>12. Accepted(q, m)
  BY <1>3, <1>4 DEF Flight, Accepted
<1> QED BY <1>8, <1>9, <1>10, <1>11, <1>12 DEF Flight

\* What the reassembler remembers once it has completed a message.
LEMMA Pushed ==
  ASSUME NEW re \in Reassembler, Len(re.completed) <= Recent, NEW key \in Key
  PROVE  LET c == Completed(re, key).re.completed
         IN /\ Len(c) \in Nat /\ Len(c) >= 1 /\ c[Len(c)] = key
            /\ \A i \in 1..Len(re.completed) :
                 Len(re.completed) - i + 1 < Recent =>
                   \E j \in 1..Len(c) :
                     c[j] = re.completed[i] /\ Len(c) - j = Len(re.completed) - i + 1
<1> DEFINE s == re.completed
           o == Append(s, key)
           n == Len(s)
           c == Completed(re, key).re.completed
<1>1. s \in Seq(Key) /\ n \in Nat /\ n <= Recent /\ Recent \in Nat /\ Recent >= 1
  BY AgentLinkAssumption DEF Reassembler
<1>2. c = IF Len(o) <= Recent THEN o ELSE Tail(o)
  BY DEF Completed
<1> HIDE DEF s, c
<1>3. o \in Seq(Key) /\ Len(o) = n + 1 /\ o[n + 1] = key /\ \A i \in 1..n : o[i] = s[i]
  BY <1>1
<1> HIDE DEF o, n
<1>4. /\ Len(c) \in Nat /\ Len(c) >= 1 /\ c[Len(c)] = key
      /\ \A i \in 1..n : n - i + 1 < Recent =>
           \E j \in 1..Len(c) : c[j] = s[i] /\ Len(c) - j = n - i + 1
  <2>1. CASE Len(o) <= Recent
    <3>1. c = o
      BY <1>2, <2>1
    <3>2. ASSUME NEW i \in 1..n
          PROVE  \E j \in 1..Len(c) : c[j] = s[i] /\ Len(c) - j = n - i + 1
      <4>1. i \in 1..Len(c) /\ c[i] = s[i] /\ Len(c) - i = n - i + 1
        BY <1>1, <1>3, <3>1
      <4> QED BY <4>1
    <3>3. Len(c) = n + 1 /\ c[n + 1] = key
      BY <1>3, <3>1
    <3>4. Len(c) \in Nat /\ Len(c) >= 1 /\ c[Len(c)] = key
      BY <1>1, <3>3
    <3> QED BY <3>2, <3>4
  <2>2. CASE ~(Len(o) <= Recent)
    <3>1. c = Tail(o) /\ n = Recent
      BY <1>1, <1>2, <1>3, <2>2
    <3>2. Len(c) = n /\ \A j \in 1..n : c[j] = o[j + 1]
      BY <1>1, <1>3, <3>1
    <3>3. n \in 1..n
      BY <1>1, <3>1
    <3>4. c[n] = key
      BY <1>3, <3>2, <3>3
    <3>5. ASSUME NEW i \in 1..n, n - i + 1 < Recent
          PROVE  \E j \in 1..Len(c) : c[j] = s[i] /\ Len(c) - j = n - i + 1
      <4>1. i - 1 \in 1..n /\ (i - 1) + 1 = i
        BY <1>1, <3>1, <3>5
      <4>2. c[i - 1] = s[i]
        BY <1>3, <3>2, <4>1
      <4>3. Len(c) - (i - 1) = n - i + 1
        BY <1>1, <3>2
      <4> QED BY <3>2, <4>1, <4>2, <4>3
    <3> QED BY <1>1, <3>1, <3>2, <3>4, <3>5
  <2> QED BY <2>1, <2>2
<1> QED BY <1>4 DEF s, c, n

\* A chunk completes its message: only that message is no longer to be read, and
\* what may come once more is remembered.
LEMMA Done ==
  ASSUME MaxOdd <= Recent,
         NEW p \in Page, PageOK(p), NEW q, NEW l \in Link, Len(l.re.completed) <= Recent, NEW m,
         NEW o \in Nat, NEW u \in Nat, o <= MaxOdd,
         NEW f, Flight(p, l, o), Arrives(p, q, l, o, u, f), KeyOf(f) \notin Known(l),
         f.idx = f.total, f.total = Slices(f.msg), m.re = Completed(l.re, KeyOf(f)).re
  PROVE  /\ EventsOrdered(q) /\ Assembled(q, m) /\ Remembered(q, m, u) /\ HeadOnly(q, m)
         /\ Due(q, m) = {g \in Due(p, l) : KeyOf(g) # KeyOf(f)}
         /\ \A g \in Own(q) : KeyOf(g) \in Known(l) \/ KeyOf(g) = KeyOf(f) => KeyOf(g) \in Known(m)
<1> DEFINE key == KeyOf(f)
           s == l.re.completed
           c == m.re.completed
<1>1. /\ f \in Chunk /\ f.doc \in Nat /\ f.id \in Nat /\ f.idx \in Nat /\ key \in Key
      /\ l.re \in Reassembler /\ s \in Seq(Key) /\ MaxOdd \in Nat
  BY LinkFields, ChunkFields, AgentLinkAssumption DEF Arrives, Key, KeyOf
<1>2. Own(q) \subseteq Own(p) /\ Own(p) \subseteq Own(q) \cup {f} /\ q.doc = p.doc
      /\ q.events = p.events
  BY DEF Arrives
<1>3. \A g, h : KeyOf(g) = KeyOf(h) <=> g.doc = h.doc /\ g.id = h.id
  BY DEF KeyOf
<1>4. EventsOrdered(p) /\ Assembled(p, l) /\ Remembered(p, l, o) /\ HeadOnly(p, l)
      /\ Accepted(p, l)
  BY DEF Flight
<1>5. /\ Len(c) \in Nat /\ Len(c) >= 1 /\ c[Len(c)] = key
      /\ \A i \in 1..Len(s) :
           Len(s) - i + 1 < Recent =>
             \E j \in 1..Len(c) : c[j] = s[i] /\ Len(c) - j = Len(s) - i + 1
  <2>1. l.re \in Reassembler /\ Len(l.re.completed) <= Recent /\ key \in Key
    BY <1>1
  <2> DEFINE x == Completed(l.re, key).re.completed
  <2>2. /\ Len(x) \in Nat /\ Len(x) >= 1 /\ x[Len(x)] = key
        /\ \A i \in 1..Len(l.re.completed) :
             Len(l.re.completed) - i + 1 < Recent =>
               \E j \in 1..Len(x) :
                 x[j] = l.re.completed[i] /\ Len(x) - j = Len(l.re.completed) - i + 1
    <3> HIDE DEF key
    <3> QED BY <2>1, Pushed
  <2>3. c = x
    OBVIOUS
  <2> HIDE DEF key, x
  <2> QED BY <2>2, <2>3
<1>6. Known(m) \subseteq Known(l) \cup {key} /\ key \in Known(m)
      /\ m.re.partial = {r \in l.re.partial : r.key # key}
  <2>1. /\ m.re \in Reassembler /\ Range(c) \subseteq Range(s) \cup {key}
        /\ m.re.partial = {r \in l.re.partial : r.key # key}
    <3>1. l.re \in Reassembler /\ Len(l.re.completed) <= Recent /\ key \in Key
      BY <1>1
    <3> DEFINE x == Completed(l.re, key).re
    <3>2. /\ x \in Reassembler /\ Range(x.completed) \subseteq Range(l.re.completed) \cup {key}
          /\ x.partial = {r \in l.re.partial : r.key # key}
      <4> HIDE DEF key
      <4> QED BY <3>1, CompletedFacts
    <3>3. m.re = x
      OBVIOUS
    <3> HIDE DEF key, x
    <3> QED BY <3>2, <3>3
  <2>2. c \in Seq(Key)
    BY <2>1 DEF Reassembler
  <2>3. Len(c) \in 1..Len(c)
    BY <1>5
  <2>4. key \in Range(c)
    BY <1>5, <2>2, <2>3, RangeIs
  <2> QED BY <2>1, <2>4 DEF Known
<1>7. \A i \in 1..Len(c) : c[i] \in Known(m)
  <2>1. m.re \in Reassembler
    BY <1>1, CompletedFacts
  <2>2. c \in Seq(Key)
    BY <2>1 DEF Reassembler
  <2> QED BY <2>2, RangeIs DEF Known
<1> HIDE DEF s, c
\* the message's chunks that are still on their way
<1>8. ASSUME NEW g \in Own(q), KeyOf(g) = key
      PROVE  g = f /\ q = p /\ u < o /\ p.wire # <<>> /\ f = Head(p.wire)
  <2>1. g \in Own(p) /\ g.doc = f.doc /\ g.id = f.id /\ f.doc # Child
    BY <1>2, <1>3, <1>8 DEF Own
  <2>2. ~(f.id = 0 /\ f.doc \in l.seen)
    BY <1>4, <1>8, <2>1 DEF Accepted
  <2>3. ASSUME f \in Own(p) PROVE ~Before(f, g)
    <3>1. f.msg = g.msg
      BY <1>4, <2>1, <2>3 DEF EventsOrdered
    <3>2. g.idx <= g.total /\ g.total = Slices(g.msg) /\ g.idx \in Nat
      BY <2>1, OwnFields
    <3>3. g.idx <= f.idx
      BY <3>1, <3>2
    <3> QED BY <1>1, <2>1, <3>2, <3>3 DEF Before
  <2> QED BY <1>8, <2>1, <2>2, <2>3 DEF Arrives
\* the known ones
<1>9. ASSUME NEW g \in Own(q), KeyOf(g) \in Known(l)
      PROVE  /\ q = p /\ u < o /\ p.wire # <<>> /\ g = Head(p.wire)
             /\ \E j \in 1..Len(c) : c[j] = KeyOf(g) /\ Len(c) - j < MaxOdd - u
  <2>1. g \in Own(p) /\ p.wire # <<>> /\ g = Head(p.wire) /\ g # f
    BY <1>2, <1>4, <1>9 DEF HeadOnly
  <2>2. q = p /\ u < o
    BY <2>1 DEF Arrives
  <2>3. PICK i \in 1..Len(s) : s[i] = KeyOf(g) /\ Len(s) - i < MaxOdd - o
    BY <1>4, <1>9, <2>1 DEF Remembered, s
  <2>4. Len(s) \in Nat
    BY <1>1
  <2>5. Len(s) - i + 1 < Recent /\ Len(s) - i + 1 < MaxOdd - u
    BY <1>1, <2>2, <2>3, <2>4, AgentLinkAssumption
  <2>6. PICK j \in 1..Len(c) : c[j] = s[i] /\ Len(c) - j = Len(s) - i + 1
    BY <1>5, <2>5
  <2> QED BY <2>1, <2>2, <2>3, <2>5, <2>6
<1>10. \A g \in Own(q) : KeyOf(g) \in Known(l) \/ KeyOf(g) = key => KeyOf(g) \in Known(m)
  BY <1>6, <1>7, <1>9
<1>11. Remembered(q, m, u)
  <2> SUFFICES ASSUME NEW g \in Own(q), KeyOf(g) \in Known(m)
               PROVE  \E j \in 1..Len(c) : c[j] = KeyOf(g) /\ Len(c) - j < MaxOdd - u
    BY DEF Remembered, c
  <2>1. CASE KeyOf(g) = key
    <3>1. u < o
      BY <1>8, <2>1
    <3>2. Len(c) \in 1..Len(c) /\ Len(c) - Len(c) < MaxOdd - u
      BY <1>1, <1>5, <3>1
    <3> QED BY <1>5, <2>1, <3>2
  <2>2. CASE KeyOf(g) \in Known(l)
    BY <1>9, <2>2
  <2> QED BY <1>6, <2>1, <2>2
<1>12. HeadOnly(q, m)
  <2> SUFFICES ASSUME NEW g \in Own(q), KeyOf(g) \in Known(m)
               PROVE  q.wire # <<>> /\ g = Head(q.wire)
    BY DEF HeadOnly
  <2> QED BY <1>6, <1>8, <1>9
<1>13. Due(q, m) = {g \in Due(p, l) : KeyOf(g) # key}
  <2>1. ASSUME NEW g \in Due(q, m) PROVE g \in Due(p, l) /\ KeyOf(g) # key
    BY <1>2, <1>10, <2>1 DEF Due
  <2>2. ASSUME NEW g \in Due(p, l), KeyOf(g) # key PROVE g \in Due(q, m)
    <3>1. g \in Own(q) /\ KeyOf(g) \notin Known(m)
      BY <1>2, <1>6, <2>2 DEF Due
    <3> QED BY <2>2, <3>1 DEF Due
  <2> QED BY <2>1, <2>2
<1>14. Assembled(q, m)
  <2> SUFFICES ASSUME NEW g \in Own(q), g.idx = 2, KeyOf(g) \notin Known(m)
               PROVE  \/ \E e \in Own(q) : e.doc = g.doc /\ e.id = g.id /\ e.idx = 1
                      \/ \E r \in m.re.partial : r.key = KeyOf(g) /\ 1 \in r.idx
    BY DEF Assembled
  <2>1. g \in Own(p) /\ KeyOf(g) \notin Known(l) /\ KeyOf(g) # key
    BY <1>2, <1>10
  <2>2. ASSUME NEW e \in Own(p), e.doc = g.doc, e.id = g.id
        PROVE  e \in Own(q)
    BY <1>2, <1>3, <2>1, <2>2
  <2>3. \/ \E e \in Own(p) : e.doc = g.doc /\ e.id = g.id /\ e.idx = 1
        \/ \E r \in l.re.partial : r.key = KeyOf(g) /\ 1 \in r.idx
    BY <1>4, <2>1 DEF Assembled
  <2> QED BY <1>6, <2>1, <2>2, <2>3
<1>15. EventsOrdered(q)
  BY <1>2, <1>4, OrderedFewer
<1> QED BY <1>10, <1>11, <1>12, <1>13, <1>14, <1>15

\* Nothing of the document that is to be read is lost.
LEMMA StillOwed ==
  ASSUME NEW p, NEW q, NEW l, NEW m, NEW f, NEW d, NEW n,
         Due(q, m) = {g \in Due(p, l) : KeyOf(g) # KeyOf(f)}, Owed(p, l, d, n)
  PROVE  \/ Owed(q, m, d, n)
         \/ ReadUpTo(l, d, n)
         \/ \E g \in Due(p, l) : KeyOf(g) = KeyOf(f) /\ g.doc = d /\ g.msg.n = n
BY DEF Owed

\* The message is none of those that are read: an answer, or a hello that is refused.
LEMMA DoneUnread ==
  ASSUME NEW p, NEW q, NEW l, NEW m, NEW o, NEW u, NEW f, Flight(p, l, o),
         EventsOrdered(q), Assembled(q, m), Remembered(q, m, u), HeadOnly(q, m),
         Due(q, m) = {g \in Due(p, l) : KeyOf(g) # KeyOf(f)},
         \A g \in Own(q) : KeyOf(g) \in Known(l) \/ KeyOf(g) = KeyOf(f) => KeyOf(g) \in Known(m),
         Own(q) \subseteq Own(p), q.doc = p.doc, q.events = p.events,
         m.docId = l.docId, m.seen = l.seen, m.stream = l.stream,
         \A g \in Due(p, l) : KeyOf(g) # KeyOf(f)
  PROVE  Flight(q, m, u)
<1>1. Due(q, m) = Due(p, l)
  OBVIOUS
<1>2. Unbroken(q, m)
  BY <1>1 DEF Flight, Unbroken, Owed, ReadUpTo
<1>3. Accepted(q, m)
  BY DEF Flight, Accepted
<1> QED BY <1>2, <1>3 DEF Flight

\* The message is an event of the link's document: the one before it has been read.
LEMMA DoneEvent ==
  ASSUME NEW p \in Page, PageOK(p), NEW q, NEW l, NEW m, NEW o, NEW u, NEW f,
         Flight(p, l, o), Arrives(p, q, l, o, u, f),
         EventsOrdered(q), Assembled(q, m), Remembered(q, m, u), HeadOnly(q, m),
         Due(q, m) = {g \in Due(p, l) : KeyOf(g) # KeyOf(f)},
         \A g \in Own(q) : KeyOf(g) \in Known(l) \/ KeyOf(g) = KeyOf(f) => KeyOf(g) \in Known(m),
         f \in Due(p, l), f.id # 0, f.doc = l.docId,
         m.docId = l.docId, m.seen = l.seen, m.stream[Len(m.stream)] = f.msg
  PROVE  Flight(q, m, u) /\ ReadUpTo(l, f.doc, f.msg.n - 1)
<1>1. f \in Own(p) /\ Heard(f)
  BY DEF Due
<1>2. /\ f.doc \in Nat /\ f.id \in Nat /\ f.idx \in Nat /\ f.msg.n \in Nat /\ f.doc # Child
      /\ p.events \in Nat
  BY <1>1, OwnFields, PageFields
<1>3. \A g, h : KeyOf(g) = KeyOf(h) <=> g.doc = h.doc /\ g.id = h.id
  BY DEF KeyOf
<1>4. EventsOrdered(p) /\ Unbroken(p, l) /\ Accepted(p, l)
  BY DEF Flight
<1>5. Own(q) \subseteq Own(p) /\ Own(p) \subseteq Own(q) \cup {f} /\ q.doc = p.doc
      /\ q.events = p.events /\ \A g \in Own(q) : g = f \/ Before(f, g)
  BY <1>2 DEF Arrives
\* nothing of the document that is to be read comes before it
<1>6. ASSUME NEW g \in Due(p, l), g.doc = f.doc
      PROVE  /\ g.msg.n \in Nat /\ g.msg.n >= f.msg.n
             /\ KeyOf(g) = KeyOf(f) => g.msg = f.msg
             /\ KeyOf(g) # KeyOf(f) => g.msg.n > f.msg.n
  <2>1. g \in Own(p) /\ Heard(g) /\ (g = f \/ Before(f, g))
    BY <1>5 DEF Due
  <2>2. g.doc \in Nat /\ g.id \in Nat /\ g.msg.n \in Nat
    BY <2>1, OwnFields
  <2>3. CASE g.id = f.id
    <3>1. g.msg = f.msg /\ KeyOf(g) = KeyOf(f)
      BY <1>1, <1>3, <1>4, <1>6, <2>1, <2>3 DEF EventsOrdered
    <3> QED BY <1>2, <2>2, <3>1
  <2>4. CASE g.id # f.id
    <3>1. f.id < g.id
      BY <1>2, <1>6, <2>1, <2>2, <2>4 DEF Before
    <3>2. f.msg.n < g.msg.n
      BY <1>1, <1>4, <1>6, <2>1, <3>1 DEF EventsOrdered
    <3>3. KeyOf(g) # KeyOf(f)
      BY <1>3, <2>4
    <3> QED BY <1>2, <2>2, <3>2, <3>3
  <2> QED BY <2>3, <2>4
<1>7. ReadUpTo(l, f.doc, f.msg.n - 1)
  <2>1. Owed(p, l, f.doc, f.msg.n - 1)
    BY <1>4 DEF Unbroken
  <2>2. \A g \in Due(p, l) : g.doc = f.doc => g.msg.n # f.msg.n - 1
    BY <1>2, <1>6
  <2> QED BY <2>1, <2>2 DEF Owed
<1>8. ReadUpTo(m, f.doc, f.msg.n)
  BY DEF ReadUpTo
\* what is owed is owed still, but for the event before, which has been read
<1>9. ASSUME NEW d, NEW n, Owed(p, l, d, n), d # f.doc \/ n # f.msg.n - 1
      PROVE  Owed(q, m, d, n)
  <2>1. ~ReadUpTo(l, d, n)
    BY <1>7, <1>9 DEF ReadUpTo
  <2>2. CASE \E g \in Due(p, l) : KeyOf(g) = KeyOf(f) /\ g.doc = d /\ g.msg.n = n
    <3>1. PICK g \in Due(p, l) : KeyOf(g) = KeyOf(f) /\ g.doc = d /\ g.msg.n = n
      BY <2>2
    <3>2. g.doc = f.doc
      BY <1>3, <3>1
    <3>3. g.msg = f.msg
      BY <1>6, <3>1, <3>2
    <3> QED BY <1>8, <3>1, <3>2, <3>3 DEF Owed
  <2>3. \/ Owed(q, m, d, n) \/ ReadUpTo(l, d, n)
        \/ \E g \in Due(p, l) : KeyOf(g) = KeyOf(f) /\ g.doc = d /\ g.msg.n = n
    <3>1. Owed(p, l, d, n)
      BY <1>9
    <3> QED BY <3>1, StillOwed
  <2> QED BY <2>1, <2>2, <2>3
<1>10. Unbroken(q, m)
  <2>1. ASSUME NEW g \in Due(q, m), g.id # 0 PROVE Owed(q, m, g.doc, g.msg.n - 1)
    <3>1. g \in Due(p, l) /\ KeyOf(g) # KeyOf(f)
      OBVIOUS
    <3>2. Owed(p, l, g.doc, g.msg.n - 1)
      BY <1>4, <2>1, <3>1 DEF Unbroken
    <3>3. g.doc # f.doc \/ g.msg.n - 1 # f.msg.n - 1
      BY <1>2, <1>6, <3>1
    <3> QED BY <1>9, <3>2, <3>3
  <2>2. Owed(q, m, q.doc, q.events)
    <3>1. Owed(p, l, p.doc, p.events)
      BY <1>4 DEF Unbroken
    <3>2. p.doc # f.doc \/ p.events # f.msg.n - 1
      <4>1. f.doc = p.doc => f.msg.n <= p.events
        BY <1>1, <1>4 DEF EventsOrdered
      <4> QED BY <1>2, <4>1
    <3> QED BY <1>5, <1>9, <3>1, <3>2
  <2> QED BY <2>1, <2>2 DEF Unbroken
<1>11. Accepted(q, m)
  BY <1>4, <1>5 DEF Accepted
<1> QED BY <1>7, <1>10, <1>11 DEF Flight

\* The message is the hello of a document that the link has not followed yet.
LEMMA DoneHello ==
  ASSUME NEW p \in Page, PageOK(p), NEW q, NEW l \in Link, NEW m, NEW o, NEW u, NEW f,
         Flight(p, l, o), Arrives(p, q, l, o, u, f),
         EventsOrdered(q), Assembled(q, m), Remembered(q, m, u), HeadOnly(q, m),
         Due(q, m) = {g \in Due(p, l) : KeyOf(g) # KeyOf(f)},
         \A g \in Own(q) : KeyOf(g) \in Known(l) \/ KeyOf(g) = KeyOf(f) => KeyOf(g) \in Known(m),
         f.id = 0, f.doc \notin l.seen, f.doc # Child, f.doc > l.docId, f.msg.n = 0,
         m.docId = f.doc, m.seen = l.seen \cup {f.doc}, m.stream[Len(m.stream)] = f.msg
  PROVE  Flight(q, m, u)
<1>1. /\ f \in Own(p) /\ Own(q) \subseteq Own(p) /\ Own(p) \subseteq Own(q) \cup {f}
      /\ q.doc = p.doc /\ q.events = p.events /\ \A g \in Own(q) : g = f \/ Before(f, g)
  BY DEF Arrives
<1>2. f.doc \in Nat /\ f.doc <= p.doc /\ p.doc \in Nat /\ l.docId \in Nat
  BY <1>1, OwnFields, PageFields, LinkFields
<1>3. \A g, h : KeyOf(g) = KeyOf(h) <=> g.doc = h.doc /\ g.id = h.id
  BY DEF KeyOf
<1>4. EventsOrdered(p) /\ Unbroken(p, l) /\ Accepted(p, l)
  BY DEF Flight
<1>5. ReadUpTo(m, f.doc, 0)
  BY DEF ReadUpTo
\* nothing is owed of the document before
<1>6. ASSUME NEW d, NEW n, Owed(p, l, d, n), d # l.docId
      PROVE  Owed(q, m, d, n)
  <2>1. ~ReadUpTo(l, d, n)
    BY <1>6 DEF ReadUpTo
  <2>2. CASE \E g \in Due(p, l) : KeyOf(g) = KeyOf(f) /\ g.doc = d /\ g.msg.n = n
    <3>1. PICK g \in Due(p, l) : KeyOf(g) = KeyOf(f) /\ g.doc = d /\ g.msg.n = n
      BY <2>2
    <3>2. g.doc = f.doc /\ g.id = f.id /\ g \in Own(p)
      BY <1>3, <3>1 DEF Due
    <3>3. g.msg = f.msg
      BY <1>1, <1>4, <3>2 DEF EventsOrdered
    <3> QED BY <1>5, <3>1, <3>2, <3>3 DEF Owed
  <2>3. \/ Owed(q, m, d, n) \/ ReadUpTo(l, d, n)
        \/ \E g \in Due(p, l) : KeyOf(g) = KeyOf(f) /\ g.doc = d /\ g.msg.n = n
    <3>1. Owed(p, l, d, n)
      BY <1>6
    <3> QED BY <3>1, StillOwed
  <2> QED BY <2>1, <2>2, <2>3
<1>7. Unbroken(q, m)
  <2>1. ASSUME NEW g \in Due(q, m), g.id # 0 PROVE Owed(q, m, g.doc, g.msg.n - 1)
    <3>1. g \in Due(p, l) /\ g \in Own(q) /\ g # f
      BY <2>1 DEF Due
    <3>2. Owed(p, l, g.doc, g.msg.n - 1)
      BY <1>4, <2>1, <3>1 DEF Unbroken
    <3>3. g.doc \in Nat /\ Before(f, g)
      BY <1>1, <3>1, OwnFields
    <3>4. g.doc # l.docId
      BY <1>2, <3>3 DEF Before
    <3> QED BY <1>6, <3>2, <3>4
  <2>2. Owed(q, m, q.doc, q.events)
    <3>1. Owed(p, l, p.doc, p.events) /\ p.doc # l.docId
      BY <1>2, <1>4 DEF Unbroken
    <3> QED BY <1>1, <1>6, <3>1
  <2> QED BY <2>1, <2>2 DEF Unbroken
<1>8. Accepted(q, m)
  <2> SUFFICES ASSUME NEW g \in Own(q), g.id = 0, g.doc \in l.seen \cup {f.doc}
               PROVE  KeyOf(g) \in Known(m)
    BY DEF Accepted
  <2>1. CASE g.doc = f.doc
    BY <1>3, <2>1
  <2>2. CASE g.doc \in l.seen
    BY <1>1, <1>4, <2>2 DEF Accepted
  <2> QED BY <2>1, <2>2
<1> QED BY <1>7, <1>8 DEF Flight

\* What the link has read once it has received a chunk.
LEMMA ChunkReads ==
  ASSUME IInv, link.attached, NEW f, Takes(f), f.k = "chunk", ReceiveChunk(f)
  PROVE  /\ link'.re = Add(link.re, f).re /\ link'.attached = link.attached
         /\ \/ /\ \/ ~Add(link.re, f).done
                  \/ Add(link.re, f).done /\ f.msg.k = "cmdres"
                  \/ Add(link.re, f).done /\ f.msg.k = "hello" /\ ~AcceptsHello(link, f.msg)
               /\ link'.docId = link.docId /\ link'.seen = link.seen
               /\ link'.stream = link.stream
            \/ /\ Add(link.re, f).done /\ f.msg.k = "hello" /\ AcceptsHello(link, f.msg)
               /\ link'.docId = f.doc /\ link'.seen = link.seen \cup {f.doc}
               /\ link'.stream = Append(link.stream, f.msg)
            \/ /\ Add(link.re, f).done /\ f.msg.k = "rrweb"
               /\ link'.docId = link.docId /\ link'.seen = link.seen
               /\ link'.stream = Append(link.stream, f.msg)
<1> DEFINE r == Add(link.re, f)
           l == [link EXCEPT !.re = r.re]
           hit == {p \in l.pending : f.doc = l.docId /\ p.req = f.msg.n /\ p.docId = l.docId}
<1>1. r.re \in Reassembler
  BY AddFacts
<1>2. /\ link \in Link /\ f \in Chunk /\ f.msg.doc = f.doc /\ f.msg \in Message
      /\ f.msg.k \in {"hello", "rrweb", "cmdres"} /\ (f.id # 0 => f.doc = link.docId)
      /\ (f.id = 0 <=> f.msg.k = "hello")
  BY PageTypes, TakenChunk, MessageFields
<1>3. /\ ~r.done => link' = l
      /\ r.done /\ f.msg.k = "hello" => ReceiveHello(l, f)
      /\ r.done /\ f.msg.k = "rrweb" => link' = Streamed(l, f)
      /\ r.done /\ f.msg.k = "cmdres" => link' = [l EXCEPT !.pending = @ \ hit]
  BY <1>2 DEF ReceiveChunk, ReceiveResult
<1>4. r.done \in BOOLEAN
  BY DEF Add, Incomplete, Completed
<1> HIDE DEF r
<1>5. /\ l \in Link /\ l.re = r.re /\ l.attached = link.attached /\ l.docId = link.docId
      /\ l.seen = link.seen /\ l.stream = link.stream
  <2>1. l \in Link
    BY <1>1, <1>2, Zenon DEF Link
  <2> QED BY <1>2, <2>1 DEF Link
<1> HIDE DEF l, hit
<1>6. CASE ~r.done
  BY <1>3, <1>5, <1>6 DEF r
<1>7. CASE r.done /\ f.msg.k = "cmdres"
  <2>1. link' = [l EXCEPT !.pending = @ \ hit]
    BY <1>3, <1>7
  <2>2. /\ link'.re = l.re /\ link'.attached = l.attached /\ link'.docId = l.docId
        /\ link'.seen = l.seen /\ link'.stream = l.stream
    BY <1>5, <2>1 DEF Link
  <2> QED BY <1>5, <1>7, <2>2 DEF r
<1>8. CASE r.done /\ f.msg.k = "rrweb"
  <2>1. link' = [l EXCEPT !.stream = Append(@, f.msg)]
    BY <1>2, <1>3, <1>5, <1>8 DEF Streamed
  <2>2. /\ link'.re = l.re /\ link'.attached = l.attached /\ link'.docId = l.docId
        /\ link'.seen = l.seen /\ link'.stream = Append(l.stream, f.msg)
    BY <1>5, <2>1 DEF Link
  <2> QED BY <1>5, <1>8, <2>2 DEF r
<1>9. CASE r.done /\ f.msg.k = "hello"
  <2> DEFINE a == Acquire(l, f)
             b == [a EXCEPT !.docId = f.msg.doc, !.seen = @ \cup {f.msg.doc},
                            !.stream = Append(@, f.msg)]
  <2>1. IF AcceptsHello(l, f.msg) THEN RejectPending(b) ELSE link' = a /\ UNCHANGED call
    BY <1>3, <1>9 DEF ReceiveHello
  <2>2. AcceptsHello(l, f.msg) <=> AcceptsHello(link, f.msg)
    BY <1>5 DEF AcceptsHello
  <2>3. l \in Link /\ f \in Chunk /\ f.msg.doc = f.doc
    BY <1>2, <1>5
  <2>4. /\ a \in Link /\ a.attached = l.attached /\ a.docId = l.docId /\ a.seen = l.seen
        /\ a.stream = l.stream /\ a.re = l.re
    BY <2>3, AcquireFacts
  <2> HIDE DEF a
  <2>5. CASE ~AcceptsHello(link, f.msg)
    BY <1>5, <1>9, <2>1, <2>2, <2>4, <2>5 DEF r
  <2>6. CASE AcceptsHello(link, f.msg)
    <3>1. link' = [b EXCEPT !.pending = {}]
      BY <2>1, <2>2, <2>6 DEF RejectPending
    <3>2. /\ link'.re = a.re /\ link'.attached = a.attached /\ link'.docId = f.msg.doc
          /\ link'.seen = a.seen \cup {f.msg.doc} /\ link'.stream = Append(a.stream, f.msg)
      BY <2>4, <3>1 DEF Link
    <3> QED BY <1>2, <1>5, <1>9, <2>4, <2>6, <3>2 DEF r
  <2> QED BY <2>5, <2>6
<1> QED BY <1>2, <1>4, <1>6, <1>7, <1>8, <1>9

\* The stream goes on.
InOrder(s) ==
  /\ s # <<>> => s[1].n = 0
  /\ \A i \in 1..(Len(s) - 1) :
       \/ s[i + 1].doc = s[i].doc /\ s[i + 1].n = s[i].n + 1
       \/ s[i + 1].doc > s[i].doc /\ s[i + 1].n = 0

LEMMA GoesOn ==
  ASSUME NEW s \in Seq(Message), NEW x \in Message, InOrder(s), s = <<>> => x.n = 0,
         s # <<>> => \/ x.doc = s[Len(s)].doc /\ x.n = s[Len(s)].n + 1
                     \/ x.doc > s[Len(s)].doc /\ x.n = 0
  PROVE  LET t == Append(s, x)
         IN InOrder(t) /\ t # <<>> /\ t[Len(t)] = x
<1> DEFINE t == Append(s, x)
           n == Len(s)
<1>1. n \in Nat /\ Len(t) = n + 1 /\ t[n + 1] = x /\ (s = <<>> <=> n = 0)
  OBVIOUS
<1>2. \A i \in 1..n : t[i] = s[i]
  BY AppendAt, Zenon
<1> HIDE DEF t
<1>3. t # <<>>
  BY <1>1 DEF t
<1>4. t[1].n = 0
  <2>1. CASE n = 0
    BY <1>1, <2>1
  <2>2. CASE n # 0
    <3>1. 1 \in 1..n /\ s # <<>>
      BY <1>1, <2>2
    <3> QED BY <1>2, <3>1 DEF InOrder
  <2> QED BY <2>1, <2>2
<1>5. ASSUME NEW i \in 1..(Len(t) - 1)
      PROVE  \/ t[i + 1].doc = t[i].doc /\ t[i + 1].n = t[i].n + 1
             \/ t[i + 1].doc > t[i].doc /\ t[i + 1].n = 0
  <2>1. i \in 1..n /\ i \in Nat
    BY <1>1, <1>5
  <2>2. t[i] = s[i]
    BY <1>2, <2>1
  <2>3. CASE i = n
    <3>1. s # <<>> /\ t[i + 1] = x
      BY <1>1, <2>1, <2>3
    <3> QED BY <2>2, <2>3, <3>1
  <2>4. CASE i # n
    <3>1. i + 1 \in 1..n /\ i \in 1..(n - 1)
      BY <1>1, <2>1, <2>4
    <3>2. t[i + 1] = s[i + 1]
      BY <1>2, <3>1
    <3>3. \/ s[i + 1].doc = s[i].doc /\ s[i + 1].n = s[i].n + 1
          \/ s[i + 1].doc > s[i].doc /\ s[i + 1].n = 0
      BY <3>1 DEF InOrder
    <3> QED BY <2>2, <3>2, <3>3
  <2> QED BY <2>3, <2>4
<1> QED BY <1>1, <1>3, <1>4, <1>5 DEF InOrder, t

LEMMA ChunkRead ==
  ASSUME MaxOdd <= Recent, IInv, SInv, link.attached, NEW f, Takes(f), f.k = "chunk",
         left'.odd \in Nat, Arrives(page, page', link, left.odd, left'.odd, f), ReceiveChunk(f)
  PROVE  SInv'
<1> DEFINE p == page
           l == link
           o == left.odd
           q == page'
           m == link'
           u == left'.odd
           r == Add(l.re, f)
<1>1. /\ p \in Page /\ PageOK(p) /\ l \in Link /\ o \in Nat /\ u \in Nat /\ Flight(p, l, o)
      /\ Arrives(p, q, l, o, u, f)
  BY StreamFacts
<1>2. /\ f \in Chunk /\ f.doc \in Nat /\ f.doc # 0 /\ f.id \in Nat /\ f.idx \in 1..f.total
      /\ f.total \in {1, 2} /\ f.total = Slices(f.msg) /\ f.msg \in Message
      /\ f.msg.doc = f.doc /\ (f.id = 0 <=> f.msg.k = "hello") /\ (f.doc = Child => f.id = 0)
      /\ f.msg.k = "hello" => f.msg = Hello(f.doc)
      /\ f.id # 0 => f.doc = l.docId
  BY TakenChunk
<1>3. \/ ~r.done /\ r.re = l.re /\ KeyOf(f) \in Known(l)
      \/ ~r.done /\ Grows(f, r.re)
      \/ r.done /\ Completes(f, r.re)
  BY AddFacts DEF KeyOf, Known
<1>4. /\ m.re = r.re /\ m.attached = l.attached
      /\ \/ /\ \/ ~r.done
               \/ r.done /\ f.msg.k = "cmdres"
               \/ r.done /\ f.msg.k = "hello" /\ ~AcceptsHello(l, f.msg)
            /\ m.docId = l.docId /\ m.seen = l.seen /\ m.stream = l.stream
         \/ /\ r.done /\ f.msg.k = "hello" /\ AcceptsHello(l, f.msg)
            /\ m.docId = f.doc /\ m.seen = l.seen \cup {f.doc} /\ m.stream = Append(l.stream, f.msg)
         \/ /\ r.done /\ f.msg.k = "rrweb"
            /\ m.docId = l.docId /\ m.seen = l.seen /\ m.stream = Append(l.stream, f.msg)
  BY ChunkReads
<1>5. r.done => r.re = Completed(l.re, KeyOf(f)).re
  BY DEF Add, Incomplete, KeyOf
<1>6. /\ o <= MaxOdd /\ Len(l.re.completed) <= Recent /\ l.docId \in Nat
      /\ l.stream \in Seq(Message) /\ \A d \in l.seen : d <= l.docId
      /\ l.docId # 0 => l.docId \in l.seen
  BY <1>1, LinkFields, AgentLinkAssumption DEF IInv, Types, DocumentsOK, None
<1>7. InOrder(l.stream) /\ ReadOK(l)
  BY DEF SInv, StreamFaithful, InOrder
<1>8. q.doc = p.doc /\ q.events = p.events /\ Own(q) \subseteq Own(p)
  BY <1>1 DEF Arrives
<1>9. /\ f.doc > l.docId \/ f.doc # m.docId \/ f.doc \in l.seen \/ f.doc = Child
      /\ f.doc \notin l.seen /\ f.doc # Child => f \in Own(p)
  <2>1. f.doc \notin l.seen /\ f.doc # Child =>
          f \in Own(page) /\ \A g \in Own(page') : g = f \/ Before(f, g)
    BY <1>2, <1>6, TakenChunk
  <2>2. ASSUME f.doc = link'.docId, f.doc \notin l.seen, f.doc # Child
        PROVE  f.doc > l.docId
    <3>1. f.doc # l.docId
      BY <1>2, <1>6, <2>2
    <3>2. f.doc > link.docId
      BY <2>1, <2>2, <3>1, HellosFollow
    <3> QED BY <3>2
  <2> QED BY <2>1, <2>2
<1>10. InOrder(m.stream) /\ ReadOK(m) /\ Flight(q, m, u) => SInv'
  BY <1>4 DEF SInv, StreamFaithful, InOrder
<1>11. r.done => /\ f.idx = f.total /\ KeyOf(f) \notin Known(l)
  BY <1>3 DEF Completes, KeyOf, Known
<1> DEFINE Grew == ~r.done /\ Grows(f, r.re)
<1>12. Grew => /\ KeyOf(f) \notin Known(l) /\ f.id # 0 /\ f.total = 2
               /\ r.re.completed = l.re.completed
               /\ \A x \in l.re.partial : \E s \in r.re.partial : s.key = x.key /\ x.idx \subseteq s.idx
               /\ \E s \in r.re.partial : s.key = KeyOf(f) /\ f.idx \in s.idx
               /\ f.idx = 2 => \A x \in l.re.partial : x.key = KeyOf(f) => 1 \notin x.idx
  BY DEF Grows, KeyOf, Known
<1>13. f \in Own(p) /\ r.done /\ f.msg.k = "rrweb" => f \in Due(p, l)
  BY <1>11 DEF Due, Heard
<1>14. f.msg.k = "rrweb" => f \in Own(p) /\ f.id # 0
  BY <1>1, <1>2 DEF Arrives
<1> HIDE DEF p, l, o, q, m, u, r
<1>15. CASE ~r.done /\ r.re = l.re /\ KeyOf(f) \in Known(l)
  <2>1. Flight(q, l, u)
    BY <1>1, <1>15, Ignored
  <2>2. /\ m.re = l.re /\ m.docId = l.docId /\ m.seen = l.seen /\ m.stream = l.stream
    BY <1>4, <1>15
  <2>3. HeadOnly(q, m) /\ u <= u /\ l.re.completed \in Seq(Key)
    BY <1>1, <2>1, <2>2, LinkFields DEF Flight, HeadOnly, Known
  <2>4. Flight(q, m, u)
    BY <1>1, <2>1, <2>2, <2>3, FlightSame
  <2> QED BY <1>7, <1>10, <2>2, <2>4 DEF ReadOK
<1>16. CASE Grew
  <2>1. /\ m.re.completed = l.re.completed /\ m.docId = l.docId /\ m.seen = l.seen
        /\ m.stream = l.stream
        /\ \A x \in l.re.partial : \E s \in m.re.partial : s.key = x.key /\ x.idx \subseteq s.idx
        /\ \E s \in m.re.partial : s.key = KeyOf(f) /\ f.idx \in s.idx
    BY <1>4, <1>12, <1>16
  <2>2. f.idx \in {1, 2}
    BY <1>2
  <2>3. Flight(q, m, u)
    BY <1>1, <1>12, <1>16, <2>1, <2>2, Grown
  <2> QED BY <1>7, <1>10, <2>1, <2>3 DEF ReadOK
<1>17. ASSUME r.done
       PROVE  /\ EventsOrdered(q) /\ Assembled(q, m) /\ Remembered(q, m, u) /\ HeadOnly(q, m)
              /\ Due(q, m) = {g \in Due(p, l) : KeyOf(g) # KeyOf(f)}
              /\ \A g \in Own(q) :
                   KeyOf(g) \in Known(l) \/ KeyOf(g) = KeyOf(f) => KeyOf(g) \in Known(m)
  <2>1. m.re = Completed(l.re, KeyOf(f)).re
    BY <1>4, <1>5, <1>17
  <2>2. f.idx = f.total /\ f.total = Slices(f.msg) /\ KeyOf(f) \notin Known(l)
    BY <1>2, <1>11, <1>17
  <2> QED BY <1>1, <1>6, <2>1, <2>2, Done
<1>18. CASE /\ r.done
            /\ f.msg.k = "cmdres" \/ (f.msg.k = "hello" /\ ~AcceptsHello(l, f.msg))
            /\ m.docId = l.docId /\ m.seen = l.seen /\ m.stream = l.stream
  <2>1. ASSUME NEW g \in Due(p, l) PROVE KeyOf(g) # KeyOf(f)
    <3> SUFFICES ASSUME KeyOf(g) = KeyOf(f) PROVE FALSE
      OBVIOUS
    <3>1. g \in Own(p) /\ g.doc = f.doc /\ g.id = f.id /\ Heard(g) /\ KeyOf(g) \notin Known(l)
      BY DEF Due, KeyOf
    <3>2. CASE f.msg.k = "cmdres"
      <4>1. f \in Own(p)
        BY <1>1, <1>2, <3>2 DEF Arrives
      <4>2. g.msg = f.msg
        BY <1>1, <3>1, <4>1 DEF Flight, EventsOrdered
      <4> QED BY <3>1, <3>2, <4>2 DEF Heard
    <3>3. CASE f.msg.k = "hello" /\ ~AcceptsHello(l, f.msg)
      <4>1. f.id = 0 /\ (f.doc \in l.seen \/ f.doc = Child)
        BY <1>2, <1>6, <3>3 DEF AcceptsHello
      <4>2. g.doc # Child
        BY <3>1 DEF Own
      <4> QED BY <1>1, <3>1, <4>1, <4>2 DEF Flight, Accepted
    <3> QED BY <1>18, <3>2, <3>3
  <2>2. Flight(q, m, u)
    <3>1. /\ EventsOrdered(q) /\ Assembled(q, m) /\ Remembered(q, m, u) /\ HeadOnly(q, m)
          /\ Due(q, m) = {g \in Due(p, l) : KeyOf(g) # KeyOf(f)}
      BY <1>17, <1>18
    <3>2. \A g \in Own(q) : KeyOf(g) \in Known(l) \/ KeyOf(g) = KeyOf(f) => KeyOf(g) \in Known(m)
      BY <1>17, <1>18
    <3>3. m.docId = l.docId /\ m.seen = l.seen /\ m.stream = l.stream
      BY <1>18
    <3>4. \A g \in Due(p, l) : KeyOf(g) # KeyOf(f)
      BY <2>1
    <3>5. Flight(p, l, o) /\ Own(q) \subseteq Own(p) /\ q.doc = p.doc /\ q.events = p.events
      BY <1>1, <1>8
    <3> QED BY <3>1, <3>2, <3>3, <3>4, <3>5, DoneUnread
  <2> QED BY <1>7, <1>10, <1>18, <2>2 DEF ReadOK
<1>19. CASE /\ r.done /\ f.msg.k = "rrweb"
            /\ m.docId = l.docId /\ m.seen = l.seen /\ m.stream = Append(l.stream, f.msg)
  <2>1. f \in Due(p, l) /\ f.id # 0 /\ f.doc = l.docId
    BY <1>2, <1>13, <1>14, <1>19
  <2>2. m.stream[Len(m.stream)] = f.msg
    BY <1>2, <1>6, <1>19
  <2>3. Flight(q, m, u) /\ ReadUpTo(l, f.doc, f.msg.n - 1)
    BY <1>1, <1>17, <1>19, <2>1, <2>2, DoneEvent
  <2>4. /\ l.stream # <<>> /\ l.stream[Len(l.stream)].doc = f.doc
        /\ l.stream[Len(l.stream)].n = f.msg.n - 1
    BY <1>2, <1>7, <2>1, <2>3 DEF ReadOK, ReadUpTo, None
  <2>5. f.msg.n = l.stream[Len(l.stream)].n + 1 /\ f.msg.doc = l.stream[Len(l.stream)].doc
    <3>1. f.msg.n \in Nat
      BY <1>2, MessageFields
    <3> QED BY <1>2, <2>4, <3>1
  <2>6. InOrder(m.stream) /\ m.stream # <<>>
    BY <1>2, <1>6, <1>7, <1>19, <2>4, <2>5, GoesOn
  <2>7. ReadOK(m)
    BY <1>2, <1>19, <2>1, <2>2, <2>6 DEF ReadOK, None
  <2> QED BY <1>10, <2>3, <2>6, <2>7
<1>20. CASE /\ r.done /\ f.msg.k = "hello" /\ AcceptsHello(l, f.msg)
            /\ m.docId = f.doc /\ m.seen = l.seen \cup {f.doc}
            /\ m.stream = Append(l.stream, f.msg)
  <2>1. f.doc \notin l.seen /\ f.doc # Child /\ f.id = 0
    BY <1>2, <1>20 DEF AcceptsHello
  <2>2. f.doc > l.docId
    BY <1>9, <1>20, <2>1
  <2>3. f.msg.n = 0
    BY <1>2, <1>20 DEF Hello
  <2>4. m.stream[Len(m.stream)] = f.msg
    BY <1>2, <1>6, <1>20
  <2>5. Flight(q, m, u)
    BY <1>1, <1>17, <1>20, <2>1, <2>2, <2>3, <2>4, DoneHello
  <2>6. l.stream # <<>> => f.msg.doc > l.stream[Len(l.stream)].doc
    BY <1>2, <1>7, <2>2 DEF ReadOK
  <2>7. InOrder(m.stream) /\ m.stream # <<>>
    BY <1>2, <1>6, <1>7, <1>20, <2>3, <2>6, GoesOn
  <2>8. ReadOK(m)
    BY <1>2, <1>20, <2>4, <2>7 DEF ReadOK, None
  <2> QED BY <1>10, <2>5, <2>7, <2>8
<1> QED BY <1>3, <1>4, <1>15, <1>16, <1>18, <1>19, <1>20

\* The chunks on the wire are in order: the first comes before all the others.
LEMMA HeadFirst ==
  ASSUME IInv, page.wire # <<>>, Head(page.wire).k = "chunk", Head(page.wire).doc # Child
  PROVE  /\ Head(page.wire) \in Own(page)
         /\ \A g \in Own(page) : g = Head(page.wire) \/ Before(Head(page.wire), g)
<1>1. page \in Page /\ PageOK(page) /\ page.wire \in Seq(Frame)
  BY PageTypes, PageFields
<1> DEFINE f == Head(page.wire)
<1>2. /\ f \in Range(page.wire) /\ f = page.wire[1] /\ f.k = "chunk" /\ f.doc # Child
      /\ Range(page.wire) = {f} \cup Range(Tail(page.wire))
  BY <1>1, RangeTail
<1> HIDE DEF f
<1>3. f \in Chunks(page.wire) /\ f \in Own(page)
  BY <1>2 DEF Chunks, InFlight, Own
<1>4. \A g \in Range(Tail(page.wire)) :
        f.k = "chunk" /\ f.doc # Child /\ g.k = "chunk" /\ g.doc # Child => Before(f, g)
  <2>1. Sorted(page.wire)
    BY <1>1 DEF PageOK
  <2> QED BY <1>1, <1>2, <2>1, SortedTail
<1>5. ASSUME NEW g \in Own(page) PROVE g = f \/ Before(f, g)
  <2>1. CASE g \in Chunks(page.wire)
    BY <1>2, <1>4, <1>5, <2>1 DEF Own, Chunks
  <2>2. CASE g \in Range(page.queue)
    BY <1>1, <1>2, <1>3, <1>5, <2>2 DEF PageOK, Own
  <2> QED BY <1>5, <2>1, <2>2 DEF Own, InFlight
<1> QED BY <1>3, <1>5 DEF f

\* ... and once it is taken none of them is that one.
LEMMA HeadGone ==
  ASSUME IInv, page.wire # <<>>, Head(page.wire).k = "chunk", Head(page.wire).doc # Child,
         AfterHead
  PROVE  \A g \in Own(page') : Before(Head(page.wire), g)
<1>1. page \in Page /\ PageOK(page) /\ page.wire \in Seq(Frame)
  BY PageTypes, PageFields
<1> DEFINE f == Head(page.wire)
           q == page'
<1>2. q.wire = Tail(page.wire) /\ q.queue = page.queue
  BY <1>1 DEF AfterHead, Page
<1>3. f \in Range(page.wire) /\ f = page.wire[1] /\ f.k = "chunk" /\ f.doc # Child
  BY <1>1, RangeTail
<1> HIDE DEF f, q
<1>4. \A g \in Range(q.wire) :
        f.k = "chunk" /\ f.doc # Child /\ g.k = "chunk" /\ g.doc # Child => Before(f, g)
  <2>1. Sorted(page.wire)
    BY <1>1 DEF PageOK
  <2> QED BY <1>1, <1>2, <1>3, <2>1, SortedTail
<1>5. ASSUME NEW g \in Own(q) PROVE Before(f, g)
  <2>1. CASE g \in Chunks(q.wire)
    BY <1>3, <1>4, <1>5, <2>1 DEF Own, Chunks
  <2>2. CASE g \in Range(page.queue)
    <3>1. f \in Chunks(page.wire) /\ g.doc # Child
      BY <1>3, <1>5 DEF Chunks, Own
    <3> QED BY <1>1, <1>3, <2>2, <3>1 DEF PageOK
  <2> QED BY <1>2, <1>5, <2>1, <2>2 DEF Own, InFlight
<1> QED BY <1>5 DEF f, q

\* A chunk that was taken, but for what tells how it came.
LEMMA Taken ==
  ASSUME IInv, SInv, link.attached, NEW f, Takes(f), f.k = "chunk"
  PROVE  /\ f \in Chunk /\ Own(page') \subseteq Own(page) /\ Own(page) \subseteq Own(page') \cup {f}
         /\ page'.doc = page.doc /\ left.odd \in Nat
  BY TakenChunk, StreamFacts DEF Takes

LEMMA ReceiveRead ==
  ASSUME MaxOdd <= Recent, IInv, SInv, Receive
  PROVE  SInv'
<1> DEFINE f == Head(page.wire)
<1>1. link.attached /\ page.wire # <<>> /\ Receives(f) /\ AfterHead /\ UNCHANGED left
  BY DEF Receive
<1>2. Takes(f)
  BY <1>1, TakesHead
<1>3. CASE f.k # "chunk"
  BY <1>3, OtherFrameRead
<1>4. CASE f.k = "chunk"
  <2>1. f.doc # Child => f \in Own(page) /\ \A g \in Own(page') : Before(f, g)
    BY <1>1, <1>4, HeadFirst, HeadGone
  <2>2. page'.events = page.events
    BY <1>1, PageTypes DEF AfterHead, Page
  <2>3. ReceiveChunk(f)
    BY <1>1, <1>4 DEF Receives
  <2>4. f = Head(page.wire)
    OBVIOUS
  <2> HIDE DEF f
  <2>5. /\ f \in Chunk /\ Own(page') \subseteq Own(page) /\ Own(page) \subseteq Own(page') \cup {f}
        /\ page'.doc = page.doc /\ left.odd \in Nat
    BY <1>1, <1>2, <1>4, Taken
  <2>6. Arrives(page, page', link, left.odd, left'.odd, f) /\ left'.odd \in Nat
    BY <1>1, <2>1, <2>2, <2>4, <2>5 DEF Arrives
  <2> QED BY <1>1, <1>2, <1>4, <2>3, <2>6, ChunkRead
<1> QED BY <1>3, <1>4

LEMMA ReceiveTwiceRead ==
  ASSUME MaxOdd <= Recent, IInv, SInv, ReceiveTwice
  PROVE  SInv'
<1> DEFINE f == Head(page.wire)
<1>1. /\ link.attached /\ page.wire # <<>> /\ f.k = "chunk" /\ Receives(f) /\ UNCHANGED page
      /\ Odd
  BY DEF ReceiveTwice
<1>2. Takes(f)
  BY <1>1, TakesAgain
<1>3. f.doc # Child => f \in Own(page) /\ \A g \in Own(page) : g = f \/ Before(f, g)
  BY <1>1, HeadFirst
<1>4. ReceiveChunk(f) /\ f = Head(page.wire)
  BY <1>1 DEF Receives
<1> HIDE DEF f
<1>5. /\ f \in Chunk /\ Own(page') \subseteq Own(page) /\ Own(page) \subseteq Own(page') \cup {f}
      /\ page'.doc = page.doc /\ left.odd \in Nat
  BY <1>1, <1>2, Taken
<1>6. left'.odd \in Nat /\ left'.odd < left.odd
  BY <1>1, OddOnce
<1>7. Arrives(page, page', link, left.odd, left'.odd, f)
  BY <1>1, <1>3, <1>4, <1>5, <1>6 DEF Arrives
<1> QED BY <1>1, <1>2, <1>4, <1>6, <1>7, ChunkRead

LEMMA LateHelloRead ==
  ASSUME MaxOdd <= Recent, IInv, SInv, LateHello
  PROVE  SInv'
<1>1. link.attached /\ Odd /\ UNCHANGED page
  BY DEF LateHello
<1>2. PICK key \in link.cleaned : Receives(EncodeChunks(key[1], 0, Hello(key[2]))[1])
  BY DEF LateHello
<1> DEFINE f == EncodeChunks(key[1], 0, Hello(key[2]))[1]
<1>3. Takes(f)
  BY <1>1, TakesLate
<1>4. key[1] \in Nat /\ key[2] \in link.seen \cup {Child} /\ key[2] \in DocNo
  <2>1. key[1] \in Nat /\ key[2] \in link.seen \cup {Child}
    BY PageTypes, LinkFields DEF IInv, DocumentsOK, Key
  <2> QED BY <2>1, PageTypes, LinkFields, AgentLinkAssumption DEF DocNo, Child
<1>5. f \in Chunk /\ f.doc = key[2] /\ f.id = 0 /\ f.k = "chunk"
  BY <1>4, HelloFacts
<1>6. Receives(f)
  BY <1>2
<1> HIDE DEF f
<1>7. ReceiveChunk(f)
  BY <1>5, <1>6 DEF Receives
<1>8. /\ Own(page') \subseteq Own(page) /\ Own(page) \subseteq Own(page') \cup {f}
      /\ page'.doc = page.doc /\ left.odd \in Nat
  BY <1>1, <1>3, <1>5, Taken
<1>9. left'.odd \in Nat /\ left'.odd < left.odd
  BY <1>1, OddOnce
<1>10. Arrives(page, page', link, left.odd, left'.odd, f)
  BY <1>1, <1>4, <1>5, <1>8, <1>9 DEF Arrives
<1> QED BY <1>1, <1>3, <1>5, <1>7, <1>9, <1>10, ChunkRead

LEMMA NextRead ==
  ASSUME MaxOdd <= Recent, IInv, SInv, [Next]_vars
  PROVE  SInv'
<1>1. CASE Navigate
  BY <1>1, NavigateRead
<1>2. CASE BindWorld
  BY <1>2, BindWorldRead
<1>3. CASE Flush
  BY <1>3, FlushRead
<1>4. CASE StartRecording
  BY <1>4, StartRecordingRead
<1>5. CASE ResumeSnapshot
  BY <1>5, ResumeSnapshotRead
<1>6. CASE SnapshotTimeout
  BY <1>6, SnapshotTimeoutRead
<1>7. CASE Mutate
  BY <1>7, MutateRead
<1>8. CASE ChildFrame
  BY <1>8, ChildFrameRead
<1>9. CASE Perform
  BY <1>9, PerformRead
<1>10. CASE Receive
  BY <1>10, ReceiveRead
<1>11. CASE ReceiveTwice
  BY <1>11, ReceiveTwiceRead
<1>12. CASE LateHello
  BY <1>12, LateHelloRead
<1>13. CASE Detach
  BY <1>13, DetachRead
<1>14. CASE Attach
  BY <1>14, AttachRead
<1>15. ASSUME NEW n \in Call, SendCmd(n) \/ BridgeAwaited(n) \/ CommandTimeout(n) PROVE SInv'
  BY <1>15, CallRead
<1>16. CASE UNCHANGED vars
  BY <1>16 DEF vars, SInv, StreamFaithful
<1> QED
  BY <1>1, <1>2, <1>3, <1>4, <1>5, <1>6, <1>7, <1>8, <1>9, <1>10, <1>11, <1>12, <1>13, <1>14,
     <1>15, <1>16 DEF Next

\* What the hub reads is, document by document and never back to an earlier one, an
\* unbroken run of what that document's agent recorded, each event once, whatever was
\* queued, split, duplicated or late: as long as the reassembler remembers at least as
\* many messages as there are odd deliveries (agentlink.ts:163-211, emit.ts, chunk.ts).
THEOREM StreamFaithfulHolds ==
  ASSUME MaxOdd <= Recent
  PROVE  Spec => []StreamFaithful
<1>1. Init => IInv /\ SInv
  BY InitIInv, InitRead
<1>2. IInv /\ SInv /\ [Next]_vars => (IInv /\ SInv)'
  BY NextIInv, NextRead
<1>3. SInv => StreamFaithful
  BY DEF SInv
<1> QED BY <1>1, <1>2, <1>3, PTL DEF Spec
=============================================================================
