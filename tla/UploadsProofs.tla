---------------------------- MODULE UploadsProofs ----------------------------
(***************************************************************************)
(* Machine-checked proofs about Uploads, for every set of windows and of   *)
(* tabs and every number of choosers, picks, files and upsets: an input is *)
(* given one pick, whole; a chooser ends; a batch leaves nothing behind.   *)
(***************************************************************************)
EXTENDS Uploads, FiniteSetTheorems, SequenceTheorems, TLAPS

------------------------------------------------------------------------------
(* The inductive invariant. *)

\* The first n files of pick s.
Sent(s, n) == [i \in 1..n |-> <<s, i>>]

\* The gateway accepted a file of this chain of requests.
Started(j) == j.i > 1 \/ j.at # "sent"
Accepted(j) == IF j.at \in {"sent", "directory", "body"} THEN j.i - 1 ELSE j.n

(* The batch of a chain that was accepted holds exactly the files the chain sent, and
   waits for its next one. *)
BatchOK(j) ==
  LET r == rec[j.key]
  IN  /\ r.st \in {"batch", "over"}
      /\ r.files = Sent(j.sel, Accepted(j))
      /\ r.st = "batch" =>
           /\ r.count = j.n
           /\ r.next = IF j.at = "sent" THEN j.i - 1 ELSE j.i
      /\ j.at = "applied" => given[j.key] # <<>>

\* Input k was given pick s.
GivenOf(k, s) == given[k] # <<>> /\ given[k][1] = <<s, 1>>

(* A chain sends the files of a pick of the chooser's tab, which no input has before the
   chain is through. *)
JobOK(j) ==
  /\ rec[j.key].st # "none"
  /\ sel[j.sel].tab = rec[j.key].tab /\ sel[j.sel].n = j.n /\ j.i <= j.n
  /\ \A k \in Key : GivenOf(k, j.sel) => j.at = "applied" /\ j.key = k
  /\ Started(j) => BatchOK(j)

\* A pick has one chain; of the chains that post under one key, one was accepted.
JobsOK ==
  /\ \A j \in jobs : JobOK(j)
  /\ \A j, h \in jobs : j.sel = h.sel => j = h
  /\ \A j, h \in jobs : j.key = h.key /\ Started(j) /\ Started(h) => j = h

KeyOK(k) ==
  LET r == rec[k]
  IN  /\ node[k] # "none" => r.tab \in Tab
      /\ node[k] = "none" => r.st = "none"
      /\ r.st \in {"none", "pending"} => k \notin dir /\ given[k] = <<>>
      /\ r.st = "pending" => r.timer
      /\ r.st = "batch" => r.timer \/ \E j \in jobs : j.key = k /\ j.at # "sent"
      /\ r.st = "over" /\ node[k] = "waiting" => given[k] # <<>> \/ k \in cancels \cup cancelled
      /\ r.st = "over" /\ k \in dir => given[k] # <<>> \/ k \in removing \/ k \in late

\* What the windows know of is published, and a pick that is staged is not sent yet.
ToldOK == \A v \in Viewer : \A i \in 1..Len(told[v]) : rec[told[v][i]].st # "none"
PicksOK ==
  \A v \in Viewer, t \in Tab :
    picks[v][t] # 0 => rec[picks[v][t]].st # "none" /\ rec[picks[v][t]].tab = t
Unsent(v, t) ==
  LET s == selections[v][t]
  IN  /\ sel[s].tab = t /\ sel[s].n # 0
      /\ \A j \in jobs : j.sel # s
      /\ \A k \in Key : ~GivenOf(k, s)
      /\ \A w \in Viewer, u \in Tab : selections[w][u] = s => w = v /\ u = t
SelectionsOK == \A v \in Viewer, t \in Tab : selections[v][t] # 0 => Unsent(v, t)
StagedOK == ToldOK /\ PicksOK /\ SelectionsOK

GivenOK ==
  /\ \A k \in Key : given[k] # <<>> =>
       \E s \in Sel : sel[s].n # 0 /\ sel[s].tab = rec[k].tab /\ given[k] = Sent(s, sel[s].n)
  /\ \A k, l \in Key, s \in Sel : GivenOf(k, s) /\ GivenOf(l, s) => k = l

(* A chooser is announced once, and before that nothing is known of it; when a document
   that went away is still to be heard of, the inputs that wait in its tab are younger. *)
Announces(i, k) == events[i].e = "opened" /\ events[i].key = k
EventsOK ==
  /\ \A i \in 1..Len(events), k \in Key : Announces(i, k) =>
       /\ node[k] # "none" /\ rec[k].st = "none"
       /\ \A h \in 1..Len(events) : Announces(h, k) => h = i
  /\ \A i \in 1..Len(events), k \in Key :
       events[i].e = "gone" /\ node[k] = "waiting" /\ rec[k].tab = events[i].tab =>
         \E h \in 1..Len(events) : i < h /\ Announces(h, k)

OneLive == \A k, l \in Live : k = l

IInv ==
  /\ TypeOK
  /\ \A k \in Key : KeyOK(k)
  /\ JobsOK /\ StagedOK /\ GivenOK /\ EventsOK /\ OneLive

------------------------------------------------------------------------------
(* Facts about picks, records and requests. *)

LEMMA SentFiles ==
  ASSUME NEW s \in Sel, NEW n \in 0..MaxFiles
  PROVE  /\ Sent(s, n) \in Seq(File) /\ Len(Sent(s, n)) = n
         /\ n # 0 => Sent(s, n) # <<>> /\ Sent(s, n)[1] = <<s, 1>>
<1>1. n \in Nat
  BY BoundsAssumption
<1>2. ASSUME NEW i \in 1..n PROVE <<s, i>> \in File
  BY <1>1, BoundsAssumption DEF File
<1>3. Sent(s, n) \in [1..n -> File]
  BY <1>2 DEF Sent
<1>4. Sent(s, n) \in Seq(File) /\ Len(Sent(s, n)) = n
  BY <1>1, <1>3
<1>5. ASSUME n # 0 PROVE Sent(s, n) # <<>> /\ Sent(s, n)[1] = <<s, 1>>
  <2>1. Sent(s, n)[1] = <<s, 1>>
    BY <1>1, <1>5 DEF Sent
  <2>2. Len(Sent(s, n)) # 0
    BY <1>4, <1>5
  <2> QED BY <2>1, <2>2
<1> QED BY <1>4, <1>5

LEMMA SentNext ==
  ASSUME NEW s \in Sel, NEW n \in 1..MaxFiles
  PROVE  Append(Sent(s, n - 1), <<s, n>>) = Sent(s, n)
<1> DEFINE a == Sent(s, n - 1)
           b == Append(a, <<s, n>>)
           c == Sent(s, n)
<1>1. n \in Nat /\ n - 1 \in 0..MaxFiles /\ n \in 0..MaxFiles /\ <<s, n>> \in File
  BY BoundsAssumption DEF File
<1>2. /\ a \in Seq(File) /\ Len(a) = n - 1 /\ c \in Seq(File) /\ Len(c) = n
      /\ \A i \in 1..(n - 1) : a[i] = <<s, i>>
      /\ \A i \in 1..n : c[i] = <<s, i>>
  BY <1>1, SentFiles DEF Sent
<1> HIDE DEF a, c
<1>3. b \in Seq(File) /\ Len(b) = n /\ b[n] = <<s, n>> /\ \A i \in 1..(n - 1) : b[i] = a[i]
  BY <1>1, <1>2
<1> HIDE DEF b
<1>4. ASSUME NEW i \in 1..n PROVE b[i] = c[i]
  <2>1. i = n \/ i \in 1..(n - 1)
    BY <1>1
  <2>2. c[i] = <<s, i>>
    BY <1>2
  <2>3. CASE i = n
    BY <2>2, <2>3, <1>3
  <2>4. CASE i \in 1..(n - 1)
    <3>1. b[i] = a[i] /\ a[i] = <<s, i>>
      BY <2>4, <1>2, <1>3
    <3> QED BY <3>1, <2>2
  <2> QED BY <2>1, <2>3, <2>4
<1>5. b = c
  <2>1. b \in Seq(File) /\ c \in Seq(File) /\ Len(b) = Len(c) /\ \A i \in 1..Len(b) : b[i] = c[i]
    BY <1>2, <1>3, <1>4
  <2> QED BY <2>1, SeqEqual
<1> QED BY <1>5 DEF a, b, c

LEMMA SentNothing == ASSUME NEW s PROVE Sent(s, 0) = <<>>
BY DEF Sent

LEMMA JobFields ==
  ASSUME NEW j \in Job
  PROVE  /\ j.v \in Viewer /\ j.key \in Key /\ j.sel \in Sel /\ j.at \in Stage
         /\ j.n \in 1..MaxFiles /\ j.i \in 1..MaxFiles /\ j.n \in Nat /\ j.i \in Nat
BY BoundsAssumption DEF Job

\* A request goes on to its next stage, or the chain to its next file.
LEMMA JobMoves ==
  ASSUME NEW j \in Job, NEW a \in Stage
  PROVE  LET h == [j EXCEPT !.at = a]
         IN  /\ h \in Job /\ h.v = j.v /\ h.key = j.key /\ h.sel = j.sel /\ h.n = j.n
             /\ h.i = j.i /\ h.at = a
BY Zenon DEF Job

LEMMA JobGoesOn ==
  ASSUME NEW j \in Job, j.i < j.n
  PROVE  LET h == [j EXCEPT !.i = @ + 1, !.at = "sent"]
         IN  /\ h \in Job /\ h.v = j.v /\ h.key = j.key /\ h.sel = j.sel /\ h.n = j.n
             /\ h.i = j.i + 1 /\ h.at = "sent"
<1> DEFINE g == [j EXCEPT !.i = @ + 1]
           h == [g EXCEPT !.at = "sent"]
<1>1. j.i + 1 \in 1..MaxFiles
  BY JobFields, BoundsAssumption
<1>2. /\ g \in Job /\ g.v = j.v /\ g.key = j.key /\ g.sel = j.sel /\ g.n = j.n
      /\ g.i = j.i + 1
  BY <1>1, Zenon DEF Job
<1>3. [j EXCEPT !.i = @ + 1, !.at = "sent"] = h
  BY DEF Job
<1> HIDE DEF g
<1>4. "sent" \in Stage
  BY DEF Stage
<1> QED BY <1>2, <1>3, <1>4, JobMoves

RecordSt == {"none", "pending", "batch", "over"}

LEMMA RecordFields ==
  ASSUME NEW r \in Record
  PROVE  /\ r.st \in RecordSt /\ r.tab \in Tab \cup {NoTab} /\ r.files \in Seq(File)
         /\ r.count \in 0..MaxFiles /\ r.next \in 0..MaxFiles
         /\ r.count \in Nat /\ r.next \in Nat /\ r.timer \in BOOLEAN /\ r.many \in BOOLEAN
BY BoundsAssumption DEF Record, RecordSt

\* A record with a new state and timer.
LEMMA RecordTurns ==
  ASSUME NEW r \in Record, NEW x \in RecordSt, NEW b \in BOOLEAN
  PROVE  LET q == [r EXCEPT !.st = x, !.timer = b]
         IN  /\ q \in Record /\ q.st = x /\ q.timer = b /\ q.tab = r.tab /\ q.many = r.many
             /\ q.files = r.files /\ q.count = r.count /\ q.next = r.next
<1> DEFINE p == [r EXCEPT !.st = x]
           q == [p EXCEPT !.timer = b]
<1>1. /\ p \in Record /\ p.st = x /\ p.tab = r.tab /\ p.many = r.many
      /\ p.files = r.files /\ p.count = r.count /\ p.next = r.next
  BY Zenon DEF Record, RecordSt
<1>2. [r EXCEPT !.st = x, !.timer = b] = q
  BY DEF Record
<1> HIDE DEF p
<1>3. /\ q \in Record /\ q.st = p.st /\ q.timer = b /\ q.tab = p.tab /\ q.many = p.many
      /\ q.files = p.files /\ q.count = p.count /\ q.next = p.next
  BY <1>1, Zenon DEF Record, RecordSt
<1> QED BY <1>1, <1>2, <1>3

LEMMA OverRecord ==
  ASSUME NEW r \in Record
  PROVE  LET q == Over(r)
         IN  /\ q \in Record /\ q.st = "over" /\ q.timer = FALSE /\ q.tab = r.tab
             /\ q.many = r.many /\ q.files = r.files /\ q.count = r.count /\ q.next = r.next
<1>1. "over" \in RecordSt /\ FALSE \in BOOLEAN
  BY DEF RecordSt
<1> QED BY <1>1, RecordTurns DEF Over

LEMMA PendingRecord ==
  ASSUME NEW r \in Record
  PROVE  LET q == Pending(r)
         IN  /\ q \in Record /\ q.st = "pending" /\ q.timer = TRUE /\ q.tab = r.tab
             /\ q.many = r.many /\ q.files = r.files /\ q.count = r.count /\ q.next = r.next
<1>1. "pending" \in RecordSt /\ TRUE \in BOOLEAN
  BY DEF RecordSt
<1> QED BY <1>1, RecordTurns DEF Pending

\* What is known of a chooser when it opens.
Opened(t, many) == [NoRecord(t) EXCEPT !.many = many]

LEMMA OpenedRecord ==
  ASSUME NEW t \in Tab, NEW many \in BOOLEAN
  PROVE  Opened(t, many) \in Record /\ Opened(t, many).st = "none" /\ Opened(t, many).tab = t
<1> DEFINE p == NoRecord(t)
           q == [p EXCEPT !.many = many]
<1>1. 0 \in 0..MaxFiles /\ <<>> \in Seq(File)
  BY BoundsAssumption
<1>2. p \in Record /\ p.st = "none" /\ p.tab = t
  BY <1>1, Zenon DEF NoRecord, Record
<1> HIDE DEF p
<1>3. q \in Record /\ q.st = "none" /\ q.tab = t
  BY <1>2, Zenon DEF Record
<1> QED BY <1>3 DEF Opened, p

LEMMA ClaimRecord ==
  ASSUME NEW r \in Record, NEW n \in 1..MaxFiles
  PROVE  LET q == Claim(r, n)
         IN  /\ q \in Record /\ q.st = "batch" /\ q.tab = r.tab /\ q.files = <<>>
             /\ q.count = n /\ q.next = 1
<1> DEFINE a == [r EXCEPT !.st = "batch"]
           b == [a EXCEPT !.timer = FALSE]
           c == [b EXCEPT !.busy = TRUE]
           d == [c EXCEPT !.count = n]
           e == [d EXCEPT !.next = 1]
           f == [e EXCEPT !.files = <<>>]
<1>1. Claim(r, n) = f
  BY DEF Claim, Record
<1>2. n \in 0..MaxFiles /\ 1 \in 0..MaxFiles /\ <<>> \in Seq(File)
  BY BoundsAssumption
<1>3. a \in Record /\ a.st = "batch" /\ a.tab = r.tab
  BY Zenon DEF Record
<1> HIDE DEF a
<1>4. b \in Record /\ b.st = "batch" /\ b.tab = r.tab
  BY <1>3, Zenon DEF Record
<1> HIDE DEF b
<1>5. c \in Record /\ c.st = "batch" /\ c.tab = r.tab
  BY <1>4, Zenon DEF Record
<1> HIDE DEF c
<1>6. d \in Record /\ d.st = "batch" /\ d.tab = r.tab /\ d.count = n
  BY <1>2, <1>5, Zenon DEF Record
<1> HIDE DEF d
<1>7. e \in Record /\ e.st = "batch" /\ e.tab = r.tab /\ e.count = n /\ e.next = 1
  BY <1>2, <1>6, Zenon DEF Record
<1> HIDE DEF e
<1>8. /\ f \in Record /\ f.st = "batch" /\ f.tab = r.tab /\ f.count = n /\ f.next = 1
      /\ f.files = <<>>
  BY <1>2, <1>7, Zenon DEF Record
<1> HIDE DEF f
<1> QED BY <1>1, <1>8

LEMMA ExtendRecord ==
  ASSUME NEW r \in Record, r.next + 1 \in 0..MaxFiles
  PROVE  LET q == Extend(r)
         IN  /\ q \in Record /\ q.st = r.st /\ q.tab = r.tab /\ q.files = r.files
             /\ q.count = r.count /\ q.next = r.next + 1
<1> DEFINE m == r.next + 1
           a == [r EXCEPT !.busy = TRUE]
           b == [a EXCEPT !.timer = FALSE]
           c == [b EXCEPT !.next = m]
<1>1. Extend(r) = c
  BY DEF Extend, Record
<1>2. m \in 0..MaxFiles
  OBVIOUS
<1> HIDE DEF m
<1>3. /\ a \in Record /\ a.st = r.st /\ a.tab = r.tab /\ a.files = r.files
      /\ a.count = r.count
  BY Zenon DEF Record
<1> HIDE DEF a
<1>4. /\ b \in Record /\ b.st = r.st /\ b.tab = r.tab /\ b.files = r.files
      /\ b.count = r.count
  BY <1>3, Zenon DEF Record
<1> HIDE DEF b
<1>5. /\ c \in Record /\ c.st = r.st /\ c.tab = r.tab /\ c.files = r.files
      /\ c.count = r.count /\ c.next = m
  BY <1>2, <1>4, Zenon DEF Record
<1> HIDE DEF c
<1> QED BY <1>1, <1>5 DEF m

LEMMA WrittenRecord ==
  ASSUME NEW r \in Record, NEW f \in File
  PROVE  LET q == Written(r, f)
         IN  /\ q \in Record /\ q.st = r.st /\ q.tab = r.tab
             /\ q.files = Append(r.files, f) /\ q.count = r.count /\ q.next = r.next
             /\ q.timer = (r.next < r.count)
<1> DEFINE g == Append(r.files, f)
           m == (r.next < r.count)
           a == [r EXCEPT !.files = g]
           b == [a EXCEPT !.busy = FALSE]
           c == [b EXCEPT !.timer = m]
<1>1. Written(r, f) = c
  BY DEF Written, Record
<1>2. g \in Seq(File)
  BY RecordFields
<1>3. m \in BOOLEAN
  OBVIOUS
<1> HIDE DEF m, g
<1>4. /\ a \in Record /\ a.st = r.st /\ a.tab = r.tab /\ a.files = g
      /\ a.count = r.count /\ a.next = r.next
  BY <1>2, Zenon DEF Record
<1> HIDE DEF a
<1>5. /\ b \in Record /\ b.st = r.st /\ b.tab = r.tab /\ b.files = g
      /\ b.count = r.count /\ b.next = r.next
  BY <1>4, Zenon DEF Record
<1> HIDE DEF b
<1>6. /\ c \in Record /\ c.st = r.st /\ c.tab = r.tab /\ c.files = g
      /\ c.count = r.count /\ c.next = r.next /\ c.timer = m
  BY <1>3, <1>5, Zenon DEF Record
<1> HIDE DEF c
<1> QED BY <1>1, <1>6 DEF m, g

\* Records are given up: those that are live are over, the others stay.
LEMMA AbandonedRecords ==
  ASSUME rec \in [Key -> Record], NEW ks, NEW rs, rs = Abandoned(ks)
  PROVE  /\ rs \in [Key -> Record]
         /\ \A k \in Key : IF k \in ks \cap Live THEN rs[k] = Over(rec[k]) ELSE rs[k] = rec[k]
<1>1. ASSUME NEW k \in Key PROVE Over(rec[k]) \in Record
  BY OverRecord
<1>2. ASSUME NEW k \in Key
      PROVE  (IF k \in ks \cap Live THEN Over(rec[k]) ELSE rec[k]) \in Record
  BY <1>1
<1> QED BY <1>2 DEF Abandoned

------------------------------------------------------------------------------
(* Types. *)

WindowTypes ==
  /\ driver \in Viewer /\ believes \subseteq Viewer
  /\ told \in [Viewer -> Seq(Key)]
  /\ picks \in [Viewer -> [Tab -> 0..MaxKeys]]
  /\ selections \in [Viewer -> [Tab -> 0..MaxSels]]
  /\ sel \in [Sel -> Selected]
RequestTypes == jobs \subseteq Job
RecordTypes == rec \in [Key -> Record] /\ closed \in BOOLEAN
DiskTypes == removing \subseteq Key /\ dir \subseteq Key /\ late \subseteq Key
PageTypes ==
  /\ node \in [Key -> {"none", "waiting", "lost"}]
  /\ given \in [Key -> Seq(File)]
  /\ cancels \subseteq Key /\ cancelled \subseteq Key
Event == [e: {"opened"}, key: Key] \cup [e: {"gone"}, tab: Tab]
EventTypes == events \in Seq(Event) /\ upsets \in 0..MaxUpsets

Types == WindowTypes /\ RequestTypes /\ RecordTypes /\ DiskTypes /\ PageTypes /\ EventTypes

LEMMA TypesSplit == TypeOK => Types
BY DEF TypeOK, Types, WindowTypes, RequestTypes, RecordTypes, DiskTypes, PageTypes, EventTypes,
       Event

LEMMA EventFields ==
  /\ \A k \in Key : /\ [e |-> "opened", key |-> k] \in Event
                    /\ [e |-> "opened", key |-> k].e = "opened"
                    /\ [e |-> "opened", key |-> k].key = k
  /\ \A t \in Tab : /\ [e |-> "gone", tab |-> t] \in Event
                    /\ [e |-> "gone", tab |-> t].e = "gone"
                    /\ [e |-> "gone", tab |-> t].tab = t
  /\ \A x \in Event : /\ x.e \in {"opened", "gone"}
                      /\ x.e = "opened" => x.key \in Key
                      /\ x.e = "gone" => x.tab \in Tab
<1>1. ASSUME NEW k \in Key PROVE [e |-> "opened", key |-> k] \in Event
  BY DEF Event
<1>2. ASSUME NEW t \in Tab PROVE [e |-> "gone", tab |-> t] \in Event
  BY DEF Event
<1>3. ASSUME NEW x \in Event
      PROVE  /\ x.e \in {"opened", "gone"}
             /\ x.e = "opened" => x.key \in Key
             /\ x.e = "gone" => x.tab \in Tab
  BY DEF Event
<1> QED BY <1>1, <1>2, <1>3

LEMMA UpsetTypes == upsets \in 0..MaxUpsets /\ Upset => upsets' \in 0..MaxUpsets
BY BoundsAssumption DEF Upset

\* A window's staged halves of a tab are replaced.
LEMMA StagedTypes ==
  ASSUME NEW n \in Nat, NEW f \in [Viewer -> [Tab -> 0..n]], NEW v \in Viewer, NEW t \in Tab,
         NEW x \in 0..n
  PROVE  /\ [f EXCEPT ![v][t] = x] \in [Viewer -> [Tab -> 0..n]]
         /\ [f EXCEPT ![v][t] = x][v][t] = x
         /\ \A w \in Viewer, u \in Tab :
              w # v \/ u # t => [f EXCEPT ![v][t] = x][w][u] = f[w][u]
<1> DEFINE g == [f[v] EXCEPT ![t] = x]
           h == [f EXCEPT ![v] = g]
<1>1. f[v] \in [Tab -> 0..n]
  OBVIOUS
<1>2. /\ g \in [Tab -> 0..n] /\ g[t] = x
      /\ \A u \in Tab : u # t => g[u] = f[v][u]
  BY <1>1
<1>3. [f EXCEPT ![v][t] = x] = h
  OBVIOUS
<1> HIDE DEF g
<1>4. /\ h \in [Viewer -> [Tab -> 0..n]] /\ h[v] = g
      /\ \A w \in Viewer : w # v => h[w] = f[w]
  BY <1>2
<1> HIDE DEF h
<1>5. ASSUME NEW w \in Viewer, NEW u \in Tab, w # v \/ u # t PROVE h[w][u] = f[w][u]
  <2>1. CASE w = v
    BY <2>1, <1>2, <1>4, <1>5
  <2>2. CASE w # v
    BY <2>2, <1>4
  <2> QED BY <2>1, <2>2
<1> QED BY <1>2, <1>3, <1>4, <1>5

\* A window's staged halves are forgotten.
LEMMA ForgetTypes ==
  ASSUME NEW n \in Nat, NEW f \in [Viewer -> [Tab -> 0..n]], NEW v \in Viewer
  PROVE  LET g == [f EXCEPT ![v] = [t \in Tab |-> 0]]
         IN  /\ g \in [Viewer -> [Tab -> 0..n]]
             /\ \A t \in Tab : g[v][t] = 0
             /\ \A w \in Viewer, t \in Tab : w # v => g[w][t] = f[w][t]
<1> DEFINE z == [t \in Tab |-> 0]
           g == [f EXCEPT ![v] = z]
<1>1. z \in [Tab -> 0..n] /\ \A t \in Tab : z[t] = 0
  OBVIOUS
<1> HIDE DEF z
<1>2. g \in [Viewer -> [Tab -> 0..n]] /\ g[v] = z /\ \A w \in Viewer : w # v => g[w] = f[w]
  BY <1>1
<1> HIDE DEF g
<1>3. /\ \A t \in Tab : g[v][t] = 0
      /\ \A w \in Viewer, t \in Tab : w # v => g[w][t] = f[w][t]
  BY <1>1, <1>2
<1> QED BY <1>2, <1>3 DEF g, z

\* The first request of a chain.
LEMMA FirstJobFields ==
  ASSUME NEW v \in Viewer, NEW k \in Key, NEW s \in Sel, sel'[s].n \in 1..MaxFiles
  PROVE  LET h == FirstJob(v, k, s)
         IN  /\ h \in Job /\ h.v = v /\ h.key = k /\ h.sel = s /\ h.n = sel'[s].n /\ h.i = 1
             /\ h.at = "sent"
<1> DEFINE n == sel'[s].n
           h == [v |-> v, key |-> k, sel |-> s, n |-> n, i |-> 1, at |-> "sent"]
<1>1. n \in 1..MaxFiles /\ 1 \in 1..MaxFiles /\ "sent" \in Stage
  BY BoundsAssumption DEF Stage
<1>2. FirstJob(v, k, s) = h
  BY DEF FirstJob
<1> HIDE DEF n
<1>3. h \in Job /\ h.v = v /\ h.key = k /\ h.sel = s /\ h.n = n /\ h.i = 1 /\ h.at = "sent"
  BY <1>1, Zenon DEF Job
<1> QED BY <1>2, <1>3 DEF n

\* What a window stages, or the request it sends.
LEMMA PairTypes ==
  ASSUME TypeOK, NEW v \in Viewer, NEW t \in Tab, NEW k \in 0..MaxKeys, NEW s \in 0..MaxSels,
         k # 0 /\ s # 0 => sel'[s].n \in 1..MaxFiles, Pair(v, t, k, s)
  PROVE  /\ picks' \in [Viewer -> [Tab -> 0..MaxKeys]]
         /\ selections' \in [Viewer -> [Tab -> 0..MaxSels]]
         /\ jobs' \subseteq Job
<1>1. /\ MaxKeys \in Nat /\ MaxSels \in Nat /\ 0 \in 0..MaxKeys /\ 0 \in 0..MaxSels
  BY BoundsAssumption
<1>2. /\ picks \in [Viewer -> [Tab -> 0..MaxKeys]]
      /\ selections \in [Viewer -> [Tab -> 0..MaxSels]]
      /\ jobs \subseteq Job
  BY DEF TypeOK
<1>3. CASE k # 0 /\ s # 0
  <2>1. /\ picks' = [picks EXCEPT ![v][t] = 0]
        /\ selections' = [selections EXCEPT ![v][t] = 0]
        /\ jobs' = jobs \/ jobs' = jobs \cup {FirstJob(v, k, s)}
    BY <1>3 DEF Pair
  <2>2. k \in Key /\ s \in Sel
    BY <1>1, <1>3 DEF Key, Sel
  <2>3. FirstJob(v, k, s) \in Job
    BY <1>3, <2>2, FirstJobFields
  <2>4. picks' \in [Viewer -> [Tab -> 0..MaxKeys]]
    BY <1>1, <1>2, <2>1, StagedTypes
  <2>5. selections' \in [Viewer -> [Tab -> 0..MaxSels]]
    BY <1>1, <1>2, <2>1, StagedTypes
  <2> QED BY <1>2, <2>1, <2>3, <2>4, <2>5
<1>4. CASE ~(k # 0 /\ s # 0)
  <2>1. /\ picks' = [picks EXCEPT ![v][t] = k]
        /\ selections' = [selections EXCEPT ![v][t] = s]
        /\ jobs' = jobs
    BY <1>4 DEF Pair
  <2>2. picks' \in [Viewer -> [Tab -> 0..MaxKeys]]
    BY <1>1, <1>2, <2>1, StagedTypes
  <2>3. selections' \in [Viewer -> [Tab -> 0..MaxSels]]
    BY <1>1, <1>2, <2>1, StagedTypes
  <2> QED BY <1>2, <2>1, <2>2, <2>3
<1> QED BY <1>3, <1>4

LEMMA TypedInit == Init => TypeOK
<1> SUFFICES ASSUME Init PROVE TypeOK
  OBVIOUS
<1>1. WindowTypes
  BY BoundsAssumption DEF Init, WindowTypes, Selected
<1>2. RecordTypes
  <2>1. 0 \in 0..MaxFiles /\ <<>> \in Seq(File)
    BY BoundsAssumption
  <2>2. NoRecord(NoTab) \in Record
    BY <2>1, Zenon DEF NoRecord, Record
  <2> QED BY <2>2 DEF Init, RecordTypes
<1>3. RequestTypes /\ DiskTypes /\ PageTypes
  BY DEF Init, RequestTypes, DiskTypes, PageTypes
<1>4. events \in Seq([e: {"opened"}, key: Key] \cup [e: {"gone"}, tab: Tab])
  BY DEF Init
<1>5. upsets \in 0..MaxUpsets
  BY BoundsAssumption DEF Init
<1> QED BY <1>1, <1>2, <1>3, <1>4, <1>5
        DEF TypeOK, WindowTypes, RequestTypes, RecordTypes, DiskTypes, PageTypes

\* The state after a step has its type if each group of variables has.
LEMMA TypesJoin ==
  ASSUME WindowTypes', RequestTypes', RecordTypes', DiskTypes', PageTypes', EventTypes'
  PROVE  TypeOK'
BY DEF TypeOK, WindowTypes, RequestTypes, RecordTypes, DiskTypes, PageTypes, EventTypes, Event

\* Steps of the page.
LEMMA TypedPage ==
  ASSUME TypeOK,
         \/ \E t \in Tab : OpenInput(t) \/ DocumentGoes(t)
         \/ \E k \in Key : CancelArrives(k)
         \/ \E j \in jobs : TakeFiles(j)
  PROVE  TypeOK'
<1> USE TypesSplit DEF Types
<1>1. ASSUME NEW t \in Tab, OpenInput(t) PROVE TypeOK'
  <2>1. PICK k \in Key, many \in BOOLEAN :
          /\ node' = [node EXCEPT ![k] = "waiting"]
          /\ rec' = [rec EXCEPT ![k] = Opened(t, many)]
          /\ events' = Append(events, [e |-> "opened", key |-> k])
    BY <1>1 DEF OpenInput, Opened
  <2>2. UNCHANGED <<windows, jobs, closed, disk, given, cancels, cancelled, upsets>>
    BY <1>1 DEF OpenInput
  <2>3. WindowTypes'
    BY <2>2 DEF windows, WindowTypes
  <2>4. RequestTypes' /\ DiskTypes'
    BY <2>2 DEF disk, RequestTypes, DiskTypes
  <2>5. RecordTypes'
    BY <2>1, <2>2, OpenedRecord DEF RecordTypes
  <2>6. PageTypes'
    BY <2>1, <2>2 DEF PageTypes
  <2>7. EventTypes'
    <3>1. [e |-> "opened", key |-> k] \in Event
      BY EventFields
    <3> QED BY <2>1, <2>2, <3>1 DEF EventTypes
  <2> QED BY <2>3, <2>4, <2>5, <2>6, <2>7, TypesJoin
<1>2. ASSUME NEW t \in Tab, DocumentGoes(t) PROVE TypeOK'
  <2>1. /\ node' = [k \in Key |-> IF rec[k].tab = t /\ node[k] = "waiting" THEN "lost"
                                                                           ELSE node[k]]
        /\ events' = Append(events, [e |-> "gone", tab |-> t])
        /\ Upset
    BY <1>2 DEF DocumentGoes
  <2>2. UNCHANGED <<windows, jobs, rec, closed, disk, given, cancels, cancelled>>
    BY <1>2 DEF DocumentGoes
  <2>3. WindowTypes'
    BY <2>2 DEF windows, WindowTypes
  <2>4. RequestTypes' /\ DiskTypes' /\ RecordTypes'
    BY <2>2 DEF disk, RequestTypes, DiskTypes, RecordTypes
  <2>5. PageTypes'
    BY <2>1, <2>2 DEF PageTypes
  <2>6. EventTypes'
    <3>1. [e |-> "gone", tab |-> t] \in Event
      BY EventFields
    <3> QED BY <2>1, <3>1, UpsetTypes DEF EventTypes
  <2> QED BY <2>3, <2>4, <2>5, <2>6, TypesJoin
<1>3. ASSUME NEW k \in Key, CancelArrives(k) PROVE TypeOK'
  <2>1. UNCHANGED <<windows, jobs, rec, closed, disk, node, given, events, upsets>>
    BY <1>3 DEF CancelArrives
  <2>2. WindowTypes'
    BY <2>1 DEF windows, WindowTypes
  <2>3. RequestTypes' /\ DiskTypes' /\ RecordTypes' /\ EventTypes'
    BY <2>1 DEF disk, RequestTypes, DiskTypes, RecordTypes, EventTypes
  <2>4. PageTypes'
    BY <1>3, <2>1 DEF CancelArrives, PageTypes
  <2> QED BY <2>2, <2>3, <2>4, TypesJoin
<1>4. ASSUME NEW j \in jobs, TakeFiles(j) PROVE TypeOK'
  <2>1. UNCHANGED <<windows, rec, closed, disk, node, cancels, cancelled, events, upsets>>
    BY <1>4 DEF TakeFiles
  <2>2. j \in Job
    BY DEF RequestTypes
  <2>3. RequestTypes'
    <3>1. "applied" \in Stage /\ "refused" \in Stage
      BY DEF Stage
    <3>2. [j EXCEPT !.at = "applied"] \in Job /\ [j EXCEPT !.at = "refused"] \in Job
      BY <2>2, <3>1, JobMoves
    <3> QED BY <1>4, <3>2 DEF TakeFiles, RequestTypes
  <2>4. PageTypes'
    <3>1. rec[j.key].files \in Seq(File)
      BY <2>2, JobFields, RecordFields DEF RecordTypes
    <3> QED BY <1>4, <2>1, <3>1 DEF TakeFiles, PageTypes
  <2>5. WindowTypes'
    BY <2>1 DEF windows, WindowTypes
  <2>6. DiskTypes' /\ RecordTypes' /\ EventTypes'
    BY <2>1 DEF disk, DiskTypes, RecordTypes, EventTypes
  <2> QED BY <2>3, <2>4, <2>5, <2>6, TypesJoin
<1> QED BY <1>1, <1>2, <1>3, <1>4

LEMMA AbandonTypes ==
  ASSUME TypeOK, NEW ks, NEW c \in BOOLEAN, Abandon(ks, c)
  PROVE  removing' \subseteq Key /\ cancels' \subseteq Key
BY DEF Abandon, Removed, Live, TypeOK

\* Steps of the gateway that end records.
LEMMA TypedEnds ==
  ASSUME TypeOK,
         \/ HandleEvent \/ Close
         \/ \E k \in Key : TimeOut(k)
         \/ \E j \in jobs : Break(j) \/ Finish(j)
  PROVE  TypeOK'
<1> USE TypesSplit DEF Types
<1>1. ASSUME HandleEvent PROVE TypeOK'
  <2> DEFINE x == Head(events)
  <2>1. /\ UNCHANGED <<driver, believes, picks, selections, sel, jobs, closed, dir, late, node,
                       given, cancelled, upsets>>
        /\ events # <<>> /\ events' = Tail(events)
    BY <1>1 DEF HandleEvent
  <2>2. x \in Event /\ events' \in Seq(Event)
    BY <2>1 DEF EventTypes
  <2>3. CASE closed
    <3>1. UNCHANGED <<rec, removing, cancels, told>>
      BY <1>1, <2>3 DEF HandleEvent
    <3>2. WindowTypes'
      BY <2>1, <3>1 DEF WindowTypes
    <3>3. RequestTypes' /\ RecordTypes' /\ DiskTypes'
      BY <2>1, <3>1 DEF RequestTypes, RecordTypes, DiskTypes
    <3>4. PageTypes' /\ EventTypes'
      BY <2>1, <2>2, <3>1 DEF PageTypes, EventTypes
    <3> QED BY <3>2, <3>3, <3>4, TypesJoin
  <2>4. CASE ~closed /\ x.e = "opened"
    <3> DEFINE k == x.key
               rs == Abandoned(Live)
    <3>1. Abandon(Live, TRUE)
      BY <1>1, <2>4 DEF HandleEvent, OpenChooser
    <3>2. rec' = [rs EXCEPT ![k] = Pending(@)]
      BY <1>1, <2>4 DEF HandleEvent, OpenChooser
    <3>3. told' = [v \in Viewer |-> Append(told[v], k)]
      BY <1>1, <2>4 DEF HandleEvent, OpenChooser
    <3>4. k \in Key
      BY <2>2, <2>4, EventFields
    <3>5. rs \in [Key -> Record]
      BY AbandonedRecords DEF RecordTypes
    <3> HIDE DEF rs, x
    <3>6. RecordTypes'
      <4>1. Pending(rs[k]) \in Record
        BY <3>4, <3>5, PendingRecord
      <4>2. rec' = [rs EXCEPT ![k] = Pending(rs[k])]
        BY <3>2, <3>4, <3>5
      <4> QED BY <2>1, <3>5, <4>1, <4>2 DEF RecordTypes
    <3>7. removing' \subseteq Key /\ cancels' \subseteq Key
      BY <3>1, AbandonTypes
    <3>8. WindowTypes'
      BY <2>1, <3>3, <3>4 DEF WindowTypes
    <3>9. RequestTypes' /\ DiskTypes'
      BY <2>1, <3>7 DEF RequestTypes, DiskTypes
    <3>10. PageTypes' /\ EventTypes'
      BY <2>1, <2>2, <3>7 DEF PageTypes, EventTypes
    <3> QED BY <3>6, <3>8, <3>9, <3>10, TypesJoin
  <2>5. CASE ~closed /\ x.e # "opened"
    <3> DEFINE ks == {k \in Live : rec[k].tab = x.tab}
    <3>1. Abandon(ks, FALSE) /\ rec' = Abandoned(ks) /\ told' = told
      BY <1>1, <2>5 DEF HandleEvent, DropTab
    <3> HIDE DEF ks
    <3>2. RecordTypes'
      BY <2>1, <3>1, AbandonedRecords DEF RecordTypes
    <3>3. removing' \subseteq Key /\ cancels' \subseteq Key
      BY <3>1, AbandonTypes
    <3>4. WindowTypes'
      BY <2>1, <3>1 DEF WindowTypes
    <3>5. RequestTypes' /\ DiskTypes'
      BY <2>1, <3>3 DEF RequestTypes, DiskTypes
    <3>6. PageTypes' /\ EventTypes'
      BY <2>1, <2>2, <3>3 DEF PageTypes, EventTypes
    <3> QED BY <3>2, <3>4, <3>5, <3>6, TypesJoin
  <2> QED BY <2>3, <2>4, <2>5
<1>2. ASSUME NEW ks, Abandon(ks, TRUE), rec' = Abandoned(ks), jobs' \subseteq jobs,
             closed' \in BOOLEAN, upsets' \in 0..MaxUpsets,
             UNCHANGED <<windows, dir, late, node, given, cancelled, events>>
      PROVE  TypeOK'
  <2>1. RecordTypes'
    BY <1>2, AbandonedRecords DEF RecordTypes
  <2>2. removing' \subseteq Key /\ cancels' \subseteq Key
    BY <1>2, AbandonTypes
  <2>3. WindowTypes'
    BY <1>2 DEF WindowTypes, windows
  <2>4. RequestTypes' /\ DiskTypes'
    BY <1>2, <2>2 DEF RequestTypes, DiskTypes
  <2>5. PageTypes' /\ EventTypes'
    BY <1>2, <2>2 DEF PageTypes, EventTypes
  <2> QED BY <2>1, <2>3, <2>4, <2>5, TypesJoin
<1>3. closed \in BOOLEAN /\ upsets \in 0..MaxUpsets
  BY DEF RecordTypes, EventTypes
<1>4. ASSUME Close PROVE TypeOK'
  <2>1. /\ Abandon(Live, TRUE) /\ rec' = Abandoned(Live) /\ jobs' = jobs /\ closed' = TRUE /\ Upset
        /\ UNCHANGED <<windows, dir, late, node, given, cancelled, events>>
    BY <1>4 DEF Close
  <2> QED BY <1>2, <1>3, <2>1, UpsetTypes
<1>5. ASSUME NEW k \in Key, TimeOut(k) PROVE TypeOK'
  <2>1. /\ Abandon({k}, TRUE) /\ rec' = Abandoned({k})
        /\ UNCHANGED <<windows, jobs, closed, dir, late, node, given, cancelled, events, upsets>>
    BY <1>5 DEF TimeOut
  <2> QED BY <1>2, <1>3, <2>1
<1>6. ASSUME NEW j \in jobs, Break(j) PROVE TypeOK'
  <2>1. /\ Abandon({j.key}, TRUE) /\ rec' = Abandoned({j.key}) /\ jobs' = jobs \ {j}
        /\ UNCHANGED <<windows, closed, dir, late, node, given, cancelled, events, upsets>>
    BY <1>6 DEF Break
  <2> QED BY <1>2, <1>3, <2>1
<1>7. ASSUME NEW j \in jobs, Finish(j) PROVE TypeOK'
  <2>1. /\ rec' = [rec EXCEPT ![j.key] = Over(rec[j.key])] /\ jobs' \subseteq jobs
        /\ UNCHANGED <<windows, closed, disk, page, events, upsets>>
    BY <1>7 DEF Finish, RecordTypes
  <2>2. j \in Job
    BY DEF RequestTypes
  <2>3. Over(rec[j.key]) \in Record
    BY <2>2, JobFields, OverRecord DEF RecordTypes
  <2>4. RecordTypes'
    BY <2>1, <2>3 DEF RecordTypes
  <2>5. WindowTypes'
    BY <2>1 DEF WindowTypes, windows
  <2>6. RequestTypes' /\ DiskTypes'
    BY <2>1 DEF RequestTypes, DiskTypes, disk
  <2>7. PageTypes' /\ EventTypes'
    BY <2>1 DEF PageTypes, EventTypes, page
  <2> QED BY <2>4, <2>5, <2>6, <2>7, TypesJoin
<1> QED BY <1>1, <1>4, <1>5, <1>6, <1>7

\* The next request of a chain that is not through.
LEMMA ContinueFields ==
  ASSUME NEW j \in Job, j.i <= j.n
  PROVE  LET h == Continue(j)
         IN  /\ h \in Job /\ h.v = j.v /\ h.key = j.key /\ h.sel = j.sel /\ h.n = j.n
             /\ j.i < j.n => h.i = j.i + 1 /\ h.at = "sent"
             /\ j.i = j.n => h.i = j.i /\ h.at = "apply"
<1>1. CASE j.i < j.n
  <2> DEFINE h == [j EXCEPT !.i = @ + 1, !.at = "sent"]
  <2>1. Continue(j) = h
    BY <1>1 DEF Continue
  <2>2. /\ h \in Job /\ h.v = j.v /\ h.key = j.key /\ h.sel = j.sel /\ h.n = j.n
        /\ h.i = j.i + 1 /\ h.at = "sent"
    BY <1>1, JobGoesOn
  <2>3. j.i # j.n
    BY <1>1, JobFields
  <2> HIDE DEF h
  <2> QED BY <2>1, <2>2, <2>3
<1>2. CASE ~(j.i < j.n)
  <2>1. "apply" \in Stage
    BY DEF Stage
  <2> QED BY <1>2, <2>1, JobMoves, JobFields DEF Continue
<1> QED BY <1>1, <1>2

\* Steps of requests and of removals.
LEMMA TypedRequests ==
  ASSUME TypeOK, \A j \in jobs : j.i <= j.n,
         \/ \E k \in Key : RemoveDirectory(k)
         \/ \E j \in jobs : Upload(j) \/ MakeDirectory(j) \/ BodyArrives(j)
  PROVE  TypeOK'
<1> USE TypesSplit DEF Types
<1>1. ASSUME NEW k \in Key, RemoveDirectory(k) PROVE TypeOK'
  <2>1. /\ UNCHANGED <<windows, jobs, rec, closed, late, page, events, upsets>>
        /\ removing' = removing \ {k} /\ dir' = dir \ {k}
    BY <1>1 DEF RemoveDirectory
  <2>2. WindowTypes'
    BY <2>1 DEF WindowTypes, windows
  <2>3. RequestTypes' /\ DiskTypes' /\ RecordTypes'
    BY <2>1 DEF RequestTypes, DiskTypes, RecordTypes
  <2>4. PageTypes' /\ EventTypes'
    BY <2>1 DEF PageTypes, EventTypes, page
  <2> QED BY <2>2, <2>3, <2>4, TypesJoin
<1>2. ASSUME NEW j \in jobs, UNCHANGED <<windows, closed, page, events, upsets>>,
             RequestTypes', RecordTypes', DiskTypes'
      PROVE  TypeOK'
  <2>1. WindowTypes'
    BY <1>2 DEF WindowTypes, windows
  <2>2. PageTypes' /\ EventTypes'
    BY <1>2 DEF PageTypes, EventTypes, page
  <2> QED BY <1>2, <2>1, <2>2, TypesJoin
<1>3. ASSUME NEW j \in jobs, Upload(j) PROVE TypeOK'
  <2> DEFINE h == [j EXCEPT !.at = "directory"]
             r == rec[j.key]
  <2>1. UNCHANGED <<windows, closed, disk, page, events, upsets>>
    BY <1>3 DEF Upload
  <2>2. /\ j \in Job /\ j.key \in Key /\ j.n \in 1..MaxFiles /\ j.i \in 1..MaxFiles
        /\ r \in Record
    BY JobFields DEF RequestTypes, RecordTypes
  <2>3. h \in Job
    <3>1. "directory" \in Stage
      BY DEF Stage
    <3> QED BY <2>2, <3>1, JobMoves
  <2>4. \/ CanClaim(j) /\ rec' = [rec EXCEPT ![j.key] = Claim(r, j.n)]
                       /\ jobs' = (jobs \ {j}) \cup {h}
        \/ CanExtend(j) /\ rec' = [rec EXCEPT ![j.key] = Extend(r)]
                        /\ jobs' = (jobs \ {j}) \cup {h}
        \/ rec' = rec /\ jobs' = jobs \ {j}
    BY <1>3, <2>2 DEF Upload, RecordTypes
  <2>5. RequestTypes'
    BY <2>3, <2>4 DEF RequestTypes
  <2>6. DiskTypes'
    BY <2>1 DEF DiskTypes, disk
  <2>7. Claim(r, j.n) \in Record
    BY <2>2, ClaimRecord
  <2>8. CanExtend(j) => Extend(r) \in Record
    <3>1. CanExtend(j) => r.next + 1 \in 0..MaxFiles
      BY <2>2, BoundsAssumption DEF CanExtend
    <3> QED BY <2>2, <3>1, ExtendRecord
  <2>9. RecordTypes'
    BY <2>1, <2>4, <2>7, <2>8 DEF RecordTypes
  <2> QED BY <1>2, <2>1, <2>5, <2>6, <2>9
<1>4. ASSUME NEW j \in jobs, MakeDirectory(j) PROVE TypeOK'
  <2>1. /\ UNCHANGED <<windows, rec, closed, removing, page, events, upsets>>
        /\ dir' = dir \cup {j.key} /\ late' \in {late, late \cup {j.key}}
        /\ jobs' = (jobs \ {j}) \cup {[j EXCEPT !.at = "body"]}
    BY <1>4 DEF MakeDirectory
  <2>2. j \in Job /\ j.key \in Key
    BY JobFields DEF RequestTypes
  <2>3. [j EXCEPT !.at = "body"] \in Job
    <3>1. "body" \in Stage
      BY DEF Stage
    <3> QED BY <2>2, <3>1, JobMoves
  <2>4. RequestTypes' /\ RecordTypes'
    BY <2>1, <2>3 DEF RequestTypes, RecordTypes
  <2>5. DiskTypes'
    BY <2>1, <2>2 DEF DiskTypes
  <2> QED BY <1>2, <2>1, <2>4, <2>5
<1>5. ASSUME NEW j \in jobs, BodyArrives(j) PROVE TypeOK'
  <2> DEFINE r == rec[j.key]
  <2>1. UNCHANGED <<windows, closed, disk, page, events, upsets>>
    BY <1>5 DEF BodyArrives
  <2>2. /\ j \in Job /\ j.key \in Key /\ j.sel \in Sel /\ j.i \in 1..MaxFiles
        /\ r \in Record
    BY JobFields DEF RequestTypes, RecordTypes
  <2>3. \/ rec' = rec /\ jobs' = jobs \ {j}
        \/ /\ rec' = [rec EXCEPT ![j.key] = Written(r, <<j.sel, j.i>>)]
           /\ jobs' = (jobs \ {j}) \cup {Continue(j)}
    BY <1>5, <2>2 DEF BodyArrives, RecordTypes
  <2>4. Continue(j) \in Job
    BY <2>2, ContinueFields
  <2>5. Written(r, <<j.sel, j.i>>) \in Record
    <3>1. <<j.sel, j.i>> \in File
      BY <2>2 DEF File
    <3> QED BY <2>2, <3>1, WrittenRecord
  <2>6. RequestTypes'
    BY <2>3, <2>4 DEF RequestTypes
  <2>7. RecordTypes'
    BY <2>1, <2>3, <2>5 DEF RecordTypes
  <2>8. DiskTypes'
    BY <2>1 DEF DiskTypes, disk
  <2> QED BY <1>2, <2>1, <2>6, <2>7, <2>8
<1> QED BY <1>1, <1>3, <1>4, <1>5

\* What a window knows of the key it reads.
LEMMA ReadKey ==
  ASSUME TypeOK, NEW v \in Viewer, told[v] # <<>>
  PROVE  LET k == Head(told[v])
         IN  k = told[v][1] /\ 1 \in 1..Len(told[v]) /\ k \in Key /\ Tail(told[v]) \in Seq(Key)
<1>1. told[v] \in Seq(Key)
  BY DEF TypeOK
<1> QED BY <1>1

\* Steps of the windows and of the driver's seat.
LEMMA TypedWindows ==
  ASSUME TypeOK, \A k \in Key : node[k] # "none" => rec[k].tab \in Tab,
         \A v \in Viewer : \A i \in 1..Len(told[v]) : node[told[v][i]] # "none",
         \A v \in Viewer, t \in Tab : selections[v][t] # 0 => sel[selections[v][t]].n # 0,
         \/ \E v \in Viewer : Transfer(v) \/ LearnRole(v) \/ HandlePick(v)
         \/ \E v \in Viewer, t \in Tab : Select(v, t) \/ ForgetPick(v, t) \/ ForgetSelection(v, t)
  PROVE  TypeOK'
<1> USE TypesSplit DEF Types
<1>1. ASSUME WindowTypes', RequestTypes', upsets' \in 0..MaxUpsets,
             UNCHANGED <<rec, closed, disk, page, events>>
      PROVE  TypeOK'
  <2>1. RecordTypes' /\ DiskTypes'
    BY <1>1 DEF RecordTypes, DiskTypes, disk
  <2>2. PageTypes' /\ EventTypes'
    BY <1>1 DEF PageTypes, EventTypes, page
  <2> QED BY <1>1, <2>1, <2>2, TypesJoin
<1>2. /\ upsets \in 0..MaxUpsets /\ MaxKeys \in Nat /\ MaxSels \in Nat
      /\ 0 \in 0..MaxKeys /\ 0 \in 0..MaxSels
  BY BoundsAssumption DEF EventTypes
<1>3. /\ picks \in [Viewer -> [Tab -> 0..MaxKeys]]
      /\ selections \in [Viewer -> [Tab -> 0..MaxSels]]
      /\ sel \in [Sel -> Selected]
  BY DEF WindowTypes
<1>4. ASSUME NEW v \in Viewer, Transfer(v) PROVE TypeOK'
  <2>1. /\ UNCHANGED <<believes, told, picks, selections, sel, jobs, rec, closed, disk, page,
                       events>>
        /\ driver' = v /\ Upset
    BY <1>4 DEF Transfer
  <2>2. WindowTypes' /\ RequestTypes'
    BY <2>1 DEF WindowTypes, RequestTypes
  <2> QED BY <1>1, <1>2, <2>1, <2>2, UpsetTypes
<1>5. ASSUME NEW v \in Viewer, LearnRole(v) PROVE TypeOK'
  <2>1. UNCHANGED <<driver, told, sel, jobs, rec, closed, disk, page, events, upsets>>
    BY <1>5 DEF LearnRole
  <2>2. believes' \subseteq Viewer
    BY <1>5 DEF LearnRole, WindowTypes
  <2>3. picks' \in [Viewer -> [Tab -> 0..MaxKeys]]
    <3>1. picks' = picks \/ picks' = [picks EXCEPT ![v] = [t \in Tab |-> 0]]
      BY <1>5 DEF LearnRole
    <3>2. MaxKeys \in Nat /\ picks \in [Viewer -> [Tab -> 0..MaxKeys]]
      BY <1>2, <1>3
    <3>3. [picks EXCEPT ![v] = [t \in Tab |-> 0]] \in [Viewer -> [Tab -> 0..MaxKeys]]
      BY <3>2, ForgetTypes
    <3> QED BY <3>1, <3>2, <3>3
  <2>4. selections' \in [Viewer -> [Tab -> 0..MaxSels]]
    <3>1. selections' = selections \/ selections' = [selections EXCEPT ![v] = [t \in Tab |-> 0]]
      BY <1>5 DEF LearnRole
    <3>2. MaxSels \in Nat /\ selections \in [Viewer -> [Tab -> 0..MaxSels]]
      BY <1>2, <1>3
    <3>3. [selections EXCEPT ![v] = [t \in Tab |-> 0]] \in [Viewer -> [Tab -> 0..MaxSels]]
      BY <3>2, ForgetTypes
    <3> QED BY <3>1, <3>2, <3>3
  <2>5. WindowTypes' /\ RequestTypes'
    BY <2>1, <2>2, <2>3, <2>4 DEF WindowTypes, RequestTypes
  <2> QED BY <1>1, <1>2, <2>1, <2>5
<1>6. ASSUME NEW v \in Viewer, HandlePick(v) PROVE TypeOK'
  <2> DEFINE k == Head(told[v])
             t == rec[k].tab
             s == selections[v][t]
  <2>1. /\ UNCHANGED <<driver, believes, sel, rec, closed, disk, page, events, upsets>>
        /\ told' = [told EXCEPT ![v] = Tail(@)] /\ told[v] # <<>>
        /\ Pair(v, t, k, s) \/ UNCHANGED <<picks, selections, jobs>>
    BY <1>6 DEF HandlePick
  <2>2. k \in Key /\ t \in Tab /\ k \in 0..MaxKeys /\ Tail(told[v]) \in Seq(Key)
    <3>1. k \in Key /\ node[k] # "none" /\ Tail(told[v]) \in Seq(Key)
      BY <2>1, ReadKey
    <3> QED BY <1>2, <3>1 DEF Key
  <2> HIDE DEF k, t
  <2>3. s \in 0..MaxSels /\ (s # 0 => sel[s].n \in 1..MaxFiles)
    <3>1. s \in 0..MaxSels /\ (s # 0 => sel[s].n # 0)
      BY <1>3, <2>2
    <3>2. s # 0 => s \in Sel
      BY <1>2, <3>1 DEF Sel
    <3>3. s # 0 => sel[s].n \in 0..MaxFiles
      BY <1>3, <3>2 DEF Selected
    <3> QED BY <3>1, <3>3, BoundsAssumption
  <2>4. /\ picks' \in [Viewer -> [Tab -> 0..MaxKeys]]
        /\ selections' \in [Viewer -> [Tab -> 0..MaxSels]]
        /\ jobs' \subseteq Job
    <3>1. CASE Pair(v, t, k, s)
      <4> HIDE DEF s
      <4>1. k # 0 /\ s # 0 => sel'[s].n \in 1..MaxFiles
        BY <2>1, <2>3
      <4> QED BY <2>2, <2>3, <3>1, <4>1, PairTypes
    <3>2. CASE UNCHANGED <<picks, selections, jobs>>
      BY <1>3, <3>2 DEF RequestTypes
    <3> QED BY <2>1, <3>1, <3>2
  <2>5. told' \in [Viewer -> Seq(Key)]
    BY <2>1, <2>2 DEF WindowTypes
  <2>6. WindowTypes' /\ RequestTypes'
    BY <2>1, <2>4, <2>5 DEF WindowTypes, RequestTypes
  <2> QED BY <1>1, <1>2, <2>1, <2>6
<1>7. ASSUME NEW v \in Viewer, NEW t \in Tab, Select(v, t) PROVE TypeOK'
  <2>1. PICK s \in Sel, n \in 1..MaxFiles :
          /\ sel' = [sel EXCEPT ![s] = [tab |-> t, n |-> n]]
          /\ Pair(v, t, picks[v][t], s)
    BY <1>7 DEF Select
  <2>2. UNCHANGED <<driver, believes, told, rec, closed, disk, page, events, upsets>>
    BY <1>7 DEF Select
  <2>3. sel' \in [Sel -> Selected] /\ sel'[s].n = n
    <3>1. n \in 0..MaxFiles
      BY BoundsAssumption
    <3>2. [tab |-> t, n |-> n] \in Selected
      BY <3>1 DEF Selected
    <3> QED BY <1>3, <2>1, <3>2
  <2>4. s \in 0..MaxSels /\ picks[v][t] \in 0..MaxKeys
    BY <1>2, <1>3 DEF Sel
  <2>5. /\ picks' \in [Viewer -> [Tab -> 0..MaxKeys]]
        /\ selections' \in [Viewer -> [Tab -> 0..MaxSels]]
        /\ jobs' \subseteq Job
    <3> DEFINE k == picks[v][t]
    <3>1. k \in 0..MaxKeys /\ s \in 0..MaxSels /\ Pair(v, t, k, s)
          /\ (k # 0 /\ s # 0 => sel'[s].n \in 1..MaxFiles)
      BY <2>1, <2>3, <2>4
    <3> HIDE DEF k
    <3> QED BY <3>1, PairTypes
  <2>6. WindowTypes' /\ RequestTypes'
    BY <2>2, <2>3, <2>5 DEF WindowTypes, RequestTypes
  <2> QED BY <1>1, <1>2, <2>2, <2>6
<1>8. ASSUME NEW v \in Viewer, NEW t \in Tab, ForgetPick(v, t) PROVE TypeOK'
  <2>1. /\ UNCHANGED <<driver, believes, told, selections, sel, jobs, rec, closed, disk, page,
                       events>>
        /\ Upset /\ picks' = [picks EXCEPT ![v][t] = 0]
    BY <1>8 DEF ForgetPick
  <2>2. picks' \in [Viewer -> [Tab -> 0..MaxKeys]]
    BY <1>2, <1>3, <2>1, StagedTypes
  <2>3. WindowTypes' /\ RequestTypes'
    BY <2>1, <2>2 DEF WindowTypes, RequestTypes
  <2> QED BY <1>1, <1>2, <2>1, <2>3, UpsetTypes
<1>9. ASSUME NEW v \in Viewer, NEW t \in Tab, ForgetSelection(v, t) PROVE TypeOK'
  <2>1. /\ UNCHANGED <<driver, believes, told, picks, sel, jobs, rec, closed, disk, page, events>>
        /\ Upset /\ selections' = [selections EXCEPT ![v][t] = 0]
    BY <1>9 DEF ForgetSelection
  <2>2. selections' \in [Viewer -> [Tab -> 0..MaxSels]]
    BY <1>2, <1>3, <2>1, StagedTypes
  <2>3. WindowTypes' /\ RequestTypes'
    BY <2>1, <2>2 DEF WindowTypes, RequestTypes
  <2> QED BY <1>1, <1>2, <2>1, <2>3, UpsetTypes
<1> QED BY <1>4, <1>5, <1>6, <1>7, <1>8, <1>9

------------------------------------------------------------------------------
(* What the invariant says. *)

LEMMA RequestIsTyped ==
  ASSUME TypeOK, NEW j \in jobs
  PROVE  /\ j \in Job /\ j.v \in Viewer /\ j.key \in Key /\ j.sel \in Sel /\ j.at \in Stage
         /\ j.n \in 1..MaxFiles /\ j.i \in 1..MaxFiles /\ j.n \in Nat /\ j.i \in Nat
         /\ rec[j.key] \in Record
BY JobFields DEF TypeOK

\* A pick that is in the input is the one the chain of requests sent.
LEMMA WholeIsSent == ASSUME NEW s \in Sel PROVE Whole(s) = Sent(s, sel[s].n)
BY DEF Whole, Sent

LEMMA GivenHead ==
  ASSUME TypeOK, GivenOK, NEW k \in Key, given[k] # <<>>
  PROVE  \E s \in Sel : /\ GivenOf(k, s) /\ given[k] = Whole(s) /\ sel[s].tab = rec[k].tab
                        /\ sel[s].n # 0
<1>1. PICK s \in Sel : sel[s].n # 0 /\ sel[s].tab = rec[k].tab /\ given[k] = Sent(s, sel[s].n)
  BY Zenon DEF GivenOK
<1>2. sel[s].n \in 0..MaxFiles
  BY DEF TypeOK, Selected
<1>3. Sent(s, sel[s].n)[1] = <<s, 1>>
  BY <1>1, <1>2, SentFiles
<1>4. GivenOf(k, s)
  BY <1>1, <1>3 DEF GivenOf
<1>5. given[k] = Whole(s)
  BY <1>1, WholeIsSent
<1> QED BY <1>1, <1>4, <1>5, Zenon

LEMMA PicksAreWhole == IInv => WholePicks
<1> SUFFICES ASSUME IInv PROVE WholePicks
  OBVIOUS
<1>1. TypeOK /\ GivenOK
  BY DEF IInv
<1>2. ASSUME NEW k \in Key, given[k] # <<>>
      PROVE  \E s \in Sel : sel[s].tab = rec[k].tab /\ given[k] = Whole(s)
  <2>1. PICK s \in Sel : given[k] = Whole(s) /\ sel[s].tab = rec[k].tab
    BY <1>1, <1>2, GivenHead, Zenon
  <2> QED BY <2>1, Zenon
<1>3. ASSUME NEW k \in Key, NEW l \in Key, k # l, given[k] # <<>>, given[k] = given[l]
      PROVE  FALSE
  <2>1. PICK s \in Sel : GivenOf(k, s)
    BY <1>1, <1>3, GivenHead, Zenon
  <2>2. GivenOf(l, s)
    BY <1>3, <2>1 DEF GivenOf
  <2> QED BY <1>1, <1>3, <2>1, <2>2, Zenon DEF GivenOK
<1> QED BY <1>1, <1>2, <1>3, Zenon DEF WholePicks

LEMMA LiveKeys == IInv => IsFiniteSet(Live) /\ Cardinality(Live) <= 1
<1> SUFFICES ASSUME IInv PROVE IsFiniteSet(Live) /\ Cardinality(Live) <= 1
  OBVIOUS
<1>1. \A k, l \in Live : k = l
  BY DEF IInv, OneLive
<1>2. CASE Live = {}
  BY <1>2, FS_EmptySet
<1>3. CASE Live # {}
  <2>1. PICK k : k \in Live
    BY <1>3
  <2>2. Live = {k}
    BY <1>1, <2>1, Zenon
  <2> HIDE DEF Live
  <2> QED BY <2>2, FS_Singleton
<1> QED BY <1>2, <1>3

LEMMA ChoosersEnd == IInv => ChooserEnds
<1> SUFFICES ASSUME IInv PROVE ChooserEnds
  OBVIOUS
<1>1. Cardinality(Live) <= 1
  BY LiveKeys
<1>2. ASSUME NEW k \in Key PROVE KeyOK(k)
  BY DEF IInv
<1>3. ASSUME NEW k \in Live PROVE rec[k].timer \/ \E j \in jobs : j.key = k /\ j.at # "sent"
  <2>1. k \in Key /\ rec[k].st \in {"pending", "batch"}
    BY DEF Live
  <2> QED BY <1>2, <2>1, Zenon DEF KeyOK
<1>4. ASSUME NEW k \in Key, rec[k].st = "over", node[k] = "waiting"
      PROVE  given[k] # <<>> \/ k \in cancels \cup cancelled
  BY <1>2, <1>4, Zenon DEF KeyOK
<1> QED BY <1>1, <1>3, <1>4, Zenon DEF ChooserEnds

LEMMA NothingStays == IInv => NothingLeft
<1> SUFFICES ASSUME IInv PROVE NothingLeft
  OBVIOUS
<1>1. dir \subseteq Key
  BY DEF IInv, TypeOK
<1>2. ASSUME NEW k \in Key PROVE KeyOK(k)
  BY DEF IInv
<1>3. ASSUME NEW k \in dir, rec[k].st = "over"
      PROVE  given[k] # <<>> \/ k \in removing \/ k \in late
  BY <1>1, <1>2, <1>3, Zenon DEF KeyOK
<1> QED BY <1>3, Zenon DEF NothingLeft

LEMMA InitIInv == Init => IInv
<1> SUFFICES ASSUME Init PROVE IInv
  OBVIOUS
<1>1. TypeOK
  BY TypedInit
<1>2. /\ rec = [k \in Key |-> NoRecord(NoTab)] /\ node = [k \in Key |-> "none"]
      /\ given = [k \in Key |-> <<>>] /\ dir = {} /\ jobs = {} /\ events = <<>>
      /\ told = [v \in Viewer |-> <<>>]
      /\ picks = [v \in Viewer |-> [t \in Tab |-> 0]]
      /\ selections = [v \in Viewer |-> [t \in Tab |-> 0]]
  BY DEF Init
<1>3. \A k \in Key : rec[k].st = "none" /\ node[k] = "none" /\ given[k] = <<>>
  BY <1>2 DEF NoRecord
<1>4. ASSUME NEW k \in Key PROVE KeyOK(k)
  <2>1. k \notin dir
    BY <1>2
  <2> QED BY <1>3, <2>1 DEF KeyOK
<1>5. JobsOK
  BY <1>2 DEF JobsOK
<1>6. ToldOK
  BY <1>2 DEF ToldOK
<1>7. PicksOK /\ SelectionsOK
  BY <1>2 DEF PicksOK, SelectionsOK
<1>8. GivenOK
  BY <1>3 DEF GivenOK, GivenOf
<1>9. EventsOK
  BY <1>2 DEF EventsOK
<1>10. OneLive
  BY <1>3 DEF OneLive, Live
<1> QED BY <1>1, <1>4, <1>5, <1>6, <1>7, <1>8, <1>9, <1>10 DEF IInv, StagedOK

------------------------------------------------------------------------------
(* What a step leaves as it is. *)

\* What is known of a key does not get less.
Same(k) == rec[k].st # "none" => rec'[k].st # "none" /\ rec'[k].tab = rec[k].tab

\* A record stays, begins to wait or is given up; a batch does not begin.
Steady(k) ==
  /\ Same(k)
  /\ rec[k].st \in {"batch", "over"} => rec'[k].st \in {"batch", "over"}
  /\ rec[k].st # "none" => rec'[k].files = rec[k].files
  /\ rec'[k].st = "batch" =>
       rec[k].st = "batch" /\ rec'[k].count = rec[k].count /\ rec'[k].next = rec[k].next

\* The picks that were made stay what they were.
PicksStay == \A s \in Sel : sel[s].n # 0 => sel'[s] = sel[s]

LEMMA SteadyJob ==
  ASSUME TypeOK, NEW j \in jobs, JobOK(j), Steady(j.key), PicksStay,
         UNCHANGED given
  PROVE  JobOK(j)'
<1>1. j.sel \in Sel /\ j.n \in 1..MaxFiles /\ j.n \in Nat /\ j.key \in Key
  BY RequestIsTyped
<1>2. /\ rec[j.key].st # "none" /\ sel[j.sel].tab = rec[j.key].tab /\ sel[j.sel].n = j.n
      /\ j.i <= j.n /\ (Started(j) => BatchOK(j))
      /\ \A k \in Key : GivenOf(k, j.sel) => j.at = "applied" /\ j.key = k
  BY DEF JobOK
<1>3. sel'[j.sel] = sel[j.sel]
  <2>1. sel[j.sel].n # 0
    BY <1>1, <1>2
  <2> QED BY <1>1, <2>1 DEF PicksStay
<1>4. rec'[j.key].st # "none" /\ rec'[j.key].tab = rec[j.key].tab
  BY <1>2 DEF Steady, Same
<1>5. Started(j) => BatchOK(j)'
  <2>1. SUFFICES ASSUME Started(j) PROVE BatchOK(j)'
    OBVIOUS
  <2>2. /\ rec[j.key].st \in {"batch", "over"}
        /\ rec[j.key].files = Sent(j.sel, Accepted(j))
        /\ rec[j.key].st = "batch" =>
             /\ rec[j.key].count = j.n
             /\ rec[j.key].next = IF j.at = "sent" THEN j.i - 1 ELSE j.i
        /\ j.at = "applied" => given[j.key] # <<>>
    BY <1>2, <2>1 DEF BatchOK
  <2>3. /\ rec'[j.key].st \in {"batch", "over"}
        /\ rec'[j.key].files = Sent(j.sel, Accepted(j))
        /\ rec'[j.key].st = "batch" =>
             /\ rec'[j.key].count = j.n
             /\ rec'[j.key].next = IF j.at = "sent" THEN j.i - 1 ELSE j.i
        /\ j.at = "applied" => given'[j.key] # <<>>
    BY <1>2, <2>2 DEF Steady
  <2> QED BY <2>3 DEF BatchOK
<1>6. \A k \in Key : GivenOf(k, j.sel)' => j.at = "applied" /\ j.key = k
  BY <1>2 DEF GivenOf
<1>7. /\ rec'[j.key].st # "none" /\ sel'[j.sel].tab = rec'[j.key].tab /\ sel'[j.sel].n = j.n
      /\ j.i <= j.n
  BY <1>2, <1>3, <1>4
<1> QED BY <1>5, <1>6, <1>7, Zenon DEF JobOK, Started

LEMMA SteadyJobs ==
  ASSUME TypeOK, JobsOK, \A k \in Key : Steady(k), PicksStay,
         UNCHANGED given, jobs' \subseteq jobs
  PROVE  JobsOK'
<1>1. ASSUME NEW j \in jobs' PROVE JobOK(j)'
  <2>1. j \in jobs /\ JobOK(j)
    BY DEF JobsOK
  <2>2. Steady(j.key)
    BY <2>1, RequestIsTyped
  <2> QED BY <2>1, <2>2, SteadyJob
<1>2. \A j, h \in jobs' : j.sel = h.sel => j = h
  BY DEF JobsOK
<1>3. \A j, h \in jobs' : j.key = h.key /\ Started(j) /\ Started(h) => j = h
  BY DEF JobsOK
<1> QED BY <1>1, <1>2, <1>3, Zenon DEF JobsOK, Started

LEMMA SteadyGiven ==
  ASSUME TypeOK, GivenOK, \A k \in Key : KeyOK(k), \A k \in Key : Same(k), PicksStay,
         UNCHANGED given
  PROVE  GivenOK'
<1>1. ASSUME NEW k \in Key, given'[k] # <<>>
      PROVE  \E s \in Sel : sel'[s].n # 0 /\ sel'[s].tab = rec'[k].tab
                            /\ given'[k] = Sent(s, sel'[s].n)
  <2>1. given[k] # <<>>
    BY <1>1
  <2>2. PICK s \in Sel : sel[s].n # 0 /\ sel[s].tab = rec[k].tab /\ given[k] = Sent(s, sel[s].n)
    BY <2>1, Zenon DEF GivenOK
  <2>3. sel'[s] = sel[s]
    BY <2>2 DEF PicksStay
  <2>4. rec[k].st # "none"
    BY <2>1 DEF KeyOK
  <2>5. rec'[k].tab = rec[k].tab
    BY <2>4 DEF Same
  <2>6. sel'[s].n # 0 /\ sel'[s].tab = rec'[k].tab /\ given'[k] = Sent(s, sel'[s].n)
    BY <2>2, <2>3, <2>5
  <2> QED BY <2>6, Zenon
<1>2. \A k, l \in Key, s \in Sel : GivenOf(k, s)' /\ GivenOf(l, s)' => k = l
  BY DEF GivenOf, GivenOK
<1> QED BY <1>1, <1>2, Zenon DEF GivenOK

LEMMA SteadyTold ==
  ASSUME TypeOK, ToldOK, \A k \in Key : Same(k), UNCHANGED told
  PROVE  ToldOK'
<1> SUFFICES ASSUME NEW v \in Viewer, NEW i \in 1..Len(told[v])
             PROVE  rec'[told[v][i]].st # "none"
  BY DEF ToldOK
<1>1. told[v][i] \in Key
  BY DEF TypeOK
<1>2. rec[told[v][i]].st # "none"
  BY DEF ToldOK
<1> QED BY <1>1, <1>2 DEF Same

LEMMA SteadyPicks ==
  ASSUME TypeOK, PicksOK, \A k \in Key : Same(k),
         \A v \in Viewer, t \in Tab : picks'[v][t] # 0 => picks'[v][t] = picks[v][t]
  PROVE  PicksOK'
<1> SUFFICES ASSUME NEW v \in Viewer, NEW t \in Tab, picks'[v][t] # 0
             PROVE  rec'[picks'[v][t]].st # "none" /\ rec'[picks'[v][t]].tab = t
  BY DEF PicksOK
<1> DEFINE k == picks[v][t]
<1>1. picks'[v][t] = k /\ k # 0
  OBVIOUS
<1>2. k \in Key
  <2>1. picks \in [Viewer -> [Tab -> 0..MaxKeys]]
    BY DEF TypeOK
  <2>2. picks[v][t] \in 0..MaxKeys
    BY <2>1, Zenon
  <2> QED BY <1>1, <2>2, BoundsAssumption DEF Key
<1>3. rec[k].st # "none" /\ rec[k].tab = t
  BY <1>1, Zenon DEF PicksOK
<1> QED BY <1>1, <1>2, <1>3 DEF Same

\* What a window has staged is one of the picks.
LEMMA SelectionInSel ==
  ASSUME TypeOK, NEW v \in Viewer, NEW t \in Tab, selections[v][t] # 0
  PROVE  selections[v][t] \in Sel
<1>1. selections \in [Viewer -> [Tab -> 0..MaxSels]]
  BY DEF TypeOK
<1>2. selections[v][t] \in 0..MaxSels
  BY <1>1, Zenon
<1> QED BY <1>2, BoundsAssumption DEF Sel

\* A pick that is staged stays so when no chain for it begins.
LEMMA SteadyUnsent ==
  ASSUME TypeOK, NEW v \in Viewer, NEW t \in Tab, selections[v][t] # 0, Unsent(v, t), PicksStay,
         selections'[v][t] = selections[v][t],
         \A w \in Viewer, u \in Tab :
           selections'[w][u] = selections[v][t] => selections[w][u] = selections[v][t],
         \A j \in jobs' : j.sel = selections[v][t] => \E h \in jobs : h.sel = j.sel,
         \A k \in Key : GivenOf(k, selections[v][t])' =>
            GivenOf(k, selections[v][t]) \/ \E h \in jobs : h.sel = selections[v][t]
  PROVE  Unsent(v, t)'
<1> DEFINE s == selections[v][t]
<1>1. s \in Sel
  BY SelectionInSel, Zenon
<1>2. /\ sel[s].tab = t /\ sel[s].n # 0
      /\ \A j \in jobs : j.sel # s
      /\ \A k \in Key : ~GivenOf(k, s)
      /\ \A w \in Viewer, u \in Tab : selections[w][u] = s => w = v /\ u = t
  BY DEF Unsent
<1>3. s = selections'[v][t]
  OBVIOUS
<1>4. \A j \in jobs' : j.sel # s
  BY <1>2
<1>5. \A k \in Key : ~GivenOf(k, s)'
  BY <1>2
<1>6. \A w \in Viewer, u \in Tab : selections'[w][u] = s => w = v /\ u = t
  BY <1>2
<1>7. sel'[s] = sel[s]
  BY <1>1, <1>2 DEF PicksStay
<1> HIDE DEF s
<1>8. sel'[s].tab = t /\ sel'[s].n # 0
  BY <1>2, <1>7
<1> QED BY <1>3, <1>4, <1>5, <1>6, <1>8, Zenon DEF Unsent, GivenOf

LEMMA SteadySelections ==
  ASSUME TypeOK, SelectionsOK, PicksStay,
         \A v \in Viewer, t \in Tab :
           selections'[v][t] # 0 => selections'[v][t] = selections[v][t],
         \A j \in jobs' : \E h \in jobs : h.sel = j.sel,
         \A k \in Key, s \in Sel : GivenOf(k, s)' => GivenOf(k, s) \/ \E h \in jobs : h.sel = s
  PROVE  SelectionsOK'
<1> SUFFICES ASSUME NEW v \in Viewer, NEW t \in Tab, selections'[v][t] # 0 PROVE Unsent(v, t)'
  BY DEF SelectionsOK
<1>1. selections[v][t] # 0 /\ selections'[v][t] = selections[v][t]
  OBVIOUS
<1>2. Unsent(v, t)
  BY <1>1 DEF SelectionsOK
<1>3. selections[v][t] \in Sel
  BY <1>1, SelectionInSel, Zenon
<1>4. \A w \in Viewer, u \in Tab :
        selections'[w][u] = selections[v][t] => selections[w][u] = selections[v][t]
  BY <1>1
<1>5. \A j \in jobs' : j.sel = selections[v][t] => \E h \in jobs : h.sel = j.sel
  OBVIOUS
<1>6. \A k \in Key : GivenOf(k, selections[v][t])' =>
        GivenOf(k, selections[v][t]) \/ \E h \in jobs : h.sel = selections[v][t]
  BY <1>3
<1> QED BY <1>1, <1>2, <1>4, <1>5, <1>6, SteadyUnsent

LEMMA SteadyLive ==
  ASSUME OneLive,
         \A k \in Key : rec'[k].st \in {"pending", "batch"} => rec[k].st \in {"pending", "batch"}
  PROVE  OneLive'
BY DEF OneLive, Live

LEMMA SteadyEvents ==
  ASSUME TypeOK, EventsOK, UNCHANGED events, \A k \in Key : node'[k] = node[k],
         \A k \in Key : rec'[k].tab = rec[k].tab /\ (rec[k].st = "none" => rec'[k].st = "none")
  PROVE  EventsOK'
<1>1. \A i, k : Announces(i, k)' <=> Announces(i, k)
  BY DEF Announces
<1>2. ASSUME NEW i \in 1..Len(events), NEW k \in Key, Announces(i, k)
      PROVE  /\ node'[k] # "none" /\ rec'[k].st = "none"
             /\ \A h \in 1..Len(events) : Announces(h, k)' => h = i
  BY <1>1, <1>2, Zenon DEF EventsOK
<1>3. ASSUME NEW i \in 1..Len(events), NEW k \in Key, events[i].e = "gone",
             node'[k] = "waiting", rec'[k].tab = events[i].tab
      PROVE  \E h \in 1..Len(events) : i < h /\ Announces(h, k)'
  <2>1. node[k] = "waiting" /\ rec[k].tab = events[i].tab
    BY <1>3
  <2> QED BY <1>1, <1>3, <2>1, Zenon DEF EventsOK
<1> QED BY <1>1, <1>2, <1>3, Zenon DEF EventsOK

\* A key that a step does not concern.
LEMMA SteadyKey ==
  ASSUME NEW k \in Key, KeyOK(k), rec'[k] = rec[k], given'[k] = given[k], node'[k] = node[k],
         k \in dir' => k \in dir,
         k \in dir' /\ k \in removing => k \in removing',
         k \in late => k \in late',
         k \in cancels \cup cancelled => k \in cancels' \cup cancelled',
         rec[k].st = "batch" /\ (\E j \in jobs : j.key = k /\ j.at # "sent") =>
           \E j \in jobs' : j.key = k /\ j.at # "sent"
  PROVE  KeyOK(k)'
<1> DEFINE r == rec[k]
<1>1. /\ node[k] # "none" => r.tab \in Tab
      /\ node[k] = "none" => r.st = "none"
      /\ r.st \in {"none", "pending"} => k \notin dir /\ given[k] = <<>>
      /\ r.st = "pending" => r.timer
      /\ r.st = "batch" => r.timer \/ \E j \in jobs : j.key = k /\ j.at # "sent"
      /\ r.st = "over" /\ node[k] = "waiting" => given[k] # <<>> \/ k \in cancels \cup cancelled
      /\ r.st = "over" /\ k \in dir => given[k] # <<>> \/ k \in removing \/ k \in late
  BY DEF KeyOK
<1>2. r.st = "batch" => r.timer \/ \E j \in jobs' : j.key = k /\ j.at # "sent"
  BY <1>1
<1>3. r = rec'[k] /\ given'[k] = given[k] /\ node'[k] = node[k]
  OBVIOUS
<1> HIDE DEF r
<1>4. /\ node'[k] # "none" => r.tab \in Tab
      /\ node'[k] = "none" => r.st = "none"
      /\ r.st \in {"none", "pending"} => k \notin dir' /\ given'[k] = <<>>
      /\ r.st = "pending" => r.timer
      /\ r.st = "over" /\ node'[k] = "waiting" =>
           given'[k] # <<>> \/ k \in cancels' \cup cancelled'
      /\ r.st = "over" /\ k \in dir' => given'[k] # <<>> \/ k \in removing' \/ k \in late'
  BY <1>1, <1>3
<1> QED BY <1>2, <1>3, <1>4, Zenon DEF KeyOK

LEMMA Parts ==
  ASSUME IInv
  PROVE  /\ TypeOK /\ \A k \in Key : KeyOK(k)
         /\ JobsOK /\ ToldOK /\ PicksOK /\ SelectionsOK /\ GivenOK /\ EventsOK /\ OneLive
BY DEF IInv, StagedOK

\* Steps after which what was published, staged, sent and given is as before.
LEMMA SteadyRest ==
  ASSUME IInv, \A k \in Key : Steady(k), UNCHANGED <<given, sel, picks, selections>>,
         jobs' \subseteq jobs
  PROVE  /\ JobsOK' /\ PicksOK' /\ SelectionsOK' /\ GivenOK'
         /\ told' = told => ToldOK'
<1>1. /\ TypeOK /\ \A k \in Key : KeyOK(k)
      /\ JobsOK /\ ToldOK /\ PicksOK /\ SelectionsOK /\ GivenOK
  BY Parts
<1>2. PicksStay /\ \A k \in Key : Same(k)
  BY DEF PicksStay, Steady
<1>3. UNCHANGED given
  OBVIOUS
<1>4. JobsOK'
  BY <1>1, <1>2, <1>3, SteadyJobs
<1>5. GivenOK'
  BY <1>1, <1>2, <1>3, SteadyGiven
<1>6. PicksOK'
  BY <1>1, <1>2, SteadyPicks
<1>7. SelectionsOK'
  <2>1. \A v \in Viewer, t \in Tab : selections'[v][t] # 0 => selections'[v][t] = selections[v][t]
    OBVIOUS
  <2>2. \A j \in jobs' : \E h \in jobs : h.sel = j.sel
    OBVIOUS
  <2>3. \A k \in Key, s \in Sel : GivenOf(k, s)' => GivenOf(k, s) \/ \E h \in jobs : h.sel = s
    BY DEF GivenOf
  <2> QED BY <1>1, <1>2, <2>1, <2>2, <2>3, SteadySelections
<1>8. ASSUME told' = told PROVE ToldOK'
  BY <1>1, <1>2, <1>8, SteadyTold
<1> QED BY <1>4, <1>5, <1>6, <1>7, <1>8

LEMMA Join ==
  ASSUME TypeOK', \A k \in Key : KeyOK(k)', JobsOK', ToldOK', PicksOK', SelectionsOK', GivenOK',
         EventsOK', OneLive'
  PROVE  IInv'
BY DEF IInv, StagedOK

\* Steps that change no record, no request and no file given.
LEMMA QuietStep ==
  ASSUME IInv, TypeOK', \A k \in Key : KeyOK(k)', EventsOK',
         UNCHANGED <<rec, jobs, given, sel, told, picks, selections>>
  PROVE  IInv'
<1>1. \A k \in Key : Steady(k)
  BY DEF Steady, Same
<1>2. UNCHANGED <<given, sel, picks, selections>> /\ jobs' \subseteq jobs /\ told' = told
  OBVIOUS
<1>3. JobsOK' /\ ToldOK' /\ PicksOK' /\ SelectionsOK' /\ GivenOK'
  BY <1>1, <1>2, SteadyRest
<1>4. OneLive'
  BY Parts, SteadyLive
<1> QED BY <1>3, <1>4, Join

------------------------------------------------------------------------------
(* The steps of the page. *)

LEMMA OpenInputStep == ASSUME IInv, TypeOK', NEW t \in Tab, OpenInput(t) PROVE IInv'
<1>1. PICK k \in Key, many \in BOOLEAN :
        /\ node[k] = "none"
        /\ node' = [node EXCEPT ![k] = "waiting"]
        /\ rec' = [rec EXCEPT ![k] = Opened(t, many)]
        /\ events' = Append(events, [e |-> "opened", key |-> k])
  BY DEF OpenInput, Opened
<1>2. UNCHANGED <<windows, jobs, closed, disk, given, cancels, cancelled>>
  BY DEF OpenInput
<1>3. /\ TypeOK /\ \A l \in Key : KeyOK(l)
      /\ ToldOK /\ EventsOK /\ OneLive
  BY Parts
<1>4. /\ node \in [Key -> {"none", "waiting", "lost"}] /\ rec \in [Key -> Record]
      /\ events \in Seq(Event)
  BY <1>3 DEF TypeOK, Event
<1>5. /\ node'[k] = "waiting" /\ rec'[k] = Opened(t, many)
      /\ \A l \in Key : l # k => node'[l] = node[l] /\ rec'[l] = rec[l]
  BY <1>1, <1>4
<1>6. Opened(t, many).st = "none" /\ Opened(t, many).tab = t
  BY OpenedRecord
<1>7. rec[k].st = "none" /\ k \notin dir /\ given[k] = <<>>
  BY <1>1, <1>3 DEF KeyOK
<1>8. ASSUME NEW l \in Key PROVE KeyOK(l)'
  <2>1. CASE l = k
    <3>1. /\ node'[k] = "waiting" /\ rec'[k].st = "none" /\ rec'[k].tab = t
          /\ k \notin dir' /\ given'[k] = <<>>
      BY <1>2, <1>5, <1>6, <1>7 DEF disk
    <3> QED BY <2>1, <3>1 DEF KeyOK
  <2>2. CASE l # k
    <3>1. /\ KeyOK(l) /\ rec'[l] = rec[l] /\ given'[l] = given[l] /\ node'[l] = node[l]
          /\ dir' = dir /\ removing' = removing /\ late' = late /\ cancels' = cancels
          /\ cancelled' = cancelled /\ jobs' = jobs
      BY <1>2, <1>3, <1>5, <2>2 DEF disk
    <3> QED BY <3>1, SteadyKey
  <2> QED BY <2>1, <2>2
<1>9. ASSUME NEW l \in Key PROVE Steady(l)
  <2>1. CASE l = k
    BY <2>1, <1>5, <1>6, <1>7 DEF Steady, Same
  <2>2. CASE l # k
    BY <2>2, <1>5 DEF Steady, Same
  <2> QED BY <2>1, <2>2
<1>10. JobsOK' /\ ToldOK' /\ PicksOK' /\ SelectionsOK' /\ GivenOK'
  <2>1. UNCHANGED <<given, sel, picks, selections>> /\ jobs' \subseteq jobs /\ told' = told
    BY <1>2 DEF windows
  <2> QED BY <1>9, <2>1, SteadyRest
<1>11. OneLive'
  <2>1. \A l \in Key : rec'[l].st \in {"pending", "batch"} => rec[l].st \in {"pending", "batch"}
    BY <1>5, <1>6
  <2> QED BY <1>3, <2>1, SteadyLive
<1>12. EventsOK'
  <2> DEFINE x == [e |-> "opened", key |-> k]
  <2>0. PICK n \in Nat : n = Len(events)
    BY <1>4
  <2>1. n \in Nat /\ Len(events') = n + 1
    BY <1>1, <1>4, <2>0
  <2>2. /\ events'[n + 1] = x /\ x.e = "opened" /\ x.key = k
        /\ \A i \in 1..n : events'[i] = events[i]
    BY <1>1, <1>4, <2>0
  <2> HIDE DEF x
  <2>3. /\ \A l \in Key : Announces(n + 1, l)' <=> l = k
        /\ \A i \in 1..n, l \in Key : Announces(i, l)' <=> Announces(i, l)
    BY <2>2 DEF Announces
  <2>4. /\ \A i \in 1..n, l \in Key : Announces(i, l) =>
             /\ node[l] # "none" /\ rec[l].st = "none"
             /\ \A h \in 1..n : Announces(h, l) => h = i
        /\ \A i \in 1..n, l \in Key :
             events[i].e = "gone" /\ node[l] = "waiting" /\ rec[l].tab = events[i].tab =>
               \E h \in 1..n : i < h /\ Announces(h, l)
    BY <1>3, <2>0 DEF EventsOK
  <2>5. \A i \in 1..n : ~Announces(i, k)
    BY <1>1, <2>4
  <2>6. ASSUME NEW i \in 1..(n + 1), NEW l \in Key, Announces(i, l)'
        PROVE  /\ node'[l] # "none" /\ rec'[l].st = "none"
               /\ \A h \in 1..(n + 1) : Announces(h, l)' => h = i
    <3>1. CASE i = n + 1
      <4>1. l = k
        BY <2>3, <2>6, <3>1
      <4>2. node'[l] # "none" /\ rec'[l].st = "none"
        BY <1>5, <1>6, <4>1
      <4>3. ASSUME NEW h \in 1..(n + 1), Announces(h, l)' PROVE h = i
        BY <2>1, <2>3, <2>5, <3>1, <4>1, <4>3
      <4> QED BY <4>2, <4>3
    <3>2. CASE i # n + 1
      <4>1. i \in 1..n
        BY <2>1, <3>2
      <4>2. Announces(i, l) /\ l # k
        BY <2>3, <2>5, <2>6, <4>1
      <4>3. node'[l] # "none" /\ rec'[l].st = "none"
        BY <1>5, <2>4, <4>1, <4>2
      <4>4. ASSUME NEW h \in 1..(n + 1), Announces(h, l)' PROVE h = i
        <5>1. h # n + 1
          BY <2>1, <2>3, <4>2, <4>4
        <5>2. h \in 1..n
          BY <2>1, <5>1
        <5> QED BY <2>3, <2>4, <4>1, <4>2, <4>4, <5>2
      <4> QED BY <4>3, <4>4
    <3> QED BY <3>1, <3>2
  <2>7. ASSUME NEW i \in 1..(n + 1), NEW l \in Key, events'[i].e = "gone", node'[l] = "waiting",
               rec'[l].tab = events'[i].tab
        PROVE  \E h \in 1..(n + 1) : i < h /\ Announces(h, l)'
    <3>1. i \in 1..n
      BY <2>1, <2>2, <2>7
    <3>2. CASE l = k
      <4>1. n + 1 \in 1..(n + 1) /\ i < n + 1 /\ Announces(n + 1, l)'
        BY <2>1, <2>3, <3>1, <3>2
      <4> QED BY <4>1, Zenon
    <3>3. CASE l # k
      <4>1. events[i].e = "gone" /\ node[l] = "waiting" /\ rec[l].tab = events[i].tab
        BY <1>5, <2>2, <2>7, <3>1, <3>3
      <4>2. PICK h \in 1..n : i < h /\ Announces(h, l)
        BY <2>4, <3>1, <4>1, Zenon
      <4>3. h \in 1..(n + 1) /\ i < h /\ Announces(h, l)'
        BY <2>1, <2>3, <4>2
      <4> QED BY <4>3, Zenon
    <3> QED BY <3>2, <3>3
  <2> QED BY <2>1, <2>6, <2>7, Zenon DEF EventsOK
<1> QED BY <1>8, <1>10, <1>11, <1>12, Join

LEMMA DocumentGoesStep == ASSUME IInv, TypeOK', NEW t \in Tab, DocumentGoes(t) PROVE IInv'
<1>1. /\ node' = [k \in Key |-> IF rec[k].tab = t /\ node[k] = "waiting" THEN "lost"
                                                                         ELSE node[k]]
      /\ events' = Append(events, [e |-> "gone", tab |-> t])
  BY DEF DocumentGoes
<1>2. UNCHANGED <<windows, jobs, rec, closed, disk, given, cancels, cancelled>>
  BY DEF DocumentGoes
<1>3. TypeOK /\ (\A l \in Key : KeyOK(l)) /\ EventsOK
  BY Parts
<1>4. events \in Seq(Event)
  BY <1>3 DEF TypeOK, Event
<1>5. ASSUME NEW l \in Key
      PROVE  /\ node'[l] = "waiting" => node[l] = "waiting" /\ rec[l].tab # t
             /\ node'[l] = "none" <=> node[l] = "none"
  BY <1>1
<1>6. ASSUME NEW l \in Key PROVE KeyOK(l)'
  <2>1. KeyOK(l)
    BY <1>3
  <2>2. /\ rec' = rec /\ given' = given /\ dir' = dir /\ removing' = removing /\ late' = late
        /\ cancels' = cancels /\ cancelled' = cancelled /\ jobs' = jobs
    BY <1>2 DEF disk
  <2>3. /\ node'[l] = "waiting" => node[l] = "waiting"
        /\ node'[l] = "none" <=> node[l] = "none"
    BY <1>5
  <2> QED BY <2>1, <2>2, <2>3, Zenon DEF KeyOK
<1>7. EventsOK'
  <2> DEFINE x == [e |-> "gone", tab |-> t]
  <2>0. PICK n \in Nat : n = Len(events)
    BY <1>4
  <2>1. n \in Nat /\ Len(events') = n + 1
    BY <1>1, <1>4, <2>0
  <2>2. /\ events'[n + 1] = x /\ x.e = "gone" /\ x.tab = t
        /\ \A i \in 1..n : events'[i] = events[i]
    BY <1>1, <1>4, <2>0
  <2> HIDE DEF x
  <2>3. /\ \A l \in Key : ~Announces(n + 1, l)'
        /\ \A i \in 1..n, l \in Key : Announces(i, l)' <=> Announces(i, l)
    BY <2>2 DEF Announces
  <2>4. /\ \A i \in 1..n, l \in Key : Announces(i, l) =>
             /\ node[l] # "none" /\ rec[l].st = "none"
             /\ \A h \in 1..n : Announces(h, l) => h = i
        /\ \A i \in 1..n, l \in Key :
             events[i].e = "gone" /\ node[l] = "waiting" /\ rec[l].tab = events[i].tab =>
               \E h \in 1..n : i < h /\ Announces(h, l)
    BY <1>3, <2>0 DEF EventsOK
  <2>5. ASSUME NEW i \in 1..(n + 1), NEW l \in Key, Announces(i, l)'
        PROVE  /\ node'[l] # "none" /\ rec'[l].st = "none"
               /\ \A h \in 1..(n + 1) : Announces(h, l)' => h = i
    <3>1. i \in 1..n
      BY <2>1, <2>3, <2>5
    <3>2. Announces(i, l)
      BY <2>3, <2>5, <3>1
    <3>3. node'[l] # "none" /\ rec'[l].st = "none"
      BY <1>2, <1>5, <2>4, <3>1, <3>2
    <3>4. ASSUME NEW h \in 1..(n + 1), Announces(h, l)' PROVE h = i
      <4>1. h \in 1..n
        BY <2>1, <2>3, <3>4
      <4> QED BY <2>3, <2>4, <3>1, <3>2, <3>4, <4>1
    <3> QED BY <3>3, <3>4
  <2>6. ASSUME NEW i \in 1..(n + 1), NEW l \in Key, events'[i].e = "gone", node'[l] = "waiting",
               rec'[l].tab = events'[i].tab
        PROVE  \E h \in 1..(n + 1) : i < h /\ Announces(h, l)'
    <3>1. node[l] = "waiting" /\ rec[l].tab # t /\ rec'[l] = rec[l]
      BY <1>2, <1>5, <2>6
    <3>2. i \in 1..n
      BY <2>1, <2>2, <2>6, <3>1
    <3>3. events[i].e = "gone" /\ rec[l].tab = events[i].tab
      BY <2>2, <2>6, <3>1, <3>2
    <3>4. PICK h \in 1..n : i < h /\ Announces(h, l)
      BY <2>4, <3>1, <3>2, <3>3, Zenon
    <3>5. h \in 1..(n + 1) /\ i < h /\ Announces(h, l)'
      BY <2>1, <2>3, <3>4
    <3> QED BY <3>5, Zenon
  <2> QED BY <2>1, <2>5, <2>6, Zenon DEF EventsOK
<1>8. UNCHANGED <<rec, jobs, given, sel, told, picks, selections>>
  BY <1>2 DEF windows
<1> QED BY <1>6, <1>7, <1>8, QuietStep

LEMMA CancelArrivesStep == ASSUME IInv, TypeOK', NEW k \in Key, CancelArrives(k) PROVE IInv'
<1>1. UNCHANGED <<windows, jobs, rec, closed, disk, node, given, events>>
  BY DEF CancelArrives
<1>2. TypeOK /\ (\A l \in Key : KeyOK(l)) /\ EventsOK
  BY Parts
<1>3. ASSUME NEW l \in Key PROVE KeyOK(l)'
  <2>1. KeyOK(l)
    BY <1>2
  <2>2. /\ rec' = rec /\ given' = given /\ dir' = dir /\ removing' = removing /\ late' = late
        /\ node' = node /\ jobs' = jobs
    BY <1>1 DEF disk
  <2>3. node[l] = "waiting" /\ l \in cancels \cup cancelled => l \in cancels' \cup cancelled'
    BY DEF CancelArrives
  <2> QED BY <2>1, <2>2, <2>3, Zenon DEF KeyOK
<1>4. EventsOK'
  <2>1. UNCHANGED events /\ (\A l \in Key : node'[l] = node[l])
        /\ (\A l \in Key : rec'[l].tab = rec[l].tab /\ (rec[l].st = "none" => rec'[l].st = "none"))
    BY <1>1
  <2> QED BY <1>2, <2>1, SteadyEvents
<1>5. UNCHANGED <<rec, jobs, given, sel, told, picks, selections>>
  BY <1>1 DEF windows
<1> QED BY <1>3, <1>4, <1>5, QuietStep

------------------------------------------------------------------------------
(* A request goes on. *)

LEMMA OtherJob ==
  ASSUME TypeOK, JobsOK, NEW j \in jobs, NEW g \in jobs, g # j, UNCHANGED sel,
         \A k \in Key : k # j.key => rec'[k] = rec[k] /\ given'[k] = given[k],
         Same(j.key), g.key = j.key => ~Started(g),
         \A k \in Key, s \in Sel : s # j.sel /\ GivenOf(k, s)' => GivenOf(k, s)
  PROVE  JobOK(g)'
<1>1. /\ g.sel \in Sel /\ g.key \in Key /\ g.sel # j.sel /\ JobOK(g)
  BY RequestIsTyped DEF JobsOK
<1>2. /\ rec[g.key].st # "none" /\ sel[g.sel].tab = rec[g.key].tab /\ sel[g.sel].n = g.n
      /\ g.i <= g.n /\ (Started(g) => BatchOK(g))
      /\ \A k \in Key : GivenOf(k, g.sel) => g.at = "applied" /\ g.key = k
  BY <1>1 DEF JobOK
<1>3. rec'[g.key].st # "none" /\ rec'[g.key].tab = rec[g.key].tab
  <2>1. CASE g.key = j.key
    BY <1>2, <2>1 DEF Same
  <2>2. CASE g.key # j.key
    <3>1. rec'[g.key] = rec[g.key]
      BY <1>1, <2>2
    <3> QED BY <1>2, <3>1
  <2> QED BY <2>1, <2>2
<1>4. Started(g) => BatchOK(g)'
  <2> SUFFICES ASSUME Started(g) PROVE BatchOK(g)'
    OBVIOUS
  <2>1. g.key # j.key /\ BatchOK(g)
    BY <1>2
  <2>2. rec'[g.key] = rec[g.key] /\ given'[g.key] = given[g.key]
    BY <1>1, <2>1
  <2> QED BY <2>1, <2>2 DEF BatchOK
<1>5. \A k \in Key : GivenOf(k, g.sel)' => g.at = "applied" /\ g.key = k
  BY <1>1, <1>2
<1>6. /\ rec'[g.key].st # "none" /\ sel'[g.sel].tab = rec'[g.key].tab /\ sel'[g.sel].n = g.n
      /\ g.i <= g.n
  BY <1>2, <1>3
<1> QED BY <1>4, <1>5, <1>6, Zenon DEF JobOK, Started

LEMMA MovedJobs ==
  ASSUME TypeOK, JobsOK, NEW j \in jobs, NEW h \in Job, h.key = j.key, h.sel = j.sel,
         jobs' = (jobs \ {j}) \cup {h}, JobOK(h)', UNCHANGED sel,
         \A k \in Key : k # j.key => rec'[k] = rec[k] /\ given'[k] = given[k],
         Same(j.key), \A g \in jobs : g # j /\ g.key = j.key => ~Started(g),
         \A k \in Key, s \in Sel : s # j.sel /\ GivenOf(k, s)' => GivenOf(k, s)
  PROVE  JobsOK'
<1>1. ASSUME NEW g \in jobs' PROVE JobOK(g)'
  <2>1. CASE g = h
    BY <2>1
  <2>2. CASE g # h
    <3>1. g \in jobs /\ g # j
      BY <2>2
    <3> QED BY <3>1, OtherJob
  <2> QED BY <2>1, <2>2
<1>2. \A f, g \in jobs' : f.sel = g.sel => f = g
  BY DEF JobsOK
<1>3. \A f, g \in jobs' : f.key = g.key /\ Started(f) /\ Started(g) => f = g
  BY DEF JobsOK
<1> QED BY <1>1, <1>2, <1>3, Zenon DEF JobsOK, Started

LEMMA MovedStep ==
  ASSUME IInv, TypeOK', NEW j \in jobs, NEW h \in Job, h.key = j.key, h.sel = j.sel,
         jobs' = (jobs \ {j}) \cup {h}, JobOK(h)', KeyOK(j.key)', GivenOK',
         UNCHANGED <<sel, told, picks, selections, node, cancels, cancelled, removing, events>>,
         \A k \in Key : k # j.key =>
           /\ rec'[k] = rec[k] /\ given'[k] = given[k]
           /\ k \in dir' => k \in dir
           /\ k \in late => k \in late',
         Same(j.key), \A g \in jobs : g # j /\ g.key = j.key => ~Started(g),
         rec'[j.key].st \in {"pending", "batch"} => rec[j.key].st \in {"pending", "batch"},
         \A k \in Key, s \in Sel : s # j.sel /\ GivenOf(k, s)' => GivenOf(k, s)
  PROVE  IInv'
<1>1. /\ TypeOK /\ \A k \in Key : KeyOK(k)
      /\ JobsOK /\ ToldOK /\ PicksOK /\ SelectionsOK /\ EventsOK /\ OneLive
  BY Parts
<1>2. j.key \in Key /\ j.sel \in Sel /\ rec[j.key].st # "none"
  BY <1>1, RequestIsTyped DEF JobsOK, JobOK
<1>3. JobsOK'
  BY <1>1, MovedJobs
<1>4. \A k \in Key : Same(k)
  BY DEF Same
<1>5. ToldOK'
  <2>1. UNCHANGED told
    OBVIOUS
  <2> QED BY <1>1, <1>4, <2>1, SteadyTold
<1>6. PicksOK'
  <2>1. \A v \in Viewer, t \in Tab : picks'[v][t] # 0 => picks'[v][t] = picks[v][t]
    OBVIOUS
  <2> QED BY <1>1, <1>4, <2>1, SteadyPicks
<1>7. SelectionsOK'
  <2>1. \A v \in Viewer, t \in Tab : selections'[v][t] # 0 => selections'[v][t] = selections[v][t]
    OBVIOUS
  <2>2. \A g \in jobs' : \E f \in jobs : f.sel = g.sel
    OBVIOUS
  <2>3. \A k \in Key, s \in Sel : GivenOf(k, s)' => GivenOf(k, s) \/ \E f \in jobs : f.sel = s
    OBVIOUS
  <2>4. PicksStay
    BY DEF PicksStay
  <2> QED BY <1>1, <2>1, <2>2, <2>3, <2>4, SteadySelections
<1>8. EventsOK'
  <2>1. \A k \in Key : node'[k] = node[k]
    OBVIOUS
  <2>2. \A k \in Key : rec'[k].tab = rec[k].tab /\ (rec[k].st = "none" => rec'[k].st = "none")
    BY <1>2 DEF Same
  <2>3. UNCHANGED events
    OBVIOUS
  <2> QED BY <1>1, <2>1, <2>2, <2>3, SteadyEvents
<1>9. OneLive'
  <2>1. \A k \in Key : rec'[k].st \in {"pending", "batch"} => rec[k].st \in {"pending", "batch"}
    OBVIOUS
  <2> QED BY <1>1, <2>1, SteadyLive
<1>10. ASSUME NEW k \in Key PROVE KeyOK(k)'
  <2>1. CASE k = j.key
    BY <2>1
  <2>2. CASE k # j.key
    <3>1. /\ KeyOK(k) /\ rec'[k] = rec[k] /\ given'[k] = given[k] /\ node'[k] = node[k]
          /\ k \in dir' => k \in dir
          /\ k \in dir' /\ k \in removing => k \in removing'
          /\ k \in late => k \in late'
          /\ k \in cancels \cup cancelled => k \in cancels' \cup cancelled'
      BY <1>1, <2>2
    <3>2. ASSUME NEW g \in jobs, g.key = k, g.at # "sent"
          PROVE  \E f \in jobs' : f.key = k /\ f.at # "sent"
      BY <2>2, <3>2
    <3> QED BY <3>1, <3>2, SteadyKey
  <2> QED BY <2>1, <2>2
<1> QED BY <1>3, <1>5, <1>6, <1>7, <1>8, <1>9, <1>10, Join

\* Of the requests under a key one at most was accepted.
LEMMA OnlyStarted ==
  ASSUME JobsOK, NEW j \in jobs, Started(j)
  PROVE  \A g \in jobs : g # j /\ g.key = j.key => ~Started(g)
BY DEF JobsOK

\* An accepted request and its batch.
LEMMA StartedJob ==
  ASSUME IInv, NEW j \in jobs, j.at # "sent"
  PROVE  /\ Started(j) /\ BatchOK(j) /\ JobOK(j)
         /\ rec[j.key].st \in {"batch", "over"}
         /\ j.key \in Key /\ j.sel \in Sel /\ j.i <= j.n /\ sel[j.sel].n = j.n
         /\ sel[j.sel].tab = rec[j.key].tab
<1>1. JobOK(j) /\ TypeOK
  BY DEF IInv, JobsOK
<1>2. Started(j)
  BY DEF Started
<1>3. BatchOK(j)
  BY <1>1, <1>2 DEF JobOK
<1> QED BY <1>1, <1>2, <1>3, RequestIsTyped DEF BatchOK, JobOK

LEMMA TakeFilesStep == ASSUME IInv, TypeOK', NEW j \in jobs, TakeFiles(j) PROVE IInv'
<1>0. PICK a \in {"applied", "refused"} : a = "applied" <=> node[j.key] = "waiting"
  OBVIOUS
<1> DEFINE k == j.key
           h == [j EXCEPT !.at = a]
<1>1. UNCHANGED <<windows, rec, closed, disk, node, cancels, cancelled, events>>
  BY DEF TakeFiles
<1>2. /\ j.at = "apply" /\ jobs' = (jobs \ {j}) \cup {h}
      /\ node[k] = "waiting" => given' = [given EXCEPT ![k] = rec[k].files]
      /\ node[k] # "waiting" => given' = given
  BY <1>0 DEF TakeFiles
<1>3. /\ TypeOK /\ GivenOK /\ JobsOK /\ \A l \in Key : KeyOK(l)
      /\ j \in Job /\ j.n \in 1..MaxFiles /\ j.n \in Nat /\ j.i \in Nat
  BY Parts, RequestIsTyped
<1>4. /\ Started(j) /\ BatchOK(j) /\ JobOK(j) /\ rec[k].st \in {"batch", "over"}
      /\ k \in Key /\ j.sel \in Sel /\ j.i <= j.n /\ sel[j.sel].n = j.n
      /\ sel[j.sel].tab = rec[k].tab
  BY <1>2, StartedJob
<1>5. a \in Stage /\ a # "sent" /\ a \notin {"sent", "directory", "body"}
      /\ (a = "applied" <=> node[k] = "waiting")
  BY <1>0 DEF Stage
<1>6. /\ h \in Job /\ h.key = k /\ h.sel = j.sel /\ h.n = j.n /\ h.i = j.i /\ h.at = a
  BY <1>3, <1>5, JobMoves
<1> HIDE DEF h
<1>7. /\ rec[k].files = Sent(j.sel, j.n)
      /\ rec[k].st = "batch" => rec[k].count = j.n /\ rec[k].next = j.i
  BY <1>2, <1>4 DEF BatchOK, Accepted
<1>8. Sent(j.sel, j.n) # <<>> /\ Sent(j.sel, j.n)[1] = <<j.sel, 1>>
  <2>1. j.n \in 0..MaxFiles /\ j.n # 0
    BY <1>3
  <2> QED BY <1>4, <2>1, SentFiles
<1>9. /\ given \in [Key -> Seq(File)]
      /\ node[k] = "waiting" => given'[k] = Sent(j.sel, j.n)
      /\ \A l \in Key : l # k => given'[l] = given[l]
  BY <1>2, <1>3, <1>4, <1>7 DEF TypeOK
<1>10. \A l \in Key : ~GivenOf(l, j.sel)
  BY <1>2, <1>4 DEF JobOK
<1>11. \A l \in Key : GivenOf(l, j.sel)' => a = "applied" /\ l = k
  <2> SUFFICES ASSUME NEW l \in Key, GivenOf(l, j.sel)' PROVE a = "applied" /\ l = k
    OBVIOUS
  <2>1. given'[l] # given[l]
    BY <1>10 DEF GivenOf
  <2> QED BY <1>2, <1>5, <1>9, <2>1
<1>12. \A l \in Key, s \in Sel : s # j.sel /\ GivenOf(l, s)' => GivenOf(l, s)
  <2> SUFFICES ASSUME NEW l \in Key, NEW s \in Sel, s # j.sel, GivenOf(l, s)'
               PROVE  GivenOf(l, s)
    OBVIOUS
  <2>1. given'[l] # <<>> /\ given'[l][1] = <<s, 1>>
    BY DEF GivenOf
  <2>2. given'[l] = given[l]
    <3>1. CASE l = k /\ node[k] = "waiting"
      BY <1>8, <1>9, <2>1, <3>1
    <3>2. CASE ~(l = k /\ node[k] = "waiting")
      BY <1>2, <1>9, <3>2
    <3> QED BY <3>1, <3>2
  <2> QED BY <2>1, <2>2 DEF GivenOf
<1>13. JobOK(h)'
  <2>1. BatchOK(h)'
    <3>1. Accepted(h) = j.n
      BY <1>5, <1>6 DEF Accepted
    <3>2. h.at = "applied" => given'[k] # <<>>
      BY <1>5, <1>6, <1>8, <1>9
    <3>3. rec' = rec
      BY <1>1
    <3>4. /\ rec'[h.key].st \in {"batch", "over"}
          /\ rec'[h.key].files = Sent(h.sel, Accepted(h))
          /\ rec'[h.key].st = "batch" =>
               /\ rec'[h.key].count = h.n
               /\ rec'[h.key].next = IF h.at = "sent" THEN h.i - 1 ELSE h.i
          /\ h.at = "applied" => given'[h.key] # <<>>
      BY <1>4, <1>5, <1>6, <1>7, <3>1, <3>2, <3>3
    <3> QED BY <3>4 DEF BatchOK, Accepted
  <2>2. /\ rec'[h.key].st # "none" /\ sel'[h.sel].tab = rec'[h.key].tab /\ sel'[h.sel].n = h.n
        /\ h.i <= h.n
    BY <1>1, <1>4, <1>6 DEF windows
  <2>3. \A l \in Key : GivenOf(l, h.sel)' => h.at = "applied" /\ h.key = l
    BY <1>6, <1>11
  <2> QED BY <2>1, <2>2, <2>3, Zenon DEF JobOK
<1>14. KeyOK(k)'
  <2>1. KeyOK(k)
    BY <1>3, <1>4
  <2>2. rec' = rec /\ node' = node /\ cancels' = cancels /\ cancelled' = cancelled
        /\ dir' = dir /\ removing' = removing /\ late' = late
    BY <1>1 DEF disk
  <2>3. \E g \in jobs' : g.key = k /\ g.at # "sent"
    BY <1>2, <1>5, <1>6
  <2>4. given'[k] # <<>> \/ given'[k] = given[k]
    BY <1>2, <1>8, <1>9
  <2>5. rec[k].st \notin {"none", "pending"}
    BY <1>4
  <2> HIDE DEF k
  <2> QED BY <2>1, <2>2, <2>3, <2>4, <2>5, Zenon DEF KeyOK
<1>15. GivenOK'
  <2>1. sel' = sel /\ rec' = rec
    BY <1>1 DEF windows
  <2>2. ASSUME NEW l \in Key, given'[l] # <<>>
        PROVE  \E s \in Sel : sel[s].n # 0 /\ sel[s].tab = rec[l].tab
                              /\ given'[l] = Sent(s, sel[s].n)
    <3>1. CASE l = k /\ node[k] = "waiting"
      <4>1. /\ sel[j.sel].n # 0 /\ sel[j.sel].tab = rec[l].tab
            /\ given'[l] = Sent(j.sel, sel[j.sel].n)
        BY <1>3, <1>4, <1>9, <3>1
      <4> QED BY <1>4, <4>1, Zenon
    <3>2. CASE ~(l = k /\ node[k] = "waiting")
      <4>1. given'[l] = given[l]
        BY <1>2, <1>9, <3>2
      <4> QED BY <1>3, <2>2, <4>1, Zenon DEF GivenOK
    <3> QED BY <3>1, <3>2
  <2>3. ASSUME NEW l \in Key, NEW m \in Key, NEW s \in Sel, GivenOf(l, s)', GivenOf(m, s)'
        PROVE  l = m
    <3>1. CASE s = j.sel
      BY <1>11, <2>3, <3>1
    <3>2. CASE s # j.sel
      <4>1. GivenOf(l, s) /\ GivenOf(m, s)
        BY <1>12, <2>3, <3>2
      <4> QED BY <1>3, <4>1, Zenon DEF GivenOK
    <3> QED BY <3>1, <3>2
  <2> QED BY <2>1, <2>2, <2>3, Zenon DEF GivenOK
<1>16. /\ UNCHANGED <<sel, told, picks, selections, node, cancels, cancelled, removing, events>>
       /\ rec' = rec /\ dir' = dir /\ late' = late
  BY <1>1 DEF windows, disk
<1>17. /\ \A l \in Key : l # j.key =>
            /\ rec'[l] = rec[l] /\ given'[l] = given[l]
            /\ l \in dir' => l \in dir
            /\ l \in late => l \in late'
       /\ Same(j.key)
       /\ rec'[j.key].st \in {"pending", "batch"} => rec[j.key].st \in {"pending", "batch"}
       /\ h.key = j.key /\ h.sel = j.sel
  BY <1>6, <1>9, <1>16 DEF Same
<1>18. \A g \in jobs : g # j /\ g.key = j.key => ~Started(g)
  BY <1>3, <1>4, OnlyStarted
<1>19. UNCHANGED <<sel, told, picks, selections, node, cancels, cancelled, removing, events>>
  BY <1>16
<1> QED BY <1>2, <1>6, <1>12, <1>13, <1>14, <1>15, <1>17, <1>18, <1>19, MovedStep

\* A request whose chain is not through goes on; nothing is given to an input.
LEMMA RequestStep ==
  ASSUME IInv, TypeOK', NEW j \in jobs, j.at # "applied", NEW h \in Job,
         h.key = j.key, h.sel = j.sel, h.n = j.n, h.i <= h.n,
         jobs' = (jobs \ {j}) \cup {h}, BatchOK(h)', KeyOK(j.key)',
         UNCHANGED <<sel, told, picks, selections, node, given, cancels, cancelled, removing,
                     events>>,
         \A k \in Key : k # j.key =>
           /\ rec'[k] = rec[k]
           /\ k \in dir' => k \in dir
           /\ k \in late => k \in late',
         Same(j.key), \A g \in jobs : g # j /\ g.key = j.key => ~Started(g),
         rec'[j.key].st \in {"pending", "batch"} => rec[j.key].st \in {"pending", "batch"}
  PROVE  IInv'
<1>1. TypeOK /\ JobsOK /\ GivenOK /\ (\A k \in Key : KeyOK(k)) /\ JobOK(j)
  BY Parts DEF JobsOK
<1>2. given' = given /\ sel' = sel
  OBVIOUS
<1>3. \A k \in Key, s \in Sel : GivenOf(k, s)' => GivenOf(k, s)
  BY <1>2 DEF GivenOf
<1>4. JobOK(h)'
  <2>1. /\ rec[j.key].st # "none" /\ sel[j.sel].tab = rec[j.key].tab /\ sel[j.sel].n = j.n
        /\ \A k \in Key : ~GivenOf(k, j.sel)
    BY <1>1 DEF JobOK
  <2>2. rec'[j.key].st # "none" /\ rec'[j.key].tab = rec[j.key].tab
    BY <2>1 DEF Same
  <2>3. /\ rec'[h.key].st # "none" /\ sel'[h.sel].tab = rec'[h.key].tab /\ sel'[h.sel].n = h.n
        /\ h.i <= h.n
    BY <1>2, <2>1, <2>2
  <2>4. \A k \in Key : ~GivenOf(k, h.sel)'
    BY <1>2, <2>1 DEF GivenOf
  <2> QED BY <2>3, <2>4, Zenon DEF JobOK
<1>5. \A k \in Key : Same(k)
  BY DEF Same
<1>6. GivenOK'
  <2>1. PicksStay /\ UNCHANGED given
    BY <1>2 DEF PicksStay
  <2> QED BY <1>1, <1>5, <2>1, SteadyGiven
<1>7. \A k \in Key : k # j.key =>
        /\ rec'[k] = rec[k] /\ given'[k] = given[k]
        /\ k \in dir' => k \in dir
        /\ k \in late => k \in late'
  BY <1>2
<1>8. UNCHANGED <<sel, told, picks, selections, node, cancels, cancelled, removing, events>>
  OBVIOUS
<1>9. \A k \in Key, s \in Sel : s # j.sel /\ GivenOf(k, s)' => GivenOf(k, s)
  BY <1>3
<1> QED BY <1>4, <1>6, <1>7, <1>8, <1>9, MovedStep

\* A request ends, and its batch goes on with no request or was over.
LEMMA RequestEnds ==
  ASSUME IInv, TypeOK', NEW j \in jobs, j.at = "sent" \/ rec[j.key].st = "over",
         jobs' = jobs \ {j}, UNCHANGED <<windows, rec, closed, disk, page, events>>
  PROVE  IInv'
<1>1. TypeOK /\ EventsOK /\ OneLive /\ \A k \in Key : KeyOK(k)
  BY Parts
<1>2. UNCHANGED <<given, sel, picks, selections>> /\ told' = told
  BY DEF windows, page
<1>3. \A k \in Key : Steady(k)
  BY DEF Steady, Same
<1>4. JobsOK' /\ ToldOK' /\ PicksOK' /\ SelectionsOK' /\ GivenOK'
  <2>1. jobs' \subseteq jobs
    OBVIOUS
  <2> QED BY <1>2, <1>3, <2>1, SteadyRest
<1>5. EventsOK'
  <2>1. /\ \A k \in Key : node'[k] = node[k]
        /\ UNCHANGED events
        /\ \A k \in Key : rec'[k].tab = rec[k].tab /\ (rec[k].st = "none" => rec'[k].st = "none")
    BY DEF page
  <2> QED BY <1>1, <2>1, SteadyEvents
<1>6. OneLive'
  BY <1>1, SteadyLive
<1>7. ASSUME NEW k \in Key PROVE KeyOK(k)'
  <2>1. /\ KeyOK(k) /\ rec'[k] = rec[k] /\ given'[k] = given[k] /\ node'[k] = node[k]
        /\ dir' = dir /\ removing' = removing /\ late' = late /\ cancels' = cancels
        /\ cancelled' = cancelled
    BY <1>1 DEF page, disk
  <2>2. ASSUME NEW g \in jobs, g.key = k, g.at # "sent", rec[k].st = "batch"
        PROVE  \E f \in jobs' : f.key = k /\ f.at # "sent"
    <3>1. g \in jobs'
      BY <2>2
    <3> QED BY <2>2, <3>1
  <2> QED BY <2>1, <2>2, SteadyKey
<1> QED BY <1>4, <1>5, <1>6, <1>7, Join

LEMMA UploadStep == ASSUME IInv, TypeOK', NEW j \in jobs, Upload(j) PROVE IInv'
<1> DEFINE k == j.key
           r == rec[k]
           h == [j EXCEPT !.at = "directory"]
<1>1. UNCHANGED <<windows, closed, disk, page, events>> /\ j.at = "sent"
  BY DEF Upload
<1>2. /\ TypeOK /\ JobsOK /\ JobOK(j) /\ KeyOK(k) /\ j \in Job /\ k \in Key /\ j.sel \in Sel
      /\ j.n \in 1..MaxFiles /\ j.i \in 1..MaxFiles /\ j.n \in Nat /\ j.i \in Nat /\ r \in Record
      /\ rec \in [Key -> Record]
  BY Parts, RequestIsTyped DEF JobsOK, TypeOK
<1>3. /\ r.st # "none" /\ j.i <= j.n
      /\ Started(j) => BatchOK(j)
  BY <1>2 DEF JobOK
<1>4. /\ h \in Job /\ h.key = k /\ h.sel = j.sel /\ h.n = j.n /\ h.i = j.i /\ h.at = "directory"
  <2>1. "directory" \in Stage
    BY DEF Stage
  <2> QED BY <1>2, <2>1, JobMoves
<1> HIDE DEF h
<1>5. UNCHANGED <<sel, told, picks, selections, node, given, cancels, cancelled, removing, events>>
      /\ dir' = dir /\ late' = late
  BY <1>1 DEF windows, disk, page
<1>6. Accepted(h) = j.i - 1
  BY <1>4 DEF Accepted
<1>7. ASSUME NEW q \in Record, rec' = [rec EXCEPT ![k] = q], jobs' = (jobs \ {j}) \cup {h},
             q.st = "batch", q.tab = r.tab, q.count = j.n, q.next = j.i,
             q.files = Sent(j.sel, j.i - 1), r.st \in {"pending", "batch"},
             \A g \in jobs : g # j /\ g.key = k => ~Started(g)
      PROVE  IInv'
  <2>1. rec'[k] = q /\ \A l \in Key : l # k => rec'[l] = rec[l]
    BY <1>2, <1>7
  <2>2. BatchOK(h)'
    <3>1. /\ rec'[h.key].st \in {"batch", "over"}
          /\ rec'[h.key].files = Sent(h.sel, Accepted(h))
          /\ rec'[h.key].st = "batch" =>
               /\ rec'[h.key].count = h.n
               /\ rec'[h.key].next = IF h.at = "sent" THEN h.i - 1 ELSE h.i
          /\ h.at # "applied"
      BY <1>4, <1>6, <1>7, <2>1
    <3> QED BY <3>1 DEF BatchOK, Accepted
  <2>3. KeyOK(k)'
    <3>1. /\ node[k] # "none" => r.tab \in Tab
          /\ node[k] = "none" => r.st = "none"
      BY <1>2 DEF KeyOK
    <3>2. \E g \in jobs' : g.key = k /\ g.at # "sent"
      BY <1>4, <1>7
    <3>3. /\ rec'[k].tab = r.tab /\ rec'[k].st = "batch" /\ r.st # "none" /\ node' = node
      BY <1>3, <1>5, <1>7, <2>1
    <3> HIDE DEF r, k
    <3> QED BY <3>1, <3>2, <3>3, Zenon DEF KeyOK
  <2>4. /\ \A l \in Key : l # j.key =>
            /\ rec'[l] = rec[l]
            /\ l \in dir' => l \in dir
            /\ l \in late => l \in late'
        /\ rec'[j.key].st \in {"pending", "batch"} => rec[j.key].st \in {"pending", "batch"}
    BY <1>5, <1>7, <2>1
  <2>5. Same(j.key)
    BY <1>7, <2>1 DEF Same
  <2>6. /\ h.key = j.key /\ h.sel = j.sel /\ h.n = j.n /\ h.i <= h.n
        /\ j.at # "applied"
    BY <1>1, <1>3, <1>4
  <2>7. UNCHANGED <<sel, told, picks, selections, node, given, cancels, cancelled, removing,
                    events>>
    BY <1>5
  <2>8. \A g \in jobs : g # j /\ g.key = j.key => ~Started(g)
    BY <1>7
  <2>9. KeyOK(j.key)' /\ jobs' = (jobs \ {j}) \cup {h}
    BY <1>7, <2>3
  <2> QED BY <1>4, <2>2, <2>4, <2>5, <2>6, <2>7, <2>8, <2>9, RequestStep
<1>8. CASE /\ CanClaim(j) /\ rec' = [rec EXCEPT ![k] = Claim(@, j.n)]
           /\ jobs' = (jobs \ {j}) \cup {h}
  <2> DEFINE q == Claim(r, j.n)
  <2>1. rec' = [rec EXCEPT ![k] = q]
    BY <1>2, <1>8
  <2>2. j.i = 1 /\ r.st = "pending"
    BY <1>8 DEF CanClaim
  <2>3. /\ q \in Record /\ q.st = "batch" /\ q.tab = r.tab /\ q.files = <<>>
        /\ q.count = j.n /\ q.next = 1
    BY <1>2, ClaimRecord
  <2> HIDE DEF q
  <2>4. q.files = Sent(j.sel, j.i - 1)
    BY <2>2, <2>3, SentNothing
  <2>5. ASSUME NEW g \in jobs, g.key = k, Started(g) PROVE FALSE
    <3>1. JobOK(g)
      BY <1>2 DEF JobsOK
    <3>2. BatchOK(g)
      BY <2>5, <3>1 DEF JobOK
    <3> QED BY <2>2, <2>5, <3>2 DEF BatchOK
  <2>6. /\ q.next = j.i /\ r.st \in {"pending", "batch"} /\ jobs' = (jobs \ {j}) \cup {h}
        /\ \A g \in jobs : g # j /\ g.key = k => ~Started(g)
    BY <1>8, <2>2, <2>3, <2>5
  <2> QED BY <1>7, <2>1, <2>3, <2>4, <2>6
<1>9. CASE /\ CanExtend(j) /\ rec' = [rec EXCEPT ![k] = Extend(@)]
           /\ jobs' = (jobs \ {j}) \cup {h}
  <2> DEFINE q == Extend(r)
  <2>1. rec' = [rec EXCEPT ![k] = q]
    BY <1>2, <1>9
  <2>2. j.i > 1 /\ r.st = "batch" /\ j.i = r.next + 1 /\ j.n = r.count
    BY <1>9 DEF CanExtend
  <2>3. Started(j) /\ r.files = Sent(j.sel, j.i - 1)
    <3>1. Started(j)
      BY <2>2 DEF Started
    <3> QED BY <1>1, <1>3, <3>1 DEF BatchOK, Accepted
  <2>4. /\ q \in Record /\ q.st = r.st /\ q.tab = r.tab /\ q.files = r.files
        /\ q.count = r.count /\ q.next = r.next + 1
    <3>1. r.next + 1 \in 0..MaxFiles
      BY <1>2, <2>2, BoundsAssumption
    <3> QED BY <1>2, <3>1, ExtendRecord
  <2> HIDE DEF q
  <2>5. \A g \in jobs : g # j /\ g.key = k => ~Started(g)
    BY <1>2, <2>3, OnlyStarted
  <2>6. /\ q.st = "batch" /\ q.tab = r.tab /\ q.count = j.n /\ q.next = j.i
        /\ q.files = Sent(j.sel, j.i - 1) /\ r.st \in {"pending", "batch"}
        /\ jobs' = (jobs \ {j}) \cup {h}
    BY <1>9, <2>2, <2>3, <2>4
  <2> QED BY <1>7, <2>1, <2>4, <2>5, <2>6
<1>10. CASE jobs' = jobs \ {j} /\ rec' = rec
  <2>1. UNCHANGED <<windows, rec, closed, disk, page, events>>
    BY <1>1, <1>10
  <2> QED BY <1>1, <1>10, <2>1, RequestEnds
<1>11. \/ /\ CanClaim(j) /\ rec' = [rec EXCEPT ![k] = Claim(@, j.n)]
          /\ jobs' = (jobs \ {j}) \cup {h}
       \/ /\ CanExtend(j) /\ rec' = [rec EXCEPT ![k] = Extend(@)]
          /\ jobs' = (jobs \ {j}) \cup {h}
       \/ jobs' = jobs \ {j} /\ rec' = rec
  BY DEF Upload, h
<1> QED BY <1>8, <1>9, <1>10, <1>11

LEMMA MakeDirectoryStep == ASSUME IInv, TypeOK', NEW j \in jobs, MakeDirectory(j) PROVE IInv'
<1> DEFINE k == j.key
           h == [j EXCEPT !.at = "body"]
<1>1. /\ UNCHANGED <<windows, rec, closed, removing, page, events>>
      /\ j.at = "directory" /\ jobs' = (jobs \ {j}) \cup {h} /\ dir' = dir \cup {k}
      /\ late' = IF rec[k].st = "over" /\ k \notin removing THEN late \cup {k} ELSE late
  BY DEF MakeDirectory
<1>2. TypeOK /\ JobsOK /\ KeyOK(k) /\ j \in Job /\ j.n \in Nat /\ j.i \in Nat
  BY Parts, RequestIsTyped
<1>3. /\ Started(j) /\ BatchOK(j) /\ rec[k].st \in {"batch", "over"} /\ k \in Key /\ j.i <= j.n
  BY <1>1, StartedJob
<1>4. /\ h \in Job /\ h.key = k /\ h.sel = j.sel /\ h.n = j.n /\ h.i = j.i /\ h.at = "body"
  <2>1. "body" \in Stage
    BY DEF Stage
  <2> QED BY <1>2, <2>1, JobMoves
<1> HIDE DEF h
<1>5. UNCHANGED <<sel, told, picks, selections, node, given, cancels, cancelled, removing, events>>
  BY <1>1 DEF windows, page
<1>6. BatchOK(h)'
  <2>1. Accepted(h) = Accepted(j)
    BY <1>1, <1>4 DEF Accepted
  <2>2. /\ rec[k].files = Sent(j.sel, Accepted(j))
        /\ rec[k].st = "batch" => rec[k].count = j.n /\ rec[k].next = j.i
    BY <1>1, <1>3 DEF BatchOK
  <2>3. /\ rec'[h.key].st \in {"batch", "over"}
        /\ rec'[h.key].files = Sent(h.sel, Accepted(h))
        /\ rec'[h.key].st = "batch" =>
             /\ rec'[h.key].count = h.n
             /\ rec'[h.key].next = IF h.at = "sent" THEN h.i - 1 ELSE h.i
        /\ h.at # "applied"
    BY <1>1, <1>3, <1>4, <2>1, <2>2
  <2> QED BY <2>3 DEF BatchOK, Accepted
<1>7. KeyOK(k)'
  <2>1. \E g \in jobs' : g.key = k /\ g.at # "sent"
    BY <1>1, <1>4
  <2>2. rec' = rec /\ node' = node /\ given' = given /\ cancels' = cancels
        /\ cancelled' = cancelled /\ removing' = removing
    BY <1>1, <1>5
  <2>3. rec[k].st = "over" => k \in removing' \/ k \in late'
    BY <1>1
  <2>4. rec[k].st \notin {"none", "pending"}
    BY <1>3
  <2> HIDE DEF k
  <2> QED BY <1>2, <2>1, <2>2, <2>3, <2>4, Zenon DEF KeyOK
<1>8. /\ \A l \in Key : l # j.key =>
           /\ rec'[l] = rec[l]
           /\ l \in dir' => l \in dir
           /\ l \in late => l \in late'
      /\ rec'[j.key].st \in {"pending", "batch"} => rec[j.key].st \in {"pending", "batch"}
      /\ h.key = j.key /\ h.sel = j.sel /\ h.n = j.n /\ h.i <= h.n /\ j.at # "applied"
  BY <1>1, <1>3, <1>4
<1>9. Same(j.key)
  BY <1>1 DEF Same
<1>10. \A g \in jobs : g # j /\ g.key = j.key => ~Started(g)
  BY <1>2, <1>3, OnlyStarted
<1> QED BY <1>1, <1>4, <1>5, <1>6, <1>7, <1>8, <1>9, <1>10, RequestStep

LEMMA BodyArrivesStep == ASSUME IInv, TypeOK', NEW j \in jobs, BodyArrives(j) PROVE IInv'
<1> DEFINE k == j.key
           r == rec[k]
           h == Continue(j)
           q == Written(r, <<j.sel, j.i>>)
<1>1. UNCHANGED <<windows, closed, disk, page, events>> /\ j.at = "body"
  BY DEF BodyArrives
<1>2. /\ TypeOK /\ JobsOK /\ KeyOK(k) /\ j \in Job /\ j.n \in Nat /\ j.i \in 1..MaxFiles
      /\ j.i \in Nat /\ r \in Record /\ rec \in [Key -> Record]
  BY Parts, RequestIsTyped DEF TypeOK
<1>3. /\ Started(j) /\ BatchOK(j) /\ r.st \in {"batch", "over"} /\ k \in Key /\ j.sel \in Sel
      /\ j.i <= j.n
  BY <1>1, StartedJob
<1>4. CASE r.st = "over"
  <2>1. jobs' = jobs \ {j} /\ rec' = rec
    BY <1>4 DEF BodyArrives
  <2>2. UNCHANGED <<windows, rec, closed, disk, page, events>>
    BY <1>1, <2>1
  <2> QED BY <1>4, <2>1, <2>2, RequestEnds
<1>5. CASE r.st # "over"
  <2>1. rec' = [rec EXCEPT ![k] = q] /\ jobs' = (jobs \ {j}) \cup {h}
    BY <1>2, <1>3, <1>5 DEF BodyArrives
  <2>2. /\ h \in Job /\ h.key = k /\ h.sel = j.sel /\ h.n = j.n
        /\ j.i < j.n => h.i = j.i + 1 /\ h.at = "sent"
        /\ j.i = j.n => h.i = j.i /\ h.at = "apply"
    BY <1>2, <1>3, ContinueFields
  <2>3. /\ r.st = "batch" /\ r.files = Sent(j.sel, j.i - 1) /\ r.count = j.n /\ r.next = j.i
    BY <1>1, <1>3, <1>5 DEF BatchOK, Accepted
  <2>4. /\ q \in Record /\ q.st = r.st /\ q.tab = r.tab
        /\ q.files = Append(r.files, <<j.sel, j.i>>) /\ q.count = r.count /\ q.next = r.next
        /\ q.timer = (r.next < r.count)
    <3>1. <<j.sel, j.i>> \in File
      BY <1>2, <1>3 DEF File
    <3> QED BY <1>2, <3>1, WrittenRecord
  <2> HIDE DEF q, h
  <2>5. q.files = Sent(j.sel, j.i)
    <3>1. Append(Sent(j.sel, j.i - 1), <<j.sel, j.i>>) = Sent(j.sel, j.i)
      BY <1>2, <1>3, SentNext
    <3> QED BY <2>3, <2>4, <3>1
  <2>6. rec'[k] = q /\ \A l \in Key : l # k => rec'[l] = rec[l]
    BY <1>2, <1>3, <2>1
  <2>7. PICK m \in Job : m = h
    BY <2>2
  <2>8. /\ m.key = k /\ m.sel = j.sel /\ m.n = j.n
        /\ j.i < j.n => m.i = j.i + 1 /\ m.at = "sent"
        /\ j.i = j.n => m.i = j.i /\ m.at = "apply"
        /\ jobs' = (jobs \ {j}) \cup {m}
    BY <2>1, <2>2, <2>7
  <2>9. BatchOK(m)'
    <3>1. j.i < j.n \/ j.i = j.n
      BY <1>2, <1>3
    <3>2. Accepted(m) = j.i
      BY <1>2, <2>8, <3>1 DEF Accepted
    <3>3. q.next = IF m.at = "sent" THEN m.i - 1 ELSE m.i
      BY <1>2, <2>3, <2>4, <2>8, <3>1
    <3>4. m.at # "applied"
      BY <2>8, <3>1
    <3>5. /\ rec'[m.key].st \in {"batch", "over"}
          /\ rec'[m.key].files = Sent(m.sel, Accepted(m))
          /\ rec'[m.key].st = "batch" =>
               /\ rec'[m.key].count = m.n
               /\ rec'[m.key].next = IF m.at = "sent" THEN m.i - 1 ELSE m.i
          /\ m.at # "applied"
      BY <2>3, <2>4, <2>5, <2>6, <2>8, <3>2, <3>3, <3>4
    <3> QED BY <3>5 DEF BatchOK, Accepted
  <2>10. node' = node
    BY <1>1 DEF page
  <2>11. KeyOK(k)'
    <3>1. /\ node[k] # "none" => r.tab \in Tab
          /\ node[k] = "none" => r.st = "none"
      BY <1>2 DEF KeyOK
    <3>2. rec'[k].timer \/ \E g \in jobs' : g.key = k /\ g.at # "sent"
      <4>1. CASE j.i < j.n
        BY <2>3, <2>4, <2>6, <4>1
      <4>2. CASE j.i = j.n
        BY <2>8, <4>2
      <4> QED BY <1>2, <1>3, <4>1, <4>2
    <3>3. rec'[k].tab = r.tab /\ rec'[k].st = "batch" /\ r.st # "none"
      BY <2>3, <2>4, <2>6
    <3> HIDE DEF r, k
    <3> QED BY <2>10, <3>1, <3>2, <3>3, Zenon DEF KeyOK
  <2>12. UNCHANGED <<sel, told, picks, selections, node, given, cancels, cancelled, removing,
                     events>>
    BY <1>1 DEF windows, disk, page
  <2>13. /\ \A l \in Key : l # j.key =>
              /\ rec'[l] = rec[l]
              /\ l \in dir' => l \in dir
              /\ l \in late => l \in late'
         /\ rec'[j.key].st \in {"pending", "batch"} => rec[j.key].st \in {"pending", "batch"}
    BY <1>1, <2>3, <2>6 DEF disk
  <2>14. Same(j.key)
    BY <2>3, <2>4, <2>6 DEF Same
  <2>15. \A g \in jobs : g # j /\ g.key = j.key => ~Started(g)
    BY <1>2, <1>3, OnlyStarted
  <2>16. m.key = j.key /\ m.sel = j.sel /\ m.n = j.n /\ m.i <= m.n /\ j.at # "applied"
    <3>1. j.i < j.n \/ j.i = j.n
      BY <1>2, <1>3
    <3> QED BY <1>1, <1>2, <2>8, <3>1
  <2>17. jobs' = (jobs \ {j}) \cup {m} /\ KeyOK(j.key)'
    BY <2>8, <2>11
  <2> QED BY <2>9, <2>12, <2>13, <2>14, <2>15, <2>16, <2>17, RequestStep
<1> QED BY <1>4, <1>5

LEMMA RemoveDirectoryStep ==
  ASSUME IInv, TypeOK', NEW k \in Key, RemoveDirectory(k)
  PROVE  IInv'
<1>1. /\ UNCHANGED <<windows, jobs, rec, closed, late, page, events>>
      /\ removing' = removing \ {k} /\ dir' = dir \ {k}
  BY DEF RemoveDirectory
<1>2. TypeOK /\ EventsOK /\ \A l \in Key : KeyOK(l)
  BY Parts
<1>3. ASSUME NEW l \in Key PROVE KeyOK(l)'
  <2>1. /\ KeyOK(l) /\ rec'[l] = rec[l] /\ given'[l] = given[l] /\ node'[l] = node[l]
        /\ l \in dir' => l \in dir
        /\ l \in dir' /\ l \in removing => l \in removing'
        /\ late' = late /\ cancels' = cancels /\ cancelled' = cancelled /\ jobs' = jobs
    BY <1>1, <1>2 DEF page
  <2> QED BY <2>1, SteadyKey
<1>4. EventsOK'
  <2>1. /\ UNCHANGED events
        /\ \A l \in Key : node'[l] = node[l]
        /\ \A l \in Key : rec'[l].tab = rec[l].tab /\ (rec[l].st = "none" => rec'[l].st = "none")
    BY <1>1 DEF page
  <2> QED BY <1>2, <2>1, SteadyEvents
<1>5. UNCHANGED <<rec, jobs, given, sel, told, picks, selections>>
  BY <1>1 DEF windows, page
<1> QED BY <1>3, <1>4, <1>5, QuietStep

------------------------------------------------------------------------------
(* Records are given up. *)

LEMMA GivenUp ==
  ASSUME IInv, NEW ks, NEW k \in Key,
         IF k \in ks \cap Live THEN rec'[k] = Over(rec[k]) ELSE rec'[k] = rec[k]
  PROVE  /\ Steady(k) /\ rec'[k].tab = rec[k].tab
         /\ rec[k].st = "none" => rec'[k].st = "none"
         /\ rec'[k].st \in {"pending", "batch"} => k \notin ks \cap Live /\ rec'[k] = rec[k]
<1>1. rec[k] \in Record
  BY DEF IInv, TypeOK
<1>2. CASE k \in ks \cap Live
  <2> DEFINE q == Over(rec[k])
  <2>1. /\ q.st = "over" /\ q.tab = rec[k].tab /\ q.files = rec[k].files
        /\ q.count = rec[k].count /\ q.next = rec[k].next
    BY <1>1, OverRecord
  <2>2. rec'[k] = q /\ rec[k].st \in {"pending", "batch"}
    BY <1>2 DEF Live
  <2> HIDE DEF q
  <2> QED BY <2>1, <2>2 DEF Steady, Same
<1>3. CASE k \notin ks \cap Live
  <2>1. rec'[k] = rec[k]
    BY <1>3
  <2> QED BY <1>3, <2>1 DEF Steady, Same
<1> QED BY <1>2, <1>3

LEMMA GivenUpKey ==
  ASSUME IInv, NEW ks, NEW c \in BOOLEAN, Abandon(ks, c), NEW k \in Key,
         IF k \in ks \cap Live THEN rec'[k] = Over(rec[k]) ELSE rec'[k] = rec[k],
         UNCHANGED <<node, given, dir, late, cancelled>>,
         c \/ (k \in ks \cap Live => node[k] # "waiting"),
         \A j \in jobs : j.key = k => j \in jobs' \/ k \in ks
  PROVE  KeyOK(k)'
<1>1. KeyOK(k) /\ rec[k] \in Record
  BY DEF IInv, TypeOK
<1>2. /\ removing' = removing \cup {l \in ks \cap Live : rec[l].st = "batch"}
      /\ c => cancels' = cancels \cup (ks \cap Live)
      /\ ~c => cancels' = cancels
  BY DEF Abandon, Removed
<1>3. CASE k \in ks \cap Live
  <2>1. rec[k].st \in {"pending", "batch"}
    BY <1>3 DEF Live
  <2> DEFINE q == Over(rec[k])
  <2>2. q.st = "over" /\ q.tab = rec[k].tab
    BY <1>1, OverRecord
  <2>3. rec'[k] = q
    BY <1>3
  <2> HIDE DEF q
  <2>4. /\ node[k] # "none" => rec[k].tab \in Tab
        /\ node[k] # "none"
        /\ k \in dir => rec[k].st = "batch"
    BY <1>1, <2>1 DEF KeyOK
  <2>5. k \in dir => k \in removing'
    BY <1>2, <1>3, <2>4
  <2>6. node[k] = "waiting" => k \in cancels'
    BY <1>2, <1>3
  <2> QED BY <2>2, <2>3, <2>4, <2>5, <2>6 DEF KeyOK
<1>4. CASE k \notin ks \cap Live
  <2>1. /\ rec'[k] = rec[k] /\ given'[k] = given[k] /\ node'[k] = node[k]
        /\ k \in dir' => k \in dir
        /\ k \in dir' /\ k \in removing => k \in removing'
        /\ k \in late => k \in late'
        /\ k \in cancels \cup cancelled => k \in cancels' \cup cancelled'
    BY <1>2, <1>4
  <2>2. ASSUME NEW j \in jobs, j.key = k, j.at # "sent", rec[k].st = "batch"
        PROVE  \E h \in jobs' : h.key = k /\ h.at # "sent"
    <3>1. k \notin ks
      BY <1>4, <2>2 DEF Live
    <3>2. j \in jobs'
      BY <2>2, <3>1
    <3> QED BY <2>2, <3>2
  <2> QED BY <1>1, <2>1, <2>2, SteadyKey
<1> QED BY <1>3, <1>4

LEMMA GiveUpStep ==
  ASSUME IInv, TypeOK', NEW ks, Abandon(ks, TRUE), rec' = Abandoned(ks), jobs' \subseteq jobs,
         \A j \in jobs : j \in jobs' \/ j.key \in ks,
         UNCHANGED <<windows, dir, late, node, given, cancelled, events>>
  PROVE  IInv'
<1>1. TypeOK /\ EventsOK /\ OneLive
  BY Parts
<1>2. \A k \in Key : IF k \in ks \cap Live THEN rec'[k] = Over(rec[k]) ELSE rec'[k] = rec[k]
  <2>1. rec \in [Key -> Record] /\ rec' = Abandoned(ks)
    BY <1>1 DEF TypeOK
  <2> HIDE DEF Live
  <2> QED BY <2>1, AbandonedRecords
<1>3. ASSUME NEW k \in Key
      PROVE  /\ Steady(k) /\ rec'[k].tab = rec[k].tab
             /\ rec[k].st = "none" => rec'[k].st = "none"
             /\ rec'[k].st \in {"pending", "batch"} => rec'[k] = rec[k]
  <2>1. IF k \in ks \cap Live THEN rec'[k] = Over(rec[k]) ELSE rec'[k] = rec[k]
    BY <1>2
  <2> QED BY <2>1, GivenUp
<1>4. ASSUME NEW k \in Key PROVE KeyOK(k)'
  <2>1. IF k \in ks \cap Live THEN rec'[k] = Over(rec[k]) ELSE rec'[k] = rec[k]
    BY <1>2
  <2>2. /\ UNCHANGED <<node, given, dir, late, cancelled>>
        /\ \A j \in jobs : j.key = k => j \in jobs' \/ k \in ks
    OBVIOUS
  <2>3. TRUE \in BOOLEAN
    OBVIOUS
  <2> QED BY <2>1, <2>2, <2>3, GivenUpKey
<1>5. JobsOK' /\ ToldOK' /\ PicksOK' /\ SelectionsOK' /\ GivenOK'
  <2>1. UNCHANGED <<given, sel, picks, selections>> /\ told' = told
    BY DEF windows
  <2> QED BY <1>3, <2>1, SteadyRest
<1>6. EventsOK'
  <2>1. /\ UNCHANGED events
        /\ \A l \in Key : node'[l] = node[l]
        /\ \A l \in Key : rec'[l].tab = rec[l].tab /\ (rec[l].st = "none" => rec'[l].st = "none")
    BY <1>3
  <2> QED BY <1>1, <2>1, SteadyEvents
<1>7. OneLive'
  <2>1. \A k \in Key : rec'[k].st \in {"pending", "batch"} => rec[k].st \in {"pending", "batch"}
    BY <1>3
  <2> QED BY <1>1, <2>1, SteadyLive
<1> QED BY <1>4, <1>5, <1>6, <1>7, Join

LEMMA TimeOutStep == ASSUME IInv, TypeOK', NEW k \in Key, TimeOut(k) PROVE IInv'
<1> DEFINE ks == {k}
<1>1. /\ Abandon(ks, TRUE) /\ rec' = Abandoned(ks)
      /\ UNCHANGED <<windows, dir, late, node, given, cancelled, events>>
      /\ jobs' \subseteq jobs /\ \A j \in jobs : j \in jobs' \/ j.key \in ks
  BY DEF TimeOut
<1> HIDE DEF ks
<1> QED BY <1>1, GiveUpStep

LEMMA BreakStep == ASSUME IInv, TypeOK', NEW j \in jobs, Break(j) PROVE IInv'
<1> DEFINE ks == {j.key}
<1>1. /\ Abandon(ks, TRUE) /\ rec' = Abandoned(ks)
      /\ UNCHANGED <<windows, dir, late, node, given, cancelled, events>>
      /\ jobs' = jobs \ {j}
  BY DEF Break
<1>2. jobs' \subseteq jobs /\ \A g \in jobs : g \in jobs' \/ g.key \in ks
  BY <1>1
<1> HIDE DEF ks
<1> QED BY <1>1, <1>2, GiveUpStep

LEMMA CloseStep == ASSUME IInv, TypeOK', Close PROVE IInv'
<1> DEFINE ks == Live
<1>1. /\ Abandon(ks, TRUE) /\ rec' = Abandoned(ks)
      /\ UNCHANGED <<windows, jobs, dir, late, node, given, cancelled, events>>
  BY DEF Close
<1>2. UNCHANGED <<windows, dir, late, node, given, cancelled, events>>
      /\ jobs' \subseteq jobs /\ \A g \in jobs : g \in jobs' \/ g.key \in ks
  BY <1>1
<1> HIDE DEF ks
<1> QED BY <1>1, <1>2, GiveUpStep

LEMMA FinishStep == ASSUME IInv, TypeOK', NEW j \in jobs, Finish(j) PROVE IInv'
<1> DEFINE k == j.key
           q == Over(rec[k])
<1>1. /\ rec' = [rec EXCEPT ![k] = q] /\ jobs' = jobs \ {j} /\ j.at = "applied"
      /\ UNCHANGED <<windows, closed, disk, page, events>>
  BY DEF Finish
<1>2. /\ TypeOK /\ EventsOK /\ OneLive /\ (\A l \in Key : KeyOK(l)) /\ k \in Key
      /\ rec[k] \in Record /\ rec \in [Key -> Record]
  BY Parts, RequestIsTyped DEF TypeOK
<1>3. BatchOK(j) /\ rec[k].st \in {"batch", "over"}
  BY <1>1, StartedJob
<1>4. given[k] # <<>>
  BY <1>1, <1>3 DEF BatchOK
<1>5. q.st = "over" /\ q.tab = rec[k].tab /\ q.files = rec[k].files
  BY <1>2, OverRecord
<1> HIDE DEF q
<1>6. rec'[k] = q /\ \A l \in Key : l # k => rec'[l] = rec[l]
  BY <1>1, <1>2
<1>7. ASSUME NEW l \in Key
      PROVE  /\ Steady(l) /\ rec'[l].tab = rec[l].tab
             /\ rec[l].st = "none" => rec'[l].st = "none"
             /\ rec'[l].st \in {"pending", "batch"} => rec[l].st \in {"pending", "batch"}
  <2>1. CASE l = k
    BY <1>3, <1>5, <1>6, <2>1 DEF Steady, Same
  <2>2. CASE l # k
    BY <1>6, <2>2 DEF Steady, Same
  <2> QED BY <2>1, <2>2
<1>8. ASSUME NEW l \in Key PROVE KeyOK(l)'
  <2>1. CASE l = k
    <3>1. /\ rec'[l].st = "over" /\ rec'[l].tab = rec[l].tab /\ given'[l] # <<>>
          /\ node' = node
      BY <1>1, <1>4, <1>5, <1>6, <2>1 DEF page
    <3>2. /\ node[l] # "none" => rec[l].tab \in Tab
          /\ node[l] = "none" => rec[l].st = "none"
      BY <1>2 DEF KeyOK
    <3>3. rec[l].st # "none"
      BY <1>3, <2>1
    <3> QED BY <3>1, <3>2, <3>3 DEF KeyOK
  <2>2. CASE l # k
    <3>1. /\ KeyOK(l) /\ rec'[l] = rec[l] /\ given'[l] = given[l] /\ node'[l] = node[l]
          /\ dir' = dir /\ removing' = removing /\ late' = late /\ cancels' = cancels
          /\ cancelled' = cancelled
      BY <1>1, <1>2, <1>6, <2>2 DEF page, disk
    <3>2. ASSUME NEW g \in jobs, g.key = l, g.at # "sent"
          PROVE  \E f \in jobs' : f.key = l /\ f.at # "sent"
      BY <1>1, <2>2, <3>2
    <3> QED BY <3>1, <3>2, SteadyKey
  <2> QED BY <2>1, <2>2
<1>9. JobsOK' /\ ToldOK' /\ PicksOK' /\ SelectionsOK' /\ GivenOK'
  <2>1. UNCHANGED <<given, sel, picks, selections>> /\ told' = told /\ jobs' \subseteq jobs
    BY <1>1 DEF windows, page
  <2> QED BY <1>7, <2>1, SteadyRest
<1>10. EventsOK'
  <2>1. /\ UNCHANGED events
        /\ \A l \in Key : node'[l] = node[l]
        /\ \A l \in Key : rec'[l].tab = rec[l].tab /\ (rec[l].st = "none" => rec'[l].st = "none")
    BY <1>1, <1>7 DEF page
  <2> QED BY <1>2, <2>1, SteadyEvents
<1>11. OneLive'
  <2>1. \A l \in Key : rec'[l].st \in {"pending", "batch"} => rec[l].st \in {"pending", "batch"}
    BY <1>7
  <2> QED BY <1>2, <2>1, SteadyLive
<1> QED BY <1>8, <1>9, <1>10, <1>11, Join

------------------------------------------------------------------------------
(* The gateway hears of a chooser, or of a document that went away. *)

LEMMA FirstEvent ==
  ASSUME TypeOK, events # <<>>
  PROVE  /\ Head(events) \in Event /\ Head(events) = events[1] /\ 1 \in 1..Len(events)
         /\ Tail(events) \in Seq(Event)
         /\ Len(events) \in Nat /\ Len(Tail(events)) = Len(events) - 1
         /\ \A i \in 1..Len(Tail(events)) : Tail(events)[i] = events[i + 1]
<1>1. events \in Seq(Event)
  BY DEF TypeOK, Event
<1> QED BY <1>1

LEMMA HeardEvents ==
  ASSUME TypeOK, EventsOK, events # <<>>, events' = Tail(events), UNCHANGED node,
         \A k \in Key : /\ rec'[k].tab = rec[k].tab
                        /\ rec[k].st = "none" /\ ~Announces(1, k) => rec'[k].st = "none"
  PROVE  EventsOK'
<1>1. PICK n \in Nat : n = Len(events)
  BY FirstEvent
<1>2. /\ Len(events') = n - 1 /\ 1 \in 1..n /\ n >= 1
      /\ \A i \in 1..(n - 1) : events'[i] = events[i + 1]
  BY <1>1, FirstEvent
<1>3. \A i \in 1..(n - 1), k \in Key : Announces(i, k)' <=> Announces(i + 1, k)
  BY <1>2 DEF Announces
<1>4. /\ \A i \in 1..n, k \in Key : Announces(i, k) =>
           /\ node[k] # "none" /\ rec[k].st = "none"
           /\ \A h \in 1..n : Announces(h, k) => h = i
      /\ \A i \in 1..n, k \in Key :
           events[i].e = "gone" /\ node[k] = "waiting" /\ rec[k].tab = events[i].tab =>
             \E h \in 1..n : i < h /\ Announces(h, k)
  BY <1>1 DEF EventsOK
<1>5. ASSUME NEW i \in 1..(n - 1), NEW k \in Key, Announces(i, k)'
      PROVE  /\ node'[k] # "none" /\ rec'[k].st = "none"
             /\ \A h \in 1..(n - 1) : Announces(h, k)' => h = i
  <2>1. i + 1 \in 1..n /\ Announces(i + 1, k) /\ i + 1 # 1
    BY <1>2, <1>3, <1>5
  <2>2. ~Announces(1, k)
    BY <1>2, <1>4, <2>1
  <2>3. node'[k] # "none" /\ rec'[k].st = "none"
    BY <1>4, <2>1, <2>2
  <2>4. ASSUME NEW h \in 1..(n - 1), Announces(h, k)' PROVE h = i
    <3>1. h + 1 \in 1..n /\ Announces(h + 1, k)
      BY <1>2, <1>3, <2>4
    <3>2. h + 1 = i + 1
      BY <1>4, <2>1, <3>1
    <3> QED BY <3>2
  <2> QED BY <2>3, <2>4
<1>6. ASSUME NEW i \in 1..(n - 1), NEW k \in Key, events'[i].e = "gone", node'[k] = "waiting",
             rec'[k].tab = events'[i].tab
      PROVE  \E h \in 1..(n - 1) : i < h /\ Announces(h, k)'
  <2>1. i + 1 \in 1..n /\ events'[i] = events[i + 1]
    BY <1>2
  <2>2. events[i + 1].e = "gone" /\ node[k] = "waiting" /\ rec[k].tab = events[i + 1].tab
    BY <1>6, <2>1
  <2>3. PICK h \in 1..n : i + 1 < h /\ Announces(h, k)
    BY <1>4, <2>1, <2>2
  <2>4. PICK g \in 1..(n - 1) : h = g + 1
    <3>1. h - 1 \in 1..(n - 1) /\ h = (h - 1) + 1
      BY <2>3
    <3> QED BY <3>1
  <2>5. i < g /\ Announces(g, k)'
    BY <1>3, <2>3, <2>4
  <2> QED BY <2>5, Zenon
<1> QED BY <1>2, <1>5, <1>6, Zenon DEF EventsOK

LEMMA OpenChooserStep ==
  ASSUME IInv, TypeOK', events # <<>>, Head(events).e = "opened", OpenChooser(Head(events).key),
         events' = Tail(events),
         UNCHANGED <<driver, believes, picks, selections, sel, jobs, closed, dir, late, node, given,
                     cancelled>>
  PROVE  IInv'
<1>1. PICK k \in Key : k = Head(events).key
  BY FirstEvent, EventFields DEF IInv
<1> DEFINE rs == Abandoned(Live)
<1>2. /\ Abandon(Live, TRUE) /\ rec' = [rs EXCEPT ![k] = Pending(@)]
      /\ told' = [v \in Viewer |-> Append(told[v], k)]
  BY <1>1 DEF OpenChooser
<1>3. /\ TypeOK /\ EventsOK /\ ToldOK /\ \A l \in Key : KeyOK(l)
      /\ rec \in [Key -> Record] /\ told \in [Viewer -> Seq(Key)]
  BY Parts DEF TypeOK
<1>4. Announces(1, k) /\ 1 \in 1..Len(events)
  BY <1>1, <1>3, FirstEvent DEF Announces
<1>5. node[k] # "none" /\ rec[k].st = "none"
  BY <1>3, <1>4 DEF EventsOK
<1>6. /\ rs \in [Key -> Record]
      /\ \A l \in Key : IF l \in Live \cap Live THEN rs[l] = Over(rec[l]) ELSE rs[l] = rec[l]
  BY <1>3, AbandonedRecords
<1>7. k \notin Live
  BY <1>5 DEF Live
<1> HIDE DEF rs
<1>8. rs[k] = rec[k] /\ rec'[k] = Pending(rec[k]) /\ \A l \in Key : l # k => rec'[l] = rs[l]
  BY <1>2, <1>6, <1>7
<1> DEFINE q == Pending(rec[k])
<1>9. q.st = "pending" /\ q.timer = TRUE /\ q.tab = rec[k].tab
  BY <1>3, PendingRecord
<1> HIDE DEF q
<1>10. rec'[k] = q
  BY <1>8 DEF q
<1>11. ASSUME NEW l \in Key, l # k
       PROVE  /\ Steady(l) /\ rec'[l].tab = rec[l].tab /\ KeyOK(l)'
              /\ rec[l].st = "none" => rec'[l].st = "none"
              /\ rec'[l].st \notin {"pending", "batch"}
  <2>1. IF l \in Live \cap Live THEN rec'[l] = Over(rec[l]) ELSE rec'[l] = rec[l]
    BY <1>6, <1>8, <1>11
  <2>2. /\ Steady(l) /\ rec'[l].tab = rec[l].tab
        /\ rec[l].st = "none" => rec'[l].st = "none"
        /\ rec'[l].st \in {"pending", "batch"} => l \notin Live \cap Live /\ rec'[l] = rec[l]
    BY <2>1, GivenUp
  <2>3. rec'[l].st \notin {"pending", "batch"}
    BY <2>2 DEF Live
  <2>4. /\ UNCHANGED <<node, given, dir, late, cancelled>>
        /\ \A j \in jobs : j.key = l => j \in jobs' \/ l \in Live
        /\ TRUE \in BOOLEAN
    OBVIOUS
  <2>5. KeyOK(l)'
    BY <1>2, <2>1, <2>4, GivenUpKey
  <2> QED BY <2>2, <2>3, <2>5
<1>12. Steady(k) /\ rec'[k].tab = rec[k].tab
  BY <1>5, <1>9, <1>10 DEF Steady, Same
<1>13. KeyOK(k)'
  <2>1. k \notin dir /\ given[k] = <<>> /\ rec[k].tab \in Tab
    BY <1>3, <1>5 DEF KeyOK
  <2>2. k \notin dir' /\ given'[k] = <<>> /\ node'[k] # "none"
    BY <1>5, <2>1
  <2> QED BY <1>9, <1>10, <2>1, <2>2 DEF KeyOK
<1>14. \A l \in Key : KeyOK(l)' /\ Steady(l) /\ rec'[l].tab = rec[l].tab
  BY <1>11, <1>12, <1>13
<1>15. JobsOK' /\ PicksOK' /\ SelectionsOK' /\ GivenOK'
  <2>1. UNCHANGED <<given, sel, picks, selections>> /\ jobs' \subseteq jobs
    OBVIOUS
  <2> QED BY <1>14, <2>1, SteadyRest
<1>16. ToldOK'
  <2> SUFFICES ASSUME NEW v \in Viewer, NEW i \in 1..Len(told'[v])
               PROVE  rec'[told'[v][i]].st # "none"
    BY DEF ToldOK
  <2>1. told[v] \in Seq(Key) /\ told'[v] = Append(told[v], k)
    BY <1>2, <1>3
  <2>2. (i \in 1..Len(told[v]) /\ told'[v][i] = told[v][i]) \/ told'[v][i] = k
    BY <2>1
  <2>3. CASE i \in 1..Len(told[v]) /\ told'[v][i] = told[v][i]
    <3>1. told[v][i] \in Key /\ rec[told[v][i]].st # "none"
      BY <1>3, <2>1, <2>3 DEF ToldOK
    <3>2. Same(told[v][i])
      BY <1>14, <3>1 DEF Steady
    <3> QED BY <2>3, <3>1, <3>2 DEF Same
  <2>4. CASE told'[v][i] = k
    BY <1>9, <1>10, <2>4
  <2> QED BY <2>2, <2>3, <2>4
<1>17. EventsOK'
  <2>1. ASSUME NEW l \in Key
        PROVE  /\ rec'[l].tab = rec[l].tab
               /\ rec[l].st = "none" /\ ~Announces(1, l) => rec'[l].st = "none"
    BY <1>4, <1>11, <1>14
  <2>2. UNCHANGED node
    OBVIOUS
  <2> QED BY <1>3, <2>1, <2>2, HeardEvents
<1>18. OneLive'
  <2>1. ASSUME NEW l \in Live' PROVE l = k
    <3>1. l \in Key /\ rec'[l].st \in {"pending", "batch"}
      BY <2>1 DEF Live
    <3> QED BY <1>11, <3>1
  <2> QED BY <2>1 DEF OneLive
<1> QED BY <1>14, <1>15, <1>16, <1>17, <1>18, Join

LEMMA DropTabStep ==
  ASSUME IInv, TypeOK', events # <<>>, Head(events).e # "opened", DropTab(Head(events).tab),
         events' = Tail(events),
         UNCHANGED <<driver, believes, picks, selections, sel, jobs, closed, dir, late, node, given,
                     cancelled>>
  PROVE  IInv'
<1>1. PICK t \in Tab : t = Head(events).tab
  BY FirstEvent, EventFields DEF IInv
<1>2. /\ TypeOK /\ EventsOK /\ OneLive /\ rec \in [Key -> Record]
  BY Parts DEF TypeOK
<1>3. PICK ks : ks = {k \in Live : rec[k].tab = t}
  OBVIOUS
<1>4. Abandon(ks, FALSE) /\ rec' = Abandoned(ks) /\ told' = told
  BY <1>1, <1>3 DEF DropTab
<1>5. \A k \in Key : IF k \in ks \cap Live THEN rec'[k] = Over(rec[k]) ELSE rec'[k] = rec[k]
  BY <1>2, <1>4, AbandonedRecords
<1>6. events[1].e = "gone" /\ events[1].tab = t /\ 1 \in 1..Len(events)
  BY <1>1, <1>2, FirstEvent, EventFields
<1>7. ASSUME NEW k \in Key, k \in ks \cap Live PROVE node[k] # "waiting"
  <2> SUFFICES ASSUME node[k] = "waiting" PROVE FALSE
    OBVIOUS
  <2>1. rec[k].tab = t
    BY <1>3, <1>7
  <2>2. PICK h \in 1..Len(events) : Announces(h, k)
    BY <1>2, <1>6, <2>1 DEF EventsOK
  <2>3. rec[k].st = "none"
    BY <1>2, <2>2 DEF EventsOK
  <2> QED BY <1>7, <2>3 DEF Live
<1>8. ASSUME NEW k \in Key
      PROVE  /\ Steady(k) /\ rec'[k].tab = rec[k].tab
             /\ rec[k].st = "none" => rec'[k].st = "none"
             /\ rec'[k].st \in {"pending", "batch"} => rec'[k] = rec[k]
  <2>1. IF k \in ks \cap Live THEN rec'[k] = Over(rec[k]) ELSE rec'[k] = rec[k]
    BY <1>5
  <2> QED BY <2>1, GivenUp
<1>9. ASSUME NEW k \in Key PROVE KeyOK(k)'
  <2>1. IF k \in ks \cap Live THEN rec'[k] = Over(rec[k]) ELSE rec'[k] = rec[k]
    BY <1>5
  <2>2. /\ UNCHANGED <<node, given, dir, late, cancelled>>
        /\ \A j \in jobs : j.key = k => j \in jobs' \/ k \in ks
        /\ FALSE \in BOOLEAN
    OBVIOUS
  <2>3. FALSE \/ (k \in ks \cap Live => node[k] # "waiting")
    BY <1>7
  <2> QED BY <1>4, <2>1, <2>2, <2>3, GivenUpKey
<1>10. JobsOK' /\ ToldOK' /\ PicksOK' /\ SelectionsOK' /\ GivenOK'
  <2>1. UNCHANGED <<given, sel, picks, selections>> /\ told' = told /\ jobs' \subseteq jobs
    BY <1>4
  <2> QED BY <1>8, <2>1, SteadyRest
<1>11. EventsOK'
  <2>1. \A k \in Key : /\ rec'[k].tab = rec[k].tab
                       /\ rec[k].st = "none" /\ ~Announces(1, k) => rec'[k].st = "none"
    BY <1>8
  <2>2. UNCHANGED node
    OBVIOUS
  <2> QED BY <1>2, <2>1, <2>2, HeardEvents
<1>12. OneLive'
  <2>1. \A k \in Key : rec'[k].st \in {"pending", "batch"} => rec[k].st \in {"pending", "batch"}
    BY <1>8
  <2> QED BY <1>2, <2>1, SteadyLive
<1> QED BY <1>9, <1>10, <1>11, <1>12, Join

LEMMA HandleEventStep == ASSUME IInv, TypeOK', HandleEvent PROVE IInv'
<1>1. /\ UNCHANGED <<driver, believes, picks, selections, sel, jobs, closed, dir, late, node, given,
                     cancelled>>
      /\ events # <<>> /\ events' = Tail(events)
  BY DEF HandleEvent
<1>2. CASE closed
  <2>1. UNCHANGED <<rec, removing, cancels, told>>
    BY <1>2 DEF HandleEvent
  <2>2. TypeOK /\ EventsOK /\ \A k \in Key : KeyOK(k)
    BY Parts
  <2>3. EventsOK'
    <3>1. /\ UNCHANGED node
          /\ \A k \in Key : /\ rec'[k].tab = rec[k].tab
                            /\ rec[k].st = "none" /\ ~Announces(1, k) => rec'[k].st = "none"
      BY <1>1, <2>1
    <3> QED BY <1>1, <2>2, <3>1, HeardEvents
  <2>4. ASSUME NEW k \in Key PROVE KeyOK(k)'
    <3>1. /\ KeyOK(k) /\ rec'[k] = rec[k] /\ given'[k] = given[k] /\ node'[k] = node[k]
          /\ dir' = dir /\ removing' = removing /\ late' = late /\ cancels' = cancels
          /\ cancelled' = cancelled /\ jobs' = jobs
      BY <1>1, <2>1, <2>2
    <3> QED BY <3>1, SteadyKey
  <2>5. UNCHANGED <<rec, jobs, given, sel, told, picks, selections>>
    BY <1>1, <2>1
  <2> QED BY <2>3, <2>4, <2>5, QuietStep
<1>3. CASE ~closed /\ Head(events).e = "opened"
  <2>1. OpenChooser(Head(events).key)
    BY <1>3 DEF HandleEvent
  <2> QED BY <1>1, <1>3, <2>1, OpenChooserStep
<1>4. CASE ~closed /\ Head(events).e # "opened"
  <2>1. DropTab(Head(events).tab)
    BY <1>4 DEF HandleEvent
  <2> QED BY <1>1, <1>4, <2>1, DropTabStep
<1> QED BY <1>2, <1>3, <1>4

------------------------------------------------------------------------------
(* The steps of the windows. *)

LEMMA WindowStep ==
  ASSUME IInv, TypeOK', PicksStay, UNCHANGED <<rec, disk, page, events>>, jobs \subseteq jobs',
         JobsOK', ToldOK', PicksOK', SelectionsOK'
  PROVE  IInv'
<1>1. /\ TypeOK /\ GivenOK /\ EventsOK /\ OneLive /\ \A k \in Key : KeyOK(k)
  BY Parts
<1>2. UNCHANGED <<rec, removing, dir, late, node, given, cancels, cancelled, events>>
  BY DEF disk, page
<1>3. ASSUME NEW k \in Key PROVE KeyOK(k)'
  <2>1. /\ KeyOK(k) /\ rec'[k] = rec[k] /\ given'[k] = given[k] /\ node'[k] = node[k]
        /\ dir' = dir /\ removing' = removing /\ late' = late /\ cancels' = cancels
        /\ cancelled' = cancelled
    BY <1>1, <1>2
  <2>2. ASSUME NEW g \in jobs, g.key = k, g.at # "sent"
        PROVE  \E f \in jobs' : f.key = k /\ f.at # "sent"
    BY <2>2
  <2> QED BY <2>1, <2>2, SteadyKey
<1>4. GivenOK'
  <2>1. (\A k \in Key : Same(k)) /\ UNCHANGED given
    BY <1>2 DEF Same
  <2> QED BY <1>1, <2>1, SteadyGiven
<1>5. EventsOK'
  <2>1. /\ UNCHANGED events
        /\ \A k \in Key : node'[k] = node[k]
        /\ \A k \in Key : rec'[k].tab = rec[k].tab /\ (rec[k].st = "none" => rec'[k].st = "none")
    BY <1>2
  <2> QED BY <1>1, <2>1, SteadyEvents
<1>6. OneLive'
  <2>1. \A k \in Key : rec'[k].st \in {"pending", "batch"} => rec[k].st \in {"pending", "batch"}
    BY <1>2
  <2> QED BY <1>1, <2>1, SteadyLive
<1> QED BY <1>3, <1>4, <1>5, <1>6, Join

\* A window changes its role or forgets what it staged.
LEMMA ForgetStep ==
  ASSUME IInv, TypeOK', UNCHANGED <<told, sel, jobs, rec, disk, page, events>>,
         \A v \in Viewer, t \in Tab :
           /\ picks'[v][t] # 0 => picks'[v][t] = picks[v][t]
           /\ selections'[v][t] # 0 => selections'[v][t] = selections[v][t]
  PROVE  IInv'
<1>1. TypeOK /\ JobsOK /\ ToldOK /\ PicksOK /\ SelectionsOK
  BY Parts
<1>2. PicksStay /\ UNCHANGED given /\ rec' = rec /\ jobs' = jobs
  BY DEF PicksStay, page
<1>3. \A k \in Key : Steady(k) /\ Same(k)
  BY <1>2 DEF Steady, Same
<1>4. JobsOK'
  <2>1. jobs' \subseteq jobs
    OBVIOUS
  <2> QED BY <1>1, <1>2, <1>3, <2>1, SteadyJobs
<1>5. ToldOK' /\ PicksOK'
  BY <1>1, <1>3, SteadyTold, SteadyPicks
<1>6. SelectionsOK'
  <2>1. \A j \in jobs' : \E h \in jobs : h.sel = j.sel
    OBVIOUS
  <2>2. \A k \in Key, s \in Sel : GivenOf(k, s)' => GivenOf(k, s) \/ \E h \in jobs : h.sel = s
    BY <1>2 DEF GivenOf
  <2>3. \A v \in Viewer, t \in Tab : selections'[v][t] # 0 => selections'[v][t] = selections[v][t]
    OBVIOUS
  <2> QED BY <1>1, <1>2, <2>1, <2>2, <2>3, SteadySelections
<1>7. UNCHANGED <<rec, disk, page, events>> /\ jobs \subseteq jobs'
  OBVIOUS
<1> QED BY <1>2, <1>4, <1>5, <1>6, <1>7, WindowStep

\* A pick for which nothing was sent and that is staged nowhere else.
Fresh(v, t, s) ==
  /\ sel'[s].tab = t /\ sel'[s].n # 0
  /\ \A j \in jobs : j.sel # s
  /\ \A k \in Key : ~GivenOf(k, s)
  /\ \A w \in Viewer, u \in Tab : selections[w][u] = s => w = v /\ u = t

\* The first request of a chain.
LEMMA ChainBegins ==
  ASSUME TypeOK, TypeOK', JobsOK, NEW v \in Viewer, NEW t \in Tab, NEW k \in Key, NEW s \in Sel,
         rec[k].st # "none", rec[k].tab = t, Fresh(v, t, s), PicksStay, UNCHANGED <<rec, given>>,
         jobs' = jobs \cup {FirstJob(v, k, s)}
  PROVE  JobsOK'
<1>1. PICK n \in 1..MaxFiles : sel'[s].n = n
  <2>1. sel'[s].n \in 0..MaxFiles
    BY DEF TypeOK, Selected
  <2>2. sel'[s].n \in 1..MaxFiles
    BY <2>1, BoundsAssumption DEF Fresh
  <2> QED BY <2>2
<1>2. PICK h \in Job : /\ h = FirstJob(v, k, s) /\ h.key = k /\ h.sel = s /\ h.n = n /\ h.i = 1
                       /\ h.at = "sent"
  BY <1>1, FirstJobFields
<1>3. ~Started(h)
  BY <1>2 DEF Started
<1>4. JobOK(h)'
  <2>1. /\ rec'[h.key].st # "none" /\ sel'[h.sel].tab = rec'[h.key].tab /\ sel'[h.sel].n = h.n
        /\ h.i <= h.n
    BY <1>1, <1>2 DEF Fresh
  <2>2. \A l \in Key : ~GivenOf(l, h.sel)'
    BY <1>2 DEF Fresh, GivenOf
  <2> QED BY <1>3, <2>1, <2>2, Zenon DEF JobOK, Started
<1>5. ASSUME NEW j \in jobs PROVE JobOK(j)'
  <2>1. JobOK(j) /\ j.key \in Key
    BY RequestIsTyped DEF JobsOK
  <2>2. Steady(j.key) /\ UNCHANGED given
    BY DEF Steady, Same
  <2> QED BY <2>1, <2>2, SteadyJob
<1>6. jobs' = jobs \cup {h}
  BY <1>2
<1>7. \A j \in jobs : j.sel # h.sel
  BY <1>2 DEF Fresh
<1>8. \A j \in jobs' : JobOK(j)'
  BY <1>4, <1>5, <1>6
<1>9. \A j, g \in jobs' : j.sel = g.sel => j = g
  BY <1>6, <1>7 DEF JobsOK
<1>10. \A j, g \in jobs' : j.key = g.key /\ Started(j) /\ Started(g) => j = g
  BY <1>3, <1>6 DEF JobsOK
<1> QED BY <1>8, <1>9, <1>10, Zenon DEF JobsOK, Started

\* What another window, or this one for another tab, staged.
LEMMA OtherUnsent ==
  ASSUME TypeOK, NEW v \in Viewer, NEW t \in Tab, NEW s \in 0..MaxSels, s # 0 => Fresh(v, t, s),
         NEW w \in Viewer, NEW u \in Tab, w # v \/ u # t, selections[w][u] # 0, Unsent(w, u),
         selections'[v][t] \in {0, s},
         \A x \in Viewer, y \in Tab : x # v \/ y # t => selections'[x][y] = selections[x][y],
         \A j \in jobs' : j \in jobs \/ (s # 0 /\ j.sel = s), PicksStay, UNCHANGED given
  PROVE  Unsent(w, u)'
<1>1. selections'[w][u] = selections[w][u]
  OBVIOUS
<1>2. s # 0 => selections[w][u] # s
  BY DEF Fresh
<1>3. \A x \in Viewer, y \in Tab :
        selections'[x][y] = selections[w][u] => selections[x][y] = selections[w][u]
  <2> SUFFICES ASSUME NEW x \in Viewer, NEW y \in Tab, selections'[x][y] = selections[w][u]
               PROVE  selections[x][y] = selections[w][u]
    OBVIOUS
  <2>1. CASE x = v /\ y = t
    BY <1>2, <2>1
  <2>2. CASE ~(x = v /\ y = t)
    BY <2>2
  <2> QED BY <2>1, <2>2
<1>4. \A j \in jobs' : j.sel = selections[w][u] => \E h \in jobs : h.sel = j.sel
  BY <1>2
<1>5. \A k \in Key : GivenOf(k, selections[w][u])' =>
        GivenOf(k, selections[w][u]) \/ \E h \in jobs : h.sel = selections[w][u]
  BY DEF GivenOf
<1> QED BY <1>1, <1>3, <1>4, <1>5, SteadyUnsent

\* A key and a pick meet in a window, or one of them waits for the other.
LEMMA PairStep ==
  ASSUME IInv, TypeOK', NEW v \in Viewer, NEW t \in Tab, NEW k \in 0..MaxKeys,
         NEW s \in 0..MaxSels, k # 0 => rec[k].st # "none" /\ rec[k].tab = t,
         s # 0 => Fresh(v, t, s), Pair(v, t, k, s), PicksStay, ToldOK',
         UNCHANGED <<rec, disk, page, events>>
  PROVE  IInv'
<1>1. /\ TypeOK /\ JobsOK /\ ToldOK /\ PicksOK /\ SelectionsOK
      /\ picks \in [Viewer -> [Tab -> 0..MaxKeys]]
      /\ selections \in [Viewer -> [Tab -> 0..MaxSels]]
      /\ MaxKeys \in Nat /\ MaxSels \in Nat /\ 0 \in 0..MaxKeys /\ 0 \in 0..MaxSels
  <2>1. /\ MaxKeys \in Nat /\ MaxSels \in Nat /\ 0 \in 0..MaxKeys /\ 0 \in 0..MaxSels
    BY BoundsAssumption
  <2>2. TypeOK /\ JobsOK /\ ToldOK /\ PicksOK /\ SelectionsOK
    BY Parts
  <2>3. /\ picks \in [Viewer -> [Tab -> 0..MaxKeys]]
        /\ selections \in [Viewer -> [Tab -> 0..MaxSels]]
    BY <2>2 DEF TypeOK
  <2> QED BY <2>1, <2>2, <2>3
<1>2. /\ \A j \in jobs' : j \in jobs \/ (s # 0 /\ j.sel = s)
      /\ jobs \subseteq jobs'
      /\ JobsOK'
      /\ picks'[v][t] \in {0, k}
      /\ selections'[v][t] \in {0, s}
      /\ \A w \in Viewer, u \in Tab : w # v \/ u # t =>
           picks'[w][u] = picks[w][u] /\ selections'[w][u] = selections[w][u]
      /\ selections'[v][t] # 0 => jobs' = jobs
  <2>1. UNCHANGED <<rec, given>>
    BY DEF page
  <2>2. ASSUME jobs' = jobs PROVE JobsOK'
    <3>1. \A l \in Key : Steady(l)
      BY <2>1 DEF Steady, Same
    <3>2. UNCHANGED given /\ jobs' \subseteq jobs
      BY <2>1, <2>2
    <3> QED BY <1>1, <3>1, <3>2, SteadyJobs
  <2>3. CASE k # 0 /\ s # 0
    <3>1. /\ picks' = [picks EXCEPT ![v][t] = 0]
          /\ selections' = [selections EXCEPT ![v][t] = 0]
          /\ jobs' = jobs \/ jobs' = jobs \cup {FirstJob(v, k, s)}
      BY <2>3 DEF Pair
    <3>2. k \in Key /\ s \in Sel
      BY <1>1, <2>3 DEF Key, Sel
    <3>3. FirstJob(v, k, s).sel = s
      BY DEF FirstJob
    <3>4. JobsOK'
      <4>1. CASE jobs' = jobs
        BY <2>2, <4>1
      <4>2. CASE jobs' = jobs \cup {FirstJob(v, k, s)}
        BY <1>1, <2>1, <2>3, <3>2, <4>2, ChainBegins
      <4> QED BY <3>1, <4>1, <4>2
    <3>5. /\ picks'[v][t] = 0
          /\ \A w \in Viewer, u \in Tab : w # v \/ u # t => picks'[w][u] = picks[w][u]
      BY <1>1, <3>1, StagedTypes
    <3>6. /\ selections'[v][t] = 0
          /\ \A w \in Viewer, u \in Tab : w # v \/ u # t => selections'[w][u] = selections[w][u]
      BY <1>1, <3>1, StagedTypes
    <3>7. /\ \A j \in jobs' : j \in jobs \/ (s # 0 /\ j.sel = s)
          /\ jobs \subseteq jobs'
      BY <2>3, <3>1, <3>3
    <3> QED BY <3>4, <3>5, <3>6, <3>7
  <2>4. CASE ~(k # 0 /\ s # 0)
    <3>1. /\ picks' = [picks EXCEPT ![v][t] = k]
          /\ selections' = [selections EXCEPT ![v][t] = s]
          /\ jobs' = jobs
      BY <2>4 DEF Pair
    <3>2. /\ picks'[v][t] = k
          /\ \A w \in Viewer, u \in Tab : w # v \/ u # t => picks'[w][u] = picks[w][u]
      BY <1>1, <3>1, StagedTypes
    <3>3. /\ selections'[v][t] = s
          /\ \A w \in Viewer, u \in Tab : w # v \/ u # t => selections'[w][u] = selections[w][u]
      BY <1>1, <3>1, StagedTypes
    <3>4. JobsOK'
      BY <2>2, <3>1
    <3> QED BY <3>1, <3>2, <3>3, <3>4
  <2> QED BY <2>3, <2>4
<1>3. UNCHANGED given /\ rec' = rec
  BY DEF page
<1>4. PicksOK'
  <2> SUFFICES ASSUME NEW w \in Viewer, NEW u \in Tab, picks'[w][u] # 0
               PROVE  rec'[picks'[w][u]].st # "none" /\ rec'[picks'[w][u]].tab = u
    BY DEF PicksOK
  <2>1. CASE w = v /\ u = t
    <3>1. picks'[w][u] = k /\ k # 0
      BY <1>2, <2>1
    <3> QED BY <1>3, <2>1, <3>1
  <2>2. CASE ~(w = v /\ u = t)
    <3>1. picks'[w][u] = picks[w][u]
      BY <1>2, <2>2
    <3> QED BY <1>1, <1>3, <3>1 DEF PicksOK
  <2> QED BY <2>1, <2>2
<1>5. SelectionsOK'
  <2> SUFFICES ASSUME NEW w \in Viewer, NEW u \in Tab, selections'[w][u] # 0
               PROVE  Unsent(w, u)'
    BY DEF SelectionsOK
  <2>1. CASE w = v /\ u = t
    <3>1. selections'[v][t] = s /\ s # 0 /\ jobs' = jobs
      BY <1>2, <2>1
    <3>2. /\ sel'[s].tab = t /\ sel'[s].n # 0
          /\ \A j \in jobs' : j.sel # s
          /\ \A l \in Key : ~GivenOf(l, s)'
          /\ \A x \in Viewer, y \in Tab : selections[x][y] = s => x = v /\ y = t
      BY <1>3, <3>1 DEF Fresh, GivenOf
    <3>3. \A x \in Viewer, y \in Tab : selections'[x][y] = s => x = v /\ y = t
      BY <1>2, <3>2
    <3>4. Unsent(v, t)'
      BY <3>1, <3>2, <3>3, Zenon DEF Unsent, GivenOf
    <3> QED BY <2>1, <3>4
  <2>2. CASE w # v \/ u # t
    <3>1. selections'[w][u] = selections[w][u]
      BY <1>2, <2>2
    <3>2. selections[w][u] # 0
      BY <3>1
    <3>3. Unsent(w, u)
      BY <1>1, <3>2 DEF SelectionsOK
    <3> QED BY <1>1, <1>2, <1>3, <2>2, <3>2, <3>3, OtherUnsent
  <2> QED BY <2>1, <2>2
<1>6. jobs \subseteq jobs' /\ JobsOK'
  BY <1>2
<1> QED BY <1>4, <1>5, <1>6, WindowStep

LEMMA HandlePickStep == ASSUME IInv, TypeOK', NEW v \in Viewer, HandlePick(v) PROVE IInv'
<1> DEFINE k == Head(told[v])
           t == rec[k].tab
           s == selections[v][t]
<1>1. /\ UNCHANGED <<driver, believes, sel, rec, closed, disk, page, events, upsets>>
      /\ told' = [told EXCEPT ![v] = Tail(@)] /\ told[v] # <<>>
      /\ Pair(v, t, k, s) \/ UNCHANGED <<picks, selections, jobs>>
  BY DEF HandlePick
<1>2. /\ TypeOK /\ ToldOK /\ PicksOK /\ SelectionsOK /\ JobsOK /\ told \in [Viewer -> Seq(Key)]
      /\ selections \in [Viewer -> [Tab -> 0..MaxSels]]
      /\ \A l \in Key : KeyOK(l)
  BY Parts DEF TypeOK
<1>3. k = told[v][1] /\ 1 \in 1..Len(told[v]) /\ k \in Key
  BY <1>1, <1>2, ReadKey
<1>4. rec[k].st # "none" /\ t \in Tab
  <2>1. rec[k].st # "none"
    BY <1>2, <1>3 DEF ToldOK
  <2> QED BY <1>2, <1>3, <2>1 DEF KeyOK
<1>5. ToldOK'
  <2> SUFFICES ASSUME NEW w \in Viewer, NEW i \in 1..Len(told'[w])
               PROVE  rec'[told'[w][i]].st # "none"
    BY DEF ToldOK
  <2>1. CASE w = v
    <3>1. told[v] \in Seq(Key) /\ told[v] # <<>> /\ told'[v] = Tail(told[v])
      BY <1>1, <1>2
    <3>2. i + 1 \in 1..Len(told[v]) /\ told'[v][i] = told[v][i + 1]
      BY <2>1, <3>1
    <3> QED BY <1>1, <1>2, <2>1, <3>2 DEF ToldOK
  <2>2. CASE w # v
    <3>1. told'[w] = told[w]
      BY <1>1, <1>2, <2>2
    <3> QED BY <1>1, <1>2, <3>1 DEF ToldOK
  <2> QED BY <2>1, <2>2
<1>6. PicksStay /\ sel' = sel
  BY <1>1 DEF PicksStay
<1>7. CASE Pair(v, t, k, s)
  <2>1. k \in 0..MaxKeys /\ s \in 0..MaxSels /\ t \in Tab
    <3>1. s \in 0..MaxSels
      BY <1>2, <1>4
    <3> QED BY <1>3, <1>4, <3>1, BoundsAssumption DEF Key
  <2>2. s # 0 => Fresh(v, t, s)
    <3>1. s # 0 => Unsent(v, t)
      BY <1>2, <1>4 DEF SelectionsOK
    <3> HIDE DEF t, k
    <3> QED BY <1>6, <3>1 DEF Unsent, Fresh
  <2>3. UNCHANGED <<rec, disk, page, events>>
    BY <1>1
  <2>4. rec[k].st # "none" /\ rec[k].tab = t
    BY <1>4
  <2> HIDE DEF t, k, s
  <2> QED BY <1>5, <1>6, <1>7, <2>1, <2>2, <2>3, <2>4, PairStep
<1>8. CASE UNCHANGED <<picks, selections, jobs>>
  <2>1. UNCHANGED given /\ rec' = rec /\ jobs' = jobs
    BY <1>1, <1>8 DEF page
  <2>2. \A l \in Key : Steady(l)
    BY <2>1 DEF Steady, Same
  <2>3. JobsOK' /\ PicksOK' /\ SelectionsOK'
    <3>1. UNCHANGED <<given, sel, picks, selections>> /\ jobs' \subseteq jobs
      BY <1>6, <1>8, <2>1
    <3> QED BY <2>2, <3>1, SteadyRest
  <2>4. UNCHANGED <<rec, disk, page, events>> /\ jobs \subseteq jobs'
    BY <1>1, <2>1
  <2> QED BY <1>5, <1>6, <2>3, <2>4, WindowStep
<1> QED BY <1>1, <1>7, <1>8

LEMMA SelectStep ==
  ASSUME IInv, TypeOK', NEW v \in Viewer, NEW t \in Tab, Select(v, t)
  PROVE  IInv'
<1>1. PICK s \in Sel, n \in 1..MaxFiles :
        /\ sel[s].n = 0
        /\ sel' = [sel EXCEPT ![s] = [tab |-> t, n |-> n]]
        /\ Pair(v, t, picks[v][t], s)
  BY DEF Select
<1>2. UNCHANGED <<told, rec, disk, page, events>>
  BY DEF Select
<1>3. /\ TypeOK /\ ToldOK /\ PicksOK /\ SelectionsOK /\ JobsOK /\ GivenOK
      /\ sel \in [Sel -> Selected] /\ picks \in [Viewer -> [Tab -> 0..MaxKeys]]
      /\ selections \in [Viewer -> [Tab -> 0..MaxSels]]
  BY Parts DEF TypeOK
<1>4. /\ sel'[s].tab = t /\ sel'[s].n = n /\ n # 0
      /\ \A r \in Sel : r # s => sel'[r] = sel[r]
  BY <1>1, <1>3, BoundsAssumption
<1>5. PicksStay
  BY <1>1, <1>4 DEF PicksStay
<1>6. Fresh(v, t, s)
  <2>1. ASSUME NEW j \in jobs PROVE j.sel # s
    <3>1. JobOK(j) /\ j.n \in 1..MaxFiles
      BY <1>3, RequestIsTyped DEF JobsOK
    <3>2. sel[j.sel].n # 0
      BY <3>1, BoundsAssumption DEF JobOK
    <3> QED BY <1>1, <3>2
  <2>2. ASSUME NEW k \in Key, GivenOf(k, s) PROVE FALSE
    <3>1. given[k] # <<>> /\ given[k][1] = <<s, 1>>
      BY <2>2 DEF GivenOf
    <3>2. PICK r \in Sel : GivenOf(k, r) /\ sel[r].n # 0
      BY <1>3, <3>1, GivenHead, Zenon
    <3>3. <<r, 1>> = <<s, 1>>
      BY <3>1, <3>2 DEF GivenOf
    <3> QED BY <1>1, <3>2, <3>3
  <2>3. ASSUME NEW w \in Viewer, NEW u \in Tab, selections[w][u] = s PROVE FALSE
    <3>1. s # 0
      BY BoundsAssumption DEF Sel
    <3>2. sel[s].n # 0
      BY <1>3, <2>3, <3>1 DEF SelectionsOK, Unsent
    <3> QED BY <1>1, <3>2
  <2> QED BY <1>4, <2>1, <2>2, <2>3, Zenon DEF Fresh
<1>7. ToldOK'
  <2>1. (\A k \in Key : Same(k)) /\ UNCHANGED told
    BY <1>2 DEF Same
  <2> QED BY <1>3, <2>1, SteadyTold
<1> DEFINE k == picks[v][t]
<1>8. /\ k \in 0..MaxKeys /\ s \in 0..MaxSels /\ Pair(v, t, k, s)
      /\ k # 0 => rec[k].st # "none" /\ rec[k].tab = t
      /\ s # 0 => Fresh(v, t, s)
  BY <1>1, <1>3, <1>6, BoundsAssumption DEF PicksOK, Sel
<1>9. UNCHANGED <<rec, disk, page, events>>
  BY <1>2
<1> HIDE DEF k
<1> QED BY <1>5, <1>7, <1>8, <1>9, PairStep

LEMMA OtherWindowSteps ==
  ASSUME IInv, TypeOK',
         \/ \E v \in Viewer : Transfer(v) \/ LearnRole(v)
         \/ \E v \in Viewer, t \in Tab : ForgetPick(v, t) \/ ForgetSelection(v, t)
  PROVE  IInv'
<1>1. /\ MaxKeys \in Nat /\ MaxSels \in Nat /\ 0 \in 0..MaxKeys /\ 0 \in 0..MaxSels
      /\ picks \in [Viewer -> [Tab -> 0..MaxKeys]]
      /\ selections \in [Viewer -> [Tab -> 0..MaxSels]]
  <2>1. /\ MaxKeys \in Nat /\ MaxSels \in Nat /\ 0 \in 0..MaxKeys /\ 0 \in 0..MaxSels
    BY BoundsAssumption
  <2>2. /\ picks \in [Viewer -> [Tab -> 0..MaxKeys]]
        /\ selections \in [Viewer -> [Tab -> 0..MaxSels]]
    BY DEF IInv, TypeOK
  <2> QED BY <2>1, <2>2
<1>2. ASSUME NEW v \in Viewer, Transfer(v) PROVE IInv'
  <2>1. UNCHANGED <<told, sel, jobs, rec, disk, page, events>>
    BY <1>2 DEF Transfer
  <2>2. picks' = picks /\ selections' = selections
    BY <1>2 DEF Transfer
  <2> QED BY <2>1, <2>2, ForgetStep
<1>3. ASSUME NEW v \in Viewer, LearnRole(v) PROVE IInv'
  <2> DEFINE p == [picks EXCEPT ![v] = [t \in Tab |-> 0]]
             s == [selections EXCEPT ![v] = [t \in Tab |-> 0]]
  <2>1. UNCHANGED <<told, sel, jobs, rec, disk, page, events>>
    BY <1>3 DEF LearnRole
  <2>2. (picks' = picks /\ selections' = selections) \/ (picks' = p /\ selections' = s)
    BY <1>3 DEF LearnRole
  <2>3. \A w \in Viewer, t \in Tab : p[w][t] # 0 => p[w][t] = picks[w][t]
    <3>1. /\ \A t \in Tab : p[v][t] = 0
          /\ \A w \in Viewer, t \in Tab : w # v => p[w][t] = picks[w][t]
      BY <1>1, ForgetTypes
    <3> HIDE DEF p
    <3> QED BY <3>1
  <2>4. \A w \in Viewer, t \in Tab : s[w][t] # 0 => s[w][t] = selections[w][t]
    <3>1. /\ \A t \in Tab : s[v][t] = 0
          /\ \A w \in Viewer, t \in Tab : w # v => s[w][t] = selections[w][t]
      BY <1>1, ForgetTypes
    <3> HIDE DEF s
    <3> QED BY <3>1
  <2> HIDE DEF p, s
  <2>5. \A w \in Viewer, t \in Tab :
          /\ picks'[w][t] # 0 => picks'[w][t] = picks[w][t]
          /\ selections'[w][t] # 0 => selections'[w][t] = selections[w][t]
    BY <2>2, <2>3, <2>4
  <2> QED BY <2>1, <2>5, ForgetStep
<1>4. ASSUME NEW v \in Viewer, NEW t \in Tab, ForgetPick(v, t) PROVE IInv'
  <2> DEFINE p == [picks EXCEPT ![v][t] = 0]
  <2>1. UNCHANGED <<told, sel, jobs, rec, disk, page, events>>
    BY <1>4 DEF ForgetPick
  <2>2. picks' = p /\ selections' = selections
    BY <1>4 DEF ForgetPick
  <2>3. \A w \in Viewer, u \in Tab : p[w][u] # 0 => p[w][u] = picks[w][u]
    <3>1. /\ p[v][t] = 0
          /\ \A w \in Viewer, u \in Tab : w # v \/ u # t => p[w][u] = picks[w][u]
      BY <1>1, StagedTypes
    <3> HIDE DEF p
    <3> QED BY <3>1
  <2> HIDE DEF p
  <2> QED BY <2>1, <2>2, <2>3, ForgetStep
<1>5. ASSUME NEW v \in Viewer, NEW t \in Tab, ForgetSelection(v, t) PROVE IInv'
  <2> DEFINE s == [selections EXCEPT ![v][t] = 0]
  <2>1. UNCHANGED <<told, sel, jobs, rec, disk, page, events>>
    BY <1>5 DEF ForgetSelection
  <2>2. picks' = picks /\ selections' = s
    BY <1>5 DEF ForgetSelection
  <2>3. \A w \in Viewer, u \in Tab : s[w][u] # 0 => s[w][u] = selections[w][u]
    <3>1. /\ s[v][t] = 0
          /\ \A w \in Viewer, u \in Tab : w # v \/ u # t => s[w][u] = selections[w][u]
      BY <1>1, StagedTypes
    <3> HIDE DEF s
    <3> QED BY <3>1
  <2> HIDE DEF s
  <2> QED BY <2>1, <2>2, <2>3, ForgetStep
<1> QED BY <1>2, <1>3, <1>4, <1>5

------------------------------------------------------------------------------
(* The theorems. *)

LEMMA TypedNext == ASSUME IInv, Next PROVE TypeOK'
<1>1. TypeOK /\ ToldOK /\ SelectionsOK /\ JobsOK /\ \A k \in Key : KeyOK(k)
  BY Parts
<1>2. \A k \in Key : node[k] # "none" => rec[k].tab \in Tab
  BY <1>1 DEF KeyOK
<1>3. ASSUME NEW v \in Viewer, NEW i \in 1..Len(told[v]) PROVE node[told[v][i]] # "none"
  <2>1. told[v][i] \in Key
    BY <1>1 DEF TypeOK
  <2>2. rec[told[v][i]].st # "none"
    BY <1>1 DEF ToldOK
  <2> QED BY <1>1, <2>1, <2>2 DEF KeyOK
<1>4. \A v \in Viewer, t \in Tab : selections[v][t] # 0 => sel[selections[v][t]].n # 0
  BY <1>1 DEF SelectionsOK, Unsent
<1>5. \A j \in jobs : j.i <= j.n
  BY <1>1 DEF JobsOK, JobOK
<1>6. CASE \/ \E t \in Tab : OpenInput(t) \/ DocumentGoes(t)
           \/ \E k \in Key : CancelArrives(k)
           \/ \E j \in jobs : TakeFiles(j)
  BY <1>1, <1>6, TypedPage
<1>7. CASE \/ HandleEvent \/ Close
           \/ \E k \in Key : TimeOut(k)
           \/ \E j \in jobs : Break(j) \/ Finish(j)
  BY <1>1, <1>7, TypedEnds
<1>8. CASE \/ \E k \in Key : RemoveDirectory(k)
           \/ \E j \in jobs : Upload(j) \/ MakeDirectory(j) \/ BodyArrives(j)
  BY <1>1, <1>5, <1>8, TypedRequests
<1>9. CASE \/ \E v \in Viewer : Transfer(v) \/ LearnRole(v) \/ HandlePick(v)
           \/ \E v \in Viewer, t \in Tab :
                Select(v, t) \/ ForgetPick(v, t) \/ ForgetSelection(v, t)
  BY <1>1, <1>2, <1>3, <1>4, <1>9, TypedWindows
<1> QED BY <1>6, <1>7, <1>8, <1>9, Zenon DEF Next

LEMMA NextIInv == IInv /\ [Next]_vars => IInv'
<1> SUFFICES ASSUME IInv, [Next]_vars PROVE IInv'
  OBVIOUS
<1>1. CASE Next
  <2>1. TypeOK'
    BY <1>1, TypedNext
  <2>2. CASE \E t \in Tab : OpenInput(t) \/ DocumentGoes(t)
    BY <2>1, <2>2, OpenInputStep, DocumentGoesStep
  <2>3. CASE \E k \in Key : CancelArrives(k) \/ TimeOut(k) \/ RemoveDirectory(k)
    BY <2>1, <2>3, CancelArrivesStep, TimeOutStep, RemoveDirectoryStep
  <2>4. CASE \E j \in jobs : TakeFiles(j) \/ Upload(j) \/ MakeDirectory(j)
    BY <2>1, <2>4, TakeFilesStep, UploadStep, MakeDirectoryStep
  <2>5. CASE \E j \in jobs : BodyArrives(j) \/ Break(j) \/ Finish(j)
    BY <2>1, <2>5, BodyArrivesStep, BreakStep, FinishStep
  <2>6. CASE HandleEvent \/ Close
    BY <2>1, <2>6, HandleEventStep, CloseStep
  <2>7. CASE \E v \in Viewer : HandlePick(v)
    BY <2>1, <2>7, HandlePickStep
  <2>8. CASE \E v \in Viewer, t \in Tab : Select(v, t)
    BY <2>1, <2>8, SelectStep
  <2>9. CASE \/ \E v \in Viewer : Transfer(v) \/ LearnRole(v)
             \/ \E v \in Viewer, t \in Tab : ForgetPick(v, t) \/ ForgetSelection(v, t)
    BY <2>1, <2>9, OtherWindowSteps
  <2> QED BY <1>1, <2>2, <2>3, <2>4, <2>5, <2>6, <2>7, <2>8, <2>9, Zenon DEF Next
<1>2. CASE UNCHANGED vars
  <2>1. /\ UNCHANGED <<driver, believes, told, picks, selections, sel>>
        /\ UNCHANGED <<jobs, rec, closed, removing, dir, late>>
        /\ UNCHANGED <<node, given, cancels, cancelled, events, upsets>>
    BY <1>2 DEF vars, windows, disk, page
  <2>2. TypeOK'
    <3>1. WindowTypes' /\ RequestTypes' /\ RecordTypes'
      BY <2>1, Parts, TypesSplit DEF Types, WindowTypes, RequestTypes, RecordTypes
    <3>2. DiskTypes' /\ PageTypes' /\ EventTypes'
      BY <2>1, Parts, TypesSplit DEF Types, DiskTypes, PageTypes, EventTypes
    <3> QED BY <3>1, <3>2, TypesJoin
  <2>3. UNCHANGED <<told, sel, jobs, rec, disk, page, events>>
    BY <2>1 DEF disk, page
  <2>4. picks' = picks /\ selections' = selections
    BY <2>1
  <2> QED BY <2>2, <2>3, <2>4, ForgetStep
<1> QED BY <1>1, <1>2

(* The invariant holds of every behaviour of the gateway, the page and the windows. *)
THEOREM Invariance == Spec => []IInv
<1>1. Init => IInv
  BY InitIInv
<1>2. IInv /\ [Next]_vars => IInv'
  BY NextIInv
<1> QED BY <1>1, <1>2, PTL DEF Spec

(* An input is given one pick, whole and in order, made on its own tab, and no pick goes to
   two inputs, whichever windows post under which keys and whenever a batch ends. *)
THEOREM WholePicksHolds == Spec => []WholePicks
<1>1. IInv => WholePicks
  BY PicksAreWhole
<1> QED BY <1>1, Invariance, PTL

(* There is one live chooser at a time, and it has a timer or a request in progress; one that
   is over gave its input the files or a cancel event, or is about to, unless the document is
   gone. *)
THEOREM ChooserEndsHolds == Spec => []ChooserEnds
<1>1. IInv => ChooserEnds
  BY ChoosersEnd
<1> QED BY <1>1, Invariance, PTL

(* Of a batch that was given up nothing stays on disk once its removal is through, except the
   directory that mkdir makes again when the removal ran first. *)
THEOREM NothingLeftHolds == Spec => []NothingLeft
<1>1. IInv => NothingLeft
  BY NothingStays
<1> QED BY <1>1, Invariance, PTL
=============================================================================
