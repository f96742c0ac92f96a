------------------------------ MODULE TabsProofs ------------------------------
(***************************************************************************)
(* Machine-checked proofs about Tabs, for any number of pages and every    *)
(* bound on what users, pages and failures do: a session always gets a tab *)
(* again, one of its tabs is the active one, and a viewer that is left     *)
(* alone shows that one.                                                   *)
(***************************************************************************)
EXTENDS Tabs, WellFoundedInduction, TLAPS

------------------------------------------------------------------------------
(* The inductive invariant. *)

Id      == Tab \cup {None}
Further == [what : {"done", "publish", "close", "list"}, arg : Nat]
Call    == [do : {"create", "activate", "close"}, tab : Id, next : Further]
News    == [e : {"attached", "detached", "info"}, tab : Tab]
Reply   == [e : {"create", "activate", "close"}, tab : Id, next : Further, ok : BOOLEAN]
Chrome  == [pages : SUBSET Tab, dying : SUBSET Tab, made : Tab]
Join    == [phase : {"none", "listing"}, ids : Seq(Tab), seen : SUBSET Id]
Viewing == [open : BOOLEAN, conn : Nat, ids : Seq(Tab), shows : Id, tab : Id, n : Nat,
            waiting : BOOLEAN, asks : SUBSET Tab, clicks : Seq(Tab)]

Typed ==
  /\ chrome \in Chrome /\ join \in Join /\ viewer \in Viewing
  /\ calls \in Seq(Call) /\ events \in Seq(News \cup Reply)
  /\ order \in Seq(Tab) /\ active \in Id
  /\ hub \in [Tab -> Nat] /\ owes \subseteq Tab /\ registry \subseteq Tab
  /\ bcast \in {"idle", "armed", "listing"}

TabsOK ==
  /\ chrome.dying \subseteq chrome.pages /\ chrome.pages \subseteq 1..chrome.made
  /\ IsInjective(order) /\ tabs \subseteq registry /\ registry \subseteq 1..chrome.made
  /\ owes \subseteq tabs
  /\ \A t \in Tab : t \notin tabs => hub[t] = 0

(* Pages are numbered in the order they were opened in, and a message is about a page
   that was opened; a creation is not followed by the activation a user asked for. *)
CallOK(c, made) ==
  /\ c.do # "create" => c.tab \in 1..made
  /\ c.do = "create" => c.next.what # "publish"
  /\ c.next.what = "close" => c.next.arg \in 1..made

EventOK(m, made) ==
  /\ m.tab \in 0..made
  /\ m.e # "create" => m.tab # None
  /\ m.e = "create" => m.next.what # "publish" /\ (m.ok => m.tab # None)
  /\ m.e \in {"create", "activate"} /\ m.next.what = "close" => m.next.arg \in 1..made

\* create() will make the tab of this command, or of this answer, the active one.
Promises(c) == c.do = "activate" /\ c.next.what # "publish"
Promoting(m) ==
  \/ m.e = "create" /\ m.ok
  \/ m.e = "activate" /\ m.next.what # "publish"

(* The two queues, when `made' pages were opened and those in known are attached.  A page is
   attached once, before anything else is said of it; create() makes each tab active once. *)
QueuesOK(made, known, cs, es) ==
  /\ \A i \in 1..Len(cs) : CallOK(cs[i], made)
  /\ \A i \in 1..Len(es) : EventOK(es[i], made)
  /\ \A i \in 1..Len(es) : es[i].e = "attached" => es[i].tab \notin known
  /\ \A i, j \in 1..Len(es) : i < j /\ es[j].e = "attached" => es[i].tab # es[j].tab
  /\ \A i, j \in 1..Len(cs) :
       i < j /\ Promises(cs[i]) /\ Promises(cs[j]) => cs[i].tab # cs[j].tab
  /\ \A i, j \in 1..Len(es) :
       i < j /\ Promoting(es[i]) /\ Promoting(es[j]) => es[i].tab # es[j].tab
  /\ \A i \in 1..Len(cs), j \in 1..Len(es) :
       Promises(cs[i]) /\ Promoting(es[j]) => cs[i].tab # es[j].tab

\* The attachment of a page has been handled.
Known(made, es, t) ==
  /\ t \in 1..made
  /\ \A i \in 1..Len(es) : es[i].e = "attached" => es[i].tab # t

\* create() has yet to make the tab active.
Promoted(cs, es, t) ==
  \/ \E i \in 1..Len(cs) : Promises(cs[i]) /\ cs[i].tab = t
  \/ \E i \in 1..Len(es) : Promoting(es[i]) /\ es[i].tab = t

Activating(cs, es) ==
  \/ \E i \in 1..Len(cs) : cs[i].do = "activate"
  \/ \E i \in 1..Len(es) : es[i].e = "activate"

\* A click's activation of the tab, or another viewer's, is under way.
Clicked(c)   == c.do = "activate" /\ c.next.what = "publish"
Confirmed(m) == m.e = "activate" /\ m.next.what = "publish"

Selecting(cs, es, t) ==
  \/ \E i \in 1..Len(cs) : Clicked(cs[i]) /\ cs[i].tab = t
  \/ \E i \in 1..Len(es) : Confirmed(es[i]) /\ es[i].tab = t

(* Without an active tab somebody is about to be activated; what is active and no tab had
   gone when it was. *)
ActiveOK ==
  /\ active # None /\ active \notin tabs => orphaned
  /\ active = None /\ tabs # {} /\ ~orphaned => Activating(calls, events)

\* What a viewer names is known, and a mirror is not ahead of its tab.
KnownOK ==
  /\ active # None => Known(chrome.made, events, active)
  /\ viewer.tab # None => Known(chrome.made, events, viewer.tab)
  /\ \A t \in ToSet(join.ids) \cup ToSet(viewer.ids) : Known(chrome.made, events, t)

MirrorOK ==
  /\ viewer.tab = None => viewer.n = 0 /\ ~viewer.waiting
  /\ viewer.tab \in tabs => viewer.n <= hub[viewer.tab]

(* A mirror shows the active tab up to its last event, or waits for a snapshot that will come;
   it may show another, and then the list that is under way will lead it, or the tab was
   clicked: it will be activated, which takes a list, or it has `strayed'. *)
InStep ==
  /\ viewer.tab = active
  /\ IF viewer.waiting THEN active \in viewer.asks \cup owes ELSE viewer.n = hub[active]

ShownOK ==
  viewer.open /\ active # None /\ hub[active] > 0 =>
    \/ InStep
    \/ viewer.tab \notin {None, active}
    \/ unshown /\ ~Promoted(calls, events, active)

ListedOK ==
  viewer.open /\ bcast = "idle" /\ join.phase = "none" /\ tabs # {} /\ ~late =>
    viewer.ids = order /\ viewer.shows = active

LedOK ==
  viewer.open /\ bcast = "idle" /\ join.phase = "none" /\ tabs # {} /\ ~late /\ active # None =>
    \/ viewer.tab \in {None, active} \cup ToSet(viewer.clicks)
    \/ Selecting(calls, events, viewer.tab)
    \/ strayed

ViewerOK == KnownOK /\ MirrorOK /\ ShownOK /\ ListedOK /\ LedOK

IInv ==
  /\ Typed /\ TabsOK
  /\ QueuesOK(chrome.made, registry, calls, events)
  /\ TabAlwaysComing /\ ActiveOK /\ ViewerOK

------------------------------------------------------------------------------
(* Messages. *)

LEMMA CallMade ==
  ASSUME NEW d \in {"create", "activate", "close"}, NEW t \in Id, NEW f \in Further
  PROVE  /\ Cmd(d, t, f) \in Call
         /\ Cmd(d, t, f).do = d /\ Cmd(d, t, f).tab = t /\ Cmd(d, t, f).next = f
BY Zenon DEF Cmd, Call

LEMMA FurtherMade ==
  ASSUME NEW w \in {"done", "publish", "close", "list"}, NEW a \in Nat
  PROVE  Go(w, a) \in Further /\ Go(w, a).what = w /\ Go(w, a).arg = a
BY Zenon DEF Go, Further

\* Somebody activates a tab that is known, or closes it.
LEMMA ActivateMade ==
  ASSUME NEW t \in Tab, NEW made \in Nat, t \in 1..made
  PROVE  /\ Activate(t) \in Call /\ CallOK(Activate(t), made) /\ ~Promises(Activate(t))
         /\ Activate(t).do = "activate"
<1>1. Go("publish", None) \in Further /\ Go("publish", None).what = "publish"
  BY FurtherMade DEF None
<1>2. /\ Activate(t) \in Call /\ Activate(t).do = "activate" /\ Activate(t).tab = t
      /\ Activate(t).next = Go("publish", None)
  BY <1>1, CallMade DEF Activate, Id
<1> QED BY <1>1, <1>2 DEF CallOK, Promises

LEMMA CreateMade ==
  ASSUME NEW made \in Nat
  PROVE  /\ CreateTab(Done) \in Call /\ CallOK(CreateTab(Done), made)
         /\ ~Promises(CreateTab(Done)) /\ CreateTab(Done).do = "create"
<1>1. Done \in Further /\ Done.what = "done"
  BY FurtherMade DEF Done, None
<1>2. /\ CreateTab(Done) \in Call /\ CreateTab(Done).do = "create"
      /\ CreateTab(Done).next = Done
  BY <1>1, CallMade DEF CreateTab, Id
<1> QED BY <1>1, <1>2 DEF CallOK, Promises

LEMMA CloseMade ==
  ASSUME NEW t \in Tab, NEW made \in Nat, t \in 1..made
  PROVE  CloseTab(t) \in Call /\ CallOK(CloseTab(t), made) /\ ~Promises(CloseTab(t))
<1>1. Done \in Further /\ Done.what = "done"
  BY FurtherMade DEF Done, None
<1>2. /\ CloseTab(t) \in Call /\ CloseTab(t).do = "close" /\ CloseTab(t).tab = t
      /\ CloseTab(t).next = Done
  BY <1>1, CallMade DEF CloseTab, Id
<1> QED BY <1>1, <1>2 DEF CallOK, Promises

LEMMA NewsMade ==
  ASSUME NEW w \in {"attached", "detached", "info"}, NEW t \in Tab
  PROVE  Event(w, t) \in News /\ Event(w, t).e = w /\ Event(w, t).tab = t
BY Zenon DEF Event, News

LEMMA ReplyMade ==
  ASSUME NEW c \in Call, NEW t \in Id, NEW ok \in BOOLEAN
  PROVE  LET a == Answer(c, t, ok)
         IN  a \in Reply /\ a.e = c.do /\ a.tab = t /\ a.next = c.next /\ a.ok = ok
<1>1. c.do \in {"create", "activate", "close"} /\ c.next \in Further
  BY DEF Call
<1> QED BY <1>1, Zenon DEF Answer, Reply

LEMMA Kinds ==
  ASSUME NEW m \in News \cup Reply
  PROVE  /\ m.e \in {"attached", "detached", "info"} => m \in News /\ m.tab \in Tab
         /\ m.e \in {"create", "activate", "close"} =>
              /\ m \in Reply /\ m.tab \in Id /\ m.next \in Further /\ m.ok \in BOOLEAN
         /\ m.e \in {"attached", "detached", "info", "create", "activate", "close"}
<1>1. CASE m \in News
  BY <1>1 DEF News
<1>2. CASE m \in Reply
  BY <1>2 DEF Reply
<1> QED BY <1>1, <1>2

LEMMA Numbers == /\ MaxTabs \in Nat \ {0} /\ Tab \subseteq Nat /\ None = 0 /\ Id = 0..MaxTabs
                 /\ None \notin Tab
BY TabsConstants DEF Tab, None, Id

------------------------------------------------------------------------------
(* The queues. *)

LEMMA CallTaken ==
  ASSUME NEW cs \in Seq(Call), cs # <<>>
  PROVE  /\ Tail(cs) \in Seq(Call) /\ Head(cs) \in Call
         /\ Len(Tail(cs)) = Len(cs) - 1 /\ Head(cs) = cs[1] /\ Len(cs) \in Nat \ {0}
         /\ \A i \in 1..Len(Tail(cs)) : Tail(cs)[i] = cs[i + 1]
OBVIOUS

LEMMA NewsTaken ==
  ASSUME NEW es \in Seq(News \cup Reply), es # <<>>
  PROVE  /\ Tail(es) \in Seq(News \cup Reply) /\ Head(es) \in News \cup Reply
         /\ Len(Tail(es)) = Len(es) - 1 /\ Head(es) = es[1] /\ Len(es) \in Nat \ {0}
         /\ \A i \in 1..Len(Tail(es)) : Tail(es)[i] = es[i + 1]
<1> DEFINE S == News \cup Reply
<1>1. es \in Seq(S)
  OBVIOUS
<1> HIDE DEF S
<1>2. /\ Tail(es) \in Seq(S) /\ Head(es) \in S
      /\ Len(Tail(es)) = Len(es) - 1 /\ Head(es) = es[1] /\ Len(es) \in Nat \ {0}
      /\ \A i \in 1..Len(Tail(es)) : Tail(es)[i] = es[i + 1]
  BY <1>1
<1> QED BY <1>2 DEF S

\* Something is put at the end of a queue.
Longer(s, x, r) ==
  /\ Len(r) = Len(s) + 1 /\ r[Len(s) + 1] = x /\ Len(s) \in Nat
  /\ \A i \in 1..Len(s) : r[i] = s[i]

LEMMA CallPut ==
  ASSUME NEW cs \in Seq(Call), NEW c \in Call
  PROVE  /\ Append(cs, c) \in Seq(Call) /\ Longer(cs, c, Append(cs, c))
         /\ cs \o <<c>> = Append(cs, c)
BY DEF Longer

LEMMA NewsPut ==
  ASSUME NEW es \in Seq(News \cup Reply), NEW m \in News \cup Reply
  PROVE  Append(es, m) \in Seq(News \cup Reply) /\ Longer(es, m, Append(es, m))
<1> DEFINE S == News \cup Reply
<1>1. es \in Seq(S) /\ m \in S
  OBVIOUS
<1> HIDE DEF S
<1>2. Append(es, m) \in Seq(S) /\ Longer(es, m, Append(es, m))
  BY <1>1 DEF Longer
<1> QED BY <1>2 DEF S

LEMMA TwoPut ==
  ASSUME NEW es \in Seq(News \cup Reply), NEW m \in News \cup Reply, NEW k \in News \cup Reply
  PROVE  es \o <<m, k>> = Append(Append(es, m), k)
<1> DEFINE S == News \cup Reply
<1>1. es \in Seq(S) /\ m \in S /\ k \in S
  OBVIOUS
<1> HIDE DEF S
<1>2. es \o <<m, k>> = Append(Append(es, m), k)
  BY <1>1
<1> QED BY <1>2

\* The first of a queue is taken.
Shorter(s, r) ==
  /\ Len(s) \in Nat \ {0} /\ Len(r) = Len(s) - 1
  /\ \A i \in 1..Len(r) : r[i] = s[i + 1]

LEMMA PutAtEnd ==
  ASSUME NEW s, NEW x, NEW r, Longer(s, x, r)
  PROVE  \A i \in 1..Len(r) : (i \in 1..Len(s) /\ r[i] = s[i]) \/ (i = Len(s) + 1 /\ r[i] = x)
BY DEF Longer

LEMMA TakenFirst ==
  ASSUME NEW s, NEW r, Shorter(s, r)
  PROVE  /\ 1 \in 1..Len(s)
         /\ \A i \in 1..Len(r) : r[i] = s[i + 1] /\ i + 1 \in 1..Len(s) /\ i + 1 > 1
         /\ \A i \in 1..Len(s) : i = 1 \/ (i - 1 \in 1..Len(r) /\ r[i - 1] = s[i])
<1>1. 1 \in 1..Len(s)
  BY DEF Shorter
<1>2. \A i \in 1..Len(r) : i + 1 \in 1..Len(s) /\ i + 1 > 1
  BY DEF Shorter
<1>3. \A i \in 1..Len(r) : r[i] = s[i + 1]
  BY DEF Shorter
<1>4. ASSUME NEW i \in 1..Len(s), i # 1 PROVE i - 1 \in 1..Len(r) /\ r[i - 1] = s[i]
  <2>1. i - 1 \in 1..Len(r) /\ (i - 1) + 1 = i
    BY <1>4 DEF Shorter
  <2> QED BY <2>1, <1>3
<1> QED BY <1>1, <1>2, <1>3, <1>4

\* What is under way stays so when the queues grow.
LEMMA SelectingOn ==
  ASSUME NEW cs, NEW es, NEW x, NEW r
  PROVE  /\ Longer(cs, x, r) => \A t : Selecting(cs, es, t) => Selecting(r, es, t)
         /\ Longer(es, x, r) => \A t : Selecting(cs, es, t) => Selecting(cs, r, t)
<1>1. ASSUME Longer(cs, x, r), NEW t, Selecting(cs, es, t) PROVE Selecting(r, es, t)
  <2>1. \A i \in 1..Len(cs) : i \in 1..Len(r) /\ r[i] = cs[i]
    BY <1>1 DEF Longer
  <2> QED BY <1>1, <2>1 DEF Selecting
<1>2. ASSUME Longer(es, x, r), NEW t, Selecting(cs, es, t) PROVE Selecting(cs, r, t)
  <2>1. \A i \in 1..Len(es) : i \in 1..Len(r) /\ r[i] = es[i]
    BY <1>2 DEF Longer
  <2> QED BY <1>2, <2>1 DEF Selecting
<1> QED BY <1>1, <1>2

LEMMA SelectingSent ==
  ASSUME NEW cs \in Seq(Call), NEW es, NEW c, NEW ds,
         ds = cs \o <<>> \/ (c \in Call /\ ds = cs \o <<c>>)
  PROVE  \A t : Selecting(cs, es, t) => Selecting(ds, es, t)
<1>1. CASE ds = cs \o <<>>
  <2>1. ds = cs
    BY <1>1
  <2> QED BY <2>1
<1>2. CASE c \in Call /\ ds = cs \o <<c>>
  <2>1. Longer(cs, c, ds)
    BY <1>2, CallPut
  <2> QED BY <2>1, SelectingOn
<1> QED BY <1>1, <1>2

\* A command that is executed is answered.
LEMMA SelectingPerformed ==
  ASSUME NEW cs, NEW es, NEW k, NEW ds, NEW fs, Shorter(cs, ds), Longer(es, k, fs),
         Clicked(cs[1]) => Confirmed(k) /\ k.tab = cs[1].tab
  PROVE  \A t : Selecting(cs, es, t) => Selecting(ds, fs, t)
<1>1. /\ \A i \in 1..Len(cs) : i = 1 \/ (i - 1 \in 1..Len(ds) /\ ds[i - 1] = cs[i])
      /\ \A i \in 1..Len(es) : i \in 1..Len(fs) /\ fs[i] = es[i]
      /\ Len(es) + 1 \in 1..Len(fs) /\ fs[Len(es) + 1] = k
  BY TakenFirst DEF Longer
<1>2. ASSUME NEW t, NEW i \in 1..Len(cs), Clicked(cs[i]), cs[i].tab = t PROVE Selecting(ds, fs, t)
  <2>1. CASE i = 1
    BY <1>1, <1>2, <2>1 DEF Selecting
  <2>2. CASE i # 1
    <3>1. i - 1 \in 1..Len(ds) /\ ds[i - 1] = cs[i]
      BY <1>1, <2>2
    <3> QED BY <1>2, <3>1, Zenon DEF Selecting
  <2> QED BY <2>1, <2>2
<1>3. ASSUME NEW t, NEW i \in 1..Len(es), Confirmed(es[i]), es[i].tab = t PROVE Selecting(ds, fs, t)
  BY <1>1, <1>3, Zenon DEF Selecting
<1> QED BY <1>2, <1>3, Zenon DEF Selecting

\* An answer that is handled is not under way any more.
LEMMA SelectingHandled ==
  ASSUME NEW cs, NEW es, NEW fs, Shorter(es, fs)
  PROVE  \A t : Selecting(cs, es, t) =>
                 Selecting(cs, fs, t) \/ (Confirmed(es[1]) /\ es[1].tab = t)
<1>1. \A i \in 1..Len(es) : i = 1 \/ (i - 1 \in 1..Len(fs) /\ fs[i - 1] = es[i])
  BY TakenFirst
<1>2. ASSUME NEW t, NEW i \in 1..Len(es), Confirmed(es[i]), es[i].tab = t
      PROVE  Selecting(cs, fs, t) \/ (Confirmed(es[1]) /\ es[1].tab = t)
  <2>1. CASE i = 1
    BY <1>2, <2>1
  <2>2. CASE i # 1
    <3>1. i - 1 \in 1..Len(fs) /\ fs[i - 1] = es[i]
      BY <1>1, <2>2
    <3> QED BY <1>2, <3>1, Zenon DEF Selecting
  <2> QED BY <2>1, <2>2
<1>3. ASSUME NEW t, NEW i \in 1..Len(cs), Clicked(cs[i]), cs[i].tab = t PROVE Selecting(cs, fs, t)
  BY <1>3, Zenon DEF Selecting
<1> QED BY <1>2, <1>3, Zenon DEF Selecting

LEMMA CallJoins ==
  ASSUME NEW made \in Nat, NEW known, NEW cs, NEW es, NEW c, NEW ds,
         QueuesOK(made, known, cs, es), Longer(cs, c, ds), CallOK(c, made),
         Promises(c) => ~Promoted(cs, es, c.tab)
  PROVE  /\ QueuesOK(made, known, ds, es)
         /\ \A t : Promoted(ds, es, t) => Promoted(cs, es, t) \/ (Promises(c) /\ c.tab = t)
         /\ Activating(cs, es) \/ c.do = "activate" => Activating(ds, es)
<1>1. \A i \in 1..Len(ds) : CallOK(ds[i], made)
  BY DEF QueuesOK, Longer
<1>2. \A i, j \in 1..Len(ds) :
        i < j /\ Promises(ds[i]) /\ Promises(ds[j]) => ds[i].tab # ds[j].tab
  BY DEF QueuesOK, Longer, Promoted
<1>3. \A i \in 1..Len(ds), j \in 1..Len(es) :
        Promises(ds[i]) /\ Promoting(es[j]) => ds[i].tab # es[j].tab
  BY DEF QueuesOK, Longer, Promoted
<1>4. ASSUME NEW t, Promoted(ds, es, t)
      PROVE  Promoted(cs, es, t) \/ (Promises(c) /\ c.tab = t)
  <2>1. ASSUME NEW i \in 1..Len(ds), Promises(ds[i]), ds[i].tab = t
        PROVE  Promoted(cs, es, t) \/ (Promises(c) /\ c.tab = t)
    <3>1. CASE i \in 1..Len(cs) /\ ds[i] = cs[i]
      BY <2>1, <3>1, Zenon DEF Promoted
    <3>2. CASE ds[i] = c
      BY <2>1, <3>2, Zenon
    <3> QED BY <3>1, <3>2, PutAtEnd
  <2>2. ASSUME NEW i \in 1..Len(es), Promoting(es[i]), es[i].tab = t PROVE Promoted(cs, es, t)
    BY <2>2, Zenon DEF Promoted
  <2> QED BY <1>4, <2>1, <2>2, Zenon DEF Promoted
<1>5. Activating(cs, es) \/ c.do = "activate" => Activating(ds, es)
  BY DEF Longer, Activating
<1> QED BY <1>1, <1>2, <1>3, <1>4, <1>5 DEF QueuesOK

LEMMA NewsJoins ==
  ASSUME NEW made \in Nat, NEW known, NEW cs, NEW es, NEW m, NEW fs,
         QueuesOK(made, known, cs, es), Longer(es, m, fs), EventOK(m, made),
         m.e # "attached", ~Promoting(m)
  PROVE  /\ QueuesOK(made, known, cs, fs)
         /\ \A t : Known(made, es, t) => Known(made, fs, t)
         /\ \A t : Promoted(cs, fs, t) => Promoted(cs, es, t)
         /\ Activating(cs, es) => Activating(cs, fs)
<1>1. \A i \in 1..Len(fs) :
        EventOK(fs[i], made) /\ (fs[i].e = "attached" => fs[i].tab \notin known)
  BY DEF QueuesOK, Longer
<1>2. \A i, j \in 1..Len(fs) : i < j /\ fs[j].e = "attached" => fs[i].tab # fs[j].tab
  BY DEF QueuesOK, Longer
<1>3. \A i, j \in 1..Len(fs) :
        i < j /\ Promoting(fs[i]) /\ Promoting(fs[j]) => fs[i].tab # fs[j].tab
  BY DEF QueuesOK, Longer
<1>4. \A i \in 1..Len(cs), j \in 1..Len(fs) :
        Promises(cs[i]) /\ Promoting(fs[j]) => cs[i].tab # fs[j].tab
  BY DEF QueuesOK, Longer
<1>5. \A t : Known(made, es, t) => Known(made, fs, t)
  BY DEF Longer, Known
<1>6. \A t : Promoted(cs, fs, t) => Promoted(cs, es, t)
  BY DEF Longer, Promoted
<1>7. Activating(cs, es) => Activating(cs, fs)
  BY DEF Longer, Activating
<1> QED BY <1>1, <1>2, <1>3, <1>4, <1>5, <1>6, <1>7 DEF QueuesOK

\* Chromium opens a page.
LEMMA PageOpens ==
  ASSUME NEW made \in Nat, NEW known \in SUBSET (1..made), NEW cs, NEW es, NEW m, NEW fs,
         QueuesOK(made, known, cs, es), Longer(es, m, fs),
         m.e = "attached", m.tab = made + 1
  PROVE  /\ QueuesOK(made + 1, known, cs, fs)
         /\ \A t : Known(made, es, t) => Known(made + 1, fs, t)
         /\ \A t : Promoted(cs, fs, t) => Promoted(cs, es, t)
         /\ Activating(cs, es) => Activating(cs, fs)
<1>1. \A i \in 1..Len(fs) :
        EventOK(fs[i], made + 1) /\ (fs[i].e = "attached" => fs[i].tab \notin known)
  <2>1. \A i \in 1..Len(es) : EventOK(es[i], made + 1)
    BY DEF QueuesOK, EventOK
  <2>2. EventOK(m, made + 1) /\ m.tab \notin known
    BY DEF EventOK, None
  <2> QED BY <2>1, <2>2 DEF QueuesOK, Longer
<1>2. \A i, j \in 1..Len(fs) : i < j /\ fs[j].e = "attached" => fs[i].tab # fs[j].tab
  BY DEF QueuesOK, Longer, EventOK
<1>3. \A i, j \in 1..Len(fs) :
        i < j /\ Promoting(fs[i]) /\ Promoting(fs[j]) => fs[i].tab # fs[j].tab
  BY DEF QueuesOK, Longer, Promoting
<1>4. \A i \in 1..Len(cs), j \in 1..Len(fs) :
        Promises(cs[i]) /\ Promoting(fs[j]) => cs[i].tab # fs[j].tab
  BY DEF QueuesOK, Longer, Promoting
<1>5. \A i \in 1..Len(cs) : CallOK(cs[i], made + 1)
  BY DEF QueuesOK, CallOK
<1>6. \A t : Known(made, es, t) => Known(made + 1, fs, t)
  BY DEF Longer, Known
<1>7. \A t : Promoted(cs, fs, t) => Promoted(cs, es, t)
  BY DEF Longer, Promoted, Promoting
<1>8. Activating(cs, es) => Activating(cs, fs)
  BY DEF Longer, Activating
<1>9. \A i, j \in 1..Len(cs) :
        i < j /\ Promises(cs[i]) /\ Promises(cs[j]) => cs[i].tab # cs[j].tab
  BY DEF QueuesOK
<1> QED BY <1>1, <1>2, <1>3, <1>4, <1>5, <1>6, <1>7, <1>8, <1>9 DEF QueuesOK

\* A command is executed; its answer joins the events.
LEMMA CallPerformed ==
  ASSUME NEW made \in Nat, NEW known, NEW cs, NEW es, NEW k, NEW ds, NEW fs,
         QueuesOK(made, known, cs, es), Shorter(cs, ds), Longer(es, k, fs),
         k.e = cs[1].do, k.next = cs[1].next,
         IF k.e = "create" THEN ~k.ok /\ k.tab = 0 ELSE k.tab = cs[1].tab,
         k.e \in {"create", "activate", "close"}
  PROVE  /\ QueuesOK(made, known, ds, fs)
         /\ \A t : Known(made, es, t) => Known(made, fs, t)
         /\ \A t : Promoted(ds, fs, t) => Promoted(cs, es, t)
         /\ Activating(cs, es) => Activating(ds, fs)
<1>0. CallOK(cs[1], made)
  BY DEF QueuesOK, Shorter
<1>1. \A i \in 1..Len(fs) :
        EventOK(fs[i], made) /\ (fs[i].e = "attached" => fs[i].tab \notin known)
  <2>1. EventOK(k, made) /\ k.e # "attached"
    BY <1>0 DEF EventOK, CallOK, None
  <2> QED BY <2>1 DEF QueuesOK, Longer
<1>2. \A i, j \in 1..Len(fs) : i < j /\ fs[j].e = "attached" => fs[i].tab # fs[j].tab
  BY DEF QueuesOK, Longer
<1>a. Promoting(k) => Promises(cs[1]) /\ k.tab = cs[1].tab
  BY DEF Promoting, Promises
<1>b. /\ \A j \in 1..Len(es) : Promises(cs[1]) /\ Promoting(es[j]) => cs[1].tab # es[j].tab
      /\ \A i \in 1..Len(ds) : Promises(cs[1]) /\ Promises(ds[i]) => cs[1].tab # ds[i].tab
  <2>1. 1 \in 1..Len(cs) /\ \A i \in 1..Len(ds) : ds[i] = cs[i + 1] /\ i + 1 \in 1..Len(cs) /\ i + 1 > 1
    BY TakenFirst
  <2> QED BY <2>1 DEF QueuesOK, Promises
<1>c. /\ \A i \in 1..Len(fs) : (i \in 1..Len(es) /\ fs[i] = es[i]) \/ (i = Len(es) + 1 /\ fs[i] = k)
      /\ \A i \in 1..Len(ds) : ds[i] = cs[i + 1] /\ i + 1 \in 1..Len(cs)
  BY PutAtEnd, TakenFirst
<1>3. ASSUME NEW i \in 1..Len(fs), NEW j \in 1..Len(fs),
             i < j, Promoting(fs[i]), Promoting(fs[j])
      PROVE  fs[i].tab # fs[j].tab
  <2>1. i \in 1..Len(es) /\ fs[i] = es[i]
    BY <1>c, <1>3
  <2>2. CASE fs[j] = k
    <3>1. Promises(cs[1]) /\ k.tab = cs[1].tab
      BY <2>2, <1>a, <1>3
    <3>2. cs[1].tab # es[i].tab
      BY <2>1, <3>1, <1>b, <1>3
    <3> QED BY <2>1, <2>2, <3>1, <3>2
  <2>3. CASE j \in 1..Len(es) /\ fs[j] = es[j]
    BY <2>1, <2>3, <1>3 DEF QueuesOK
  <2> QED BY <2>2, <2>3, <1>c
<1>4. \A i \in 1..Len(ds), j \in 1..Len(fs) :
        Promises(ds[i]) /\ Promoting(fs[j]) => ds[i].tab # fs[j].tab
  <2> SUFFICES ASSUME NEW i \in 1..Len(ds), NEW j \in 1..Len(fs),
                      Promises(ds[i]), Promoting(fs[j])
               PROVE  ds[i].tab # fs[j].tab
    OBVIOUS
  <2>1. CASE fs[j] = k
    <3>1. Promises(cs[1]) /\ k.tab = cs[1].tab
      BY <2>1, <1>a
    <3>2. cs[1].tab # ds[i].tab
      BY <3>1, <1>b
    <3> QED BY <2>1, <3>1, <3>2
  <2>2. CASE j \in 1..Len(es) /\ fs[j] = es[j]
    <3>1. i + 1 \in 1..Len(cs) /\ ds[i] = cs[i + 1]
      BY <1>c
    <3>2. Promises(cs[i + 1]) /\ Promoting(es[j])
      BY <2>2, <3>1
    <3>3. cs[i + 1].tab # es[j].tab
      BY <2>2, <3>1, <3>2 DEF QueuesOK
    <3> QED BY <2>2, <3>1, <3>3
  <2> QED BY <2>1, <2>2, <1>c
<1>5. \A i \in 1..Len(ds) : CallOK(ds[i], made)
  BY DEF QueuesOK, Shorter
<1>6. \A t : Known(made, es, t) => Known(made, fs, t)
  BY DEF Longer, Known
<1>7. ASSUME NEW t, Promoted(ds, fs, t) PROVE Promoted(cs, es, t)
  <2>1. ASSUME NEW i \in 1..Len(ds), Promises(ds[i]), ds[i].tab = t PROVE Promoted(cs, es, t)
    <3>1. i + 1 \in 1..Len(cs) /\ cs[i + 1] = ds[i]
      BY <1>c
    <3> QED BY <3>1, <2>1, Zenon DEF Promoted
  <2>2. ASSUME NEW i \in 1..Len(fs), Promoting(fs[i]), fs[i].tab = t PROVE Promoted(cs, es, t)
    <3>1. CASE fs[i] = k
      <4>1. 1 \in 1..Len(cs)
        BY DEF Shorter
      <4> QED BY <2>2, <3>1, <4>1, <1>a DEF Promoted
    <3>2. CASE i \in 1..Len(es) /\ fs[i] = es[i]
      BY <2>2, <3>2, Zenon DEF Promoted
    <3> QED BY <3>1, <3>2, <1>c
  <2> QED BY <1>7, <2>1, <2>2, Zenon DEF Promoted
<1>8. Activating(cs, es) => Activating(ds, fs)
  <2>1. CASE \E i \in 1..Len(es) : es[i].e = "activate"
    BY <2>1 DEF Longer, Activating
  <2>2. ASSUME NEW i \in 1..Len(cs), cs[i].do = "activate" PROVE Activating(ds, fs)
    <3>1. CASE i = 1
      BY <2>2, <3>1 DEF Longer, Activating
    <3>2. CASE i > 1
      <4>1. i - 1 \in 1..Len(ds) /\ ds[i - 1] = cs[i]
        BY <3>2 DEF Shorter
      <4> QED BY <4>1, <2>2 DEF Activating
    <3> QED BY <3>1, <3>2
  <2> QED BY <2>1, <2>2 DEF Activating
<1>9. ASSUME NEW i \in 1..Len(ds), NEW j \in 1..Len(ds),
             i < j, Promises(ds[i]), Promises(ds[j])
      PROVE  ds[i].tab # ds[j].tab
  <2>1. /\ i + 1 \in 1..Len(cs) /\ ds[i] = cs[i + 1]
        /\ j + 1 \in 1..Len(cs) /\ ds[j] = cs[j + 1]
    BY <1>c
  <2>2. i + 1 < j + 1
    BY <1>9
  <2> QED BY <1>9, <2>1, <2>2 DEF QueuesOK
<1> QED BY <1>1, <1>2, <1>3, <1>4, <1>5, <1>6, <1>7, <1>8, <1>9 DEF QueuesOK

\* A command creates a page: its attachment and the answer join the events.
LEMMA PageMade ==
  ASSUME NEW made \in Nat, NEW known \in SUBSET (1..made), NEW cs, NEW es, NEW ds,
         NEW m, NEW fs, NEW k, NEW gs,
         QueuesOK(made, known, cs, es), Shorter(cs, ds), cs[1].do = "create",
         Longer(es, m, fs), m.e = "attached", m.tab = made + 1,
         Longer(fs, k, gs), k.e = "create", k.tab = made + 1, k.next = cs[1].next
  PROVE  /\ QueuesOK(made + 1, known, ds, gs)
         /\ \A t : Known(made, es, t) => Known(made + 1, gs, t)
         /\ \A t \in 1..made : Promoted(ds, gs, t) => Promoted(cs, es, t)
         /\ Activating(cs, es) => Activating(ds, gs)
<1>1. /\ QueuesOK(made + 1, known, cs, fs)
      /\ \A t : Known(made, es, t) => Known(made + 1, fs, t)
      /\ \A t : Promoted(cs, fs, t) => Promoted(cs, es, t)
      /\ Activating(cs, es) => Activating(cs, fs)
  BY PageOpens
<1>2. /\ 1 \in 1..Len(cs)
      /\ \A i \in 1..Len(ds) : ds[i] = cs[i + 1] /\ i + 1 \in 1..Len(cs) /\ i + 1 > 1
      /\ \A i \in 1..Len(cs) : i = 1 \/ (i - 1 \in 1..Len(ds) /\ ds[i - 1] = cs[i])
  BY TakenFirst
<1>3. \A i \in 1..Len(gs) : (i \in 1..Len(fs) /\ gs[i] = fs[i]) \/ (i = Len(fs) + 1 /\ gs[i] = k)
  BY PutAtEnd
<1>4. EventOK(k, made + 1) /\ k.e # "attached" /\ (Promoting(k) => k.tab = made + 1)
  <2>1. CallOK(cs[1], made)
    BY <1>2 DEF QueuesOK
  <2> QED BY <2>1 DEF CallOK, EventOK, None
<1>5. /\ \A i \in 1..Len(ds) : Promises(ds[i]) => ds[i].tab # made + 1
      /\ \A i \in 1..Len(fs) : Promoting(fs[i]) => fs[i].tab # made + 1
  <2>1. ASSUME NEW i \in 1..Len(ds), Promises(ds[i]) PROVE ds[i].tab # made + 1
    <3>1. CallOK(cs[i + 1], made)
      BY <1>2 DEF QueuesOK
    <3> QED BY <3>1, <2>1, <1>2 DEF CallOK, Promises
  <2>2. ASSUME NEW i \in 1..Len(fs), Promoting(fs[i]) PROVE fs[i].tab # made + 1
    <3>1. (i \in 1..Len(es) /\ fs[i] = es[i]) \/ fs[i] = m
      BY PutAtEnd
    <3>2. fs[i] # m
      BY <2>2 DEF Promoting
    <3>3. EventOK(es[i], made)
      BY <3>1, <3>2 DEF QueuesOK
    <3> QED BY <3>1, <3>2, <3>3 DEF EventOK
  <2> QED BY <2>1, <2>2
<1>6. \A i \in 1..Len(ds) : CallOK(ds[i], made + 1)
  BY <1>1, <1>2 DEF QueuesOK
<1>7. \A i \in 1..Len(gs) :
        EventOK(gs[i], made + 1) /\ (gs[i].e = "attached" => gs[i].tab \notin known)
  BY <1>1, <1>3, <1>4 DEF QueuesOK
<1>8. \A i, j \in 1..Len(gs) : i < j /\ gs[j].e = "attached" => gs[i].tab # gs[j].tab
  BY <1>1, <1>4 DEF QueuesOK, Longer
<1>9. ASSUME NEW i \in 1..Len(gs), NEW j \in 1..Len(gs),
             i < j, Promoting(gs[i]), Promoting(gs[j])
      PROVE  gs[i].tab # gs[j].tab
  <2>1. i \in 1..Len(fs) /\ gs[i] = fs[i]
    BY <1>3, <1>9 DEF Longer
  <2>2. CASE gs[j] = k
    BY <2>1, <2>2, <1>4, <1>5, <1>9
  <2>3. CASE j \in 1..Len(fs) /\ gs[j] = fs[j]
    BY <2>1, <2>3, <1>1, <1>9 DEF QueuesOK
  <2> QED BY <2>2, <2>3, <1>3
<1>10. ASSUME NEW i \in 1..Len(ds), NEW j \in 1..Len(ds),
              i < j, Promises(ds[i]), Promises(ds[j])
       PROVE  ds[i].tab # ds[j].tab
  <2>1. /\ i + 1 \in 1..Len(cs) /\ ds[i] = cs[i + 1]
        /\ j + 1 \in 1..Len(cs) /\ ds[j] = cs[j + 1]
    BY <1>2
  <2>2. i + 1 < j + 1
    BY <1>10
  <2> QED BY <1>10, <2>1, <2>2 DEF QueuesOK
<1>11. ASSUME NEW i \in 1..Len(ds), NEW j \in 1..Len(gs), Promises(ds[i]), Promoting(gs[j])
       PROVE  ds[i].tab # gs[j].tab
  <2>1. CASE gs[j] = k
    BY <2>1, <1>4, <1>5, <1>11
  <2>2. CASE j \in 1..Len(fs) /\ gs[j] = fs[j]
    <3>1. i + 1 \in 1..Len(cs) /\ ds[i] = cs[i + 1]
      BY <1>2
    <3> QED BY <2>2, <3>1, <1>1, <1>11 DEF QueuesOK
  <2> QED BY <2>1, <2>2, <1>3
<1>12. QueuesOK(made + 1, known, ds, gs)
  BY <1>6, <1>7, <1>8, <1>9, <1>10, <1>11 DEF QueuesOK
<1>13. ASSUME NEW t, Known(made, es, t) PROVE Known(made + 1, gs, t)
  BY <1>13, <1>1, <1>3, <1>4 DEF Known
<1>14. ASSUME NEW t \in 1..made, Promoted(ds, gs, t) PROVE Promoted(cs, es, t)
  <2>1. ASSUME NEW i \in 1..Len(ds), Promises(ds[i]), ds[i].tab = t PROVE Promoted(cs, es, t)
    <3>1. i + 1 \in 1..Len(cs) /\ cs[i + 1] = ds[i]
      BY <1>2
    <3> QED BY <3>1, <2>1, Zenon DEF Promoted
  <2>2. ASSUME NEW i \in 1..Len(gs), Promoting(gs[i]), gs[i].tab = t PROVE Promoted(cs, es, t)
    <3>1. gs[i] # k
      BY <2>2, <1>4
    <3>2. i \in 1..Len(fs) /\ gs[i] = fs[i]
      BY <3>1, <1>3
    <3> QED BY <2>2, <3>2, <1>1, Zenon DEF Promoted
  <2> QED BY <1>14, <2>1, <2>2, Zenon DEF Promoted
<1>15. ASSUME Activating(cs, es) PROVE Activating(ds, gs)
  <2>1. Activating(cs, fs)
    BY <1>1, <1>15
  <2>2. ASSUME NEW i \in 1..Len(cs), cs[i].do = "activate" PROVE Activating(ds, gs)
    <3>1. i # 1
      BY <2>2
    <3>2. i - 1 \in 1..Len(ds) /\ ds[i - 1] = cs[i]
      BY <3>1, <1>2
    <3> QED BY <2>2, <3>2, Zenon DEF Activating
  <2>3. ASSUME NEW i \in 1..Len(fs), fs[i].e = "activate" PROVE Activating(ds, gs)
    <3>1. i \in 1..Len(gs) /\ gs[i] = fs[i]
      BY DEF Longer
    <3> QED BY <2>3, <3>1, Zenon DEF Activating
  <2> QED BY <2>1, <2>2, <2>3, Zenon DEF Activating
<1> QED BY <1>12, <1>13, <1>14, <1>15

\* The gateway takes an event; a page that attaches is known from then on.
LEMMA NewsHandled ==
  ASSUME NEW made \in Nat, NEW known, NEW more, NEW cs, NEW es, NEW fs,
         QueuesOK(made, known, cs, es), Shorter(es, fs),
         \A t \in more : t \in known \/ (es[1].e = "attached" /\ t = es[1].tab)
  PROVE  /\ QueuesOK(made, more, cs, fs) /\ EventOK(es[1], made)
         /\ es[1].e = "attached" => es[1].tab \notin known
         /\ \A t : Known(made, es, t) => Known(made, fs, t)
         /\ es[1].tab # None => Known(made, fs, es[1].tab)
         /\ \A t : Promoted(cs, fs, t) => Promoted(cs, es, t)
         /\ Promoting(es[1]) =>
              Promoted(cs, es, es[1].tab) /\ ~Promoted(cs, fs, es[1].tab)
         /\ es[1].e # "activate" /\ Activating(cs, es) => Activating(cs, fs)
<1>1. /\ 1 \in 1..Len(es)
      /\ \A i \in 1..Len(fs) : fs[i] = es[i + 1] /\ i + 1 \in 1..Len(es) /\ i + 1 > 1
      /\ \A i \in 1..Len(es) : i = 1 \/ (i - 1 \in 1..Len(fs) /\ fs[i - 1] = es[i])
  BY TakenFirst
<1>2. EventOK(es[1], made) /\ (es[1].e = "attached" => es[1].tab \notin known)
  BY <1>1 DEF QueuesOK
<1>3. \A i \in 1..Len(fs) : fs[i].e = "attached" => fs[i].tab # es[1].tab
  BY <1>1 DEF QueuesOK
<1>4. ASSUME NEW i \in 1..Len(fs)
      PROVE  EventOK(fs[i], made) /\ (fs[i].e = "attached" => fs[i].tab \notin more)
  <2>1. i + 1 \in 1..Len(es) /\ fs[i] = es[i + 1]
    BY <1>1
  <2>2. EventOK(fs[i], made) /\ (fs[i].e = "attached" => fs[i].tab \notin known)
    BY <2>1 DEF QueuesOK
  <2> QED BY <2>2, <1>3
<1>5. ASSUME NEW i \in 1..Len(fs), NEW j \in 1..Len(fs), i < j
      PROVE  /\ fs[j].e = "attached" => fs[i].tab # fs[j].tab
             /\ Promoting(fs[i]) /\ Promoting(fs[j]) => fs[i].tab # fs[j].tab
  <2>1. /\ i + 1 \in 1..Len(es) /\ fs[i] = es[i + 1]
        /\ j + 1 \in 1..Len(es) /\ fs[j] = es[j + 1]
    BY <1>1
  <2>2. i + 1 < j + 1
    BY <1>5
  <2> QED BY <2>1, <2>2 DEF QueuesOK
<1>7. ASSUME NEW i \in 1..Len(cs), NEW j \in 1..Len(fs), Promises(cs[i]), Promoting(fs[j])
      PROVE  cs[i].tab # fs[j].tab
  <2>1. j + 1 \in 1..Len(es) /\ fs[j] = es[j + 1]
    BY <1>1
  <2> QED BY <2>1, <1>7 DEF QueuesOK
<1>8. QueuesOK(made, more, cs, fs)
  <2>1. \A i \in 1..Len(cs) : CallOK(cs[i], made)
    BY DEF QueuesOK
  <2>2. \A i, j \in 1..Len(cs) :
          i < j /\ Promises(cs[i]) /\ Promises(cs[j]) => cs[i].tab # cs[j].tab
    BY DEF QueuesOK
  <2> QED BY <1>4, <1>5, <1>7, <2>1, <2>2 DEF QueuesOK
<1>9. ASSUME NEW t, Known(made, es, t) PROVE Known(made, fs, t)
  BY <1>9, <1>1 DEF Known
<1>10. es[1].tab # None => Known(made, fs, es[1].tab)
  BY <1>2, <1>3 DEF Known, EventOK, None
<1>11. ASSUME NEW t, Promoted(cs, fs, t) PROVE Promoted(cs, es, t)
  <2>1. ASSUME NEW i \in 1..Len(fs), Promoting(fs[i]), fs[i].tab = t PROVE Promoted(cs, es, t)
    <3>1. i + 1 \in 1..Len(es) /\ es[i + 1] = fs[i]
      BY <1>1
    <3> QED BY <3>1, <2>1, Zenon DEF Promoted
  <2> QED BY <1>11, <2>1, Zenon DEF Promoted
<1>12. ASSUME Promoting(es[1])
       PROVE  Promoted(cs, es, es[1].tab) /\ ~Promoted(cs, fs, es[1].tab)
  <2>1. Promoted(cs, es, es[1].tab)
    BY <1>12, <1>1, Zenon DEF Promoted
  <2>2. \A i \in 1..Len(cs) : Promises(cs[i]) => cs[i].tab # es[1].tab
    BY <1>12, <1>1 DEF QueuesOK
  <2>3. ASSUME NEW i \in 1..Len(fs), Promoting(fs[i]) PROVE fs[i].tab # es[1].tab
    <3>1. i + 1 \in 1..Len(es) /\ i + 1 > 1 /\ fs[i] = es[i + 1]
      BY <1>1
    <3> QED BY <3>1, <2>3, <1>1, <1>12 DEF QueuesOK
  <2> QED BY <2>1, <2>2, <2>3, Zenon DEF Promoted
<1>13. ASSUME es[1].e # "activate", Activating(cs, es) PROVE Activating(cs, fs)
  <2>1. ASSUME NEW i \in 1..Len(es), es[i].e = "activate" PROVE Activating(cs, fs)
    <3>1. i # 1
      BY <2>1, <1>13
    <3>2. i - 1 \in 1..Len(fs) /\ fs[i - 1] = es[i]
      BY <3>1, <1>1
    <3> QED BY <3>2, <2>1, Zenon DEF Activating
  <2> QED BY <1>13, <2>1, Zenon DEF Activating
<1> QED BY <1>2, <1>8, <1>9, <1>10, <1>11, <1>12, <1>13

------------------------------------------------------------------------------
(* The order of the tabs. *)

\* A set of numbers that is not empty has a least element, which is what Min returns.
LEMMA LeastElement ==
  ASSUME NEW S \in SUBSET Nat, S # {}
  PROVE  Min(S) \in S /\ \A y \in S : Min(S) <= y
<1>1. \E x \in S : \A y \in S : ~ (<<y, x>> \in OpToRel(<, Nat))
  BY NatLessThanWellFounded, WFMin
<1>2. PICK x \in S : \A y \in S : ~ (<<y, x>> \in OpToRel(<, Nat))
  BY <1>1
<1>3. \A y \in S : x <= y
  <2>1. SUFFICES ASSUME NEW y \in S, y < x PROVE FALSE
    BY SMT
  <2>2. <<y, x>> \in OpToRel(<, Nat)
    BY <2>1 DEF OpToRel
  <2> QED BY <2>2, <1>2
<1> QED BY <1>3, Zenon DEF Min

\* A tab that attaches joins the others, once.
LEMMA AppendedTab ==
  ASSUME NEW s \in Seq(Tab), IsInjective(s), NEW v \in Tab, v \notin ToSet(s)
  PROVE  /\ Append(s, v) \in Seq(Tab)
         /\ IsInjective(Append(s, v))
         /\ ToSet(Append(s, v)) = ToSet(s) \cup {v}
BY SMT DEF IsInjective, ToSet

\* The place of the one that is to leave.
LEMMA FoundTab ==
  ASSUME NEW s \in Seq(Tab), NEW v \in ToSet(s)
  PROVE  LET k == SelectInSeq(s, LAMBDA w : w = v)
         IN  k \in 1..Len(s) /\ s[k] = v
<1> DEFINE I == {i \in 1..Len(s) : s[i] = v}
<1>1. I \in SUBSET Nat /\ I # {}
  BY SMT DEF ToSet
<1>2. Min(I) \in I
  BY <1>1, LeastElement
<1>3. SelectInSeq(s, LAMBDA w : w = v) = Min(I)
  BY <1>1 DEF SelectInSeq
<1> QED BY <1>2, <1>3

\* A tab that goes leaves the others as they were.
LEMMA RemovedTab ==
  ASSUME NEW s \in Seq(Tab), IsInjective(s), NEW v \in ToSet(s)
  PROVE  /\ RemoveFirst(s, v) \in Seq(Tab)
         /\ Len(RemoveFirst(s, v)) = Len(s) - 1
         /\ IsInjective(RemoveFirst(s, v))
         /\ ToSet(RemoveFirst(s, v)) = ToSet(s) \ {v}
<1> DEFINE k == SelectInSeq(s, LAMBDA w : w = v)
           a == SubSeq(s, 1, k-1)
           b == SubSeq(s, k+1, Len(s))
           r == a \o b
<1>1. k \in 1..Len(s) /\ s[k] = v
  BY FoundTab
<1>2. RemoveFirst(s, v) = r
  BY <1>1 DEF RemoveFirst, RemoveAt
<1> HIDE DEF k
<1>3. /\ r \in Seq(Tab) /\ Len(r) = Len(s) - 1
      /\ \A i \in 1..Len(r) : r[i] = IF i < k THEN s[i] ELSE s[i+1]
  <2>1. /\ a \in Seq(Tab) /\ Len(a) = k - 1
        /\ \A i \in 1..Len(a) : a[i] = s[i]
    BY <1>1, SMT
  <2>2. /\ b \in Seq(Tab) /\ Len(b) = Len(s) - k
        /\ \A i \in 1..Len(b) : b[i] = s[k+i]
    BY <1>1, SMT
  <2> HIDE DEF a, b
  <2>3. r \in Seq(Tab) /\ Len(r) = Len(a) + Len(b)
    <3>1. a \in Seq(Tab) /\ b \in Seq(Tab)
      BY <2>1, <2>2
    <3> QED BY <3>1, SMT
  <2>4. ASSUME NEW i \in 1..Len(r) PROVE r[i] = IF i < k THEN s[i] ELSE s[i+1]
    <3>1. CASE i < k
      <4>1. i \in 1..Len(a) /\ r[i] = a[i]
        BY <3>1, <2>1, <2>2, <2>3, <2>4, <1>1, SMT
      <4> QED BY <4>1, <3>1, <2>1
    <3>2. CASE ~ (i < k)
      <4>1. i - Len(a) \in 1..Len(b) /\ r[i] = b[i - Len(a)] /\ k + (i - Len(a)) = i + 1
        BY <3>2, <2>1, <2>2, <2>3, <2>4, <1>1, SMT
      <4> QED BY <4>1, <3>2, <2>2
    <3> QED BY <3>1, <3>2
  <2>5. Len(r) = Len(s) - 1
    BY <2>1, <2>2, <2>3, <1>1, SMT
  <2> QED BY <2>3, <2>4, <2>5
<1> HIDE DEF r
<1>4. IsInjective(r)
  BY <1>1, <1>3, SMT DEF IsInjective
<1>5. ASSUME NEW w \in ToSet(r) PROVE w \in ToSet(s) \ {v}
  <2>1. PICK i \in 1..Len(r) : r[i] = w
    BY <1>3, SMT DEF ToSet
  <2>2. PICK j \in 1..Len(s) : w = s[j] /\ j # k
    <3>1. CASE i < k
      BY <3>1, <2>1, <1>1, <1>3, SMT
    <3>2. CASE ~ (i < k)
      <4>1. i + 1 \in 1..Len(s) /\ i + 1 # k /\ w = s[i + 1]
        BY <3>2, <2>1, <1>1, <1>3, SMT
      <4> QED BY <4>1
    <3> QED BY <3>1, <3>2
  <2>3. s[j] # s[k]
    BY <2>2, <1>1, SMT DEF IsInjective
  <2> QED BY <2>2, <2>3, <1>1, SMT DEF ToSet
<1>6. ASSUME NEW w \in ToSet(s) \ {v} PROVE w \in ToSet(r)
  <2>1. PICK i \in 1..Len(s) : s[i] = w
    BY SMT DEF ToSet
  <2>2. i # k
    BY <2>1, <1>1
  <2>3. CASE i < k
    <3>1. i \in 1..Len(r) /\ r[i] = w
      BY <2>1, <2>3, <1>1, <1>3, SMT
    <3> QED BY <3>1, <1>3 DEF ToSet
  <2>4. CASE i > k
    <3>1. i-1 \in 1..Len(r) /\ r[i-1] = w
      BY <2>1, <2>4, <1>1, <1>3, SMT
    <3> QED BY <3>1, <1>3 DEF ToSet
  <2> QED BY <2>2, <2>3, <2>4, <1>1, SMT
<1> QED BY <1>2, <1>3, <1>4, <1>5, <1>6

\* A tab takes over from the active one if another is left.
LEMMA NeighborFound ==
  ASSUME Typed, IsInjective(order), NEW t \in Tab
  PROVE  /\ Neighbor(t) \in Id
         /\ Neighbor(t) # None => Neighbor(t) \in tabs
         /\ t \in tabs /\ active = t /\ ToSet(RemoveFirst(order, t)) # {} => Neighbor(t) # None
<1> DEFINE rest == RemoveFirst(order, t)
           i == CHOOSE k \in DOMAIN order : order[k] = t
<1>1. CASE t \notin tabs \/ active # t \/ rest = <<>>
  <2>1. Neighbor(t) = None
    BY <1>1 DEF Neighbor
  <2>2. rest = <<>> => ToSet(rest) = {}
    BY DEF ToSet
  <2> QED BY <2>1, <2>2, <1>1 DEF Id
<1>2. CASE ~(t \notin tabs \/ active # t \/ rest = <<>>)
  <2>1. order \in Seq(Tab) /\ t \in ToSet(order) /\ rest # <<>>
    BY <1>2 DEF Typed, tabs
  <2>2. rest \in Seq(Tab) /\ ToSet(rest) = ToSet(order) \ {t} /\ Len(rest) = Len(order) - 1
    BY <2>1, RemovedTab
  <2>3. i \in 1..Len(order)
    <3>1. \E k \in DOMAIN order : order[k] = t
      BY <2>1, SMT DEF ToSet
    <3>2. DOMAIN order = 1..Len(order)
      BY <2>1
    <3> QED BY <3>1, <3>2
  <2>4. Neighbor(t) = IF i \in DOMAIN rest THEN rest[i] ELSE rest[i - 1]
    BY <1>2 DEF Neighbor
  <2> HIDE DEF i, rest
  <2>5. DOMAIN rest = 1..Len(rest) /\ Len(rest) \in Nat \ {0} /\ Len(order) \in Nat
    BY <2>1, <2>2
  <2>6. \E k \in 1..Len(rest) : Neighbor(t) = rest[k]
    <3>1. CASE i \in DOMAIN rest
      BY <3>1, <2>4, <2>5, Zenon
    <3>2. CASE i \notin DOMAIN rest
      <4>1. i - 1 \in 1..Len(rest)
        BY <3>2, <2>2, <2>3, <2>5
      <4> QED BY <3>2, <4>1, <2>4, Zenon
    <3> QED BY <3>1, <3>2
  <2>7. Neighbor(t) \in ToSet(rest)
    BY <2>6, <2>2, SMT DEF ToSet
  <2>8. Neighbor(t) \in Tab /\ Neighbor(t) \in tabs
    BY <2>7, <2>2, <2>6 DEF tabs
  <2> QED BY <2>8, Numbers DEF Id
<1> QED BY <1>1, <1>2

------------------------------------------------------------------------------
(* Initially. *)

LEMMA InitIInv == Init => IInv
<1> SUFFICES ASSUME Init PROVE IInv
  OBVIOUS
<1>1. PICK n \in Tab \cap 1..2 :
        /\ chrome = [pages |-> 1..n, dying |-> {}, made |-> n]
        /\ events = [i \in 1..n |-> [e |-> "attached", tab |-> i]]
  BY DEF Init
<1>2. chrome \in Chrome /\ chrome.pages = 1..n /\ chrome.dying = {} /\ chrome.made = n
  <2>1. 1..n \in SUBSET Tab /\ n \in Tab
    BY Numbers, <1>1 DEF Tab
  <2> QED BY <1>1, <2>1, Zenon DEF Chrome
<1>3. /\ events \in Seq(News \cup Reply) /\ Len(events) = n
      /\ \A i \in 1..n : events[i] \in News /\ events[i].e = "attached" /\ events[i].tab = i
  <2>1. \A i \in 1..n : [e |-> "attached", tab |-> i] \in News
    BY <1>1, Numbers DEF News, Tab
  <2>2. n \in Nat
    BY <1>1
  <2>3. events \in [1..n -> News \cup Reply]
    BY <1>1, <2>1
  <2>4. \A i \in 1..n : events[i] \in News /\ events[i].e = "attached" /\ events[i].tab = i
    BY <1>1, <2>1, Zenon
  <2> DEFINE S == News \cup Reply
  <2>5. events \in [1..n -> S]
    BY <2>3
  <2> HIDE DEF S
  <2>6. events \in Seq(S) /\ Len(events) = n
    BY <2>5, <2>2
  <2> QED BY <2>4, <2>6 DEF S
<1>4. tabs = {}
  BY DEF Init, tabs, ToSet
<1>5. Typed
  <2>1. join \in Join
    <3>1. <<>> \in Seq(Tab) /\ {} \in SUBSET Id
      OBVIOUS
    <3> QED BY <3>1, Zenon DEF Init, NoJoin, Join
  <2>2. viewer \in Viewing
    <3>1. <<>> \in Seq(Tab) /\ {} \in SUBSET Tab /\ None \in Id /\ 0 \in Nat
      BY DEF Id
    <3> QED BY <3>1, Zenon DEF Init, Viewing
  <2>3. /\ calls \in Seq(Call) /\ order \in Seq(Tab) /\ active \in Id
        /\ hub \in [Tab -> Nat] /\ owes \subseteq Tab /\ registry \subseteq Tab
        /\ bcast \in {"idle", "armed", "listing"}
    BY DEF Init, Id
  <2> QED BY <1>2, <1>3, <2>1, <2>2, <2>3 DEF Typed
<1>6. TabsOK
  BY <1>2, <1>4 DEF Init, TabsOK, IsInjective
<1>7. QueuesOK(chrome.made, registry, calls, events)
  <2>1. \A i \in 1..Len(events) : EventOK(events[i], n)
    BY <1>1, <1>3 DEF EventOK, None
  <2>2. Len(calls) = 0 /\ registry = {}
    BY DEF Init
  <2> QED BY <1>2, <1>3, <2>1, <2>2 DEF QueuesOK, Promoting
<1>8. TabAlwaysComing
  <2>1. 1 \in DOMAIN events /\ events[1].e = "attached"
    BY <1>1, <1>3
  <2> QED BY <2>1 DEF TabAlwaysComing, Creating
<1>9. ActiveOK
  BY <1>4 DEF Init, ActiveOK
<1>10. ViewerOK
  BY <1>4 DEF Init, ViewerOK, KnownOK, MirrorOK, ShownOK, ListedOK, LedOK, NoJoin, ToSet
<1> QED BY <1>5, <1>6, <1>7, <1>8, <1>9, <1>10 DEF IInv

------------------------------------------------------------------------------
(* Steps that leave the tabs and the viewer alone. *)

Aside == UNCHANGED <<order, active, hub, owes, registry, join, viewer, orphaned, late, unshown, strayed>>

LEMMA AsideStep ==
  ASSUME IInv, Aside,
         chrome' \in Chrome, chrome.made <= chrome'.made,
         chrome'.dying \subseteq chrome'.pages, chrome'.pages \subseteq 1..chrome'.made,
         calls' \in Seq(Call), events' \in Seq(News \cup Reply),
         QueuesOK(chrome'.made, registry, calls', events'),
         \A t : Known(chrome.made, events, t) => Known(chrome'.made, events', t),
         \A t \in 1..chrome.made : Promoted(calls', events', t) => Promoted(calls, events, t),
         Activating(calls, events) => Activating(calls', events'),
         \A t : Selecting(calls, events, t) => Selecting(calls', events', t),
         bcast' = bcast \/ (bcast = "armed" /\ bcast' = IF tabs = {} THEN "idle" ELSE "listing"),
         TabAlwaysComing'
  PROVE  IInv'
<1> USE DEF IInv
<1>1. tabs' = tabs
  BY DEF Aside, tabs
<1>2. Typed'
  <2>1. bcast' \in {"idle", "armed", "listing"}
    BY DEF Typed
  <2> QED BY <2>1 DEF Typed, Aside
<1>3. TabsOK'
  <2>1. chrome.made \in Nat /\ chrome'.made \in Nat
    BY Numbers DEF Typed, Chrome
  <2> QED BY <1>1, <2>1 DEF TabsOK, Aside
<1>4. QueuesOK(chrome'.made, registry', calls', events')
  BY DEF Aside
<1>5. ActiveOK'
  BY <1>1 DEF ActiveOK, Aside
<1>6. KnownOK'
  BY DEF ViewerOK, KnownOK, Aside
<1>7. MirrorOK'
  BY <1>1 DEF ViewerOK, MirrorOK, Aside
<1>8. ShownOK'
  <2>1. active # None => active \in 1..chrome.made
    BY DEF ViewerOK, KnownOK, Known
  <2>2. InStep' = InStep
    BY DEF InStep, Aside
  <2> QED BY <2>1, <2>2 DEF ViewerOK, ShownOK, Aside
<1>9. ListedOK'
  BY <1>1 DEF ViewerOK, ListedOK, Aside
<1>10. LedOK'
  BY <1>1 DEF ViewerOK, LedOK, Aside
<1> QED BY <1>2, <1>3, <1>4, <1>5, <1>6, <1>7, <1>8, <1>9, <1>10 DEF ViewerOK

\* What makes sure that a tab is coming, by place in the queues.
LEMMA ComingPlaces ==
  ASSUME NEW cs \in Seq(Call), NEW es \in Seq(News \cup Reply)
  PROVE  DOMAIN cs = 1..Len(cs) /\ DOMAIN es = 1..Len(es) /\ Len(cs) \in Nat /\ Len(es) \in Nat
<1> DEFINE S == News \cup Reply
<1>1. es \in Seq(S)
  OBVIOUS
<1> HIDE DEF S
<1> QED BY <1>1

LEMMA PagesCounted ==
  ASSUME IInv
  PROVE  /\ chrome \in Chrome /\ chrome.made \in Nat /\ calls \in Seq(Call)
         /\ events \in Seq(News \cup Reply) /\ registry \in SUBSET (1..chrome.made)
         /\ tabs \subseteq registry /\ \A t \in 1..chrome.made : t \in Tab
         /\ QueuesOK(chrome.made, registry, calls, events)
<1>1. chrome \in Chrome /\ chrome.made \in Nat /\ chrome.made \in Tab
  BY Numbers DEF IInv, Typed, Chrome
<1>2. \A t \in 1..chrome.made : t \in Tab
  BY <1>1, Numbers DEF Tab
<1> QED BY <1>1, <1>2 DEF IInv, Typed, TabsOK

\* A command joins the others.
LEMMA SendAside ==
  ASSUME IInv, Aside, UNCHANGED <<chrome, events, bcast, refused>>,
         NEW c \in Call, calls' = Append(calls, c), CallOK(c, chrome.made), ~Promises(c)
  PROVE  IInv'
<1>1. calls \in Seq(Call) /\ events \in Seq(News \cup Reply) /\ chrome \in Chrome
  BY DEF IInv, Typed
<1>2. calls' \in Seq(Call) /\ Longer(calls, c, calls')
  BY <1>1, CallPut
<1>3. chrome.made \in Nat
  BY <1>1, Numbers DEF Chrome
<1>4. /\ QueuesOK(chrome.made, registry, calls', events)
      /\ \A t : Promoted(calls', events, t) => Promoted(calls, events, t)
      /\ Activating(calls, events) => Activating(calls', events)
  BY <1>2, <1>3, CallJoins DEF IInv
<1>5. TabAlwaysComing'
  <2>1. Creating => Creating'
    BY <1>1, <1>2, ComingPlaces DEF Creating, Longer
  <2>2. tabs' = tabs
    BY DEF Aside, tabs
  <2> QED BY <2>1, <2>2 DEF IInv, TabAlwaysComing
<1>6. chrome.dying \subseteq chrome.pages /\ chrome.pages \subseteq 1..chrome.made
  BY DEF IInv, TabsOK
<1>7. \A t : Selecting(calls, events, t) => Selecting(calls', events, t)
  BY <1>2, SelectingOn
<1> QED BY <1>1, <1>2, <1>3, <1>4, <1>5, <1>6, <1>7, AsideStep

\* An event joins the others.
LEMMA NewsAside ==
  ASSUME IInv, Aside, UNCHANGED <<calls, bcast, refused>>,
         chrome' \in Chrome, chrome'.made = chrome.made, chrome'.dying \subseteq chrome'.pages,
         chrome'.pages \subseteq chrome.pages,
         NEW m \in News, events' = Append(events, m), m.e # "attached", m.tab \in 1..chrome.made
  PROVE  IInv'
<1>1. calls \in Seq(Call) /\ events \in Seq(News \cup Reply) /\ chrome \in Chrome
  BY DEF IInv, Typed
<1>2. events' \in Seq(News \cup Reply) /\ Longer(events, m, events')
  BY <1>1, NewsPut
<1>3. chrome.made \in Nat
  BY <1>1, Numbers DEF Chrome
<1>4. EventOK(m, chrome.made) /\ ~Promoting(m)
  <2>1. m.e \notin {"create", "activate", "close"}
    BY DEF News
  <2> QED BY <2>1, <1>3 DEF EventOK, Promoting, None
<1>5. /\ QueuesOK(chrome.made, registry, calls, events')
      /\ \A t : Known(chrome.made, events, t) => Known(chrome.made, events', t)
      /\ \A t : Promoted(calls, events', t) => Promoted(calls, events, t)
      /\ Activating(calls, events) => Activating(calls, events')
  <2> DEFINE n == chrome.made
  <2>1. n \in Nat /\ QueuesOK(n, registry, calls, events) /\ Longer(events, m, events')
    BY <1>2, <1>3 DEF IInv
  <2>2. EventOK(m, n) /\ m.e # "attached" /\ ~Promoting(m)
    BY <1>4
  <2> DEFINE fs == events'
  <2>3. Longer(events, m, fs)
    BY <2>1
  <2> HIDE DEF n, fs
  <2>4. /\ QueuesOK(n, registry, calls, fs)
        /\ \A t : Known(n, events, t) => Known(n, fs, t)
        /\ \A t : Promoted(calls, fs, t) => Promoted(calls, events, t)
        /\ Activating(calls, events) => Activating(calls, fs)
    BY <2>1, <2>2, <2>3, NewsJoins, Zenon
  <2> QED BY <2>4 DEF n, fs
<1>6. TabAlwaysComing'
  <2>1. Creating => Creating'
    <3>1. DOMAIN events = 1..Len(events) /\ DOMAIN events' = 1..Len(events')
      BY <1>1, <1>2, ComingPlaces
    <3>2. \A i \in DOMAIN events : i \in DOMAIN events' /\ events'[i] = events[i]
      BY <1>2, <3>1 DEF Longer
    <3> QED BY <3>2 DEF Creating
  <2>2. tabs' = tabs
    BY DEF Aside, tabs
  <2> QED BY <2>1, <2>2 DEF IInv, TabAlwaysComing
<1>7. chrome'.pages \subseteq 1..chrome'.made
  BY DEF IInv, TabsOK
<1>8. \A t : Selecting(calls, events, t) => Selecting(calls, events', t)
  BY <1>2, SelectingOn
<1> QED BY <1>1, <1>2, <1>3, <1>5, <1>6, <1>7, <1>8, AsideStep

LEMMA GoneStep == ASSUME IInv, NEW t \in Tab, Gone(t) PROVE IInv'
<1>1. t \in 1..chrome.made /\ chrome \in Chrome /\ chrome.dying \subseteq chrome.pages
  BY DEF Gone, IInv, TabsOK, Typed
<1>2. chrome' = [chrome EXCEPT !.pages = @ \ {t}, !.dying = @ \ {t}]
  BY DEF Gone
<1>3. /\ chrome' \in Chrome /\ chrome'.made = chrome.made
      /\ chrome'.pages = chrome.pages \ {t} /\ chrome'.dying = chrome.dying \ {t}
  <2>1. chrome.pages \ {t} \in SUBSET Tab /\ chrome.dying \ {t} \in SUBSET Tab
    BY <1>1 DEF Chrome
  <2> QED BY <1>1, <1>2, <2>1, Zenon DEF Chrome
<1>4. Event("detached", t) \in News /\ Event("detached", t).e = "detached" /\ Event("detached", t).tab = t
  BY NewsMade
<1>5. Aside /\ UNCHANGED <<calls, bcast, refused>> /\ events' = Append(events, Event("detached", t))
  BY DEF Gone, Aside, gateway, history
<1> QED BY <1>1, <1>3, <1>4, <1>5, NewsAside

LEMMA RetitleStep == ASSUME IInv, NEW t \in Tab, Retitle(t) PROVE IInv'
<1>1. t \in 1..chrome.made /\ chrome \in Chrome /\ chrome.dying \subseteq chrome.pages
  BY DEF Retitle, IInv, TabsOK, Typed
<1>2. Event("info", t) \in News /\ Event("info", t).e = "info" /\ Event("info", t).tab = t
  BY NewsMade
<1>3. /\ Aside /\ UNCHANGED <<calls, bcast, refused, chrome>>
      /\ events' = Append(events, Event("info", t))
  BY DEF Retitle, Aside, gateway, history
<1> QED BY <1>1, <1>2, <1>3, NewsAside

\* A page opens with the number after the last.
LEMMA PageNumbered ==
  ASSUME IInv, Made \in Tab
  PROVE  /\ Opened \in Chrome /\ Opened.made = Made /\ Opened.dying \subseteq Opened.pages
         /\ Opened.pages \subseteq 1..Made
         /\ chrome.made \in Nat /\ Made = chrome.made + 1 /\ chrome.made <= Made
<1>1. /\ chrome \in Chrome /\ chrome.made \in Nat
      /\ chrome.dying \subseteq chrome.pages /\ chrome.pages \subseteq 1..chrome.made
  BY Numbers DEF IInv, Typed, TabsOK, Chrome
<1>2. chrome.pages \cup {Made} \in SUBSET Tab
  BY <1>1 DEF Chrome
<1>3. /\ Opened \in Chrome /\ Opened.made = Made /\ Opened.dying = chrome.dying
      /\ Opened.pages = chrome.pages \cup {Made}
  BY <1>1, <1>2, Zenon DEF Opened, Chrome
<1>4. Made = chrome.made + 1
  BY DEF Made
<1> QED BY <1>1, <1>3, <1>4

LEMMA PopupStep == ASSUME IInv, Popup PROVE IInv'
<1> DEFINE m == Event("attached", Made)
<1>1. Made \in Tab /\ chrome' = Opened /\ events' = Append(events, m)
  BY DEF Popup
<1>2. Aside /\ UNCHANGED <<calls, bcast, refused>>
  BY DEF Popup, Aside, gateway, history
<1>3. m \in News /\ m.e = "attached" /\ m.tab = Made
  BY <1>1, NewsMade
<1> HIDE DEF m
<1>4. /\ Opened \in Chrome /\ Opened.made = Made /\ Opened.dying \subseteq Opened.pages
      /\ Opened.pages \subseteq 1..Made
      /\ chrome.made \in Nat /\ Made = chrome.made + 1 /\ chrome.made <= Made
  BY <1>1, PageNumbered
<1>5. calls \in Seq(Call) /\ events \in Seq(News \cup Reply) /\ registry \in SUBSET (1..chrome.made)
  BY DEF IInv, Typed, TabsOK
<1>6. events' \in Seq(News \cup Reply) /\ Longer(events, m, events')
  BY <1>1, <1>3, <1>5, NewsPut
<1>7. /\ QueuesOK(Made, registry, calls, events')
      /\ \A t : Known(chrome.made, events, t) => Known(Made, events', t)
      /\ \A t : Promoted(calls, events', t) => Promoted(calls, events, t)
      /\ Activating(calls, events) => Activating(calls, events')
  <2> DEFINE n == chrome.made
  <2>1. n \in Nat /\ registry \in SUBSET (1..n) /\ QueuesOK(n, registry, calls, events)
    BY PagesCounted
  <2>2. m.tab = n + 1
    BY <1>3, <1>4
  <2> HIDE DEF n
  <2>3. /\ QueuesOK(n + 1, registry, calls, events')
        /\ \A t : Known(n, events, t) => Known(n + 1, events', t)
        /\ \A t : Promoted(calls, events', t) => Promoted(calls, events, t)
        /\ Activating(calls, events) => Activating(calls, events')
    BY <2>1, <2>2, <1>3, <1>6, PageOpens
  <2> QED BY <2>3, <1>4, Zenon DEF n
<1>8. TabAlwaysComing'
  <2>1. Len(events) + 1 \in DOMAIN events' /\ events'[Len(events) + 1].e = "attached"
    BY <1>3, <1>5, <1>6, ComingPlaces DEF Longer
  <2> QED BY <2>1 DEF TabAlwaysComing, Creating
<1>9. \A t : Selecting(calls, events, t) => Selecting(calls, events', t)
  BY <1>6, SelectingOn
<1> QED BY <1>1, <1>2, <1>4, <1>5, <1>6, <1>7, <1>8, <1>9, AsideStep

LEMMA NewTabStep == ASSUME IInv, NewTab PROVE IInv'
<1> DEFINE c == CreateTab(Done)
<1>1. chrome.made \in Nat
  BY PagesCounted
<1>2. c \in Call /\ CallOK(c, chrome.made) /\ ~Promises(c)
  BY <1>1, CreateMade
<1>4. calls' = Append(calls, c)
  BY <1>2, CallPut DEF NewTab, Send, IInv, Typed
<1>5. Aside /\ UNCHANGED <<chrome, events, bcast, refused>>
  BY DEF NewTab, Aside, gateway, history
<1> HIDE DEF c
<1> QED BY <1>2, <1>4, <1>5, SendAside

LEMMA ActivateReceivedStep == ASSUME IInv, NEW t \in Tab, ActivateReceived(t) PROVE IInv'
<1>1. Activate(t) \in Call /\ CallOK(Activate(t), chrome.made) /\ ~Promises(Activate(t))
  BY ActivateMade, PagesCounted DEF ActivateReceived
<1>2. calls' = Append(calls, Activate(t))
  BY <1>1, CallPut DEF ActivateReceived, Send, IInv, Typed
<1>3. Aside /\ UNCHANGED <<chrome, events, bcast, refused>>
  BY DEF ActivateReceived, Aside, gateway, history
<1> QED BY <1>1, <1>2, <1>3, SendAside

LEMMA CloseReceivedStep == ASSUME IInv, NEW t \in Tab, CloseReceived(t) PROVE IInv'
<1> DEFINE c == IF tabs = {t} THEN CreateTab(Go("close", t)) ELSE CloseTab(t)
<1>1. t \in 1..chrome.made
  BY DEF CloseReceived, IInv, TabsOK
<1>2. c \in Call /\ CallOK(c, chrome.made) /\ ~Promises(c)
  <2>1. CASE tabs = {t}
    <3>1. Go("close", t) \in Further /\ Go("close", t).what = "close" /\ Go("close", t).arg = t
      BY FurtherMade, Numbers
    <3>2. c \in Call /\ c.do = "create" /\ c.next = Go("close", t)
      BY <2>1, <3>1, CallMade DEF CreateTab, Id
    <3> QED BY <1>1, <3>1, <3>2 DEF CallOK, Promises
  <2>2. CASE tabs # {t}
    BY <2>2, <1>1, CloseMade, PagesCounted
  <2> QED BY <2>1, <2>2
<1>3. calls' = Append(calls, c)
  <2>1. calls' = calls \o <<c>>
    BY DEF CloseReceived, Send
  <2> QED BY <1>2, <2>1, CallPut DEF IInv, Typed
<1>4. Aside /\ UNCHANGED <<chrome, events, bcast, refused>>
  BY DEF CloseReceived, Aside, gateway, history
<1> HIDE DEF c
<1> QED BY <1>2, <1>3, <1>4, SendAside

\* The timer of the list, with tabs to list or none.
LEMMA BroadcastTimerStep == ASSUME IInv, BroadcastTimer PROVE IInv'
<1> DEFINE c == CreateTab(Done)
<1>1. /\ chrome \in Chrome /\ calls \in Seq(Call) /\ events \in Seq(News \cup Reply)
      /\ chrome.made \in Nat /\ QueuesOK(chrome.made, registry, calls, events)
      /\ chrome.dying \subseteq chrome.pages /\ chrome.pages \subseteq 1..chrome.made
  BY PagesCounted DEF IInv, TabsOK
<1>2. /\ Aside /\ UNCHANGED <<chrome, events, refused>>
      /\ bcast = "armed" /\ bcast' = IF tabs = {} THEN "idle" ELSE "listing"
  BY DEF BroadcastTimer, Aside, history
<1>3. CASE tabs = {}
  <2>2. c \in Call /\ c.do = "create"
    BY <1>1, CreateMade
  <2>3. CallOK(c, chrome.made) /\ ~Promises(c)
    BY <1>1, CreateMade
  <2>4. calls' = Append(calls, c)
    <3>1. calls' = calls \o <<c>>
      BY <1>3 DEF BroadcastTimer, Send, ListOfNone
    <3> QED BY <1>1, <2>2, <3>1, CallPut
  <2> HIDE DEF c
  <2>5. calls' \in Seq(Call) /\ Longer(calls, c, calls')
    BY <1>1, <2>2, <2>4, CallPut
  <2>6. /\ QueuesOK(chrome.made, registry, calls', events)
        /\ \A t : Promoted(calls', events, t) => Promoted(calls, events, t)
        /\ Activating(calls, events) => Activating(calls', events)
    BY <1>1, <2>3, <2>5, CallJoins
  <2>7. TabAlwaysComing'
    <3>1. Len(calls) + 1 \in DOMAIN calls' /\ calls'[Len(calls) + 1].do = "create"
      BY <2>2, <2>5, <1>1, ComingPlaces DEF Longer
    <3> QED BY <3>1 DEF TabAlwaysComing, Creating
  <2>8. \A t : Selecting(calls, events, t) => Selecting(calls', events, t)
    BY <2>5, SelectingOn
  <2> QED BY <1>1, <1>2, <2>5, <2>6, <2>7, <2>8, AsideStep
<1>4. CASE tabs # {}
  <2>1. calls' = calls
    <3>1. calls' = calls \o <<>>
      BY <1>4 DEF BroadcastTimer, Send
    <3> QED BY <1>1, <3>1
  <2>2. TabAlwaysComing'
    <3>1. tabs' = tabs
      BY <1>2 DEF Aside, tabs
    <3> QED BY <1>4, <3>1 DEF TabAlwaysComing
  <2> QED BY <1>1, <1>2, <2>1, <2>2, AsideStep
<1> QED BY <1>3, <1>4

LEMMA PerformStep == ASSUME IInv, Perform PROVE IInv'
<1> DEFINE c == Head(calls)
           n == chrome.made
<1>1. /\ chrome \in Chrome /\ calls \in Seq(Call) /\ events \in Seq(News \cup Reply)
      /\ n \in Nat /\ QueuesOK(n, registry, calls, events) /\ registry \in SUBSET (1..n)
      /\ chrome.dying \subseteq chrome.pages /\ chrome.pages \subseteq 1..n
  BY PagesCounted DEF IInv, TabsOK
<1>2. Aside /\ bcast' = bcast /\ calls # <<>> /\ calls' = Tail(calls)
  BY DEF Perform, Aside, gateway
<1>3. c \in Call /\ c = calls[1] /\ calls' \in Seq(Call) /\ Shorter(calls, calls')
  BY <1>1, <1>2, CallTaken DEF Shorter
<1>4. c.do \in {"create", "activate", "close"} /\ c.tab \in Id /\ c.next \in Further
  BY <1>3 DEF Call
<1>5. tabs' = tabs
  BY <1>2 DEF Aside, tabs
<1>6. CASE c.do = "create" /\ Made \in Tab /\ chrome' = Opened /\ refused' = refused
           /\ events' = events \o <<Event("attached", Made), Answer(c, Made, TRUE)>>
  <2> DEFINE m == Event("attached", Made)
             k == Answer(c, Made, TRUE)
             fs == Append(events, m)
  <2>1. /\ Opened \in Chrome /\ Opened.made = Made /\ Opened.dying \subseteq Opened.pages
        /\ Opened.pages \subseteq 1..Made
        /\ Made = n + 1 /\ n <= Made
    BY <1>6, PageNumbered
  <2>2. m \in News /\ m.e = "attached" /\ m.tab = Made
    <3>1. Made \in Tab
      BY <1>6
    <3> QED BY <3>1, NewsMade
  <2>3. k \in Reply /\ k.e = "create" /\ k.tab = Made /\ k.next = c.next
    <3>1. c \in Call /\ Made \in Id /\ c.do = "create"
      BY <1>3, <1>6 DEF Id
    <3> HIDE DEF c
    <3> QED BY <3>1, ReplyMade
  <2>4. events' = Append(fs, k)
    BY <1>1, <1>6, <2>2, <2>3, TwoPut
  <2>5. fs \in Seq(News \cup Reply) /\ Longer(events, m, fs)
    BY <1>1, <2>2, NewsPut
  <2>6. events' \in Seq(News \cup Reply) /\ Longer(fs, k, events')
    BY <2>3, <2>4, <2>5, NewsPut
  <2>7. m.tab = n + 1 /\ k.tab = n + 1 /\ calls[1].do = "create" /\ k.next = calls[1].next
    BY <2>1, <2>2, <2>3, <1>3, <1>6
  <2> HIDE DEF m, k, fs, c, n
  <2>8. /\ QueuesOK(n + 1, registry, calls', events')
        /\ \A t : Known(n, events, t) => Known(n + 1, events', t)
        /\ \A t \in 1..n : Promoted(calls', events', t) => Promoted(calls, events, t)
        /\ Activating(calls, events) => Activating(calls', events')
    BY <1>1, <1>3, <2>2, <2>3, <2>5, <2>6, <2>7, PageMade
  <2>9. TabAlwaysComing'
    <3>1. Len(events) + 1 \in DOMAIN events' /\ events'[Len(events) + 1] = m
      BY <1>1, <2>5, <2>6, ComingPlaces DEF Longer
    <3> QED BY <2>2, <3>1 DEF TabAlwaysComing, Creating
  <2>10. \A t : Selecting(calls, events, t) => Selecting(calls', events', t)
    <3>1. \A t : Selecting(calls, events, t) => Selecting(calls, fs, t)
      BY <2>5, SelectingOn
    <3>2. ~Clicked(calls[1])
      BY <2>7 DEF Clicked
    <3>3. \A t : Selecting(calls, fs, t) => Selecting(calls', events', t)
      BY <1>3, <2>6, <3>2, SelectingPerformed
    <3> QED BY <3>1, <3>3
  <2> QED BY <1>1, <1>2, <1>3, <1>6, <2>1, <2>6, <2>8, <2>9, <2>10, AsideStep DEF n
<1>7. ASSUME NEW k \in Reply, Longer(events, k, events'), events' \in Seq(News \cup Reply),
             k.e = c.do, k.next = c.next,
             IF k.e = "create" THEN ~k.ok /\ k.tab = 0 ELSE k.tab = c.tab,
             chrome' \in Chrome, chrome'.made = n, chrome'.pages = chrome.pages,
             chrome'.dying \subseteq chrome.pages,
             c.do = "create" => refused', refused => refused'
      PROVE  IInv'
  <2>1. /\ QueuesOK(n, registry, calls', events')
        /\ \A t : Known(n, events, t) => Known(n, events', t)
        /\ \A t : Promoted(calls', events', t) => Promoted(calls, events, t)
        /\ Activating(calls, events) => Activating(calls', events')
    <3>1. k.e = calls[1].do /\ k.next = calls[1].next
          /\ IF k.e = "create" THEN ~k.ok /\ k.tab = 0 ELSE k.tab = calls[1].tab
      BY <1>3, <1>7
    <3>2. k.e \in {"create", "activate", "close"}
      BY <1>4, <1>7
    <3> HIDE DEF c, n
    <3> QED BY <1>1, <1>3, <1>7, <3>1, <3>2, CallPerformed
  <2>2. TabAlwaysComing'
    <3>1. CASE c.do = "create"
      BY <1>7, <3>1 DEF TabAlwaysComing
    <3>2. CASE c.do # "create"
      <4>1. ASSUME NEW i \in 1..Len(calls), calls[i].do = "create" PROVE Creating'
        <5>1. i - 1 \in 1..Len(calls') /\ calls'[i - 1] = calls[i]
          BY <1>3, <3>2, <4>1, TakenFirst
        <5>2. DOMAIN calls' = 1..Len(calls')
          BY <1>3
        <5> QED BY <4>1, <5>1, <5>2 DEF Creating
      <4>2. ASSUME NEW i \in 1..Len(events), events[i].e = "attached" PROVE Creating'
        <5>1. i \in DOMAIN events' /\ events'[i] = events[i]
          BY <1>7, ComingPlaces, <1>3 DEF Longer
        <5> QED BY <4>2, <5>1 DEF Creating
      <4>3. Creating => Creating'
        BY <1>1, <4>1, <4>2, ComingPlaces DEF Creating
      <4> QED BY <1>2, <1>5, <1>7, <4>3 DEF IInv, TabAlwaysComing
    <3> QED BY <3>1, <3>2
  <2>3. \A t : Selecting(calls, events, t) => Selecting(calls', events', t)
    <3>1. Clicked(calls[1]) => Confirmed(k) /\ k.tab = calls[1].tab
      BY <1>3, <1>7 DEF Clicked, Confirmed
    <3> QED BY <1>3, <1>7, <3>1, SelectingPerformed
  <2> QED BY <1>1, <1>2, <1>3, <1>7, <2>1, <2>2, <2>3, AsideStep
<1>8. CASE c.do = "create" /\ refused' = TRUE /\ UNCHANGED chrome
           /\ events' = Append(events, Answer(c, None, FALSE))
  <2> DEFINE k == Answer(c, None, FALSE)
  <2>1. k \in Reply /\ k.e = "create" /\ k.tab = 0 /\ k.next = c.next /\ ~k.ok
    BY <1>3, <1>8, ReplyMade DEF Id, None
  <2>2. events' \in Seq(News \cup Reply) /\ Longer(events, k, events')
    BY <1>1, <1>8, <2>1, NewsPut
  <2> HIDE DEF k
  <2> QED BY <1>1, <1>7, <1>8, <2>1, <2>2
<1>9. CASE /\ c.do # "create" /\ UNCHANGED refused
           /\ events' = Append(events, Answer(c, c.tab, c.tab \in chrome.pages))
           /\ chrome' = IF c.do = "close" /\ c.tab \in chrome.pages
                        THEN [chrome EXCEPT !.dying = @ \cup {c.tab}] ELSE chrome
  <2> DEFINE k == Answer(c, c.tab, c.tab \in chrome.pages)
  <2>1. k \in Reply /\ k.e = c.do /\ k.tab = c.tab /\ k.next = c.next
    <3> DEFINE ok == c.tab \in chrome.pages
    <3> HIDE DEF c
    <3>1. ok \in BOOLEAN
      OBVIOUS
    <3> HIDE DEF ok
    <3>2. LET a == Answer(c, c.tab, ok)
          IN  a \in Reply /\ a.e = c.do /\ a.tab = c.tab /\ a.next = c.next
      BY <1>3, <1>4, <3>1, ReplyMade
    <3> QED BY <3>2 DEF ok
  <2>2. events' \in Seq(News \cup Reply) /\ Longer(events, k, events')
    BY <1>1, <1>9, <2>1, NewsPut
  <2>3. /\ chrome' \in Chrome /\ chrome'.made = n /\ chrome'.pages = chrome.pages
        /\ chrome'.dying \subseteq chrome.pages
    <3>1. CASE c.do = "close" /\ c.tab \in chrome.pages
      <4>1. chrome.dying \cup {c.tab} \in SUBSET Tab
        BY <1>1, <3>1 DEF Chrome
      <4>2. chrome' = [chrome EXCEPT !.dying = @ \cup {c.tab}]
        BY <1>9, <3>1
      <4>3. /\ chrome' \in Chrome /\ chrome'.made = n /\ chrome'.pages = chrome.pages
            /\ chrome'.dying = chrome.dying \cup {c.tab}
        BY <1>1, <4>1, <4>2, Zenon DEF Chrome
      <4> QED BY <1>1, <3>1, <4>3
    <3>2. CASE ~(c.do = "close" /\ c.tab \in chrome.pages)
      BY <1>1, <1>9, <3>2
    <3> QED BY <3>1, <3>2
  <2> HIDE DEF k
  <2> QED BY <1>7, <1>9, <2>1, <2>2, <2>3
<1>10. CASE /\ c.do = "activate" /\ UNCHANGED <<chrome, refused>>
            /\ events' = Append(events, Answer(c, c.tab, FALSE))
  <2> DEFINE k == Answer(c, c.tab, FALSE)
  <2>1. k \in Reply /\ k.e = c.do /\ k.tab = c.tab /\ k.next = c.next
    BY <1>3, <1>4, ReplyMade
  <2>2. events' \in Seq(News \cup Reply) /\ Longer(events, k, events')
    BY <1>1, <1>10, <2>1, NewsPut
  <2> HIDE DEF k
  <2> QED BY <1>1, <1>7, <1>10, <2>1, <2>2
<1> QED BY <1>6, <1>8, <1>9, <1>10 DEF Perform

------------------------------------------------------------------------------
(* The gateway handles an event or an answer. *)

Coming(cs, es) ==
  \/ \E i \in 1..Len(cs) : cs[i].do = "create"
  \/ \E i \in 1..Len(es) : es[i].e = "attached"

Taking(m) ==
  /\ events # <<>> /\ m = Head(events) /\ events' = Tail(events)
  /\ UNCHANGED <<chrome, refused>>

\* What holds once an event is taken, when the pages in more are attached after it.
LEMMA Taken ==
  ASSUME IInv, NEW m, Taking(m), NEW more,
         \A t \in more : t \in registry \/ (m.e = "attached" /\ t = m.tab)
  PROVE  /\ events' \in Seq(News \cup Reply) /\ m \in News \cup Reply
         /\ QueuesOK(chrome.made, more, calls, events') /\ EventOK(m, chrome.made)
         /\ m.e = "attached" => m.tab \notin registry /\ ~Known(chrome.made, events, m.tab)
         /\ \A t : Known(chrome.made, events, t) => Known(chrome.made, events', t)
         /\ m.tab # None => Known(chrome.made, events', m.tab)
         /\ \A t : Promoted(calls, events', t) => Promoted(calls, events, t)
         /\ Promoting(m) =>
              Promoted(calls, events, m.tab) /\ ~Promoted(calls, events', m.tab)
         /\ m.e # "activate" /\ Activating(calls, events) => Activating(calls, events')
         /\ m.e # "attached" /\ Creating => Coming(calls, events')
<1> DEFINE n == chrome.made
<1>1. /\ n \in Nat /\ calls \in Seq(Call) /\ events \in Seq(News \cup Reply)
      /\ QueuesOK(n, registry, calls, events)
  BY PagesCounted
<1>2. /\ m = events[1] /\ events' \in Seq(News \cup Reply) /\ m \in News \cup Reply
      /\ Shorter(events, events')
  BY <1>1, NewsTaken DEF Taking, Shorter
<1> HIDE DEF n
<1>3. \A t \in more : t \in registry \/ (events[1].e = "attached" /\ t = events[1].tab)
  BY <1>2
<1>4. /\ QueuesOK(n, more, calls, events') /\ EventOK(events[1], n)
      /\ events[1].e = "attached" => events[1].tab \notin registry
      /\ \A t : Known(n, events, t) => Known(n, events', t)
      /\ events[1].tab # None => Known(n, events', events[1].tab)
      /\ \A t : Promoted(calls, events', t) => Promoted(calls, events, t)
      /\ Promoting(events[1]) =>
           /\ Promoted(calls, events, events[1].tab)
           /\ ~Promoted(calls, events', events[1].tab)
      /\ events[1].e # "activate" /\ Activating(calls, events) => Activating(calls, events')
  <2>1. n \in Nat /\ QueuesOK(n, registry, calls, events) /\ Shorter(events, events')
    BY <1>1, <1>2
  <2> QED BY <2>1, <1>3, NewsHandled
<1>5. m.e = "attached" => ~Known(n, events, m.tab)
  <2>1. 1 \in 1..Len(events)
    BY <1>2, TakenFirst
  <2> QED BY <1>2, <2>1 DEF Known
<1>6. ASSUME m.e # "attached", Creating PROVE Coming(calls, events')
  <2>1. CASE \E i \in 1..Len(calls) : calls[i].do = "create"
    BY <2>1 DEF Coming
  <2>2. ASSUME NEW i \in 1..Len(events), events[i].e = "attached" PROVE Coming(calls, events')
    <3>1. i # 1
      BY <1>2, <1>6, <2>2
    <3>2. i - 1 \in 1..Len(events') /\ events'[i - 1] = events[i]
      BY <1>2, <3>1, TakenFirst
    <3> QED BY <2>2, <3>2 DEF Coming
  <2> QED BY <1>1, <1>6, <2>1, <2>2, ComingPlaces DEF Creating
<1> QED BY <1>2, <1>4, <1>5, <1>6, Zenon DEF n

LEMMA SelectingTaken ==
  ASSUME IInv, NEW m, Taking(m)
  PROVE  \A t : Selecting(calls, events, t) =>
                 Selecting(calls, events', t) \/ (m.e = "activate" /\ m.tab = t)
<1>1. events \in Seq(News \cup Reply)
  BY PagesCounted
<1>2. m = events[1] /\ Shorter(events, events')
  BY <1>1, NewsTaken DEF Taking, Shorter
<1> QED BY <1>2, SelectingHandled DEF Confirmed

\* The gateway sends a command, or none.
LEMMA Sent ==
  ASSUME NEW made \in Nat, NEW known, NEW cs \in Seq(Call), NEW es, NEW ds, NEW c,
         QueuesOK(made, known, cs, es),
         \/ ds = cs \o <<>>
         \/ /\ c \in Call /\ CallOK(c, made) /\ ds = cs \o <<c>>
            /\ Promises(c) => ~Promoted(cs, es, c.tab)
  PROVE  /\ ds \in Seq(Call) /\ QueuesOK(made, known, ds, es)
         /\ \A t : Promoted(ds, es, t) => Promoted(cs, es, t) \/ (Promises(c) /\ c.tab = t)
         /\ Activating(cs, es) => Activating(ds, es)
         /\ ds = cs \o <<c>> /\ c \in Call /\ c.do = "activate" => Activating(ds, es)
         /\ Coming(cs, es) => Coming(ds, es)
<1>0. cs \o <<>> = cs
  OBVIOUS
<1>1. CASE ds = cs \o <<>>
  <2>1. c \in Call => cs \o <<c>> # cs
    BY CallPut DEF Longer
  <2> QED BY <1>0, <1>1, <2>1
<1>2. CASE c \in Call /\ CallOK(c, made) /\ ds = cs \o <<c>>
           /\ (Promises(c) => ~Promoted(cs, es, c.tab))
  <2>1. ds \in Seq(Call) /\ Longer(cs, c, ds)
    BY <1>2, CallPut
  <2>2. /\ QueuesOK(made, known, ds, es)
        /\ \A t : Promoted(ds, es, t) => Promoted(cs, es, t) \/ (Promises(c) /\ c.tab = t)
        /\ Activating(cs, es) \/ c.do = "activate" => Activating(ds, es)
    BY <1>2, <2>1, CallJoins
  <2>3. Coming(cs, es) => Coming(ds, es)
    <3>1. \A i \in 1..Len(cs) : i \in 1..Len(ds) /\ ds[i] = cs[i]
      BY <2>1 DEF Longer
    <3> QED BY <3>1 DEF Coming
  <2> QED BY <1>2, <2>1, <2>2, <2>3
<1> QED BY <1>0, <1>1, <1>2

LEMMA ComingIs ==
  /\ IInv => (Creating <=> Coming(calls, events))
  /\ calls' \in Seq(Call) /\ events' \in Seq(News \cup Reply) => (Creating' <=> Coming(calls', events'))
<1>1. ASSUME IInv PROVE Creating <=> Coming(calls, events)
  BY <1>1, PagesCounted, ComingPlaces DEF Creating, Coming
<1>2. ASSUME calls' \in Seq(Call), events' \in Seq(News \cup Reply)
      PROVE  Creating' <=> Coming(calls', events')
  BY <1>2, ComingPlaces DEF Creating, Coming
<1> QED BY <1>1, <1>2

\* The first list takes notice of who is active, and of nothing else.
LEMMA Noticed ==
  ASSUME NEW j \in Join, active' \in Id
  PROVE  Notice(j) \in Join /\ Notice(j).ids = j.ids /\ Notice(j).phase = j.phase
<1>1. j.seen \cup {active'} \in SUBSET Id
  BY DEF Join
<1>2. CASE j.phase = "listing"
  <2>1. Notice(j) = [j EXCEPT !.seen = j.seen \cup {active'}]
    BY <1>2 DEF Notice
  <2> QED BY <1>1, <2>1, Zenon DEF Join
<1>3. CASE j.phase # "listing"
  BY <1>3 DEF Notice
<1> QED BY <1>2, <1>3

\* What has to be shown of a handler, which leaves the pages alone.
LEMMA Handled ==
  ASSUME Typed', TabsOK', chrome' = chrome,
         QueuesOK(chrome.made, registry', calls', events'),
         TabAlwaysComing', ActiveOK', KnownOK', MirrorOK', ShownOK', ListedOK', LedOK'
  PROVE  IInv'
BY DEF IInv, ViewerOK

LEMMA HandleAttachedStep ==
  ASSUME IInv, NEW m, Taking(m), m.e = "attached", HandleAttached(m.tab)
  PROVE  IInv'
<1> DEFINE t == m.tab
<1>1. /\ calls \in Seq(Call) /\ chrome \in Chrome /\ chrome.made \in Nat
      /\ \A k \in 1..chrome.made : k \in Tab
  BY PagesCounted
<1>2. /\ registry' = registry \cup {t} /\ order' = Append(order, t)
      /\ active' = IF active = None THEN t ELSE active
      /\ orphaned' = (orphaned /\ active # None)
      /\ bcast' = "armed" /\ join' = Notice(join)
      /\ UNCHANGED <<calls, hub, owes, viewer, late, unshown>>
      /\ chrome' = chrome
  BY DEF HandleAttached, Schedule, Taking
<1>3. \A k \in registry' : k \in registry \/ (m.e = "attached" /\ k = m.tab)
  BY <1>2
<1>4. /\ events' \in Seq(News \cup Reply) /\ m \in News \cup Reply
      /\ QueuesOK(chrome.made, registry', calls, events') /\ EventOK(m, chrome.made)
      /\ t \notin registry /\ ~Known(chrome.made, events, t)
      /\ \A k : Known(chrome.made, events, k) => Known(chrome.made, events', k)
      /\ t # None => Known(chrome.made, events', t)
      /\ \A k : Promoted(calls, events', k) => Promoted(calls, events, k)
      /\ m.e # "activate" /\ Activating(calls, events) => Activating(calls, events')
  BY <1>3, Taken
<1>5. t \in Tab /\ t # None /\ t \in 1..chrome.made
  BY <1>1, <1>4, Kinds, Numbers DEF EventOK, None
<1> HIDE DEF t
<1>6. /\ order \in Seq(Tab) /\ IsInjective(order) /\ tabs \subseteq registry
      /\ active \in Id /\ join \in Join
  BY DEF IInv, Typed, TabsOK
<1>7. order' \in Seq(Tab) /\ IsInjective(order') /\ tabs' = tabs \cup {t} /\ t \notin tabs
  <2>1. t \notin ToSet(order)
    BY <1>4, <1>6 DEF tabs
  <2> QED BY <1>2, <1>5, <1>6, <2>1, AppendedTab DEF tabs
<1>8. active' \in Id /\ join' \in Join /\ join'.ids = join.ids /\ join'.phase = join.phase
  <2>1. active' \in Id
    BY <1>2, <1>5, <1>6 DEF Id
  <2> QED BY <1>2, <1>6, <2>1, Noticed
<1>9. Typed'
  <2>1. registry' \subseteq Tab
    BY <1>2, <1>5 DEF IInv, Typed
  <2> QED BY <1>2, <1>4, <1>7, <1>8, <2>1 DEF IInv, Typed
<1>10. TabsOK'
  BY <1>2, <1>5, <1>7 DEF IInv, TabsOK
<1>11. TabAlwaysComing'
  BY <1>7 DEF TabAlwaysComing
<1>12. ActiveOK'
  BY <1>2, <1>5, <1>7 DEF IInv, ActiveOK
<1>13. KnownOK'
  BY <1>2, <1>4, <1>5, <1>8 DEF IInv, ViewerOK, KnownOK
<1>14. MirrorOK'
  BY <1>2, <1>4, <1>5, <1>7 DEF IInv, ViewerOK, MirrorOK, KnownOK
<1>15. ShownOK'
  <2>1. CASE active = None
    BY <2>1, <1>2, <1>5, <1>7 DEF IInv, TabsOK, ShownOK
  <2>2. CASE active # None
    <3>1. active' = active /\ InStep' = InStep
      BY <2>2, <1>2 DEF InStep
    <3> QED BY <2>2, <3>1, <1>2, <1>4 DEF IInv, ViewerOK, ShownOK
  <2> QED BY <2>1, <2>2
<1>16. ListedOK' /\ LedOK'
  BY <1>2 DEF ListedOK, LedOK
<1> QED BY <1>2, <1>4, <1>9, <1>10, <1>11, <1>12, <1>13, <1>14, <1>15, <1>16, Handled

\* The same of the next state, when an event was taken.
LEMMA SentNow ==
  ASSUME IInv, NEW c,
         QueuesOK(chrome.made, registry', calls, events'),
         \/ calls' = calls \o <<>>
         \/ /\ c \in Call /\ CallOK(c, chrome.made) /\ calls' = calls \o <<c>>
            /\ Promises(c) => ~Promoted(calls, events', c.tab)
  PROVE  /\ calls' \in Seq(Call) /\ QueuesOK(chrome.made, registry', calls', events')
         /\ \A k : Promoted(calls', events', k) =>
              Promoted(calls, events', k) \/ (c \in Call /\ Promises(c) /\ c.tab = k)
         /\ Activating(calls, events') => Activating(calls', events')
         /\ calls' = calls \o <<c>> /\ c \in Call /\ c.do = "activate" => Activating(calls', events')
         /\ Coming(calls, events') => Coming(calls', events')
<1> DEFINE n == chrome.made
           R == registry'
           ds == calls'
           es == events'
           cs == calls
<1>1. /\ n \in Nat /\ cs \in Seq(Call) /\ QueuesOK(n, R, cs, es)
      /\ \/ ds = cs \o <<>>
         \/ /\ c \in Call /\ CallOK(c, n) /\ ds = cs \o <<c>>
            /\ Promises(c) => ~Promoted(cs, es, c.tab)
  BY PagesCounted
<1> HIDE DEF n, R, ds, es, cs
<1>2. /\ ds \in Seq(Call) /\ QueuesOK(n, R, ds, es)
      /\ \A k : Promoted(ds, es, k) => Promoted(cs, es, k) \/ (Promises(c) /\ c.tab = k)
      /\ Activating(cs, es) => Activating(ds, es)
      /\ ds = cs \o <<c>> /\ c \in Call /\ c.do = "activate" => Activating(ds, es)
      /\ Coming(cs, es) => Coming(ds, es)
  BY <1>1, Sent
<1>3. ds = cs \/ c \in Call
  BY <1>1
<1> QED BY <1>2, <1>3 DEF n, R, ds, es, cs

\* A tab that is gone: the next takes over, or another is created.
LEMMA RemoveTabStep ==
  ASSUME IInv, NEW m, Taking(m), NEW t \in Tab, m.e \notin {"attached", "activate"},
         RemoveTab(t), registry' \in {registry, registry \ {t}},
         UNCHANGED <<viewer, orphaned, late, unshown>>,
         calls' = calls \o AfterLoss(t) \/ calls' = calls \o Following(t)
  PROVE  IInv'
<1> DEFINE c == IF calls' = calls \o Following(t) THEN Activate(Neighbor(t)) ELSE
                IF tabs = {t} THEN CreateTab(Done) ELSE Activate(Neighbor(t))
<1>1. /\ calls \in Seq(Call) /\ chrome \in Chrome /\ chrome.made \in Nat
      /\ registry \in SUBSET (1..chrome.made) /\ tabs \subseteq registry
  BY PagesCounted
<1>2. /\ order' = RemoveFirst(order, t)
      /\ active' = IF active = t THEN None ELSE active
      /\ hub' = [hub EXCEPT ![t] = 0] /\ owes' = owes \ {t}
      /\ bcast' = "armed" /\ join' = Notice(join) /\ chrome' = chrome
  BY DEF RemoveTab, Schedule, Taking
<1>3. \A k \in registry' : k \in registry \/ (m.e = "attached" /\ k = m.tab)
  OBVIOUS
<1>4. /\ events' \in Seq(News \cup Reply)
      /\ QueuesOK(chrome.made, registry', calls, events')
      /\ \A k : Known(chrome.made, events, k) => Known(chrome.made, events', k)
      /\ \A k : Promoted(calls, events', k) => Promoted(calls, events, k)
      /\ Activating(calls, events) => Activating(calls, events')
  BY <1>3, Taken
<1>6. /\ order \in Seq(Tab) /\ IsInjective(order)
      /\ active \in Id /\ join \in Join /\ hub \in [Tab -> Nat]
  BY DEF IInv, Typed, TabsOK
<1>7. order' \in Seq(Tab) /\ IsInjective(order') /\ tabs' = tabs \ {t}
  <2>1. CASE t \in ToSet(order)
    BY <2>1, <1>2, <1>6, RemovedTab DEF tabs
  <2>2. CASE t \notin ToSet(order)
    <3>1. ~\E i \in 1..Len(order) : order[i] = t
      BY <2>2, <1>6, SMT DEF ToSet
    <3>2. order' = order
      BY <3>1, <1>2 DEF RemoveFirst
    <3> QED BY <2>2, <3>2, <1>6 DEF tabs
  <2> QED BY <2>1, <2>2
<1>8. /\ Neighbor(t) \in Id /\ (Neighbor(t) # None => Neighbor(t) \in tabs)
      /\ t \in tabs /\ active = t /\ tabs' # {} => Neighbor(t) # None
  BY <1>6, <1>7, <1>2, NeighborFound DEF IInv, tabs
<1>9. active' \in Id /\ join' \in Join /\ join'.ids = join.ids /\ join'.phase = join.phase
  <2>1. active' \in Id
    BY <1>2, <1>6 DEF Id
  <2> QED BY <1>2, <1>6, <2>1, Noticed
<1>10. \/ calls' = calls \o <<>>
       \/ c \in Call /\ CallOK(c, chrome.made) /\ calls' = calls \o <<c>> /\ ~Promises(c)
  <2>2. /\ CreateTab(Done) \in Call /\ CallOK(CreateTab(Done), chrome.made)
        /\ ~Promises(CreateTab(Done))
    BY CreateMade, <1>1
  <2>3. Neighbor(t) # None =>
          /\ Activate(Neighbor(t)) \in Call /\ CallOK(Activate(Neighbor(t)), chrome.made)
          /\ ~Promises(Activate(Neighbor(t)))
    <3>1. Neighbor(t) # None => Neighbor(t) \in Tab /\ Neighbor(t) \in 1..chrome.made
      BY <1>1, <1>8 DEF Id
    <3> QED BY <1>1, <3>1, ActivateMade
  <2>4. CASE calls' = calls \o Following(t)
    BY <2>3, <2>4 DEF Following
  <2>5. CASE calls' # calls \o Following(t)
    BY <2>2, <2>3, <2>5 DEF Following, AfterLoss
  <2> QED BY <2>4, <2>5
<1>11. t \in tabs /\ active = t /\ tabs' # {} =>
         calls' = calls \o <<c>> /\ c.do = "activate" /\ c \in Call
  <2> SUFFICES ASSUME t \in tabs, active = t, tabs' # {}
               PROVE  calls' = calls \o <<c>> /\ c.do = "activate" /\ c \in Call
    OBVIOUS
  <2>1. Neighbor(t) # None /\ tabs # {t}
    BY <1>7, <1>8
  <2>2. Following(t) = <<Activate(Neighbor(t))>> /\ AfterLoss(t) = Following(t)
    BY <2>1 DEF Following, AfterLoss
  <2>3. c = Activate(Neighbor(t))
    BY <2>1
  <2>4. Neighbor(t) \in Tab /\ Neighbor(t) \in 1..chrome.made
    BY <1>1, <1>8, <2>1 DEF Id
  <2>5. c.do = "activate" /\ c \in Call
    BY <1>1, <2>3, <2>4, ActivateMade
  <2> QED BY <2>2, <2>3, <2>5
<1> HIDE DEF c
<1>12. /\ calls' \in Seq(Call) /\ QueuesOK(chrome.made, registry', calls', events')
       /\ \A k : Promoted(calls', events', k) => Promoted(calls, events', k)
       /\ Activating(calls, events') => Activating(calls', events')
       /\ calls' = calls \o <<c>> /\ c \in Call /\ c.do = "activate" => Activating(calls', events')
  <2>1. calls' = calls \o <<>> => calls' = calls
    BY <1>1
  <2> QED BY <1>4, <1>10, <2>1, SentNow
<1>13. Typed'
  <2>1. hub' \in [Tab -> Nat]
    BY <1>2, <1>6
  <2>2. registry' \subseteq Tab /\ owes' \subseteq Tab
    BY <1>2 DEF IInv, Typed
  <2> QED BY <1>2, <1>4, <1>7, <1>9, <1>12, <2>1, <2>2 DEF IInv, Typed
<1>14. TabsOK'
  BY <1>2, <1>6, <1>7 DEF IInv, TabsOK
<1>15. TabAlwaysComing'
  BY <1>2 DEF TabAlwaysComing
<1>16. ActiveOK'
  <2>1. active' # None /\ active' \notin tabs' => orphaned'
    BY <1>2, <1>7 DEF IInv, ActiveOK
  <2>2. ASSUME active' = None, tabs' # {}, ~orphaned' PROVE Activating(calls', events')
    <3>1. CASE active = None
      BY <2>2, <3>1, <1>4, <1>7, <1>12 DEF IInv, ActiveOK
    <3>2. CASE active # None
      <4>1. active = t /\ t \in tabs
        BY <2>2, <3>2, <1>2 DEF IInv, ActiveOK
      <4> QED BY <2>2, <4>1, <1>11, <1>12
    <3> QED BY <3>1, <3>2
  <2> QED BY <2>1, <2>2 DEF ActiveOK
<1>17. KnownOK'
  BY <1>2, <1>4, <1>9 DEF IInv, ViewerOK, KnownOK
<1>18. MirrorOK'
  BY <1>2, <1>6, <1>7 DEF IInv, ViewerOK, MirrorOK, TabsOK, Typed
<1>19. ShownOK'
  <2>1. CASE active' = None
    BY <2>1 DEF ShownOK
  <2>2. CASE active' # None
    <3>1. active' = active /\ active # t /\ active \in Tab
      BY <2>2, <1>2, <1>6 DEF Id
    <3>2. hub'[active] = hub[active] /\ (active \in owes => active \in owes')
      BY <3>1, <1>2, <1>6
    <3>3. InStep => InStep'
      BY <3>1, <3>2 DEF InStep
    <3> QED BY <2>2, <3>1, <3>2, <3>3, <1>4, <1>12 DEF IInv, ViewerOK, ShownOK
  <2> QED BY <2>1, <2>2
<1>20. ListedOK' /\ LedOK'
  BY <1>2 DEF ListedOK, LedOK
<1> QED BY <1>2, <1>12, <1>13, <1>14, <1>15, <1>16, <1>17, <1>18, <1>19, <1>20, Handled

\* An event that leaves tabs and viewer alone, whatever is sent for it.
LEMMA AloneStep ==
  ASSUME IInv, NEW m, Taking(m), NEW c, m.e # "attached",
         UNCHANGED <<order, active, hub, owes, join, viewer, late, unshown>>,
         registry' \subseteq registry, tabs \subseteq registry', bcast' \in {bcast, "armed"},
         \/ m.e # "activate" /\ orphaned' = orphaned /\ strayed' = strayed
         \/ orphaned' = (orphaned \/ active = None) /\ Stray(m.tab),
         \/ calls' = calls \o <<>>
         \/ /\ c \in Call /\ CallOK(c, chrome.made) /\ calls' = calls \o <<c>>
            /\ Promises(c) => Promoting(m) /\ c.tab = m.tab
  PROVE  IInv'
<1>1. /\ calls \in Seq(Call) /\ chrome \in Chrome /\ chrome.made \in Nat /\ chrome' = chrome
      /\ refused' = refused
  BY PagesCounted DEF Taking
<1>2. tabs' = tabs
  BY DEF tabs
<1>3. \A k \in registry' : k \in registry \/ (m.e = "attached" /\ k = m.tab)
  OBVIOUS
<1>4. /\ events' \in Seq(News \cup Reply)
      /\ QueuesOK(chrome.made, registry', calls, events')
      /\ \A k : Known(chrome.made, events, k) => Known(chrome.made, events', k)
      /\ \A k : Promoted(calls, events', k) => Promoted(calls, events, k)
      /\ Promoting(m) => Promoted(calls, events, m.tab) /\ ~Promoted(calls, events', m.tab)
      /\ m.e # "activate" /\ Activating(calls, events) => Activating(calls, events')
      /\ Creating => Coming(calls, events')
  BY <1>3, Taken
<1>5. /\ calls' \in Seq(Call) /\ QueuesOK(chrome.made, registry', calls', events')
      /\ \A k : Promoted(calls', events', k) => Promoted(calls, events, k)
      /\ Activating(calls, events') => Activating(calls', events')
      /\ Coming(calls, events') => Coming(calls', events')
  <2>1. calls' = calls \o <<>> => calls' = calls
    BY <1>1
  <2>2. /\ calls' \in Seq(Call) /\ QueuesOK(chrome.made, registry', calls', events')
        /\ \A k : Promoted(calls', events', k) =>
             Promoted(calls, events', k) \/ (c \in Call /\ Promises(c) /\ c.tab = k)
        /\ Activating(calls, events') => Activating(calls', events')
        /\ Coming(calls, events') => Coming(calls', events')
    BY <1>4, SentNow
  <2>3. ASSUME NEW k, Promoted(calls', events', k) PROVE Promoted(calls, events, k)
    BY <1>4, <2>1, <2>2, <2>3
  <2> QED BY <2>2, <2>3
<1>6. Typed'
  BY <1>1, <1>4, <1>5 DEF IInv, Typed
<1>7. TabsOK'
  BY <1>1, <1>2 DEF IInv, TabsOK
<1>8. TabAlwaysComing'
  <2>1. Creating => Creating'
    BY <1>4, <1>5, ComingIs
  <2> QED BY <1>1, <1>2, <2>1 DEF IInv, TabAlwaysComing
<1>9. ActiveOK'
  BY <1>2, <1>4, <1>5 DEF IInv, ActiveOK
<1>10. KnownOK'
  BY <1>1, <1>4 DEF IInv, ViewerOK, KnownOK
<1>11. MirrorOK'
  BY <1>2 DEF IInv, ViewerOK, MirrorOK
<1>12. ShownOK'
  <2>1. InStep' = InStep
    BY DEF InStep
  <2> QED BY <2>1, <1>5 DEF IInv, ViewerOK, ShownOK
<1>13. ListedOK'
  BY <1>2 DEF IInv, ViewerOK, ListedOK
<1>14. LedOK'
  <2>1. \A k : Selecting(calls, events, k) =>
               Selecting(calls, events', k) \/ (m.e = "activate" /\ m.tab = k)
    BY SelectingTaken
  <2>2. \A k : Selecting(calls, events', k) => Selecting(calls', events', k)
    <3> DEFINE es == events'
               ds == calls'
    <3>1. ds = calls \o <<>> \/ (c \in Call /\ ds = calls \o <<c>>)
      OBVIOUS
    <3> HIDE DEF es, ds
    <3>2. \A k : Selecting(calls, es, k) => Selecting(ds, es, k)
      BY <1>1, <3>1, SelectingSent
    <3> QED BY <3>2 DEF es, ds
  <2>3. strayed => strayed'
    BY DEF Stray
  <2>4. m.e = "activate" /\ m.tab = viewer.tab => strayed' \/ active = viewer.tab
    BY DEF Stray
  <2> QED BY <1>2, <2>1, <2>2, <2>3, <2>4 DEF IInv, ViewerOK, LedOK
<1> QED BY <1>1, <1>5, <1>6, <1>7, <1>8, <1>9, <1>10, <1>11, <1>12, <1>13, <1>14, Handled

LEMMA HandleDetachedStep ==
  ASSUME IInv, NEW m, Taking(m), m.e = "detached", HandleDetached(m.tab)
  PROVE  IInv'
<1> DEFINE t == m.tab
<1>1. t \in Tab
  <2>1. m \in News \cup Reply
    BY Taken
  <2> QED BY <2>1, Kinds
<1>2. CASE t \in tabs
  BY <1>1, <1>2, RemoveTabStep DEF HandleDetached, Send
<1>3. CASE t \notin tabs
  <2>1. calls' = calls \o <<>>
    BY <1>3, PagesCounted DEF HandleDetached
  <2>2. registry' \subseteq registry /\ tabs \subseteq registry'
    BY <1>3, PagesCounted DEF HandleDetached
  <2>3. UNCHANGED <<order, active, hub, owes, join, viewer, late, unshown, bcast, orphaned, strayed>>
    BY <1>3 DEF HandleDetached
  <2> QED BY <2>1, <2>2, <2>3, AloneStep
<1> QED BY <1>2, <1>3

LEMMA HandleInfoStep ==
  ASSUME IInv, NEW m, Taking(m), m.e = "info", HandleInfo(m.tab)
  PROVE  IInv'
<1>1. calls' = calls \o <<>>
  BY PagesCounted DEF HandleInfo
<1>2. UNCHANGED <<order, active, hub, owes, join, viewer, late, unshown, orphaned, strayed, registry>>
  BY DEF HandleInfo
<1>3. tabs \subseteq registry' /\ registry' \subseteq registry /\ bcast' \in {bcast, "armed"}
  BY PagesCounted DEF HandleInfo, Schedule
<1> QED BY <1>1, <1>2, <1>3, AloneStep

LEMMA HandleCreatedStep ==
  ASSUME IInv, NEW m, Taking(m), m.e = "create", HandleCreated(m)
  PROVE  IInv'
<1> DEFINE c == Cmd("activate", m.tab, m.next)
<1>1. UNCHANGED <<order, active, hub, owes, join, viewer, late, unshown, orphaned, strayed, registry, bcast>>
  BY DEF HandleCreated
<1>2. tabs \subseteq registry' /\ registry' \subseteq registry
  BY PagesCounted DEF HandleCreated
<1>3. m \in News \cup Reply /\ EventOK(m, chrome.made) /\ chrome.made \in Nat
  BY Taken, PagesCounted
<1>4. m.tab \in Id /\ m.next \in Further
  BY <1>3, Kinds
<1>5. CASE m.ok
  <2>1. c \in Call /\ c.do = "activate" /\ c.tab = m.tab /\ c.next = m.next
    BY <1>4, CallMade
  <2>2. CallOK(c, chrome.made) /\ Promoting(m)
    BY <1>3, <1>5, <2>1 DEF CallOK, EventOK, Promoting, None
  <2>3. calls' = calls \o <<c>>
    BY <1>5 DEF HandleCreated, Send
  <2> HIDE DEF c
  <2> QED BY <1>1, <1>2, <2>1, <2>2, <2>3, AloneStep
<1>6. CASE ~m.ok
  <2>1. calls' = calls \o <<>>
    BY <1>6, PagesCounted DEF HandleCreated
  <2> QED BY <1>1, <1>2, <2>1, AloneStep
<1> QED BY <1>5, <1>6

LEMMA HandleNotActivatedStep ==
  ASSUME IInv, NEW m, Taking(m), m.e = "activate", HandleNotActivated(m)
  PROVE  IInv'
<1>1. calls' = calls \o <<>>
  BY PagesCounted DEF HandleNotActivated
<1>2. UNCHANGED <<order, active, hub, owes, join, viewer, late, unshown, registry, bcast>>
  BY DEF HandleNotActivated
<1>3. tabs \subseteq registry' /\ registry' \subseteq registry /\ bcast' \in {bcast, "armed"}
  BY PagesCounted DEF HandleNotActivated
<1>4. orphaned' = (orphaned \/ active = None) /\ Stray(m.tab)
  BY DEF HandleNotActivated
<1> QED BY <1>1, <1>2, <1>3, <1>4, AloneStep

LEMMA HandleClosedStep ==
  ASSUME IInv, NEW m, Taking(m), m.e = "close", HandleClosed(m)
  PROVE  IInv'
<1>1. CASE m.ok
  <2>1. m \in News \cup Reply /\ EventOK(m, chrome.made)
    BY Taken
  <2>2. m.tab \in Tab
    BY <2>1, Kinds DEF EventOK, Id
  <2> QED BY <1>1, <2>2, RemoveTabStep DEF HandleClosed, Send
<1>2. CASE ~m.ok
  <2>1. calls' = calls \o <<>>
    BY <1>2, PagesCounted DEF HandleClosed
  <2>2. UNCHANGED <<order, active, hub, owes, join, viewer, late, unshown, orphaned, strayed, registry, bcast>>
    BY <1>2 DEF HandleClosed
  <2>3. tabs \subseteq registry' /\ registry' \subseteq registry
    BY <2>2, PagesCounted
  <2> QED BY <2>1, <2>2, <2>3, AloneStep
<1> QED BY <1>1, <1>2

------------------------------------------------------------------------------
(* What a viewer makes of a message. *)

\* Its tab's snapshot, or any if it shows none, brings a mirror up to the tab's last event.
LEMMA SnapshotTaken ==
  ASSUME NEW v \in Viewing, NEW m, m.tab \in Tab, m.n \in Nat, m.n > 0,
         v.tab = None => v.n = 0, v.tab = m.tab => v.n <= m.n
  PROVE  LET w == OnSnapshot(v, m)
         IN  /\ w \in Viewing
             /\ w.open = v.open /\ w.ids = v.ids /\ w.shows = v.shows /\ w.asks = v.asks
             /\ w.clicks = v.clicks
             /\ v.tab \notin {None, m.tab} => w = v
             /\ v.tab \in {None, m.tab} => w.tab = m.tab /\ w.n = m.n /\ ~w.waiting
<1> DEFINE w == OnSnapshot(v, m)
<1>1. m.tab \in Id /\ v.n \in Nat /\ v.waiting \in BOOLEAN
  BY DEF Id, Viewing
<1>2. CASE Concerns(v, m) /\ (v.waiting \/ m.n > v.n)
  <2>1. w = [v EXCEPT !.tab = m.tab, !.n = m.n, !.waiting = FALSE]
    BY <1>2 DEF OnSnapshot
  <2>2. /\ w \in Viewing
        /\ w.open = v.open /\ w.ids = v.ids /\ w.shows = v.shows /\ w.asks = v.asks
        /\ w.clicks = v.clicks /\ w.tab = m.tab /\ w.n = m.n /\ w.waiting = FALSE
    BY <1>1, <2>1, Zenon DEF Viewing
  <2> QED BY <2>2, <1>2 DEF Concerns
<1>3. CASE ~(Concerns(v, m) /\ (v.waiting \/ m.n > v.n))
  <2>1. w = v
    BY <1>3 DEF OnSnapshot
  <2>2. ASSUME v.tab \in {None, m.tab} PROVE v.tab = m.tab /\ v.n = m.n /\ ~v.waiting
    <3>1. ~v.waiting /\ m.n <= v.n
      BY <1>1, <1>3, <2>2 DEF Concerns
    <3> QED BY <1>1, <2>2, <3>1
  <2> QED BY <2>1, <2>2
<1> QED BY <1>2, <1>3

\* A delta is the next one, or it makes the viewer ask for a snapshot.
LEMMA DeltaTaken ==
  ASSUME NEW v \in Viewing, NEW m, m.tab \in Tab, m.n \in Nat
  PROVE  LET w == OnDelta(v, m)
         IN  /\ w \in Viewing
             /\ w.open = v.open /\ w.ids = v.ids /\ w.shows = v.shows /\ w.clicks = v.clicks
             /\ \/ w = v /\ (v.waiting \/ v.tab \notin {None, m.tab})
                \/ /\ v.tab \in {None, m.tab} /\ w.tab = v.tab /\ w.n = m.n /\ ~w.waiting
                   /\ m.n = v.n + 1 /\ v.n > 0 /\ w.asks = v.asks
                \/ /\ v.tab \in {None, m.tab} /\ w.tab = m.tab /\ w.n = v.n /\ w.waiting
                   /\ w.asks = v.asks \cup {m.tab}
<1> DEFINE w == OnDelta(v, m)
<1>1. CASE ~Concerns(v, m) \/ v.waiting
  BY <1>1 DEF OnDelta, Concerns
<1>2. CASE Concerns(v, m) /\ ~v.waiting /\ v.n > 0 /\ m.n = v.n + 1
  <2>1. w = [v EXCEPT !.n = m.n]
    BY <1>2 DEF OnDelta
  <2>2. /\ w \in Viewing
        /\ w.open = v.open /\ w.ids = v.ids /\ w.shows = v.shows /\ w.asks = v.asks
        /\ w.clicks = v.clicks /\ w.tab = v.tab /\ w.n = m.n /\ w.waiting = v.waiting
    BY <2>1, Zenon DEF Viewing
  <2> QED BY <1>2, <2>2 DEF Concerns
<1>3. CASE Concerns(v, m) /\ ~v.waiting /\ ~(v.n > 0 /\ m.n = v.n + 1)
  <2>1. w = [v EXCEPT !.tab = m.tab, !.waiting = TRUE, !.asks = v.asks \cup {m.tab}]
    BY <1>3 DEF OnDelta, Asking
  <2>2. m.tab \in Id /\ v.asks \cup {m.tab} \in SUBSET Tab
    BY DEF Id, Viewing
  <2>3. /\ w \in Viewing
        /\ w.open = v.open /\ w.ids = v.ids /\ w.shows = v.shows /\ w.clicks = v.clicks
        /\ w.asks = v.asks \cup {m.tab} /\ w.tab = m.tab /\ w.n = v.n /\ w.waiting = TRUE
    BY <2>1, <2>2, Zenon DEF Viewing
  <2> QED BY <1>3, <2>3 DEF Concerns
<1> QED BY <1>1, <1>2, <1>3

\* A mirror that turns to another tab asks for it.
LEMMA SelectedTab ==
  ASSUME NEW v \in Viewing, NEW a \in Tab
  PROVE  LET w == Selected(v, a)
         IN  /\ w \in Viewing
             /\ w.open = v.open /\ w.ids = v.ids /\ w.shows = v.shows /\ w.clicks = v.clicks
             /\ v.tab = a => w = v
             /\ v.tab # a => w.tab = a /\ w.n = 0 /\ w.waiting /\ w.asks = v.asks \cup {a}
<1> DEFINE w == Selected(v, a)
<1>1. CASE v.tab = a
  BY <1>1 DEF Selected
<1>2. CASE v.tab # a
  <2> DEFINE zero == [v EXCEPT !.n = 0]
  <2>1. w = Asking(zero, a)
    BY <1>2 DEF Selected
  <2>2. /\ zero \in Viewing /\ zero.open = v.open /\ zero.ids = v.ids
        /\ zero.shows = v.shows /\ zero.n = 0 /\ zero.asks = v.asks /\ zero.clicks = v.clicks
    <3>1. 0 \in Nat
      OBVIOUS
    <3> QED BY <3>1, Zenon DEF Viewing
  <2> HIDE DEF zero
  <2>3. a \in Id /\ zero.asks \cup {a} \in SUBSET Tab
    BY <2>2 DEF Id, Viewing
  <2>4. w = [zero EXCEPT !.tab = a, !.waiting = TRUE, !.asks = zero.asks \cup {a}]
    BY <2>1 DEF Asking
  <2>5. /\ w \in Viewing
        /\ w.open = zero.open /\ w.ids = zero.ids /\ w.shows = zero.shows
        /\ w.clicks = zero.clicks
        /\ w.asks = zero.asks \cup {a} /\ w.tab = a /\ w.n = zero.n /\ w.waiting = TRUE
    BY <2>2, <2>3, <2>4, Zenon DEF Viewing
  <2> QED BY <1>2, <2>2, <2>5
<1> QED BY <1>1, <1>2

\* A list leads a mirror that shows another tab to the active one, and asks for it.
LEMMA ListTaken ==
  ASSUME NEW v \in Viewing, NEW ids \in Seq(Tab), NEW a \in Id
  PROVE  LET w == OnTabs(v, TabsMsg(ids, a))
         IN  /\ w \in Viewing
             /\ w.open = v.open /\ w.ids = ids /\ w.shows = a /\ w.clicks = v.clicks
             /\ a = None \/ v.tab \in {None, a} =>
                  w.tab = v.tab /\ w.n = v.n /\ w.waiting = v.waiting /\ w.asks = v.asks
             /\ ~(a = None \/ v.tab \in {None, a}) =>
                  w.tab = a /\ w.n = 0 /\ w.waiting /\ w.asks = v.asks \cup {a}
<1> DEFINE m == TabsMsg(ids, a)
           w == OnTabs(v, m)
           told == [v EXCEPT !.ids = ids, !.shows = a]
<1>1. m.ids = ids /\ m.active = a
  BY DEF TabsMsg
<1>2. /\ told \in Viewing /\ told.open = v.open /\ told.ids = ids /\ told.shows = a
      /\ told.tab = v.tab /\ told.n = v.n /\ told.waiting = v.waiting /\ told.asks = v.asks
      /\ told.clicks = v.clicks
  BY Zenon DEF Viewing
<1>3. w = IF a = None \/ v.tab = None THEN told ELSE Selected(told, a)
  BY <1>1 DEF OnTabs
<1> HIDE DEF told, w
<1>4. CASE a = None \/ v.tab = None
  BY <1>2, <1>3, <1>4 DEF w
<1>5. CASE ~(a = None \/ v.tab = None)
  <2> DEFINE s == Selected(told, a)
  <2>1. a \in Tab /\ told \in Viewing
    BY <1>2, <1>5 DEF Id
  <2>2. /\ s \in Viewing
        /\ s.open = told.open /\ s.ids = told.ids /\ s.shows = told.shows
        /\ s.clicks = told.clicks
        /\ told.tab = a => s = told
        /\ told.tab # a => s.tab = a /\ s.n = 0 /\ s.waiting /\ s.asks = told.asks \cup {a}
    BY <2>1, SelectedTab
  <2>3. w = s
    BY <1>3, <1>5
  <2> HIDE DEF s
  <2> QED BY <1>2, <1>5, <2>2, <2>3 DEF w
<1> QED BY <1>4, <1>5

------------------------------------------------------------------------------
(* A tab becomes the active one. *)

\* The tabs are known, whatever event is taken.
LEMMA TabsKnown ==
  ASSUME NEW made \in Nat, NEW known \in SUBSET (1..made), NEW cs, NEW es,
         QueuesOK(made, known, cs, es)
  PROVE  \A t \in known : Known(made, es, t)
BY DEF QueuesOK, Known

LEMMA OrderPlaces ==
  ASSUME order \in Seq(Tab)
  PROVE  tabs \subseteq Tab
BY DEF tabs, ToSet

\* Whoever is among the tabs is known.
LEMMA OrderKnown ==
  ASSUME IInv
  PROVE  \A k \in tabs : Known(chrome.made, events, k)
<1> DEFINE n == chrome.made
<1>1. n \in Nat /\ registry \in SUBSET (1..n) /\ QueuesOK(n, registry, calls, events)
      /\ tabs \subseteq registry
  BY PagesCounted
<1> HIDE DEF n
<1>2. \A k \in registry : Known(n, events, k)
  BY <1>1, TabsKnown
<1> QED BY <1>1, <1>2 DEF n

LEMMA HandleMadeActiveStep ==
  ASSUME IInv, NEW m, Taking(m), m.e = "activate", m.next.what # "publish",
         HandleMadeActive(m)
  PROVE  IInv'
<1> DEFINE t == m.tab
           c == CloseTab(m.next.arg)
<1>1. /\ calls \in Seq(Call) /\ chrome \in Chrome /\ chrome.made \in Nat /\ chrome' = chrome
      /\ registry \in SUBSET (1..chrome.made) /\ tabs \subseteq registry
      /\ \A k \in 1..chrome.made : k \in Tab
  BY PagesCounted DEF Taking
<1>2. /\ active' = t /\ orphaned' = (t \notin tabs)
      /\ unshown' = (active # t /\ hub[t] > 0 /\ Concerns(viewer, m))
      /\ bcast' = "armed" /\ join' \in {BeginFirstList, Notice(join)}
      /\ calls' = calls \o (IF m.next.what = "close" THEN <<c>> ELSE <<>>)
      /\ UNCHANGED <<order, hub, owes, registry, viewer, late>>
  BY DEF HandleMadeActive, Schedule, Send
<1>3. \A k \in registry' : k \in registry \/ (m.e = "attached" /\ k = m.tab)
  BY <1>2
<1>4. /\ events' \in Seq(News \cup Reply) /\ EventOK(m, chrome.made) /\ m \in News \cup Reply
      /\ QueuesOK(chrome.made, registry', calls, events')
      /\ \A k : Known(chrome.made, events, k) => Known(chrome.made, events', k)
      /\ t # None => Known(chrome.made, events', t)
      /\ Promoting(m) => Promoted(calls, events, t) /\ ~Promoted(calls, events', t)
  BY <1>3, Taken
<1>5. /\ t \in Tab /\ t # None /\ t \in Id /\ Promoting(m)
      /\ m.next.what = "close" => m.next.arg \in 1..chrome.made
  BY <1>1, <1>4, Kinds DEF EventOK, Promoting, Id
<1>6. \/ calls' = calls \o <<>>
      \/ c \in Call /\ CallOK(c, chrome.made) /\ calls' = calls \o <<c>> /\ ~Promises(c)
  <2>1. CASE m.next.what = "close"
    BY <1>1, <1>2, <1>5, <2>1, CloseMade
  <2>2. CASE m.next.what # "close"
    BY <1>2, <2>2
  <2> QED BY <2>1, <2>2
<1> HIDE DEF c, t
<1>7. /\ calls' \in Seq(Call) /\ QueuesOK(chrome.made, registry', calls', events')
      /\ \A k : Promoted(calls', events', k) => Promoted(calls, events', k)
  <2>1. calls' = calls \o <<>> => calls' = calls
    BY <1>1
  <2> QED BY <1>4, <1>6, <2>1, SentNow
<1>8. tabs' = tabs /\ order \in Seq(Tab) /\ tabs \subseteq Tab /\ join \in Join
  BY <1>2, OrderPlaces DEF IInv, Typed, tabs
<1>9. join' \in Join /\ join'.ids \in {order, join.ids}
  <2>1. {active'} \in SUBSET Id
    BY <1>2, <1>5
  <2>2. BeginFirstList \in Join /\ BeginFirstList.ids = order
    BY <1>8, <2>1, Zenon DEF BeginFirstList, Join
  <2>3. Notice(join) \in Join /\ Notice(join).ids = join.ids
    BY <1>2, <1>5, <1>8, Noticed
  <2> QED BY <1>2, <2>2, <2>3
<1>10. Typed'
  BY <1>1, <1>2, <1>4, <1>5, <1>7, <1>9 DEF IInv, Typed
<1>11. TabsOK'
  BY <1>1, <1>2, <1>8 DEF IInv, TabsOK
<1>12. TabAlwaysComing'
  BY <1>2 DEF TabAlwaysComing
<1>13. ActiveOK'
  BY <1>2, <1>5, <1>8 DEF ActiveOK
<1>14. KnownOK'
  <2>1. \A k \in tabs : Known(chrome.made, events', k)
    BY <1>4, OrderKnown
  <2>2. \A k \in ToSet(join'.ids) : Known(chrome.made, events', k)
    BY <1>4, <1>9, <2>1 DEF IInv, ViewerOK, KnownOK, tabs
  <2> QED BY <1>1, <1>2, <1>4, <1>5, <2>2 DEF IInv, ViewerOK, KnownOK
<1>15. MirrorOK'
  BY <1>2, <1>8 DEF IInv, ViewerOK, MirrorOK
<1>16. ShownOK'
  <2>1. CASE active = t
    <3>1. InStep => InStep'
      BY <1>2, <2>1 DEF InStep
    <3> QED BY <1>2, <1>4, <1>5, <2>1, <3>1 DEF IInv, ViewerOK, ShownOK
  <2>2. CASE active # t
    <3>1. CASE Concerns(viewer, m)
      BY <1>2, <1>4, <1>5, <1>7, <2>2, <3>1 DEF ShownOK
    <3>2. CASE ~Concerns(viewer, m)
      BY <1>2, <3>2 DEF ShownOK, Concerns, t
    <3> QED BY <3>1, <3>2
  <2> QED BY <2>1, <2>2
<1>17. ListedOK' /\ LedOK'
  BY <1>2 DEF ListedOK, LedOK
<1> QED BY <1>1, <1>7, <1>10, <1>11, <1>12, <1>13, <1>14, <1>15, <1>16, <1>17, Handled

LEMMA HandleActivatedStep ==
  ASSUME IInv, NEW m, Taking(m), m.e = "activate", m.tab \in tabs, HandleActivated(m)
  PROVE  IInv'
<1> DEFINE t == m.tab
<1>1. /\ calls \in Seq(Call) /\ chrome \in Chrome /\ chrome.made \in Nat /\ chrome' = chrome
      /\ registry \in SUBSET (1..chrome.made) /\ tabs \subseteq registry
      /\ \A k \in 1..chrome.made : k \in Tab
  BY PagesCounted DEF Taking
<1>2. /\ active' = t /\ orphaned' = FALSE
      /\ unshown' = (unshown /\ active = t)
      /\ bcast' = "armed" /\ join' = Notice(join)
      /\ UNCHANGED <<order, hub, owes, registry, calls, late>>
  BY DEF HandleActivated, Schedule
<1>3. \A k \in registry' : k \in registry \/ (m.e = "attached" /\ k = m.tab)
  BY <1>2
<1>4. /\ events' \in Seq(News \cup Reply)
      /\ QueuesOK(chrome.made, registry', calls, events')
      /\ \A k : Known(chrome.made, events, k) => Known(chrome.made, events', k)
      /\ t # None => Known(chrome.made, events', t)
      /\ \A k : Promoted(calls, events', k) => Promoted(calls, events, k)
  BY <1>3, Taken
<1>5. t \in Tab /\ t # None /\ t \in Id /\ t \in tabs
  BY <1>1, Numbers DEF Id
<1>6. /\ tabs' = tabs /\ order \in Seq(Tab) /\ join \in Join /\ viewer \in Viewing
      /\ hub \in [Tab -> Nat] /\ hub[t] \in Nat
  BY <1>2, <1>5 DEF IInv, Typed, tabs
<1>7. join' \in Join /\ join'.ids = join.ids
  BY <1>2, <1>5, <1>6, Noticed
<1>8. CASE active = t \/ hub[t] = 0 \/ ~viewer.open
  <2>1. viewer' = viewer
    BY <1>8 DEF HandleActivated, CatchUp, Publish
  <2>2. ShownOK'
    <3> HIDE DEF t
    <3>1. CASE active = t
      <4>1. InStep => InStep'
        BY <1>2, <2>1, <3>1 DEF InStep
      <4> QED BY <1>2, <1>4, <2>1, <3>1, <4>1 DEF IInv, ViewerOK, ShownOK
    <3>2. CASE hub[t] = 0 \/ ~viewer.open
      BY <1>2, <2>1, <3>2 DEF ShownOK
    <3> QED BY <1>8, <3>1, <3>2
  <2>3. Typed'
    BY <1>1, <1>2, <1>4, <1>5, <1>7, <2>1 DEF IInv, Typed
  <2>4. KnownOK' /\ MirrorOK'
    BY <1>1, <1>2, <1>4, <1>5, <1>6, <1>7, <2>1 DEF IInv, ViewerOK, KnownOK, MirrorOK
  <2> QED BY <2>2, <2>3, <2>4, <1>1, <1>2, <1>4, <1>5, <1>6, Handled
          DEF IInv, TabsOK, TabAlwaysComing, ActiveOK, ListedOK, LedOK
<1>9. CASE active # t /\ hub[t] > 0 /\ viewer.open
  <2> DEFINE w == OnSnapshot(viewer, Snapshot(t))
  <2>1. viewer' = w
    <3>1. Snapshot(t).t = "snapshot"
      BY DEF Snapshot
    <3>2. hub[t] # 0
      BY <1>6, <1>9
    <3> QED BY <1>9, <3>1, <3>2 DEF HandleActivated, CatchUp, Publish, After
  <2>2. /\ (viewer.tab = None => viewer.n = 0) /\ (viewer.tab = t => viewer.n <= hub[t])
        /\ Snapshot(t).tab = t /\ Snapshot(t).n = hub[t]
    BY <1>5 DEF IInv, ViewerOK, MirrorOK, Snapshot
  <2>3. /\ w \in Viewing
        /\ w.open = viewer.open /\ w.ids = viewer.ids
        /\ viewer.tab \notin {None, t} => w = viewer
        /\ viewer.tab \in {None, t} => w.tab = t /\ w.n = hub[t] /\ ~w.waiting
    <3> HIDE DEF t
    <3> DEFINE s == Snapshot(t)
    <3>1. /\ viewer \in Viewing /\ s.tab = t /\ s.n = hub[t] /\ t \in Tab
          /\ hub[t] \in Nat /\ hub[t] > 0
      BY <1>5, <1>6, <1>9, <2>2
    <3>2. (viewer.tab = None => viewer.n = 0) /\ (viewer.tab = t => viewer.n <= hub[t])
      BY <2>2
    <3> HIDE DEF s
    <3> QED BY <3>1, <3>2, SnapshotTaken DEF s
  <2> HIDE DEF w, t
  <2>4. Typed'
    BY <1>1, <1>2, <1>4, <1>5, <1>7, <2>1, <2>3 DEF IInv, Typed
  <2>5. KnownOK'
    BY <1>1, <1>2, <1>4, <1>5, <1>6, <1>7, <2>1, <2>3 DEF IInv, ViewerOK, KnownOK
  <2>6. MirrorOK'
    BY <1>2, <1>5, <1>6, <2>1, <2>3 DEF IInv, ViewerOK, MirrorOK
  <2>7. ShownOK'
    <3>1. viewer.tab \in {None, t} => InStep'
      BY <1>2, <2>1, <2>3 DEF InStep
    <3> QED BY <1>2, <2>1, <2>3, <3>1 DEF ShownOK
  <2> QED BY <2>4, <2>5, <2>6, <2>7, <1>1, <1>2, <1>4, <1>5, <1>6, Handled
          DEF IInv, TabsOK, TabAlwaysComing, ActiveOK, ListedOK, LedOK
<1> QED BY <1>6, <1>8, <1>9

\* The gateway handles whatever comes next.
LEMMA HandleStep == ASSUME IInv, Handle PROVE IInv'
<1> DEFINE m == Head(events)
<1>1. Taking(m)
  BY DEF Handle, Taking
<1> HIDE DEF m
<1>2. CASE m.e = "attached" /\ HandleAttached(m.tab)
  BY <1>1, <1>2, HandleAttachedStep
<1>3. CASE m.e = "detached" /\ HandleDetached(m.tab)
  BY <1>1, <1>3, HandleDetachedStep
<1>4. CASE m.e = "info" /\ HandleInfo(m.tab)
  BY <1>1, <1>4, HandleInfoStep
<1>5. CASE m.e = "create" /\ HandleCreated(m)
  BY <1>1, <1>5, HandleCreatedStep
<1>6. CASE m.e = "activate" /\ m.tab \in tabs /\ HandleActivated(m)
  BY <1>1, <1>6, HandleActivatedStep
<1>7. CASE m.e = "activate" /\ HandleNotActivated(m)
  BY <1>1, <1>7, HandleNotActivatedStep
<1>8. CASE m.e = "activate" /\ m.next.what # "publish" /\ HandleMadeActive(m)
  BY <1>1, <1>8, HandleMadeActiveStep
<1>9. CASE m.e = "close" /\ HandleClosed(m)
  BY <1>1, <1>9, HandleClosedStep
<1> QED BY <1>2, <1>3, <1>4, <1>5, <1>6, <1>7, <1>8, <1>9 DEF Handle, m

------------------------------------------------------------------------------
(* The viewer is sent something, or sends something. *)

LEMMA ViewingStep ==
  ASSUME IInv, UNCHANGED <<chrome, calls, events, order, active, registry, orphaned, refused>>,
         viewer' \in Viewing, join' \in Join, hub' \in [Tab -> Nat], owes' \subseteq tabs,
         \A t \in Tab : t \notin tabs => hub'[t] = 0,
         bcast' = bcast \/ (bcast = "listing" /\ bcast' = "idle"),
         KnownOK', MirrorOK', ShownOK', ListedOK', LedOK'
  PROVE  IInv'
<1>1. tabs' = tabs /\ tabs \subseteq Tab
  BY OrderPlaces DEF IInv, Typed, tabs
<1>2. Typed'
  BY <1>1 DEF IInv, Typed
<1>3. TabsOK'
  BY <1>1 DEF IInv, TabsOK
<1>4. TabAlwaysComing'
  BY <1>1 DEF IInv, TabAlwaysComing, Creating
<1>5. ActiveOK'
  BY <1>1 DEF IInv, ActiveOK
<1> QED BY <1>2, <1>3, <1>4, <1>5, Handled DEF IInv

\* No first list is in the making.
LEMMA Emptied == NoJoin \in Join /\ ToSet(NoJoin.ids) = {} /\ NoJoin.phase = "none"
<1>1. <<>> \in Seq(Tab) /\ {} \in SUBSET Id
  OBVIOUS
<1>2. NoJoin \in Join /\ NoJoin.ids = <<>> /\ NoJoin.phase = "none"
  BY <1>1, Zenon DEF NoJoin, Join
<1> QED BY <1>2 DEF ToSet

\* A list that is complete: the mirror is where the list says.
LEMMA PublishListStep == ASSUME IInv, PublishList PROVE IInv'
<1> DEFINE m == TabsMsg(order, active)
           w == OnTabs(viewer, m)
<1>1. /\ bcast = "listing" /\ bcast' = "idle" /\ late' = FALSE
      /\ viewer' = IF viewer.open THEN w ELSE viewer
      /\ UNCHANGED <<chrome, calls, events, order, active, hub, owes, registry, join,
                     refused, orphaned, unshown>>
  <2>1. m.t = "tabs"
    BY DEF TabsMsg
  <2> QED BY <2>1 DEF PublishList, Publish, After
<1>2. /\ viewer \in Viewing /\ order \in Seq(Tab) /\ active \in Id /\ join \in Join
      /\ hub \in [Tab -> Nat] /\ owes \subseteq tabs
      /\ \A t \in Tab : t \notin tabs => hub[t] = 0
  BY DEF IInv, Typed, TabsOK
<1>3. /\ w \in Viewing
      /\ w.open = viewer.open /\ w.ids = order /\ w.shows = active
      /\ active = None \/ viewer.tab \in {None, active} =>
           w.tab = viewer.tab /\ w.n = viewer.n /\ w.waiting = viewer.waiting /\ w.asks = viewer.asks
      /\ ~(active = None \/ viewer.tab \in {None, active}) =>
           w.tab = active /\ w.n = 0 /\ w.waiting /\ w.asks = viewer.asks \cup {active}
  BY <1>2, ListTaken
<1> HIDE DEF w, m
<1>4. tabs' = tabs
  BY <1>1 DEF tabs
<1>5. KnownOK'
  BY <1>1, <1>3, OrderKnown DEF IInv, ViewerOK, KnownOK, tabs
<1>6. MirrorOK'
  <2>1. viewer'.tab \in tabs => viewer'.n <= hub[viewer'.tab]
    <3>1. active \in tabs => active \in Tab /\ hub[active] \in Nat
      BY <1>2, OrderPlaces
    <3> QED BY <1>1, <1>3, <3>1 DEF IInv, ViewerOK, MirrorOK
  <2>2. viewer'.tab = None => viewer'.n = 0 /\ ~viewer'.waiting
    BY <1>1, <1>3 DEF IInv, ViewerOK, MirrorOK
  <2> QED BY <1>1, <1>4, <2>1, <2>2 DEF MirrorOK
<1>7. ShownOK'
  <2>1. CASE ~viewer.open \/ active = None \/ viewer.tab \in {None, active}
    <3>1. InStep /\ viewer.open /\ active # None => InStep'
      BY <1>1, <1>3, <2>1 DEF InStep
    <3> QED BY <1>1, <1>3, <2>1, <3>1 DEF IInv, ViewerOK, ShownOK
  <2>2. CASE viewer.open /\ ~(active = None \/ viewer.tab \in {None, active})
    <3>1. InStep'
      BY <1>1, <1>3, <2>2 DEF InStep
    <3> QED BY <3>1 DEF ShownOK
  <2> QED BY <2>1, <2>2
<1>8. ListedOK'
  BY <1>1, <1>3 DEF ListedOK
<1>9. LedOK'
  BY <1>1, <1>3 DEF LedOK
<1> QED BY <1>1, <1>2, <1>3, <1>5, <1>6, <1>7, <1>8, <1>9, ViewingStep

\* A first list may be outdated: `late' says so if no other will follow.
LEMMA SendFirstListStep == ASSUME IInv, SendFirstList PROVE IInv'
<1>1. PICK a \in (join.seen \cap ToSet(join.ids)) \cup
                 (IF Cardinality(join.seen) > 1 THEN {None} ELSE join.seen \cap {None}) :
        /\ Publish(TabsMsg(join.ids, a))
        /\ late' = (bcast = "idle" /\ (join.ids # order \/ a # active))
  BY DEF SendFirstList
<1> DEFINE m == TabsMsg(join.ids, a)
           w == OnTabs(viewer, m)
<1>2. /\ join' = NoJoin
      /\ viewer' = IF viewer.open THEN w ELSE viewer
      /\ UNCHANGED <<chrome, calls, events, order, active, hub, owes, bcast, registry,
                     refused, orphaned, unshown>>
  <2>1. m.t = "tabs"
    BY DEF TabsMsg
  <2> QED BY <1>1, <2>1 DEF SendFirstList, Publish, After
<1>3. /\ viewer \in Viewing /\ order \in Seq(Tab) /\ active \in Id /\ join \in Join
      /\ hub \in [Tab -> Nat] /\ owes \subseteq tabs
      /\ \A t \in Tab : t \notin tabs => hub[t] = 0
  BY DEF IInv, Typed, TabsOK
<1>4. a \in Id /\ join.ids \in Seq(Tab) /\ (a # None => a \in ToSet(join.ids))
  BY <1>1, <1>3 DEF Join, Id
<1>5. /\ w \in Viewing
      /\ w.open = viewer.open /\ w.ids = join.ids /\ w.shows = a
      /\ a = None \/ viewer.tab \in {None, a} =>
           w.tab = viewer.tab /\ w.n = viewer.n /\ w.waiting = viewer.waiting /\ w.asks = viewer.asks
      /\ ~(a = None \/ viewer.tab \in {None, a}) =>
           w.tab = a /\ w.n = 0 /\ w.waiting /\ w.asks = viewer.asks \cup {a}
  BY <1>3, <1>4, ListTaken
<1> HIDE DEF w, m
<1>6. tabs' = tabs
  BY <1>2 DEF tabs
<1>7. join' \in Join /\ ToSet(join'.ids) = {} /\ join'.phase = "none"
  BY <1>2, Emptied
<1>8. KnownOK'
  BY <1>2, <1>4, <1>5, <1>7 DEF IInv, ViewerOK, KnownOK
<1>9. MirrorOK'
  <2>1. viewer'.tab \in tabs => viewer'.n <= hub[viewer'.tab]
    <3>1. a \in tabs => a \in Tab /\ hub[a] \in Nat
      BY <1>3, OrderPlaces
    <3> QED BY <1>2, <1>5, <3>1 DEF IInv, ViewerOK, MirrorOK
  <2>2. viewer'.tab = None => viewer'.n = 0 /\ ~viewer'.waiting
    BY <1>2, <1>5 DEF IInv, ViewerOK, MirrorOK
  <2> QED BY <1>2, <1>6, <2>1, <2>2 DEF MirrorOK
<1>10. ShownOK'
  <2>1. CASE ~viewer.open \/ a = None \/ viewer.tab \in {None, a}
    <3>1. InStep /\ viewer.open => InStep'
      BY <1>2, <1>5, <2>1 DEF InStep
    <3> QED BY <1>2, <1>5, <2>1, <3>1 DEF IInv, ViewerOK, ShownOK
  <2>2. CASE viewer.open /\ ~(a = None \/ viewer.tab \in {None, a})
    <3>1. active = a => InStep'
      BY <1>2, <1>5, <2>2 DEF InStep
    <3>2. active # a => viewer'.tab \notin {None, active'}
      BY <1>2, <1>5, <2>2
    <3> QED BY <3>1, <3>2 DEF ShownOK
  <2> QED BY <2>1, <2>2
<1>11. ListedOK' /\ LedOK'
  <2> SUFFICES ASSUME viewer'.open, bcast' = "idle", tabs' # {}, ~late'
               PROVE  /\ viewer'.ids = order /\ viewer'.shows = active
                      /\ active # None => viewer'.tab \in {None, active}
    BY <1>2 DEF ListedOK, LedOK
  <2>1. viewer.open /\ join.ids = order /\ a = active
    BY <1>1, <1>2
  <2> QED BY <1>2, <1>5, <2>1
<1> QED BY <1>2, <1>3, <1>5, <1>7, <1>8, <1>9, <1>10, <1>11, ViewingStep

\* The page changes: its mirror follows, or asks.
LEMMA IngestStep == ASSUME IInv, NEW t \in Tab, Ingest(t) PROVE IInv'
<1> DEFINE m == [t |-> IF hub[t] = 0 THEN "snapshot" ELSE "delta", tab |-> t, n |-> hub[t] + 1]
<1>1. /\ t \in tabs /\ hub' = [hub EXCEPT ![t] = @ + 1]
      /\ viewer' = IF active = t /\ viewer.open THEN After(viewer, m) ELSE viewer
      /\ UNCHANGED <<chrome, calls, events, order, active, owes, bcast, registry, join, history>>
  BY DEF Ingest, Output, Publish
<1>2. /\ viewer \in Viewing /\ join \in Join /\ hub \in [Tab -> Nat] /\ owes \subseteq tabs
      /\ \A k \in Tab : k \notin tabs => hub[k] = 0
  BY DEF IInv, Typed, TabsOK
<1>3. /\ hub' \in [Tab -> Nat] /\ hub'[t] = hub[t] + 1 /\ hub[t] \in Nat
      /\ \A k \in Tab : k # t => hub'[k] = hub[k]
      /\ \A k \in Tab : k \notin tabs => hub'[k] = 0
  BY <1>1, <1>2
<1>4. tabs' = tabs /\ tabs \subseteq Tab /\ t # None /\ None \notin tabs
  BY <1>1, OrderPlaces, Numbers DEF IInv, Typed, tabs
<1>5. m.tab = t /\ m.n = hub[t] + 1 /\ m.n \in Nat
      /\ m.t = IF hub[t] = 0 THEN "snapshot" ELSE "delta"
  BY <1>3
<1> HIDE DEF m
<1>6. /\ viewer.tab = None => viewer.n = 0 /\ ~viewer.waiting
      /\ viewer.tab \in tabs => viewer.n <= hub[viewer.tab]
  BY DEF IInv, ViewerOK, MirrorOK
<1>7. viewer.n \in Nat /\ viewer.waiting \in BOOLEAN
  BY <1>2 DEF Viewing
<1>8. viewer.tab # None => viewer.tab \in Tab
  BY <1>2 DEF Viewing, Id
<1>9. CASE ~(active = t /\ viewer.open)
  <2>1. viewer' = viewer
    BY <1>1, <1>9
  <2>2. KnownOK'
    BY <1>1, <2>1 DEF IInv, ViewerOK, KnownOK
  <2>3. MirrorOK'
    <3>1. viewer.tab \in tabs => viewer.n <= hub'[viewer.tab]
      BY <1>3, <1>4, <1>6, <1>7
    <3> QED BY <1>4, <1>6, <2>1, <3>1 DEF MirrorOK
  <2>4. ShownOK'
    <3> SUFFICES ASSUME viewer.open, active # None, hub'[active] > 0
                 PROVE  InStep' \/ viewer.tab \notin {None, active}
                        \/ (unshown /\ ~Promoted(calls, events, active))
      BY <1>1, <2>1 DEF ShownOK, history
    <3>1. active \in Tab /\ hub'[active] = hub[active]
      BY <1>3, <1>9 DEF IInv, Typed, Id
    <3>2. InStep => InStep'
      BY <1>1, <2>1, <3>1 DEF InStep
    <3> QED BY <3>1, <3>2 DEF IInv, ViewerOK, ShownOK
  <2>5. ListedOK' /\ LedOK'
    BY <1>1, <1>4, <2>1 DEF IInv, ViewerOK, ListedOK, LedOK, history
  <2> QED BY <1>1, <1>2, <1>3, <2>1, <2>2, <2>3, <2>4, <2>5, ViewingStep DEF history
<1>10. CASE active = t /\ viewer.open /\ hub[t] = 0
  <2> DEFINE w == OnSnapshot(viewer, m)
  <2>1. viewer' = w
    BY <1>1, <1>5, <1>10 DEF After
  <2>2. /\ m.n > 0 /\ (viewer.tab = None => viewer.n = 0)
        /\ (viewer.tab = m.tab => viewer.n <= m.n)
    BY <1>1, <1>3, <1>5, <1>6, <1>7
  <2>3. /\ w \in Viewing
        /\ w.open = viewer.open /\ w.ids = viewer.ids /\ w.shows = viewer.shows
        /\ w.clicks = viewer.clicks
        /\ viewer.tab \notin {None, m.tab} => w = viewer
        /\ viewer.tab \in {None, m.tab} => w.tab = m.tab /\ w.n = m.n /\ ~w.waiting
    BY <1>2, <1>5, <2>2, SnapshotTaken
  <2> HIDE DEF w
  <2>4. /\ viewer' \in Viewing
        /\ viewer'.open = viewer.open /\ viewer'.ids = viewer.ids /\ viewer'.shows = viewer.shows
        /\ viewer'.clicks = viewer.clicks
        /\ viewer.tab \notin {None, t} => viewer' = viewer
        /\ viewer.tab \in {None, t} => viewer'.tab = t /\ viewer'.n = hub'[t] /\ ~viewer'.waiting
    BY <1>3, <1>5, <2>1, <2>3
  <2>5. KnownOK'
    BY <1>1, <1>10, <2>4 DEF IInv, ViewerOK, KnownOK
  <2>6. MirrorOK'
    <3>1. CASE viewer.tab \notin {None, t}
      BY <1>3, <1>4, <1>6, <1>8, <2>4, <3>1 DEF MirrorOK
    <3>2. CASE viewer.tab \in {None, t}
      BY <1>3, <1>4, <2>4, <3>2 DEF MirrorOK
    <3> QED BY <3>1, <3>2
  <2>7. ShownOK'
    BY <1>1, <1>10, <2>4 DEF ShownOK, InStep
  <2>8. ListedOK' /\ LedOK'
    BY <1>1, <1>4, <1>10, <2>4 DEF IInv, ViewerOK, ListedOK, LedOK, history
  <2> QED BY <1>1, <1>2, <1>3, <2>4, <2>5, <2>6, <2>7, <2>8, ViewingStep DEF history
<1>11. CASE active = t /\ viewer.open /\ hub[t] > 0
  <2> DEFINE w == OnDelta(viewer, m)
  <2>1. viewer' = w
    BY <1>1, <1>3, <1>5, <1>11 DEF After
  <2>2. /\ w \in Viewing
        /\ w.open = viewer.open /\ w.ids = viewer.ids /\ w.shows = viewer.shows
        /\ w.clicks = viewer.clicks
        /\ \/ w = viewer /\ (viewer.waiting \/ viewer.tab \notin {None, m.tab})
           \/ /\ viewer.tab \in {None, m.tab} /\ w.tab = viewer.tab /\ w.n = m.n /\ ~w.waiting
              /\ m.n = viewer.n + 1 /\ viewer.n > 0 /\ w.asks = viewer.asks
           \/ /\ viewer.tab \in {None, m.tab} /\ w.tab = m.tab /\ w.n = viewer.n /\ w.waiting
              /\ w.asks = viewer.asks \cup {m.tab}
    BY <1>2, <1>5, DeltaTaken
  <2> HIDE DEF w
  <2>3. /\ viewer' \in Viewing
        /\ viewer'.open = viewer.open /\ viewer'.ids = viewer.ids /\ viewer'.shows = viewer.shows
        /\ viewer'.clicks = viewer.clicks
        /\ \/ viewer' = viewer /\ (viewer.waiting \/ viewer.tab \notin {None, t})
           \/ viewer.tab = t /\ viewer'.tab = t /\ viewer'.n = hub'[t] /\ ~viewer'.waiting
           \/ /\ viewer.tab \in {None, t} /\ viewer'.tab = t /\ viewer'.n = viewer.n
              /\ viewer'.waiting /\ t \in viewer'.asks
    BY <1>3, <1>5, <1>6, <1>7, <2>1, <2>2
  <2>4. KnownOK'
    BY <1>1, <1>11, <2>3 DEF IInv, ViewerOK, KnownOK
  <2>5. MirrorOK'
    <3>1. CASE viewer' = viewer
      BY <1>3, <1>4, <1>6, <1>7, <1>8, <3>1 DEF MirrorOK
    <3>2. CASE viewer.tab = t /\ viewer'.tab = t /\ viewer'.n = hub'[t]
      BY <1>3, <1>4, <3>2 DEF MirrorOK
    <3>3. CASE viewer.tab \in {None, t} /\ viewer'.tab = t /\ viewer'.n = viewer.n
      BY <1>1, <1>3, <1>4, <1>6, <1>7, <3>3 DEF MirrorOK
    <3> QED BY <2>3, <3>1, <3>2, <3>3
  <2>6. ShownOK'
    <3>1. CASE viewer' = viewer /\ viewer.tab \notin {None, t}
      BY <1>1, <1>11, <3>1 DEF ShownOK
    <3>2. CASE viewer' = viewer /\ viewer.tab \in {None, t}
      <4>1. InStep => InStep'
        BY <1>1, <1>11, <2>3, <3>2 DEF InStep
      <4>2. InStep \/ (unshown /\ ~Promoted(calls, events, active))
        BY <1>4, <1>11, <3>2 DEF IInv, ViewerOK, ShownOK
      <4> QED BY <1>1, <4>1, <4>2 DEF ShownOK, history
    <3>3. CASE viewer' # viewer
      <4>1. InStep'
        BY <1>1, <1>11, <2>3, <3>3 DEF InStep
      <4> QED BY <4>1 DEF ShownOK
    <3> QED BY <3>1, <3>2, <3>3, <2>3
  <2>7. ListedOK' /\ LedOK'
    BY <1>1, <1>4, <1>11, <2>3 DEF IInv, ViewerOK, ListedOK, LedOK, history
  <2> QED BY <1>1, <1>2, <1>3, <2>3, <2>4, <2>5, <2>6, <2>7, ViewingStep DEF history
<1> QED BY <1>3, <1>9, <1>10, <1>11

\* The answer to somebody who asked.
LEMMA AnswerSnapshotStep == ASSUME IInv, NEW t \in Tab, AnswerSnapshot(t) PROVE IInv'
<1> DEFINE w == OnSnapshot(viewer, Snapshot(t))
<1>1. /\ t \in owes /\ hub[t] > 0 /\ owes' = owes \ {t}
      /\ viewer' = IF active = t /\ viewer.open THEN w ELSE viewer
      /\ UNCHANGED <<chrome, calls, events, order, active, hub, bcast, registry, join, history>>
  <2>1. Snapshot(t).t = "snapshot"
    BY DEF Snapshot
  <2> QED BY <2>1 DEF AnswerSnapshot, Output, Publish, After
<1>2. /\ viewer \in Viewing /\ join \in Join /\ hub \in [Tab -> Nat] /\ owes \subseteq tabs
      /\ \A k \in Tab : k \notin tabs => hub[k] = 0
  BY DEF IInv, Typed, TabsOK
<1>3. tabs' = tabs /\ t \in tabs /\ hub[t] \in Nat /\ t # None
  BY <1>1, <1>2, Numbers DEF tabs
<1>4. /\ viewer.tab = None => viewer.n = 0 /\ ~viewer.waiting
      /\ viewer.tab \in tabs => viewer.n <= hub[viewer.tab]
      /\ Snapshot(t).tab = t /\ Snapshot(t).n = hub[t]
  BY DEF IInv, ViewerOK, MirrorOK, Snapshot
<1>5. /\ w \in Viewing
      /\ w.open = viewer.open /\ w.ids = viewer.ids /\ w.shows = viewer.shows
      /\ w.clicks = viewer.clicks
      /\ viewer.tab \notin {None, t} => w = viewer
      /\ viewer.tab \in {None, t} => w.tab = t /\ w.n = hub[t] /\ ~w.waiting
  BY <1>1, <1>2, <1>3, <1>4, SnapshotTaken
<1> HIDE DEF w
<1>6. KnownOK'
  BY <1>1, <1>3, <1>5 DEF IInv, ViewerOK, KnownOK
<1>7. MirrorOK'
  BY <1>1, <1>3, <1>4, <1>5 DEF MirrorOK
<1>8. ShownOK'
  <2>1. CASE active = t /\ viewer.open
    BY <1>1, <1>5, <2>1 DEF ShownOK, InStep
  <2>2. CASE active # t \/ ~viewer.open
    <3>1. InStep /\ active # t => InStep'
      BY <1>1, <2>2 DEF InStep
    <3> QED BY <1>1, <2>2, <3>1 DEF IInv, ViewerOK, ShownOK, history
  <2> QED BY <2>1, <2>2
<1>9. ListedOK' /\ LedOK'
  BY <1>1, <1>3, <1>5 DEF IInv, ViewerOK, ListedOK, LedOK, history
<1> QED BY <1>1, <1>2, <1>5, <1>6, <1>7, <1>8, <1>9, ViewingStep DEF history

\* What a mirror waits for is owed, if it asked for a tab there is.
LEMMA ReceiveAskStep == ASSUME IInv, NEW t \in Tab, ReceiveAsk(t) PROVE IInv'
<1>1. /\ viewer' = [viewer EXCEPT !.asks = @ \ {t}]
      /\ owes' = IF t \in tabs THEN owes \cup {t} ELSE owes
      /\ UNCHANGED <<chrome, calls, events, order, active, hub, bcast, registry, join, history>>
  BY DEF ReceiveAsk
<1>2. /\ viewer \in Viewing /\ join \in Join /\ hub \in [Tab -> Nat] /\ owes \subseteq tabs
      /\ \A k \in Tab : k \notin tabs => hub[k] = 0
  BY DEF IInv, Typed, TabsOK
<1>3. /\ viewer' \in Viewing /\ viewer'.asks = viewer.asks \ {t}
      /\ viewer'.open = viewer.open /\ viewer'.ids = viewer.ids /\ viewer'.shows = viewer.shows
      /\ viewer'.tab = viewer.tab /\ viewer'.n = viewer.n /\ viewer'.waiting = viewer.waiting
      /\ viewer'.clicks = viewer.clicks
  <2>1. viewer.asks \ {t} \in SUBSET Tab
    BY <1>2 DEF Viewing
  <2> QED BY <1>1, <1>2, <2>1, Zenon DEF Viewing
<1>4. tabs' = tabs
  BY <1>1 DEF tabs
<1>5. KnownOK' /\ MirrorOK' /\ ListedOK' /\ LedOK'
  BY <1>1, <1>3, <1>4 DEF IInv, ViewerOK, KnownOK, MirrorOK, ListedOK, LedOK, history
<1>6. ShownOK'
  <2> SUFFICES ASSUME viewer.open, active # None, hub[active] > 0, InStep
               PROVE  InStep'
    BY <1>1, <1>3 DEF IInv, ViewerOK, ShownOK, history
  <2>1. active \in tabs
    BY <1>2 DEF IInv, Typed, Id
  <2>2. active \in viewer.asks \cup owes => active \in viewer'.asks \cup owes'
    BY <1>1, <1>3, <2>1
  <2> QED BY <1>1, <1>3, <2>2 DEF InStep
<1> QED BY <1>1, <1>2, <1>3, <1>5, <1>6, ViewingStep DEF history

LEMMA BreakStep == ASSUME IInv, Break PROVE IInv'
<1>1. /\ viewer' = [viewer EXCEPT !.open = FALSE, !.waiting = FALSE, !.asks = {}, !.clicks = <<>>]
      /\ join' = NoJoin
      /\ UNCHANGED <<chrome, calls, events, order, active, hub, owes, bcast, registry, history>>
  BY DEF Break
<1>2. /\ viewer \in Viewing /\ hub \in [Tab -> Nat] /\ owes \subseteq tabs
      /\ \A k \in Tab : k \notin tabs => hub[k] = 0
  BY DEF IInv, Typed, TabsOK
<1>3. /\ viewer' \in Viewing /\ viewer'.open = FALSE /\ viewer'.waiting = FALSE
      /\ viewer'.tab = viewer.tab /\ viewer'.n = viewer.n /\ viewer'.ids = viewer.ids
  <2>1. {} \in SUBSET Tab /\ <<>> \in Seq(Tab)
    OBVIOUS
  <2> QED BY <1>1, <1>2, <2>1, Zenon DEF Viewing
<1>4. join' \in Join /\ ToSet(join'.ids) = {}
  BY <1>1, Emptied
<1>5. tabs' = tabs
  BY <1>1 DEF tabs
<1>6. KnownOK' /\ MirrorOK' /\ ShownOK' /\ ListedOK' /\ LedOK'
  BY <1>1, <1>3, <1>4, <1>5 DEF IInv, ViewerOK, KnownOK, MirrorOK, ShownOK, ListedOK, LedOK
<1> QED BY <1>1, <1>2, <1>3, <1>4, <1>6, ViewingStep DEF history

\* A viewer that connects takes the first document that concerns it, if there is one.
LEMMA JoinedTab ==
  ASSUME NEW v, order \in Seq(Tab)
  PROVE  \/ Joined(v) = v /\ \A k \in tabs : ~(hub[k] > 0 /\ v.tab \in {None, k})
         \/ \E k \in tabs : /\ hub[k] > 0 /\ v.tab \in {None, k}
                            /\ Joined(v) = OnSnapshot(v, Snapshot(k))
<1> DEFINE I == {j \in 1..Len(order) : hub[order[j]] > 0 /\ Concerns(v, [tab |-> order[j]])}
           i == SelectInSeq(order, LAMBDA t : hub[t] > 0 /\ Concerns(v, [tab |-> t]))
<1>1. i = IF I # {} THEN Min(I) ELSE 0
  BY DEF SelectInSeq
<1>2. Joined(v) = IF i = 0 THEN v ELSE OnSnapshot(v, Snapshot(order[i]))
  BY DEF Joined
<1>3. \A j \in 1..Len(order) : j \in I <=> hub[order[j]] > 0 /\ v.tab \in {None, order[j]}
  BY Zenon DEF Concerns
<1>4. I \in SUBSET Nat /\ \A j \in I : j \in 1..Len(order) /\ j # 0
  BY SMT
<1>5. \A k \in tabs : \E j \in 1..Len(order) : order[j] = k
  BY SMT DEF tabs, ToSet
<1>6. \A j \in 1..Len(order) : order[j] \in tabs
  BY SMT DEF tabs, ToSet
<1> HIDE DEF I, i
<1>7. CASE I = {}
  <2>1. Joined(v) = v
    BY <1>1, <1>2, <1>7
  <2>2. ASSUME NEW k \in tabs PROVE ~(hub[k] > 0 /\ v.tab \in {None, k})
    BY <1>3, <1>5, <1>7
  <2> QED BY <2>1, <2>2
<1>8. CASE I # {}
  <2>1. Min(I) \in I
    BY <1>4, <1>8, LeastElement
  <2>2. i \in I /\ i # 0
    BY <1>1, <1>4, <1>8, <2>1
  <2>3. order[i] \in tabs /\ hub[order[i]] > 0 /\ v.tab \in {None, order[i]}
    BY <1>3, <1>4, <1>6, <2>2
  <2>4. Joined(v) = OnSnapshot(v, Snapshot(order[i]))
    BY <1>2, <2>2
  <2> QED BY <2>3, <2>4
<1> QED BY <1>7, <1>8

LEMMA ConnectStep == ASSUME IInv, Connect PROVE IInv'
<1> DEFINE back == [viewer EXCEPT !.open = TRUE, !.conn = @ + 1]
           v == IF viewer.tab = None THEN back ELSE Asking(back, viewer.tab)
           c == CreateTab(Go("list", viewer.conn + 1))
<1>1. /\ viewer' = Joined(v)
      /\ UNCHANGED <<chrome, events, order, active, hub, owes, bcast, registry, history>>
      /\ tabs = {} => join' = NoJoin /\ calls' = calls \o <<c>>
      /\ tabs # {} => /\ join' = [phase |-> "listing", ids |-> order, seen |-> {active}]
                      /\ calls' = calls
  BY DEF Connect, Send
<1>2. /\ viewer \in Viewing /\ order \in Seq(Tab) /\ active \in Id
      /\ hub \in [Tab -> Nat] /\ owes \subseteq tabs
      /\ \A k \in Tab : k \notin tabs => hub[k] = 0
  BY DEF IInv, Typed, TabsOK
<1>3. /\ back \in Viewing /\ back.tab = viewer.tab /\ back.n = viewer.n
      /\ back.open = TRUE /\ back.waiting = viewer.waiting /\ back.ids = viewer.ids
  <2>1. viewer.conn + 1 \in Nat
    BY <1>2 DEF Viewing
  <2> QED BY <1>2, <2>1, Zenon DEF Viewing
<1>4. /\ v \in Viewing /\ v.tab = viewer.tab /\ v.n = viewer.n /\ v.open = TRUE
      /\ v.ids = viewer.ids
      /\ viewer.tab = None => v.waiting = viewer.waiting
      /\ viewer.tab # None => v.waiting = TRUE /\ viewer.tab \in v.asks
  <2>1. CASE viewer.tab = None
    BY <1>3, <2>1
  <2>2. CASE viewer.tab # None
    <3> HIDE DEF back
    <3>1. v = [back EXCEPT !.tab = viewer.tab, !.waiting = TRUE, !.asks = back.asks \cup {viewer.tab}]
      BY <2>2 DEF Asking
    <3>2. viewer.tab \in Id /\ back.asks \cup {viewer.tab} \in SUBSET Tab
      BY <1>2, <1>3, <2>2 DEF Viewing, Id
    <3>3. /\ v \in Viewing /\ v.tab = viewer.tab /\ v.n = back.n /\ v.open = back.open
          /\ v.ids = back.ids /\ v.waiting = TRUE /\ v.asks = back.asks \cup {viewer.tab}
      <4> HIDE DEF v
      <4> QED BY <1>3, <3>1, <3>2, Zenon DEF Viewing
    <3> QED BY <1>3, <2>2, <3>3
  <2> QED BY <2>1, <2>2
<1> HIDE DEF v, back
<1>5. tabs' = tabs /\ tabs \subseteq Tab /\ None \notin tabs
  BY <1>1, <1>2, OrderPlaces, Numbers DEF tabs
<1>6. /\ viewer.tab = None => viewer.n = 0 /\ ~viewer.waiting
      /\ viewer.tab \in tabs => viewer.n <= hub[viewer.tab]
  BY DEF IInv, ViewerOK, MirrorOK
\* Either no tab has a document that concerns it, or it shows one that has.
<1>7. \/ viewer' = v /\ \A k \in tabs : ~(hub[k] > 0 /\ viewer.tab \in {None, k})
      \/ \E k \in tabs : /\ viewer.tab \in {None, k} /\ viewer' \in Viewing
                         /\ viewer'.tab = k /\ viewer'.n = hub[k] /\ ~viewer'.waiting
                         /\ viewer'.ids = viewer.ids
  <2>1. CASE Joined(v) = v /\ \A k \in tabs : ~(hub[k] > 0 /\ v.tab \in {None, k})
    BY <1>1, <1>4, <2>1
  <2>2. ASSUME NEW k \in tabs, hub[k] > 0, v.tab \in {None, k},
               Joined(v) = OnSnapshot(v, Snapshot(k))
        PROVE  /\ viewer.tab \in {None, k} /\ viewer' \in Viewing
               /\ viewer'.tab = k /\ viewer'.n = hub[k] /\ ~viewer'.waiting
               /\ viewer'.ids = viewer.ids
    <3>1. k \in Tab /\ hub[k] \in Nat
      BY <1>2, <1>5
    <3>2. Snapshot(k).tab = k /\ Snapshot(k).n = hub[k]
      BY DEF Snapshot
    <3>3. (v.tab = None => v.n = 0) /\ (v.tab = k => v.n <= hub[k])
      BY <1>4, <1>6
    <3>4. LET w == OnSnapshot(v, Snapshot(k))
          IN  w \in Viewing /\ w.tab = k /\ w.n = hub[k] /\ ~w.waiting /\ w.ids = v.ids
      BY <1>4, <2>2, <3>1, <3>2, <3>3, SnapshotTaken
    <3> QED BY <1>1, <1>4, <2>2, <3>4
  <2> QED BY <1>2, <2>1, <2>2, JoinedTab
<1>8. /\ viewer' \in Viewing
      /\ viewer'.tab \in {viewer.tab} \cup tabs /\ viewer'.ids = viewer.ids
  BY <1>4, <1>7
<1>9. join' \in Join /\ ToSet(join'.ids) \subseteq tabs /\ (tabs # {} => join'.phase = "listing")
  <2>1. CASE tabs = {}
    BY <1>1, <2>1, Emptied
  <2>2. CASE tabs # {}
    <3>1. {active} \in SUBSET Id
      BY <1>2
    <3> DEFINE j == [phase |-> "listing", ids |-> order, seen |-> {active}]
    <3>2. j \in Join /\ j.ids = order /\ j.phase = "listing"
      BY <1>2, <3>1, Zenon DEF Join
    <3>3. join' = j
      BY <1>1, <2>2
    <3> HIDE DEF j
    <3> QED BY <3>2, <3>3 DEF tabs
  <2> QED BY <2>1, <2>2
<1>10. /\ calls' \in Seq(Call) /\ QueuesOK(chrome.made, registry', calls', events')
       /\ \A k : Promoted(calls', events', k) => Promoted(calls, events, k)
       /\ Activating(calls, events) => Activating(calls', events')
       /\ tabs = {} => Coming(calls', events')
  <2>1. /\ calls \in Seq(Call) /\ chrome.made \in Nat
        /\ QueuesOK(chrome.made, registry', calls, events') /\ events' = events
    BY <1>1, PagesCounted
  <2>2. CASE tabs # {}
    BY <1>1, <2>1, <2>2
  <2>3. CASE tabs = {}
    <3> DEFINE f == Go("list", viewer.conn + 1)
    <3>1. viewer.conn + 1 \in Nat
      BY <1>2 DEF Viewing
    <3>2. f \in Further /\ f.what = "list"
      BY <3>1, FurtherMade
    <3> HIDE DEF f
    <3>3. None \in Id
      BY DEF Id
    <3>4. Cmd("create", None, f) \in Call /\ Cmd("create", None, f).do = "create"
          /\ Cmd("create", None, f).next = f
      BY <3>2, <3>3, CallMade
    <3>5. c \in Call /\ c.do = "create" /\ c.next = f
      BY <3>4 DEF CreateTab, f
    <3> HIDE DEF c
    <3>6. CallOK(c, chrome.made) /\ ~Promises(c)
      BY <3>2, <3>5 DEF CallOK, Promises
    <3>7. calls' = calls \o <<c>>
      BY <1>1, <2>3
    <3>8. /\ calls' \in Seq(Call) /\ QueuesOK(chrome.made, registry', calls', events')
          /\ \A k : Promoted(calls', events', k) =>
               Promoted(calls, events', k) \/ (c \in Call /\ Promises(c) /\ c.tab = k)
          /\ Activating(calls, events') => Activating(calls', events')
      BY <2>1, <3>5, <3>6, <3>7, SentNow
    <3>9. Coming(calls', events')
      <4>1. Longer(calls, c, calls')
        BY <2>1, <3>5, <3>7, CallPut
      <4> QED BY <3>5, <4>1 DEF Longer, Coming
    <3> QED BY <2>1, <3>6, <3>8, <3>9
  <2> QED BY <2>2, <2>3
<1>11. Typed'
  BY <1>1, <1>8, <1>9, <1>10 DEF IInv, Typed
<1>12. TabsOK'
  BY <1>1, <1>5 DEF IInv, TabsOK
<1>13. TabAlwaysComing'
  <2>1. events' \in Seq(News \cup Reply)
    BY <1>1, PagesCounted
  <2> QED BY <1>5, <1>10, <2>1, ComingIs DEF TabAlwaysComing
<1>14. ActiveOK'
  BY <1>1, <1>5, <1>10 DEF IInv, ActiveOK, history
<1>15. KnownOK'
  <2> QED BY <1>1, <1>8, <1>9, OrderKnown DEF IInv, ViewerOK, KnownOK
<1>16. MirrorOK'
  <2>1. CASE viewer' = v
    BY <1>1, <1>4, <1>5, <1>6, <2>1 DEF MirrorOK
  <2>2. ASSUME NEW k \in tabs, viewer'.tab = k, viewer'.n = hub[k]
        PROVE  MirrorOK'
    <3>1. k \in Tab /\ hub[k] \in Nat /\ k # None
      BY <1>2, <1>5
    <3> QED BY <1>1, <1>5, <2>2, <3>1 DEF MirrorOK
  <2> QED BY <1>7, <2>1, <2>2
<1>17. ShownOK'
  <2> SUFFICES ASSUME active # None, hub[active] > 0
               PROVE  InStep' \/ viewer'.tab \notin {None, active}
    BY <1>1 DEF ShownOK
  <2>1. active \in tabs
    BY <1>2 DEF Id
  <2>2. CASE viewer' = v /\ \A k \in tabs : ~(hub[k] > 0 /\ viewer.tab \in {None, k})
    BY <1>4, <2>1, <2>2
  <2>3. ASSUME NEW k \in tabs, viewer'.tab = k, viewer'.n = hub[k], ~viewer'.waiting
        PROVE  InStep' \/ viewer'.tab \notin {None, active}
    <3>1. CASE k = active
      BY <1>1, <2>3, <3>1 DEF InStep
    <3>2. CASE k # active
      BY <1>5, <2>3, <3>2
    <3> QED BY <3>1, <3>2
  <2> QED BY <1>7, <2>2, <2>3
<1>18. ListedOK' /\ LedOK'
  BY <1>5, <1>9 DEF ListedOK, LedOK
<1> QED BY <1>1, <1>10, <1>11, <1>12, <1>13, <1>14, <1>15, <1>16, <1>17, <1>18, Handled

------------------------------------------------------------------------------
(* Clicks. *)

LEMMA ClicksOn ==
  ASSUME NEW s \in Seq(Tab), NEW t \in Tab
  PROVE  /\ Append(s, t) \in Seq(Tab) /\ ToSet(Append(s, t)) = ToSet(s) \cup {t}
         /\ s # <<>> => /\ Tail(s) \in Seq(Tab) /\ Head(s) \in Tab
                        /\ ToSet(s) \subseteq ToSet(Tail(s)) \cup {Head(s)}
<1>1. Append(s, t) \in Seq(Tab) /\ ToSet(Append(s, t)) = ToSet(s) \cup {t}
  <2> DEFINE r == Append(s, t)
  <2>1. /\ r \in Seq(Tab) /\ Len(r) = Len(s) + 1 /\ r[Len(s) + 1] = t /\ Len(s) \in Nat
        /\ \A i \in 1..Len(s) : r[i] = s[i]
    OBVIOUS
  <2> HIDE DEF r
  <2>2. /\ \A x : x \in ToSet(r) <=> \E i \in 1..Len(r) : r[i] = x
        /\ \A x : x \in ToSet(s) <=> \E i \in 1..Len(s) : s[i] = x
    <3>1. DOMAIN r = 1..Len(r) /\ DOMAIN s = 1..Len(s)
      BY <2>1
    <3> QED BY <3>1 DEF ToSet
  <2>3. \A i \in 1..Len(s) : i \in 1..Len(r)
    BY <2>1
  <2>4. Len(s) + 1 \in 1..Len(r)
    BY <2>1
  <2>5. \A i \in 1..Len(r) : i \in 1..Len(s) \/ i = Len(s) + 1
    BY <2>1
  <2>6. \A x : x \in ToSet(r) <=> x \in ToSet(s) \/ x = t
    BY <2>1, <2>2, <2>3, <2>4, <2>5, Zenon
  <2> QED BY <2>1, <2>6 DEF r
<1>2. ASSUME s # <<>>
      PROVE  /\ Tail(s) \in Seq(Tab) /\ Head(s) \in Tab
             /\ ToSet(s) \subseteq ToSet(Tail(s)) \cup {Head(s)}
  <2>1. /\ Tail(s) \in Seq(Tab) /\ Head(s) \in Tab /\ Head(s) = s[1]
        /\ Len(Tail(s)) = Len(s) - 1 /\ \A i \in 1..Len(Tail(s)) : Tail(s)[i] = s[i + 1]
    BY <1>2
  <2>2. ASSUME NEW x \in ToSet(s), x # s[1] PROVE x \in ToSet(Tail(s))
    <3>1. PICK i \in 1..Len(s) : s[i] = x
      BY <2>2, SMT DEF ToSet
    <3>2. i - 1 \in 1..Len(Tail(s)) /\ Tail(s)[i - 1] = x
      <4>1. i # 1
        BY <2>2, <3>1
      <4>2. i - 1 \in 1..Len(Tail(s)) /\ (i - 1) + 1 = i
        BY <2>1, <4>1
      <4> QED BY <2>1, <3>1, <4>2
    <3>3. DOMAIN Tail(s) = 1..Len(Tail(s))
      BY <2>1
    <3> QED BY <3>2, <3>3, Zenon DEF ToSet
  <2> QED BY <2>1, <2>2
<1> QED BY <1>1, <1>2

\* The mirror turns to the tab that is clicked, and it will be asked for.
LEMMA ClickStep == ASSUME IInv, NEW t \in Tab, Click(t) PROVE IInv'
<1> DEFINE w == Selected(viewer, t)
<1>1. /\ viewer' = [w EXCEPT !.clicks = Append(@, t)] /\ t \in ToSet(viewer.ids)
      /\ UNCHANGED <<chrome, calls, events, order, active, hub, owes, bcast, registry, join,
                     refused, orphaned, late, unshown>>
      /\ strayed' = (strayed /\ viewer.tab = t)
  BY DEF Click, gateway
<1>2. /\ viewer \in Viewing /\ join \in Join /\ hub \in [Tab -> Nat] /\ owes \subseteq tabs
      /\ \A k \in Tab : k \notin tabs => hub[k] = 0
  BY DEF IInv, Typed, TabsOK
<1>3. /\ w \in Viewing
      /\ w.open = viewer.open /\ w.ids = viewer.ids /\ w.shows = viewer.shows
      /\ w.clicks = viewer.clicks
      /\ viewer.tab = t => w = viewer
      /\ viewer.tab # t => w.tab = t /\ w.n = 0 /\ w.waiting /\ w.asks = viewer.asks \cup {t}
  BY <1>2, SelectedTab
<1> HIDE DEF w
<1>4. /\ w.clicks \in Seq(Tab) /\ Append(w.clicks, t) \in Seq(Tab)
      /\ ToSet(Append(w.clicks, t)) = ToSet(w.clicks) \cup {t}
  <2>1. w.clicks \in Seq(Tab)
    BY <1>3 DEF Viewing
  <2> QED BY <2>1, ClicksOn
<1>5. /\ viewer' \in Viewing /\ viewer'.clicks = Append(w.clicks, t)
      /\ viewer'.open = viewer.open /\ viewer'.ids = viewer.ids /\ viewer'.shows = viewer.shows
      /\ viewer'.tab = w.tab /\ viewer'.n = w.n /\ viewer'.waiting = w.waiting
      /\ viewer'.asks = w.asks
  <2>1. viewer' = [w EXCEPT !.clicks = Append(w.clicks, t)]
    BY <1>1
  <2>2. /\ viewer' \in Viewing /\ viewer'.clicks = Append(w.clicks, t)
        /\ viewer'.open = w.open /\ viewer'.ids = w.ids /\ viewer'.shows = w.shows
        /\ viewer'.tab = w.tab /\ viewer'.n = w.n /\ viewer'.waiting = w.waiting
        /\ viewer'.asks = w.asks
    BY <1>3, <1>4, <2>1, Zenon DEF Viewing
  <2> QED BY <1>3, <2>2
<1>6. w.tab = t /\ t # None /\ (viewer.tab = t \/ (w.n = 0 /\ w.waiting /\ t \in w.asks))
  BY <1>3, Numbers
<1>7. tabs' = tabs /\ (t \in tabs => hub[t] \in Nat)
  BY <1>1, <1>2 DEF tabs
<1>8. KnownOK'
  BY <1>1, <1>5, <1>6 DEF IInv, ViewerOK, KnownOK
<1>9. MirrorOK'
  BY <1>1, <1>3, <1>5, <1>6, <1>7 DEF IInv, ViewerOK, MirrorOK
<1>10. ShownOK'
  <2>1. CASE viewer.tab = t
    <3>1. InStep => InStep'
      BY <1>1, <1>3, <1>5, <2>1 DEF InStep
    <3> QED BY <1>1, <1>3, <1>5, <2>1, <3>1 DEF IInv, ViewerOK, ShownOK
  <2>2. CASE viewer.tab # t
    <3>1. active = t => InStep'
      BY <1>1, <1>3, <1>5, <2>2 DEF InStep
    <3> QED BY <1>1, <1>5, <1>6, <3>1 DEF ShownOK
  <2> QED BY <2>1, <2>2
<1>11. ListedOK' /\ LedOK'
  BY <1>1, <1>4, <1>5, <1>6, <1>7 DEF IInv, ViewerOK, ListedOK, LedOK
<1> QED BY <1>1, <1>2, <1>5, <1>8, <1>9, <1>10, <1>11, ViewingStep

\* The gateway hears of a click: the tab will be activated, or the mirror has strayed.
LEMMA ReceiveClickStep == ASSUME IInv, ReceiveClick PROVE IInv'
<1> DEFINE t == Head(viewer.clicks)
           c == Activate(t)
<1>1. /\ viewer.clicks # <<>> /\ viewer' = [viewer EXCEPT !.clicks = Tail(@)]
      /\ \/ t \in tabs /\ calls' = calls \o <<c>> /\ strayed' = strayed
         \/ Stray(t) /\ calls' = calls \o <<>>
      /\ UNCHANGED <<chrome, events, order, active, hub, owes, bcast, registry, join,
                     refused, orphaned, late, unshown>>
  <2>1. calls \in Seq(Call)
    BY DEF IInv, Typed
  <2>2. calls = calls \o <<>>
    BY <2>1
  <2> QED BY <2>2 DEF ReceiveClick, Send, gateway
<1>2. /\ viewer \in Viewing /\ join \in Join /\ hub \in [Tab -> Nat] /\ owes \subseteq tabs
      /\ calls \in Seq(Call) /\ events \in Seq(News \cup Reply)
      /\ chrome.made \in Nat /\ QueuesOK(chrome.made, registry, calls, events)
      /\ registry \in SUBSET (1..chrome.made) /\ tabs \subseteq registry
  BY PagesCounted DEF IInv, Typed, TabsOK
<1>3. /\ viewer.clicks \in Seq(Tab) /\ Tail(viewer.clicks) \in Seq(Tab) /\ t \in Tab
      /\ ToSet(viewer.clicks) \subseteq ToSet(Tail(viewer.clicks)) \cup {t}
  <2>1. viewer.clicks \in Seq(Tab)
    BY <1>2 DEF Viewing
  <2>2. 1 \in Tab
    BY Numbers DEF Tab
  <2> QED BY <1>1, <2>1, <2>2, ClicksOn
<1>4. /\ viewer' \in Viewing /\ viewer'.clicks = Tail(viewer.clicks)
      /\ viewer'.open = viewer.open /\ viewer'.ids = viewer.ids /\ viewer'.shows = viewer.shows
      /\ viewer'.tab = viewer.tab /\ viewer'.n = viewer.n /\ viewer'.waiting = viewer.waiting
      /\ viewer'.asks = viewer.asks
  <2>1. viewer' = [viewer EXCEPT !.clicks = Tail(viewer.clicks)]
    BY <1>1
  <2> QED BY <1>2, <1>3, <2>1, Zenon DEF Viewing
<1>5. t \in tabs => c \in Call /\ CallOK(c, chrome.made) /\ ~Promises(c)
  BY <1>2, <1>3, ActivateMade
<1>6. Activate(t).do = "activate" /\ Activate(t).tab = t /\ Activate(t).next.what = "publish"
  BY DEF Activate, Cmd, Go
<1> HIDE DEF t, c
<1>7. \/ calls' = calls \o <<>>
      \/ c \in Call /\ CallOK(c, chrome.made) /\ calls' = calls \o <<c>> /\ ~Promises(c)
  BY <1>1, <1>5
<1>8. /\ calls' \in Seq(Call) /\ QueuesOK(chrome.made, registry', calls', events')
      /\ \A k : Promoted(calls', events', k) => Promoted(calls, events', k)
      /\ Activating(calls, events') => Activating(calls', events')
      /\ Coming(calls, events') => Coming(calls', events')
  <2>1. QueuesOK(chrome.made, registry', calls, events')
    BY <1>1, <1>2
  <2>2. calls' = calls \o <<>> => calls' = calls
    BY <1>2
  <2> QED BY <1>7, <2>1, <2>2, SentNow
<1>9. \A k : Selecting(calls, events, k) => Selecting(calls', events, k)
  <2> DEFINE ds == calls'
  <2>1. ds = calls \o <<>> \/ (c \in Call /\ ds = calls \o <<c>>)
    BY <1>7
  <2> HIDE DEF ds
  <2>2. \A k : Selecting(calls, events, k) => Selecting(ds, events, k)
    BY <1>2, <2>1, SelectingSent
  <2> QED BY <2>2 DEF ds
<1>10. tabs' = tabs
  BY <1>1 DEF tabs
<1>11. Typed' /\ TabsOK'
  BY <1>1, <1>4, <1>8, <1>10 DEF IInv, Typed, TabsOK
<1>12. TabAlwaysComing'
  <2>1. Creating => Creating'
    <3>1. events' \in Seq(News \cup Reply) /\ Creating => Coming(calls, events')
      BY <1>1, <1>2, ComingIs
    <3>2. events' \in Seq(News \cup Reply)
      BY <1>1, <1>2
    <3> QED BY <1>8, <3>1, <3>2, ComingIs
  <2> QED BY <1>1, <1>10, <2>1 DEF IInv, TabAlwaysComing
<1>13. ActiveOK'
  BY <1>1, <1>8, <1>10 DEF IInv, ActiveOK
<1>14. KnownOK' /\ MirrorOK' /\ ListedOK'
  BY <1>1, <1>4, <1>10 DEF IInv, ViewerOK, KnownOK, MirrorOK, ListedOK
<1>15. ShownOK'
  <2>1. InStep' = InStep
    BY <1>1, <1>4 DEF InStep
  <2> QED BY <1>1, <1>4, <1>8, <2>1 DEF IInv, ViewerOK, ShownOK
<1>16. LedOK'
  <2>1. strayed => strayed'
    BY <1>1 DEF Stray
  <2>2. viewer.tab = t => \/ Selecting(calls', events', t) \/ strayed' \/ active = t
    <3>1. CASE Stray(t)
      BY <3>1 DEF Stray
    <3>2. CASE t \in tabs /\ calls' = calls \o <<c>>
      <4>1. Longer(calls, c, calls')
        BY <1>2, <1>5, <3>2, CallPut
      <4>2. Len(calls) + 1 \in 1..Len(calls') /\ calls'[Len(calls) + 1] = c
        BY <4>1 DEF Longer
      <4>3. Clicked(c) /\ c.tab = t
        BY <1>6 DEF Clicked, c
      <4> QED BY <4>2, <4>3, Zenon DEF Selecting
    <3> QED BY <1>1, <3>1, <3>2
  <2> QED BY <1>1, <1>3, <1>4, <1>9, <1>10, <2>1, <2>2 DEF IInv, ViewerOK, LedOK
<1> QED BY <1>1, <1>8, <1>11, <1>12, <1>13, <1>14, <1>15, <1>16, Handled

------------------------------------------------------------------------------
(* The invariant and what follows from it. *)

LEMMA NextIInv == IInv /\ [Next]_vars => IInv'
<1> SUFFICES ASSUME IInv, [Next]_vars PROVE IInv'
  OBVIOUS
<1>1. CASE Perform
  BY <1>1, PerformStep
<1>2. CASE Popup
  BY <1>2, PopupStep
<1>3. CASE Handle
  BY <1>3, HandleStep
<1>4. CASE NewTab
  BY <1>4, NewTabStep
<1>5. CASE BroadcastTimer
  BY <1>5, BroadcastTimerStep
<1>6. CASE PublishList
  BY <1>6, PublishListStep
<1>7. CASE SendFirstList
  BY <1>7, SendFirstListStep
<1>8. CASE Connect
  BY <1>8, ConnectStep
<1>9. CASE Break
  BY <1>9, BreakStep
<1>10. ASSUME NEW t \in Tab, Gone(t) PROVE IInv'
  BY <1>10, GoneStep
<1>11. ASSUME NEW t \in Tab, Retitle(t) PROVE IInv'
  BY <1>11, RetitleStep
<1>12. ASSUME NEW t \in Tab, CloseReceived(t) PROVE IInv'
  BY <1>12, CloseReceivedStep
<1>13. ASSUME NEW t \in Tab, ActivateReceived(t) PROVE IInv'
  BY <1>13, ActivateReceivedStep
<1>14. ASSUME NEW t \in Tab, Ingest(t) PROVE IInv'
  BY <1>14, IngestStep
<1>15. ASSUME NEW t \in Tab, AnswerSnapshot(t) PROVE IInv'
  BY <1>15, AnswerSnapshotStep
<1>16. ASSUME NEW t \in Tab, ReceiveAsk(t) PROVE IInv'
  BY <1>16, ReceiveAskStep
<1>17. ASSUME NEW t \in Tab, Click(t) PROVE IInv'
  BY <1>17, ClickStep
<1>18. CASE ReceiveClick
  BY <1>18, ReceiveClickStep
<1>19. CASE UNCHANGED vars
  <2>1. UNCHANGED <<chrome, calls, events, order, active, hub, owes, bcast, registry, join,
                    viewer, refused, orphaned, late, unshown, strayed>>
    BY <1>19 DEF vars, gateway, history
  <2>2. tabs' = tabs /\ InStep' = InStep
    BY <2>1 DEF tabs, InStep
  <2> QED BY <2>1, <2>2 DEF IInv, Typed, TabsOK, TabAlwaysComing, Creating, ActiveOK,
          ViewerOK, KnownOK, MirrorOK, ShownOK, ListedOK, LedOK
<1> QED BY <1>1, <1>2, <1>3, <1>4, <1>5, <1>6, <1>7, <1>8, <1>9, <1>10, <1>11, <1>12,
        <1>13, <1>14, <1>15, <1>16, <1>17, <1>18, <1>19 DEF Next

LEMMA Invariance == Spec => []IInv
<1>1. Init => IInv
  BY InitIInv
<1>2. IInv /\ [Next]_vars => IInv'
  BY NextIInv
<1> QED BY <1>1, <1>2, PTL DEF Spec

(***************************************************************************)
(* A session always gets a tab again: when its last is gone, a page is     *)
(* being created, or its attachment is on its way, or the timer of the     *)
(* list that creates one is set, unless Chromium refused.                  *)
(***************************************************************************)
THEOREM TabAlwaysComingHolds == Spec => []TabAlwaysComing
<1>1. IInv => TabAlwaysComing
  BY DEF IInv
<1> QED BY <1>1, Invariance, PTL

(***************************************************************************)
(* With nothing under way one of the tabs is the active one, whichever     *)
(* activations, creations and closes overlapped, unless the tab that was   *)
(* to become active had gone; and the types of all that there is.          *)
(***************************************************************************)
THEOREM OneIsActiveHolds == Spec => []OneIsActive
<1>1. ASSUME IInv PROVE TypeOK
  BY <1>1 DEF IInv, Typed, TabsOK, TypeOK, Chrome, Join, Viewing, Id
<1>2. ASSUME IInv, Settled, tabs # {}, ~orphaned PROVE active \in tabs
  <2>1. ~Activating(calls, events)
    BY <1>2 DEF Settled, Activating
  <2> QED BY <1>2, <2>1 DEF IInv, ActiveOK
<1>3. IInv => OneIsActive
  BY <1>1, <1>2 DEF OneIsActive
<1> QED BY <1>3, Invariance, PTL

(***************************************************************************)
(* A connected viewer that nothing more is under way for lists the tabs    *)
(* there are and shows the active one up to its last event, however lists, *)
(* output, switches, clicks and reconnections were interleaved; unless the *)
(* tab it shows was clicked and not activated, or the active one was made  *)
(* active without its catch-up.                                            *)
(***************************************************************************)
THEOREM ViewersFollowHolds == Spec => []ViewersFollow
<1>1. ASSUME IInv, Rested, ~late
      PROVE  viewer.ids = order /\ viewer.shows = active
  BY <1>1 DEF IInv, ViewerOK, ListedOK, Rested
<1>2. ASSUME IInv, Rested, ~late, active # None, hub[active] > 0, ~unshown, ~strayed
      PROVE  viewer.tab = active /\ ~viewer.waiting /\ viewer.n = hub[active]
  <2>1. viewer.open /\ viewer.asks = {} /\ owes = {} /\ ToSet(viewer.clicks) = {}
    BY <1>2 DEF Rested, ToSet
  <2>2. ~Selecting(calls, events, viewer.tab)
    BY <1>2 DEF Rested, Settled, Selecting
  <2>3. viewer.tab \in {None, active}
    BY <1>2, <2>1, <2>2 DEF IInv, ViewerOK, LedOK, Rested
  <2>4. InStep
    BY <1>2, <2>1, <2>3 DEF IInv, ViewerOK, ShownOK
  <2> QED BY <2>1, <2>4 DEF InStep
<1>3. IInv => ViewersFollow
  BY <1>1, <1>2 DEF ViewersFollow
<1> QED BY <1>3, Invariance, PTL
==============================================================================
