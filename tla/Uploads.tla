------------------------------ MODULE Uploads ------------------------------
(***************************************************************************)
(* File uploads.  A file input of the remote page opens a chooser, which   *)
(* the gateway intercepts (gateway/src/uploads.ts): it mints a key and     *)
(* publishes it; the driver's window (viewer/src/uploads.ts) pairs the key *)
(* with the files its user picked on the mirrored input and posts them one *)
(* by one under that key; the gateway writes them to a directory of the    *)
(* key and hands the paths to the input once all of them are there.        *)
(*                                                                         *)
(* What makes it hard: the user's pick and the chooser come in any order   *)
(* and at any distance; another chooser, a navigation or a timeout ends a  *)
(* batch while a body is being written or while the page is taking the     *)
(* files; two windows can believe they drive; directories are removed in   *)
(* the background.                                                         *)
(*                                                                         *)
(* File contents, names and sizes are left out: a body arrives as it was   *)
(* declared or it does not (Break).                                        *)
(***************************************************************************)
EXTENDS Naturals, Sequences, FiniteSets, SequencesExt

CONSTANTS
  Viewer,    \* windows
  Tab,       \* tabs of the browser
  NoTab,     \* the tab of what does not exist yet
  MaxKeys,   \* choosers that open (bound)
  MaxSels,   \* picks that users make (bound)
  MaxFiles,  \* files of a pick
  MaxUpsets  \* documents that go away, changes of the driver, staged halves that
             \* expire and the gateway's stop, together (bound)

ASSUME BoundsAssumption ==
  /\ Viewer # {} /\ Tab # {} /\ NoTab \notin Tab
  /\ MaxKeys \in Nat \ {0} /\ MaxSels \in Nat \ {0} /\ MaxFiles \in Nat \ {0}
  /\ MaxUpsets \in Nat

Key == 1..MaxKeys
Sel == 1..MaxSels
File == Sel \X (1..MaxFiles)

VARIABLES
  \* windows
  driver,     \* the driver according to the gateway
  believes,   \* the windows that believe they drive
  told,       \* told[v]: keys published to v and not read yet
  picks,      \* picks[v][t]: the key staged, 0 for none
  selections, \* selections[v][t]: the pick staged, 0 for none
  sel,        \* what each pick was: its tab and its number of files
  jobs,       \* the requests under way: a window, a key, a pick, the file's index, a stage
  \* gateway
  rec,        \* the record of each key
  closed,
  removing,   \* batch directories whose removal was started
  dir,        \* batch directories on disk
  late,       \* (history) directories made again for a batch that was over
  \* page
  node,       \* the input of each chooser: it waits, or its document is gone
  given,      \* the files it was given
  cancels,    \* cancel events on their way to inputs
  cancelled,  \* inputs that got one
  events,     \* from the browser to the gateway
  upsets      \* upsets so far

windows == <<driver, believes, told, picks, selections, sel>>
disk == <<removing, dir, late>>
page == <<node, given, cancels, cancelled>>
vars == <<windows, jobs, rec, closed, disk, page, events, upsets>>

Stage == {"sent", "directory", "body", "apply", "applied", "refused"}
Job == [v: Viewer, key: Key, sel: Sel, n: 1..MaxFiles, i: 1..MaxFiles, at: Stage]
Record == [st: {"none", "pending", "batch", "over"}, tab: Tab \cup {NoTab}, many: BOOLEAN,
           timer: BOOLEAN, busy: BOOLEAN, count: 0..MaxFiles, next: 0..MaxFiles,
           files: Seq(File)]
Selected == [tab: Tab \cup {NoTab}, n: 0..MaxFiles]

TypeOK ==
  /\ driver \in Viewer /\ believes \subseteq Viewer
  /\ told \in [Viewer -> Seq(Key)]
  /\ picks \in [Viewer -> [Tab -> 0..MaxKeys]]
  /\ selections \in [Viewer -> [Tab -> 0..MaxSels]]
  /\ sel \in [Sel -> Selected]
  /\ jobs \subseteq Job
  /\ rec \in [Key -> Record]
  /\ closed \in BOOLEAN
  /\ removing \subseteq Key /\ dir \subseteq Key /\ late \subseteq Key
  /\ node \in [Key -> {"none", "waiting", "lost"}]
  /\ given \in [Key -> Seq(File)]
  /\ cancels \subseteq Key /\ cancelled \subseteq Key
  /\ events \in Seq([e: {"opened"}, key: Key] \cup [e: {"gone"}, tab: Tab])
  /\ upsets \in 0..MaxUpsets

NoRecord(t) == [st |-> "none", tab |-> t, many |-> FALSE, timer |-> FALSE, busy |-> FALSE,
                count |-> 0, next |-> 0, files |-> <<>>]

Init ==
  /\ driver \in Viewer /\ believes = {driver}
  /\ told = [v \in Viewer |-> <<>>]
  /\ picks = [v \in Viewer |-> [t \in Tab |-> 0]]
  /\ selections = [v \in Viewer |-> [t \in Tab |-> 0]]
  /\ sel = [s \in Sel |-> [tab |-> NoTab, n |-> 0]]
  /\ jobs = {} /\ closed = FALSE
  /\ rec = [k \in Key |-> NoRecord(NoTab)]
  /\ removing = {} /\ dir = {} /\ late = {}
  /\ node = [k \in Key |-> "none"] /\ given = [k \in Key |-> <<>>]
  /\ cancels = {} /\ cancelled = {}
  /\ events = <<>> /\ upsets = 0

-----------------------------------------------------------------------------
(* The page.                                                               *)

Upset == upsets < MaxUpsets /\ upsets' = upsets + 1

\* A file input is clicked: its chooser is intercepted.
OpenInput(t) ==
  /\ \E k \in Key, many \in BOOLEAN :
       /\ node[k] = "none" /\ \A j \in 1..(k - 1) : node[j] # "none"
       /\ node' = [node EXCEPT ![k] = "waiting"]
       /\ rec' = [rec EXCEPT ![k] = [NoRecord(t) EXCEPT !.many = many]]
       /\ events' = Append(events, [e |-> "opened", key |-> k])
  /\ UNCHANGED <<windows, jobs, closed, disk, given, cancels, cancelled, upsets>>

\* The tab's document goes away: it navigates, or the tab is closed.
DocumentGoes(t) ==
  /\ Upset
  /\ node' = [k \in Key |-> IF rec[k].tab = t /\ node[k] = "waiting" THEN "lost" ELSE node[k]]
  /\ events' = Append(events, [e |-> "gone", tab |-> t])
  /\ UNCHANGED <<windows, jobs, rec, closed, disk, given, cancels, cancelled>>

\* cancelRemoteChooser: the cancel event is dispatched at the input, if it is
\* still there.
CancelArrives(k) ==
  /\ k \in cancels
  /\ cancels' = cancels \ {k}
  /\ cancelled' = IF node[k] = "waiting" THEN cancelled \cup {k} ELSE cancelled
  /\ UNCHANGED <<windows, jobs, rec, closed, disk, node, given, events, upsets>>

\* DOM.setFileInputFiles at the page.
TakeFiles(j) ==
  /\ j \in jobs /\ j.at = "apply"
  /\ IF node[j.key] = "waiting"
       THEN /\ given' = [given EXCEPT ![j.key] = rec[j.key].files]
            /\ jobs' = (jobs \ {j}) \cup {[j EXCEPT !.at = "applied"]}
       ELSE /\ jobs' = (jobs \ {j}) \cup {[j EXCEPT !.at = "refused"]}
            /\ UNCHANGED given
  /\ UNCHANGED <<windows, rec, closed, disk, node, cancels, cancelled, events, upsets>>

-----------------------------------------------------------------------------
(* The gateway.                                                            *)

Live == {k \in Key : rec[k].st \in {"pending", "batch"}}

\* abandon: the records are over; a batch's directory is removed in the
\* background; the page is told unless its input is known to be gone.
Over(r) == [r EXCEPT !.st = "over", !.timer = FALSE]
Abandoned(ks) == [k \in Key |-> IF k \in ks \cap Live THEN Over(rec[k]) ELSE rec[k]]
Removed_Kept(ks) == removing
Removed(ks) == removing \cup {k \in ks \cap Live : rec[k].st = "batch"}
Abandon(ks, cancel) ==
  /\ removing' = Removed(ks)
  /\ cancels' = IF cancel THEN cancels \cup (ks \cap Live) ELSE cancels

\* armTimeout, clearRecordTimer, and openChooser: every other chooser and
\* batch is given up for the new one, whatever tab it is of.
Pending(r) == [r EXCEPT !.st = "pending", !.timer = TRUE]
OpenChooser(k) ==
  /\ Abandon(Live, TRUE)
  /\ rec' = [Abandoned(Live) EXCEPT ![k] = Pending(@)]
  /\ told' = [v \in Viewer |-> Append(told[v], k)]

\* Page.frameNavigated and onDetached: the inputs of the tab are gone.
DropTab(t) ==
  /\ Abandon({k \in Live : rec[k].tab = t}, FALSE)
  /\ rec' = Abandoned({k \in Live : rec[k].tab = t})
  /\ UNCHANGED told

HandleEvent ==
  /\ events # <<>>
  /\ IF closed THEN UNCHANGED <<rec, removing, cancels, told>>
     ELSE LET e == Head(events)
          IN  IF e.e = "opened" THEN OpenChooser(e.key) ELSE DropTab(e.tab)
  /\ events' = Tail(events)
  /\ UNCHANGED <<driver, believes, picks, selections, sel, jobs, closed, dir, late, node, given,
                 cancelled, upsets>>

\* The timer of a chooser nobody answers or of a batch that stops growing.
TimeOut(k) ==
  /\ rec[k].timer
  /\ Abandon({k}, TRUE) /\ rec' = Abandoned({k})
  /\ UNCHANGED <<windows, jobs, closed, dir, late, node, given, cancelled, events, upsets>>

\* rm of a batch directory.
RemoveDirectory(k) ==
  /\ k \in removing
  /\ removing' = removing \ {k} /\ dir' = dir \ {k}
  /\ UNCHANGED <<windows, jobs, rec, closed, late, page, events, upsets>>

\* The first file claims the chooser: from now on the key is a batch.
Claim(r, n) == [r EXCEPT !.st = "batch", !.timer = FALSE, !.busy = TRUE, !.count = n, !.next = 1,
                         !.files = <<>>]
CanClaim(j) == j.i = 1 /\ rec[j.key].st = "pending"

\* The next one must be the one the batch waits for.
Extend(r) == [r EXCEPT !.busy = TRUE, !.timer = FALSE, !.next = @ + 1]
CanExtend(j) ==
  LET r == rec[j.key]
  IN  j.i > 1 /\ r.st = "batch" /\ ~r.busy /\ j.i = r.next + 1 /\ j.n = r.count

\* upload, up to its first await: the request is accepted or turned away, and
\* a window whose file is turned away sends no more.
Upload(j) ==
  /\ j \in jobs /\ j.at = "sent"
  /\ \/ /\ ~closed /\ CanClaim(j)
        /\ rec' = [rec EXCEPT ![j.key] = Claim(@, j.n)]
        /\ jobs' = (jobs \ {j}) \cup {[j EXCEPT !.at = "directory"]}
     \/ /\ ~closed /\ CanExtend(j)
        /\ rec' = [rec EXCEPT ![j.key] = Extend(@)]
        /\ jobs' = (jobs \ {j}) \cup {[j EXCEPT !.at = "directory"]}
     \/ /\ closed \/ ~(CanClaim(j) \/ CanExtend(j))
        /\ jobs' = jobs \ {j}
        /\ UNCHANGED rec
  /\ UNCHANGED <<windows, closed, disk, page, events, upsets>>

\* mkdir: recursive, so that it makes the batch's directory again if it was
\* removed meanwhile.
MakeDirectory(j) ==
  /\ j \in jobs /\ j.at = "directory"
  /\ dir' = dir \cup {j.key}
  /\ late' = IF rec[j.key].st = "over" /\ j.key \notin removing THEN late \cup {j.key} ELSE late
  /\ jobs' = (jobs \ {j}) \cup {[j EXCEPT !.at = "body"]}
  /\ UNCHANGED <<windows, rec, closed, removing, page, events, upsets>>

\* The body is written.  A batch that ended meanwhile gets nothing more; one
\* that waits for further files waits with a timer; a full one is handed over.
Written_NoTimer(r, f) == [r EXCEPT !.files = Append(@, f), !.busy = FALSE]
Written(r, f) == [r EXCEPT !.files = Append(@, f), !.busy = FALSE, !.timer = r.next < r.count]
Continue_Early(j) ==
  IF j.i + 1 < j.n THEN [j EXCEPT !.i = @ + 1, !.at = "sent"] ELSE [j EXCEPT !.at = "apply"]
Continue(j) ==
  IF j.i < j.n THEN [j EXCEPT !.i = @ + 1, !.at = "sent"] ELSE [j EXCEPT !.at = "apply"]
BodyArrives(j) ==
  /\ j \in jobs /\ j.at = "body"
  /\ IF rec[j.key].st = "over"
       THEN /\ jobs' = jobs \ {j}
            /\ UNCHANGED rec
       ELSE /\ rec' = [rec EXCEPT ![j.key] = Written(@, <<j.sel, j.i>>)]
            /\ jobs' = (jobs \ {j}) \cup {Continue(j)}
  /\ UNCHANGED <<windows, closed, disk, page, events, upsets>>

\* upload's catch: the body breaks off, is not what was declared or cannot be
\* written, or the page refuses the files; the batch is given up.
Break(j) ==
  /\ j \in jobs /\ j.at \in {"directory", "body", "refused"}
  /\ Abandon({j.key}, TRUE) /\ rec' = Abandoned({j.key})
  /\ jobs' = jobs \ {j}
  /\ UNCHANGED <<windows, closed, dir, late, node, given, cancelled, events, upsets>>

\* The page has the files: the batch is over and its directory stays.
Finish(j) ==
  /\ j \in jobs /\ j.at = "applied"
  /\ rec' = [rec EXCEPT ![j.key] = Over(@)]
  /\ jobs' = jobs \ {j}
  /\ UNCHANGED <<windows, closed, disk, page, events, upsets>>

\* close, when the gateway stops.
Close ==
  /\ ~closed /\ Upset
  /\ closed' = TRUE
  /\ Abandon(Live, TRUE) /\ rec' = Abandoned(Live)
  /\ UNCHANGED <<windows, jobs, dir, late, node, given, cancelled, events>>

\* The driver's seat changes hands.
Transfer(v) ==
  /\ v # driver /\ Upset
  /\ driver' = v
  /\ UNCHANGED <<believes, told, picks, selections, sel, jobs, rec, closed, disk, page, events>>

-----------------------------------------------------------------------------
(* The windows.                                                            *)

\* The driver message, which does not travel with the published keys: a
\* window that no longer drives forgets what it staged, not what it sends.
LearnRole(v) ==
  /\ (v \in believes) # (v = driver)
  /\ IF v = driver
       THEN /\ believes' = believes \cup {v}
            /\ UNCHANGED <<picks, selections>>
       ELSE /\ believes' = believes \ {v}
            /\ picks' = [picks EXCEPT ![v] = [t \in Tab |-> 0]]
            /\ selections' = [selections EXCEPT ![v] = [t \in Tab |-> 0]]
  /\ UNCHANGED <<driver, told, sel, jobs, rec, closed, disk, page, events, upsets>>

\* pair: a key and a pick staged for the same tab are used up together; more
\* files than the input takes are not sent.
FirstJob(v, k, s) == [v |-> v, key |-> k, sel |-> s, n |-> sel'[s].n, i |-> 1, at |-> "sent"]
Pair(v, t, k, s) ==
  IF k # 0 /\ s # 0
    THEN /\ picks' = [picks EXCEPT ![v][t] = 0]
         /\ selections' = [selections EXCEPT ![v][t] = 0]
         /\ jobs' = IF rec[k].many \/ sel'[s].n = 1 THEN jobs \cup {FirstJob(v, k, s)} ELSE jobs
    ELSE /\ picks' = [picks EXCEPT ![v][t] = k]
         /\ selections' = [selections EXCEPT ![v][t] = s]
         /\ UNCHANGED jobs

\* filepick: the newest key of a tab is the one that counts.
HandlePick(v) ==
  /\ told[v] # <<>>
  /\ UNCHANGED sel
  /\ LET k == Head(told[v])
         t == rec[k].tab
     IN  IF v \in believes THEN Pair(v, t, k, selections[v][t])
                           ELSE UNCHANGED <<picks, selections, jobs>>
  /\ told' = [told EXCEPT ![v] = Tail(@)]
  /\ UNCHANGED <<driver, believes, rec, closed, disk, page, events, upsets>>

\* select: the user picked files on the mirrored input.
Select(v, t) ==
  /\ v \in believes
  /\ \E s \in Sel, n \in 1..MaxFiles :
       /\ sel[s].n = 0 /\ \A r \in 1..(s - 1) : sel[r].n # 0
       /\ sel' = [sel EXCEPT ![s] = [tab |-> t, n |-> n]]
       /\ Pair(v, t, picks[v][t], s)
  /\ UNCHANGED <<driver, believes, told, rec, closed, disk, page, events, upsets>>

\* The stage timers of a window.
ForgetPick(v, t) ==
  /\ Upset
  /\ picks[v][t] # 0
  /\ picks' = [picks EXCEPT ![v][t] = 0]
  /\ UNCHANGED <<driver, believes, told, selections, sel, jobs, rec, closed, disk, page, events>>
ForgetSelection(v, t) ==
  /\ Upset
  /\ selections[v][t] # 0
  /\ selections' = [selections EXCEPT ![v][t] = 0]
  /\ UNCHANGED <<driver, believes, told, picks, sel, jobs, rec, closed, disk, page, events>>

Next ==
  \/ \E t \in Tab : OpenInput(t) \/ DocumentGoes(t)
  \/ \E k \in Key : CancelArrives(k) \/ TimeOut(k) \/ RemoveDirectory(k)
  \/ \E j \in jobs : TakeFiles(j) \/ Upload(j) \/ MakeDirectory(j) \/ BodyArrives(j) \/ Break(j)
                     \/ Finish(j)
  \/ HandleEvent \/ Close
  \/ \E v \in Viewer : Transfer(v) \/ LearnRole(v) \/ HandlePick(v)
  \/ \E v \in Viewer, t \in Tab : Select(v, t) \/ ForgetPick(v, t) \/ ForgetSelection(v, t)

Spec == Init /\ [][Next]_vars

-----------------------------------------------------------------------------
(* Properties.                                                             *)

\* An input is given exactly one pick, whole and in order, made on its own
\* tab, and no pick goes to two inputs, although two windows may post under
\* the same key and a batch may end and another begin between any two files.
Whole(s) == [i \in 1..sel[s].n |-> <<s, i>>]
WholePicks ==
  /\ TypeOK
  /\ \A k \in Key : given[k] # <<>> =>
       \E s \in Sel : sel[s].tab = rec[k].tab /\ given[k] = Whole(s)
  /\ \A k, l \in Key : k # l /\ given[k] # <<>> => given[k] # given[l]

\* A chooser does not stay open for ever: there is one at a time, it has a
\* timer or a request in progress, and when it is over its input, unless its
\* document is gone, got the files or a cancel event or is about to.
ChooserEnds ==
  /\ Cardinality(Live) <= 1
  /\ \A k \in Live : rec[k].timer \/ \E j \in jobs : j.key = k /\ j.at # "sent"
  /\ \A k \in Key : rec[k].st = "over" /\ node[k] = "waiting" =>
       given[k] # <<>> \/ k \in cancels \cup cancelled

\* Of a batch that was given up nothing stays on disk once its removal is
\* through, whatever its request is at, except the directory that mkdir makes
\* again when the removal ran first.
NothingLeft ==
  \A k \in dir : rec[k].st = "over" =>
    given[k] # <<>> \/ k \in removing \/ k \in late
=============================================================================
