------------------------------- MODULE LocalEcho -------------------------------
(***************************************************************************)
(* What the driver sees of its own typing and scrolling before the remote  *)
(* page has answered (viewer/src/pipeline/echo.ts, scroll.ts): a text      *)
(* field or a scroller of the mirror, and the one of the page it stands    *)
(* for.  The two filters share the wire and the rebuild of the mirror, and *)
(* nothing else, so a behaviour is about one of them.                      *)
(*                                                                         *)
(* An edit or a scroll is shown at once and sent; for some time after it   *)
(* the page's own events are held back, for they tell of older states.     *)
(* The mirror must then come to what the page ended up with, although      *)
(* answers are slow, the page changes what it is given or refuses it,      *)
(* and a snapshot rebuilds the mirror in the middle of it all.             *)
(*                                                                         *)
(* What the keyboard, a paste or a composition changes is an edit with the *)
(* resulting value.  Time is split into the moments the code compares:     *)
(* a window that has passed, and a timer that fires no earlier than that.  *)
(* The scroller is the page's window or an element in it.                  *)
(***************************************************************************)
EXTENDS Naturals, Sequences

CONSTANTS
  Value,   \* contents of the field
  Place,   \* positions of the scroller; 0 is its top
  None,    \* neither of them
  Budgets  \* bounds on what the user does, on what the page does of its own accord
           \* and on the snapshots

ASSUME EchoConstants ==
  /\ 0 \in Place /\ None \notin Value \cup Place
  /\ Budgets \subseteq [user : Nat, page : Nat, shots : Nat]

VARIABLES
  kind,      \* "field", "window" (a document with a reconcile hook) or "element"
  page,      \* the page: [val, pos]
  up, down,  \* on the wire, to the page and to the viewer
  field,     \* the field of the mirror
  focused,   \* it has the focus
  composing, \* text composed in it was not sent yet
  edit,      \* its EditingState: [on, over, pending]
  pos,       \* the scroller of the mirror
  due,       \* a native scroll event is to come
  glide,     \* where a replayed scroll is on its way to, or None
  local,     \* its UserScrollState: [recent, spent, held]
  expected,  \* expectedServer: a position, or None
  snap,      \* pendingServerSnaps: a position, or None
  heard,     \* (history) the page's last position the viewer has heard of
  astray,    \* (history) why field or scroller may stay apart from the page's
  left       \* what the user, the page and the hub may still do

typing    == <<field, focused, composing, edit>>
scrolling == <<pos, due, glide, local, expected, snap, heard>>
vars      == <<kind, page, up, down, typing, scrolling, astray, left>>

AboutField    == {"rejected", "overwritten"}
AboutScroller == {"refused", "swallowed", "ignored", "late"}
Reason        == AboutField \cup AboutScroller

NoEdit  == [on |-> FALSE, over |-> FALSE, pending |-> None]
NoLocal == [recent |-> FALSE, spent |-> FALSE, held |-> None]

Message == [t : {"value"}, val : Value] \cup [t : {"scroll"}, pos : Place]
Event   == Message \cup [t : {"snapshot"}, val : Value, pos : Place]

TypeOK ==
  /\ kind \in {"field", "window", "element"}
  /\ page \in [val : Value, pos : Place]
  /\ up \in Seq(Message) /\ down \in Seq(Event)
  /\ field \in Value /\ focused \in BOOLEAN /\ composing \in BOOLEAN
  /\ edit \in [on : BOOLEAN, over : BOOLEAN, pending : Value \cup {None}]
  /\ pos \in Place /\ due \in BOOLEAN /\ glide \in Place \cup {None}
  /\ local \in [recent : BOOLEAN, spent : BOOLEAN, held : Place \cup {None}]
  /\ {expected, snap} \subseteq Place \cup {None} /\ heard \in Place
  /\ astray \subseteq Reason

Init ==
  /\ kind \in {"field", "window", "element"}
  /\ \E v \in Value : page = [val |-> v, pos |-> 0] /\ field = v
  /\ up = <<>> /\ down = <<>>
  /\ focused = FALSE /\ composing = FALSE /\ edit = NoEdit
  /\ pos = 0 /\ due = FALSE /\ glide = None
  /\ local = NoLocal /\ expected = None /\ snap = None /\ heard = 0
  /\ astray = {} /\ left \in Budgets

UserActs == left.user > 0 /\ left' = [left EXCEPT !.user = @ - 1]
OfPage   == left.page > 0 /\ left' = [left EXCEPT !.page = @ - 1]
Calm     == UNCHANGED left

SetValue(v) == [t |-> "value", val |-> v]
Scroll(p)   == [t |-> "scroll", pos |-> p]

------------------------------------------------------------------------------
(* The page. *)

\* The page has changed, and rrweb tells of what it did not tell before.
Changes(new, event) ==
  /\ page' = new
  /\ down' = IF new # page THEN Append(down, event) ELSE down

\* The agent sets the value; the page's scripts may make it another one.
ReceiveValue ==
  /\ up # <<>> /\ Head(up).t = "value"
  /\ up' = Tail(up)
  /\ \E v \in Value :
       /\ IF v = Head(up).val THEN Calm ELSE OfPage
       /\ Changes([page EXCEPT !.val = v], SetValue(v))
       /\ astray' = IF v = page.val /\ v # Head(up).val THEN astray \cup {"rejected"} ELSE
                    IF v # page.val THEN astray \ AboutField ELSE astray
  /\ UNCHANGED <<kind, typing, scrolling>>

\* The agent scrolls, as far as the page lets it.
ReceiveScroll ==
  /\ up # <<>> /\ Head(up).t = "scroll"
  /\ up' = Tail(up)
  /\ \E p \in Place :
       /\ IF p = Head(up).pos THEN Calm ELSE OfPage
       /\ Changes([page EXCEPT !.pos = p], Scroll(p))
       /\ astray' = IF p = page.pos /\ p # Head(up).pos THEN astray \cup {"refused"} ELSE astray
  /\ UNCHANGED <<kind, typing, scrolling>>

PageSets(v) ==
  /\ kind = "field" /\ v # page.val /\ OfPage
  /\ Changes([page EXCEPT !.val = v], SetValue(v))
  /\ astray' = astray \ AboutField
  /\ UNCHANGED <<kind, up, typing, scrolling>>

PageScrolls(p) ==
  /\ kind # "field" /\ p # page.pos /\ OfPage
  /\ Changes([page EXCEPT !.pos = p], Scroll(p))
  /\ UNCHANGED <<kind, up, typing, scrolling, astray>>

\* A snapshot is taken, to cut the buffer or because the viewer missed what is on the way.
TakeSnapshot ==
  /\ left.shots > 0 /\ left' = [left EXCEPT !.shots = @ - 1]
  /\ \E before \in {down, <<>>} :
       down' = Append(before, [t |-> "snapshot", val |-> page.val, pos |-> page.pos])
  /\ UNCHANGED <<kind, page, up, typing, scrolling, astray>>

------------------------------------------------------------------------------
(* Typing (echo.ts, input/change.ts, input/keys.ts). *)

Focus ==
  /\ kind = "field" /\ ~focused /\ left.user > 0
  /\ focused' = TRUE
  /\ UNCHANGED <<kind, page, up, down, field, composing, edit, scrolling, astray, left>>

\* filter.input, and change.ts: composed text waits for the end of the composition.
Type(v, c) ==
  /\ focused /\ v # field /\ UserActs
  /\ field' = v /\ composing' = c
  /\ edit' = [on |-> TRUE, over |-> FALSE, pending |-> edit.pending]
  /\ up' = IF c THEN up ELSE Append(up, SetValue(v))
  /\ UNCHANGED <<kind, page, down, focused, scrolling, astray>>

\* compositionend, or the flush timer.
EndComposition ==
  /\ composing
  /\ composing' = FALSE /\ up' = Append(up, SetValue(field))
  /\ UNCHANGED <<kind, page, down, field, focused, edit, scrolling, astray, left>>

\* Mutant: the page's value is forgotten with the window.
Reconciled_Forgets == field

\* reconcile(): the page's last value, if it was held back.
Reconciled == IF edit.on /\ edit.pending # None THEN edit.pending ELSE field

(* The focus leaves the field: what is composed is sent, the change may be committed, and
   the window ends. *)
Blur ==
  /\ focused
  /\ focused' = FALSE /\ composing' = FALSE
  /\ \E commit \in IF edit.on THEN BOOLEAN ELSE {FALSE} :
       up' = IF composing \/ commit THEN Append(up, SetValue(field)) ELSE up
  /\ field' = Reconciled /\ edit' = NoEdit
  /\ UNCHANGED <<kind, page, down, scrolling, astray, left>>

\* decayMs after the last edit; the timer of a composition is shorter.
EditWindowEnds ==
  /\ edit.on /\ ~edit.over /\ ~composing
  /\ edit' = [edit EXCEPT !.over = TRUE]
  /\ UNCHANGED <<kind, page, up, down, field, focused, composing, scrolling, astray, left>>

DecayTimer ==
  /\ edit.on /\ edit.over
  /\ field' = Reconciled /\ edit' = NoEdit
  /\ UNCHANGED <<kind, page, up, down, focused, composing, scrolling, astray, left>>

\* The filter: within the window a value is kept and the event is dropped.
HearValue(v) ==
  /\ IF edit.on /\ ~edit.over
     THEN edit' = [edit EXCEPT !.pending = v] /\ UNCHANGED field
     ELSE edit' = NoEdit /\ field' = v
  /\ UNCHANGED <<focused, composing, scrolling, astray>>

------------------------------------------------------------------------------
(* Scrolling (scroll.ts). *)

\* The scroller is moved; a native event follows if it moves at all.
Move(p) == pos' = p /\ due' = (due \/ p # pos)

UserScrolls(p) ==
  /\ kind # "field" /\ p # pos /\ UserActs
  /\ Move(p) /\ glide' = None
  /\ UNCHANGED <<kind, page, up, down, typing, local, expected, snap, heard, astray>>

\* rrweb replays a scroll smoothly; nobody knows where it passes.
Glide ==
  /\ glide # None
  /\ \E p \in Place \ {pos} : Move(p) /\ glide' = IF p = glide THEN None ELSE glide
  /\ UNCHANGED <<kind, page, up, down, typing, local, expected, snap, heard, astray, left>>

(* localScroll(): an expected position and the way to it are not the user's; the rest is
   sent, ten times a second. *)
NativeScroll ==
  /\ due /\ due' = FALSE
  /\ IF expected # None
     THEN /\ expected' = IF expected = pos THEN None ELSE expected
          /\ astray' = IF expected # pos /\ glide = None THEN astray \cup {"swallowed"} ELSE astray
          /\ UNCHANGED <<local, up>>
     ELSE /\ \/ /\ local' = [recent |-> TRUE, spent |-> TRUE, held |-> None]
                /\ up' = Append(up, Scroll(pos))
             \/ /\ local.spent
                /\ local' = [local EXCEPT !.recent = TRUE, !.held = pos]
                /\ UNCHANGED up
          /\ astray' = astray \ AboutScroller
          /\ UNCHANGED expected
  /\ UNCHANGED <<kind, page, down, typing, pos, glide, snap, heard, left>>

\* The throttle: what was held is sent.
ThrottleTimer ==
  /\ local.spent
  /\ IF local.held = None
     THEN local' = [local EXCEPT !.spent = FALSE] /\ UNCHANGED up
     ELSE local' = [local EXCEPT !.held = None] /\ up' = Append(up, Scroll(local.held))
  /\ UNCHANGED <<kind, page, down, typing, pos, due, glide, expected, snap, heard, astray, left>>

\* Native events come with the next frame, before any of the longer times are over.
Still == ~due /\ glide = None

\* suppressMs after the last local scroll, which is longer than the throttle
ScrollWindowEnds ==
  /\ local.recent /\ ~local.spent /\ Still
  /\ local' = [local EXCEPT !.recent = FALSE]
  /\ UNCHANGED <<kind, page, up, down, typing, pos, due, glide, expected, snap, heard, astray, left>>

ExpectationExpires ==
  /\ expected # None /\ Still
  /\ expected' = None
  /\ UNCHANGED <<kind, page, up, down, typing, pos, due, glide, local, snap, heard, astray, left>>

\* snapAuthoritative()
Snap(p) == Move(p) /\ expected' = p /\ glide' = None

\* scheduleReconcile()'s timer, which waits for the window of a newer local scroll.
SnapTimer ==
  /\ snap # None /\ ~local.recent
  /\ Snap(snap) /\ snap' = None
  /\ astray' = (astray \ AboutScroller) \cup (IF snap # heard THEN {"late"} ELSE {})
  /\ UNCHANGED <<kind, page, up, down, typing, local, heard, left>>

\* Mutant: as for an element, what the page's window did meanwhile is dropped.
HeldBack_Dropped(p) == snap

\* What the window is brought to once the user rests.
HeldBack(p) == IF kind = "window" THEN p ELSE snap

\* The filter.
HearScroll(p) ==
  /\ heard' = p
  /\ IF local.recent
     THEN /\ snap' = HeldBack(p)
          /\ astray' = IF kind = "element" THEN astray \cup {"ignored"} ELSE astray
          /\ UNCHANGED <<pos, due, glide, expected>>
     ELSE /\ IF kind = "window" THEN Snap(p)
             ELSE /\ expected' = p /\ glide' = IF p = pos THEN None ELSE p
                  /\ UNCHANGED <<pos, due>>
          /\ astray' = astray \ AboutScroller
          /\ UNCHANGED snap
  /\ UNCHANGED <<typing, local>>

------------------------------------------------------------------------------
(* A snapshot (mirror.ts, rebuild()): what the user was doing is captured, the filters are
   reset, and the capture is put back into the new document. *)

\* echo's hook restores a field that is being edited.
Captured == focused /\ edit.on

\* Scrollers that were not at their top are put back; rrweb places the window itself.
PlacedAt(p) == IF kind = "window" \/ pos = 0 THEN p ELSE pos

Rebuild(m) ==
  /\ field' = IF Captured THEN field ELSE m.val
  /\ edit' = IF Captured THEN edit ELSE NoEdit
  /\ composing' = FALSE
  /\ pos' = PlacedAt(m.pos) /\ due' = (PlacedAt(m.pos) # 0) /\ glide' = None
  /\ local' = NoLocal /\ expected' = None /\ snap' = None /\ heard' = m.pos
  /\ astray' = IF ~Captured THEN {} ELSE
                 (astray \cap AboutField) \cup (IF m.val # Reconciled THEN {"overwritten"} ELSE {})
  /\ UNCHANGED focused

\* The pipeline: the next event of the page.
Hear ==
  /\ down # <<>>
  /\ down' = Tail(down)
  /\ LET m == Head(down) IN
     \/ m.t = "value" /\ HearValue(m.val)
     \/ m.t = "scroll" /\ HearScroll(m.pos)
     \/ m.t = "snapshot" /\ Rebuild(m)
  /\ UNCHANGED <<kind, page, up, left>>

Next ==
  \/ ReceiveValue \/ ReceiveScroll \/ TakeSnapshot \/ Hear
  \/ Focus \/ EndComposition \/ Blur \/ EditWindowEnds \/ DecayTimer
  \/ Glide \/ NativeScroll \/ ThrottleTimer \/ ScrollWindowEnds \/ ExpectationExpires \/ SnapTimer
  \/ \E v \in Value : PageSets(v) \/ \E c \in BOOLEAN : Type(v, c)
  \/ \E p \in Place : PageScrolls(p) \/ UserScrolls(p)

Spec == Init /\ [][Next]_vars

------------------------------------------------------------------------------
(* Properties. *)

Quiet == up = <<>> /\ down = <<>>

(***************************************************************************)
(* When the wire is quiet and the window is over, the field of the mirror  *)
(* holds what the page's holds: no half of a burst of keys, no value the   *)
(* page has corrected since, and nothing that blur, composition or a       *)
(* rebuild in mid-edit left there.  Two cases are set apart: an edit the   *)
(* page did not take, of which it tells nobody; and a restored field whose *)
(* snapshot knew better (for one, when a composition was cut off by it).   *)
(***************************************************************************)
FieldReconciled ==
  /\ TypeOK
  /\ Quiet /\ ~edit.on /\ ~composing /\ astray \cap AboutField = {} => field = page.val

Resting == Quiet /\ Still /\ ~local.spent /\ ~local.recent /\ snap = None

(***************************************************************************)
(* When everybody rests, mirror and page are at the same place, whoever    *)
(* moved it there.  Set apart: a place the page refused, a user's scroll   *)
(* that was taken for the replay's, an element whose page scrolled within  *)
(* the user's window, and a held-back snap that fired late.                *)
(***************************************************************************)
ScrollReconciled == Resting /\ astray \cap AboutScroller = {} => pos = page.pos
==============================================================================
