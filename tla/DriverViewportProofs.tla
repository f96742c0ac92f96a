------------------------ MODULE DriverViewportProofs ------------------------
(***************************************************************************)
(* Machine-checked proofs about DriverViewport, for every set of viewers,  *)
(* invitations and sizes, and every number of disturbances: input that is  *)
(* let through was aimed at the geometry the page has, the gate only opens *)
(* on the final geometry, a lock is always pursued, and somebody drives    *)
(* whenever somebody may.                                                  *)
(***************************************************************************)
EXTENDS DriverViewport, WellFoundedInduction, TLAPS

------------------------------------------------------------------------------
(* The inductive invariant. *)

(* The revisions of the negotiation.  Nothing is applied that was not asked for; the one
   being applied is newer than the one applied, and the debounce only runs while nothing is
   under way and something is left to apply. *)
RevisionsOK ==
  /\ nego.applied <= nego.desired.rev
  /\ nego.desired.rev > 0 => nego.desired.size \in Size
  /\ nego.debounce => ~Busy(nego) /\ nego.applied < nego.desired.rev
  /\ nego.applying # NoRevision =>
       /\ ~nego.inFlight /\ nego.applying.size \in Size
       /\ nego.applied < nego.applying.rev /\ nego.applying.rev <= nego.desired.rev
       /\ nego.applying.rev = nego.desired.rev => nego.applying.size = nego.desired.size

\* What was asked for last is what Chromium has, once it is applied.
AppliedOK ==
  nego.applying = NoRevision /\ nego.applied = nego.desired.rev /\ nego.desired.rev > 0
    => metrics = nego.desired.size

\* A lock has something to wait for, which is pursued; without one nothing is.
LockOK ==
  /\ gate.pending => nego.desired.rev > 0 /\ (nego.debounce \/ Busy(nego))
  /\ ~gate.pending => ~Superseded /\ ~nego.debounce /\ ~nego.inFlight
  /\ hub.owes => nego.inFlight

\* The answer to an override, on its way to the gateway.
IsAnswer(m) == m.t # "shot"

(* Chromium's output.  One override is under way at a time; a snapshot that no answer
   follows was taken at the metrics the page has now. *)
WireOK ==
  /\ todo => nego.applying # NoRevision
  /\ \A i, j \in 1..Len(wire) : IsAnswer(wire[i]) /\ IsAnswer(wire[j]) => i = j
  /\ \A i \in 1..Len(wire) : IsAnswer(wire[i]) => ~todo /\ nego.applying # NoRevision
  /\ \A i \in 1..Len(wire) : wire[i].t = "applied" => metrics = nego.applying.size
  /\ \A i \in 1..Len(wire) :
       wire[i].t = "shot" /\ wire[i].size # metrics => \E j \in i+1..Len(wire) : IsAnswer(wire[j])

\* The gate has opened an epoch and no later `view` has locked it since.
Settled == ~gate.pending /\ gate.required # 0

HubOK ==
  /\ gate.required <= hub.epoch
  /\ Settled => hub.held = metrics

(* What is on its way to a viewer: epochs never fall, the hub opened them, and from the
   one the gate waits for on they have the metrics of the page. *)
DownOK(v) ==
  /\ v \notin ToSet(peers) => down[v] = <<>>
  /\ \A i \in 1..Len(down[v]) : down[v][i].t = "snapshot" =>
       /\ down[v][i].epoch <= hub.epoch
       /\ Settled /\ gate.required <= down[v][i].epoch => down[v][i].size = metrics
  /\ \A i, j \in 1..Len(down[v]) :
       i < j /\ down[v][i].t = "snapshot" /\ down[v][j].t = "snapshot"
         => down[v][i].epoch <= down[v][j].epoch

\* Acknowledgements are of epochs the hub opened, and of somebody connected.
AcksOK(v) ==
  /\ gate.acked[v] <= hub.epoch
  /\ v \notin ToSet(peers) => gate.acked[v] = 0
  /\ \A i \in 1..Len(up[v]) :
       up[v][i].t = "view-ack" => up[v][i].epoch <= hub.epoch /\ v \in ToSet(peers)

\* The viewer's acknowledgement of the awaited epoch has arrived, or is on its way.
HasAcked(v) ==
  \/ gate.acked[v] = gate.required
  \/ \E i \in 1..Len(up[v]) : up[v][i].t = "view-ack" /\ up[v][i].epoch = gate.required

(* Whoever acknowledged the awaited epoch displays the metrics of the page, and will see
   no snapshot from before it. *)
SeenOK(v) ==
  Settled /\ HasAcked(v) =>
    /\ client[v].displays \in {metrics, NoSize}
    /\ \A i \in 1..Len(down[v]) :
         down[v][i].t = "snapshot" => gate.required <= down[v][i].epoch

ViewerOK(v) == DownOK(v) /\ AcksOK(v) /\ SeenOK(v)

DriverOK == driver = NoViewer => ToSet(peers) \cap DriverInvite = {}

IInv ==
  /\ TypeOK /\ DriverOK
  /\ RevisionsOK /\ AppliedOK /\ LockOK /\ WireOK /\ HubOK
  /\ \A v \in Viewer : ViewerOK(v)

------------------------------------------------------------------------------
(* Facts about the peers of a session. *)

\* A set of numbers that is not empty has a least element, which is what Min returns.
LEMMA LeastElement ==
  ASSUME NEW S \in SUBSET Nat, S # {}
  PROVE  Min(S) \in S /\ \A y \in S : Min(S) <= y
<1>1. \E x \in S : \A y \in S : ~ (<<y, x>> \in OpToRel(<, Nat))
  BY NatLessThanWellFounded, WFMin
<1>2. PICK x \in S : \A y \in S : ~ (<<y, x>> \in OpToRel(<, Nat))
  BY <1>1
<1>3. \A y \in S : x <= y
  <2>1. SUFFICES ASSUME NEW y \in S, y < x PROVE FALSE
    BY SMT
  <2>2. <<y, x>> \in OpToRel(<, Nat)
    BY <2>1 DEF OpToRel
  <2> QED BY <2>2, <1>2
<1> QED BY <1>3, Zenon DEF Min

\* A peer that connects joins the others, once.
LEMMA AppendedPeer ==
  ASSUME NEW s \in Seq(Viewer), IsInjective(s), NEW v \in Viewer, v \notin ToSet(s)
  PROVE  /\ Append(s, v) \in Seq(Viewer)
         /\ IsInjective(Append(s, v))
         /\ ToSet(Append(s, v)) = ToSet(s) \cup {v}
BY SMT DEF IsInjective, ToSet

\* The place of the one that is to leave.
LEMMA FoundPeer ==
  ASSUME NEW s \in Seq(Viewer), NEW v \in ToSet(s)
  PROVE  LET k == SelectInSeq(s, LAMBDA w : w = v)
         IN  k \in 1..Len(s) /\ s[k] = v
<1> DEFINE I == {i \in 1..Len(s) : s[i] = v}
<1>1. I \in SUBSET Nat /\ I # {}
  BY SMT DEF ToSet
<1>2. Min(I) \in I
  BY <1>1, LeastElement
<1>3. SelectInSeq(s, LAMBDA w : w = v) = Min(I)
  BY <1>1 DEF SelectInSeq
<1> QED BY <1>2, <1>3

\* A peer that disconnects leaves the others as they were.
LEMMA RemovedPeer ==
  ASSUME NEW s \in Seq(Viewer), IsInjective(s), NEW v \in ToSet(s)
  PROVE  /\ RemoveFirst(s, v) \in Seq(Viewer)
         /\ IsInjective(RemoveFirst(s, v))
         /\ ToSet(RemoveFirst(s, v)) = ToSet(s) \ {v}
<1> DEFINE k == SelectInSeq(s, LAMBDA w : w = v)
           a == SubSeq(s, 1, k-1)
           b == SubSeq(s, k+1, Len(s))
           r == a \o b
<1>1. k \in 1..Len(s) /\ s[k] = v
  BY FoundPeer
<1>2. RemoveFirst(s, v) = r
  BY <1>1 DEF RemoveFirst, RemoveAt
<1> HIDE DEF k
<1>3. /\ r \in Seq(Viewer) /\ Len(r) = Len(s) - 1
      /\ \A i \in 1..Len(r) : r[i] = IF i < k THEN s[i] ELSE s[i+1]
  <2>1. /\ a \in Seq(Viewer) /\ Len(a) = k - 1
        /\ \A i \in 1..Len(a) : a[i] = s[i]
    BY <1>1, SMT
  <2>2. /\ b \in Seq(Viewer) /\ Len(b) = Len(s) - k
        /\ \A i \in 1..Len(b) : b[i] = s[k+i]
    BY <1>1, SMT
  <2> HIDE DEF a, b
  <2>3. r \in Seq(Viewer) /\ Len(r) = Len(a) + Len(b)
    <3>1. a \in Seq(Viewer) /\ b \in Seq(Viewer)
      BY <2>1, <2>2
    <3> QED BY <3>1, SMT
  <2>4. ASSUME NEW i \in 1..Len(r) PROVE r[i] = IF i < k THEN s[i] ELSE s[i+1]
    <3>1. CASE i < k
      <4>1. i \in 1..Len(a) /\ r[i] = a[i]
        BY <3>1, <2>1, <2>2, <2>3, <2>4, <1>1, SMT
      <4> QED BY <4>1, <3>1, <2>1
    <3>2. CASE ~ (i < k)
      <4>1. i - Len(a) \in 1..Len(b) /\ r[i] = b[i - Len(a)] /\ k + (i - Len(a)) = i + 1
        BY <3>2, <2>1, <2>2, <2>3, <2>4, <1>1, SMT
      <4> QED BY <4>1, <3>2, <2>2
    <3> QED BY <3>1, <3>2
  <2>5. Len(r) = Len(s) - 1
    BY <2>1, <2>2, <2>3, <1>1, SMT
  <2> QED BY <2>3, <2>4, <2>5
<1> HIDE DEF r
<1>4. IsInjective(r)
  BY <1>1, <1>3, SMT DEF IsInjective
<1>5. ASSUME NEW w \in ToSet(r) PROVE w \in ToSet(s) \ {v}
  <2>1. PICK i \in 1..Len(r) : r[i] = w
    BY <1>3, SMT DEF ToSet
  <2>2. PICK j \in 1..Len(s) : w = s[j] /\ j # k
    <3>1. CASE i < k
      BY <3>1, <2>1, <1>1, <1>3, SMT
    <3>2. CASE ~ (i < k)
      <4>1. i + 1 \in 1..Len(s) /\ i + 1 # k /\ w = s[i + 1]
        BY <3>2, <2>1, <1>1, <1>3, SMT
      <4> QED BY <4>1
    <3> QED BY <3>1, <3>2
  <2>3. s[j] # s[k]
    BY <2>2, <1>1, SMT DEF IsInjective
  <2> QED BY <2>2, <2>3, <1>1, SMT DEF ToSet
<1>6. ASSUME NEW w \in ToSet(s) \ {v} PROVE w \in ToSet(r)
  <2>1. PICK i \in 1..Len(s) : s[i] = w
    BY SMT DEF ToSet
  <2>2. i # k
    BY <2>1, <1>1
  <2>3. CASE i < k
    <3>1. i \in 1..Len(r) /\ r[i] = w
      BY <2>1, <2>3, <1>1, <1>3, SMT
    <3> QED BY <3>1, <1>3 DEF ToSet
  <2>4. CASE i > k
    <3>1. i-1 \in 1..Len(r) /\ r[i-1] = w
      BY <2>1, <2>4, <1>1, <1>3, SMT
    <3> QED BY <3>1, <1>3 DEF ToSet
  <2> QED BY <2>2, <2>3, <2>4, <1>1, SMT
<1> QED BY <1>2, <1>3, <1>4, <1>5, <1>6

\* Who takes over is one of them that may drive, and nobody only when none of them may.
LEMMA ReplacementFound ==
  ASSUME NEW s \in Seq(Viewer)
  PROVE  /\ Replacement(s) \in ToSet(s) \cup {NoViewer}
         /\ Replacement(s) = NoViewer => ToSet(s) \cap DriverInvite = {}
<1> DEFINE I == {i \in 1..Len(s) : s[i] \in DriverInvite}
           first == SelectInSeq(s, LAMBDA p : p \in DriverInvite)
<1>1. Replacement(s) = IF first = 0 THEN NoViewer ELSE s[first]
  BY DEF Replacement
<1>2. first = IF I # {} THEN Min(I) ELSE 0
  BY DEF SelectInSeq
<1> HIDE DEF first
<1>3. CASE I = {}
  <2>1. ToSet(s) \cap DriverInvite = {}
    BY <1>3, SMT DEF ToSet
  <2>2. Replacement(s) = NoViewer
    BY <1>1, <1>2, <1>3
  <2> QED BY <2>1, <2>2
<1>4. CASE I # {}
  <2>1. Min(I) \in I
    <3>1. I \in SUBSET Nat
      BY SMT
    <3> HIDE DEF I
    <3> QED BY <1>4, <3>1, LeastElement
  <2>2. first \in 1..Len(s) /\ first # 0
    BY <2>1, <1>2, <1>4, SMT
  <2>3. Replacement(s) \in ToSet(s) /\ Replacement(s) # NoViewer
    BY <2>2, <1>1, ViewportConstants, SMT DEF ToSet
  <2> QED BY <2>3
<1> QED BY <1>3, <1>4

------------------------------------------------------------------------------
(* Steps that leave the viewers alone. *)

Negotiation == [desired : Revision, applied : Nat, applying : Revision,
                inFlight : BOOLEAN, debounce : BOOLEAN]

\* The disturbances left are counted down.
LEMMA BudgetTyped ==
  ASSUME IInv, Calm \/ Fault \/ Churn
  PROVE  left' \in [churn : Nat, faults : Nat]
<1>1. left \in [churn : Nat, faults : Nat]
  BY Zenon DEF IInv, TypeOK
<1> QED BY <1>1, SMT DEF Calm, Fault, Churn

\* What is not touched stays as it was.
LEMMA ViewersStay ==
  ASSUME IInv, UNCHANGED <<gate, metrics, peers, up, down>>, hub'.epoch = hub.epoch,
         hub'.held = hub.held, \A v \in Viewer : client'[v].displays = client[v].displays
  PROVE  HubOK' /\ \A v \in Viewer : ViewerOK(v)'
<1>1. HubOK'
  BY SMT DEF IInv, HubOK, Settled
<1>2. ASSUME NEW v \in Viewer PROVE ViewerOK(v)'
  <2>1. DownOK(v)'
    BY SMT DEF IInv, ViewerOK, DownOK, Settled
  <2>2. AcksOK(v)'
    BY SMT DEF IInv, ViewerOK, AcksOK
  <2>3. SeenOK(v)'
    BY SMT DEF IInv, ViewerOK, SeenOK, HasAcked, Settled
  <2> QED BY <2>1, <2>2, <2>3 DEF ViewerOK
<1> QED BY <1>1, <1>2

\* The debounce ends.
LEMMA ApplyOverrideStep ==
  ASSUME IInv, ApplyOverride
  PROVE  IInv'
<1>1. /\ nego.debounce /\ ~Busy(nego) /\ nego.applied < nego.desired.rev
      /\ nego.applying = NoRevision /\ ~nego.inFlight
  BY SMT DEF IInv, RevisionsOK, ApplyOverride, Busy
<1>2. /\ nego' = [nego EXCEPT !.debounce = FALSE, !.applying = nego.desired]
      /\ todo' = TRUE
      /\ UNCHANGED <<gate, metrics, wire, hub, peers, driver, latest, up, down, client, shown, left>>
  BY <1>1, Zenon DEF ApplyOverride, Gateway, roleVars
<1>3. /\ nego'.desired = nego.desired /\ nego'.applied = nego.applied /\ nego'.applying = nego.desired
      /\ nego'.inFlight = nego.inFlight /\ nego'.debounce = FALSE
      /\ nego' \in Negotiation
  <2>1. nego \in Negotiation
    BY Zenon DEF IInv, TypeOK, Negotiation
  <2>2. nego' \in Negotiation
    BY <2>1, <1>2, Zenon DEF Negotiation
  <2> QED BY <2>1, <2>2, <1>2, SMT DEF Negotiation
<1>4. nego.desired # NoRevision /\ nego.desired.size \in Size
  BY <1>1, SMT DEF IInv, TypeOK, Revision, NoRevision, RevisionsOK
<1>5. TypeOK' /\ DriverOK'
  BY <1>2, <1>3, SMT DEF IInv, TypeOK, DriverOK, Negotiation
<1>6. RevisionsOK' /\ AppliedOK'
  BY <1>1, <1>2, <1>3, <1>4, SMT DEF IInv, TypeOK, Revision, RevisionsOK, AppliedOK, Busy
<1>7. LockOK'
  BY <1>1, <1>2, <1>3, <1>4, SMT DEF IInv, LockOK, Superseded, Busy
<1>8. WireOK'
  <2>1. \A i \in 1..Len(wire) : ~IsAnswer(wire[i]) /\ wire[i].t # "applied"
    BY <1>1, SMT DEF IInv, WireOK, IsAnswer
  <2> QED BY <1>2, <1>3, <1>4, <2>1, Zenon DEF IInv, WireOK
<1>9. HubOK' /\ \A v \in Viewer : ViewerOK(v)'
  BY <1>2, ViewersStay
<1> QED BY <1>5, <1>6, <1>7, <1>8, <1>9 DEF IInv

WireMsg == [t : {"applied", "refused"}] \cup [t : {"shot"}, size : Size]

\* Chromium's output, one message less.
LEMMA WireLess ==
  ASSUME IInv, wire # <<>>, wire' = Tail(wire)
  PROVE  /\ wire' \in Seq(WireMsg) /\ Len(wire') = Len(wire) - 1 /\ Head(wire) = wire[1]
         /\ 1 \in 1..Len(wire) /\ wire[1] \in WireMsg
         /\ \A i \in 1..Len(wire') : i+1 \in 1..Len(wire) /\ wire'[i] = wire[i+1]
<1>1. wire \in Seq(WireMsg)
  BY Zenon DEF IInv, TypeOK, WireMsg
<1> QED BY <1>1, SMT

\* Chromium's output, one message more.
LEMMA WireMore ==
  ASSUME IInv, NEW m \in WireMsg, wire' = Append(wire, m)
  PROVE  /\ wire' \in Seq(WireMsg) /\ Len(wire') = Len(wire) + 1 /\ wire'[Len(wire')] = m
         /\ \A i \in 1..Len(wire) : i \in 1..Len(wire') /\ wire'[i] = wire[i]
<1>1. wire \in Seq(WireMsg)
  BY Zenon DEF IInv, TypeOK, WireMsg
<1> QED BY <1>1, SMT

\* Without an override under way, all that Chromium has sent is snapshots of what it has.
LEMMA OnlyShots ==
  ASSUME IInv, \A i \in 1..Len(wire) : ~IsAnswer(wire[i])
  PROVE  \A i \in 1..Len(wire) : wire[i].t = "shot" /\ wire[i].size = metrics
<1>1. ASSUME NEW i \in 1..Len(wire) PROVE wire[i].t = "shot" /\ wire[i].size = metrics
  <2>1. \A j \in i+1..Len(wire) : j \in 1..Len(wire)
    BY SMT DEF IInv, TypeOK
  <2> QED BY <2>1, SMT DEF IInv, WireOK, IsAnswer
<1> QED BY <1>1

\* Chromium answers a setDeviceMetricsOverride.
LEMMA OverrideStep ==
  ASSUME IInv, Override
  PROVE  IInv'
<1>1. /\ todo /\ todo' = FALSE
      /\ UNCHANGED <<nego, gate, hub, peers, driver, latest, up, down, client, shown>>
  BY Zenon DEF Override, Gateway, roleVars
<1>2. /\ nego.applying # NoRevision /\ nego.applying.size \in Size /\ gate.pending
      /\ \A i \in 1..Len(wire) : ~IsAnswer(wire[i])
  BY <1>1, SMT DEF IInv, WireOK, RevisionsOK, LockOK, Superseded
<1>3. PICK m \in [t : {"applied", "refused"}] :
        /\ wire' = Append(wire, m)
        /\ m.t = "applied" => metrics' = nego.applying.size
        /\ metrics' \in {metrics, nego.applying.size}
        /\ left' \in [churn : Nat, faults : Nat]
  <2>1. CASE Calm /\ metrics' = nego.applying.size /\ wire' = Append(wire, [t |-> "applied"])
    BY <2>1, BudgetTyped, SMT
  <2>2. CASE Fault /\ metrics' \in {metrics, nego.applying.size} /\ wire' = Append(wire, [t |-> "refused"])
    BY <2>2, BudgetTyped, SMT
  <2> QED BY <2>1, <2>2 DEF Override
<1>4. /\ m \in WireMsg /\ IsAnswer(m)
      /\ wire' \in Seq(WireMsg) /\ Len(wire') = Len(wire) + 1 /\ wire'[Len(wire')] = m
      /\ \A i \in 1..Len(wire) : wire'[i] = wire[i]
  <2>1. m \in WireMsg /\ IsAnswer(m)
    BY SMT DEF WireMsg, IsAnswer
  <2> QED BY <2>1, <1>3, WireMore
<1>5. TypeOK' /\ DriverOK'
  <2>1. metrics' \in Size
    BY <1>2, <1>3, SMT DEF IInv, TypeOK
  <2>2. todo' \in BOOLEAN
    BY <1>1, Zenon
  <2>3. wire' \in Seq(WireMsg)
    BY <1>4
  <2> QED BY <1>1, <1>3, <2>1, <2>2, <2>3 DEF IInv, TypeOK, DriverOK, WireMsg
<1>6. RevisionsOK' /\ AppliedOK' /\ LockOK'
  BY <1>1, <1>2, <1>3, SMT DEF IInv, RevisionsOK, AppliedOK, LockOK, Busy, Superseded
<1>7. WireOK'
  <2>1. Len(wire) \in Nat
    BY SMT DEF IInv, TypeOK
  <2>2. \A i \in 1..Len(wire') : IsAnswer(wire'[i]) => i = Len(wire')
    BY <2>1, <1>2, <1>4, SMT
  <2>3. \A i \in 1..Len(wire') : wire'[i].t = "applied" => i = Len(wire')
    BY <2>2 DEF IsAnswer
  <2>4. \A i \in 1..Len(wire') : wire'[i].t = "shot" => Len(wire') \in i+1..Len(wire')
    BY <2>1, <1>4, SMT DEF IsAnswer
  <2>5. \A i \in 1..Len(wire') : IsAnswer(wire'[i]) => ~todo' /\ nego'.applying # NoRevision
    BY <1>1, <1>2
  <2>6. \A i \in 1..Len(wire') : wire'[i].t = "applied" => metrics' = nego'.applying.size
    BY <2>3, <1>1, <1>3, <1>4
  <2>7. \A i \in 1..Len(wire') :
          wire'[i].t = "shot" /\ wire'[i].size # metrics' => \E j \in i+1..Len(wire') : IsAnswer(wire'[j])
    BY <2>4, <1>4
  <2> QED BY <2>2, <2>5, <2>6, <2>7, <1>1 DEF WireOK, IsAnswer
<1>8. HubOK' /\ \A v \in Viewer : ViewerOK(v)'
  BY <1>1, <1>2, SMT DEF IInv, HubOK, ViewerOK, DownOK, AcksOK, SeenOK, HasAcked, Settled
<1> QED BY <1>5, <1>6, <1>7, <1>8 DEF IInv

\* Behind the answer to an override come only snapshots taken with it.
LEMMA BehindAnswer ==
  ASSUME IInv, wire # <<>>, IsAnswer(Head(wire)), wire' = Tail(wire), UNCHANGED <<metrics, todo>>
  PROVE  /\ nego.applying # NoRevision /\ gate.pending /\ ~nego.inFlight
         /\ wire[1] = Head(wire) /\ 1 \in 1..Len(wire)
         /\ wire' \in Seq(WireMsg) /\ WireOK'
<1>1. /\ wire' \in Seq(WireMsg) /\ Len(wire') = Len(wire) - 1 /\ Head(wire) = wire[1]
      /\ 1 \in 1..Len(wire) /\ wire[1] \in WireMsg
      /\ \A i \in 1..Len(wire') : i+1 \in 1..Len(wire) /\ wire'[i] = wire[i+1]
  BY WireLess
<1>2. nego.applying # NoRevision /\ ~todo
  BY <1>1, SMT DEF IInv, WireOK
<1>3. gate.pending /\ ~nego.inFlight
  BY <1>2, SMT DEF IInv, LockOK, Superseded, RevisionsOK
<1>4. ASSUME NEW i \in 1..Len(wire') PROVE ~IsAnswer(wire'[i])
  <2>1. i+1 \in 1..Len(wire) /\ wire'[i] = wire[i+1] /\ i+1 # 1
    BY <1>1, SMT
  <2> QED BY <2>1, <1>1, SMT DEF IInv, WireOK
<1>5. ASSUME NEW i \in 1..Len(wire') PROVE wire'[i].t # "applied"
  BY <1>4 DEF IsAnswer
<1>6. ASSUME NEW i \in 1..Len(wire'), wire'[i].t = "shot", wire'[i].size # metrics PROVE FALSE
  <2>1. i+1 \in 1..Len(wire) /\ wire'[i] = wire[i+1]
    BY <1>1
  <2>2. PICK j \in (i+1)+1..Len(wire) : IsAnswer(wire[j])
    BY <2>1, <1>6, SMT DEF IInv, WireOK
  <2>3. j-1 \in 1..Len(wire') /\ wire'[j-1] = wire[j]
    BY <1>1, SMT
  <2> QED BY <2>2, <2>3, <1>4
<1>7. WireOK'
  BY <1>2, <1>4, <1>5, <1>6, Zenon DEF WireOK
<1> QED BY <1>1, <1>2, <1>3, <1>7

\* apply() goes on with a snapshot.
LEMMA OverrideAppliedStep ==
  ASSUME IInv, OverrideApplied
  PROVE  IInv'
<1>1. /\ wire # <<>> /\ Head(wire).t = "applied" /\ IsAnswer(Head(wire)) /\ wire' = Tail(wire)
      /\ nego' = [nego EXCEPT !.applied = nego.applying.rev, !.applying = NoRevision, !.inFlight = TRUE]
      /\ UNCHANGED <<gate, metrics, todo, peers, driver, latest, up, down, client, shown>>
  BY SMT DEF OverrideApplied, Gateway, roleVars, IsAnswer
<1>2. /\ nego.applying # NoRevision /\ gate.pending /\ ~nego.inFlight
      /\ wire[1] = Head(wire) /\ 1 \in 1..Len(wire) /\ wire' \in Seq(WireMsg) /\ WireOK'
  BY <1>1, BehindAnswer
<1>3. metrics = nego.applying.size
  BY <1>1, <1>2, SMT DEF IInv, WireOK
<1>4. hub'.epoch = hub.epoch /\ hub'.held = hub.held
      /\ hub' \in [epoch : Nat, held : Size \cup {NoSize}, owes : BOOLEAN]
      /\ left' \in [churn : Nat, faults : Nat]
  <2>1. left' \in [churn : Nat, faults : Nat]
    BY BudgetTyped DEF OverrideApplied
  <2>2. hub' = [hub EXCEPT !.owes = TRUE] \/ hub' = hub
    BY DEF OverrideApplied
  <2>3. hub' \in [epoch : Nat, held : Size \cup {NoSize}, owes : BOOLEAN]
    BY <2>2, Zenon DEF IInv, TypeOK
  <2> QED BY <2>1, <2>2, <2>3, SMT DEF IInv, TypeOK
<1>5. nego' \in Negotiation
  <2>1. nego \in Negotiation
    BY Zenon DEF IInv, TypeOK, Negotiation
  <2>2. nego.applying.rev \in Nat /\ NoRevision \in Revision
    BY <2>1, SMT DEF Negotiation, Revision, NoRevision
  <2> QED BY <2>1, <2>2, <1>1, Zenon DEF Negotiation
<1>6. /\ nego'.desired = nego.desired /\ nego'.applied = nego.applying.rev
      /\ nego'.applying = NoRevision /\ nego'.inFlight /\ nego'.debounce = nego.debounce
  BY <1>1, SMT DEF IInv, TypeOK
<1>7. TypeOK' /\ DriverOK'
  BY <1>1, <1>2, <1>4, <1>5 DEF IInv, TypeOK, DriverOK, WireMsg, Negotiation
<1>8. RevisionsOK' /\ AppliedOK'
  BY <1>1, <1>2, <1>3, <1>6, SMT DEF IInv, TypeOK, Revision, RevisionsOK, AppliedOK, Busy
<1>9. LockOK'
  BY <1>1, <1>2, <1>6, SMT DEF IInv, LockOK, Busy
<1>10. HubOK' /\ \A v \in Viewer : ViewerOK(v)'
  BY <1>1, <1>4, ViewersStay
<1> QED BY <1>2, <1>7, <1>8, <1>9, <1>10 DEF IInv

\* The override was refused, and the debounce starts anew.
LEMMA OverrideRefusedStep ==
  ASSUME IInv, OverrideRefused
  PROVE  IInv'
<1>1. /\ wire # <<>> /\ IsAnswer(Head(wire)) /\ wire' = Tail(wire)
      /\ nego' = AfterRefusal([nego EXCEPT !.applying = NoRevision])
      /\ UNCHANGED <<gate, metrics, todo, hub, peers, driver, latest, up, down, client, shown, left>>
  BY SMT DEF OverrideRefused, Gateway, roleVars, IsAnswer
<1>2. /\ nego.applying # NoRevision /\ gate.pending /\ ~nego.inFlight
      /\ wire' \in Seq(WireMsg) /\ WireOK'
  BY <1>1, BehindAnswer
<1>3. nego \in Negotiation /\ NoRevision \in Revision
  <2>1. nego \in Negotiation
    BY Zenon DEF IInv, TypeOK, Negotiation
  <2> QED BY <2>1, SMT DEF Revision, NoRevision
<1>4. nego' = [nego EXCEPT !.applying = NoRevision, !.debounce = TRUE]
  <2> DEFINE n == [nego EXCEPT !.applying = NoRevision]
  <2>1. n.applying = NoRevision /\ n.inFlight = nego.inFlight
    BY <1>3, SMT DEF Negotiation
  <2>2. ~Busy(n)
    BY <2>1, <1>2 DEF Busy
  <2> HIDE DEF n
  <2>3. nego' = [n EXCEPT !.debounce = TRUE]
    BY <1>1, <2>2, Zenon DEF AfterRefusal, ScheduleApply, n
  <2> QED BY <2>3, <1>3, SMT DEF n, Negotiation
<1>5. nego' \in Negotiation
  BY <1>3, <1>4, Zenon DEF Negotiation
<1>6. /\ nego'.desired = nego.desired /\ nego'.applied = nego.applied
      /\ nego'.applying = NoRevision /\ nego'.inFlight = nego.inFlight /\ nego'.debounce
  BY <1>4, <1>3, SMT DEF Negotiation
<1>7. TypeOK' /\ DriverOK'
  BY <1>1, <1>2, <1>5 DEF IInv, TypeOK, DriverOK, WireMsg, Negotiation
<1>8. RevisionsOK' /\ AppliedOK'
  BY <1>1, <1>2, <1>6, SMT DEF IInv, TypeOK, Revision, RevisionsOK, AppliedOK, Busy
<1>9. LockOK'
  BY <1>1, <1>2, <1>6, SMT DEF IInv, LockOK
<1>10. HubOK' /\ \A v \in Viewer : ViewerOK(v)'
  BY <1>1, ViewersStay
<1> QED BY <1>2, <1>7, <1>8, <1>9, <1>10 DEF IInv

\* Another snapshot is asked for.
LEMMA RetrySnapshotStep ==
  ASSUME IInv, RetrySnapshot
  PROVE  IInv'
<1>1. /\ nego.inFlight /\ hub' = [hub EXCEPT !.owes = TRUE]
      /\ UNCHANGED <<nego, gate, metrics, todo, wire, peers, driver, latest, up, down, client, shown, left>>
  BY Zenon DEF RetrySnapshot, Gateway, roleVars, pageVars
<1>2. hub' \in [epoch : Nat, held : Size \cup {NoSize}, owes : BOOLEAN]
  BY <1>1, Zenon DEF IInv, TypeOK
<1>3. hub'.epoch = hub.epoch /\ hub'.held = hub.held
  BY <1>1, SMT DEF IInv, TypeOK
<1>4. TypeOK' /\ DriverOK'
  BY <1>1, <1>2 DEF IInv, TypeOK, DriverOK
<1>5. RevisionsOK' /\ AppliedOK' /\ LockOK' /\ WireOK'
  BY <1>1, SMT DEF IInv, RevisionsOK, AppliedOK, LockOK, WireOK, Busy, Superseded
<1>6. HubOK' /\ \A v \in Viewer : ViewerOK(v)'
  BY <1>1, <1>3, ViewersStay
<1> QED BY <1>4, <1>5, <1>6 DEF IInv

\* The request for one is forgotten.
LEMMA ForgetRequestStep ==
  ASSUME IInv, ForgetRequest
  PROVE  IInv'
<1>1. /\ hub' = [hub EXCEPT !.owes = FALSE] /\ Fault
      /\ UNCHANGED <<nego, gate, metrics, todo, wire, peers, driver, latest, up, down, client, shown>>
  BY Zenon DEF ForgetRequest, Gateway, roleVars, pageVars
<1>2. hub' \in [epoch : Nat, held : Size \cup {NoSize}, owes : BOOLEAN]
  BY <1>1, Zenon DEF IInv, TypeOK
<1>3. hub'.epoch = hub.epoch /\ hub'.held = hub.held /\ hub'.owes = FALSE
  BY <1>1, SMT DEF IInv, TypeOK
<1>4. TypeOK' /\ DriverOK'
  <2>1. left' \in [churn : Nat, faults : Nat]
    BY <1>1, BudgetTyped
  <2> QED BY <1>1, <1>2, <2>1 DEF IInv, TypeOK, DriverOK
<1>5. RevisionsOK' /\ AppliedOK' /\ LockOK' /\ WireOK'
  BY <1>1, <1>3, SMT DEF IInv, RevisionsOK, AppliedOK, LockOK, WireOK, Busy, Superseded
<1>6. HubOK' /\ \A v \in Viewer : ViewerOK(v)'
  BY <1>1, <1>3, ViewersStay
<1> QED BY <1>4, <1>5, <1>6 DEF IInv

\* The page emits a full snapshot.
LEMMA EmitSnapshotStep ==
  ASSUME IInv, EmitSnapshot
  PROVE  IInv'
<1> DEFINE m == [t |-> "shot", size |-> metrics]
<1>1. /\ wire' = Append(wire, m)
      /\ UNCHANGED <<nego, gate, metrics, todo, hub, peers, driver, latest, up, down, client, shown>>
  BY Zenon DEF EmitSnapshot, Gateway, roleVars
<1>2. m \in WireMsg /\ m.t = "shot" /\ ~IsAnswer(m) /\ m.size = metrics
  BY SMT DEF WireMsg, IsAnswer, IInv, TypeOK
<1> HIDE DEF m
<1>3. /\ wire' \in Seq(WireMsg) /\ Len(wire') = Len(wire) + 1 /\ wire'[Len(wire')] = m
      /\ \A i \in 1..Len(wire) : i \in 1..Len(wire') /\ wire'[i] = wire[i]
  BY <1>1, <1>2, WireMore
<1>4. TypeOK' /\ DriverOK'
  <2>1. left' \in [churn : Nat, faults : Nat]
    BY BudgetTyped DEF EmitSnapshot
  <2> QED BY <1>1, <1>3, <2>1 DEF IInv, TypeOK, DriverOK, WireMsg
<1>5. RevisionsOK' /\ AppliedOK' /\ LockOK'
  BY <1>1, SMT DEF IInv, RevisionsOK, AppliedOK, LockOK, Busy, Superseded
<1>6. WireOK'
  <2>1. ASSUME NEW i \in 1..Len(wire') PROVE i = Len(wire') \/ (i \in 1..Len(wire) /\ wire'[i] = wire[i])
    BY <1>3, SMT DEF IInv, TypeOK
  <2>2. \A i \in 1..Len(wire') : IsAnswer(wire'[i]) => i \in 1..Len(wire) /\ wire'[i] = wire[i]
    BY <2>1, <1>2, <1>3
  <2>3. \A i \in 1..Len(wire') : wire'[i].t = "applied" => i \in 1..Len(wire) /\ wire'[i] = wire[i]
    BY <2>2 DEF IsAnswer
  <2>4. ASSUME NEW i \in 1..Len(wire'), wire'[i].t = "shot", wire'[i].size # metrics
        PROVE  \E j \in i+1..Len(wire') : IsAnswer(wire'[j])
    <3>1. i \in 1..Len(wire) /\ wire'[i] = wire[i]
      BY <2>1, <2>4, <1>2, <1>3
    <3>2. PICK j \in i+1..Len(wire) : IsAnswer(wire[j])
      BY <3>1, <2>4 DEF IInv, WireOK
    <3>3. j \in i+1..Len(wire') /\ j \in 1..Len(wire)
      BY <3>1, <1>3, SMT DEF IInv, TypeOK
    <3> QED BY <3>2, <3>3, <1>3
  <2>5. \A i, j \in 1..Len(wire') : IsAnswer(wire'[i]) /\ IsAnswer(wire'[j]) => i = j
    BY <2>2 DEF IInv, WireOK
  <2>6. \A i \in 1..Len(wire') : IsAnswer(wire'[i]) => ~todo' /\ nego'.applying # NoRevision
    BY <2>2, <1>1 DEF IInv, WireOK
  <2>7. \A i \in 1..Len(wire') : wire'[i].t = "applied" => metrics' = nego'.applying.size
    BY <2>3, <1>1 DEF IInv, WireOK
  <2>8. todo' => nego'.applying # NoRevision
    BY <1>1 DEF IInv, WireOK
  <2> QED BY <2>4, <2>5, <2>6, <2>7, <2>8, <1>1 DEF WireOK, IsAnswer
<1>7. HubOK' /\ \A v \in Viewer : ViewerOK(v)'
  BY <1>1, ViewersStay
<1> QED BY <1>4, <1>5, <1>6, <1>7 DEF IInv

------------------------------------------------------------------------------
(* Steps that touch a viewer's messages. *)

\* What is on its way to and from a viewer is well formed.
LEMMA DownTyped ==
  ASSUME IInv, NEW v \in Viewer, NEW i \in 1..Len(down[v]), down[v][i].t = "snapshot"
  PROVE  /\ down[v][i].epoch \in Nat /\ down[v][i].size \in Size
         /\ down[v][i].reason \in {"viewport", "trim", "resync"}
<1>1. down[v] \in Seq(DownMsg)
  BY Zenon DEF IInv, TypeOK
<1>2. down[v][i] \in DownMsg
  BY <1>1, SMT
<1> QED BY <1>2, SMT DEF DownMsg

LEMMA UpTyped ==
  ASSUME IInv, NEW v \in Viewer, NEW i \in 1..Len(up[v])
  PROVE  /\ up[v][i].t = "view-ack" => up[v][i].epoch \in Nat
         /\ up[v][i].t = "view" => up[v][i].size \in Size
<1>1. up[v] \in Seq(UpMsg)
  BY Zenon DEF IInv, TypeOK
<1>2. up[v][i] \in UpMsg
  BY <1>1, SMT
<1> QED BY <1>2, SMT DEF UpMsg

(* A step that sends a viewer no snapshot and takes no new acknowledgement from it:
   the snapshots on their way to it are as they were, or one message further, and so are
   its acknowledgements. *)
LEMMA ViewerStep ==
  ASSUME IInv, NEW v \in Viewer, NEW k \in {0, 1},
         metrics' = metrics, hub'.epoch \in Nat, hub.epoch <= hub'.epoch,
         Settled' => Settled /\ gate'.required = gate.required,
         v \in ToSet(peers') <=> v \in ToSet(peers),
         \/ gate'.acked[v] = gate.acked[v]
         \/ \E j \in 1..Len(up[v]) :
              up[v][j].t = "view-ack" /\ up[v][j].epoch = gate'.acked[v],
         v \notin ToSet(peers) => down'[v] = <<>>,
         \A i \in 1..Len(down'[v]) : down'[v][i].t = "snapshot" =>
           i+k \in 1..Len(down[v]) /\ down'[v][i] = down[v][i+k],
         \A i \in 1..Len(up'[v]) : up'[v][i].t = "view-ack" =>
           \E j \in 1..Len(up[v]) : up[v][j] = up'[v][i],
         client'[v].displays = client[v].displays
  PROVE  ViewerOK(v)'
<1>1. DownOK(v) /\ AcksOK(v) /\ SeenOK(v) /\ hub.epoch \in Nat
  BY SMT DEF IInv, ViewerOK, TypeOK
<1>2. DownOK(v)'
  <2>1. v \notin ToSet(peers') => down'[v] = <<>>
    OBVIOUS
  <2>2. ASSUME NEW i \in 1..Len(down'[v]), down'[v][i].t = "snapshot"
        PROVE  /\ down'[v][i].epoch <= hub'.epoch
               /\ Settled' /\ gate'.required <= down'[v][i].epoch => down'[v][i].size = metrics'
    <3>1. i+k \in 1..Len(down[v]) /\ down'[v][i] = down[v][i+k] /\ down[v][i+k].t = "snapshot"
      BY <2>2
    <3>2. down[v][i+k].epoch \in Nat
      BY <3>1, DownTyped
    <3>3. /\ down[v][i+k].epoch <= hub.epoch
          /\ Settled /\ gate.required <= down[v][i+k].epoch => down[v][i+k].size = metrics
      BY <1>1, <3>1 DEF DownOK
    <3> QED BY <1>1, <3>1, <3>2, <3>3, SMT
  <2>3. ASSUME NEW i \in 1..Len(down'[v]), NEW j \in 1..Len(down'[v]), i < j,
               down'[v][i].t = "snapshot", down'[v][j].t = "snapshot"
        PROVE  down'[v][i].epoch <= down'[v][j].epoch
    <3>1. /\ i+k \in 1..Len(down[v]) /\ down'[v][i] = down[v][i+k] /\ down[v][i+k].t = "snapshot"
          /\ j+k \in 1..Len(down[v]) /\ down'[v][j] = down[v][j+k] /\ down[v][j+k].t = "snapshot"
      BY <2>3
    <3>2. i+k < j+k
      BY <2>3, SMT
    <3> QED BY <1>1, <3>1, <3>2 DEF DownOK
  <2> QED BY <2>1, <2>2, <2>3 DEF DownOK
<1>3. ASSUME NEW i \in 1..Len(up'[v]), up'[v][i].t = "view-ack"
      PROVE  up'[v][i].epoch <= hub'.epoch /\ v \in ToSet(peers')
  <2>1. PICK j \in 1..Len(up[v]) : up[v][j] = up'[v][i]
    BY <1>3
  <2>2. up[v][j].epoch \in Nat
    BY <2>1, <1>3, UpTyped
  <2>3. up[v][j].epoch <= hub.epoch /\ v \in ToSet(peers)
    BY <2>1, <1>3, <1>1 DEF AcksOK
  <2> QED BY <1>1, <2>1, <2>2, <2>3, SMT
<1>4. gate'.acked[v] <= hub'.epoch /\ (v \notin ToSet(peers') => gate'.acked[v] = 0)
  <2>1. CASE gate'.acked[v] = gate.acked[v]
    <3>1. gate.acked[v] \in Nat
      BY SMT DEF IInv, TypeOK
    <3> QED BY <2>1, <3>1, <1>1, SMT DEF AcksOK
  <2>2. CASE \E j \in 1..Len(up[v]) :
               up[v][j].t = "view-ack" /\ up[v][j].epoch = gate'.acked[v]
    <3>1. PICK j \in 1..Len(up[v]) : up[v][j].t = "view-ack" /\ up[v][j].epoch = gate'.acked[v]
      BY <2>2
    <3>2. up[v][j].epoch \in Nat
      BY <3>1, UpTyped
    <3> QED BY <3>1, <3>2, <1>1, SMT DEF AcksOK
  <2> QED BY <2>1, <2>2
<1>5. SeenOK(v)'
  <2>1. SUFFICES ASSUME Settled', HasAcked(v)'
                 PROVE  /\ client'[v].displays \in {metrics', NoSize}
                        /\ \A i \in 1..Len(down'[v]) :
                             down'[v][i].t = "snapshot" => gate'.required <= down'[v][i].epoch
    BY DEF SeenOK
  <2>2. Settled /\ gate'.required = gate.required
    BY <2>1
  <2>3. HasAcked(v)
    BY <2>1, <2>2, Zenon DEF HasAcked
  <2> QED BY <2>2, <2>3, <1>1 DEF SeenOK
<1> QED BY <1>2, <1>3, <1>4, <1>5 DEF ViewerOK, AcksOK

\* Client state is well formed after a change of some of its fields.
ClientState == [window : Size, believes : BOOLEAN, wants : BOOLEAN,
                displays : Size \cup {NoSize}, missed : Nat]

\* The agreement and Chromium are left alone.
LEMMA AgreementStays ==
  ASSUME IInv, UNCHANGED <<nego, metrics, todo, wire, hub>>, gate'.pending = gate.pending,
         gate'.required = gate.required
  PROVE  RevisionsOK' /\ AppliedOK' /\ LockOK' /\ WireOK' /\ HubOK'
<1>1. RevisionsOK' /\ AppliedOK'
  BY Zenon DEF IInv, RevisionsOK, AppliedOK, Busy
<1>2. LockOK' /\ HubOK'
  BY SMT DEF IInv, LockOK, HubOK, Busy, Superseded, Settled
<1>3. WireOK'
  BY Zenon DEF IInv, WireOK
<1> QED BY <1>1, <1>2, <1>3

\* The newest size is wanted and input is locked.
LEMMA ViewLocks ==
  ASSUME IInv, NEW s \in Size,
         nego' = ScheduleApply([nego EXCEPT !.desired = [rev |-> @.rev + 1, size |-> s]]),
         gate'.pending = TRUE, gate'.required = gate.required,
         UNCHANGED <<metrics, todo, wire, hub>>
  PROVE  nego' \in Negotiation /\ RevisionsOK' /\ AppliedOK' /\ LockOK' /\ WireOK' /\ HubOK'
<1> DEFINE d == [rev |-> nego.desired.rev + 1, size |-> s]
           n == [nego EXCEPT !.desired = d]
<1>1. nego \in Negotiation
  BY Zenon DEF IInv, TypeOK, Negotiation
<1>2. d \in Revision /\ d.rev = nego.desired.rev + 1 /\ d.size = s /\ nego.desired.rev \in Nat
  BY <1>1, SMT DEF Negotiation, Revision
<1> HIDE DEF d
<1>3. n \in Negotiation
  BY <1>1, <1>2, Zenon DEF Negotiation
<1>4. /\ n.desired = d /\ n.applied = nego.applied /\ n.applying = nego.applying
      /\ n.inFlight = nego.inFlight /\ n.debounce = nego.debounce
  BY <1>1, SMT DEF Negotiation
<1>5. nego' = ScheduleApply(n)
  BY DEF d
<1> HIDE DEF n
<1>6. nego' = [n EXCEPT !.debounce = @ \/ ~Busy(n)]
  BY <1>5 DEF ScheduleApply
<1>7. Busy(n) = Busy(nego)
  BY <1>4 DEF Busy
<1>8. nego' \in Negotiation
  <2>1. (n.debounce \/ ~Busy(n)) \in BOOLEAN
    OBVIOUS
  <2> QED BY <2>1, <1>3, <1>6, Zenon DEF Negotiation
<1>9. /\ nego'.desired = d /\ nego'.applied = nego.applied /\ nego'.applying = nego.applying
      /\ nego'.inFlight = nego.inFlight
  BY <1>3, <1>4, <1>6, SMT DEF Negotiation
<1>10. nego'.debounce = (nego.debounce \/ ~Busy(nego))
  BY <1>3, <1>4, <1>6, <1>7, Zenon DEF Negotiation
<1>11. Busy(nego') = Busy(nego)
  BY <1>9 DEF Busy
<1>12. RevisionsOK' /\ AppliedOK'
  <2>1. nego'.debounce => ~Busy(nego)
    BY <1>10 DEF IInv, RevisionsOK
  <2> QED BY <2>1, <1>1, <1>2, <1>9, <1>11, SMT
        DEF IInv, RevisionsOK, AppliedOK, Negotiation, Revision
<1>13. LockOK'
  <2>1. nego'.debounce \/ Busy(nego')
    BY <1>10, <1>11
  <2> QED BY <2>1, <1>2, <1>9, SMT DEF IInv, LockOK
<1>14. WireOK'
  BY <1>9, Zenon DEF IInv, WireOK
<1>15. HubOK'
  BY SMT DEF IInv, HubOK, Settled
<1> QED BY <1>8, <1>12, <1>13, <1>14, <1>15

\* A window changes size.
LEMMA ResizeStep ==
  ASSUME IInv, NEW v \in Viewer, Resize(v)
  PROVE  IInv'
<1>1. PICK s \in Size : client' = [client EXCEPT ![v].window = s, ![v].wants = client[v].believes]
  BY DEF Resize
<1>2. /\ Churn
      /\ UNCHANGED <<nego, gate, metrics, todo, wire, hub, peers, driver, latest, up, down, shown>>
  BY DEF Resize, Server, roleVars, pageVars
<1>3. client \in [Viewer -> ClientState]
  BY Zenon DEF IInv, TypeOK, ClientState
<1>4. client' \in [Viewer -> ClientState]
  <2>1. client[v].believes \in BOOLEAN
    BY <1>3, Zenon DEF ClientState
  <2> QED BY <2>1, <1>1, <1>3, Zenon DEF ClientState
<1>5. \A w \in Viewer : client'[w].displays = client[w].displays
  BY <1>1, <1>3, SMT DEF ClientState
<1>6. TypeOK' /\ DriverOK'
  BY <1>2, <1>4, BudgetTyped DEF IInv, TypeOK, DriverOK, ClientState
<1>7. \A w \in Viewer : ViewerOK(w)'
  BY <1>2, <1>5, ViewersStay
<1>8. RevisionsOK' /\ AppliedOK' /\ LockOK' /\ WireOK' /\ HubOK'
  BY <1>2, AgreementStays
<1> QED BY <1>6, <1>7, <1>8 DEF IInv

\* A viewer sends something that acknowledges nothing.
LEMMA Sent ==
  ASSUME IInv, NEW v \in Viewer, NEW m \in UpMsg, m.t # "view-ack",
         up' = [up EXCEPT ![v] = Append(@, m)], UNCHANGED <<gate, metrics, peers, down, hub>>,
         \A w \in Viewer : client'[w].displays = client[w].displays
  PROVE  up' \in [Viewer -> Seq(UpMsg)] /\ \A w \in Viewer : ViewerOK(w)'
<1>1. up \in [Viewer -> Seq(UpMsg)] /\ up[v] \in Seq(UpMsg)
  BY Zenon DEF IInv, TypeOK
<1>2. /\ Append(up[v], m) \in Seq(UpMsg)
      /\ Len(Append(up[v], m)) = Len(up[v]) + 1 /\ Len(up[v]) \in Nat
      /\ Append(up[v], m)[Len(up[v]) + 1] = m
      /\ \A i \in 1..Len(up[v]) : Append(up[v], m)[i] = up[v][i]
  BY <1>1, SMT
<1>3. up' \in [Viewer -> Seq(UpMsg)]
  BY <1>1, <1>2, Zenon
<1>4. ASSUME NEW w \in Viewer PROVE ViewerOK(w)'
  <2>1. ASSUME NEW i \in 1..Len(up'[w]), up'[w][i].t = "view-ack"
        PROVE  \E j \in 1..Len(up[w]) : up[w][j] = up'[w][i]
    <3>1. CASE w = v
      <4>1. up'[w] = Append(up[v], m)
        BY <3>1, <1>1, Zenon
      <4>2. i \in 1..Len(up[v]) /\ up[v][i] = up'[w][i]
        BY <4>1, <2>1, <1>2, SMT
      <4> QED BY <4>2, <3>1
    <3>2. CASE w # v
      BY <3>2, <1>1, <2>1, Zenon
    <3> QED BY <3>1, <3>2
  <2>2. hub'.epoch \in Nat /\ hub.epoch <= hub'.epoch
    BY SMT DEF IInv, TypeOK
  <2>3. \A i \in 1..Len(down'[w]) : i+0 \in 1..Len(down[w]) /\ down'[w][i] = down[w][i+0]
    BY SMT
  <2>4. /\ Settled' => Settled /\ gate'.required = gate.required
        /\ w \notin ToSet(peers) => down'[w] = <<>>
    BY DEF Settled, IInv, ViewerOK, DownOK
  <2>5. gate'.acked[w] = gate.acked[w] /\ (w \in ToSet(peers') <=> w \in ToSet(peers))
    OBVIOUS
  <2> QED BY <2>1, <2>2, <2>3, <2>4, <2>5, ViewerStep
<1> QED BY <1>3, <1>4

\* What a viewer says of its window.
LEMMA ViewMsgTyped ==
  ASSUME IInv, NEW v \in Viewer
  PROVE  ViewMsg(v) \in UpMsg /\ ViewMsg(v).t = "view"
<1>1. client[v].window \in Size
  <2>1. client[v] \in ClientState
    BY Zenon DEF IInv, TypeOK, ClientState
  <2> QED BY <2>1, SMT DEF ClientState
<1> QED BY <1>1, SMT DEF ViewMsg, UpMsg

\* A viewer reports its window.
LEMMA ReportViewportStep ==
  ASSUME IInv, NEW v \in Viewer, ReportViewport(v)
  PROVE  IInv'
<1>1. /\ client' = [client EXCEPT ![v].wants = FALSE]
      /\ up' = [up EXCEPT ![v] = Append(@, ViewMsg(v))]
      /\ UNCHANGED <<nego, gate, metrics, todo, wire, hub, peers, driver, latest, down, shown, left>>
  BY DEF ReportViewport, Server, roleVars, pageVars
<1>2. client \in [Viewer -> ClientState]
  BY Zenon DEF IInv, TypeOK, ClientState
<1>3. client' \in [Viewer -> ClientState]
  BY <1>1, <1>2, Zenon DEF ClientState
<1>4. \A w \in Viewer : client'[w].displays = client[w].displays
  BY <1>1, <1>2, SMT DEF ClientState
<1>5. up' \in [Viewer -> Seq(UpMsg)] /\ \A w \in Viewer : ViewerOK(w)'
  <2>1. ViewMsg(v) \in UpMsg /\ ViewMsg(v).t # "view-ack"
    BY ViewMsgTyped
  <2> QED BY <2>1, <1>1, <1>4, Sent
<1>6. TypeOK' /\ DriverOK'
  BY <1>1, <1>3, <1>5 DEF IInv, TypeOK, DriverOK, ClientState
<1>7. RevisionsOK' /\ AppliedOK' /\ LockOK' /\ WireOK' /\ HubOK'
  BY <1>1, AgreementStays
<1> QED BY <1>5, <1>6, <1>7 DEF IInv

\* A viewer asks for the role, or hands it over.
LEMMA AskTransferStep ==
  ASSUME IInv, NEW v \in Viewer, AskTransfer(v)
  PROVE  IInv'
<1>1. PICK to \in IF client[v].believes THEN ToSet(peers) \ {v} ELSE {v} :
         up' = [up EXCEPT ![v] = Append(@, TransferMsg(to))]
  BY DEF AskTransfer
<1>2. /\ Churn
      /\ UNCHANGED <<nego, gate, metrics, todo, wire, hub, peers, driver, latest, down, shown, client>>
  BY DEF AskTransfer, Server, roleVars, pageVars
<1>3. TransferMsg(to) \in UpMsg /\ TransferMsg(to).t # "view-ack"
  <2>1. to \in Viewer
    BY <1>1, SMT DEF IInv, TypeOK, ToSet
  <2> QED BY <2>1, SMT DEF TransferMsg, UpMsg
<1>4. up' \in [Viewer -> Seq(UpMsg)] /\ \A w \in Viewer : ViewerOK(w)'
  BY <1>1, <1>2, <1>3, Sent
<1>5. TypeOK' /\ DriverOK'
  BY <1>2, <1>4, BudgetTyped DEF IInv, TypeOK, DriverOK
<1>6. RevisionsOK' /\ AppliedOK' /\ LockOK' /\ WireOK' /\ HubOK'
  BY <1>2, AgreementStays
<1> QED BY <1>4, <1>5, <1>6 DEF IInv

------------------------------------------------------------------------------
(* Roles. *)

GateState == [pending : BOOLEAN, required : Nat, acked : [Viewer -> Nat]]

DriverTyped == driver' \in ToSet(peers') \cup {NoViewer}

\* Word of who drives adds no snapshot to what is on its way to a viewer.
LEMMA ToldDriver ==
  ASSUME IInv, NEW ps, NEW d \in Viewer \cup {NoViewer}
  PROVE  /\ TellDriver(ps, d) \in [Viewer -> Seq(DownMsg)]
         /\ \A w \in Viewer :
              /\ w \notin ToSet(ps) => TellDriver(ps, d)[w] = down[w]
              /\ \A i \in 1..Len(TellDriver(ps, d)[w]) :
                   TellDriver(ps, d)[w][i].t = "snapshot" =>
                     i+0 \in 1..Len(down[w]) /\ TellDriver(ps, d)[w][i] = down[w][i+0]
<1> DEFINE m == DriverMsg(d)
           t == TellDriver(ps, d)
<1>1. down \in [Viewer -> Seq(DownMsg)]
  BY Zenon DEF IInv, TypeOK
<1>2. m \in DownMsg /\ m.t # "snapshot"
  BY SMT DEF DriverMsg, DownMsg
<1>3. t = down \/ t = [w \in Viewer |-> IF w \in ToSet(ps) THEN Append(down[w], m) ELSE down[w]]
  BY DEF TellDriver, Tell
<1> HIDE DEF m, t
<1>4. ASSUME NEW w \in Viewer
      PROVE  /\ down[w] \in Seq(DownMsg) /\ Append(down[w], m) \in Seq(DownMsg)
             /\ \A i \in 1..Len(down[w]) : i+0 \in 1..Len(down[w]) /\ down[w][i] = down[w][i+0]
             /\ \A i \in 1..Len(Append(down[w], m)) : Append(down[w], m)[i].t = "snapshot" =>
                  i+0 \in 1..Len(down[w]) /\ Append(down[w], m)[i] = down[w][i+0]
  BY <1>1, <1>2, SMT
<1>5. t \in [Viewer -> Seq(DownMsg)]
  BY <1>1, <1>3, <1>4, Zenon
<1>6. ASSUME NEW w \in Viewer
      PROVE  \/ t[w] = down[w]
             \/ w \in ToSet(ps) /\ t[w] = Append(down[w], m)
  BY <1>3
<1>7. ASSUME NEW w \in Viewer
      PROVE  /\ w \notin ToSet(ps) => t[w] = down[w]
             /\ \A i \in 1..Len(t[w]) : t[w][i].t = "snapshot" =>
                  i+0 \in 1..Len(down[w]) /\ t[w][i] = down[w][i+0]
  BY <1>4, <1>6
<1> QED BY <1>5, <1>7 DEF t

(* A viewer to which only word of the roles is sent, whose acknowledgements stay and whose
   connection does. *)
LEMMA ViewerHearsRoles ==
  ASSUME IInv, NEW v \in Viewer, NEW ps, NEW d \in Viewer \cup {NoViewer},
         UNCHANGED <<metrics, hub>>, down'[v] = TellDriver(ps, d)[v] \/ down'[v] = down[v],
         v \in ToSet(ps) => v \in ToSet(peers),
         v \in ToSet(peers') <=> v \in ToSet(peers),
         Settled' => Settled /\ gate'.required = gate.required,
         \/ gate'.acked[v] = gate.acked[v]
         \/ \E j \in 1..Len(up[v]) :
              up[v][j].t = "view-ack" /\ up[v][j].epoch = gate'.acked[v],
         \A i \in 1..Len(up'[v]) : up'[v][i].t = "view-ack" =>
           \E j \in 1..Len(up[v]) : up[v][j] = up'[v][i],
         client'[v].displays = client[v].displays
  PROVE  ViewerOK(v)'
<1>1. hub'.epoch \in Nat /\ hub.epoch <= hub'.epoch
  BY SMT DEF IInv, TypeOK
<1>2. v \notin ToSet(peers) => down[v] = <<>>
  BY DEF IInv, ViewerOK, DownOK
<1>3. \A i \in 1..Len(down[v]) : i+0 \in 1..Len(down[v]) /\ down[v][i] = down[v][i+0]
  BY SMT
<1>4. /\ v \notin ToSet(peers) => down'[v] = <<>>
      /\ \A i \in 1..Len(down'[v]) : down'[v][i].t = "snapshot" =>
           i+0 \in 1..Len(down[v]) /\ down'[v][i] = down[v][i+0]
  BY <1>2, <1>3, ToldDriver
<1> QED BY <1>1, <1>4, ViewerStep

\* A socket opens.
LEMMA ConnectStep ==
  ASSUME IInv, NEW v \in Viewer, Connect(v)
  PROVE  IInv'
<1>1. /\ v \notin ToSet(peers) /\ peers' = Append(peers, v)
      /\ driver' = IF driver = NoViewer /\ v \in DriverInvite THEN v ELSE driver
      /\ down' = [TellDriver(peers, driver') EXCEPT ![v] = <<HelloMsg(driver')>> \o Join]
      /\ up' = [up EXCEPT ![v] = IF client[v].believes THEN <<ViewMsg(v)>> \o @ ELSE @]
      /\ client' = [client EXCEPT ![v].wants = FALSE]
      /\ UNCHANGED <<latest, nego, gate, metrics, todo, wire, hub, shown, left>>
  BY DEF Connect, pageVars
<1>2. peers \in Seq(Viewer) /\ IsInjective(peers) /\ driver \in ToSet(peers) \cup {NoViewer}
  BY DEF IInv, TypeOK
<1>3. /\ peers' \in Seq(Viewer) /\ IsInjective(peers')
      /\ ToSet(peers') = ToSet(peers) \cup {v}
  BY <1>1, <1>2, AppendedPeer
<1>4. DriverTyped /\ DriverOK'
  BY <1>1, <1>2, <1>3, ViewportConstants DEF DriverTyped, DriverOK, IInv
<1>5. driver' \in Viewer \cup {NoViewer}
  BY <1>4, <1>3, SMT DEF DriverTyped, ToSet
<1>6. client \in [Viewer -> ClientState]
  BY Zenon DEF IInv, TypeOK, ClientState
<1>7. client' \in [Viewer -> ClientState]
  BY <1>1, <1>6, Zenon DEF ClientState
<1>8. \A w \in Viewer : client'[w].displays = client[w].displays
  BY <1>1, <1>6, SMT DEF ClientState
<1> DEFINE j == <<HelloMsg(driver')>> \o Join
<1>9. /\ j \in Seq(DownMsg)
      /\ \A i \in 1..Len(j) : j[i].t = "snapshot" => j[i] = Canonical /\ hub.held # NoSize
  <2>1. HelloMsg(driver') \in DownMsg /\ HelloMsg(driver').t # "snapshot"
    BY <1>5, SMT DEF HelloMsg, DownMsg
  <2>2. hub.held # NoSize => Canonical \in DownMsg
    BY SMT DEF Canonical, ShotMsg, DownMsg, IInv, TypeOK
  <2>3. Join \in Seq(DownMsg) /\ \A i \in 1..Len(Join) : Join[i] = Canonical /\ hub.held # NoSize
    BY <2>2, SMT DEF Join
  <2>4. j \in Seq(DownMsg) /\ j[1] = HelloMsg(driver')
        /\ \A i \in 2..Len(j) : i-1 \in 1..Len(Join) /\ j[i] = Join[i-1]
    <3> DEFINE h == HelloMsg(driver')
               r == Join
    <3>1. h \in DownMsg /\ r \in Seq(DownMsg)
      BY <2>1, <2>3
    <3>2. j = <<h>> \o r
      OBVIOUS
    <3> HIDE DEF h, r
    <3>3. /\ <<h>> \o r \in Seq(DownMsg) /\ (<<h>> \o r)[1] = h
          /\ \A i \in 2..Len(<<h>> \o r) : i-1 \in 1..Len(r) /\ (<<h>> \o r)[i] = r[i-1]
      BY <3>1, SMT
    <3> QED BY <3>2, <3>3 DEF h, r
  <2> HIDE DEF j
  <2>5. ASSUME NEW i \in 1..Len(j), j[i].t = "snapshot" PROVE j[i] = Canonical /\ hub.held # NoSize
    <3>1. i \in 2..Len(j)
      BY <2>1, <2>4, <2>5, SMT
    <3> QED BY <3>1, <2>3, <2>4
  <2> QED BY <2>4, <2>5
<1> HIDE DEF j
<1>10. down' = [TellDriver(peers, driver') EXCEPT ![v] = j]
  BY <1>1 DEF j
<1>11. TellDriver(peers, driver') \in [Viewer -> Seq(DownMsg)]
  BY <1>5, ToldDriver
<1>12. /\ down' \in [Viewer -> Seq(DownMsg)] /\ down'[v] = j
       /\ \A w \in Viewer \ {v} : down'[w] = TellDriver(peers, driver')[w]
  BY <1>9, <1>10, <1>11
<1> DEFINE u == IF client[v].believes THEN <<ViewMsg(v)>> \o up[v] ELSE up[v]
<1>13. /\ u \in Seq(UpMsg)
       /\ \A i \in 1..Len(u) : u[i].t = "view-ack" => \E k \in 1..Len(up[v]) : up[v][k] = u[i]
  <2>1. up[v] \in Seq(UpMsg)
    BY Zenon DEF IInv, TypeOK
  <2>2. ViewMsg(v) \in UpMsg /\ ViewMsg(v).t # "view-ack"
    BY ViewMsgTyped
  <2> DEFINE x == <<ViewMsg(v)>> \o up[v]
  <2>3. x \in Seq(UpMsg) /\ Len(x) = Len(up[v]) + 1 /\ x[1] = ViewMsg(v)
        /\ \A i \in 2..Len(x) : i-1 \in 1..Len(up[v]) /\ x[i] = up[v][i-1]
    BY <2>1, <2>2, SMT
  <2> HIDE DEF x
  <2>4. ASSUME NEW i \in 1..Len(x), x[i].t = "view-ack" PROVE \E k \in 1..Len(up[v]) : up[v][k] = x[i]
    <3>1. i \in 2..Len(x)
      BY <2>2, <2>3, <2>4, SMT
    <3> QED BY <3>1, <2>3
  <2>5. u = x \/ u = up[v]
    BY DEF x
  <2> HIDE DEF u
  <2> QED BY <2>1, <2>3, <2>4, <2>5
<1> HIDE DEF u
<1>14. /\ up' \in [Viewer -> Seq(UpMsg)] /\ up'[v] = u
       /\ \A w \in Viewer \ {v} : up'[w] = up[w]
  <2>1. up \in [Viewer -> Seq(UpMsg)]
    BY Zenon DEF IInv, TypeOK
  <2>2. up' = [up EXCEPT ![v] = u]
    BY <1>1 DEF u
  <2> QED BY <2>1, <2>2, <1>13
<1>15. TypeOK'
  BY <1>1, <1>3, <1>4, <1>7, <1>12, <1>14 DEF IInv, TypeOK, DriverTyped, ClientState
<1>16. RevisionsOK' /\ AppliedOK' /\ LockOK' /\ WireOK' /\ HubOK'
  BY <1>1, AgreementStays
<1>17. ASSUME NEW w \in Viewer \ {v} PROVE ViewerOK(w)'
  <2>1. w \in ToSet(peers') <=> w \in ToSet(peers)
    BY <1>3
  <2>2. /\ Settled' => Settled /\ gate'.required = gate.required
        /\ gate'.acked[w] = gate.acked[w]
    BY <1>1 DEF Settled
  <2> QED BY <1>1, <1>5, <1>8, <1>12, <1>14, <2>1, <2>2, ViewerHearsRoles
<1>18. ViewerOK(v)'
  <2>1. AcksOK(v) /\ HubOK /\ hub.epoch \in Nat
    <3>1. AcksOK(v) /\ HubOK
      BY Zenon DEF IInv, ViewerOK
    <3>2. hub.epoch \in Nat
      BY DEF IInv, TypeOK
    <3> QED BY <3>1, <3>2
  <2>2. \A i \in 1..Len(up'[v]) : up'[v][i].t # "view-ack"
    <3>1. \A k \in 1..Len(up[v]) : up[v][k].t # "view-ack"
      BY <1>1, <2>1 DEF AcksOK
    <3> QED BY <1>13, <1>14, <3>1
  <2>3. gate'.acked[v] = 0
    BY <1>1, <2>1 DEF AcksOK
  <2>4. AcksOK(v)'
    BY <2>1, <2>2, <2>3, <1>1, SMT DEF AcksOK
  <2>5. SeenOK(v)'
    BY <2>2, <2>3 DEF SeenOK, HasAcked, Settled
  <2>6. Canonical.epoch = hub.epoch /\ Canonical.size = hub.held
    BY DEF Canonical, ShotMsg
  <2>7. DownOK(v)'
    <3>1. \A i \in 1..Len(down'[v]) : down'[v][i].t = "snapshot" => down'[v][i] = Canonical
      BY <1>9, <1>12
    <3>2. \A i, k \in 1..Len(down'[v]) :
            i < k /\ down'[v][i].t = "snapshot" /\ down'[v][k].t = "snapshot"
              => down'[v][i].epoch <= down'[v][k].epoch
      BY <3>1, <2>1, <2>6, SMT
    <3>3. \A i \in 1..Len(down'[v]) : down'[v][i].t = "snapshot" =>
            /\ down'[v][i].epoch <= hub'.epoch
            /\ Settled' /\ gate'.required <= down'[v][i].epoch => down'[v][i].size = metrics'
      BY <3>1, <2>1, <2>6, <1>1, SMT DEF HubOK, Settled
    <3>4. v \in ToSet(peers')
      BY <1>3
    <3> QED BY <3>2, <3>3, <3>4 DEF DownOK
  <2> QED BY <2>4, <2>5, <2>7 DEF ViewerOK
<1> QED BY <1>4, <1>15, <1>16, <1>17, <1>18 DEF IInv

\* A socket closes, and a new driver is found.
LEMMA DisconnectStep ==
  ASSUME IInv, NEW v \in Viewer, Disconnect(v)
  PROVE  IInv'
<1> DEFINE again == IF driver' = driver \/ driver' = NoViewer THEN NoSize ELSE latest[driver']
<1>1. /\ v \in ToSet(peers) /\ Churn /\ peers' = RemoveFirst(peers, v)
      /\ latest' = [latest EXCEPT ![v] = NoSize]
      /\ driver' = IF driver = v THEN Replacement(peers') ELSE driver
      /\ down' = [TellDriver(peers', driver') EXCEPT ![v] = <<>>]
      /\ up' = [up EXCEPT ![v] = <<>>]
      /\ UNCHANGED <<metrics, todo, wire, hub, shown, client>>
  BY DEF Disconnect, pageVars, Remaining
<1>2. \/ gate' = Forgotten(gate, v) /\ UNCHANGED nego
      \/ /\ again # NoSize
         /\ nego' = ScheduleApply([nego EXCEPT !.desired = [rev |-> @.rev + 1, size |-> again]])
         /\ gate' = LockedByView(Forgotten(gate, v))
  BY DEF Disconnect
<1>3. peers \in Seq(Viewer) /\ IsInjective(peers) /\ driver \in ToSet(peers) \cup {NoViewer}
  BY DEF IInv, TypeOK
<1>4. /\ peers' \in Seq(Viewer) /\ IsInjective(peers')
      /\ ToSet(peers') = ToSet(peers) \ {v}
  BY <1>1, <1>3, RemovedPeer
<1>5. /\ Replacement(peers') \in ToSet(peers') \cup {NoViewer}
      /\ Replacement(peers') = NoViewer => ToSet(peers') \cap DriverInvite = {}
  BY <1>4, ReplacementFound
<1>6. DriverTyped /\ DriverOK'
  BY <1>1, <1>3, <1>4, <1>5, ViewportConstants DEF DriverTyped, DriverOK, IInv
<1>7. driver' \in Viewer \cup {NoViewer}
  BY <1>6, <1>4, SMT DEF DriverTyped, ToSet
<1>8. latest' \in [Viewer -> Size \cup {NoSize}]
  BY <1>1, SMT DEF IInv, TypeOK
<1>9. again # NoSize => again \in Size
  BY <1>7, SMT DEF IInv, TypeOK
<1> HIDE DEF again
<1>10. gate \in GateState
  BY Zenon DEF IInv, TypeOK, GateState
<1> DEFINE g == Forgotten(gate, v)
<1>11. g \in GateState
  BY <1>10, Zenon DEF Forgotten, GateState
<1>12. /\ g.pending = gate.pending /\ g.required = gate.required
       /\ g.acked[v] = 0 /\ \A w \in Viewer \ {v} : g.acked[w] = gate.acked[w]
  BY <1>10, SMT DEF Forgotten, GateState
<1> HIDE DEF g
<1>13. LockedByView(g) \in GateState
  BY <1>11, Zenon DEF LockedByView, GateState
<1>14. LockedByView(g).pending = TRUE /\ LockedByView(g).required = g.required
       /\ LockedByView(g).acked = g.acked
  BY <1>11, SMT DEF LockedByView, GateState
<1>15. /\ gate' \in GateState /\ gate'.required = gate.required
       /\ gate'.acked[v] = 0 /\ \A w \in Viewer \ {v} : gate'.acked[w] = gate.acked[w]
       /\ Settled' => Settled
  BY <1>2, <1>11, <1>12, <1>13, <1>14 DEF Settled, g
<1>16. nego' \in Negotiation /\ RevisionsOK' /\ AppliedOK' /\ LockOK' /\ WireOK' /\ HubOK'
  <2>1. CASE gate' = g /\ UNCHANGED nego
    <3>1. nego \in Negotiation
      BY Zenon DEF IInv, TypeOK, Negotiation
    <3> QED BY <2>1, <3>1, <1>1, <1>12, AgreementStays
  <2>2. CASE /\ again \in Size
             /\ nego' = ScheduleApply([nego EXCEPT !.desired = [rev |-> @.rev + 1, size |-> again]])
             /\ gate' = LockedByView(g)
    BY <2>2, <1>1, <1>12, <1>14, ViewLocks
  <2> QED BY <2>1, <2>2, <1>2, <1>9 DEF g
<1>17. /\ down' \in [Viewer -> Seq(DownMsg)] /\ down'[v] = <<>>
       /\ \A w \in Viewer \ {v} : down'[w] = TellDriver(peers', driver')[w]
  <2>1. TellDriver(peers', driver') \in [Viewer -> Seq(DownMsg)]
    BY <1>7, ToldDriver
  <2>2. <<>> \in Seq(DownMsg)
    BY SMT
  <2> QED BY <2>1, <2>2, <1>1
<1>18. /\ up' \in [Viewer -> Seq(UpMsg)] /\ up'[v] = <<>>
       /\ \A w \in Viewer \ {v} : up'[w] = up[w]
  <2>1. up \in [Viewer -> Seq(UpMsg)]
    BY Zenon DEF IInv, TypeOK
  <2>2. <<>> \in Seq(UpMsg)
    BY SMT
  <2> QED BY <2>1, <2>2, <1>1
<1>19. TypeOK'
  BY <1>1, <1>4, <1>6, <1>8, <1>15, <1>16, <1>17, <1>18, BudgetTyped
     DEF IInv, TypeOK, DriverTyped, GateState, Negotiation
<1>20. ASSUME NEW w \in Viewer \ {v} PROVE ViewerOK(w)'
  BY <1>1, <1>4, <1>7, <1>15, <1>17, <1>18, ViewerHearsRoles
<1>21. ViewerOK(v)'
  <2>1. hub'.epoch \in Nat
    BY <1>1, SMT DEF IInv, TypeOK
  <2>2. Len(down'[v]) = 0 /\ Len(up'[v]) = 0
    BY <1>17, <1>18, SMT
  <2>3. DownOK(v)' /\ AcksOK(v)'
    BY <2>1, <2>2, <1>15, <1>17, SMT DEF DownOK, AcksOK
  <2>4. SeenOK(v)'
    BY <2>2, <1>15, SMT DEF SeenOK, HasAcked, Settled
  <2> QED BY <2>3, <2>4 DEF ViewerOK
<1> QED BY <1>6, <1>16, <1>19, <1>20, <1>21 DEF IInv

\* What a message to the gateway carries.
LEMMA UpMsgKinds ==
  ASSUME NEW m \in UpMsg
  PROVE  /\ m.t = "view" => m.size \in Size
         /\ m.t = "view-ack" => m.epoch \in Nat
<1>1. CASE m \in [t : {"view"}, size : Size]
  BY <1>1
<1>2. CASE m \in [t : {"view-ack"}, epoch : Nat]
  BY <1>2
<1>3. CASE m \in [t : {"driver-transfer"}, to : Viewer]
  BY <1>3
<1> QED BY <1>1, <1>2, <1>3 DEF UpMsg

\* The gateway takes a message from a viewer.
LEMMA ReceiveUpStep ==
  ASSUME IInv, NEW v \in Viewer, ReceiveUp(v)
  PROVE  IInv'
<1> DEFINE m == Head(up[v])
<1>1. /\ v \in ToSet(peers) /\ up[v] # <<>> /\ up' = [up EXCEPT ![v] = Tail(@)]
      /\ UNCHANGED <<peers, metrics, todo, wire, hub, shown, client, left>>
  BY DEF ReceiveUp, pageVars
<1>2. up \in [Viewer -> Seq(UpMsg)] /\ up[v] \in Seq(UpMsg)
  BY Zenon DEF IInv, TypeOK
<1>3. /\ 1 \in 1..Len(up[v]) /\ m = up[v][1] /\ m \in UpMsg /\ Tail(up[v]) \in Seq(UpMsg)
      /\ \A i \in 1..Len(Tail(up[v])) : i+1 \in 1..Len(up[v]) /\ Tail(up[v])[i] = up[v][i+1]
  BY <1>1, <1>2, SMT
<1>4. up' \in [Viewer -> Seq(UpMsg)] /\ up'[v] = Tail(up[v]) /\ \A w \in Viewer \ {v} : up'[w] = up[w]
  BY <1>1, <1>2, <1>3
<1>5. ASSUME NEW w \in Viewer
      PROVE  \A i \in 1..Len(up'[w]) : up'[w][i].t = "view-ack" =>
               \E j \in 1..Len(up[w]) : up[w][j] = up'[w][i]
  <2>1. CASE w = v
    BY <2>1, <1>3, <1>4
  <2>2. CASE w # v
    BY <2>2, <1>4
  <2> QED BY <2>1, <2>2
<1>6. /\ driver \in ToSet(peers) \cup {NoViewer} /\ peers \in Seq(Viewer)
      /\ latest \in [Viewer -> Size \cup {NoSize}] /\ gate \in GateState /\ nego \in Negotiation
      /\ down \in [Viewer -> Seq(DownMsg)]
  BY Zenon DEF IInv, TypeOK, GateState, Negotiation
<1> HIDE DEF m
\* What each of the messages does to the roles, the agreement and the acknowledgements.
<1> DEFINE Roles == DriverTyped /\ DriverOK'
           Told == \/ down' = down
                   \/ driver' \in Viewer /\ down' = TellDriver(peers, driver')
           Agreed == /\ nego' \in Negotiation /\ RevisionsOK' /\ AppliedOK' /\ LockOK' /\ WireOK' /\ HubOK'
                     /\ gate' \in GateState /\ (Settled' => Settled /\ gate'.required = gate.required)
           Acked == \A w \in Viewer : \/ gate'.acked[w] = gate.acked[w]
                                      \/ \E j \in 1..Len(up[w]) :
                                           up[w][j].t = "view-ack" /\ up[w][j].epoch = gate'.acked[w]
           Remembered == latest' \in [Viewer -> Size \cup {NoSize}]
<1>7. ASSUME NEW s \in Size, View(s) PROVE Agreed /\ Acked
  <2>1. gate' = LockedByView(gate)
        /\ nego' = ScheduleApply([nego EXCEPT !.desired = [rev |-> @.rev + 1, size |-> s]])
    BY <1>7 DEF View
  <2>2. gate' \in GateState
    BY <2>1, <1>6, Zenon DEF LockedByView, GateState
  <2>3. gate'.pending = TRUE /\ gate'.required = gate.required /\ gate'.acked = gate.acked
    BY <2>1, <1>6, SMT DEF LockedByView, GateState
  <2>4. nego' \in Negotiation /\ RevisionsOK' /\ AppliedOK' /\ LockOK' /\ WireOK' /\ HubOK'
    BY <2>1, <2>3, <1>1, ViewLocks
  <2> QED BY <2>2, <2>3, <2>4 DEF Settled
<1>8. ASSUME UNCHANGED <<nego, gate>> PROVE Agreed /\ Acked
  <2>1. RevisionsOK' /\ AppliedOK' /\ LockOK' /\ WireOK' /\ HubOK'
    BY <1>1, <1>8, AgreementStays
  <2> QED BY <2>1, <1>6, <1>8 DEF Settled
<1>9. Roles /\ Told /\ Agreed /\ Acked /\ Remembered
  <2>1. CASE /\ m.t = "view"
             /\ latest' = [latest EXCEPT ![v] = m.size]
             /\ IF driver = v THEN View(m.size) ELSE UNCHANGED <<nego, gate>>
             /\ UNCHANGED <<driver, down>>
    <3>1. m.size \in Size
      BY <2>1, <1>3, UpMsgKinds
    <3>2. Remembered
      BY <2>1, <3>1, <1>6, SMT
    <3>3. Agreed /\ Acked
      BY <2>1, <3>1, <1>7, <1>8
    <3>4. Roles
      BY <2>1, <1>1, <1>6 DEF DriverTyped, DriverOK, IInv
    <3> QED BY <2>1, <3>2, <3>3, <3>4
  <2>2. CASE /\ m.t = "view-ack"
             /\ gate' = IF driver = v THEN Acknowledge(v, m.epoch) ELSE gate
             /\ UNCHANGED <<latest, driver, nego, down>>
    <3>1. gate' = [gate EXCEPT !.acked[v] = m.epoch] \/ gate' = gate
      <4>1. \/ Acknowledge(v, m.epoch) = gate
            \/ Acknowledge(v, m.epoch) = [gate EXCEPT !.acked[v] = m.epoch]
        BY Zenon DEF Acknowledge
      <4> QED BY <2>2, <4>1, Zenon
    <3>2. m.epoch \in Nat
      BY <2>2, <1>3, UpMsgKinds
    <3>3. gate' \in GateState
      <4> DEFINE e == m.epoch
      <4>1. gate \in GateState /\ e \in Nat /\ (gate' = [gate EXCEPT !.acked[v] = e] \/ gate' = gate)
        BY <3>1, <3>2, <1>6
      <4> HIDE DEF e
      <4>2. [gate EXCEPT !.acked[v] = e] \in GateState
        BY <4>1, Zenon DEF GateState
      <4> QED BY <4>1, <4>2
    <3>4. /\ gate'.pending = gate.pending /\ gate'.required = gate.required
          /\ \A w \in Viewer \ {v} : gate'.acked[w] = gate.acked[w]
          /\ gate'.acked[v] \in {gate.acked[v], m.epoch}
      BY <3>1, <1>6, SMT DEF GateState
    <3>5. Acked
      BY <3>4, <2>2, <1>3
    <3>6. RevisionsOK' /\ AppliedOK' /\ LockOK' /\ WireOK' /\ HubOK'
      BY <2>2, <3>4, <1>1, AgreementStays
    <3>7. Agreed
      BY <2>2, <3>3, <3>4, <3>6, <1>6 DEF Settled
    <3>8. Roles /\ Remembered
      BY <2>2, <1>1, <1>6 DEF DriverTyped, DriverOK, IInv
    <3> QED BY <2>2, <3>5, <3>7, <3>8
  <2>3. CASE /\ m.t = "driver-transfer"
             /\ Transfer(v, m.to)
             /\ UNCHANGED latest
    <3>1. CASE driver = v /\ m.to \in ToSet(peers) \ {v}
      <4>1. driver' = m.to /\ ViewAgain(latest[m.to]) /\ down' = TellDriver(peers, m.to)
        BY <2>3, <3>1 DEF Transfer
      <4>2. m.to \in Viewer
        BY <3>1, <1>6, SMT DEF ToSet
      <4>3. Agreed /\ Acked
        BY <4>1, <4>2, <1>6, <1>7, <1>8 DEF ViewAgain
      <4>4. Roles
        BY <4>1, <4>2, <3>1, <1>1, ViewportConstants DEF DriverTyped, DriverOK
      <4> QED BY <4>1, <4>2, <4>3, <4>4, <2>3, <1>6
    <3>2. CASE ~(driver = v /\ m.to \in ToSet(peers) \ {v})
      <4>1. UNCHANGED <<driver, nego, gate, down>>
        BY <2>3, <3>2 DEF Transfer
      <4>2. Agreed /\ Acked
        BY <4>1, <1>8
      <4>3. Roles
        BY <4>1, <1>1, <1>6 DEF DriverTyped, DriverOK, IInv
      <4> QED BY <4>1, <4>2, <4>3, <2>3, <1>6
    <3> QED BY <3>1, <3>2
  <2> QED BY <2>1, <2>2, <2>3 DEF ReceiveUp, m
<1>10. down' \in [Viewer -> Seq(DownMsg)]
  BY <1>6, <1>9, ToldDriver
<1>11. TypeOK'
  BY <1>1, <1>4, <1>9, <1>10 DEF IInv, TypeOK, DriverTyped, GateState, Negotiation
<1>12. ASSUME NEW w \in Viewer PROVE ViewerOK(w)'
  <2>1. /\ gate'.acked[w] = gate.acked[w] \/ \E j \in 1..Len(up[w]) :
              up[w][j].t = "view-ack" /\ up[w][j].epoch = gate'.acked[w]
        /\ Settled' => Settled /\ gate'.required = gate.required
    BY <1>9
  <2>2. \E d \in Viewer \cup {NoViewer} : down'[w] = TellDriver(peers, d)[w] \/ down'[w] = down[w]
    BY <1>9
  <2>3. /\ w \in ToSet(peers') <=> w \in ToSet(peers)
        /\ client'[w].displays = client[w].displays
    BY <1>1
  <2> QED BY <2>1, <2>2, <2>3, <1>1, <1>5, ViewerHearsRoles
<1> QED BY <1>9, <1>11, <1>12 DEF IInv

------------------------------------------------------------------------------
(* Snapshots, from the page to a viewer's screen. *)

\* A snapshot at least as new as all before it is sent to everybody connected.
LEMMA SnapshotTold ==
  ASSUME IInv, NEW v \in Viewer, NEW e \in Nat, NEW s \in Size, NEW r,
         down' = Tell(peers, ShotMsg(e, r, s)), hub.epoch <= e, e <= hub'.epoch, hub'.epoch \in Nat,
         UNCHANGED <<peers, metrics, up, client>>, gate'.acked = gate.acked, gate'.required \in Nat,
         Settled' => /\ s = metrics /\ gate'.required <= e
                     /\ (Settled /\ gate'.required = gate.required) \/ gate'.required > hub.epoch
  PROVE  ViewerOK(v)'
<1> DEFINE m == ShotMsg(e, r, s)
           d == down[v]
           x == down'[v]
<1>1. m.t = "snapshot" /\ m.epoch = e /\ m.size = s
  BY DEF ShotMsg
<1>2. DownOK(v) /\ AcksOK(v) /\ SeenOK(v) /\ hub.epoch \in Nat /\ gate.acked[v] \in Nat
  BY SMT DEF IInv, ViewerOK, TypeOK
<1>3. d \in Seq(DownMsg)
  BY Zenon DEF IInv, TypeOK
<1>4. x = IF v \in ToSet(peers) THEN Append(d, m) ELSE d
  BY Zenon DEF Tell
<1>5. \A i \in 1..Len(d) : d[i].t = "snapshot" => d[i].epoch \in Nat
  BY DownTyped
<1> HIDE DEF m, d, x
<1>6. ASSUME NEW i \in 1..Len(x)
      PROVE  \/ i \in 1..Len(d) /\ x[i] = d[i]
             \/ x[i] = m /\ i = Len(d) + 1
  <2>1. /\ Len(Append(d, m)) = Len(d) + 1 /\ Len(d) \in Nat /\ Append(d, m)[Len(d) + 1] = m
        /\ \A k \in 1..Len(d) : Append(d, m)[k] = d[k]
    BY <1>3, SMT
  <2> QED BY <2>1, <1>4, <1>6, SMT
<1>7. ASSUME Settled', ~(gate'.required > hub.epoch)
      PROVE  Settled /\ gate'.required = gate.required
  BY <1>7
<1>8. DownOK(v)'
  <2>1. v \notin ToSet(peers') => x = <<>>
    BY <1>2, <1>4 DEF DownOK, d
  <2>2. ASSUME NEW i \in 1..Len(x), x[i].t = "snapshot"
        PROVE  /\ x[i].epoch <= hub'.epoch
               /\ Settled' /\ gate'.required <= x[i].epoch => x[i].size = metrics'
    <3>1. CASE i \in 1..Len(d) /\ x[i] = d[i]
      <4>1. /\ d[i].epoch <= hub.epoch /\ d[i].epoch \in Nat
            /\ Settled /\ gate.required <= d[i].epoch => d[i].size = metrics
        BY <3>1, <2>2, <1>2, <1>5 DEF DownOK, d
      <4> QED BY <4>1, <3>1, <1>2, <1>7, SMT
    <3>2. CASE x[i] = m
      BY <3>2, <1>1, SMT
    <3> QED BY <3>1, <3>2, <1>6
  <2>3. ASSUME NEW i \in 1..Len(x), NEW j \in 1..Len(x), i < j,
               x[i].t = "snapshot", x[j].t = "snapshot"
        PROVE  x[i].epoch <= x[j].epoch
    <3>1. i \in 1..Len(d) /\ x[i] = d[i]
      BY <2>3, <1>3, <1>6, SMT
    <3>2. CASE j \in 1..Len(d) /\ x[j] = d[j]
      BY <3>1, <3>2, <2>3, <1>2 DEF DownOK, d
    <3>3. CASE x[j] = m
      <4>1. d[i].epoch <= hub.epoch /\ d[i].epoch \in Nat
        BY <3>1, <2>3, <1>2, <1>5 DEF DownOK, d
      <4> QED BY <4>1, <3>1, <3>3, <1>1, <1>2, SMT
    <3> QED BY <3>2, <3>3, <1>6
  <2> QED BY <2>1, <2>2, <2>3 DEF DownOK, x
<1>9. AcksOK(v)'
  <2>1. ASSUME NEW i \in 1..Len(up[v]), up[v][i].t = "view-ack"
        PROVE  up[v][i].epoch <= hub'.epoch /\ v \in ToSet(peers)
    BY <2>1, <1>2, UpTyped, SMT DEF AcksOK
  <2>2. gate.acked[v] <= hub'.epoch
    BY <1>2, SMT DEF AcksOK
  <2> QED BY <2>1, <2>2, <1>2 DEF AcksOK
<1>10. ASSUME Settled', HasAcked(v)'
       PROVE  /\ client'[v].displays \in {metrics', NoSize}
              /\ \A i \in 1..Len(x) : x[i].t = "snapshot" => gate'.required <= x[i].epoch
  <2>1. gate'.required <= hub.epoch
    <3>1. CASE gate'.acked[v] = gate'.required
      BY <3>1, <1>2 DEF AcksOK
    <3>2. CASE \E i \in 1..Len(up'[v]) : up'[v][i].t = "view-ack" /\ up'[v][i].epoch = gate'.required
      BY <3>2, <1>2 DEF AcksOK
    <3> QED BY <3>1, <3>2, <1>10 DEF HasAcked
  <2>2. Settled /\ gate'.required = gate.required
    BY <2>1, <1>2, <1>7, <1>10, SMT
  <2>3. HasAcked(v)
    BY <2>2, <1>10, Zenon DEF HasAcked
  <2>4. ASSUME NEW i \in 1..Len(x), x[i].t = "snapshot" PROVE gate'.required <= x[i].epoch
    <3>1. CASE i \in 1..Len(d) /\ x[i] = d[i]
      BY <3>1, <2>2, <2>3, <2>4, <1>2 DEF SeenOK, d
    <3>2. CASE x[i] = m
      BY <3>2, <1>1, <1>10
    <3> QED BY <3>1, <3>2, <1>6
  <2>5. client'[v].displays \in {metrics', NoSize}
    BY <2>2, <2>3, <1>2 DEF SeenOK
  <2> QED BY <2>4, <2>5
<1>11. SeenOK(v)'
  BY <1>10 DEF SeenOK, x
<1> QED BY <1>8, <1>9, <1>11 DEF ViewerOK

\* A message that tells everybody of a snapshot is well formed.
LEMMA TellTyped ==
  ASSUME IInv, NEW m \in DownMsg
  PROVE  Tell(peers, m) \in [Viewer -> Seq(DownMsg)]
<1>1. down \in [Viewer -> Seq(DownMsg)]
  BY Zenon DEF IInv, TypeOK
<1>2. \A w \in Viewer : down[w] \in Seq(DownMsg) /\ Append(down[w], m) \in Seq(DownMsg)
  BY <1>1, SMT
<1> QED BY <1>2, Zenon DEF Tell

\* The hub's output is withheld, and published again.
LEMMA HideStep ==
  ASSUME IInv, Hide
  PROVE  IInv'
<1>1. /\ shown' = FALSE /\ Fault
      /\ UNCHANGED <<peers, driver, latest, nego, gate, metrics, todo, wire, hub, up, down, client>>
  BY DEF Hide, roleVars, pageVars
<1>2. shown' \in BOOLEAN
  BY <1>1, Zenon
<1>3. TypeOK' /\ DriverOK'
  BY <1>1, <1>2, BudgetTyped DEF IInv, TypeOK, DriverOK
<1>4. RevisionsOK' /\ AppliedOK' /\ LockOK' /\ WireOK' /\ HubOK'
  BY <1>1, AgreementStays
<1>5. \A v \in Viewer : ViewerOK(v)'
  BY <1>1, ViewersStay
<1> QED BY <1>3, <1>4, <1>5 DEF IInv

LEMMA ShowStep ==
  ASSUME IInv, Show
  PROVE  IInv'
<1>1. /\ shown' = TRUE
      /\ down' = IF hub.held = NoSize THEN down ELSE Tell(peers, Canonical)
      /\ UNCHANGED <<peers, driver, latest, nego, gate, metrics, todo, wire, hub, up, client, left>>
  BY DEF Show, roleVars, pageVars
<1>2. shown' \in BOOLEAN
  BY <1>1, Zenon
<1>3. hub.epoch \in Nat /\ hub.held \in Size \cup {NoSize} /\ gate.required \in Nat
  BY SMT DEF IInv, TypeOK
<1>4. hub.held # NoSize => Canonical \in DownMsg
  BY <1>3, SMT DEF Canonical, ShotMsg, DownMsg
<1>5. down' \in [Viewer -> Seq(DownMsg)]
  BY <1>1, <1>4, TellTyped DEF IInv, TypeOK
<1>6. TypeOK' /\ DriverOK'
  BY <1>1, <1>2, <1>5 DEF IInv, TypeOK, DriverOK
<1>7. RevisionsOK' /\ AppliedOK' /\ LockOK' /\ WireOK' /\ HubOK'
  BY <1>1, AgreementStays
<1>8. ASSUME NEW v \in Viewer PROVE ViewerOK(v)'
  <2>1. CASE hub.held = NoSize
    BY <2>1, <1>1, ViewersStay
  <2>2. CASE hub.held # NoSize
    <3>1. down' = Tell(peers, ShotMsg(hub.epoch, "resync", hub.held))
      BY <2>2, <1>1 DEF Canonical
    <3>2. hub.epoch <= hub.epoch /\ hub'.epoch = hub.epoch /\ gate' = gate
      BY <1>1, <1>3, SMT
    <3>3. Settled' => Settled /\ hub.held = metrics /\ gate.required <= hub.epoch
      BY <1>1 DEF Settled, IInv, HubOK
    <3>4. hub.held \in Size
      BY <2>2, <1>3
    <3> QED BY <3>1, <3>2, <3>3, <3>4, <1>1, <1>3, SnapshotTold
  <2> QED BY <2>1, <2>2
<1> QED BY <1>6, <1>7, <1>8 DEF IInv

\* Taking a snapshot from Chromium's output leaves the rest of it as it was.
LEMMA BehindSnapshot ==
  ASSUME IInv, wire # <<>>, Head(wire).t = "shot", wire' = Tail(wire), UNCHANGED <<metrics, todo>>,
         nego'.applying = nego.applying
  PROVE  /\ wire' \in Seq(WireMsg) /\ WireOK' /\ Head(wire).size \in Size
         /\ nego.applying = NoRevision => Head(wire).size = metrics
<1>1. /\ wire' \in Seq(WireMsg) /\ Len(wire') = Len(wire) - 1 /\ Head(wire) = wire[1]
      /\ 1 \in 1..Len(wire) /\ wire[1] \in WireMsg
      /\ \A i \in 1..Len(wire') : i+1 \in 1..Len(wire) /\ wire'[i] = wire[i+1]
  BY WireLess
<1>2. Head(wire).size \in Size
  BY <1>1, SMT DEF WireMsg
<1>3. ASSUME nego.applying = NoRevision PROVE Head(wire).size = metrics
  BY <1>1, <1>3, OnlyShots DEF IInv, WireOK
<1>4. ASSUME NEW i \in 1..Len(wire'), NEW j \in 1..Len(wire'), IsAnswer(wire'[i]), IsAnswer(wire'[j])
      PROVE  i = j
  <2>1. /\ i+1 \in 1..Len(wire) /\ IsAnswer(wire[i+1])
        /\ j+1 \in 1..Len(wire) /\ IsAnswer(wire[j+1])
    BY <1>1, <1>4
  <2>2. i+1 = j+1
    BY <2>1 DEF IInv, WireOK
  <2> QED BY <2>2, SMT
<1>5. ASSUME NEW i \in 1..Len(wire'), wire'[i].t = "shot", wire'[i].size # metrics
      PROVE  \E j \in i+1..Len(wire') : IsAnswer(wire'[j])
  <2>1. i+1 \in 1..Len(wire) /\ wire'[i] = wire[i+1]
    BY <1>1
  <2>2. PICK j \in (i+1)+1..Len(wire) : IsAnswer(wire[j])
    BY <2>1, <1>5 DEF IInv, WireOK
  <2>3. j-1 \in 1..Len(wire') /\ j-1 \in i+1..Len(wire') /\ (j-1)+1 = j
    BY <1>1, SMT
  <2>4. wire'[j-1] = wire[j]
    BY <2>3, <1>1
  <2> QED BY <2>2, <2>3, <2>4
<1>6. WireOK'
  <2>1. todo' => nego'.applying # NoRevision
    BY DEF IInv, WireOK
  <2>2. \A i \in 1..Len(wire') : IsAnswer(wire'[i]) => ~todo' /\ nego'.applying # NoRevision
    BY <1>1 DEF IInv, WireOK
  <2>3. \A i \in 1..Len(wire') : wire'[i].t = "applied" => metrics' = nego'.applying.size
    BY <1>1 DEF IInv, WireOK
  <2> QED BY <2>1, <2>2, <2>3, <1>4, <1>5 DEF WireOK, IsAnswer
<1> QED BY <1>1, <1>2, <1>3, <1>6

(* noteSnapshot(): nothing changes, or a superseded snapshot starts the debounce, or the
   gate opens the epoch of one that was taken at the size asked for last. *)
LEMMA Noted ==
  ASSUME IInv, NEW reason, NEW e \in Nat, reason = "viewport" => hub.owes,
         NoteSnapshot(reason, e), UNCHANGED metrics, hub'.owes => hub.owes /\ reason # "viewport"
  PROVE  /\ nego' \in Negotiation /\ nego'.applying = nego.applying
         /\ gate' \in GateState /\ gate'.acked = gate.acked
         /\ RevisionsOK' /\ AppliedOK' /\ LockOK'
         /\ \/ gate' = gate
            \/ /\ gate.pending /\ ~gate'.pending /\ gate'.required = e
               /\ nego.applying = NoRevision /\ metrics = nego.desired.size
<1> DEFINE settled == [nego EXCEPT !.inFlight = FALSE]
<1>1. nego \in Negotiation /\ gate \in GateState
  BY Zenon DEF IInv, TypeOK, Negotiation, GateState
<1>2. settled \in Negotiation
  BY <1>1, Zenon DEF Negotiation
<1>3. /\ settled.desired = nego.desired /\ settled.applied = nego.applied
      /\ settled.applying = nego.applying /\ settled.debounce = nego.debounce
      /\ settled.inFlight = FALSE
  BY <1>1, SMT DEF Negotiation
<1>4. hub.owes => nego.inFlight /\ gate.pending /\ nego.applying = NoRevision /\ ~nego.debounce
  BY DEF IInv, LockOK, RevisionsOK, Busy
<1>5. CASE reason # "viewport"
  <2>1. UNCHANGED <<nego, gate>>
    BY <1>5 DEF NoteSnapshot
  <2>2. RevisionsOK' /\ AppliedOK' /\ LockOK'
    BY <2>1 DEF IInv, RevisionsOK, AppliedOK, LockOK, Busy, Superseded
  <2> QED BY <2>1, <2>2, <1>1
<1>6. CASE reason = "viewport" /\ Superseded
  <2>1. nego' = ScheduleApply(settled) /\ gate' = gate
    BY <1>6 DEF NoteSnapshot
  <2> HIDE DEF settled
  <2>2. ~Busy(settled)
    BY <1>3, <1>4, <1>6 DEF Busy
  <2>3. nego' = [settled EXCEPT !.debounce = TRUE]
    BY <2>1, <2>2, Zenon DEF ScheduleApply
  <2>4. nego' \in Negotiation
    BY <2>3, <1>2, Zenon DEF Negotiation
  <2>5. /\ nego'.desired = nego.desired /\ nego'.applied = nego.applied
        /\ nego'.applying = nego.applying /\ nego'.debounce /\ nego'.inFlight = FALSE
    BY <2>3, <1>2, <1>3, SMT DEF Negotiation
  <2>6. nego.applied < nego.desired.rev
    BY <1>4, <1>6, <1>1, SMT DEF Superseded, Negotiation, Revision
  <2>7. RevisionsOK' /\ AppliedOK'
    BY <2>5, <2>6, <1>4, <1>6, SMT DEF IInv, RevisionsOK, AppliedOK, Busy
  <2>8. LockOK'
    BY <2>1, <2>5, <1>4, <1>6, SMT DEF IInv, LockOK
  <2> QED BY <2>1, <2>4, <2>5, <2>7, <2>8, <1>1
<1>7. CASE reason = "viewport" /\ ~Superseded
  <2>1. nego' = settled /\ gate' = NoteEpoch(gate, e)
    BY <1>7 DEF NoteSnapshot
  <2> HIDE DEF settled
  <2>2. gate' \in GateState
    BY <2>1, <1>1, Zenon DEF NoteEpoch, GateState
  <2>3. gate'.required = e /\ gate'.pending = FALSE /\ gate'.acked = gate.acked
    BY <2>1, <1>1, SMT DEF NoteEpoch, GateState
  <2>4. metrics = nego.desired.size
    BY <1>1, <1>4, <1>7, SMT
       DEF IInv, AppliedOK, LockOK, RevisionsOK, Superseded, Negotiation, Revision
  <2>5. RevisionsOK' /\ AppliedOK'
    BY <2>1, <1>3, <1>4, <1>7, SMT DEF IInv, RevisionsOK, AppliedOK, Busy
  <2>6. LockOK'
    BY <2>1, <2>3, <1>3, <1>4, <1>7, SMT DEF IInv, LockOK, Superseded
  <2> QED BY <2>1, <2>2, <2>3, <2>4, <2>5, <2>6, <1>2, <1>3, <1>4, <1>7
<1> QED BY <1>5, <1>6, <1>7

\* The hub opens an epoch with a snapshot, and publishes it if the tab is shown.
LEMMA OpenEpochStep ==
  ASSUME IInv, NEW reason \in {"viewport", "trim"}, reason = "viewport" => hub.owes,
         OpenEpoch(reason), Calm \/ Fault
  PROVE  IInv'
<1> DEFINE e == hub.epoch + 1
           s == Head(wire).size
<1>1. /\ wire # <<>> /\ Head(wire).t = "shot" /\ wire' = Tail(wire)
      /\ hub' = [epoch |-> e, held |-> s, owes |-> hub.owes /\ reason # "viewport"]
      /\ \/ /\ NoteSnapshot(reason, e) /\ down' = Tell(peers, ShotMsg(e, reason, s))
         \/ UNCHANGED <<nego, gate, down>>
      /\ UNCHANGED <<peers, driver, latest, metrics, todo, shown, up, client>>
  BY DEF OpenEpoch, roleVars
<1>2. hub.epoch \in Nat /\ e \in Nat /\ hub.epoch <= e /\ hub.epoch < e
  BY SMT DEF IInv, TypeOK
<1>3. hub'.epoch = e /\ hub'.held = s /\ (hub'.owes => hub.owes /\ reason # "viewport")
  BY <1>1, Zenon
<1> HIDE DEF e
<1>4. \/ /\ NoteSnapshot(reason, e) /\ down' = Tell(peers, ShotMsg(e, reason, s))
      \/ UNCHANGED <<nego, gate, down>>
  BY <1>1
<1>5. /\ nego' \in Negotiation /\ nego'.applying = nego.applying
      /\ gate' \in GateState /\ gate'.acked = gate.acked
      /\ RevisionsOK' /\ AppliedOK' /\ LockOK'
      /\ \/ gate' = gate
         \/ /\ gate.pending /\ ~gate'.pending /\ gate'.required = e
            /\ nego.applying = NoRevision /\ metrics = nego.desired.size
  <2>1. CASE NoteSnapshot(reason, e)
    BY <2>1, <1>1, <1>2, <1>3, Noted
  <2>2. CASE UNCHANGED <<nego, gate, down>>
    <3>1. nego \in Negotiation /\ gate \in GateState
      BY Zenon DEF IInv, TypeOK, Negotiation, GateState
    <3>2. RevisionsOK' /\ AppliedOK' /\ LockOK'
      BY <2>2, <1>1, <1>3 DEF IInv, RevisionsOK, AppliedOK, LockOK, Busy, Superseded
    <3> QED BY <3>1, <3>2, <2>2
  <2> QED BY <2>1, <2>2, <1>4
<1>6. /\ wire' \in Seq(WireMsg) /\ WireOK' /\ s \in Size
      /\ nego.applying = NoRevision => s = metrics
  BY <1>1, <1>5, BehindSnapshot
<1> HIDE DEF s
<1>7. gate.required \in Nat /\ gate'.required \in Nat /\ gate.required <= hub.epoch
  BY <1>5, SMT DEF GateState, IInv, HubOK, TypeOK
<1>8. Settled' => /\ s = metrics /\ gate'.required <= e
                  /\ (Settled /\ gate'.required = gate.required) \/ gate'.required > hub.epoch
  <2>1. CASE gate' = gate
    <3>1. Settled => nego.applying = NoRevision
      BY DEF Settled, Superseded, IInv, LockOK
    <3>2. gate.required <= e
      BY <1>2, <1>7, SMT
    <3> QED BY <2>1, <3>1, <3>2, <1>6 DEF Settled
  <2>2. CASE gate'.required = e /\ nego.applying = NoRevision
    BY <2>2, <1>2, <1>6, SMT
  <2> QED BY <2>1, <2>2, <1>5
<1>9. HubOK'
  <2>1. gate'.required <= e
    BY <1>2, <1>5, <1>7, SMT
  <2> QED BY <2>1, <1>1, <1>3, <1>8 DEF HubOK
<1>10. TypeOK' /\ DriverOK'
  <2>1. hub' \in [epoch : Nat, held : Size \cup {NoSize}, owes : BOOLEAN]
    <3>1. (hub.owes /\ reason # "viewport") \in BOOLEAN
      OBVIOUS
    <3>2. hub' = [epoch |-> e, held |-> s, owes |-> hub.owes /\ reason # "viewport"]
      BY <1>1 DEF e, s
    <3> QED BY <3>1, <3>2, <1>2, <1>6, Zenon
  <2>2. ShotMsg(e, reason, s) \in DownMsg
    BY <1>2, <1>6, SMT DEF ShotMsg, DownMsg
  <2>3. down' \in [Viewer -> Seq(DownMsg)]
    BY <2>2, <1>4, TellTyped DEF IInv, TypeOK
  <2>4. left' \in [churn : Nat, faults : Nat]
    BY BudgetTyped
  <2> QED BY <2>1, <2>3, <2>4, <1>1, <1>5, <1>6
        DEF IInv, TypeOK, DriverOK, Negotiation, GateState, WireMsg
<1>11. ASSUME NEW v \in Viewer PROVE ViewerOK(v)'
  <2>1. hub'.epoch \in Nat /\ hub.epoch <= hub'.epoch /\ e <= hub'.epoch
    BY <1>2, <1>3, SMT
  <2>2. CASE down' = Tell(peers, ShotMsg(e, reason, s))
    BY <2>1, <2>2, <1>1, <1>2, <1>5, <1>6, <1>7, <1>8, SnapshotTold
  <2>3. CASE UNCHANGED <<nego, gate, down>>
    <3>1. \A i \in 1..Len(down'[v]) : i+0 \in 1..Len(down[v]) /\ down'[v][i] = down[v][i+0]
      BY <2>3, SMT
    <3>2. v \notin ToSet(peers) => down'[v] = <<>>
      BY <2>3 DEF IInv, ViewerOK, DownOK
    <3>3. \A i \in 1..Len(up'[v]) : \E j \in 1..Len(up[v]) : up[v][j] = up'[v][i]
      BY <1>1
    <3>4. /\ v \in ToSet(peers') <=> v \in ToSet(peers)
          /\ client'[v].displays = client[v].displays /\ metrics' = metrics
      BY <1>1
    <3>5. gate'.acked[v] = gate.acked[v] /\ (Settled' => Settled /\ gate'.required = gate.required)
      BY <2>3 DEF Settled
    <3> QED BY <2>1, <3>1, <3>2, <3>3, <3>4, <3>5, ViewerStep
  <2> QED BY <2>2, <2>3, <1>4
<1> QED BY <1>5, <1>6, <1>9, <1>10, <1>11 DEF IInv

LEMMA SnapshotArrivesStep ==
  ASSUME IInv, SnapshotArrives
  PROVE  IInv'
<1>1. CASE hub.owes /\ Calm /\ OpenEpoch("viewport")
  BY <1>1, OpenEpochStep
<1>2. CASE hub.owes /\ Fault /\ OpenEpoch("trim")
  BY <1>2, OpenEpochStep
<1>3. CASE ~hub.owes /\ Calm /\ OpenEpoch("trim")
  BY <1>3, OpenEpochStep
<1> QED BY <1>1, <1>2, <1>3 DEF SnapshotArrives

\* A viewer takes its next message: a role, or a snapshot it replays or fails to.
LEMMA DeliverStep ==
  ASSUME IInv, NEW v \in Viewer, Deliver(v)
  PROVE  IInv'
<1> DEFINE m == Head(down[v])
           d == down[v]
<1>1. /\ d # <<>> /\ down' = [down EXCEPT ![v] = Tail(@)]
      /\ \/ m.t \in {"hello", "driver"} /\ HandleRole(v, m) /\ Calm /\ UNCHANGED up
         \/ m.t = "snapshot" /\ Displayed(v, m)
      /\ UNCHANGED <<peers, driver, latest, nego, gate, metrics, todo, wire, hub, shown>>
  BY DEF Deliver, Server, roleVars, pageVars
<1>2. down \in [Viewer -> Seq(DownMsg)] /\ d \in Seq(DownMsg)
  BY Zenon DEF IInv, TypeOK
<1>3. /\ 1 \in 1..Len(d) /\ m = d[1] /\ m \in DownMsg /\ Tail(d) \in Seq(DownMsg)
      /\ \A i \in 1..Len(Tail(d)) : i+1 \in 1..Len(d) /\ 1 < i+1 /\ Tail(d)[i] = d[i+1]
  BY <1>1, <1>2, SMT
<1>4. down' \in [Viewer -> Seq(DownMsg)] /\ down'[v] = Tail(d)
      /\ \A w \in Viewer \ {v} : down'[w] = down[w]
  BY <1>1, <1>2, <1>3
<1>5. DownOK(v) /\ AcksOK(v) /\ SeenOK(v) /\ v \in ToSet(peers) /\ hub.epoch \in Nat
  BY <1>1, SMT DEF IInv, ViewerOK, DownOK, TypeOK
<1>6. m.t = "snapshot" => m.epoch \in Nat /\ m.size \in Size
  BY <1>3, SMT DEF DownMsg
<1>7. client \in [Viewer -> ClientState] /\ up \in [Viewer -> Seq(UpMsg)] /\ up[v] \in Seq(UpMsg)
  BY Zenon DEF IInv, TypeOK, ClientState
<1> HIDE DEF m
<1> DEFINE ack == [t |-> "view-ack", epoch |-> m.epoch]
\* What the viewer then knows and says.
<1>8. /\ client' \in [Viewer -> ClientState] /\ left' \in [churn : Nat, faults : Nat]
      /\ \A w \in Viewer \ {v} : client'[w] = client[w]
      /\ \/ m.t # "snapshot" /\ client'[v].displays = client[v].displays /\ up' = up
         \/ /\ m.t = "snapshot" /\ client'[v].displays = m.size
            /\ up' = up \/ up' = [up EXCEPT ![v] = Append(@, ack)]
         \/ m.t = "snapshot" /\ client'[v].displays = NoSize /\ up' = up
  <2>1. CASE m.t \in {"hello", "driver"} /\ HandleRole(v, m) /\ Calm /\ UNCHANGED up
    <3> DEFINE b == (m.driver = v)
               w == m.driver = v /\ Reports(v, m)
    <3>1. client' = [client EXCEPT ![v].believes = b, ![v].wants = w]
      BY <2>1 DEF HandleRole
    <3>2. b \in BOOLEAN /\ w \in BOOLEAN
      BY Zenon
    <3> HIDE DEF b, w
    <3>3. client' \in [Viewer -> ClientState]
      BY <3>1, <3>2, <1>7, Zenon DEF ClientState
    <3>4. client'[v].displays = client[v].displays /\ \A u \in Viewer \ {v} : client'[u] = client[u]
      BY <3>1, <1>7, SMT DEF ClientState
    <3>5. m.t # "snapshot"
      BY <2>1
    <3> QED BY <2>1, <3>3, <3>4, <3>5, BudgetTyped
  <2>2. CASE /\ m.t = "snapshot" /\ Calm
             /\ client' = [client EXCEPT ![v].displays = m.size]
             /\ up' = IF AcksSnapshot(v, m) THEN [up EXCEPT ![v] = Append(@, ack)] ELSE up
    <3>1. client' \in [Viewer -> ClientState]
      BY <2>2, <1>6, <1>7, Zenon DEF ClientState
    <3>2. client'[v].displays = m.size /\ \A u \in Viewer \ {v} : client'[u] = client[u]
      BY <2>2, <1>7, SMT DEF ClientState
    <3> QED BY <2>2, <3>1, <3>2, BudgetTyped
  <2>3. CASE /\ m.t = "snapshot" /\ Fault /\ UNCHANGED up
             /\ client' = [client EXCEPT ![v].displays = NoSize,
                             ![v].missed = IF m.reason = "viewport" THEN m.epoch ELSE @]
    <3> DEFINE n == IF m.reason = "viewport" THEN m.epoch ELSE client[v].missed
    <3>1. n \in Nat
      BY <2>3, <1>6, <1>7, SMT DEF ClientState
    <3>2. client' = [client EXCEPT ![v].displays = NoSize, ![v].missed = n]
      BY <2>3, <1>7, SMT DEF ClientState
    <3> HIDE DEF n
    <3>3. client' \in [Viewer -> ClientState]
      BY <3>1, <3>2, <1>7, Zenon DEF ClientState
    <3>4. client'[v].displays = NoSize /\ \A u \in Viewer \ {v} : client'[u] = client[u]
      BY <3>2, <1>7, SMT DEF ClientState
    <3> QED BY <2>3, <3>3, <3>4, BudgetTyped
  <2> QED BY <2>1, <2>2, <2>3, <1>1 DEF Displayed
\* What it says next.
<1>9. /\ up' \in [Viewer -> Seq(UpMsg)] /\ \A w \in Viewer \ {v} : up'[w] = up[w]
      /\ \A i \in 1..Len(up'[v]) :
           \/ i \in 1..Len(up[v]) /\ up'[v][i] = up[v][i]
           \/ m.t = "snapshot" /\ client'[v].displays = m.size /\ up'[v][i] = ack
  <2>1. CASE up' = up
    BY <2>1, <1>7
  <2>2. CASE up' = [up EXCEPT ![v] = Append(@, ack)] /\ m.t = "snapshot" /\ client'[v].displays = m.size
    <3>1. ack \in UpMsg
      BY <2>2, <1>6, SMT DEF UpMsg
    <3> HIDE DEF ack
    <3>2. Append(up[v], ack) \in Seq(UpMsg)
          /\ \A i \in 1..Len(Append(up[v], ack)) :
               \/ i \in 1..Len(up[v]) /\ Append(up[v], ack)[i] = up[v][i]
               \/ Append(up[v], ack)[i] = ack
      BY <3>1, <1>7, SMT
    <3> QED BY <2>2, <3>2, <1>7
  <2> QED BY <2>1, <2>2, <1>8
<1> HIDE DEF ack
<1>10. TypeOK' /\ DriverOK'
  BY <1>1, <1>4, <1>8, <1>9 DEF IInv, TypeOK, DriverOK, ClientState
<1>11. RevisionsOK' /\ AppliedOK' /\ LockOK' /\ WireOK' /\ HubOK'
  BY <1>1, AgreementStays
<1>12. /\ hub'.epoch \in Nat /\ hub.epoch <= hub'.epoch /\ metrics' = metrics
       /\ Settled' => Settled /\ gate'.required = gate.required
       /\ \A w \in Viewer : w \in ToSet(peers') <=> w \in ToSet(peers)
       /\ \A w \in Viewer : gate'.acked[w] = gate.acked[w]
  BY <1>1, <1>5, SMT DEF Settled
<1>13. ASSUME NEW w \in Viewer \ {v} PROVE ViewerOK(w)'
  <2>1. \A i \in 1..Len(down'[w]) : i+0 \in 1..Len(down[w]) /\ down'[w][i] = down[w][i+0]
    BY <1>4, SMT
  <2>2. w \notin ToSet(peers) => down'[w] = <<>>
    BY <1>4 DEF IInv, ViewerOK, DownOK
  <2>3. \A i \in 1..Len(up'[w]) : \E j \in 1..Len(up[w]) : up[w][j] = up'[w][i]
    BY <1>9
  <2>4. client'[w].displays = client[w].displays
    BY <1>8
  <2> QED BY <1>12, <2>1, <2>2, <2>3, <2>4, ViewerStep
<1>14. \A i \in 1..Len(down'[v]) : i+1 \in 1..Len(down[v]) /\ down'[v][i] = down[v][i+1]
  BY <1>3, <1>4
<1>15. CASE m.t # "snapshot"
  <2>1. \A i \in 1..Len(up'[v]) : \E j \in 1..Len(up[v]) : up[v][j] = up'[v][i]
    BY <1>15, <1>9
  <2>2. client'[v].displays = client[v].displays
    BY <1>15, <1>8
  <2>3. ViewerOK(v)'
    BY <2>1, <2>2, <1>5, <1>12, <1>14, ViewerStep
  <2> QED BY <2>3, <1>10, <1>11, <1>13 DEF IInv
<1>16. CASE m.t = "snapshot"
  <2>1. /\ m.epoch <= hub.epoch
        /\ Settled /\ gate.required <= m.epoch => m.size = metrics
    BY <1>16, <1>3, <1>5 DEF DownOK
  <2>2. ASSUME NEW i \in 1..Len(down'[v]), down'[v][i].t = "snapshot"
        PROVE  m.epoch <= down'[v][i].epoch /\ down'[v][i].epoch \in Nat
    <3>1. i+1 \in 1..Len(d) /\ 1 < i+1 /\ down'[v][i] = d[i+1]
      BY <1>3, <1>4
    <3>2. m.epoch <= d[i+1].epoch
      BY <3>1, <2>2, <1>3, <1>5, <1>16 DEF DownOK
    <3> QED BY <3>1, <3>2, <2>2, DownTyped
  <2>3. DownOK(v)'
    <3>1. ASSUME NEW i \in 1..Len(down'[v]), NEW j \in 1..Len(down'[v]), i < j,
                 down'[v][i].t = "snapshot", down'[v][j].t = "snapshot"
          PROVE  down'[v][i].epoch <= down'[v][j].epoch
      <4>1. i+1 < j+1
        BY <3>1, SMT
      <4> QED BY <3>1, <4>1, <1>5, <1>14 DEF DownOK
    <3>2. v \in ToSet(peers')
      BY <1>5, <1>12
    <3> QED BY <3>1, <3>2, <1>1, <1>5, <1>12, <1>14 DEF DownOK, Settled
  <2>4. AcksOK(v)'
    <3>1. ASSUME NEW i \in 1..Len(up'[v]), up'[v][i].t = "view-ack"
          PROVE  up'[v][i].epoch <= hub'.epoch /\ v \in ToSet(peers')
      <4>1. CASE i \in 1..Len(up[v]) /\ up'[v][i] = up[v][i]
        BY <4>1, <3>1, <1>1, <1>5 DEF AcksOK
      <4>2. CASE up'[v][i] = ack
        BY <4>2, <2>1, <1>1, <1>5 DEF ack
      <4> QED BY <4>1, <4>2, <1>9
    <3> QED BY <3>1, <1>1, <1>5 DEF AcksOK
  <2>5. SeenOK(v)'
    <3>1. SUFFICES ASSUME Settled', HasAcked(v)'
                   PROVE  /\ client'[v].displays \in {metrics', NoSize}
                          /\ \A i \in 1..Len(down'[v]) :
                               down'[v][i].t = "snapshot" => gate'.required <= down'[v][i].epoch
      BY DEF SeenOK
    <3>2. Settled /\ gate'.required = gate.required /\ gate.required \in Nat
      BY <3>1, <1>12, SMT DEF IInv, TypeOK
    <3>3. gate.required <= m.epoch
      <4>1. CASE HasAcked(v)
        BY <4>1, <3>2, <1>3, <1>5, <1>16 DEF SeenOK
      <4>2. CASE \E i \in 1..Len(up'[v]) : up'[v][i] = ack /\ up'[v][i].epoch = gate'.required
        <5>1. m.epoch = gate.required
          BY <4>2, <3>2 DEF ack
        <5> QED BY <5>1, <3>2, SMT
      <4> QED BY <4>1, <4>2, <3>1, <3>2, <1>1, <1>9 DEF HasAcked
    <3>4. client'[v].displays \in {m.size, NoSize}
      BY <1>8, <1>16
    <3>5. ASSUME NEW i \in 1..Len(down'[v]), down'[v][i].t = "snapshot"
          PROVE  gate'.required <= down'[v][i].epoch
      BY <3>2, <3>3, <3>5, <2>2, <1>6, <1>16, SMT
    <3> QED BY <3>2, <3>3, <3>4, <3>5, <2>1, <1>1
  <2>6. ViewerOK(v)'
    BY <2>3, <2>4, <2>5 DEF ViewerOK
  <2> QED BY <2>6, <1>10, <1>11, <1>13 DEF IInv
<1> QED BY <1>15, <1>16

------------------------------------------------------------------------------
(* The theorems. *)

\* An acknowledgement locks and unlocks nothing; a `view` locks.
LEMMA LockAlone ==
  ASSUME NEW g \in GateState
  PROVE  /\ LockedByView(g).pending = TRUE
         /\ \A v \in Viewer : \A e : [g EXCEPT !.acked[v] = e].pending = g.pending
BY SMT DEF LockedByView, GateState

\* Only the snapshot that settles the agreement ends the lock.
LEMMA OnlySettlingUnlocks ==
  ASSUME IInv, Next, gate.pending, ~gate'.pending
  PROVE  hub'.held = nego.desired.size /\ metrics = nego.desired.size
<1>1. gate \in GateState
  BY Zenon DEF IInv, TypeOK, GateState
<1>2. CASE \/ ApplyOverride \/ Override \/ OverrideApplied \/ OverrideRefused \/ RetrySnapshot
           \/ ForgetRequest \/ EmitSnapshot \/ Hide \/ Show
  <2>1. gate' = gate
    BY <1>2, Zenon DEF ApplyOverride, Override, OverrideApplied, OverrideRefused, RetrySnapshot,
         ForgetRequest, EmitSnapshot, Hide, Show
  <2> QED BY <2>1
<1>3. ASSUME NEW v \in Viewer,
             Connect(v) \/ Deliver(v) \/ Resize(v) \/ ReportViewport(v) \/ AskTransfer(v)
      PROVE  FALSE
  <2>1. gate' = gate
    BY <1>3, Zenon DEF Connect, Deliver, Resize, ReportViewport, AskTransfer, Server
  <2> QED BY <2>1
<1>4. ASSUME NEW v \in Viewer, Disconnect(v) PROVE FALSE
  <2>1. gate' = Forgotten(gate, v) \/ gate' = LockedByView(Forgotten(gate, v))
    <3> DEFINE again == IF driver' = driver \/ driver' = NoViewer THEN NoSize ELSE latest[driver']
    <3>1. \/ gate' = Forgotten(gate, v) /\ UNCHANGED nego
          \/ /\ again # NoSize
             /\ nego' = ScheduleApply([nego EXCEPT !.desired = [rev |-> @.rev + 1, size |-> again]])
             /\ gate' = LockedByView(Forgotten(gate, v))
      BY <1>4 DEF Disconnect
    <3> HIDE DEF again
    <3> QED BY <3>1
  <2>2. Forgotten(gate, v) \in GateState
    BY <1>1, Zenon DEF Forgotten, GateState
  <2>3. Forgotten(gate, v).pending = gate.pending
    BY <1>1, LockAlone DEF Forgotten
  <2> QED BY <2>1, <2>2, <2>3, LockAlone
<1>5. ASSUME NEW v \in Viewer, ReceiveUp(v) PROVE FALSE
  <2> DEFINE m == Head(up[v])
  <2>1. \/ gate' = gate
        \/ gate' = LockedByView(gate)
        \/ gate' = [gate EXCEPT !.acked[v] = m.epoch]
    <3>1. CASE IF driver = v THEN View(m.size) ELSE UNCHANGED <<nego, gate>>
      BY <3>1, Zenon DEF View
    <3>2. CASE gate' = IF driver = v THEN Acknowledge(v, m.epoch) ELSE gate
      <4>1. \/ Acknowledge(v, m.epoch) = gate
            \/ Acknowledge(v, m.epoch) = [gate EXCEPT !.acked[v] = m.epoch]
        BY Zenon DEF Acknowledge
      <4> QED BY <3>2, <4>1, Zenon
    <3>3. CASE Transfer(v, m.to)
      BY <3>3, Zenon DEF Transfer, ViewAgain, View
    <3> QED BY <1>5, <3>1, <3>2, <3>3, Zenon DEF ReceiveUp
  <2> HIDE DEF m
  <2>2. LockedByView(gate).pending = TRUE /\ [gate EXCEPT !.acked[v] = m.epoch].pending = gate.pending
    BY <1>1, LockAlone, Zenon
  <2> QED BY <2>1, <2>2, Zenon
<1>6. ASSUME NEW reason \in {"viewport", "trim"}, reason = "viewport" => hub.owes, OpenEpoch(reason)
      PROVE  hub'.held = nego.desired.size /\ metrics = nego.desired.size
  <2> DEFINE e == hub.epoch + 1
             s == Head(wire).size
  <2>1. /\ wire # <<>> /\ Head(wire).t = "shot" /\ wire' = Tail(wire) /\ UNCHANGED <<metrics, todo>>
        /\ hub' = [epoch |-> e, held |-> s, owes |-> hub.owes /\ reason # "viewport"]
        /\ NoteSnapshot(reason, e) \/ gate' = gate
    BY <1>6 DEF OpenEpoch
  <2>2. NoteSnapshot(reason, e)
    BY <2>1
  <2>3. e \in Nat
    BY SMT DEF IInv, TypeOK
  <2>4. hub'.held = s /\ (hub'.owes => hub.owes /\ reason # "viewport")
    BY <2>1, Zenon
  <2> HIDE DEF e
  <2>5. /\ nego'.applying = nego.applying /\ nego.applying = NoRevision
        /\ metrics = nego.desired.size
    BY <1>6, <2>1, <2>2, <2>3, <2>4, Noted
  <2>6. s = metrics
    BY <2>1, <2>5, BehindSnapshot
  <2> QED BY <2>4, <2>5, <2>6
<1>7. CASE SnapshotArrives
  BY <1>7, <1>6 DEF SnapshotArrives
<1> QED BY <1>2, <1>3, <1>4, <1>5, <1>7 DEF Next

LEMMA InitIInv == Init => IInv
<1> SUFFICES ASSUME Init PROVE IInv
  OBVIOUS
<1>1. NoRevision \in Revision /\ nego \in Negotiation /\ gate \in GateState
  <2>1. NoRevision \in Revision
    BY SMT DEF NoRevision, Revision
  <2> QED BY <2>1 DEF Init, Negotiation, GateState
<1>2. client \in [Viewer -> ClientState]
  BY ViewportConstants DEF Init, ClientInit, ClientState
<1>3. /\ peers = <<>> /\ peers \in Seq(Viewer) /\ ToSet(peers) = {} /\ IsInjective(peers)
      /\ wire \in Seq(WireMsg) /\ Len(wire) = 0
      /\ \A v \in Viewer : Len(up[v]) = 0 /\ Len(down[v]) = 0 /\ down[v] = <<>>
  BY SMT DEF Init, ToSet, IsInjective
<1>4. up \in [Viewer -> Seq(UpMsg)] /\ down \in [Viewer -> Seq(DownMsg)]
  BY SMT DEF Init
<1>5. TypeOK
  BY <1>1, <1>2, <1>3, <1>4, ViewportConstants
     DEF Init, TypeOK, Negotiation, GateState, ClientState, WireMsg
<1>6. DriverOK
  BY <1>3 DEF DriverOK
<1>7. RevisionsOK /\ AppliedOK /\ LockOK
  BY SMT DEF Init, RevisionsOK, AppliedOK, LockOK, Superseded, Busy, NoRevision
<1>8. WireOK
  BY <1>3, SMT DEF Init, WireOK
<1>9. HubOK
  BY SMT DEF Init, HubOK, Settled
<1>10. ASSUME NEW v \in Viewer PROVE ViewerOK(v)
  BY <1>3, SMT DEF Init, ViewerOK, DownOK, AcksOK, SeenOK, Settled
<1> QED BY <1>5, <1>6, <1>7, <1>8, <1>9, <1>10 DEF IInv

LEMMA NextIInv == IInv /\ [Next]_vars => IInv'
<1> SUFFICES ASSUME IInv, [Next]_vars PROVE IInv'
  OBVIOUS
<1>1. CASE ApplyOverride
  BY <1>1, ApplyOverrideStep
<1>2. CASE Override
  BY <1>2, OverrideStep
<1>3. CASE OverrideApplied
  BY <1>3, OverrideAppliedStep
<1>4. CASE OverrideRefused
  BY <1>4, OverrideRefusedStep
<1>5. CASE RetrySnapshot
  BY <1>5, RetrySnapshotStep
<1>6. CASE ForgetRequest
  BY <1>6, ForgetRequestStep
<1>7. CASE EmitSnapshot
  BY <1>7, EmitSnapshotStep
<1>8. CASE SnapshotArrives
  BY <1>8, SnapshotArrivesStep
<1>9. CASE Hide
  BY <1>9, HideStep
<1>10. CASE Show
  BY <1>10, ShowStep
<1>11. ASSUME NEW v \in Viewer,
              \/ Connect(v) \/ Disconnect(v) \/ ReceiveUp(v) \/ Deliver(v)
              \/ Resize(v) \/ ReportViewport(v) \/ AskTransfer(v)
       PROVE  IInv'
  BY <1>11, ConnectStep, DisconnectStep, ReceiveUpStep, DeliverStep, ResizeStep,
     ReportViewportStep, AskTransferStep
<1>12. CASE UNCHANGED vars
  <2>1. /\ UNCHANGED <<peers, driver, latest, nego, gate, metrics, todo, wire, hub, shown>>
        /\ UNCHANGED <<up, down, client, left>>
    BY <1>12 DEF vars, roleVars, pageVars
  <2>2. TypeOK' /\ DriverOK'
    BY <2>1 DEF IInv, TypeOK, DriverOK
  <2> QED BY <2>1, <2>2, AgreementStays, ViewersStay DEF IInv
<1> QED BY <1>1, <1>2, <1>3, <1>4, <1>5, <1>6, <1>7, <1>8, <1>9, <1>10, <1>11, <1>12 DEF Next

LEMMA Invariance == Spec => []IInv
BY InitIInv, NextIInv, PTL DEF Spec

(***************************************************************************)
(* Input that the gate lets through was aimed at the geometry Chromium     *)
(* has: the screen of the driver shows a replay of the page at exactly the *)
(* device metrics it is laid out with, or none.                            *)
(***************************************************************************)
THEOREM InputMatchesGeometryHolds == Spec => []InputMatchesGeometry
<1>1. IInv => InputMatchesGeometry
  <2> SUFFICES ASSUME IInv, driver # NoViewer, AllowsInput(driver)
               PROVE  client[driver].displays \in {metrics, NoSize}
    BY DEF InputMatchesGeometry
  <2>1. driver \in Viewer
    BY SMT DEF IInv, TypeOK, ToSet
  <2>2. Settled /\ HasAcked(driver)
    BY DEF AllowsInput, Settled, HasAcked
  <2> QED BY <2>1, <2>2 DEF IInv, ViewerOK, SeenOK
<1> QED BY <1>1, Invariance, PTL

(***************************************************************************)
(* The session never stays without a driver while somebody who may drive   *)
(* is connected, and who drives is connected.                              *)
(***************************************************************************)
THEOREM SomebodyDrivesHolds == Spec => []SomebodyDrives
<1>1. IInv => SomebodyDrives
  BY DEF IInv, DriverOK, SomebodyDrives
<1> QED BY <1>1, Invariance, PTL

\* A locked gate is being worked on, whatever failed.
THEOREM LockIsPursuedHolds == Spec => []LockIsPursued
<1>1. IInv => LockIsPursued
  BY DEF IInv, LockOK, LockIsPursued
<1> QED BY <1>1, Invariance, PTL

(***************************************************************************)
(* The step that ends the lock publishes a snapshot taken at the size that *)
(* was asked for last.                                                     *)
(***************************************************************************)
THEOREM UnlocksAtFinalGeometryHolds == Spec => UnlocksAtFinalGeometry
<1>1. IInv /\ [Next]_vars =>
        [gate.pending /\ ~gate'.pending
           => hub'.held = nego.desired.size /\ metrics = nego.desired.size]_vars
  BY OnlySettlingUnlocks
<1> QED BY <1>1, Invariance, PTL DEF Spec, UnlocksAtFinalGeometry
==============================================================================
