------------------------------ MODULE HubStream ------------------------------
(***************************************************************************)
(* What a tab's EventHub promises to everything downstream of it           *)
(* (packages/gateway/src/hub/tabhub.ts, class TabHub).                     *)
(*                                                                         *)
(* A tab publishes a sequence of EPOCHS.  An epoch opens with one snapshot *)
(* (an rrweb [Meta, FullSnapshot] pair) and continues with deltas, each    *)
(* numbered with the next per-tab sequence number.  A navigation closes    *)
(* the current epoch: nothing can be replayed until the new document opens *)
(* the next one.  "Canonical live state = latest [Meta, FullSnapshot] +    *)
(* ordered delta buffer since it."                                         *)
(*                                                                         *)
(* TabHub implements this module, and MirrorStream composes it with the    *)
(* fan-out and the viewers.                                                *)
(***************************************************************************)
EXTENDS Integers, Sequences

CONSTANTS Base,     \* replayable snapshot pairs
          Delta,    \* incremental events
          NoBase    \* no snapshot pair is held

ASSUME NoBaseAssumption == NoBase \notin Base

VARIABLES epoch,    \* gateway-assigned epoch of the tab
          seq,      \* sequence number of the last published event
          base,     \* snapshot pair of the open epoch, or NoBase
          baseSeq,  \* sequence number that pair was published with
          tail      \* deltas published since, in order

streamVars == <<epoch, seq, base, baseSeq, tail>>

StreamTypeOK ==
  /\ epoch \in Nat
  /\ seq \in Nat
  /\ base \in Base \cup {NoBase}
  /\ baseSeq \in Nat
  /\ tail \in Seq(Delta)

StreamInit ==
  /\ epoch = 0
  /\ seq = 0
  /\ base = NoBase
  /\ baseSeq = 0
  /\ tail = <<>>

(* A complete pair arrived: the next epoch opens on it. *)
OpenEpoch(b) ==
  /\ epoch' = epoch + 1
  /\ seq' = seq + 1
  /\ base' = b
  /\ baseSeq' = seq + 1
  /\ tail' = <<>>

(* An incremental event extends the open epoch. *)
AppendDelta(d) ==
  /\ base # NoBase
  /\ seq' = seq + 1
  /\ tail' = Append(tail, d)
  /\ UNCHANGED <<epoch, base, baseSeq>>

\* Mutant: a new document also starts the numbering anew.
CloseDocument_Renumbers ==
  /\ base' = NoBase
  /\ epoch' = 0
  /\ seq' = 0
  /\ baseSeq' = 0
  /\ tail' = <<>>

(* A new document invalidates everything held; numbering goes on. *)
CloseDocument ==
  /\ base' = NoBase
  /\ baseSeq' = 0
  /\ tail' = <<>>
  /\ UNCHANGED <<epoch, seq>>

StreamNext ==
  \/ \E b \in Base : OpenEpoch(b)
  \/ \E d \in Delta : AppendDelta(d)
  \/ CloseDocument

StreamSpec == StreamInit /\ [][StreamNext]_streamVars

------------------------------------------------------------------------------
(* The messages of the stream. *)

SnapshotMsg(e, s, b) == [t |-> "snapshot", epoch |-> e, seq |-> s, data |-> b]
DeltaMsg(e, s, ds)   == [t |-> "delta", epoch |-> e, seq |-> s, data |-> ds]
ResyncMsg            == [t |-> "resync"]

\* Mutant: the buffered deltas are numbered from the snapshot itself.
JoinPayload_OffByOne ==
  <<ResyncMsg, SnapshotMsg(epoch, baseSeq, base), DeltaMsg(epoch, baseSeq, tail)>>

(* joinPayload(): what a viewer that joins, or resyncs, is sent. *)
JoinPayload ==
  IF base = NoBase THEN <<ResyncMsg>>
  ELSE IF tail = <<>> THEN <<ResyncMsg, SnapshotMsg(epoch, baseSeq, base)>>
  ELSE <<ResyncMsg, SnapshotMsg(epoch, baseSeq, base), DeltaMsg(epoch, baseSeq + 1, tail)>>

(***************************************************************************)
(* The sequence number of a delta is its position after the snapshot, so   *)
(* the join payload ends exactly where the live tail goes on: the buffer   *)
(* has neither a hole nor a duplicate.                                     *)
(***************************************************************************)
TailContiguous == base # NoBase => seq = baseSeq + Len(tail)
==============================================================================
