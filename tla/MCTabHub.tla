------------------------------- MODULE MCTabHub -------------------------------
(* TabHub under the most general environment, on two documents. *)
EXTENDS TabHub, FiniteSets

CONSTANTS MaxEpoch,     \* bound on the epochs opened
          MaxDeltas,    \* bound on the buffered deltas
          MaxAttempt,   \* bound on the snapshot request attempts
          MaxUnsettled  \* bound on the promises pending at once

\* One event content is small, the other exceeds the byte limit on its own.
MCBytes == [b \in Body |-> b]

Bounded ==
  /\ epoch <= MaxEpoch
  /\ Len(deltas) <= MaxDeltas
  /\ rec.attempt <= MaxAttempt
  /\ Cardinality(unsettled) <= MaxUnsettled
==============================================================================
