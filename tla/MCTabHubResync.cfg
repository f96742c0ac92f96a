SPECIFICATION HubSpec
CONSTANTS
  Doc = {d1, d2}
  NoDoc = NoDoc
  Body = {1, 3}
  Bytes <- MCBytes
  NoEvent = NoEvent
  MaxDeltaEvents = 1
  MaxDeltaBytes = 2
  RetryBase = 2
  RetryMax = 7
  MaxEpoch = 2
  MaxDeltas = 2
  MaxAttempt = 5
  MaxUnsettled = 2
CONSTRAINT Bounded
INVARIANT ResyncRequestPursued
