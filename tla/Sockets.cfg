CONSTANTS
  Acceptors = {a}
  Connectors = {c}
  Streams = {s, t}
  Datagrams = {d, e}
  Handles = {0, 1, 2}
  MaxAlive = 2
  MaxBytes = 2
SPECIFICATION FairSpec
CONSTRAINT LoopAlone
INVARIANTS TypeOK OneOwner LostOnlyByShutdown OutcomeTrue
PROPERTY LoopReturns
