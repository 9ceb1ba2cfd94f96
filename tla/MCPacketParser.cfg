CONSTANTS
  Conns = {c1, c2}
  NoConn = NoConn
  HEAD = HEAD
  TAIL = TAIL
  ANY_OTHER = ANY_OTHER
  WORK = WORK
  Commands = {WORK}
  Params <- HeadInside
  Faults = {"eof", "reset", "close", "accept"}
  MaxPackets = 2
  MaxPushed = 2
  MaxCount = 2
SPECIFICATION ParserFairSpec
CONSTRAINT FewFaults
INVARIANTS ParserTypeOK WholePackets PushedOnceInOrder FailureOnlyRepeats
PROPERTY CommandHeard
CHECK_DEADLOCK FALSE
