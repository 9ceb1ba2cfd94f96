CONSTANTS
  Executors = {e1, e2}
  WORK = WORK
  Commands = {WORK, SLEEP, CLOSE}
  MaxCommands = 4
SPECIFICATION FairSpec
INVARIANTS TypeOK SafeUnlessOverlapped CommandsConserved
PROPERTY ImplementsService
CHECK_DEADLOCK FALSE
