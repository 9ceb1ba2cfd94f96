CHECK_DEADLOCK FALSE
CONSTANTS
  Main = main
  Senders = {s}
  Parsers = {p}
  Closers = {c, d}
  Numbers = {0, 1, 2}
SPECIFICATION Spec
CONSTRAINT Unraced
INVARIANT OwnedUnlessRaced
PROPERTY JudgedByOthers
