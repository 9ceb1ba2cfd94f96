CONSTANTS
  Main = main
  Acceptors = {main}
  Parsers = {p1, p2}
  MaxAccepts = 2
SPECIFICATION Spec
INVARIANT CurrentClientServed
CHECK_DEADLOCK FALSE
