CONSTANTS
  Main = main
  Acceptors = {main, w1}
  Parsers = {p1, p2, p3, p4}
  MaxAccepts = 5
SYMMETRY ParserSymmetry
SPECIFICATION Spec
INVARIANTS TypeOK CountConserved
PROPERTY SurplusIsPermanent
CHECK_DEADLOCK FALSE
