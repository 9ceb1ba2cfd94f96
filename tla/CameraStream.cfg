CONSTANTS
  Workers = {w1, w2}
  N_BUF = 3
SYMMETRY WorkerSymmetry
SPECIFICATION Spec
INVARIANTS TypeOK NoMisuse StreamReleased
CHECK_DEADLOCK FALSE
