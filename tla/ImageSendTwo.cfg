CONSTANTS
  Senders = {s1, s2}
  Conns = {c1, c2}
  NoConn = NoConn
  data_size = 5
  CHUNK_SIZE = 2
  Word = 16
SYMMETRY SendSymmetry
SPECIFICATION Spec
INVARIANTS TypeOK SentInOrder CountersAgree TruncatedOnlyAfterFailure
PROPERTY LoneFailureReconnects
CHECK_DEADLOCK FALSE
