CONSTANTS
  Workers = {w1}
  Null = Null
  IMX8 = TRUE
SPECIFICATION FairSpec
PROPERTY FailureReported
CHECK_DEADLOCK FALSE
