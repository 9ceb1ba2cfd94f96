CONSTANTS
  Workers = {w1, w2}
  Null = Null
  IMX8 = TRUE
SPECIFICATION FairSpec
INVARIANTS TypeOK ImageWholeAndFresh NoImageAfterFailure FileComplete
PROPERTY ImageObtained
CHECK_DEADLOCK FALSE
