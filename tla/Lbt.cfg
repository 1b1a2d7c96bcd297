SPECIFICATION FairSpec
CONSTANTS
  NofPhys = 2
  MaxBackoff = 2
  Immediate = TRUE
  MaxRequests = 2
INVARIANT TypeOK
PROPERTIES
  AnswerJustified
  RequestsAnswered
CHECK_DEADLOCK FALSE
