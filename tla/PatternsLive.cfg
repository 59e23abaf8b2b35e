SPECIFICATION FairSpec
CONSTANTS
  RCVBUF = 2
  NoPipe = NoPipe
  Deadline = 1
  MaxSend = 2
  Topologies <- LiveNets
PROPERTIES RequestAnswered SurveyEnds EverythingArrives
CHECK_DEADLOCK FALSE
