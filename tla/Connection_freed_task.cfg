SPECIFICATION Spec
CONSTANTS
  SingleLoop = TRUE
  ServerTimeout = TRUE
  MessagePlans <- AnswerPlans
  ConnectedPlans <- NoCalls
  EventPlans <- NoCalls
  OtherCalls = {}
  MaxOther = 0
  MaxRecv = 0
  MaxOut = 1
INVARIANT
  NoTaskForFreed
