SPECIFICATION Spec
CONSTANTS
  SingleLoop = TRUE
  ServerTimeout = TRUE
  MessagePlans <- ServerPlans
  ConnectedPlans <- GreetingPlans
  EventPlans <- EventCalls
  OtherCalls = {"send", "shutdown", "release"}
  MaxOther = 1
  MaxRecv = 2
  MaxOut = 2
INVARIANTS
  WriteInterestExact
  DrainsBeforeClose
  ConnectionInv
  ClosedExactlyOnce
  EnabledMeansArmed
