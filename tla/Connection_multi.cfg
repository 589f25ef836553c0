SPECIFICATION FairSpec
CONSTANTS
  SingleLoop = FALSE
  ServerTimeout = FALSE
  MessagePlans <- ServerPlans
  ConnectedPlans <- EnablePlans
  EventPlans <- NudgePlans
  OtherCalls = {"send", "sendNothing", "release", "cancel"}
  MaxOther = 1
  MaxRecv = 1
  MaxOut = 1
INVARIANTS
  RemovalFollowsInsertion
  TimerDiesWithConnection
PROPERTIES
  PeerGoneIsCleanedUp
  HalfClosedFinishes
