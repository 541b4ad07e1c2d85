SPECIFICATION FairSpec
CONSTANTS
  u1 = u1
  u2 = u2
  Calls <- TwoCalls
  Settings <- ThreeSettings
  MaxPosted = 2
  MaxOffline = 1
INVARIANTS
  NoProviderLeft
  CallbacksAreOfCalls
  OutcomeIsTrue
PROPERTIES
  UpdateEnds
CHECK_DEADLOCK FALSE
