SPECIFICATION PollerSpec
CONSTANTS
  Nodes = {1, 2, 3}
INVARIANTS
  OneRoundOfKnownNodes
PROPERTIES
  PolledAgain
CHECK_DEADLOCK FALSE
