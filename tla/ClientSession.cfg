SPECIFICATION FairSpec
CONSTANTS
  Commands = {c1, c2}
  QueueLimit = 2
  WireLimit = 1
  MaxTicks = 2
  Mischief = {"drop", "stop", "quit", "listen twice", "invalid", "cancel"}
INVARIANTS
  NothingMissed
PROPERTIES
  ImplementsEventStream
  SessionEnds
  CommandsEnd
CHECK_DEADLOCK FALSE
