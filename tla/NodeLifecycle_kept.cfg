SPECIFICATION FairSpec
CONSTANTS
  SetupTasks = {t1, t2}
  Interviewers = {i1}
  Removers = {}
  OfflineTasks = {o1}
  SubIds = {s1, s2}
  NoTask = NoTask
  NoSub = NoSub
INVARIANTS
  OneSetupTask
  NoLeakedSubscription
  AvailableIsSubscribed
PROPERTIES
  SubscribedAgain
