SPECIFICATION Spec
CONSTANTS
  SetupTasks = {t1, t2}
  Interviewers = {}
  Removers = {r1, r2}
  OfflineTasks = {o1}
  SubIds = {s1, s2}
  NoTask = NoTask
  NoSub = NoSub
SYMMETRY Symmetry
INVARIANTS
  TrackedIsOpen
  ViewIsCurrent
