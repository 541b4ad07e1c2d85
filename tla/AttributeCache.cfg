SPECIFICATION Spec
CONSTANTS
  Endpoints = {1, 2}
  Readers = {r1}
  Interviewers = {i1, i2}
  MaxChanges = 2
INVARIANTS
  CacheConverges
  MirrorMatches
PROPERTIES
  OnlyOrphanReadsFail
SYMMETRY Symmetry
CHECK_DEADLOCK FALSE
