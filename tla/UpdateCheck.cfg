SPECIFICATION SearchSpec
CONSTANTS
  Versions = {1, 2, 3}
  Names = {a, b}
  a = a
  b = b
  Unlisted = Unlisted
  Latest = Latest
  Descriptions <- MCDescriptions
  Files <- MCFiles
INVARIANTS
  SearchIsRight
CHECK_DEADLOCK FALSE
