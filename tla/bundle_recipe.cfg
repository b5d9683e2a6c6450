SPECIFICATION Spec
CONSTANTS
  Readers <- OneReader
  Machine <- Posix
  Paths <- NestedPaths
  Globs <- NestedGlobs
  FirstContents <- FileOrNot
  Absent = Absent
  Directory = Directory
  MaxEdits = 0
  Sorted <- SortedPaths
INVARIANTS
  HashFollowsRecipe
CHECK_DEADLOCK FALSE
