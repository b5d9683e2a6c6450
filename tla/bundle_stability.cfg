SPECIFICATION Spec
CONSTANTS
  Readers <- TwoReaders
  Machine <- PosixAndWindows
  Paths <- InfoPaths
  Globs <- InfoGlobs
  FirstContents <- FileOrNot
  Absent = Absent
  Directory = Directory
  MaxEdits = 0
  Sorted <- SortedPaths
INVARIANTS
  HashIsStableAcrossMachines
CHECK_DEADLOCK FALSE
