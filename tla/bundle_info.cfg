SPECIFICATION FairSpec
CONSTANTS
  Readers <- TwoReaders
  Machine <- PosixAndWindows
  Paths <- InfoPaths
  Globs <- InfoGlobs
  FirstContents <- TwoContentsOrNot
  Absent = Absent
  Directory = Directory
  MaxEdits = 1
  Sorted <- SortedPaths
INVARIANTS
  TypeOK
  UntouchedInBoth
  HashTellsBundlesApart
PROPERTIES
  InfoTerminates
CHECK_DEADLOCK FALSE
