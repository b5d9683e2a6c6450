SPECIFICATION Spec
CONSTANTS
  Invocations = {"k1", "k2"}
  Paths = {"signing.ed25519", "signing.pub"}
  NoPath = "no path"
  ArgumentSet <- OnePair
INVARIANTS
  TypeOK
  RefusalChangesNothing
  ExitZeroMeansPair
  UnlockedKeysAreExplained
  UnforcedPairsMatch
  TornFilesAreReported
PROPERTIES
  UnforcedKeepsFiles
CHECK_DEADLOCK FALSE
