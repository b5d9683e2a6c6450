SPECIFICATION Spec
CONSTANTS
  Corpora <- SmallCorpora
  Missing = Missing
  Layer2Rules <- ShippedLayer2Rules
  IsMapping <- SccIsMapping
  SchemaAccepts <- SccSchemaAccepts
  BundleRequired <- SccBundleRequired
  RegoStatus <- SccRegoStatus
  Canonicalizable <- SccIsCanonicalizable
INVARIANTS
  TypeOK
  ExitReflectsCorpus
  ShippedCorpusPassesWithOpa
  VerdictsHaveTheDeclaredReason
CHECK_DEADLOCK FALSE
