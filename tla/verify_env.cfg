SPECIFICATION FairSpec
CONSTANTS
  Documents <- FewDocuments
  Rules <- FewRules
  StructRule = "STRUCT-001"
  MatchCheck = "RULE-BUNDLE-MATCH"
  Files = {"scc-canonical-v1.json", "breach_windows.rego"}
  SccSchema = "scc-canonical-v1.json"
  RuleFiles = {"breach_windows.rego"}
  Absent = Absent
  MaxEdits = 2
  OpaMoves = TRUE
  IsMapping <- SccIsMapping
  SchemaAccepts <- SccSchemaAccepts
  BundleRequired <- SccBundleRequired
  SccIdIsString <- SccIdIsAString
  Canonicalizable <- SccIsCanonicalizable
  RegoStatus <- SccRegoStatus
INVARIANTS
  TypeOK
  PassIsBacked
  Layer2IsAllOrNothing
  PlaceholdersAreExplained
  UntouchedFilesAreCommitted
PROPERTIES
  Termination
  KeepsPromise
CHECK_DEADLOCK FALSE
