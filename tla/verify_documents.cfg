SPECIFICATION FairSpec
CONSTANTS
  Documents <- VariedDocuments
  Rules <- AllRules
  StructRule = "STRUCT-001"
  MatchCheck = "RULE-BUNDLE-MATCH"
  Files = {"scc-canonical-v1.json", "breach_windows.rego", "flagged_clauses.rego"}
  SccSchema = "scc-canonical-v1.json"
  RuleFiles = {"breach_windows.rego", "flagged_clauses.rego"}
  Absent = Absent
  MaxEdits = 0
  OpaMoves = FALSE
  IsMapping <- SccIsMapping
  SchemaAccepts <- SccSchemaAccepts
  BundleRequired <- SccBundleRequired
  SccIdIsString <- SccIdIsAString
  Canonicalizable <- SccIsCanonicalizable
  RegoStatus <- SccRegoStatus
INVARIANTS
  RulesAreTotalOnAcceptedDocuments
  Layer1CoversStruct001
  CounselDecides
  SdaiaWindowFailsInLayer1
  LateWindowsNeverPass
  BrokenOffIsAsSkipped
  InvalidOnlyForTheId
CHECK_DEADLOCK FALSE
PROPERTIES KeepsPromise
