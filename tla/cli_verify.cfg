SPECIFICATION CliFairSpec
CONSTANTS
  Documents <- CliDocuments
  Rules <- OneRule
  StructRule = "STRUCT-001"
  MatchCheck = "RULE-BUNDLE-MATCH"
  Files = {"scc-canonical-v1.json", "attestation-envelope-v1.json", "flagged_clauses.rego"}
  SccSchema = "scc-canonical-v1.json"
  RuleFiles = {"flagged_clauses.rego"}
  EnvelopeSchema = "attestation-envelope-v1.json"
  Absent = Absent
  MaxEdits = 1
  OpaMoves = TRUE
  IsMapping <- SccIsMapping
  SchemaAccepts <- SccSchemaAccepts
  BundleRequired <- SccBundleRequired
  SccIdIsString <- SccIdIsAString
  Canonicalizable <- SccIsCanonicalizable
  RegoStatus <- SccRegoStatus
INVARIANTS
  CliTypeOK
  ExitZeroIsEarned
  OutputWasChecked
PROPERTIES
  CliTerminates
CHECK_DEADLOCK FALSE
