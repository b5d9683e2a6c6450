SPECIFICATION Spec
CONSTANTS
  Documents <- FewDocuments
  Rules <- FewRules
  StructRule = "STRUCT-001"
  MatchCheck = "RULE-BUNDLE-MATCH"
  Files = {"scc-canonical-v1.json", "breach_windows.rego", "flagged_clauses.rego"}
  SccSchema = "scc-canonical-v1.json"
  RuleFiles = {"breach_windows.rego", "flagged_clauses.rego"}
  Absent = Absent
  MaxEdits = 1
  OpaMoves = TRUE
  IsMapping <- SccIsMapping
  SchemaAccepts <- SccSchemaAccepts
  BundleRequired <- SccBundleRequired
  SccIdIsString <- SccIdIsAString
  Canonicalizable <- SccIsCanonicalizable
  RegoStatus <- SccRegoStatus
INVARIANTS
  CommitsToEvaluatedContent
CHECK_DEADLOCK FALSE
