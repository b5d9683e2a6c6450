--------------------------- MODULE SccVerify_proofs ---------------------------
(***************************************************************************)
(* Proofs about SccVerify: what the shipped schema and rules decide        *)
(* together, for every document and every part of the registry.            *)
(***************************************************************************)
EXTENDS SccVerify, VerifyPipeline_proofs

RegistryIds ==
  {"STRUCT-001", "VAL-GOV-LAW", "VAL-DISPUTE-FORUM", "VAL-BREACH-EXPORTER",
   "VAL-BREACH-SDAIA", "VAL-SENSITIVE-ROUTE", "JUDGE-LIAB-001",
   "JUDGE-GOV-ACCESS-001", "JUDGE-INDEM-001"}

JudgmentIds == {"JUDGE-LIAB-001", "JUDGE-GOV-ACCESS-001", "JUDGE-INDEM-001"}

LEMMA RegistryLength ==
  /\ Len(RULE_REGISTRY) = 9
  /\ \A i \in 1..9 : RULE_REGISTRY[i] \in RegistryIds
  /\ RULE_REGISTRY[4] = "VAL-BREACH-EXPORTER"
  /\ RULE_REGISTRY[5] = "VAL-BREACH-SDAIA"
  /\ RULE_REGISTRY[6] = "VAL-SENSITIVE-ROUTE"
  /\ RULE_REGISTRY[7] = "JUDGE-LIAB-001"
  /\ RULE_REGISTRY[8] = "JUDGE-GOV-ACCESS-001"
  /\ RULE_REGISTRY[9] = "JUDGE-INDEM-001"
  BY DEF RULE_REGISTRY, RegistryIds

LEMMA RulesAreRegistered == RuleIds \subseteq RegistryIds
  BY ShippedBundle, RegistryLength

\* The rules that are asked about by name are in the whole registry.
LEMMA NamedRules ==
  ASSUME Rules = RULE_REGISTRY
  PROVE  /\ JudgmentIds \subseteq Layer2Rules
         /\ {"VAL-BREACH-EXPORTER", "VAL-BREACH-SDAIA"} \subseteq Layer2Rules
         /\ "VAL-SENSITIVE-ROUTE" \in Layer2Rules
  <1>1. \A i \in 1..9 : RULE_REGISTRY[i] \in RuleIds
    BY RegistryLength DEF RuleIds
  <1> QED
    BY <1>1, RegistryLength, ShippedBundle DEF Layer2Rules, JudgmentIds

-----------------------------------------------------------------------------
(* What the schema guarantees to the rules.                                *)

LEMMA NothingIsMissing ==
  ASSUME NEW d, Conforms(d), NEW path
  PROVE  Has(d, path)
  BY DEF Conforms, Has

LEMMA AcceptedIsDefined ==
  ASSUME NEW d, Conforms(d), NEW r \in RegistryIds
  PROVE  RuleStatus(r, d) # "undefined"
  <1>1. \A path : Has(d, path)
    BY NothingIsMissing
  <1> QED
    BY <1>1
    DEF RegistryIds, RuleStatus, MandatoryClausesStatus, GoverningLawStatus,
        DisputeForumStatus, ExporterWindowStatus, SdaiaWindowStatus,
        SensitiveRouteStatus, LiabilityStatus, PassIf, DefinedIf

LEMMA AcceptedHasTheClauses ==
  ASSUME NEW d, Conforms(d)
  PROVE  RuleStatus("STRUCT-001", d) = "PASS"
  BY NothingIsMissing DEF RuleStatus, MandatoryClausesStatus, PassIf

LEMMA AcceptedKeepsTheSdaiaWindow ==
  ASSUME NEW d, Conforms(d)
  PROVE  RuleStatus("VAL-BREACH-SDAIA", d) = "PASS"
  <1>1. Has(d, "sdaia_notification_window_hours")
    BY NothingIsMissing
  <1>2. d.sdaia_hours <= 72 /\ d.sdaia_hours > 0
    BY DEF Conforms
  <1> QED
    BY <1>1, <1>2 DEF RuleStatus, SdaiaWindowStatus, PassIf, DefinedIf

LEMMA AcceptedGoesToCounsel ==
  ASSUME NEW d, Conforms(d), NEW r \in JudgmentIds
  PROVE  RuleStatus(r, d) = "REQUIRES_HUMAN_REVIEW"
  BY NothingIsMissing DEF JudgmentIds, RuleStatus, LiabilityStatus

LEMMA SensitiveGoesToCounsel ==
  ASSUME NEW d, Conforms(d), "health" \in d.sensitive_categories_art18, d.permitted
  PROVE  RuleStatus("VAL-SENSITIVE-ROUTE", d) = "REQUIRES_HUMAN_REVIEW"
  BY NothingIsMissing DEF RuleStatus, SensitiveRouteStatus

-----------------------------------------------------------------------------
(* On the shipped bundle no evaluation ends in an undefined rule.          *)

\* As long as nobody edits the bundle Layer 1 decides as the shipped schema.
LEMMA Layer1IsTheSchema ==
  ASSUME IInv, edits = 0, pc \notin {"schema", "raised"}
  PROVE  layer1.status = "PASS" <=> Conforms(doc)
  <1>1. SawOnly(SccSchema, Shipped)
    BY FilesAssumption DEF IInv, CommitInv
  <1> QED
    BY <1>1, ShippedBundle DEF IInv, FrontInv, TypeOK

TotalInv ==
  PastLayer2 /\ edits = 0 =>
    \A r \in Layer2Rules : layer2[r].detail # "raised RuntimeError"

LEMMA TotalInit == Init => TotalInv
  BY DEF Init, TotalInv, PastLayer2

\* The only step that could break it is an undefined result.
LEMMA NoRuleIsUndefined ==
  ASSUME IInv, edits = 0
  PROVE  ~RuleIsUndefined
  <1> SUFFICES ASSUME RuleIsUndefined PROVE FALSE
    OBVIOUS
  <1>1. /\ pc = "evaluate" /\ nextRule \in 1..Len(Rules)
        /\ "undefined" \in PossibleResults(Rules[nextRule])
    BY DEF RuleIsUndefined
  <1>2. RulesAreShipped
    BY FilesAssumption DEF IInv, CommitInv, RulesAreShipped
  <1>3. Rules[nextRule] \in RuleIds /\ doc \in Documents
    BY <1>1, RuleAt DEF IInv, TypeOK
  <1>4. RuleStatus(Rules[nextRule], doc) = "undefined"
    BY <1>1, <1>2, <1>3, ShippedBundle DEF PossibleResults
  <1>5. Conforms(doc)
    <2>1. layer1.status = "PASS"
      BY <1>1 DEF IInv, FrontInv, MustSkip
    <2> QED
      BY <1>1, <2>1, Layer1IsTheSchema
  <1> QED
    BY <1>3, <1>4, <1>5, RulesAreRegistered, AcceptedIsDefined

LEMMA TotalStep == IInv /\ IInv' /\ TotalInv /\ [Next]_vars => TotalInv'
  <1> SUFFICES ASSUME IInv, IInv', TotalInv, [Next]_vars, PastLayer2', edits' = 0,
                      NEW r \in Layer2Rules
               PROVE  layer2'[r].detail # "raised RuntimeError"
    BY DEF TotalInv
  <1>1. edits = 0
    <2>1. CASE OwnStep \/ OpaStep
      BY <2>1
      DEF OwnStep, OpaStep, ValidateSchema, SchemaUnreadable, MatchBundle, NotAMapping,
          SkipLayer2, OpaNotAvailable, OpaAvailable, PrepareEvaluation,
          PreparationFails, Incomplete, OpaCannotStart, OpaTimesOut, CollectResults,
          DocumentNotCanonical, ListBundle, BundleIsEmpty, HashFile,
          ListedFileIsGone, Sign, EvaluateRule, RuleIsUndefined, OpaFails
    <2>2. CASE Environment
      <3>1. edits \in Nat
        BY FilesAssumption DEF IInv, TypeOK
      <3>2. edits' = edits \/ edits' = edits + 1
        BY <2>2 DEF Environment, ChangeFile, MoveOpa
      <3> QED
        BY <3>1, <3>2
    <2> QED
      BY <2>1, <2>2 DEF Next, vars
  <1>2. ~RuleIsUndefined
    BY <1>1, NoRuleIsUndefined
  <1>3. CASE PastLayer2 /\ layer2' = layer2
    BY <1>1, <1>3 DEF TotalInv
  <1>4. CASE SkipLayer2
    BY <1>4 DEF SkipLayer2, Placeholders, SkipReason, Check
  <1>5. CASE OpaNotAvailable \/ PreparationFails \/ OpaCannotStart \/ OpaTimesOut \/ OpaFails
    <2>1. PICK d \in Details \ {"raised RuntimeError"} : Incomplete(d)
      BY <1>5 DEF OpaNotAvailable, PreparationFails, OpaCannotStart, OpaTimesOut,
                  OpaFails, Details, RaisedDetails
    <2>2. layer2' = Placeholders("INCOMPLETE", d)
      BY <2>1 DEF Incomplete
    <2> QED
      BY <2>1, <2>2 DEF Placeholders, Check
  <1>6. CASE CollectResults
    BY <1>6 DEF CollectResults, Check
  <1>7. \/ PastLayer2 /\ layer2' = layer2
        \/ SkipLayer2 \/ CollectResults
        \/ OpaNotAvailable \/ PreparationFails \/ OpaCannotStart \/ OpaTimesOut \/ OpaFails
    BY <1>2
    DEF Next, OwnStep, OpaStep, Environment, ValidateSchema, SchemaUnreadable,
        MatchBundle, NotAMapping, OpaAvailable, PrepareEvaluation,
        DocumentNotCanonical, ListBundle, BundleIsEmpty, HashFile,
        ListedFileIsGone, Sign, EvaluateRule, Raise, ChangeFile, MoveOpa,
        PastLayer2, vars, argVars
  <1> QED
    BY <1>3, <1>4, <1>5, <1>6, <1>7

\* What every reachable state of a call over the shipped bundle satisfies.
THEOREM SccInvariance == Spec => [](IInv /\ TotalInv)
  <1>1. IInv /\ TotalInv /\ IInv' /\ [Next]_vars => TotalInv'
    BY TotalStep
  <1> QED
    BY <1>1, TotalInit, Invariance, PTL DEF Spec

-----------------------------------------------------------------------------
(* The properties.                                                         *)

\* The schema requires all that the rules read: on the shipped bundle no
\* evaluation ends in an undefined rule, whatever the document.
THEOREM RulesAreTotal == Spec => []RulesAreTotalOnAcceptedDocuments
  <1>1. ASSUME IInv, TotalInv, Issued, edits = 0, NEW r \in Layer2Rules
        PROVE  att.checks[r].detail # "raised RuntimeError"
    <2>1. att.checks = Checks
      BY <1>1 DEF IInv, AttInv, Issued, Subject
    <2>2. att.checks[r] = layer2[r]
      BY <2>1, ChecksOf
    <2> QED
      BY <1>1, <2>2 DEF TotalInv, Issued, PastLayer2
  <1>2. IInv /\ TotalInv => RulesAreTotalOnAcceptedDocuments
    BY <1>1 DEF RulesAreTotalOnAcceptedDocuments
  <1> QED
    BY <1>2, SccInvariance, PTL

LEMMA CoversStruct001 == IInv => Layer1CoversStruct001
  <1> SUFFICES ASSUME IInv, Issued, edits = 0, att.checks[StructRule].status = "PASS"
               PROVE  RuleStatus("STRUCT-001", doc) = "PASS"
    BY DEF Layer1CoversStruct001
  <1>1. layer1.status = "PASS"
    BY ChecksOf DEF IInv, AttInv, Issued, Subject
  <1>2. Conforms(doc)
    BY <1>1, Layer1IsTheSchema DEF Issued
  <1> QED
    BY <1>2, AcceptedHasTheClauses

\* Dropping the Rego result of STRUCT-001 loses nothing, whatever the document.
THEOREM Layer1Covers == Spec => []Layer1CoversStruct001
  BY CoversStruct001, Invariance, PTL

\* Behind a PASS-class verdict stand an accepted document and all the rules.
LEMMA PassedIsRules ==
  ASSUME IInv, Issued, edits = 0, att.verdict \in PassClass
  PROVE  /\ att.checks = Checks /\ att.verdict = VerdictFromChecks(Checks)
         /\ Conforms(doc)
         /\ \A r \in Layer2Rules : att.checks[r].status = RuleStatus(r, doc)
  <1>1. att.checks = Checks /\ att.verdict = VerdictFromChecks(Checks) /\ pc = "issued"
    BY DEF IInv, AttInv, Issued, Subject
  <1>2. SawOnly(SccSchema, Shipped)
    BY <1>1, FilesAssumption DEF IInv, CommitInv
  <1>3. /\ att.checks[StructRule].status = "PASS"
        /\ \A r \in Layer2Rules : att.checks[r].detail = "evaluated"
    BY <1>2, PassBacked DEF PassIsBacked
  <1>4. Conforms(doc) /\ doc \in Documents
    <2>1. layer1.status = "PASS"
      BY <1>1, <1>3, ChecksOf
    <2> QED
      BY <1>1, <2>1, Layer1IsTheSchema DEF IInv, TypeOK
  <1>5. PICK r0 \in Layer2Rules : TRUE
    BY RegistryAssumption
  <1>6. AllEvaluated
    <2>1. layer2[r0].detail = "evaluated"
      BY <1>1, <1>3, <1>5, ChecksOf
    <2>2. ASSUME NEW status, NEW d, layer2 = Placeholders(status, d)
          PROVE  d = "evaluated"
      BY <1>5, <2>1, <2>2 DEF Placeholders, Check
    <2>3. SkipReason.detail # "evaluated"
      BY DEF SkipReason, Check
    <2>4. "evaluated" \notin FailureDetails
      BY DEF FailureDetails, RaisedDetails
    <2> QED
      BY <1>1, <2>2, <2>3, <2>4 DEF IInv, Layer2Inv, PastLayer2
  <1>7. \A r \in Layer2Rules : att.checks[r].status = RuleStatus(r, doc)
    BY <1>1, <1>4, <1>6, ChecksOf, ShippedBundle DEF AllEvaluated, Layer2Rules
  <1> QED
    BY <1>1, <1>4, <1>7

LEMMA Counsel ==
  ASSUME Rules = RULE_REGISTRY, IInv
  PROVE  CounselDecides
  <1> SUFFICES ASSUME Issued, edits = 0, att.verdict \in PassClass
               PROVE  CounselDecides
    BY DEF CounselDecides
  <1>1. att.checks = Checks /\ att.verdict = VerdictFromChecks(Checks)
    BY PassedIsRules
  <1>2. Conforms(doc)
    BY PassedIsRules
  <1>3. \A r \in Layer2Rules : att.checks[r].status = RuleStatus(r, doc)
    BY PassedIsRules
  <1>4. \A r \in JudgmentIds : att.checks[r].status = "REQUIRES_HUMAN_REVIEW"
    BY <1>2, <1>3, NamedRules, AcceptedGoesToCounsel
  <1>5. att.verdict = "PASS_WITH_COUNSEL_ITEMS"
    <2>1. "JUDGE-LIAB-001" \in CheckIds
      BY NamedRules DEF CheckIds, JudgmentIds
    <2>2. HasStatus(Checks, "REQUIRES_HUMAN_REVIEW")
      BY <1>1, <1>4, <2>1, ChecksOf DEF HasStatus, JudgmentIds
    <2> QED
      BY <1>1, <2>2 DEF VerdictFromChecks, PassClass
  <1>6. ASSUME doc.sensitive_categories_art18 \cap {"health"} # {}, doc.permitted
         PROVE  att.checks["VAL-SENSITIVE-ROUTE"].status = "REQUIRES_HUMAN_REVIEW"
    BY <1>2, <1>3, <1>6, NamedRules, SensitiveGoesToCounsel
  <1> QED
    BY <1>4, <1>5, <1>6 DEF CounselDecides, JudgmentIds

\* Under the whole registry no document passes without going to counsel.
THEOREM CounselAlwaysDecides ==
  ASSUME Rules = RULE_REGISTRY
  PROVE  Spec => []CounselDecides
  <1>1. IInv => CounselDecides
    BY Counsel
  <1> QED
    BY <1>1, Invariance, PTL

LEMMA SdaiaWindow ==
  ASSUME Rules = RULE_REGISTRY, IInv
  PROVE  SdaiaWindowFailsInLayer1
  <1> DEFINE r == "VAL-BREACH-SDAIA"
  <1> SUFFICES ASSUME Issued, edits = 0
               PROVE  att.checks[r].status # "FAIL"
    BY DEF SdaiaWindowFailsInLayer1
  <1>1. att.checks = Checks /\ pc = "issued" /\ r \in Layer2Rules /\ doc \in Documents
    BY NamedRules DEF IInv, AttInv, Issued, Subject, TypeOK
  <1>2. att.checks[r] = layer2[r]
    BY <1>1, ChecksOf
  <1>3. CASE ~MustSkip /\ AllEvaluated
    <2>1. Conforms(doc)
      BY <1>1, <1>3, Layer1IsTheSchema DEF MustSkip
    <2>2. layer2[r].status = RuleStatus(r, doc)
      BY <1>1, <1>3, ShippedBundle DEF AllEvaluated, Layer2Rules
    <2> QED
      BY <1>2, <2>1, <2>2, AcceptedKeepsTheSdaiaWindow
  <1>4. CASE \E d \in FailureDetails : layer2 = Placeholders("INCOMPLETE", d)
    BY <1>1, <1>2, <1>4 DEF Placeholders, Check
  <1>5. CASE layer2 = Placeholders(SkipReason.status, SkipReason.detail)
    <2>1. SkipReason.status # "FAIL"
      BY DEF SkipReason, Check
    <2>2. layer2[r].status = SkipReason.status
      BY <1>1, <1>5 DEF Placeholders, Check
    <2> QED
      BY <1>2, <2>1, <2>2
  <1> QED
    BY <1>1, <1>3, <1>4, <1>5 DEF IInv, Layer2Inv, PastLayer2

\* Under the whole registry no document fails the SDAIA window in Layer 2.
THEOREM SdaiaWindowIsLayer1s ==
  ASSUME Rules = RULE_REGISTRY
  PROVE  Spec => []SdaiaWindowFailsInLayer1
  <1>1. IInv => SdaiaWindowFailsInLayer1
    BY SdaiaWindow
  <1> QED
    BY <1>1, Invariance, PTL

LEMMA LateWindows ==
  ASSUME Rules = RULE_REGISTRY, IInv
  PROVE  LateWindowsNeverPass
  <1> DEFINE r == "VAL-BREACH-EXPORTER"
  <1> SUFFICES ASSUME Issued, edits = 0, att.verdict \in PassClass
               PROVE  doc.exporter_hours \in 1..24 /\ doc.sdaia_hours \in 1..72
    BY DEF LateWindowsNeverPass
  <1>1. doc.exporter_hours \in 1..168 /\ doc.sdaia_hours \in 1..72
    BY PassedIsRules DEF Conforms
  <1>2. att.checks[r].status # "FAIL"
    <2>1. ~HasStatus(Checks, "FAIL")
      BY PassedIsRules DEF VerdictFromChecks, PassClass
    <2> QED
      BY <2>1, PassedIsRules, NamedRules, ChecksOf DEF HasStatus, CheckIds
  <1>3. RuleStatus(r, doc) # "FAIL"
    BY <1>2, PassedIsRules, NamedRules
  <1>4. Has(doc, "exporter_notification_window_hours")
    BY PassedIsRules, NothingIsMissing
  <1>5. doc.exporter_hours <= 24
    BY <1>3, <1>4 DEF RuleStatus, ExporterWindowStatus, PassIf, DefinedIf
  <1> QED
    BY <1>1, <1>5

\* Under the whole registry no document with a late window gets a PASS,
\* though the schema accepts an exporter window of a week.
THEOREM LateWindowsAlwaysFail ==
  ASSUME Rules = RULE_REGISTRY
  PROVE  Spec => []LateWindowsNeverPass
  <1>1. IInv => LateWindowsNeverPass
    BY LateWindows
  <1> QED
    BY <1>1, Invariance, PTL
=============================================================================
