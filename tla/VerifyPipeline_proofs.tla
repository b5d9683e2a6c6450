------------------------ MODULE VerifyPipeline_proofs ------------------------
(***************************************************************************)
(* Proofs about VerifyPipeline, for every registry, every set of documents *)
(* and files, every schema and every number of changes to the bundle.      *)
(***************************************************************************)
EXTENDS VerifyPipeline, FiniteSetTheorems, TLAPS

LEMMA CheckTyped ==
  ASSUME NEW s \in ResultStatus, NEW d \in Details
  PROVE  Check(s, d) \in ChecksOk
  BY DEF Check, ChecksOk

LEMMA PlaceholdersTyped ==
  ASSUME NEW s \in ResultStatus, NEW d \in Details
  PROVE  Placeholders(s, d) \in [Layer2Rules -> ChecksOk \cup {Unset}]
  BY CheckTyped DEF Placeholders

LEMMA ContentTyped == Shipped \in Content /\ Absent \in Content
  BY FilesAssumption DEF Shipped, Content

LEMMA NoResultsTyped == NoResults \in [RuleIds -> ResultStatus \cup {"UNSET"}]
  BY DEF NoResults

LEMMA RuleAt ==
  ASSUME NEW i \in 1..Len(Rules)
  PROVE  Rules[i] \in RuleIds
  BY DEF RuleIds

LEMMA RulesLength == Len(Rules) \in Nat
  BY RegistryAssumption

LEMMA VerdictTyped == \A c : VerdictFromChecks(c) \in Verdict
  BY DEF VerdictFromChecks, Verdict

\* What a status collected by EvaluateRule can be.
LEMMA PossibleResultsTyped ==
  ASSUME TypeOK, NEW r \in RuleIds
  PROVE  PossibleResults(r) \subseteq ResultStatus \cup {"undefined"}
  BY RulesAssumption DEF PossibleResults, TypeOK, ResultStatus

-----------------------------------------------------------------------------
(* The inductive invariant.  It says, for each stretch of the call, what   *)
(* its locals stand for.                                                   *)

PastBundle == pc \in {"layer2", "prepare", "evaluate", "list", "hash", "issued"}
PastLayer2 == pc \in {"list", "hash", "issued"}

FailureDetails == {"OPA binary not available"} \cup RaisedDetails

\* The two checks of the front say what they were computed from.
FrontInv ==
  /\ pc \notin {"schema", "raised"} =>
       /\ layer1 \in {Check("PASS", "schema"), Check("FAIL", "schema")}
       /\ SawOnly(SccSchema, Shipped) =>
            (layer1.status = "PASS" <=> SchemaAccepts(doc))
  /\ PastBundle => match = Check(MatchStatus(BundleRequired(doc)), "bundle")
  /\ PastBundle => IsMapping(doc)
  /\ pc \in {"prepare", "evaluate"} => ~MustSkip

\* The rules before the next one have their results, the shipped ones the
\* results of the shipped rules.
CollectedInv ==
  /\ pc # "evaluate" => nextRule = 1
  /\ pc = "evaluate" =>
       \A i \in 1..(nextRule - 1) :
         /\ results[Rules[i]] \in ResultStatus
         /\ edits = 0 => results[Rules[i]] = RegoStatus(Rules[i], doc)

AllEvaluated ==
  \A r \in Layer2Rules :
    /\ layer2[r] \in ChecksOk
    /\ layer2[r].detail = "evaluated"
    /\ edits = 0 => layer2[r].status = RegoStatus(r, doc)

\* Layer 2 ended in one of three ways, and in one way for all rules.
Layer2Inv ==
  PastLayer2 =>
    \/ MustSkip /\ layer2 = Placeholders(SkipReason.status, SkipReason.detail)
    \/ /\ ~MustSkip
       /\ \E d \in FailureDetails : layer2 = Placeholders("INCOMPLETE", d)
    \/ ~MustSkip /\ AllEvaluated

AttInv == att = IF pc = "issued" THEN Subject ELSE NoAttestation

\* What was used of a file that nobody touched is what is there, and what
\* the manifest says once the file is read.
CommitInv ==
  /\ edits = 0 => touched = {} /\ \A f \in Files : content[f] = Shipped
  /\ pc = "schema" => \A f \in Files : seen[f] = {}
  /\ pc \notin {"hash", "issued", "raised"} => \A f \in Files : manifest[f] = Absent
  /\ pc # "raised" => \A f \in Files \ touched : SawOnly(f, content[f])
  /\ pc \in {"hash", "issued"} =>
       \A f \in Files \ touched : f \in unread \/ manifest[f] = content[f]
  /\ pc = "issued" => unread = {}

IInv ==
  TypeOK /\ FrontInv /\ CollectedInv /\ Layer2Inv /\ AttInv /\ CommitInv

-----------------------------------------------------------------------------
LEMMA InvInit == Init => IInv
  <1> SUFFICES ASSUME Init PROVE IInv
    OBVIOUS
  <1>1. content \in [Files -> Content] /\ manifest \in [Files -> Content]
    BY ContentTyped DEF Init
  <1>2. nextRule \in 1..(Len(Rules) + 1)
    BY RulesLength DEF Init
  <1>3. results \in [RuleIds -> ResultStatus \cup {"UNSET"}]
    BY NoResultsTyped DEF Init
  <1>4. TypeOK
    BY <1>1, <1>2, <1>3, FilesAssumption DEF Init, TypeOK, Binaries
  <1>5. FrontInv /\ CollectedInv /\ Layer2Inv /\ AttInv
    BY DEF Init, FrontInv, CollectedInv, Layer2Inv, AttInv, PastBundle, PastLayer2
  <1>6. CommitInv
    BY DEF Init, CommitInv, SawOnly
  <1> QED
    BY <1>4, <1>5, <1>6 DEF IInv

-----------------------------------------------------------------------------
(* Steps that share their effect.                                          *)

\* An exception leaves verify() and nothing is claimed of its locals.
LEMMA RaiseStep ==
  ASSUME IInv, pc \notin {"evaluate", "issued"}, Raise, UNCHANGED <<argVars, content, edits, bins>>
  PROVE  IInv'
  <1>1. TypeOK'
    BY DEF IInv, Raise, TypeOK, argVars
  <1>2. FrontInv' /\ CollectedInv' /\ Layer2Inv' /\ AttInv'
    BY DEF IInv, Raise, FrontInv, CollectedInv, Layer2Inv, AttInv, PastBundle,
           PastLayer2
  <1>3. CommitInv'
    BY DEF IInv, Raise, CommitInv
  <1> QED
    BY <1>1, <1>2, <1>3 DEF IInv

\* An evaluation that fails leaves the same placeholder everywhere.
LEMMA IncompleteStep ==
  ASSUME IInv, pc \in {"layer2", "prepare", "evaluate"}, ~MustSkip,
         NEW d \in FailureDetails, Incomplete(d)
  PROVE  IInv'
  <1>1. layer2' \in [Layer2Rules -> ChecksOk \cup {Unset}]
    BY PlaceholdersTyped DEF Incomplete, ResultStatus, CheckStatus, FailureDetails,
       Details
  <1>2. seen' \in [Files -> SUBSET Content]
    BY DEF Incomplete, IInv, TypeOK
  <1>3. nextRule' \in 1..(Len(Rules) + 1) /\ opaBin' \in Binaries \cup {NoBinary}
        /\ results' \in [RuleIds -> ResultStatus \cup {"UNSET"}]
    BY NoResultsTyped, RulesLength DEF Incomplete, LeaveEvaluation
  <1>4. TypeOK'
    BY <1>1, <1>2, <1>3 DEF Incomplete, IInv, TypeOK, argVars
  <1>5. \A f \in Files : seen'[f] = IF f \in RuleFiles THEN {} ELSE seen[f]
    BY DEF Incomplete
  <1>6. FrontInv'
    BY <1>5, FilesAssumption
    DEF Incomplete, IInv, FrontInv, PastBundle, SawOnly, argVars
  <1>7. CollectedInv' /\ AttInv'
    BY DEF Incomplete, LeaveEvaluation, IInv, CollectedInv, AttInv
  <1>8. Layer2Inv'
    BY DEF Incomplete, Layer2Inv, MustSkip, Placeholders, argVars
  <1>9. CommitInv'
    BY <1>5 DEF Incomplete, IInv, CommitInv, SawOnly
  <1> QED
    BY <1>4, <1>6, <1>7, <1>8, <1>9 DEF IInv

-----------------------------------------------------------------------------
(* One lemma per group of actions: the front, Layer 2, the hash, the       *)
(* environment.                                                            *)

LEMMA FrontStep ==
  ASSUME IInv, ValidateSchema \/ SchemaUnreadable \/ MatchBundle \/ NotAMapping
  PROVE  IInv'
  <1> USE DEF IInv
  <1>1. CASE ValidateSchema
    <2>1. layer1' \in {Check("PASS", "schema"), Check("FAIL", "schema")}
      BY <1>1 DEF ValidateSchema
    <2>2. layer1' \in ChecksOk
      BY <2>1, CheckTyped DEF ResultStatus, CheckStatus, Details
    <2>3. \A f \in Files : seen'[f] = IF f = SccSchema THEN {content[f]} ELSE {}
      BY <1>1 DEF ValidateSchema, TypeOK, CommitInv
    <2>4. seen' \in [Files -> SUBSET Content]
      BY <1>1, FilesAssumption DEF ValidateSchema, TypeOK
    <2>5. TypeOK'
      BY <1>1, <2>2, <2>4 DEF ValidateSchema, TypeOK, argVars
    <2>6. SawOnly(SccSchema, Shipped)' =>
            (layer1'.status = "PASS" <=> SchemaAccepts(doc)')
      <3> SUFFICES ASSUME SawOnly(SccSchema, Shipped)'
                   PROVE  layer1'.status = "PASS" <=> SchemaAccepts(doc)
        BY <1>1 DEF ValidateSchema, argVars
      <3>1. content[SccSchema] = Shipped
        BY <2>3, FilesAssumption DEF SawOnly
      <3> QED
        BY <1>1, <3>1 DEF ValidateSchema, Check
    <2>7. FrontInv'
      BY <1>1, <2>1, <2>6 DEF ValidateSchema, FrontInv, PastBundle
    <2>8. CommitInv'
      BY <1>1, <2>3 DEF ValidateSchema, CommitInv, SawOnly
    <2>9. CollectedInv' /\ Layer2Inv' /\ AttInv'
      BY <1>1 DEF ValidateSchema, CollectedInv, Layer2Inv, PastLayer2, AttInv
    <2> QED
      BY <2>5, <2>7, <2>8, <2>9
  <1>2. CASE SchemaUnreadable
    BY <1>2, RaiseStep DEF SchemaUnreadable
  <1>3. CASE MatchBundle
    <2>1. BundleRequired(doc) \in {"active", "other", "no_string"}
      BY SchemaAssumption DEF TypeOK
    <2>2. MatchStatus(BundleRequired(doc)) \in ResultStatus
      BY <2>1 DEF MatchStatus, ResultStatus, CheckStatus
    <2>3. match' \in ChecksOk
      BY <1>3, <2>2, CheckTyped DEF MatchBundle, Details
    <2>4. TypeOK'
      BY <1>3, <2>3 DEF MatchBundle, TypeOK, argVars
    <2>5. FrontInv'
      BY <1>3 DEF MatchBundle, FrontInv, PastBundle, SawOnly, argVars
    <2>6. CommitInv'
      BY <1>3 DEF MatchBundle, CommitInv, SawOnly
    <2>7. CollectedInv' /\ Layer2Inv' /\ AttInv'
      BY <1>3 DEF MatchBundle, CollectedInv, Layer2Inv, PastLayer2, AttInv
    <2> QED
      BY <2>4, <2>5, <2>6, <2>7
  <1>4. CASE NotAMapping
    BY <1>4, RaiseStep DEF NotAMapping
  <1> QED
    BY <1>1, <1>2, <1>3, <1>4

\* The steps that only move on within Layer 2.
LEMMA OpaFoundStep ==
  ASSUME IInv, OpaAvailable \/ PrepareEvaluation
  PROVE  IInv'
  <1> USE DEF IInv
  <1>1. TypeOK'
    BY DEF OpaAvailable, PrepareEvaluation, FoundOpa, TypeOK, argVars, Binaries
  <1>2. FrontInv'
    BY DEF OpaAvailable, PrepareEvaluation, FrontInv, PastBundle, SawOnly,
           MustSkip, argVars
  <1>3. nextRule' = 1 /\ pc # "evaluate"
    BY DEF OpaAvailable, PrepareEvaluation, CollectedInv
  <1>4. CollectedInv'
    BY <1>3 DEF CollectedInv
  <1>5. Layer2Inv' /\ AttInv'
    BY DEF OpaAvailable, PrepareEvaluation, Layer2Inv, PastLayer2, AttInv
  <1>6. CommitInv'
    BY DEF OpaAvailable, PrepareEvaluation, CommitInv, SawOnly
  <1> QED
    BY <1>1, <1>2, <1>4, <1>5, <1>6

LEMMA EvaluateStep ==
  ASSUME IInv, EvaluateRule
  PROVE  IInv'
  <1> USE DEF IInv
  <1> DEFINE rule == Rules[nextRule]
  <1>1. nextRule \in 1..Len(Rules) /\ Len(Rules) \in Nat
    BY RulesLength DEF EvaluateRule
  <1>2. rule \in RuleIds
    BY <1>1, RuleAt
  <1>3. PICK status \in PossibleResults(rule) \ {"undefined"} :
          results' = [results EXCEPT ![rule] = status]
    BY DEF EvaluateRule
  <1>4. status \in ResultStatus
    BY <1>2, <1>3, PossibleResultsTyped
  <1>5. edits = 0 => status = RegoStatus(rule, doc)
    BY <1>3, FilesAssumption DEF PossibleResults, RulesAreShipped, CommitInv
  <1>6. \A f \in Files :
          seen'[f] = IF f \in RuleFiles THEN seen[f] \cup {content[f]} ELSE seen[f]
    BY DEF EvaluateRule, ReadRuleFiles
  <1>7. seen' \in [Files -> SUBSET Content]
    BY DEF EvaluateRule, ReadRuleFiles, TypeOK
  <1>8. nextRule' \in 1..(Len(Rules) + 1)
    BY <1>1 DEF EvaluateRule
  <1>9. results' \in [RuleIds -> ResultStatus \cup {"UNSET"}]
    BY <1>2, <1>3, <1>4 DEF TypeOK
  <1>10. TypeOK'
    BY <1>7, <1>8, <1>9 DEF EvaluateRule, TypeOK, argVars
  <1>11. FrontInv'
    BY <1>6, FilesAssumption
    DEF EvaluateRule, FrontInv, PastBundle, SawOnly, MustSkip, argVars
  <1>12. CollectedInv'
    <2> SUFFICES ASSUME NEW i \in 1..(nextRule' - 1)
                 PROVE  /\ results'[Rules[i]] \in ResultStatus
                        /\ edits = 0 => results'[Rules[i]] = RegoStatus(Rules[i], doc)
      BY DEF EvaluateRule, CollectedInv, argVars
    <2>1. i \in 1..(nextRule - 1) \/ i = nextRule
      BY <1>1 DEF EvaluateRule
    <2>2. Rules[i] \in RuleIds
      BY <1>1, <2>1, RuleAt
    <2>3. results'[Rules[i]] = IF Rules[i] = rule THEN status ELSE results[Rules[i]]
      BY <1>3, <2>2 DEF TypeOK
    <2>4. i = nextRule => Rules[i] = rule
      OBVIOUS
    <2>5. pc = "evaluate"
      BY DEF EvaluateRule
    <2> QED
      BY <1>4, <1>5, <2>1, <2>3, <2>4, <2>5 DEF CollectedInv
  <1>13. Layer2Inv' /\ AttInv'
    BY DEF EvaluateRule, Layer2Inv, PastLayer2, AttInv
  <1>14. CommitInv'
    <2>1. UNCHANGED <<pc, content, edits, unread, manifest, touched>> /\ pc = "evaluate"
      BY DEF EvaluateRule
    <2>2. ASSUME NEW f \in Files \ touched PROVE seen'[f] \subseteq {content[f]}
      BY <1>6, <2>1 DEF CommitInv, SawOnly
    <2> QED
      BY <2>1, <2>2 DEF CommitInv, SawOnly
  <1> QED
    BY <1>10, <1>11, <1>12, <1>13, <1>14

LEMMA CollectStep ==
  ASSUME IInv, CollectResults
  PROVE  IInv'
  <1> USE DEF IInv
  <1>1. ASSUME NEW r \in Layer2Rules
        PROVE  /\ results[r] \in ResultStatus
               /\ edits = 0 => results[r] = RegoStatus(r, doc)
    <2>1. PICK i \in 1..Len(Rules) : r = Rules[i]
      BY DEF Layer2Rules, RuleIds
    <2>2. i \in 1..(nextRule - 1)
      BY RulesLength DEF CollectResults
    <2> QED
      BY <2>1, <2>2 DEF CollectResults, CollectedInv
  <1>2. \A r \in Layer2Rules : layer2'[r] = Check(results[r], "evaluated")
    BY DEF CollectResults
  <1>3. layer2' \in [Layer2Rules -> ChecksOk]
    BY <1>1, CheckTyped DEF CollectResults, Details
  <1>4. AllEvaluated'
    <2> SUFFICES ASSUME NEW r \in Layer2Rules
                 PROVE  /\ layer2'[r] \in ChecksOk
                        /\ layer2'[r].detail = "evaluated"
                        /\ edits = 0 => layer2'[r].status = RegoStatus(r, doc)
      BY DEF CollectResults, AllEvaluated, argVars
    <2> QED
      BY <1>1, <1>2, <1>3 DEF Check
  <1>5. nextRule' \in 1..(Len(Rules) + 1) /\ opaBin' \in Binaries \cup {NoBinary}
        /\ results' \in [RuleIds -> ResultStatus \cup {"UNSET"}]
    BY NoResultsTyped, RulesLength DEF CollectResults, LeaveEvaluation
  <1>6. TypeOK'
    BY <1>3, <1>5 DEF CollectResults, TypeOK, argVars
  <1>7. FrontInv' /\ ~MustSkip'
    BY DEF CollectResults, FrontInv, PastBundle, SawOnly, MustSkip, argVars
  <1>8. Layer2Inv'
    BY <1>4, <1>7 DEF Layer2Inv
  <1>9. CollectedInv' /\ AttInv'
    BY DEF CollectResults, LeaveEvaluation, CollectedInv, AttInv
  <1>10. CommitInv'
    BY DEF CollectResults, CommitInv, SawOnly
  <1> QED
    BY <1>6, <1>7, <1>8, <1>9, <1>10

LEMMA SkipStep ==
  ASSUME IInv, SkipLayer2
  PROVE  IInv'
  <1> USE DEF IInv
  <1>1. SkipReason.status \in ResultStatus /\ SkipReason.detail \in Details
    BY DEF SkipReason, Check, ResultStatus, CheckStatus, Details, SkippedDetails
  <1>2. layer2' \in [Layer2Rules -> ChecksOk \cup {Unset}]
    BY <1>1, PlaceholdersTyped DEF SkipLayer2
  <1>3. TypeOK'
    BY <1>2 DEF SkipLayer2, TypeOK, argVars
  <1>4. FrontInv'
    BY DEF SkipLayer2, FrontInv, PastBundle, SawOnly, argVars
  <1>5. Layer2Inv'
    BY DEF SkipLayer2, Layer2Inv, MustSkip, SkipReason, Placeholders, argVars
  <1>6. CollectedInv' /\ AttInv'
    BY DEF SkipLayer2, CollectedInv, AttInv
  <1>7. CommitInv'
    BY DEF SkipLayer2, CommitInv, SawOnly
  <1> QED
    BY <1>3, <1>4, <1>5, <1>6, <1>7

LEMMA FailureStep ==
  ASSUME IInv,
         \/ OpaNotAvailable \/ PreparationFails \/ RuleIsUndefined
         \/ OpaCannotStart \/ OpaFails \/ OpaTimesOut
  PROVE  IInv'
  <1>1. ~MustSkip /\ pc \in {"layer2", "prepare", "evaluate"}
    BY DEF IInv, FrontInv, OpaNotAvailable, PreparationFails, RuleIsUndefined,
           OpaCannotStart, OpaFails, OpaTimesOut
  <1>2. \E d \in FailureDetails : Incomplete(d)
    BY DEF OpaNotAvailable, PreparationFails, RuleIsUndefined, OpaCannotStart,
           OpaFails, OpaTimesOut, FailureDetails, RaisedDetails
  <1> QED
    BY <1>1, <1>2, IncompleteStep

LEMMA ListStep ==
  ASSUME IInv, DocumentNotCanonical \/ ListBundle \/ BundleIsEmpty
  PROVE  IInv'
  <1> USE DEF IInv
  <1>1. CASE ListBundle
    <2>1. TypeOK'
      BY <1>1 DEF ListBundle, TypeOK, argVars
    <2>2. FrontInv'
      BY <1>1 DEF ListBundle, FrontInv, PastBundle, SawOnly, argVars
    <2>3. Layer2Inv'
      BY <1>1
      DEF ListBundle, Layer2Inv, PastLayer2, AllEvaluated, MustSkip, SkipReason,
          Placeholders, argVars
    <2>4. CollectedInv' /\ AttInv'
      BY <1>1 DEF ListBundle, CollectedInv, AttInv
    <2>5. CommitInv'
      BY <1>1 DEF ListBundle, CommitInv, SawOnly
    <2> QED
      BY <2>1, <2>2, <2>3, <2>4, <2>5
  <1>2. CASE BundleIsEmpty
    BY <1>2, RaiseStep DEF BundleIsEmpty
  <1>3. CASE DocumentNotCanonical
    BY <1>3, RaiseStep DEF DocumentNotCanonical
  <1> QED
    BY <1>1, <1>2, <1>3

LEMMA HashStep ==
  ASSUME IInv, NEW f \in Files, HashFile(f) \/ ListedFileIsGone(f)
  PROVE  IInv'
  <1> USE DEF IInv
  <1>1. CASE HashFile(f)
    <2>1. \A g \in Files : manifest'[g] = IF g = f THEN content[f] ELSE manifest[g]
      BY <1>1 DEF HashFile, TypeOK
    <2>2. TypeOK'
      BY <1>1 DEF HashFile, TypeOK, argVars
    <2>3. FrontInv'
      BY <1>1 DEF HashFile, FrontInv, PastBundle, SawOnly, MustSkip, argVars
    <2>4. Layer2Inv'
      BY <1>1
      DEF HashFile, Layer2Inv, PastLayer2, AllEvaluated, MustSkip, SkipReason,
          Placeholders, argVars
    <2>5. CollectedInv' /\ AttInv'
      BY <1>1 DEF HashFile, CollectedInv, AttInv
    <2>6. CommitInv'
      BY <1>1, <2>1 DEF HashFile, CommitInv, SawOnly
    <2> QED
      BY <2>2, <2>3, <2>4, <2>5, <2>6
  <1>2. CASE ListedFileIsGone(f)
    BY <1>2, RaiseStep DEF ListedFileIsGone
  <1> QED
    BY <1>1, <1>2

\* The checks of a call that has passed Layer 2 are typed.
LEMMA ChecksTyped ==
  ASSUME IInv, PastLayer2
  PROVE  Checks \in [CheckIds -> ChecksOk]
  <1> USE DEF IInv
  <1>1. layer1 \in ChecksOk
    BY CheckTyped DEF FrontInv, PastLayer2, ResultStatus, CheckStatus, Details
  <1>2. match \in ChecksOk
    <2>1. BundleRequired(doc) \in {"active", "other", "no_string"}
      BY SchemaAssumption DEF TypeOK
    <2>2. MatchStatus(BundleRequired(doc)) \in ResultStatus
      BY <2>1 DEF MatchStatus, ResultStatus, CheckStatus
    <2> QED
      BY <2>2, CheckTyped DEF FrontInv, PastLayer2, PastBundle, Details
  <1>3. ASSUME NEW r \in Layer2Rules PROVE layer2[r] \in ChecksOk
    <2>1. CASE \E d \in FailureDetails : layer2 = Placeholders("INCOMPLETE", d)
      BY <2>1, CheckTyped
      DEF Placeholders, ResultStatus, CheckStatus, FailureDetails, Details
    <2>2. CASE layer2 = Placeholders(SkipReason.status, SkipReason.detail)
      <3>1. SkipReason.status \in ResultStatus /\ SkipReason.detail \in Details
        BY DEF SkipReason, Check, ResultStatus, CheckStatus, Details, SkippedDetails
      <3> QED
        BY <2>2, <3>1, CheckTyped DEF Placeholders
    <2>3. CASE AllEvaluated
      BY <2>3 DEF AllEvaluated
    <2> QED
      BY <2>1, <2>2, <2>3 DEF Layer2Inv
  <1> QED
    BY <1>1, <1>2, <1>3 DEF Checks, CheckIds

LEMMA SignStep ==
  ASSUME IInv, Sign
  PROVE  IInv'
  <1> USE DEF IInv
  <1>1. PastLayer2
    BY DEF Sign, PastLayer2
  <1>2. Subject \in Attestations
    BY <1>1, ChecksTyped, VerdictTyped DEF Subject, Attestations, TypeOK
  <1>3. TypeOK'
    BY <1>2 DEF Sign, TypeOK, argVars
  <1>4. FrontInv'
    BY DEF Sign, FrontInv, PastBundle, SawOnly, MustSkip, argVars
  <1>5. Layer2Inv'
    BY DEF Sign, Layer2Inv, PastLayer2, AllEvaluated, MustSkip, SkipReason,
           Placeholders, argVars
  <1>6. CollectedInv'
    BY DEF Sign, CollectedInv
  <1>7. AttInv'
    BY DEF Sign, AttInv, Subject, Checks, argVars
  <1>8. CommitInv'
    BY DEF Sign, CommitInv, SawOnly
  <1> QED
    BY <1>3, <1>4, <1>5, <1>6, <1>7, <1>8

LEMMA ChangeStep ==
  ASSUME IInv, NEW f \in Files, ChangeFile(f)
  PROVE  IInv'
  <1> USE DEF IInv
  <1>1. edits \in Nat /\ edits' = edits + 1 /\ edits' # 0 /\ edits' \in 0..MaxEdits
    BY FilesAssumption DEF ChangeFile, TypeOK
  <1>2. PICK c \in Content : content' = [content EXCEPT ![f] = c]
    BY <1>1, ContentTyped DEF ChangeFile, Content
  <1>3. \A g \in Files \ {f} : content'[g] = content[g]
    BY <1>2 DEF TypeOK
  <1>4. content' \in [Files -> Content]
    BY <1>2 DEF TypeOK
  <1>5. TypeOK'
    BY <1>1, <1>4 DEF ChangeFile, TypeOK, argVars
  <1>6. FrontInv'
    BY DEF ChangeFile, FrontInv, PastBundle, SawOnly, MustSkip, argVars
  <1>7. CollectedInv'
    BY <1>1 DEF ChangeFile, CollectedInv, argVars
  <1>8. Layer2Inv'
    BY <1>1
    DEF ChangeFile, Layer2Inv, PastLayer2, AllEvaluated, MustSkip, SkipReason,
        Placeholders, argVars
  <1>9. AttInv'
    BY DEF ChangeFile, AttInv, Subject, Checks, argVars
  <1>10. CommitInv'
    BY <1>1, <1>3 DEF ChangeFile, CommitInv, SawOnly
  <1> QED
    BY <1>5, <1>6, <1>7, <1>8, <1>9, <1>10

LEMMA OpaMoveStep ==
  ASSUME IInv, NEW b \in Binaries, MoveOpa(b)
  PROVE  IInv'
  <1> USE DEF IInv
  <1>1. TypeOK'
    BY DEF MoveOpa, TypeOK, argVars
  <1>2. FrontInv' /\ CollectedInv'
    BY DEF MoveOpa, FrontInv, PastBundle, SawOnly, MustSkip, CollectedInv, argVars
  <1>3. Layer2Inv' /\ AttInv'
    BY DEF MoveOpa, Layer2Inv, PastLayer2, AllEvaluated, MustSkip, SkipReason,
           Placeholders, AttInv, Subject, Checks, argVars
  <1>4. CommitInv'
    BY DEF MoveOpa, CommitInv, SawOnly
  <1> QED
    BY <1>1, <1>2, <1>3, <1>4

LEMMA StutterStep ==
  ASSUME IInv, UNCHANGED vars
  PROVE  IInv'
  <1> USE DEF IInv, vars, argVars
  <1>1. TypeOK' /\ FrontInv' /\ CollectedInv'
    BY DEF TypeOK, FrontInv, PastBundle, SawOnly, MustSkip, CollectedInv
  <1>2. Layer2Inv' /\ AttInv'
    BY DEF Layer2Inv, PastLayer2, AllEvaluated, MustSkip, SkipReason,
           Placeholders, AttInv, Subject, Checks
  <1>3. CommitInv'
    BY DEF CommitInv, SawOnly
  <1> QED
    BY <1>1, <1>2, <1>3

LEMMA InvStep == IInv /\ [Next]_vars => IInv'
  <1> SUFFICES ASSUME IInv, [Next]_vars PROVE IInv'
    OBVIOUS
  <1>1. CASE OwnStep
    BY <1>1, FrontStep, SkipStep, FailureStep, OpaFoundStep, CollectStep,
       ListStep, HashStep, SignStep DEF OwnStep
  <1>2. CASE OpaStep
    BY <1>2, EvaluateStep, FailureStep DEF OpaStep
  <1>3. CASE Environment
    BY <1>3, ChangeStep, OpaMoveStep DEF Environment
  <1>4. CASE UNCHANGED vars
    BY <1>4, StutterStep
  <1> QED
    BY <1>1, <1>2, <1>3, <1>4 DEF Next

\* What every reachable state of a call satisfies.
THEOREM Invariance == Spec => []IInv
  BY InvInit, InvStep, PTL DEF Spec

-----------------------------------------------------------------------------
(* The properties.                                                         *)

\* Every variable keeps its type; in particular every attestation has one
\* check per rule, with a status and a detail.
THEOREM TypeCorrect == Spec => []TypeOK
  <1>1. IInv => TypeOK
    BY DEF IInv
  <1> QED
    BY <1>1, Invariance, PTL

LEMMA VerdictOfPassClass ==
  ASSUME NEW checks, VerdictFromChecks(checks) \in PassClass
  PROVE  \A c \in DOMAIN checks : checks[c].status \notin {"FAIL", "INCOMPLETE"}
  BY DEF VerdictFromChecks, PassClass, HasStatus

LEMMA ChecksOf ==
  /\ DOMAIN Checks = CheckIds
  /\ Checks[StructRule] = layer1
  /\ Checks[MatchCheck] = match
  /\ \A r \in Layer2Rules : Checks[r] = layer2[r]
  BY RegistryAssumption DEF Checks, CheckIds, Layer2Rules

\* A PASS-class verdict is backed by an evaluation of every rule.
LEMMA PassBacked == IInv => PassIsBacked
  <1> SUFFICES ASSUME IInv, Issued, SawOnly(SccSchema, Shipped), att.verdict \in PassClass
               PROVE  /\ att.checks[StructRule].status = "PASS"
                      /\ att.checks[MatchCheck].status = "PASS"
                      /\ \A r \in Layer2Rules :
                           /\ att.checks[r].detail = "evaluated"
                           /\ att.checks[r].status \notin {"FAIL", "INCOMPLETE"}
    BY DEF PassIsBacked
  <1> USE DEF IInv
  <1>1. att = Subject /\ pc = "issued" /\ PastLayer2 /\ PastBundle
    BY DEF Issued, AttInv, PastLayer2, PastBundle
  <1>2. att.checks = Checks /\ att.verdict = VerdictFromChecks(Checks)
    BY <1>1 DEF Subject
  <1>3. \A c \in CheckIds : Checks[c].status \notin {"FAIL", "INCOMPLETE"}
    BY <1>2, ChecksOf, VerdictOfPassClass
  <1>4. layer1.status # "FAIL" /\ match.status # "FAIL"
    BY <1>3, ChecksOf DEF CheckIds
  <1>5. layer1.status = "PASS" /\ SchemaAccepts(doc)
    BY <1>1, <1>4 DEF FrontInv, Check
  <1>6. match.status = "PASS"
    <2>1. BundleRequired(doc) \in {"active", "other"}
      BY <1>5, SchemaAssumption DEF TypeOK
    <2>2. match.status = MatchStatus(BundleRequired(doc))
      BY <1>1 DEF FrontInv, Check
    <2> QED
      BY <1>4, <2>1, <2>2 DEF MatchStatus
  <1>7. \A r \in Layer2Rules : layer2[r].status \notin {"FAIL", "INCOMPLETE"}
    BY <1>3, ChecksOf DEF CheckIds
  <1>8. PICK r \in Layer2Rules : TRUE
    BY RegistryAssumption
  <1>9. AllEvaluated
    <2>1. \A d : layer2 # Placeholders("INCOMPLETE", d)
      BY <1>7, <1>8 DEF Placeholders, Check
    <2>2. ~(MustSkip /\ layer2 = Placeholders(SkipReason.status, SkipReason.detail))
      <3>1. MustSkip => SkipReason.status = "INCOMPLETE"
        BY <1>5, <1>6 DEF MustSkip, SkipReason, Check
      <3> QED
        BY <2>1, <3>1
    <2> QED
      BY <1>1, <2>1, <2>2 DEF Layer2Inv
  <1> QED
    BY <1>2, <1>5, <1>6, <1>7, <1>9, ChecksOf DEF AllEvaluated

\* PassIsBacked holds in every reachable state, whatever the registry, the
\* documents and the number of changes to the bundle.
THEOREM PassClassIsBacked == Spec => []PassIsBacked
  BY PassBacked, Invariance, PTL

LEMMA AllOrNothing == IInv => Layer2IsAllOrNothing
  <1> SUFFICES ASSUME IInv, Issued, NEW r \in Layer2Rules, NEW s \in Layer2Rules
               PROVE  att.checks[r].detail = att.checks[s].detail
    BY DEF Layer2IsAllOrNothing
  <1>1. att.checks = Checks /\ PastLayer2
    BY DEF IInv, Issued, AttInv, Subject, PastLayer2
  <1>2. layer2[r].detail = layer2[s].detail
    BY <1>1 DEF IInv, Layer2Inv, AllEvaluated, Placeholders, Check
  <1> QED
    BY <1>1, <1>2, ChecksOf

\* Layer 2 is evaluated for all rules or for none, in every reachable state.
THEOREM Layer2AllOrNothing == Spec => []Layer2IsAllOrNothing
  BY AllOrNothing, Invariance, PTL

LEMMA UntouchedCommitted == IInv => UntouchedFilesAreCommitted
  <1> SUFFICES ASSUME IInv, Issued, NEW f \in Files \ touched
               PROVE  SawOnly(f, att.manifest[f])
    BY DEF UntouchedFilesAreCommitted
  <1>1. att.manifest = manifest /\ pc = "issued"
    BY DEF IInv, Issued, AttInv, Subject
  <1>2. SawOnly(f, content[f]) /\ manifest[f] = content[f]
    BY <1>1 DEF IInv, CommitInv
  <1> QED
    BY <1>1, <1>2

\* The attestation commits to every file that stayed as it was used.
THEOREM UntouchedAreCommitted == Spec => []UntouchedFilesAreCommitted
  BY UntouchedCommitted, Invariance, PTL

LEMMA Explained == IInv => PlaceholdersAreExplained
  <1> SUFFICES ASSUME IInv, Issued, SawOnly(SccSchema, Shipped), NEW r \in Layer2Rules
               PROVE  /\ /\ att.checks[r].detail \in SkippedDetails
                         /\ att.checks[r].status = "NOT_APPLICABLE"
                         => "FAIL" \in {att.checks[StructRule].status,
                                        att.checks[MatchCheck].status}
                      /\ /\ att.checks[r].detail \notin {"evaluated"}
                         /\ att.checks[r].status = "INCOMPLETE"
                         => {att.checks[StructRule].status,
                             att.checks[MatchCheck].status} = {"PASS"}
    BY DEF PlaceholdersAreExplained
  <1> USE DEF IInv
  <1>1. att.checks = Checks /\ PastLayer2 /\ PastBundle /\ pc = "issued"
    BY DEF Issued, AttInv, Subject, PastLayer2, PastBundle
  <1>2. layer1.status \in {"PASS", "FAIL"}
    BY <1>1 DEF FrontInv, Check
  <1>3. BundleRequired(doc) \in {"active", "other", "no_string"}
    BY SchemaAssumption DEF TypeOK
  <1>4. match.status = MatchStatus(BundleRequired(doc))
    BY <1>1 DEF FrontInv, Check
  <1>5. layer1.status = "PASS" => match.status \in {"PASS", "FAIL"}
    BY <1>1, <1>3, <1>4, SchemaAssumption DEF FrontInv, MatchStatus, TypeOK
  <1>6. CASE MustSkip /\ layer2 = Placeholders(SkipReason.status, SkipReason.detail)
    <2>1. layer2[r].status = SkipReason.status
      BY <1>6 DEF Placeholders, Check
    <2>2. SkipReason.status = "INCOMPLETE" =>
            layer1.status = "PASS" /\ match.status = "PASS"
      BY DEF SkipReason, Check
    <2>3. SkipReason.status = "NOT_APPLICABLE" =>
            ~(layer1.status = "PASS" /\ match.status = "PASS")
      BY <1>6 DEF SkipReason, Check, MustSkip
    <2> QED
      BY <1>1, <1>2, <1>5, <2>1, <2>2, <2>3, ChecksOf
  <1>7. CASE /\ ~MustSkip
             /\ \E d \in FailureDetails : layer2 = Placeholders("INCOMPLETE", d)
    BY <1>1, <1>7, ChecksOf DEF MustSkip, Placeholders, Check
  <1>8. CASE ~MustSkip /\ AllEvaluated
    BY <1>1, <1>8, ChecksOf DEF AllEvaluated, SkippedDetails
  <1> QED
    BY <1>1, <1>6, <1>7, <1>8 DEF Layer2Inv

\* No rule goes unevaluated without a check that says why.
THEOREM PlaceholdersExplained == Spec => []PlaceholdersAreExplained
  BY Explained, Invariance, PTL

-----------------------------------------------------------------------------
(* verify() implements its promise.                                        *)

\* On an undisturbed bundle the verdict is one of those promised.
LEMMA VerdictIsPromised ==
  ASSUME IInv, PastLayer2, edits = 0, SawOnly(SccSchema, Shipped)
  PROVE  VerdictFromChecks(Checks) \in Promise!Promised(doc, skip)
  <1> USE DEF IInv
  <1>1. PastBundle /\ pc \notin {"schema", "raised"}
    BY DEF PastLayer2, PastBundle
  <1>2. layer1.status \in {"PASS", "FAIL"} /\
        (layer1.status = "PASS" <=> SchemaAccepts(doc))
    BY <1>1 DEF FrontInv, Check
  <1>3. BundleRequired(doc) \in {"active", "other", "no_string"}
    BY SchemaAssumption DEF TypeOK
  <1>4. match.status = MatchStatus(BundleRequired(doc))
    BY <1>1 DEF FrontInv, Check
  <1>5. Promise!Evaluable(doc) <=> layer1.status = "PASS" /\ match.status = "PASS"
    BY <1>2, <1>3, <1>4 DEF Promise!Evaluable, MatchStatus
  <1>6. CASE ~Promise!Evaluable(doc)
    <2>1. layer1.status = "FAIL" \/ match.status = "FAIL"
      BY <1>2, <1>3, <1>4, <1>6, SchemaAssumption
      DEF Promise!Evaluable, MatchStatus, TypeOK
    <2>2. HasStatus(Checks, "FAIL")
      BY <2>1, ChecksOf DEF HasStatus, CheckIds
    <2> QED
      BY <1>6, <2>2 DEF VerdictFromChecks, Promise!Promised
  <1>7. CASE Promise!Evaluable(doc)
    <2>1. \A s : HasStatus(Checks, s) <=>
                   s = "PASS" \/ \E r \in Layer2Rules : layer2[r].status = s
      BY <1>5, <1>7, ChecksOf DEF HasStatus, CheckIds
    <2>2. PICK r \in Layer2Rules : TRUE
      BY RegistryAssumption
    <2>3. CASE \E d : layer2 = Placeholders("INCOMPLETE", d)
      <3>1. \A q \in Layer2Rules : layer2[q].status = "INCOMPLETE"
        BY <2>3 DEF Placeholders, Check
      <3>2. VerdictFromChecks(Checks) = "INCOMPLETE"
        BY <2>1, <2>2, <3>1 DEF VerdictFromChecks
      <3> QED
        BY <1>7, <3>2 DEF Promise!Promised
    <2>4. CASE ~MustSkip /\ AllEvaluated
      <3>1. \A s : (\E q \in Layer2Rules : layer2[q].status = s)
                   <=> s \in {RegoStatus(q, doc) : q \in Layer2Rules}
        BY <2>4 DEF AllEvaluated
      <3>2. VerdictFromChecks(Checks) = Promise!RulesVerdict(doc)
        BY <2>1, <3>1 DEF VerdictFromChecks, Promise!RulesVerdict
      <3> QED
        BY <1>7, <2>4, <3>2 DEF MustSkip, Promise!Promised
    <2>5. MustSkip => SkipReason.status = "INCOMPLETE"
      BY <1>5, <1>7 DEF MustSkip, SkipReason, Check
    <2> QED
      BY <2>3, <2>4, <2>5 DEF Layer2Inv
  <1> QED
    BY <1>6, <1>7

\* A step that goes on with the call is not seen from outside.
Silent == /\ pc \notin {"issued", "raised"}
          /\ pc' \notin {"issued", "raised"}
          /\ UNCHANGED <<doc, skip, edits>>

LEMMA SilentStep == Silent => UNCHANGED Promise!vars
  BY DEF Silent, Promise!vars

LEMMA RefusalStep ==
  ASSUME IInv, pc \notin {"issued", "raised"}, Raise, UNCHANGED <<doc, skip, edits>>,
         edits # 0 \/ ~IsMapping(doc) \/ ~Canonicalizable(doc)
  PROVE  Promise!Refuse
  <1>1. edits # 0 => edits > 0
    BY FilesAssumption DEF IInv, TypeOK
  <1> QED
    BY <1>1 DEF Raise, Promise!Refuse

LEMMA AnswerStep ==
  ASSUME IInv, Sign
  PROVE  Promise!Answer
  <1> USE DEF IInv
  <1>1. PastLayer2 /\ edits \in Nat
    BY FilesAssumption DEF Sign, PastLayer2, TypeOK
  <1>2. att'.verdict = VerdictFromChecks(Checks)
    BY DEF Sign, Subject
  <1>3. att'.verdict \in Verdict
    BY <1>2, VerdictTyped
  <1>4. ~(edits > 0) => att'.verdict \in Promise!Promised(doc, skip)
    <2> SUFFICES ASSUME ~(edits > 0)
                 PROVE  att'.verdict \in Promise!Promised(doc, skip)
      OBVIOUS
    <2>1. edits = 0
      BY <1>1
    <2>2. SawOnly(SccSchema, Shipped)
      BY <2>1, FilesAssumption DEF Sign, CommitInv, SawOnly
    <2> QED
      BY <1>1, <1>2, <2>1, <2>2, VerdictIsPromised
  <1> QED
    BY <1>3, <1>4 DEF Sign, Promise!Answer, argVars, Verdict, Promise!Verdict

LEMMA PromiseStep == IInv /\ [Next]_vars => [Promise!Next]_(Promise!vars)
  <1> SUFFICES ASSUME IInv, [Next]_vars
               PROVE  Promise!Next \/ UNCHANGED Promise!vars
    OBVIOUS
  <1>1. edits # 0 \/ \A f \in Files : content[f] = Shipped
    BY DEF IInv, CommitInv
  <1>2. Shipped # Absent
    BY FilesAssumption DEF Shipped
  <1>3. CASE ValidateSchema \/ MatchBundle \/ SkipLayer2 \/ OpaAvailable
             \/ PrepareEvaluation \/ CollectResults \/ ListBundle \/ EvaluateRule
    <2>1. Silent
      BY <1>3
      DEF Silent, ValidateSchema, MatchBundle, SkipLayer2, OpaAvailable,
          PrepareEvaluation, CollectResults, ListBundle, EvaluateRule, argVars
    <2> QED
      BY <2>1, SilentStep
  <1>4. CASE OpaNotAvailable \/ PreparationFails \/ RuleIsUndefined
             \/ OpaCannotStart \/ OpaFails \/ OpaTimesOut
    <2>1. Silent
      BY <1>4
      DEF Silent, OpaNotAvailable, PreparationFails, RuleIsUndefined,
          OpaCannotStart, OpaFails, OpaTimesOut, Incomplete, argVars
    <2> QED
      BY <2>1, SilentStep
  <1>5. CASE SchemaUnreadable \/ NotAMapping \/ BundleIsEmpty \/ DocumentNotCanonical
    <2>1. Promise!Refuse
      BY <1>1, <1>2, <1>5, RefusalStep, FilesAssumption
      DEF SchemaUnreadable, NotAMapping, BundleIsEmpty, DocumentNotCanonical, argVars
    <2> QED
      BY <2>1 DEF Promise!Next
  <1>6. ASSUME NEW f \in Files, HashFile(f)
        PROVE  UNCHANGED Promise!vars
    BY <1>6, SilentStep DEF Silent, HashFile, argVars
  <1>7. ASSUME NEW f \in Files, ListedFileIsGone(f)
        PROVE  Promise!Refuse
    BY <1>1, <1>2, <1>7, RefusalStep DEF ListedFileIsGone, argVars
  <1>8. CASE Sign
    BY <1>8, AnswerStep DEF Promise!Next
  <1>9. ASSUME NEW f \in Files, ChangeFile(f)
        PROVE  Promise!Disturb
    <2>1. edits' > 0
      BY <1>9, FilesAssumption DEF ChangeFile, IInv, TypeOK
    <2> QED
      BY <1>9, <2>1 DEF ChangeFile, Promise!Disturb, argVars
  <1>10. ASSUME NEW b \in Binaries, MoveOpa(b)
         PROVE  UNCHANGED Promise!vars
    BY <1>10 DEF MoveOpa, Promise!vars, argVars
  <1>11. CASE UNCHANGED vars
    BY <1>11 DEF vars, Promise!vars, argVars
  <1> QED
    BY <1>3, <1>4, <1>5, <1>6, <1>7, <1>8, <1>9, <1>10, <1>11
    DEF Next, OwnStep, OpaStep, Environment, Promise!Next

LEMMA PromiseInit == Init => Promise!Init
  BY DEF Init, Promise!Init

\* Every behaviour of a call is, seen from outside, a behaviour of the promise:
\* it answers once, and on an undisturbed bundle with a promised verdict.
THEOREM ImplementsPromise == Spec => KeepsPromise
  <1>1. Spec => Promise!Init /\ [][Promise!Next]_(Promise!vars)
    BY PromiseInit, PromiseStep, Invariance, PTL DEF Spec
  <1> QED
    BY <1>1 DEF KeepsPromise, Promise!Spec

-----------------------------------------------------------------------------
(* What OPA can do to a verdict.                                           *)

Evaluated == \E r \in Layer2Rules : layer2[r].detail = "evaluated"

\* Placeholders say nothing was evaluated.
LEMMA PlaceholderDetails ==
  /\ SkipReason.detail # "evaluated"
  /\ \A d \in FailureDetails : d # "evaluated"
  BY DEF SkipReason, Check, FailureDetails, RaisedDetails

LEMMA FrontOfIssued ==
  ASSUME IInv, PastLayer2, edits = 0
  PROVE  /\ layer1.status \in {"PASS", "FAIL"} /\ match.status \in {"PASS", "FAIL", "NOT_APPLICABLE"}
         /\ Promise!Evaluable(doc) <=> layer1.status = "PASS" /\ match.status = "PASS"
  <1> USE DEF IInv
  <1>1. PastBundle /\ pc \notin {"schema", "raised"}
    BY DEF PastLayer2, PastBundle
  <1>2. SawOnly(SccSchema, Shipped)
    BY <1>1, FilesAssumption DEF CommitInv, SawOnly
  <1>3. layer1.status \in {"PASS", "FAIL"} /\ (layer1.status = "PASS" <=> SchemaAccepts(doc))
    BY <1>1, <1>2 DEF FrontInv, Check
  <1>4. BundleRequired(doc) \in {"active", "other", "no_string"}
    BY SchemaAssumption DEF TypeOK
  <1>5. match.status = MatchStatus(BundleRequired(doc))
    BY <1>1 DEF FrontInv, Check
  <1> QED
    BY <1>3, <1>4, <1>5 DEF Promise!Evaluable, MatchStatus

\* When the rules were evaluated, they decide.
LEMMA RulesDecide ==
  ASSUME IInv, PastLayer2, edits = 0, Evaluated
  PROVE  /\ Promise!Evaluable(doc) /\ ~skip
         /\ VerdictFromChecks(Checks) = Promise!RulesVerdict(doc)
  <1> USE DEF IInv
  <1>1. ~MustSkip /\ AllEvaluated
    <2>1. PICK r \in Layer2Rules : layer2[r].detail = "evaluated"
      BY DEF Evaluated
    <2>2. \A s, d : layer2 = Placeholders(s, d) => d = "evaluated"
      BY <2>1 DEF Placeholders, Check
    <2> QED
      BY <2>2, PlaceholderDetails DEF Layer2Inv
  <1>2. layer1.status = "PASS" /\ match.status = "PASS" /\ ~skip
    BY <1>1 DEF MustSkip
  <1>3. \A s : HasStatus(Checks, s) <=>
                 s = "PASS" \/ \E r \in Layer2Rules : layer2[r].status = s
    BY <1>2, ChecksOf DEF HasStatus, CheckIds
  <1>4. \A s : (\E r \in Layer2Rules : layer2[r].status = s)
               <=> s \in {RegoStatus(r, doc) : r \in Layer2Rules}
    BY <1>1 DEF AllEvaluated
  <1>5. VerdictFromChecks(Checks) = Promise!RulesVerdict(doc)
    BY <1>3, <1>4 DEF VerdictFromChecks, Promise!RulesVerdict
  <1> QED
    BY <1>2, <1>5, FrontOfIssued

\* When they were not, the verdict is one of a skipped evaluation.
LEMMA NothingDecides ==
  ASSUME IInv, PastLayer2, edits = 0, ~Evaluated
  PROVE  VerdictFromChecks(Checks) \in Promise!Promised(doc, TRUE)
  <1> USE DEF IInv
  <1>1. SawOnly(SccSchema, Shipped)
    BY FilesAssumption DEF CommitInv, SawOnly, PastLayer2
  <1>2. VerdictFromChecks(Checks) \in Promise!Promised(doc, skip)
    BY <1>1, VerdictIsPromised
  <1>3. CASE ~Promise!Evaluable(doc)
    BY <1>2, <1>3 DEF Promise!Promised
  <1>4. CASE Promise!Evaluable(doc)
    <2>1. layer1.status = "PASS" /\ match.status = "PASS"
      BY <1>4, FrontOfIssued
    <2>2. PICK r \in Layer2Rules : TRUE
      BY RegistryAssumption
    <2>3. ~AllEvaluated
      BY <2>2 DEF AllEvaluated, Evaluated
    <2>4. MustSkip => SkipReason.status = "INCOMPLETE"
      BY <2>1 DEF MustSkip, SkipReason, Check
    <2>5. \A q \in Layer2Rules : layer2[q].status = "INCOMPLETE"
      BY <2>3, <2>4 DEF Layer2Inv, Placeholders, Check
    <2>6. \A s : HasStatus(Checks, s) <=> s \in {"PASS", "INCOMPLETE"}
      BY <2>1, <2>2, <2>5, ChecksOf DEF HasStatus, CheckIds
    <2> QED
      BY <1>4, <2>6 DEF VerdictFromChecks, Promise!Promised
  <1> QED
    BY <1>3, <1>4

LEMMA BrokenOff == IInv => BrokenOffIsAsSkipped
  <1> SUFFICES ASSUME IInv, Issued, edits = 0
               PROVE  IF \E r \in Layer2Rules : att.checks[r].detail = "evaluated"
                      THEN /\ Promise!Evaluable(doc) /\ ~skip
                           /\ att.verdict = Promise!RulesVerdict(doc)
                      ELSE att.verdict \in Promise!Promised(doc, TRUE)
    BY DEF BrokenOffIsAsSkipped
  <1>1. att = Subject /\ PastLayer2
    BY DEF IInv, Issued, AttInv, PastLayer2
  <1>2. att.checks = Checks /\ att.verdict = VerdictFromChecks(Checks)
    BY <1>1 DEF Subject
  <1>3. (\E r \in Layer2Rules : att.checks[r].detail = "evaluated") <=> Evaluated
    BY <1>2, ChecksOf DEF Evaluated
  <1> QED
    BY <1>1, <1>2, <1>3, RulesDecide, NothingDecides

\* On an undisturbed bundle the rules decide, or nothing of Layer 2 does.
THEOREM BrokenOffAsSkipped == Spec => []BrokenOffIsAsSkipped
  BY BrokenOff, Invariance, PTL

LEMMA StatusesKnown ==
  ASSUME IInv, PastLayer2, edits = 0
  PROVE  \A r \in Layer2Rules : layer2[r].status \in CheckStatus
  <1>1. CASE layer2 = Placeholders(SkipReason.status, SkipReason.detail)
    <2>1. SkipReason.status \in {"INCOMPLETE", "NOT_APPLICABLE"}
      BY DEF SkipReason, Check
    <2> QED
      BY <1>1, <2>1 DEF Placeholders, Check, CheckStatus
  <1>2. CASE \E d \in FailureDetails : layer2 = Placeholders("INCOMPLETE", d)
    BY <1>2 DEF Placeholders, Check, CheckStatus
  <1>3. CASE AllEvaluated
    <2> SUFFICES ASSUME NEW r \in Layer2Rules PROVE layer2[r].status \in CheckStatus
      OBVIOUS
    <2>1. layer2[r].status \in ResultStatus /\ layer2[r].status = RegoStatus(r, doc)
      BY <1>3 DEF AllEvaluated, ChecksOk
    <2>2. RegoStatus(r, doc) \in CheckStatus \cup {"undefined"}
      BY RulesAssumption DEF IInv, TypeOK, Layer2Rules
    <2> QED
      BY <2>1, <2>2 DEF ResultStatus, CheckStatus, UnknownStatus
  <1> QED
    BY <1>1, <1>2, <1>3 DEF IInv, Layer2Inv

LEMMA ValidButForId == IInv => InvalidOnlyForTheId
  <1> SUFFICES ASSUME IInv, Issued, edits = 0
               PROVE  /\ EnvelopeIsValid(att) <=> SccIdIsString(doc)
                      /\ ~EnvelopeIsValid(att) => att.verdict = "FAIL"
    BY DEF InvalidOnlyForTheId
  <1>1. PastLayer2 /\ att = Subject /\ doc \in Documents
    BY DEF Issued, PastLayer2, IInv, AttInv, TypeOK
  <1>2. layer1.status \in CheckStatus /\ match.status \in CheckStatus
    BY <1>1, FrontOfIssued DEF CheckStatus
  <1>3. \A c \in CheckIds : att.checks[c].status \in CheckStatus
    BY <1>1, <1>2, StatusesKnown, ChecksOf DEF CheckIds, Subject
  <1>4. att.scc_id = "string" <=> SccIdIsString(doc)
    BY <1>1 DEF Subject
  <1>5. EnvelopeIsValid(att) <=> SccIdIsString(doc)
    BY <1>3, <1>4 DEF EnvelopeIsValid
  <1>6. ASSUME ~SccIdIsString(doc)
        PROVE  att.verdict = "FAIL"
    <2>1. ~SchemaAccepts(doc)
      BY <1>1, <1>6, SchemaAssumption
    <2>2. SawOnly(SccSchema, Shipped)
      BY <1>1, FilesAssumption DEF IInv, CommitInv, SawOnly, PastLayer2
    <2>3. VerdictFromChecks(Checks) \in Promise!Promised(doc, skip)
      BY <1>1, <2>2, VerdictIsPromised
    <2> QED
      BY <1>1, <2>1, <2>3 DEF Promise!Promised, Promise!Evaluable, Subject
  <1> QED
    BY <1>5, <1>6

\* On an undisturbed bundle an attestation is rejected by the envelope schema
\* exactly if the scc_id of its document is not a string, and then it is a FAIL.
THEOREM ValidExceptForTheId == Spec => []InvalidOnlyForTheId
  BY ValidButForId, Invariance, PTL

\* OPA is there for every rule, and its steps are the results of the rules.
OpaGivesUp ==
  \/ OpaNotAvailable \/ PreparationFails \/ RuleIsUndefined
  \/ OpaCannotStart \/ OpaFails \/ OpaTimesOut

OpaWorked == PastLayer2 /\ ~MustSkip => Evaluated

NothingEvaluated == pc \notin {"prepare", "evaluate"} /\ (PastLayer2 => ~Evaluated)

\* The steps before Layer 2 is over, and those after.
LEMMA OtherStep ==
  ASSUME Next, ~OpaGivesUp
  PROVE  \/ OpaAvailable \/ PrepareEvaluation \/ EvaluateRule
         \/ SkipLayer2 \/ CollectResults
         \/ pc \in {"schema", "bundle"} /\ pc' \in {"bundle", "layer2", "raised"}
         \/ pc' \in {pc, "list", "hash", "issued", "raised"} /\ (pc' # pc => PastLayer2)
            /\ UNCHANGED <<layer1, match, skip, layer2>>
  <1>1. CASE ValidateSchema \/ SchemaUnreadable \/ MatchBundle \/ NotAMapping
    BY <1>1 DEF ValidateSchema, SchemaUnreadable, MatchBundle, NotAMapping, Raise
  <1>2. CASE DocumentNotCanonical \/ ListBundle \/ BundleIsEmpty \/ Sign
    BY <1>2 DEF DocumentNotCanonical, ListBundle, BundleIsEmpty, Sign, Raise, argVars, PastLayer2
  <1>3. CASE \E f \in Files : HashFile(f) \/ ListedFileIsGone(f)
    BY <1>3 DEF HashFile, ListedFileIsGone, Raise, argVars, PastLayer2
  <1>4. CASE Environment
    BY <1>4 DEF Environment, ChangeFile, MoveOpa, argVars
  <1> QED
    BY <1>1, <1>2, <1>3, <1>4 DEF Next, OwnStep, OpaStep, OpaGivesUp

LEMMA OpaWorkedStep ==
  IInv /\ OpaWorked /\ [Next]_vars /\ [~OpaGivesUp]_vars => OpaWorked'
  <1> SUFFICES ASSUME IInv, OpaWorked, [Next]_vars, [~OpaGivesUp]_vars, PastLayer2', ~MustSkip'
               PROVE  Evaluated'
    BY DEF OpaWorked
  <1>1. CASE OpaAvailable \/ PrepareEvaluation \/ EvaluateRule
    BY <1>1 DEF OpaAvailable, PrepareEvaluation, EvaluateRule, PastLayer2
  <1>2. CASE SkipLayer2
    BY <1>2 DEF SkipLayer2, MustSkip, argVars
  <1>3. CASE CollectResults
    BY <1>3, RegistryAssumption DEF CollectResults, Evaluated, Check
  <1>4. CASE pc \in {"schema", "bundle"} /\ pc' \in {"bundle", "layer2", "raised"}
    BY <1>4 DEF PastLayer2
  <1>5. CASE pc' \in {pc, "list", "hash", "issued", "raised"} /\ (pc' # pc => PastLayer2)
             /\ UNCHANGED <<layer1, match, skip, layer2>>
    BY <1>5 DEF OpaWorked, PastLayer2, MustSkip, Evaluated
  <1>6. CASE UNCHANGED vars
    BY <1>6 DEF vars, argVars, OpaWorked, PastLayer2, MustSkip, Evaluated
  <1> QED
    BY <1>1, <1>2, <1>3, <1>4, <1>5, <1>6, OtherStep

LEMMA NothingEvaluatedStep ==
  IInv /\ NothingEvaluated /\ [Next]_vars /\ FoundOpa = NoBinary => NothingEvaluated'
  <1> SUFFICES ASSUME IInv, NothingEvaluated, [Next]_vars, FoundOpa = NoBinary
               PROVE  NothingEvaluated'
    OBVIOUS
  <1>1. CASE OpaAvailable \/ PrepareEvaluation \/ EvaluateRule \/ CollectResults
    BY <1>1
    DEF OpaAvailable, PrepareEvaluation, EvaluateRule, CollectResults, NothingEvaluated
  <1>2. CASE SkipLayer2
    <2>1. \A r \in Layer2Rules : layer2'[r].detail = SkipReason.detail
      BY <1>2 DEF SkipLayer2, Placeholders, Check
    <2> QED
      BY <1>2, <2>1, PlaceholderDetails DEF SkipLayer2, NothingEvaluated, Evaluated
  <1>3. CASE OpaGivesUp
    <2>1. PICK d \in FailureDetails : Incomplete(d)
      BY <1>3
      DEF OpaGivesUp, OpaNotAvailable, PreparationFails, RuleIsUndefined, OpaCannotStart,
          OpaFails, OpaTimesOut, FailureDetails, RaisedDetails
    <2>2. \A r \in Layer2Rules : layer2'[r].detail = d
      BY <2>1 DEF Incomplete, Placeholders, Check
    <2> QED
      BY <2>1, <2>2, PlaceholderDetails DEF Incomplete, NothingEvaluated, Evaluated
  <1>4. CASE pc \in {"schema", "bundle"} /\ pc' \in {"bundle", "layer2", "raised"}
    BY <1>4 DEF PastLayer2, NothingEvaluated
  <1>5. CASE pc' \in {pc, "list", "hash", "issued", "raised"} /\ (pc' # pc => PastLayer2)
             /\ UNCHANGED <<layer1, match, skip, layer2>>
    BY <1>5 DEF NothingEvaluated, PastLayer2, Evaluated
  <1>6. CASE UNCHANGED vars
    BY <1>6 DEF vars, NothingEvaluated, PastLayer2, Evaluated
  <1> QED
    BY <1>1, <1>2, <1>3, <1>4, <1>5, <1>6, OtherStep

\* With OPA there at every rule, the rules decide about every document they
\* can be asked about.
AnswersWithOpa ==
  Issued /\ edits = 0 /\ ~skip =>
    att.verdict \in Promise!Promised(doc, FALSE) \cap {"FAIL", Promise!RulesVerdict(doc)}

\* Without OPA every call answers as one that skips Layer 2.
AnswersWithoutOpa ==
  Issued /\ edits = 0 => att.verdict \in Promise!Promised(doc, TRUE)

LEMMA IssuedVerdict ==
  ASSUME IInv, Issued
  PROVE  PastLayer2 /\ att.verdict = VerdictFromChecks(Checks)
  BY DEF IInv, Issued, AttInv, Subject, PastLayer2

LEMMA WithOpa == IInv /\ OpaWorked => AnswersWithOpa
  <1> SUFFICES ASSUME IInv, OpaWorked, Issued, edits = 0, ~skip
               PROVE  att.verdict \in Promise!Promised(doc, FALSE)
                                        \cap {"FAIL", Promise!RulesVerdict(doc)}
    BY DEF AnswersWithOpa
  <1>1. PastLayer2 /\ att.verdict = VerdictFromChecks(Checks)
    BY IssuedVerdict
  <1>2. CASE Evaluated
    BY <1>1, <1>2, RulesDecide DEF Promise!Promised
  <1>3. CASE ~Evaluated
    <2>1. ~Promise!Evaluable(doc)
      BY <1>1, <1>3, FrontOfIssued DEF OpaWorked, MustSkip
    <2>2. att.verdict = "FAIL"
      BY <1>1, <1>3, <2>1, NothingDecides DEF Promise!Promised
    <2> QED
      BY <2>1, <2>2 DEF Promise!Promised
  <1> QED
    BY <1>2, <1>3

LEMMA WithoutOpa == IInv /\ NothingEvaluated => AnswersWithoutOpa
  BY IssuedVerdict, NothingDecides DEF NothingEvaluated, AnswersWithoutOpa

\* Every call during which OPA never gives up has the verdict of the rules.
THEOREM WithOpaTheRulesDecide == Spec /\ [][~OpaGivesUp]_vars => []AnswersWithOpa
  <1>1. Init => OpaWorked
    BY DEF Init, OpaWorked, PastLayer2
  <1> QED
    BY <1>1, OpaWorkedStep, WithOpa, Invariance, PTL DEF Spec

\* Every call during which no OPA can be found ends as if it had skipped
\* Layer 2.
THEOREM WithoutOpaAsIfSkipped == Spec /\ [](FoundOpa = NoBinary) => []AnswersWithoutOpa
  <1>1. Init => NothingEvaluated
    BY DEF Init, NothingEvaluated, PastLayer2
  <1> QED
    BY <1>1, NothingEvaluatedStep, WithoutOpa, Invariance, PTL DEF Spec

-----------------------------------------------------------------------------
(* A call is over after a bounded number of its own steps and OPA's: what  *)
(* is provable of its termination.                                         *)

MaxSteps == Len(Rules) + Cardinality(Files) + 7

\* What is still to do at p: the files to hash before the end, the rules to
\* evaluate before these; n is the next rule, u the number of unread files.
Steps(p, n, u, rules, files) ==
  IF p = "schema" THEN rules + files + 7
  ELSE IF p = "bundle" THEN rules + files + 6
  ELSE IF p = "layer2" THEN rules + files + 5
  ELSE IF p = "prepare" THEN rules + files + 4
  ELSE IF p = "evaluate" THEN rules + 1 - n + files + 3
  ELSE IF p = "list" THEN files + 2
  ELSE IF p = "hash" THEN u + 1
  ELSE 0

StepsLeft == Steps(pc, nextRule, Cardinality(unread), Len(Rules), Cardinality(Files))

\* Every step but EvaluateRule and HashFile goes on to a later stage.
GoesOn(p, n, q, m) ==
  \/ q = "raised" /\ p \in {"schema", "bundle", "list", "hash"}
  \/ p = "schema" /\ q = "bundle"
  \/ p = "bundle" /\ q = "layer2"
  \/ p = "layer2" /\ q \in {"prepare", "list"}
  \/ p = "prepare" /\ q \in {"evaluate", "list"}
  \/ p = "evaluate" /\ q = "list"
  \/ p = "evaluate" /\ q = "evaluate" /\ m = n + 1
  \/ p = "list" /\ q = "hash"
  \/ p = "hash" /\ q = "issued"

LEMMA StepsGoDown ==
  ASSUME NEW rules \in Nat, NEW files \in Nat, NEW p, NEW q,
         NEW n \in 1..(rules + 1), NEW m \in 1..(rules + 1),
         NEW u \in 0..files, NEW v \in 0..files, GoesOn(p, n, q, m)
  PROVE  Steps(q, m, v, rules, files) < Steps(p, n, u, rules, files)
  BY DEF Steps, GoesOn

CountInv ==
  /\ Len(Rules) \in Nat /\ Cardinality(Files) \in Nat
  /\ nextRule \in 1..(Len(Rules) + 1)
  /\ IsFiniteSet(unread) /\ Cardinality(unread) \in 0..Cardinality(Files)

LEMMA Counts == IInv => CountInv
  <1> SUFFICES ASSUME IInv PROVE CountInv
    OBVIOUS
  <1>1. IsFiniteSet(Files) /\ unread \subseteq Files
    BY FilesAssumption DEF IInv, TypeOK
  <1> QED
    BY <1>1, RulesLength, FS_Subset, FS_CardinalityType DEF IInv, TypeOK, CountInv

LEMMA StepsBounded ==
  ASSUME NEW rules \in Nat, NEW files \in Nat, NEW p,
         NEW n \in 1..(rules + 1), NEW u \in 0..files
  PROVE  Steps(p, n, u, rules, files) \in 0..(rules + files + 7)
  BY DEF Steps

LEMMA StepsLeftBounded == IInv => StepsLeft \in 0..MaxSteps
  BY Counts, StepsBounded DEF CountInv, StepsLeft, MaxSteps

LEMMA StageAdvances ==
  ASSUME CountInv, CountInv', GoesOn(pc, nextRule, pc', nextRule')
  PROVE  StepsLeft' < StepsLeft
  BY StepsGoDown DEF CountInv, StepsLeft

LEMMA HashAdvances ==
  ASSUME CountInv, NEW f \in Files, HashFile(f)
  PROVE  StepsLeft' < StepsLeft
  <1>1. /\ pc = "hash" /\ pc' = "hash" /\ f \in unread /\ unread' = unread \ {f}
    BY DEF HashFile
  <1>2. IsFiniteSet(unread) /\ Cardinality(unread) \in Nat
    BY DEF CountInv
  <1>3. Cardinality(unread \ {f}) = Cardinality(unread) - 1
    BY <1>1, <1>2, FS_RemoveElement
  <1> QED
    BY <1>1, <1>2, <1>3 DEF StepsLeft, Steps

LEMMA StepAdvances ==
  ASSUME CountInv, CountInv', OwnStep \/ OpaStep
  PROVE  StepsLeft' < StepsLeft
  <1>1. CASE ValidateSchema \/ MatchBundle \/ SkipLayer2 \/ OpaAvailable
             \/ PrepareEvaluation \/ CollectResults \/ ListBundle \/ Sign
    BY <1>1, StageAdvances
    DEF GoesOn, ValidateSchema, MatchBundle, SkipLayer2, OpaAvailable, PrepareEvaluation,
        CollectResults, ListBundle, Sign
  <1>2. CASE SchemaUnreadable \/ NotAMapping \/ DocumentNotCanonical \/ BundleIsEmpty
             \/ \E f \in Files : ListedFileIsGone(f)
    BY <1>2, StageAdvances
    DEF GoesOn, SchemaUnreadable, NotAMapping, DocumentNotCanonical, BundleIsEmpty,
        ListedFileIsGone, Raise
  <1>3. CASE OpaNotAvailable \/ PreparationFails \/ RuleIsUndefined \/ OpaCannotStart
             \/ OpaFails \/ OpaTimesOut
    <2>1. pc \in {"layer2", "prepare", "evaluate"} /\ pc' = "list"
      BY <1>3
      DEF OpaNotAvailable, PreparationFails, RuleIsUndefined, OpaCannotStart, OpaFails,
          OpaTimesOut, Incomplete
    <2> QED
      BY <2>1, StageAdvances DEF GoesOn
  <1>4. CASE EvaluateRule
    BY <1>4, StageAdvances DEF GoesOn, EvaluateRule
  <1>5. CASE \E f \in Files : HashFile(f)
    BY <1>5, HashAdvances
  <1> QED
    BY <1>1, <1>2, <1>3, <1>4, <1>5 DEF OwnStep, OpaStep

LEMMA EnvironmentAdvancesNothing == Environment => StepsLeft' = StepsLeft
  BY DEF Environment, ChangeFile, MoveOpa, StepsLeft

\* A call takes no more steps than there are rules and files, and seven: a
\* rule is evaluated, and a file hashed, at most once, no failure makes the
\* call begin anything anew, and nothing done to the files or to OPA gives it
\* more to do.  So it can only fail to end by waiting.
THEOREM CallsAreBounded ==
  Spec => /\ [](StepsLeft \in 0..MaxSteps)
          /\ [][IF Environment THEN StepsLeft' = StepsLeft
                ELSE StepsLeft' < StepsLeft]_vars
  <1>1. CountInv /\ CountInv' /\ [Next]_vars =>
          [IF Environment THEN StepsLeft' = StepsLeft ELSE StepsLeft' < StepsLeft]_vars
    BY StepAdvances, EnvironmentAdvancesNothing DEF Next
  <1> QED
    BY <1>1, Counts, StepsLeftBounded, Invariance, PTL DEF Spec
=============================================================================
