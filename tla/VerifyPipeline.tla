--------------------------- MODULE VerifyPipeline ---------------------------
(***************************************************************************)
(* One call of api.verify(): Layer 1 (JSON schema), the rule-bundle match, *)
(* Layer 2 (one `opa eval` per registered rule), the bundle hash and the   *)
(* signed attestation, in the order the code takes them.                   *)
(*                                                                         *)
(* The call shares the file system with everybody else: between any two of *)
(* its steps a bundle file can be edited, removed or restored and the OPA  *)
(* binary can come and go.  `opa eval` itself can fail, or not return.     *)
(*                                                                         *)
(* What the shipped schema and rules decide is a parameter (SccRules gives *)
(* it in the checked instances): the module is about the order of steps.   *)
(***************************************************************************)
EXTENDS Verdicts, Sequences

CONSTANTS
  Documents,          \* the documents verify() can be called with
  Rules,              \* RULE_REGISTRY: a sequence of rule ids
  StructRule,         \* the registry's copy of Layer 1, "STRUCT-001"
  MatchCheck,         \* the id of the bundle check, "RULE-BUNDLE-MATCH"
  Files,              \* the files BUNDLE_GLOBS can match
  SccSchema,          \* the file Layer 1 reads
  RuleFiles,          \* the files every `opa eval` loads
  Absent,             \* the content of a file that is not there
  MaxEdits,           \* bound: changes made to the bundle during the call
  OpaMoves,           \* can the OPA binary come and go during the call
  IsMapping(_),       \* is the document a JSON object
  SchemaAccepts(_),   \* the verdict of the shipped schema
  BundleRequired(_),  \* its rule_bundle_required: "active", "other", "no_string"
  SccIdIsString(_),   \* is the scc_id the envelope gets a string
  Canonicalizable(_), \* can its canonical form, and so its hash, be computed
  RegoStatus(_, _)    \* the status the shipped rule returns, or "undefined"

RuleIds == {Rules[i] : i \in 1..Len(Rules)}

Layer2Rules == RuleIds \ {StructRule}

CheckIds == {StructRule, MatchCheck} \cup Layer2Rules

ASSUME RegistryAssumption ==
  /\ Rules \in Seq(RuleIds)
  /\ StructRule # MatchCheck
  /\ MatchCheck \notin RuleIds
  /\ Layer2Rules # {}

ASSUME FilesAssumption ==
  /\ IsFiniteSet(Files)
  /\ SccSchema \in Files
  /\ RuleFiles \subseteq Files \ {SccSchema}
  /\ Absent \notin Nat
  /\ MaxEdits \in Nat
  /\ OpaMoves \in BOOLEAN

\* The shipped schema requires rule_bundle_required and scc_id to be strings.
ASSUME SchemaAssumption ==
  \A d \in Documents :
    /\ SchemaAccepts(d) \in BOOLEAN
    /\ BundleRequired(d) \in {"active", "other", "no_string"}
    /\ SchemaAccepts(d) =>
         IsMapping(d) /\ BundleRequired(d) # "no_string" /\ SccIdIsString(d)

\* The shipped rules return a status of the envelope schema's list, if any.
ASSUME RulesAssumption ==
  \A d \in Documents, r \in RuleIds :
    RegoStatus(r, d) \in CheckStatus \cup {"undefined"}

\* A file's content is the number of the edit that wrote it; 0 as shipped.
Shipped == 0
Content == (0..MaxEdits) \cup {Absent}

VARIABLES
  pc,         \* where the call is
  doc,        \* the argument scc_document
  skip,       \* the argument skip_layer_2
  content,    \* the bundle files on disk
  edits,      \* how many changes were made to them
  envVar,     \* is SCC_OPA_BIN set
  bins,       \* which of the two OPA binaries are there: configured, on PATH
  opaBin,     \* the local opa_bin of evaluate_rules
  layer1,     \* layer_1_check
  match,      \* rule_bundle_check
  nextRule,   \* the rule to evaluate next, an index into Rules
  results,    \* the statuses evaluate_rules has collected
  layer2,     \* layer_2_checks
  unread,     \* files listed by compute_bundle_hash and not read yet
  manifest,   \* what it read, Absent for a file it did not list
  att,        \* the attestation verify() returned
  seen,       \* history: the contents of each file that checks were based on
  touched     \* history: the files changed since the call began

argVars == <<doc, skip, envVar>>
vars == <<pc, doc, skip, content, edits, envVar, bins, opaBin, layer1, match,
          nextRule, results, layer2, unread, manifest, att, seen, touched>>

Binaries == {"configured", "path"}
NoBinary == "none"
Unset == Check("UNSET", "unset")
NoResults == [r \in RuleIds |-> "UNSET"]
NoAttestation == [verdict |-> "NONE"]

\* The details of the placeholders for rules that were not evaluated.
SkippedDetails == {"caller requested skip_layer_2", "failed Layer 1",
                   "requires a different rule bundle"}
RaisedDetails == {"raised OpaNotFoundError", "raised FileNotFoundError",
                  "raised OSError", "raised CalledProcessError",
                  "raised TimeoutExpired", "raised RuntimeError",
                  "raised AttributeError"}
Details == {"schema", "bundle", "OPA binary not available", "evaluated"}
             \cup SkippedDetails \cup RaisedDetails

ResultStatus == CheckStatus \cup {UnknownStatus}
ChecksOk == [status : ResultStatus, detail : Details]

Checks ==
  [c \in CheckIds |-> IF c = StructRule THEN layer1
                      ELSE IF c = MatchCheck THEN match ELSE layer2[c]]

Placeholders(status, detail) == [r \in Layer2Rules |-> Check(status, detail)]

RulesAreShipped == \A f \in RuleFiles : content[f] = Shipped

-----------------------------------------------------------------------------
Init ==
  /\ pc = "schema"
  /\ doc \in Documents
  /\ skip \in BOOLEAN
  /\ content = [f \in Files |-> Shipped]
  /\ edits = 0
  /\ envVar \in BOOLEAN
  /\ bins \in SUBSET Binaries
  /\ opaBin = NoBinary
  /\ layer1 = Unset
  /\ match = Unset
  /\ nextRule = 1
  /\ results = NoResults
  /\ layer2 = [r \in Layer2Rules |-> Unset]
  /\ unread = {}
  /\ manifest = [f \in Files |-> Absent]
  /\ att = NoAttestation
  /\ seen = [f \in Files |-> {}]
  /\ touched = {}

\* An exception leaves verify(): no attestation is returned.
Raise ==
  /\ pc' = "raised"
  /\ UNCHANGED <<opaBin, layer1, match, nextRule, results, layer2, unread,
                 manifest, att, seen, touched>>

\* Layer 1.  An edited schema can accept or reject anything, or not be JSON.
ValidateSchema ==
  /\ pc = "schema"
  /\ content[SccSchema] # Absent
  /\ \E valid \in IF content[SccSchema] = Shipped
                  THEN {SchemaAccepts(doc)} ELSE BOOLEAN :
       layer1' = Check(IF valid THEN "PASS" ELSE "FAIL", "schema")
  /\ seen' = [seen EXCEPT ![SccSchema] = @ \cup {content[SccSchema]}]
  /\ touched' = {}
  /\ pc' = "bundle"
  /\ UNCHANGED <<argVars, content, edits, bins, opaBin, match, nextRule, results,
                 layer2, unread, manifest, att>>

SchemaUnreadable ==
  /\ pc = "schema"
  /\ content[SccSchema] # Shipped
  /\ Raise
  /\ UNCHANGED <<argVars, content, edits, bins>>

MatchStatus(required) ==
  CASE required = "active" -> "PASS"
    [] required = "other" -> "FAIL"
    [] required = "no_string" -> "NOT_APPLICABLE"

\* scc_document.get("rule_bundle_required"): the document must be a mapping.
MatchBundle ==
  /\ pc = "bundle"
  /\ IsMapping(doc)
  /\ match' = Check(MatchStatus(BundleRequired(doc)), "bundle")
  /\ pc' = "layer2"
  /\ UNCHANGED <<argVars, content, edits, bins, opaBin, layer1, nextRule, results,
                 layer2, unread, manifest, att, seen, touched>>

NotAMapping ==
  /\ pc = "bundle"
  /\ ~IsMapping(doc)
  /\ Raise
  /\ UNCHANGED <<argVars, content, edits, bins>>

-----------------------------------------------------------------------------
(* Layer 2.                                                                *)

\* Mutant: one placeholder for a skipped call, whatever the reason.
SkipReasonIncomplete ==
  Check("INCOMPLETE", "caller requested skip_layer_2")

\* Mutant: a rejected document leaves nothing to evaluate, and no verdict.
SkipReasonNotApplicable ==
  Check("NOT_APPLICABLE", "failed Layer 1")

SkipReason ==
  IF skip /\ layer1.status = "PASS" /\ match.status = "PASS"
  THEN Check("INCOMPLETE", "caller requested skip_layer_2")
  ELSE Check("NOT_APPLICABLE",
             IF layer1.status # "PASS" THEN "failed Layer 1"
             ELSE "requires a different rule bundle")

MustSkip == skip \/ layer1.status # "PASS" \/ match.status # "PASS"

SkipLayer2 ==
  /\ pc = "layer2"
  /\ MustSkip
  /\ layer2' = Placeholders(SkipReason.status, SkipReason.detail)
  /\ pc' = "list"
  /\ UNCHANGED <<argVars, content, edits, bins, opaBin, layer1, match, nextRule,
                 results, unread, manifest, att, seen, touched>>

\* find_opa: a configured binary that is not there is never replaced by the
\* one on PATH.
FoundOpa ==
  IF envVar THEN IF "configured" \in bins THEN "configured" ELSE NoBinary
  ELSE IF "path" \in bins THEN "path" ELSE NoBinary

\* The locals of evaluate_rules go with it.
LeaveEvaluation ==
  /\ opaBin' = NoBinary
  /\ nextRule' = 1
  /\ results' = NoResults

\* Mutant: the rules collected before the failure keep their results.
IncompleteKeepingResults(detail) ==
  /\ layer2' = [r \in Layer2Rules |->
                  IF results[r] # "UNSET" THEN Check(results[r], "evaluated")
                  ELSE Check("INCOMPLETE", detail)]
  /\ seen' = [f \in Files |-> IF f \in RuleFiles THEN {} ELSE seen[f]]
  /\ LeaveEvaluation
  /\ pc' = "list"
  /\ UNCHANGED <<argVars, content, edits, bins, layer1, match,
                 unread, manifest, att, touched>>

\* Mutant: a rule that could not run does not apply.
IncompleteIsNotApplicable(detail) ==
  /\ layer2' = Placeholders("NOT_APPLICABLE", detail)
  /\ seen' = [f \in Files |-> IF f \in RuleFiles THEN {} ELSE seen[f]]
  /\ LeaveEvaluation
  /\ pc' = "list"
  /\ UNCHANGED <<argVars, content, edits, bins, layer1, match,
                 unread, manifest, att, touched>>

\* Mutant: a placeholder with a status the envelope schema does not list.
IncompleteIsSkipped(detail) ==
  /\ layer2' = Placeholders(UnknownStatus, detail)
  /\ seen' = [f \in Files |-> IF f \in RuleFiles THEN {} ELSE seen[f]]
  /\ LeaveEvaluation
  /\ pc' = "list"
  /\ UNCHANGED <<argVars, content, edits, bins, layer1, match,
                 unread, manifest, att, touched>>

\* Every rule gets the same INCOMPLETE placeholder, and what was evaluated
\* before is dropped.
Incomplete(detail) ==
  /\ layer2' = Placeholders("INCOMPLETE", detail)
  /\ seen' = [f \in Files |-> IF f \in RuleFiles THEN {} ELSE seen[f]]
  /\ LeaveEvaluation
  /\ pc' = "list"
  /\ UNCHANGED <<argVars, content, edits, bins, layer1, match,
                 unread, manifest, att, touched>>

\* is_opa_available() answers False.
OpaNotAvailable ==
  /\ pc = "layer2"
  /\ ~MustSkip
  /\ FoundOpa = NoBinary
  /\ Incomplete("OPA binary not available")

\* is_opa_available() answers True; evaluate_rules looks for itself again.
OpaAvailable ==
  /\ pc = "layer2"
  /\ ~MustSkip
  /\ FoundOpa # NoBinary
  /\ pc' = "prepare"
  /\ UNCHANGED <<argVars, content, edits, bins, opaBin, layer1, match, nextRule,
                 results, layer2, unread, manifest, att, seen, touched>>

\* The first lines of evaluate_rules: find_opa and _rule_source_paths.
PrepareEvaluation ==
  /\ pc = "prepare"
  /\ FoundOpa # NoBinary
  /\ \A f \in RuleFiles : content[f] # Absent
  /\ opaBin' = FoundOpa
  /\ pc' = "evaluate"
  /\ UNCHANGED <<argVars, content, edits, bins, layer1, match, nextRule,
                 results, layer2, unread, manifest, att, seen, touched>>

PreparationFails ==
  /\ pc = "prepare"
  /\ \/ /\ FoundOpa = NoBinary
        /\ Incomplete("raised OpaNotFoundError")
     \/ /\ FoundOpa # NoBinary
        /\ \E f \in RuleFiles : content[f] = Absent
        /\ Incomplete("raised FileNotFoundError")

\* What a rule can return: the shipped rules decide, edited ones may give any
\* status (under their own id: a result that takes the id of another check is
\* left out).
PossibleResults(rule) ==
  IF RulesAreShipped THEN {RegoStatus(rule, doc)}
  ELSE ResultStatus \cup {"undefined"}

ReadRuleFiles ==
  [f \in Files |-> IF f \in RuleFiles THEN seen[f] \cup {content[f]} ELSE seen[f]]

\* `opa eval` returns the result of the next rule and it is collected.
EvaluateRule ==
  /\ pc = "evaluate"
  /\ nextRule \in 1..Len(Rules)
  /\ opaBin \in bins
  /\ \A f \in RuleFiles : content[f] # Absent
  /\ \E status \in PossibleResults(Rules[nextRule]) \ {"undefined"} :
       results' = [results EXCEPT ![Rules[nextRule]] = status]
  /\ nextRule' = nextRule + 1
  /\ seen' = ReadRuleFiles
  /\ UNCHANGED <<pc, argVars, content, edits, bins, opaBin, layer1, match,
                 layer2, unread, manifest, att, touched>>

\* _extract_result finds no value: the rule's result is undefined.  That of
\* an edited rule can also be no object, which _to_check_result cannot read.
RuleIsUndefined ==
  /\ pc = "evaluate"
  /\ nextRule \in 1..Len(Rules)
  /\ opaBin \in bins
  /\ \A f \in RuleFiles : content[f] # Absent
  /\ "undefined" \in PossibleResults(Rules[nextRule])
  /\ \E error \in IF RulesAreShipped THEN {"raised RuntimeError"}
                  ELSE {"raised RuntimeError", "raised AttributeError"} :
       Incomplete(error)

\* The binary that was found is not there any more.
OpaCannotStart ==
  /\ pc = "evaluate"
  /\ nextRule \in 1..Len(Rules)
  /\ opaBin \notin bins
  /\ Incomplete("raised OSError")

\* OPA exits with an error: for a rule file it cannot read or parse, or for
\* a reason of its own.
OpaFails ==
  /\ pc = "evaluate"
  /\ nextRule \in 1..Len(Rules)
  /\ opaBin \in bins
  /\ Incomplete("raised CalledProcessError")

\* Mutant: subprocess.run is called without a timeout.
OpaIsWaitedFor ==
  /\ FALSE
  /\ UNCHANGED vars

\* subprocess.run gives up after 30 seconds.
OpaTimesOut ==
  /\ pc = "evaluate"
  /\ nextRule \in 1..Len(Rules)
  /\ opaBin \in bins
  /\ Incomplete("raised TimeoutExpired")

\* Mutant: the loop stops one rule early.
CollectAllButLast ==
  /\ pc = "evaluate"
  /\ nextRule = Len(Rules)
  /\ layer2' = [r \in Layer2Rules |-> Check(results[r], "evaluated")]
  /\ LeaveEvaluation
  /\ pc' = "list"
  /\ UNCHANGED <<argVars, content, edits, bins, layer1, match,
                 unread, manifest, att, seen, touched>>

\* evaluate_rules returns; its STRUCT-001 is dropped.
CollectResults ==
  /\ pc = "evaluate"
  /\ nextRule = Len(Rules) + 1
  /\ layer2' = [r \in Layer2Rules |-> Check(results[r], "evaluated")]
  /\ LeaveEvaluation
  /\ pc' = "list"
  /\ UNCHANGED <<argVars, content, edits, bins, layer1, match,
                 unread, manifest, att, seen, touched>>

-----------------------------------------------------------------------------
(* The bundle hash and the signature.  A hash stands for what it commits   *)
(* to: the listed files, each with its content.                            *)

\* Mutant: the pattern for schemas/ is missing from BUNDLE_GLOBS.
ListRulesOnly ==
  /\ pc = "list"
  /\ Canonicalizable(doc)
  /\ \E f \in RuleFiles : content[f] # Absent
  /\ unread' = {f \in RuleFiles : content[f] # Absent}
  /\ pc' = "hash"
  /\ UNCHANGED <<argVars, content, edits, bins, opaBin, layer1, match, nextRule,
                 results, layer2, manifest, att, seen, touched>>

\* The document is hashed before the bundle is.
DocumentNotCanonical ==
  /\ pc = "list"
  /\ ~Canonicalizable(doc)
  /\ Raise
  /\ UNCHANGED <<argVars, content, edits, bins>>

\* _bundle_files: the files that are there now.
ListBundle ==
  /\ pc = "list"
  /\ Canonicalizable(doc)
  /\ \E f \in Files : content[f] # Absent
  /\ unread' = {f \in Files : content[f] # Absent}
  /\ pc' = "hash"
  /\ UNCHANGED <<argVars, content, edits, bins, opaBin, layer1, match, nextRule,
                 results, layer2, manifest, att, seen, touched>>

BundleIsEmpty ==
  /\ pc = "list"
  /\ Canonicalizable(doc)
  /\ \A f \in Files : content[f] = Absent
  /\ Raise
  /\ UNCHANGED <<argVars, content, edits, bins>>

\* One listed file is read; no property depends on the order.
HashFile(f) ==
  /\ pc = "hash"
  /\ f \in unread
  /\ content[f] # Absent
  /\ manifest' = [manifest EXCEPT ![f] = content[f]]
  /\ unread' = unread \ {f}
  /\ UNCHANGED <<pc, argVars, content, edits, bins, opaBin, layer1, match,
                 nextRule, results, layer2, att, seen, touched>>

\* A file that was listed is gone when its turn comes.
ListedFileIsGone(f) ==
  /\ pc = "hash"
  /\ f \in unread
  /\ content[f] = Absent
  /\ Raise
  /\ UNCHANGED <<argVars, content, edits, bins>>

Subject ==
  [scc_id |-> IF SccIdIsString(doc) THEN "string" ELSE "not_string",
   verdict |-> VerdictFromChecks(Checks),
   checks |-> Checks,
   manifest |-> manifest]

\* The subject is built and signed, with the key given or an ephemeral one.
Sign ==
  /\ pc = "hash"
  /\ unread = {}
  /\ att' = Subject
  /\ pc' = "issued"
  /\ UNCHANGED <<argVars, content, edits, bins, opaBin, layer1, match, nextRule,
                 results, layer2, unread, manifest, seen, touched>>

-----------------------------------------------------------------------------
(* The environment.                                                        *)

\* A bundle file is edited, removed, or put back as it was shipped.
ChangeFile(f) ==
  /\ edits < MaxEdits
  /\ \E c \in {edits + 1, Absent, Shipped} \ {content[f]} :
       content' = [content EXCEPT ![f] = c]
  /\ edits' = edits + 1
  /\ touched' = touched \cup {f}
  /\ UNCHANGED <<pc, argVars, bins, opaBin, layer1, match, nextRule, results,
                 layer2, unread, manifest, att, seen>>

\* An OPA binary is installed or removed.
MoveOpa(b) ==
  /\ OpaMoves
  /\ bins' = IF b \in bins THEN bins \ {b} ELSE bins \cup {b}
  /\ UNCHANGED <<pc, argVars, content, edits, opaBin, layer1, match, nextRule,
                 results, layer2, unread, manifest, att, seen, touched>>

\* The steps the process takes by itself, the timeout among them: only OPA
\* decides whether and how an evaluation ends before it.
OwnStep ==
  \/ ValidateSchema \/ SchemaUnreadable \/ MatchBundle \/ NotAMapping
  \/ SkipLayer2 \/ OpaNotAvailable \/ OpaAvailable
  \/ PrepareEvaluation \/ PreparationFails \/ OpaCannotStart \/ OpaTimesOut \/ CollectResults
  \/ DocumentNotCanonical \/ ListBundle \/ BundleIsEmpty
  \/ \E f \in Files : HashFile(f) \/ ListedFileIsGone(f)
  \/ Sign

OpaStep == EvaluateRule \/ RuleIsUndefined \/ OpaFails

Environment ==
  \/ \E f \in Files : ChangeFile(f)
  \/ \E b \in Binaries : MoveOpa(b)

Next == OwnStep \/ OpaStep \/ Environment

Spec == Init /\ [][Next]_vars

\* The process is scheduled; nothing is assumed of OPA or of the editors.
FairSpec == Spec /\ WF_vars(OwnStep)

-----------------------------------------------------------------------------
(* Properties.                                                             *)

Attestations ==
  [scc_id : {"string", "not_string"}, verdict : Verdict,
   checks : [CheckIds -> ChecksOk], manifest : [Files -> Content]]

TypeOK ==
  /\ pc \in {"schema", "bundle", "layer2", "prepare", "evaluate", "list",
             "hash", "issued", "raised"}
  /\ doc \in Documents
  /\ skip \in BOOLEAN
  /\ content \in [Files -> Content]
  /\ edits \in 0..MaxEdits
  /\ envVar \in BOOLEAN
  /\ bins \in SUBSET Binaries
  /\ opaBin \in Binaries \cup {NoBinary}
  /\ layer1 \in ChecksOk \cup {Unset}
  /\ match \in ChecksOk \cup {Unset}
  /\ nextRule \in 1..(Len(Rules) + 1)
  /\ results \in [RuleIds -> ResultStatus \cup {"UNSET"}]
  /\ layer2 \in [Layer2Rules -> ChecksOk \cup {Unset}]
  /\ unread \in SUBSET Files
  /\ manifest \in [Files -> Content]
  /\ att \in Attestations \cup {NoAttestation}
  /\ seen \in [Files -> SUBSET Content]
  /\ touched \in SUBSET Files

Issued == pc = "issued"

\* The contents every check of the attestation was based on.
SawOnly(f, c) == seen[f] \subseteq {c}

\* A verdict of the PASS class is backed by an evaluation of every Layer 2
\* rule, under the bundle the document requires: no skip, missing binary,
\* exception, timeout or mismatch can end in it, whatever happens to the rule
\* files and to OPA during the call.  It holds for a schema read as shipped:
\* that schema makes a NOT_APPLICABLE bundle check come with a FAIL.
PassIsBacked ==
  Issued /\ SawOnly(SccSchema, Shipped) /\ att.verdict \in PassClass =>
    /\ att.checks[StructRule].status = "PASS"
    /\ att.checks[MatchCheck].status = "PASS"
    /\ \A r \in Layer2Rules :
         /\ att.checks[r].detail = "evaluated"
         /\ att.checks[r].status \notin {"FAIL", "INCOMPLETE"}

\* Layer 2 is all or nothing: an evaluation that fails after some rules
\* leaves no mixture of evaluated rules and placeholders.
Layer2IsAllOrNothing ==
  Issued => \A r, s \in Layer2Rules : att.checks[r].detail = att.checks[s].detail

\* Whatever is not evaluated is answered for: NOT_APPLICABLE rules come with
\* the FAIL of the check that stopped them, INCOMPLETE ones never come with a
\* FAIL of Layer 1 or of the bundle match.
PlaceholdersAreExplained ==
  Issued /\ SawOnly(SccSchema, Shipped) =>
    \A r \in Layer2Rules :
      LET front == {att.checks[StructRule].status, att.checks[MatchCheck].status}
          check == att.checks[r]
      IN  /\ check.detail \in SkippedDetails /\ check.status = "NOT_APPLICABLE"
               => "FAIL" \in front
          /\ check.detail \notin {"evaluated"} /\ check.status = "INCOMPLETE"
               => front = {"PASS"}

\* On the shipped bundle an evaluation never ends in an undefined rule: the
\* schema requires all that the rules read ("the Rego rules would raise on
\* missing fields", api.py).
RulesAreTotalOnAcceptedDocuments ==
  Issued /\ edits = 0 =>
    \A r \in Layer2Rules : att.checks[r].detail # "raised RuntimeError"

\* A file nobody changes during the call is committed to as it was used: the
\* checks were based on the content whose hash the attestation carries.
UntouchedFilesAreCommitted ==
  Issued => \A f \in Files \ touched : SawOnly(f, att.manifest[f])

\* bundle.py: "every attestation must commit to the exact bundle content it
\* was evaluated under".  It does not when a file changes during the call.
CommitsToEvaluatedContent ==
  Issued => \A f \in Files : SawOnly(f, att.manifest[f])

\* What the envelope schema of an attestation asks for, as far as the model can
\* miss it: scc_id is a string, every status is known.
EnvelopeIsValid(a) ==
  /\ a.scc_id = "string"
  /\ \A c \in CheckIds : a.checks[c].status \in CheckStatus

\* tests/test_attestation_envelope.py: "every attestation emitted by verify()
\* must validate against the attestation envelope schema".  On the shipped
\* bundle it validates whatever became of Layer 2, but for one case: api.py
\* copies an scc_id that is no string, which only Layer 1 objects to.
InvalidOnlyForTheId ==
  Issued /\ edits = 0 =>
    /\ EnvelopeIsValid(att) <=> SccIdIsString(doc)
    /\ ~EnvelopeIsValid(att) => att.verdict = "FAIL"

\* Every call returns or raises: OPA may hang, the timeout ends the wait.
Termination == <>(pc \in {"issued", "raised"})

\* verify() keeps its promise: the call, seen from outside, is an answer of
\* VerifyPromise (that it comes is Termination).
Promise ==
  INSTANCE VerifyPromise WITH
    document <- doc, skip_layer_2 <- skip,
    disturbed <- edits > 0,
    answer <- IF pc = "issued" THEN att.verdict
              ELSE IF pc = "raised" THEN "raised" ELSE "none"

KeepsPromise == Promise!Spec

\* "Mark rules INCOMPLETE ... rather than killing the verify call" (api.py): on
\* an undisturbed bundle an evaluation that OPA does not begin, or breaks off
\* after any number of rules, ends with a verdict that a skipped one can have;
\* one that ends has the verdict of the rules.
BrokenOffIsAsSkipped ==
  Issued /\ edits = 0 =>
    IF \E r \in Layer2Rules : att.checks[r].detail = "evaluated"
    THEN Promise!Evaluable(doc) /\ ~skip /\ att.verdict = Promise!RulesVerdict(doc)
    ELSE att.verdict \in Promise!Promised(doc, TRUE)
=============================================================================
