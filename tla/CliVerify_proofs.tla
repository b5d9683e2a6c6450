--------------------------- MODULE CliVerify_proofs ---------------------------
(***************************************************************************)
(* Proofs about CliVerify: the command keeps the invariant of the call it  *)
(* makes, and what it prints and exits with follows from that call, for    *)
(* every registry, every set of documents and every change to the files.   *)
(***************************************************************************)
EXTENDS CliVerify, VerifyPipeline_proofs, FiniteSetTheorems

Finished == cli \in {"output", "write", "report"} \/ output # "nothing"

\* Once the self-check has let the attestation through, the call is over and
\* the envelope is the one that was checked.
OutputInv ==
  /\ cli \in {"start", "verifying"} => output = "nothing"
  /\ Finished => /\ pc = "issued"
                 /\ schemaRead = Shipped => EnvelopeIsValid(att)

ExitInv ==
  /\ exit = NoExit <=> cli # "exited"
  /\ cli = "report" => output = "envelope"
  /\ exit = 0 => /\ pc = "issued"
                 /\ output = "envelope"
                 /\ ExitCode(att) = 0

CliIInv == IInv /\ CliTypeOK /\ OutputInv /\ ExitInv

-----------------------------------------------------------------------------
\* A call that has issued its attestation changes nothing more.
LEMMA IssuedIsFinal ==
  ASSUME TypeOK, pc = "issued", [Next]_vars
  PROVE  pc' = "issued" /\ att' = att
  BY DEF Next, OwnStep, OpaStep, Environment, ValidateSchema, SchemaUnreadable,
         MatchBundle, NotAMapping, SkipLayer2, OpaNotAvailable, OpaAvailable,
         PrepareEvaluation, PreparationFails, OpaCannotStart, OpaTimesOut,
         CollectResults, DocumentNotCanonical, ListBundle, BundleIsEmpty, HashFile,
         ListedFileIsGone, Sign, EvaluateRule, RuleIsUndefined, OpaFails,
         ChangeFile, MoveOpa, vars

\* Seen from the call, every step of the command is one of its own steps.
LEMMA CliStepIsCallStep == [CliNext]_allVars => [Next]_vars
  BY DEF CliNext, VerifyStep, Next, allVars, vars

\* The command makes one call of verify(), and that call keeps to its
\* specification: what is proved of every call holds of the one in it.
THEOREM CommandRunsOneCall == CliSpec => Spec
  <1>1. CliInit => Init
    BY DEF CliInit
  <1> QED
    BY <1>1, CliStepIsCallStep, PTL DEF CliSpec, Spec

\* So the call in the command answers as verify() promises.
THEOREM CommandKeepsPromise == CliSpec => KeepsPromise
  BY CommandRunsOneCall, ImplementsPromise, PTL

LEMMA CliInvInit == CliInit => CliIInv
  <1> SUFFICES ASSUME CliInit PROVE CliIInv
    OBVIOUS
  <1>1. IInv
    BY InvInit DEF CliInit
  <1>2. CliTypeOK
    BY <1>1, ContentTyped DEF CliInit, CliTypeOK, IInv
  <1>3. OutputInv /\ ExitInv
    BY DEF CliInit, OutputInv, Finished, ExitInv, NoExit
  <1> QED
    BY <1>1, <1>2, <1>3 DEF CliIInv

\* The steps of the command itself.
LEMMA CommandStep ==
  ASSUME CliIInv, CliStep, UNCHANGED vars, IInv'
  PROVE  CliIInv'
  <1> USE DEF CliIInv
  <1>1. pc' = pc /\ att' = att /\ content \in [Files -> Content]
    BY DEF vars, IInv, TypeOK
  <1>2. ExitCode(att) \in 0..1
    BY DEF ExitCode
  <1>3. CASE PathMissing \/ InputUnreadable \/ VerifyRaises \/ EnvelopeSchemaUnreadable
             \/ OpenFails \/ WriteFails \/ ReportFails
    <2>1. /\ cli' = "exited" /\ exit' \in 1..3 /\ cli # "exited"
          /\ UNCHANGED <<args, output, schemaRead>>
      BY <1>3 DEF PathMissing, InputUnreadable, VerifyRaises, EnvelopeSchemaUnreadable,
                  OpenFails, WriteFails, ReportFails, Exit
    <2>2. CliTypeOK'
      BY <2>1 DEF CliTypeOK, IInv
    <2>3. OutputInv'
      BY <1>1, <2>1 DEF OutputInv, Finished, EnvelopeIsValid
    <2>4. ExitInv'
      BY <1>1, <2>1 DEF ExitInv, NoExit
    <2> QED
      BY <2>2, <2>3, <2>4
  <1>4. CASE CallVerify
    <2>1. CliTypeOK'
      BY <1>4 DEF CallVerify, CliTypeOK, IInv
    <2>2. OutputInv'
      BY <1>1, <1>4 DEF CallVerify, OutputInv, Finished, EnvelopeIsValid
    <2>3. ExitInv'
      BY <1>1, <1>4 DEF CallVerify, ExitInv, NoExit
    <2> QED
      BY <2>1, <2>2, <2>3
  <1>5. CASE SelfCheck
    <2>1. /\ pc = "issued" /\ schemaRead' = content[EnvelopeSchema]
          /\ UNCHANGED <<args, output>> /\ cli = "verifying" /\ exit = NoExit
      BY <1>5 DEF SelfCheck, ExitInv
    <2>2. PICK valid \in IF content[EnvelopeSchema] = Shipped
                         THEN {EnvelopeIsValid(att)} ELSE BOOLEAN :
            IF valid THEN cli' = "output" /\ UNCHANGED exit ELSE Exit(3)
      BY <1>5 DEF SelfCheck
    <2>3. \/ cli' = "output" /\ exit' = NoExit
             /\ (schemaRead' = Shipped => EnvelopeIsValid(att))
          \/ cli' = "exited" /\ exit' = 3
      BY <2>1, <2>2 DEF Exit
    <2>4. schemaRead' \in Content
      BY <1>1, <2>1, EnvelopeAssumption
    <2>5. CliTypeOK'
      BY <2>1, <2>3, <2>4 DEF CliTypeOK, IInv
    <2>6. output = "nothing"
      BY <2>1 DEF OutputInv
    <2>7. OutputInv'
      BY <1>1, <2>1, <2>3, <2>6 DEF OutputInv, Finished, EnvelopeIsValid
    <2>8. ExitInv'
      BY <1>1, <2>1, <2>3 DEF ExitInv, NoExit
    <2> QED
      BY <2>5, <2>7, <2>8
  <1>6. CASE PrintEnvelope \/ OpenOut \/ WriteOut
    <2>1. /\ Finished /\ cli # "exited" /\ cli' \in {"report", "write"}
          /\ (cli' = "report" => output' = "envelope")
          /\ output' \in {"envelope", "truncated"}
          /\ UNCHANGED <<args, exit, schemaRead>>
      BY <1>6 DEF PrintEnvelope, OpenOut, WriteOut, Finished
    <2>2. CliTypeOK'
      BY <2>1 DEF CliTypeOK, IInv
    <2>3. OutputInv'
      BY <1>1, <2>1 DEF OutputInv, EnvelopeIsValid
    <2>4. ExitInv'
      BY <1>1, <2>1 DEF ExitInv, NoExit
    <2> QED
      BY <2>2, <2>3, <2>4
  <1>7. CASE Report
    <2>1. /\ cli = "report" /\ cli' = "exited" /\ exit' = ExitCode(att)
          /\ UNCHANGED <<args, output, schemaRead>>
      BY <1>7 DEF Report, Exit
    <2>2. CliTypeOK'
      BY <1>2, <2>1 DEF CliTypeOK, IInv
    <2>3. Finished /\ OutputInv'
      BY <1>1, <2>1 DEF OutputInv, Finished, EnvelopeIsValid
    <2>4. ExitCode(att)' = ExitCode(att)
      BY <1>1, <2>1 DEF ExitCode, IsIncompleteWithoutOpa
    <2>5. ExitInv'
      BY <1>1, <1>2, <2>1, <2>3, <2>4 DEF ExitInv, NoExit, OutputInv
    <2> QED
      BY <2>2, <2>3, <2>5
  <1>8. CASE PrintFails
    <2>1. /\ cli = "output" /\ cli' = "exited" /\ exit' = 1 /\ output' = "truncated"
          /\ UNCHANGED <<args, schemaRead>>
      BY <1>8 DEF PrintFails, Exit
    <2>2. CliTypeOK'
      BY <2>1 DEF CliTypeOK, IInv
    <2>3. OutputInv'
      BY <1>1, <2>1 DEF OutputInv, Finished, EnvelopeIsValid
    <2>4. ExitInv'
      BY <1>1, <2>1 DEF ExitInv, NoExit
    <2> QED
      BY <2>2, <2>3, <2>4
  <1> QED
    BY <1>3, <1>4, <1>5, <1>6, <1>7, <1>8 DEF CliStep

\* The steps of the call, of OPA and of the editors, while the command waits.
LEMMA CallStep ==
  ASSUME CliIInv, [Next]_vars, UNCHANGED cliVars, IInv'
  PROVE  CliIInv'
  <1> USE DEF CliIInv, cliVars
  <1>1. pc = "issued" => pc' = "issued" /\ att' = att
    BY IssuedIsFinal DEF IInv
  <1>2. CliTypeOK'
    BY DEF CliTypeOK, IInv
  <1>3. OutputInv'
    BY <1>1 DEF OutputInv, Finished, EnvelopeIsValid
  <1>4. ExitInv'
    <2>1. pc = "issued" => ExitCode(att)' = ExitCode(att)
      BY <1>1 DEF ExitCode, IsIncompleteWithoutOpa
    <2> QED
      BY <1>1, <2>1 DEF ExitInv
  <1> QED
    BY <1>2, <1>3, <1>4

LEMMA CliInvStep == CliIInv /\ [CliNext]_allVars => CliIInv'
  <1> SUFFICES ASSUME CliIInv, [CliNext]_allVars PROVE CliIInv'
    OBVIOUS
  <1>1. [Next]_vars
    BY CliStepIsCallStep
  <1>2. IInv'
    BY <1>1, InvStep DEF CliIInv
  <1>3. CASE CliStep /\ UNCHANGED vars
    BY <1>2, <1>3, CommandStep
  <1>4. CASE UNCHANGED cliVars
    BY <1>1, <1>2, <1>4, CallStep
  <1> QED
    BY <1>3, <1>4 DEF CliNext, VerifyStep, allVars

\* What every reachable state of the command satisfies.
THEOREM CliInvariance == CliSpec => []CliIInv
  BY CliInvInit, CliInvStep, PTL DEF CliSpec

\* Every variable of the command and of its call keeps its type.
THEOREM CliTypeCorrect == CliSpec => []CliTypeOK
  <1>1. CliIInv => CliTypeOK
    BY DEF CliIInv
  <1> QED
    BY <1>1, CliInvariance, PTL

-----------------------------------------------------------------------------
(* What exit code 0 means.                                                 *)

\* An attestation that is INCOMPLETE only because no OPA was found says so of
\* every Layer 2 rule.
LEMMA OnlyOpaWasMissing ==
  ASSUME IInv, Issued, IsIncompleteWithoutOpa(att)
  PROVE  /\ \A c \in CheckIds : att.checks[c].status # "FAIL"
         /\ \A r \in Layer2Rules : att.checks[r].detail = "OPA binary not available"
  <1>1. att = Subject /\ pc = "issued" /\ PastBundle
    BY DEF IInv, Issued, AttInv, PastBundle
  <1>2. att.checks = Checks /\ att.verdict = VerdictFromChecks(Checks)
    BY <1>1 DEF Subject
  <1>3. ~HasStatus(Checks, "FAIL")
    BY <1>2 DEF IsIncompleteWithoutOpa, VerdictFromChecks
  <1>4. \A c \in CheckIds : Checks[c].status # "FAIL"
    BY <1>3, ChecksOf DEF HasStatus
  <1>5. PICK c \in CheckIds : Checks[c].status = "INCOMPLETE"
                              /\ Checks[c].detail = "OPA binary not available"
    BY <1>2 DEF IsIncompleteWithoutOpa
  <1>6. layer1.detail = "schema" /\ match.detail = "bundle"
    BY <1>1 DEF IInv, FrontInv, Check
  <1>7. c \in Layer2Rules
    BY <1>5, <1>6, ChecksOf DEF CheckIds
  <1>8. \A r \in Layer2Rules : att.checks[r].detail = att.checks[c].detail
    BY <1>7, AllOrNothing DEF Layer2IsAllOrNothing
  <1> QED
    BY <1>2, <1>4, <1>5, <1>8

LEMMA ExitZeroEarned == CliIInv => ExitZeroIsEarned
  <1> SUFFICES ASSUME CliIInv, exit = 0, SawOnly(SccSchema, Shipped)
               PROVE  ExitZeroIsEarned
    BY DEF ExitZeroIsEarned
  <1>1. Issued /\ output = "envelope" /\ ExitCode(att) = 0 /\ IInv
    BY DEF CliIInv, ExitInv, Issued
  <1>2. CASE att.verdict \in PassClass
    <2>1. \A r \in Layer2Rules : att.checks[r].detail = "evaluated"
      BY <1>1, <1>2, PassBacked DEF PassIsBacked
    <2>2. att.checks = Checks /\ att.verdict = VerdictFromChecks(Checks)
      BY <1>1 DEF IInv, AttInv, Issued, Subject
    <2>3. \A c \in CheckIds : att.checks[c].status # "FAIL"
      BY <1>2, <2>2, VerdictOfPassClass, ChecksOf
    <2> QED
      BY <1>1, <2>1, <2>3 DEF ExitZeroIsEarned
  <1>3. CASE att.verdict \notin PassClass
    <2>1. args.allow_incomplete_without_opa /\ IsIncompleteWithoutOpa(att)
      BY <1>1, <1>3 DEF ExitCode
    <2> QED
      BY <1>1, <2>1, OnlyOpaWasMissing DEF ExitZeroIsEarned, IsIncompleteWithoutOpa
  <1> QED
    BY <1>2, <1>3

\* Exit code 0 is earned in every reachable state: all rules evaluated
\* without a FAIL, or the allowed call that found no OPA.
THEOREM ExitZeroEarnedAlways == CliSpec => []ExitZeroIsEarned
  BY ExitZeroEarned, CliInvariance, PTL

-----------------------------------------------------------------------------
(* What the self-check guarantees of the output.                           *)

LEMMA CheckIdsFinite == IsFiniteSet(CheckIds)
  <1> DEFINE n == Len(Rules)
  <1>1. n \in Nat /\ IsFiniteSet(1..n)
    BY RulesLength, FS_Interval
  <1>2. [i \in 1..n |-> Rules[i]] \in Surjection(1..n, RuleIds)
    BY DEF Surjection, RuleIds
  <1>3. IsFiniteSet(RuleIds)
    BY <1>1, <1>2, FS_Surjection
  <1>4. IsFiniteSet(Layer2Rules)
    BY <1>3, FS_Subset DEF Layer2Rules
  <1>5. IsFiniteSet({StructRule}) /\ IsFiniteSet({MatchCheck})
    BY FS_Singleton
  <1>6. IsFiniteSet({StructRule, MatchCheck})
    <2>1. {StructRule, MatchCheck} = {StructRule} \cup {MatchCheck}
      OBVIOUS
    <2> QED
      BY <1>5, <2>1, FS_Union
  <1> QED
    BY <1>4, <1>6, FS_Union DEF CheckIds

\* Two parts of a finite set that share nothing.
LEMMA TwoParts ==
  ASSUME NEW S, IsFiniteSet(S), NEW A \in SUBSET S, NEW B \in SUBSET S, A \cap B = {}
  PROVE  Cardinality(A \cup B) = Cardinality(A) + Cardinality(B)
  <1>1. IsFiniteSet(A) /\ IsFiniteSet(B)
    BY FS_Subset
  <1>2. Cardinality(A \cap B) = 0
    BY FS_EmptySet
  <1>3. Cardinality(A) \in Nat /\ Cardinality(B) \in Nat
    BY <1>1, FS_CardinalityType
  <1>4. Cardinality(A \cup B) = Cardinality(A) + Cardinality(B) - Cardinality(A \cap B)
    BY <1>1, FS_Union
  <1> QED
    BY <1>2, <1>3, <1>4

\* Checks whose statuses are all known are counted once each.
LEMMA SummaryAddsUp ==
  ASSUME NEW checks, IsFiniteSet(DOMAIN checks),
         \A c \in DOMAIN checks : checks[c].status \in CheckStatus
  PROVE  AddsUp(Summary(checks))
  <1> DEFINE S == DOMAIN checks
             Of(s) == {c \in S : checks[c].status = s}
             P == Of("PASS")
             F == Of("FAIL")
             H == Of("REQUIRES_HUMAN_REVIEW")
             N == Of("NOT_APPLICABLE")
             I == Of("INCOMPLETE")
  <1>1. \A s \in CheckStatus : Cardinality(Of(s)) \in Nat
    BY FS_Subset, FS_CardinalityType
  <1>2. S = (((P \cup F) \cup H) \cup N) \cup I
    BY DEF CheckStatus
  <1>3. Cardinality(P \cup F) = Cardinality(P) + Cardinality(F)
    BY TwoParts
  <1>4. Cardinality((P \cup F) \cup H) = Cardinality(P \cup F) + Cardinality(H)
    <2>1. (P \cup F) \cap H = {}
      OBVIOUS
    <2> QED
      BY <2>1, TwoParts
  <1>5. Cardinality(((P \cup F) \cup H) \cup N)
          = Cardinality((P \cup F) \cup H) + Cardinality(N)
    <2>1. ((P \cup F) \cup H) \cap N = {}
      OBVIOUS
    <2> QED
      BY <2>1, TwoParts
  <1>6. Cardinality(S) = Cardinality(((P \cup F) \cup H) \cup N) + Cardinality(I)
    <2>1. (((P \cup F) \cup H) \cup N) \cap I = {}
      OBVIOUS
    <2> QED
      BY <1>2, <2>1, TwoParts
  <1>7. Cardinality(S) = Cardinality(P) + Cardinality(F) + Cardinality(H)
                           + Cardinality(N) + Cardinality(I)
    BY <1>1, <1>3, <1>4, <1>5, <1>6 DEF CheckStatus
  <1> QED
    BY <1>7 DEF AddsUp, Summary, CountOf

LEMMA OutputChecked == CliIInv => OutputWasChecked
  <1> SUFFICES ASSUME CliIInv, output # "nothing", schemaRead = Shipped
               PROVE  EnvelopeIsValid(att) /\ AddsUp(Summary(att.checks))
    BY DEF OutputWasChecked
  <1>1. pc = "issued" /\ EnvelopeIsValid(att)
    BY DEF CliIInv, OutputInv, Finished
  <1>2. att.checks = Checks /\ DOMAIN att.checks = CheckIds
    BY <1>1, ChecksOf DEF CliIInv, IInv, AttInv, Subject
  <1>3. \A c \in DOMAIN att.checks : att.checks[c].status \in CheckStatus
    BY <1>1, <1>2 DEF EnvelopeIsValid
  <1> QED
    BY <1>1, <1>2, <1>3, CheckIdsFinite, SummaryAddsUp

\* What reaches the output is valid and its summary counts every check, in
\* every reachable state, when the self-check read the shipped schema.
THEOREM OutputCheckedAlways == CliSpec => []OutputWasChecked
  BY OutputChecked, CliInvariance, PTL

-----------------------------------------------------------------------------
(* The command is over after a bounded number of steps, too.               *)

OwnStepsLeft ==
  IF cli = "start" THEN 5 ELSE IF cli = "verifying" THEN 4
  ELSE IF cli = "output" THEN 3 ELSE IF cli = "write" THEN 2
  ELSE IF cli = "report" THEN 1 ELSE 0

CliStepsLeft == StepsLeft + OwnStepsLeft

Bounded == CountInv /\ MaxSteps \in Nat /\ StepsLeft \in 0..MaxSteps

LEMMA CallIsBounded == IInv => Bounded
  BY Counts, StepsLeftBounded DEF MaxSteps, CountInv, Bounded

LEMMA OwnStepsBounded == OwnStepsLeft \in 0..5
  BY DEF OwnStepsLeft

LEMMA CliStepAdvances == CliStep => OwnStepsLeft' < OwnStepsLeft
  <1>1. CASE PathMissing \/ InputUnreadable \/ CallVerify
    BY <1>1 DEF PathMissing, InputUnreadable, CallVerify, Exit, OwnStepsLeft
  <1>2. CASE VerifyRaises \/ SelfCheck \/ EnvelopeSchemaUnreadable
    BY <1>2 DEF VerifyRaises, SelfCheck, EnvelopeSchemaUnreadable, Exit, OwnStepsLeft
  <1>3. CASE \/ PrintEnvelope \/ PrintFails \/ OpenOut \/ OpenFails \/ WriteOut \/ WriteFails
             \/ Report \/ ReportFails
    BY <1>3
    DEF PrintEnvelope, PrintFails, OpenOut, OpenFails, WriteOut, WriteFails, Report,
        ReportFails, Exit, OwnStepsLeft
  <1> QED
    BY <1>1, <1>2, <1>3 DEF CliStep

LEMMA SumOfLess ==
  \A a, b, c, d \in Nat : (c < a /\ d = b) \/ (c = a /\ d < b) => c + d < a + b
  OBVIOUS

LEMMA CommandAdvances ==
  Bounded /\ Bounded' /\ ((CliStep /\ UNCHANGED vars) \/ VerifyStep)
    => CliStepsLeft' < CliStepsLeft
  <1> SUFFICES ASSUME Bounded, Bounded', (CliStep /\ UNCHANGED vars) \/ VerifyStep
               PROVE  CliStepsLeft' < CliStepsLeft
    OBVIOUS
  <1>1. /\ StepsLeft \in Nat /\ StepsLeft' \in Nat
        /\ OwnStepsLeft \in Nat /\ OwnStepsLeft' \in Nat
    BY DEF Bounded, OwnStepsLeft
  <1>2. CASE CliStep /\ UNCHANGED vars
    <2>1. StepsLeft' = StepsLeft
      BY <1>2 DEF vars, StepsLeft
    <2>2. OwnStepsLeft' < OwnStepsLeft
      BY <1>2, CliStepAdvances
    <2> QED
      BY <1>1, <2>1, <2>2, SumOfLess, Zenon DEF CliStepsLeft
  <1>3. CASE VerifyStep
    <2>1. StepsLeft' < StepsLeft
      BY <1>3, StepAdvances DEF VerifyStep, Bounded
    <2>2. OwnStepsLeft' = OwnStepsLeft
      BY <1>3 DEF VerifyStep, cliVars, OwnStepsLeft
    <2> QED
      BY <1>1, <2>1, <2>2, SumOfLess, Zenon DEF CliStepsLeft
  <1> QED
    BY <1>2, <1>3

\* Whatever goes wrong with its inputs, the call, the self-check or the
\* output, the command never goes back: it ends within the steps of its call
\* and five of its own, unless it waits.
THEOREM CommandsAreBounded ==
  CliSpec => /\ [](CliStepsLeft \in 0..(MaxSteps + 5))
             /\ [][(CliStep /\ UNCHANGED vars) \/ VerifyStep
                     => CliStepsLeft' < CliStepsLeft]_allVars
             /\ [][Environment /\ UNCHANGED cliVars
                     => CliStepsLeft' = CliStepsLeft]_allVars
  <1>1. Bounded => CliStepsLeft \in 0..(MaxSteps + 5)
    BY OwnStepsBounded DEF Bounded, CliStepsLeft
  <1>2. Bounded /\ Bounded' /\ [CliNext]_allVars =>
          [(CliStep /\ UNCHANGED vars) \/ VerifyStep => CliStepsLeft' < CliStepsLeft]_allVars
    BY CommandAdvances
  <1>3. [CliNext]_allVars =>
          [Environment /\ UNCHANGED cliVars => CliStepsLeft' = CliStepsLeft]_allVars
    BY EnvironmentAdvancesNothing DEF CliStepsLeft, OwnStepsLeft, cliVars
  <1>4. CliIInv => Bounded
    BY CallIsBounded DEF CliIInv
  <1> QED
    BY <1>1, <1>2, <1>3, <1>4, CliInvariance, PTL DEF CliSpec
=============================================================================
