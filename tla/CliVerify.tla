------------------------------ MODULE CliVerify ------------------------------
(***************************************************************************)
(* `scc-verify verify`: _cmd_verify of cli.py around one call of verify(). *)
(*                                                                         *)
(* It checks its arguments, runs VerifyPipeline, validates the envelope    *)
(* against its own schema, writes it and turns the verdict into an exit    *)
(* code.  An exception that leaves main() exits with 1, as a verdict that  *)
(* is not accepted does.                                                   *)
(***************************************************************************)
EXTENDS VerifyPipeline, Integers

CONSTANT EnvelopeSchema   \* the file self_validate reads

ASSUME EnvelopeAssumption == EnvelopeSchema \in Files

VARIABLES
  cli,       \* where _cmd_verify is
  args,      \* its arguments, with what is found at the paths they name
  output,    \* what --out, or stdout, shows of the envelope
  exit,      \* the exit code, NoExit while it runs
  schemaRead \* history: the content of the schema of the self-check

cliVars == <<cli, args, output, exit, schemaRead>>
allVars == <<vars, cliVars>>

NoExit == -1

Arguments ==
  [scc : {"missing", "not_json", "json"},
   signing_key : {"none", "missing", "unreadable", "readable"},
   out : BOOLEAN,
   allow_incomplete_without_opa : BOOLEAN]

CliInit ==
  /\ Init
  /\ skip = FALSE
  /\ cli = "start"
  /\ args \in Arguments
  /\ output = "nothing"
  /\ exit = NoExit
  /\ schemaRead = Absent

Exit(code) ==
  /\ cli' = "exited"
  /\ exit' = code

\* A path that is not there is reported before anything is read.
PathMissing ==
  /\ cli = "start"
  /\ args.scc = "missing" \/ args.signing_key = "missing"
  /\ Exit(2)
  /\ UNCHANGED <<args, output, schemaRead>>

InputUnreadable ==
  /\ cli = "start"
  /\ args.scc # "missing" /\ args.signing_key # "missing"
  /\ args.scc = "not_json" \/ args.signing_key = "unreadable"
  /\ Exit(1)
  /\ UNCHANGED <<args, output, schemaRead>>

CallVerify ==
  /\ cli = "start"
  /\ args.scc = "json" /\ args.signing_key \in {"none", "readable"}
  /\ cli' = "verifying"
  /\ UNCHANGED <<args, output, exit, schemaRead>>

VerifyRaises ==
  /\ cli = "verifying"
  /\ pc = "raised"
  /\ Exit(1)
  /\ UNCHANGED <<args, output, schemaRead>>

\* Mutant: the envelope is written without the self-check's consent.
SelfCheckIgnored ==
  /\ cli = "verifying"
  /\ pc = "issued"
  /\ content[EnvelopeSchema] # Absent
  /\ schemaRead' = content[EnvelopeSchema]
  /\ cli' = "output"
  /\ UNCHANGED <<args, output, exit>>

\* self_validate: an edited envelope schema can accept or reject anything.
SelfCheck ==
  /\ cli = "verifying"
  /\ pc = "issued"
  /\ content[EnvelopeSchema] # Absent
  /\ schemaRead' = content[EnvelopeSchema]
  /\ \E valid \in IF content[EnvelopeSchema] = Shipped
                  THEN {EnvelopeIsValid(att)} ELSE BOOLEAN :
       IF valid THEN cli' = "output" /\ UNCHANGED exit ELSE Exit(3)
  /\ UNCHANGED <<args, output>>

EnvelopeSchemaUnreadable ==
  /\ cli = "verifying"
  /\ pc = "issued"
  /\ content[EnvelopeSchema] # Shipped
  /\ Exit(1)
  /\ UNCHANGED <<args, output, schemaRead>>

PrintEnvelope ==
  /\ cli = "output"
  /\ ~args.out
  /\ output' = "envelope"
  /\ cli' = "report"
  /\ UNCHANGED <<args, exit, schemaRead>>

\* Stdout takes a part of the envelope, or nothing, and refuses the rest.  (When
\* only the flush at the interpreter's exit fails the code is 120: 1 stands for
\* it.)
PrintFails ==
  /\ cli = "output"
  /\ ~args.out
  /\ output' = "truncated"
  /\ Exit(1)
  /\ UNCHANGED <<args, schemaRead>>

\* open("w") truncates what was at --out before anything is written.
OpenOut ==
  /\ cli = "output"
  /\ args.out
  /\ output' = "truncated"
  /\ cli' = "write"
  /\ UNCHANGED <<args, exit, schemaRead>>

OpenFails ==
  /\ cli = "output"
  /\ args.out
  /\ Exit(1)
  /\ UNCHANGED <<args, output, schemaRead>>

WriteOut ==
  /\ cli = "write"
  /\ output' = "envelope"
  /\ cli' = "report"
  /\ UNCHANGED <<args, exit, schemaRead>>

WriteFails ==
  /\ cli = "write"
  /\ Exit(1)
  /\ UNCHANGED <<args, output, schemaRead>>

-----------------------------------------------------------------------------
\* Mutant: why a check is incomplete is not looked at.
AnyIncompleteWithoutOpa(a) ==
  \E c \in CheckIds : a.checks[c].status = "INCOMPLETE"

\* _is_incomplete_without_opa
IsIncompleteWithoutOpa(a) ==
  LET incomplete == {c \in CheckIds : a.checks[c].status = "INCOMPLETE"}
  IN  /\ a.verdict = "INCOMPLETE"
      /\ incomplete # {}
      /\ \A c \in incomplete : a.checks[c].detail = "OPA binary not available"

ExitCode(a) ==
  IF \/ a.verdict \in PassClass
     \/ args.allow_incomplete_without_opa /\ IsIncompleteWithoutOpa(a)
  THEN 0 ELSE 1

Report ==
  /\ cli = "report"
  /\ Exit(ExitCode(att))
  /\ UNCHANGED <<args, output, schemaRead>>

\* A line about the written envelope or the verdict cannot be printed.
ReportFails ==
  /\ cli = "report"
  /\ Exit(1)
  /\ UNCHANGED <<args, output, schemaRead>>

CliStep ==
  \/ PathMissing \/ InputUnreadable \/ CallVerify \/ VerifyRaises
  \/ SelfCheck \/ EnvelopeSchemaUnreadable
  \/ PrintEnvelope \/ PrintFails \/ OpenOut \/ OpenFails \/ WriteOut \/ WriteFails
  \/ Report \/ ReportFails

VerifyStep ==
  /\ cli = "verifying"
  /\ OwnStep \/ OpaStep
  /\ UNCHANGED cliVars

CliNext ==
  \/ CliStep /\ UNCHANGED vars
  \/ VerifyStep
  \/ Environment /\ UNCHANGED cliVars

CliSpec == CliInit /\ [][CliNext]_allVars

CliFairSpec ==
  /\ CliSpec
  /\ WF_allVars(CliStep /\ UNCHANGED vars)
  /\ WF_allVars(cli = "verifying" /\ OwnStep /\ UNCHANGED cliVars)

-----------------------------------------------------------------------------
(* Properties.                                                             *)

CliTypeOK ==
  /\ TypeOK
  /\ cli \in {"start", "verifying", "output", "write", "report", "exited"}
  /\ args \in Arguments
  /\ output \in {"nothing", "truncated", "envelope"}
  /\ exit \in 0..3 \cup {NoExit}
  /\ schemaRead \in Content

\* A pipeline that gates on the exit code: 0 means that a whole envelope was
\* handed over and that every rule was evaluated without a FAIL, or that the
\* caller allowed exactly this, a call that found no OPA.
ExitZeroIsEarned ==
  exit = 0 /\ SawOnly(SccSchema, Shipped) =>
    /\ output = "envelope"
    /\ \A c \in CheckIds : att.checks[c].status # "FAIL"
    /\ \/ \A r \in Layer2Rules : att.checks[r].detail = "evaluated"
       \/ /\ args.allow_incomplete_without_opa
          /\ att.verdict = "INCOMPLETE"
          /\ \A r \in Layer2Rules : att.checks[r].detail = "OPA binary not available"

\* What reaches the output has been held against the envelope schema: its
\* statuses are known, so the five counts of its summary account for every
\* check, and its scc_id is a string.  An edited rule that answers with a
\* status nobody knows is stopped here, and only here.
OutputWasChecked ==
  output # "nothing" /\ schemaRead = Shipped =>
    /\ EnvelopeIsValid(att)
    /\ AddsUp(Summary(att.checks))

\* Every invocation ends with an exit code.
CliTerminates == <>(cli = "exited")
=============================================================================
