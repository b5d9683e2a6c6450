------------------------------ MODULE Verdicts ------------------------------
(***************************************************************************)
(* Check results and the verdict composed from them: models.py,            *)
(* verdict_from_checks and AttestationSubject.summary of api.py.           *)
(*                                                                         *)
(* A check is a record of its status and of the reason its detail names.   *)
(* The checks of an attestation are a function from check ids to checks:   *)
(* the ids are unique in a shipped bundle and nothing reads their order.   *)
(* Display texts, observed values and counsel fields are left out.         *)
(***************************************************************************)
EXTENDS Naturals, FiniteSets

CheckStatus ==
  {"PASS", "FAIL", "REQUIRES_HUMAN_REVIEW", "NOT_APPLICABLE", "INCOMPLETE"}

\* A rule file edited on disk can return any string as its status, and
\* _to_check_result stores it unchecked: one string stands for all of them.
UnknownStatus == "UNKNOWN_STATUS"

Verdict == {"PASS", "FAIL", "PASS_WITH_COUNSEL_ITEMS", "INCOMPLETE"}

PassClass == {"PASS", "PASS_WITH_COUNSEL_ITEMS"}

Check(status, detail) == [status |-> status, detail |-> detail]

HasStatus(checks, status) == \E c \in DOMAIN checks : checks[c].status = status

-----------------------------------------------------------------------------
\* Mutant: a check that needs counsel outranks one that failed.
VerdictReviewFirst(checks) ==
  IF HasStatus(checks, "INCOMPLETE") THEN "INCOMPLETE"
  ELSE IF HasStatus(checks, "REQUIRES_HUMAN_REVIEW") THEN "PASS_WITH_COUNSEL_ITEMS"
  ELSE IF HasStatus(checks, "FAIL") THEN "FAIL"
  ELSE "PASS"

VerdictFromChecks(checks) ==
  IF HasStatus(checks, "FAIL") THEN "FAIL"
  ELSE IF HasStatus(checks, "INCOMPLETE") THEN "INCOMPLETE"
  ELSE IF HasStatus(checks, "REQUIRES_HUMAN_REVIEW") THEN "PASS_WITH_COUNSEL_ITEMS"
  ELSE "PASS"

CountOf(checks, status) ==
  Cardinality({c \in DOMAIN checks : checks[c].status = status})

Summary(checks) ==
  [total_rules |-> Cardinality(DOMAIN checks),
   passed |-> CountOf(checks, "PASS"),
   failed |-> CountOf(checks, "FAIL"),
   requires_human_review |-> CountOf(checks, "REQUIRES_HUMAN_REVIEW"),
   not_applicable |-> CountOf(checks, "NOT_APPLICABLE"),
   incomplete |-> CountOf(checks, "INCOMPLETE")]

\* The five counts account for every check.
AddsUp(summary) ==
  summary.total_rules = summary.passed + summary.failed
    + summary.requires_human_review + summary.not_applicable + summary.incomplete
=============================================================================
