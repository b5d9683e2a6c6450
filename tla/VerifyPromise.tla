---------------------------- MODULE VerifyPromise ----------------------------
(***************************************************************************)
(* What verify() promises its caller, after its docstring in api.py: which *)
(* verdicts a document can get.  No files, no OPA, no steps: a call is     *)
(* asked, its bundle may be disturbed, and it answers once or raises.      *)
(***************************************************************************)
EXTENDS Verdicts

CONSTANTS
  Layer2Rules,
  IsMapping(_), SchemaAccepts(_), BundleRequired(_), RegoStatus(_, _),
  Canonicalizable(_)

VARIABLES
  document,    \* whatever the caller passes
  skip_layer_2,
  disturbed,   \* was a bundle file changed during the call
  answer       \* "none" yet, a verdict, or "raised"

vars == <<document, skip_layer_2, disturbed, answer>>

Evaluable(d) == SchemaAccepts(d) /\ BundleRequired(d) = "active"

\* The verdict of a complete evaluation by the shipped rules.
RulesVerdict(d) ==
  LET statuses == {RegoStatus(r, d) : r \in Layer2Rules}
  IN  IF "FAIL" \in statuses THEN "FAIL"
      ELSE IF "INCOMPLETE" \in statuses THEN "INCOMPLETE"
      ELSE IF "REQUIRES_HUMAN_REVIEW" \in statuses THEN "PASS_WITH_COUNSEL_ITEMS"
      ELSE "PASS"

\* A broken document or another bundle fails, with or without Layer 2.  An
\* evaluation the caller skips is INCOMPLETE, and so is one that OPA cannot
\* complete; otherwise the rules decide.
Promised(d, skip) ==
  IF ~Evaluable(d) THEN {"FAIL"}
  ELSE IF skip THEN {"INCOMPLETE"}
  ELSE {"INCOMPLETE", RulesVerdict(d)}

Init ==
  /\ skip_layer_2 \in BOOLEAN
  /\ disturbed = FALSE
  /\ answer = "none"

Disturb ==
  /\ disturbed' = TRUE
  /\ UNCHANGED <<document, skip_layer_2, answer>>

Answer ==
  /\ answer = "none"
  /\ answer' \in IF disturbed THEN Verdict ELSE Promised(document, skip_layer_2)
  /\ UNCHANGED <<document, skip_layer_2, disturbed>>

\* An undisturbed call raises only for a document that is not an object or
\* has no canonical form.
Refuse ==
  /\ answer = "none"
  /\ disturbed \/ ~IsMapping(document) \/ ~Canonicalizable(document)
  /\ answer' = "raised"
  /\ UNCHANGED <<document, skip_layer_2, disturbed>>

Next == Disturb \/ Answer \/ Refuse

Spec == Init /\ [][Next]_vars
=============================================================================
