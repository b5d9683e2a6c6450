------------------------------ MODULE SccVerify ------------------------------
(***************************************************************************)
(* verify() over the shipped schema and rules: VerifyPipeline composed     *)
(* with SccRules, whose Scc operators are the values its parameters get.   *)
(***************************************************************************)
EXTENDS VerifyPipeline, SccRules

\* The parameters are what the shipped bundle decides, for some of its rules.
ASSUME ShippedBundle ==
  /\ StructRule = "STRUCT-001"
  /\ RuleIds \subseteq {RULE_REGISTRY[i] : i \in 1..Len(RULE_REGISTRY)}
  /\ \A d \in Documents :
       /\ SchemaAccepts(d) <=> Conforms(d)
       /\ \A r \in RuleIds : RegoStatus(r, d) = RuleStatus(r, d)

\* Layer 1 decides at least what the registry's STRUCT-001 decides ("running
\* it through OPA too is a cheap consistency check against the schema",
\* rego_evaluator.py), so dropping its Rego result loses nothing.
Layer1CoversStruct001 ==
  Issued /\ edits = 0 /\ att.checks[StructRule].status = "PASS" =>
    RuleStatus("STRUCT-001", doc) = "PASS"

\* The verifier never makes counsel's judgement: under the shipped rules a
\* document that is evaluated and not failed goes to counsel, for a sensitive
\* route with onward transfers as for the judgment clauses.
CounselDecides ==
  Issued /\ edits = 0 /\ att.verdict \in PassClass =>
    /\ att.verdict = "PASS_WITH_COUNSEL_ITEMS"
    /\ \A r \in {"JUDGE-LIAB-001", "JUDGE-GOV-ACCESS-001", "JUDGE-INDEM-001"} :
         att.checks[r].status = "REQUIRES_HUMAN_REVIEW"
    /\ doc.sensitive_categories_art18 \cap {"health"} # {} /\ doc.permitted =>
         att.checks["VAL-SENSITIVE-ROUTE"].status = "REQUIRES_HUMAN_REVIEW"

\* The SDAIA window is decided by Layer 1 alone: its rule repeats the
\* schema's maximum, so no document ever fails it.
SdaiaWindowFailsInLayer1 ==
  Issued /\ edits = 0 => att.checks["VAL-BREACH-SDAIA"].status # "FAIL"

\* No document with a notification window beyond its limit gets a PASS, whoever
\* holds the limit: 72 hours for SDAIA is Layer 1's, 24 hours for the exporter
\* is the rule's alone, for the schema allows a week.
LateWindowsNeverPass ==
  Issued /\ edits = 0 /\ att.verdict \in PassClass =>
    doc.exporter_hours \in 1..24 /\ doc.sdaia_hours \in 1..72
=============================================================================
