------------------------------ MODULE SccCorpus ------------------------------
(***************************************************************************)
(* The shipped test vectors: the documents under test_vectors/ as records  *)
(* of SccRules, and what the expected file of each declares.               *)
(***************************************************************************)
EXTENDS SccRules

\* test_vectors/known_good/ksa_to_foreign_processor_scc.json
GoodDocument ==
  [mapping |-> TRUE, scc_id |-> "well_formed", rule_bundle_required |-> "active",
   absent |-> {},
   template |-> Template("controller_to_processor", "CONTROLLER", "PROCESSOR"),
   roles |-> [exporter |-> "CONTROLLER", importer |-> "PROCESSOR"],
   exporter_hours |-> 24, sdaia_hours |-> 72,
   jurisdiction |-> "Kingdom of Saudi Arabia", dispute_forum |-> "Saudi courts",
   sensitive_categories_art18 |-> {"none"}, permitted |-> FALSE,
   rest_valid |-> TRUE, finite |-> TRUE]

ArbitrationForum ==
  [GoodDocument EXCEPT !.dispute_forum = "Saudi Center for Commercial Arbitration"]

MissingGoverningLaw ==
  [GoodDocument EXCEPT !.jurisdiction = "State of California",
                       !.dispute_forum = "California courts"]

\* Only rule_bundle_required and part of parties are left.
StructurallyMalformed ==
  [GoodDocument EXCEPT
     !.scc_id = "ill_formed", !.rest_valid = FALSE,
     !.absent = (MandatoryClauses \ {"parties"}) \cup {"scc_template"}]

SensitiveOnwardTransfer ==
  [GoodDocument EXCEPT !.sensitive_categories_art18 = {"health"}, !.permitted = TRUE]

NeedsCounselReview == GoodDocument

JudgmentRules == {"JUDGE-LIAB-001", "JUDGE-GOV-ACCESS-001", "JUDGE-INDEM-001"}

\* The rules the expected file of a vector names: those that must fail, those
\* that must ask for a human and, of Layer 2, those that must pass.
RequiredFails(name) ==
  CASE name = "arbitration_forum_without_counsel_basis" -> {"VAL-DISPUTE-FORUM"}
    [] name = "missing_governing_law" -> {"VAL-GOV-LAW", "VAL-DISPUTE-FORUM"}
    [] OTHER -> {}

RequiredReviews(name) ==
  CASE name = "sensitive_onward_transfer_needs_counsel" ->
         JudgmentRules \cup {"VAL-SENSITIVE-ROUTE"}
    [] name \in {"missing_governing_law", "structurally_malformed"} -> {}
    [] OTHER -> JudgmentRules

RequiredPasses(name) ==
  IF name = "ksa_to_foreign_processor_scc"
  THEN {"VAL-GOV-LAW", "VAL-DISPUTE-FORUM", "VAL-BREACH-EXPORTER",
        "VAL-BREACH-SDAIA", "VAL-SENSITIVE-ROUTE"}
  ELSE {}
=============================================================================
