------------------------------ MODULE SccRules ------------------------------
(***************************************************************************)
(* What the shipped bundle decides about an SCC document: the JSON schema  *)
(* schemas/scc-canonical-v1.json and the Rego rules under rules/.          *)
(*                                                                         *)
(* A document is a record that keeps what the two layers tell apart:       *)
(*   mapping               is the JSON value an object at all              *)
(*   scc_id                "well_formed", "ill_formed" (a string that does *)
(*                         not match the pattern), "not_string", "missing" *)
(*   rule_bundle_required  "active", "other" (another string),             *)
(*                         "not_string", "missing"                         *)
(*   absent                the paths, among Paths, that it lacks           *)
(*   template              the declared role template                      *)
(*   roles                 the roles of the two parties                    *)
(*   exporter_hours, sdaia_hours, jurisdiction, dispute_forum,             *)
(*   sensitive_categories_art18, permitted      as in the document         *)
(*   rest_valid            does every other value satisfy the schema       *)
(*   finite                are all its numbers finite: NaN can be loaded   *)
(* A value under an absent path is not read.                               *)
(***************************************************************************)
EXTENDS Integers, Sequences

\* The clauses rules/structural/mandatory_clauses.rego looks for.
MandatoryClauses ==
  {"parties", "subject_matter", "obligations", "data_subject_rights",
   "security", "breach_notification", "onward_transfers", "audit_rights",
   "governing_law", "term", "liability", "annex_a_tra", "annex_b_toms_ref",
   "annex_c_subprocessors", "signatures"}

\* The required members that some rule reads, with the clause they are in.
ClauseOf ==
  [path \in {"jurisdiction", "dispute_forum", "exporter_notification_window_hours",
             "sdaia_notification_window_hours", "permitted",
             "sensitive_categories_art18"} |->
     CASE path \in {"jurisdiction", "dispute_forum"} -> "governing_law"
       [] path \in {"exporter_notification_window_hours",
                    "sdaia_notification_window_hours"} -> "breach_notification"
       [] path = "permitted" -> "onward_transfers"
       [] path = "sensitive_categories_art18" -> "subject_matter"]

Paths == MandatoryClauses \cup {"scc_template"} \cup DOMAIN ClauseOf

Has(doc, path) ==
  /\ path \notin doc.absent
  /\ path \in DOMAIN ClauseOf => ClauseOf[path] \notin doc.absent

-----------------------------------------------------------------------------
(* Layer 1: schemas/scc-canonical-v1.json.                                 *)

Template(id, exporter, importer) ==
  [template_id |-> id, exporter_role |-> exporter, importer_role |-> importer]

\* The role pair each template fixes, in scc_template and in parties.
TemplatePairs ==
  {Template("controller_to_controller", "CONTROLLER", "CONTROLLER"),
   Template("controller_to_processor", "CONTROLLER", "PROCESSOR"),
   Template("processor_to_processor", "PROCESSOR", "SUB_PROCESSOR"),
   Template("processor_to_controller", "PROCESSOR", "CONTROLLER")}

RolesFit(doc) ==
  /\ doc.template \in TemplatePairs
  /\ doc.roles.exporter = doc.template.exporter_role
  /\ doc.roles.importer = doc.template.importer_role

\* Mutant: the clauses are optional.
ConformsMissingClauses(doc) ==
  /\ doc.mapping
  /\ doc.scc_id = "well_formed"
  /\ doc.rule_bundle_required \in {"active", "other"}
  /\ RolesFit(doc)
  /\ doc.exporter_hours \in 1..168
  /\ doc.sdaia_hours \in 1..72
  /\ doc.rest_valid

\* Mutant: the SDAIA window gets the exporter window's maximum.
ConformsWideWindow(doc) ==
  /\ ConformsMissingClauses([doc EXCEPT !.sdaia_hours = 1])
  /\ doc.absent = {}
  /\ doc.sdaia_hours \in 1..168

Conforms(doc) ==
  /\ doc.mapping
  /\ doc.scc_id = "well_formed"
  /\ doc.rule_bundle_required \in {"active", "other"}
  /\ doc.absent = {}
  /\ RolesFit(doc)
  /\ doc.exporter_hours \in 1..168
  /\ doc.sdaia_hours \in 1..72
  /\ doc.rest_valid

-----------------------------------------------------------------------------
(* Layer 2: the Rego rules.  A result object that refers to an undefined   *)
(* reference is undefined itself.                                          *)

PassIf(condition) == IF condition THEN "PASS" ELSE "FAIL"

DefinedIf(defined, status) == IF defined THEN status ELSE "undefined"

MandatoryClausesStatus(doc) == PassIf(\A c \in MandatoryClauses : Has(doc, c))

\* The Kingdom's name in the two languages of an SCC.
AcceptedJurisdictions ==
  {"Kingdom of Saudi Arabia", "Kingdom of Saudi Arabia, in Arabic"}

\* Mutant: any jurisdiction will do.
AnyLawStatus(doc) == DefinedIf(Has(doc, "jurisdiction"), "PASS")

GoverningLawStatus(doc) ==
  DefinedIf(Has(doc, "jurisdiction"),
            PassIf(doc.jurisdiction \in AcceptedJurisdictions))

DisputeForumStatus(doc) ==
  DefinedIf(Has(doc, "dispute_forum"),
            PassIf(doc.dispute_forum \in {"Saudi courts", "Riyadh courts"}))

\* Mutant: the rule allows what the schema allows.
ExporterWindowAsInSchema(doc) ==
  DefinedIf(Has(doc, "exporter_notification_window_hours"),
            PassIf(doc.exporter_hours <= 168 /\ doc.exporter_hours > 0))

ExporterWindowStatus(doc) ==
  DefinedIf(Has(doc, "exporter_notification_window_hours"),
            PassIf(doc.exporter_hours <= 24 /\ doc.exporter_hours > 0))

SdaiaWindowStatus(doc) ==
  DefinedIf(Has(doc, "sdaia_notification_window_hours"),
            PassIf(doc.sdaia_hours <= 72 /\ doc.sdaia_hours > 0))

SensitiveRouteStatus(doc) ==
  IF /\ Has(doc, "sensitive_categories_art18")
     /\ \E cat \in doc.sensitive_categories_art18 : cat # "none"
     /\ Has(doc, "permitted") /\ doc.permitted
  THEN "REQUIRES_HUMAN_REVIEW" ELSE "PASS"

LiabilityStatus(doc) ==
  IF Has(doc, "liability") THEN "REQUIRES_HUMAN_REVIEW" ELSE "FAIL"

\* RULE_REGISTRY, in its order, and the file each rule is written in.
RULE_REGISTRY ==
  <<"STRUCT-001", "VAL-GOV-LAW", "VAL-DISPUTE-FORUM", "VAL-BREACH-EXPORTER",
    "VAL-BREACH-SDAIA", "VAL-SENSITIVE-ROUTE", "JUDGE-LIAB-001",
    "JUDGE-GOV-ACCESS-001", "JUDGE-INDEM-001">>

\* Mutant: the judgment rules no longer ask for counsel.
RuleStatusNoCounsel(rule, doc) ==
  CASE rule = "STRUCT-001" -> MandatoryClausesStatus(doc)
    [] rule = "VAL-GOV-LAW" -> GoverningLawStatus(doc)
    [] rule = "VAL-DISPUTE-FORUM" -> DisputeForumStatus(doc)
    [] rule = "VAL-BREACH-EXPORTER" -> ExporterWindowStatus(doc)
    [] rule = "VAL-BREACH-SDAIA" -> SdaiaWindowStatus(doc)
    [] rule = "VAL-SENSITIVE-ROUTE" -> SensitiveRouteStatus(doc)
    [] OTHER -> "PASS"

RuleStatus(rule, doc) ==
  CASE rule = "STRUCT-001" -> MandatoryClausesStatus(doc)
    [] rule = "VAL-GOV-LAW" -> GoverningLawStatus(doc)
    [] rule = "VAL-DISPUTE-FORUM" -> DisputeForumStatus(doc)
    [] rule = "VAL-BREACH-EXPORTER" -> ExporterWindowStatus(doc)
    [] rule = "VAL-BREACH-SDAIA" -> SdaiaWindowStatus(doc)
    [] rule = "VAL-SENSITIVE-ROUTE" -> SensitiveRouteStatus(doc)
    [] rule = "JUDGE-LIAB-001" -> LiabilityStatus(doc)
    [] rule \in {"JUDGE-GOV-ACCESS-001", "JUDGE-INDEM-001"} ->
         "REQUIRES_HUMAN_REVIEW"

-----------------------------------------------------------------------------
(* What verify() asks of a document: the values the parameters of          *)
(* VerifyPipeline, VerifyPromise and RunVectors get.                       *)

SccIsMapping(d) == d.mapping
SccSchemaAccepts(d) == Conforms(d)
SccRegoStatus(r, d) == RuleStatus(r, d)

\* What scc_document.get("rule_bundle_required") is compared as.
SccBundleRequired(d) ==
  IF d.rule_bundle_required \in {"active", "other"}
  THEN d.rule_bundle_required ELSE "no_string"

\* scc_document.get("scc_id", "UNKNOWN") is a string unless the document has
\* another value there.
SccIdIsAString(d) == d.scc_id # "not_string"

\* RFC 8785 has no form for NaN and the infinities.
SccIsCanonicalizable(d) == d.finite
=============================================================================
