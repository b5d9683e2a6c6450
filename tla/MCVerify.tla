------------------------------ MODULE MCVerify ------------------------------
(***************************************************************************)
(* Instances of SccVerify for TLC: the shipped schema and rules of         *)
(* SccRules, over sets of documents around a good one.                     *)
(***************************************************************************)
EXTENDS SccVerify, SccCorpus

Roles == {"CONTROLLER", "PROCESSOR", "SUB_PROCESSOR"}

\* A document and those that differ from it in one respect.
Vary(d) ==
  {d, [d EXCEPT !.mapping = FALSE], [d EXCEPT !.rest_valid = FALSE], [d EXCEPT !.finite = FALSE],
   [d EXCEPT !.permitted = TRUE], [d EXCEPT !.jurisdiction = "elsewhere"],
   [d EXCEPT !.jurisdiction = "Kingdom of Saudi Arabia, in Arabic"],
   [d EXCEPT !.dispute_forum = "arbitration"],
   [d EXCEPT !.sensitive_categories_art18 = {"health"}]}
  \cup {[d EXCEPT !.scc_id = x] : x \in {"ill_formed", "not_string", "missing"}}
  \cup {[d EXCEPT !.rule_bundle_required = x] : x \in {"other", "not_string", "missing"}}
  \cup {[d EXCEPT !.absent = @ \cup {p}] : p \in Paths}
  \cup {[d EXCEPT !.template = t] : t \in TemplatePairs}
  \cup {[d EXCEPT !.roles.exporter = r] : r \in Roles}
  \cup {[d EXCEPT !.roles.importer = r] : r \in Roles}
  \cup {[d EXCEPT !.exporter_hours = h] : h \in {0, 25, 168, 169}}
  \cup {[d EXCEPT !.sdaia_hours = h] : h \in {0, 73}}

\* Up to two differences at once.
VariedDocuments == UNION {Vary(d) : d \in Vary(GoodDocument)}

\* One document of each kind the control flow tells apart.
FewDocuments ==
  {GoodDocument,
   [GoodDocument EXCEPT !.exporter_hours = 25],
   [GoodDocument EXCEPT !.rule_bundle_required = "other"],
   [GoodDocument EXCEPT !.rule_bundle_required = "not_string"],
   [GoodDocument EXCEPT !.rest_valid = FALSE],
   [GoodDocument EXCEPT !.finite = FALSE],
   [GoodDocument EXCEPT !.mapping = FALSE]}

AllRules == RULE_REGISTRY
FewRules == <<"STRUCT-001", "VAL-BREACH-EXPORTER", "JUDGE-LIAB-001">>
=============================================================================
