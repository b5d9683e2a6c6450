------------------------------- MODULE MCCli --------------------------------
(***************************************************************************)
(* Instances of CliVerify for TLC, over the shipped schema and rules.      *)
(***************************************************************************)
EXTENDS MCVerify, CliVerify

\* One document of each kind the control flow of the command tells apart.
CliDocuments ==
  {GoodDocument,
   [GoodDocument EXCEPT !.exporter_hours = 25],
   [GoodDocument EXCEPT !.scc_id = "not_string"],
   [GoodDocument EXCEPT !.rule_bundle_required = "not_string"],
   [GoodDocument EXCEPT !.finite = FALSE],
   [GoodDocument EXCEPT !.mapping = FALSE]}

OneRule == <<"STRUCT-001", "JUDGE-LIAB-001">>
=============================================================================
