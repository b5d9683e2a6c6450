------------------------------ MODULE MCVectors ------------------------------
(***************************************************************************)
(* Instances of RunVectors for TLC: the shipped corpus under the shipped   *)
(* schema and rules, and small corpora in which one thing is wrong.        *)
(***************************************************************************)
EXTENDS RunVectors, SccCorpus

ShippedLayer2Rules == {RULE_REGISTRY[i] : i \in 1..Len(RULE_REGISTRY)} \ {"STRUCT-001"}

Expected(category, base, v_0_2, verdict, v_0_1) ==
  File(category, base \o <<"expected", "json">>, "expectation",
       Expectation(FALSE, v_0_2, verdict, v_0_1))

Vector(category, base, document) ==
  File(category, base \o <<"json">>, "document", document)

Pair(category, name, document, v_0_2, verdict, v_0_1) ==
  <<Expected(category, <<name>>, v_0_2, verdict, v_0_1),
    Vector(category, <<name>>, document)>>

\* The six shipped vectors, each with its expected file.
ShippedCorpus ==
  Pair("known_good", "ksa_to_foreign_processor_scc", GoodDocument,
       Missing, "PASS_WITH_COUNSEL_ITEMS", "PASS")
  \o Pair("known_bad", "arbitration_forum_without_counsel_basis", ArbitrationForum,
          "FAIL", "FAIL", Missing)
  \o Pair("known_bad", "missing_governing_law", MissingGoverningLaw,
          "FAIL", "FAIL", Missing)
  \o Pair("known_bad", "structurally_malformed", StructurallyMalformed,
          "FAIL", "FAIL", "FAIL")
  \o Pair("judgment_required", "needs_counsel_review", NeedsCounselReview,
          "PASS_WITH_COUNSEL_ITEMS", "PASS_WITH_COUNSEL_ITEMS", Missing)
  \o Pair("judgment_required", "sensitive_onward_transfer_needs_counsel",
          SensitiveOnwardTransfer,
          "PASS_WITH_COUNSEL_ITEMS", "PASS_WITH_COUNSEL_ITEMS", Missing)

\* What can be found beside a vector: nothing, no JSON, a pending expectation,
\* one that declares nothing, and one with a verdict in some of the fields.
BesideA(category, kind, content) ==
  File(category, <<"a", "expected", "json">>, kind, content)

FewExpectations(category) ==
  {<<>>, <<BesideA(category, "not_json", Missing)>>}
  \cup {<<BesideA(category, "expectation", Expectation(pending, "FAIL", verdict, Missing))>> :
          pending \in BOOLEAN, verdict \in {Missing, "PASS_WITH_COUNSEL_ITEMS"}}

AllExpectations(category) ==
  FewExpectations(category)
  \cup {<<BesideA(category, "expectation", Expectation(FALSE, x, y, z))>> :
          x \in {Missing, "FAIL"}, y \in {Missing, "PASS_WITH_COUNSEL_ITEMS"},
          z \in {Missing, "INCOMPLETE"}}

VectorChoices(category) ==
  {<<Vector(category, <<"a">>, d)>> :
     d \in {GoodDocument, ArbitrationForum, [GoodDocument EXCEPT !.finite = FALSE]}}
  \cup {<<File(category, <<"a", "json">>, "not_json", GoodDocument)>>}

\* a.json beside a.v2.json, a later version of it with expectations of its own.
DottedCorpus ==
  Pair("known_good", "a", GoodDocument, Missing, "PASS_WITH_COUNSEL_ITEMS", Missing)
  \o <<Expected("known_good", <<"a", "v2">>, "FAIL", Missing, Missing),
          Vector("known_good", <<"a", "v2">>, GoodDocument)>>

\* Two categories with one vector each.
SmallCorpora ==
  {<<>>, ShippedCorpus, DottedCorpus}
  \cup {e \o v \o f \o w :
          e \in AllExpectations("known_good"), v \in VectorChoices("known_good"),
          f \in FewExpectations("known_bad"),
          w \in {<<Vector("known_bad", <<"a">>, ArbitrationForum)>>}}

\* tests/test_cli_run_vectors.py: "The shipped corpus must fully pass when
\* Layer 2 is active", and "without OPA the corpus cannot meet its shipped
\* expectations".
ShippedCorpusPassesWithOpa ==
  corpus = ShippedCorpus /\ exit # NoExit =>
    /\ ran = 6
    /\ opa = "there" => exit = 0
    /\ opa = "missing" => exit = 1

\* The verdict of a shipped vector is the declared one for the declared
\* reason: the rules its expected file names are the ones that fail, and those
\* it wants to pass or to ask for a human do.  The command compares the verdict
\* alone.
VerdictsHaveTheDeclaredReason ==
  corpus = ShippedCorpus /\ exit = 0 =>
    \A i \in Vectors :
      LET d == corpus[i].content
          RulesWith(status) == {r \in ShippedLayer2Rules : RuleStatus(r, d) = status}
          name == corpus[i].name[1]
      IN  Conforms(d) => /\ RulesWith("FAIL") = RequiredFails(name)
                         /\ RequiredReviews(name) \subseteq RulesWith("REQUIRES_HUMAN_REVIEW")
                         /\ RequiredPasses(name) \subseteq RulesWith("PASS")
=============================================================================
