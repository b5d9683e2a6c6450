--------------------------- MODULE MCVectors_proofs ---------------------------
(***************************************************************************)
(* Proofs about the shipped corpus: the six vectors under test_vectors/    *)
(* with the shipped schema and rules.                                      *)
(***************************************************************************)
EXTENDS MCVectors, RunVectors_proofs

\* verify() is the one of the shipped bundle, for every document.
ShippedParameters ==
  /\ Layer2Rules = ShippedLayer2Rules
  /\ \A d : /\ IsMapping(d) = SccIsMapping(d)
            /\ SchemaAccepts(d) = SccSchemaAccepts(d)
            /\ BundleRequired(d) = SccBundleRequired(d)
            /\ Canonicalizable(d) = SccIsCanonicalizable(d)
            /\ \A r : RegoStatus(r, d) = SccRegoStatus(r, d)

-----------------------------------------------------------------------------
(* The corpus.                                                             *)

\* A vector and, before it, the expected file it goes with.
PairAt(i, category, name, document, v_0_2, verdict, v_0_1) ==
  /\ ShippedCorpus[i - 1] = Expected(category, <<name>>, v_0_2, verdict, v_0_1)
  /\ ShippedCorpus[i] = Vector(category, <<name>>, document)

LEMMA ShippedPairs ==
  /\ Len(ShippedCorpus) = 12 /\ DOMAIN ShippedCorpus = 1..12
  /\ PairAt(2, "known_good", "ksa_to_foreign_processor_scc", GoodDocument,
            Missing, "PASS_WITH_COUNSEL_ITEMS", "PASS")
  /\ PairAt(4, "known_bad", "arbitration_forum_without_counsel_basis", ArbitrationForum,
            "FAIL", "FAIL", Missing)
  /\ PairAt(6, "known_bad", "missing_governing_law", MissingGoverningLaw,
            "FAIL", "FAIL", Missing)
  /\ PairAt(8, "known_bad", "structurally_malformed", StructurallyMalformed,
            "FAIL", "FAIL", "FAIL")
  /\ PairAt(10, "judgment_required", "needs_counsel_review", NeedsCounselReview,
            "PASS_WITH_COUNSEL_ITEMS", "PASS_WITH_COUNSEL_ITEMS", Missing)
  /\ PairAt(12, "judgment_required", "sensitive_onward_transfer_needs_counsel",
            SensitiveOnwardTransfer,
            "PASS_WITH_COUNSEL_ITEMS", "PASS_WITH_COUNSEL_ITEMS", Missing)
  BY DEF ShippedCorpus, Pair, PairAt

-----------------------------------------------------------------------------
(* The names.                                                              *)

LEMMA LastTwo ==
  ASSUME NEW x
  PROVE  SubSeq(<<x>> \o <<"expected", "json">>, 2, 3) = <<"expected", "json">>
  <1> DEFINE S == {x, "expected", "json"}
             s == <<x>> \o <<"expected", "json">>
             t == SubSeq(s, 2, 3)
             u == <<"expected", "json">>
  <1>1. /\ s \in Seq(S) /\ Len(s) = 3 /\ s[2] = "expected" /\ s[3] = "json"
        /\ u \in Seq(S) /\ Len(u) = 2 /\ u[1] = "expected" /\ u[2] = "json"
    OBVIOUS
  <1> HIDE DEF S, s, u
  <1>2. t \in Seq(S) /\ Len(t) = 2 /\ t[1] = s[2] /\ t[2] = s[3]
    BY <1>1, SubSeqProperties
  <1> HIDE DEF t
  <1>3. t = u
    BY <1>1, <1>2, SeqEqual
  <1> QED
    BY <1>3 DEF s, t, u

\* The names of a vector and of its expected file.
NamedApart(e, v, name) ==
  /\ IsExpectedFile(e) /\ ~IsExpectedFile(v)
  /\ ExpectedName(v.name) = e.name /\ v.name[1] = name

LEMMA ShippedNames ==
  ASSUME NEW category, NEW name, NEW document, NEW v_0_2, NEW verdict, NEW v_0_1
  PROVE  NamedApart(Expected(category, <<name>>, v_0_2, verdict, v_0_1),
                    Vector(category, <<name>>, document), name)
  <1> DEFINE e == Expected(category, <<name>>, v_0_2, verdict, v_0_1)
             v == Vector(category, <<name>>, document)
  <1>1. e.name = <<name>> \o <<"expected", "json">> /\ v.name = <<name>> \o <<"json">>
    BY DEF Expected, Vector, File
  <1>2. Len(e.name) = 3 /\ Len(v.name) = 2
    BY <1>1
  <1> HIDE DEF e, v
  <1>3. IsExpectedFile(e)
    <2>1. SubSeq(e.name, 2, 3) = <<"expected", "json">>
      BY <1>1, LastTwo, Zenon
    <2> QED
      BY <1>2, <2>1 DEF IsExpectedFile
  <1>4. ~IsExpectedFile(v)
    BY <1>2 DEF IsExpectedFile
  <1>5. ExpectedName(v.name) = e.name
    BY <1>1 DEF ExpectedName, WithoutSuffix
  <1>6. v.name[1] = name
    BY <1>1
  <1> QED
    BY <1>3, <1>4, <1>5, <1>6 DEF NamedApart, e, v

-----------------------------------------------------------------------------
(* The documents and the rules.                                            *)

LEMMA TheLayer2Rules ==
  ShippedLayer2Rules =
    {"VAL-GOV-LAW", "VAL-DISPUTE-FORUM", "VAL-BREACH-EXPORTER", "VAL-BREACH-SDAIA",
     "VAL-SENSITIVE-ROUTE"} \cup JudgmentRules
  <1> DEFINE all == {"STRUCT-001", "VAL-GOV-LAW", "VAL-DISPUTE-FORUM",
                     "VAL-BREACH-EXPORTER", "VAL-BREACH-SDAIA", "VAL-SENSITIVE-ROUTE",
                     "JUDGE-LIAB-001", "JUDGE-GOV-ACCESS-001", "JUDGE-INDEM-001"}
  <1>1. /\ Len(RULE_REGISTRY) = 9
        /\ RULE_REGISTRY[1] = "STRUCT-001" /\ RULE_REGISTRY[2] = "VAL-GOV-LAW"
        /\ RULE_REGISTRY[3] = "VAL-DISPUTE-FORUM"
        /\ RULE_REGISTRY[4] = "VAL-BREACH-EXPORTER"
        /\ RULE_REGISTRY[5] = "VAL-BREACH-SDAIA"
        /\ RULE_REGISTRY[6] = "VAL-SENSITIVE-ROUTE"
        /\ RULE_REGISTRY[7] = "JUDGE-LIAB-001"
        /\ RULE_REGISTRY[8] = "JUDGE-GOV-ACCESS-001"
        /\ RULE_REGISTRY[9] = "JUDGE-INDEM-001"
    BY DEF RULE_REGISTRY
  <1>2. \A i \in 1..9 : i \in {1, 2, 3, 4, 5, 6, 7, 8, 9}
    OBVIOUS
  <1>3. {RULE_REGISTRY[i] : i \in 1..9} = all
    BY <1>1, <1>2
  <1>4. ShippedLayer2Rules = all \ {"STRUCT-001"}
    BY <1>1, <1>3 DEF ShippedLayer2Rules
  <1> QED
    BY <1>4 DEF JudgmentRules

\* The vectors whose document the schema accepts.
Accepted == {GoodDocument, ArbitrationForum, MissingGoverningLaw, SensitiveOnwardTransfer}

LEMMA ShippedDocuments ==
  /\ \A d \in Accepted \cup {StructurallyMalformed} : d.mapping /\ d.finite
  /\ ~Conforms(StructurallyMalformed)
  /\ \A d \in Accepted :
       Conforms(d) /\ d.rule_bundle_required = "active" /\ d.exporter_hours = 24
  BY DEF Accepted, GoodDocument, ArbitrationForum, MissingGoverningLaw,
         SensitiveOnwardTransfer, StructurallyMalformed, Conforms, RolesFit,
         TemplatePairs, Template

\* The two rules a shipped document can fail.
Failing(d) ==
  {r \in {"VAL-GOV-LAW", "VAL-DISPUTE-FORUM"} :
     IF r = "VAL-GOV-LAW" THEN d.jurisdiction \notin AcceptedJurisdictions
     ELSE d.dispute_forum \notin {"Saudi courts", "Riyadh courts"}}

LEMMA RulesOnAccepted ==
  ASSUME NEW d, Conforms(d), d.exporter_hours = 24
  PROVE  /\ {r \in ShippedLayer2Rules : RuleStatus(r, d) = "FAIL"} = Failing(d)
         /\ \A r \in ShippedLayer2Rules : RuleStatus(r, d) # "INCOMPLETE"
         /\ \A r \in JudgmentRules : RuleStatus(r, d) = "REQUIRES_HUMAN_REVIEW"
         /\ (\E cat \in d.sensitive_categories_art18 : cat # "none") /\ d.permitted =>
              RuleStatus("VAL-SENSITIVE-ROUTE", d) = "REQUIRES_HUMAN_REVIEW"
         /\ (\A cat \in d.sensitive_categories_art18 : cat = "none") =>
              \A r \in ShippedLayer2Rules \ (JudgmentRules \cup Failing(d)) :
                RuleStatus(r, d) = "PASS"
  <1>1. \A path : Has(d, path)
    BY DEF Conforms, Has
  <1>2. /\ RuleStatus("VAL-GOV-LAW", d)
             = PassIf(d.jurisdiction \in AcceptedJurisdictions)
        /\ RuleStatus("VAL-DISPUTE-FORUM", d)
             = PassIf(d.dispute_forum \in {"Saudi courts", "Riyadh courts"})
    BY <1>1 DEF RuleStatus, GoverningLawStatus, DisputeForumStatus, DefinedIf
  <1>3. /\ RuleStatus("VAL-BREACH-EXPORTER", d) = "PASS"
        /\ RuleStatus("VAL-BREACH-SDAIA", d) = "PASS"
    BY <1>1 DEF RuleStatus, ExporterWindowStatus, SdaiaWindowStatus, DefinedIf, PassIf,
                Conforms
  <1>4. /\ RuleStatus("VAL-SENSITIVE-ROUTE", d) \in {"REQUIRES_HUMAN_REVIEW", "PASS"}
        /\ (\E cat \in d.sensitive_categories_art18 : cat # "none") /\ d.permitted =>
             RuleStatus("VAL-SENSITIVE-ROUTE", d) = "REQUIRES_HUMAN_REVIEW"
        /\ (\A cat \in d.sensitive_categories_art18 : cat = "none") =>
             RuleStatus("VAL-SENSITIVE-ROUTE", d) = "PASS"
    BY <1>1 DEF RuleStatus, SensitiveRouteStatus
  <1>5. \A r \in JudgmentRules : RuleStatus(r, d) = "REQUIRES_HUMAN_REVIEW"
    BY <1>1 DEF JudgmentRules, RuleStatus, LiabilityStatus
  <1>6. {r \in ShippedLayer2Rules : RuleStatus(r, d) = "FAIL"} = Failing(d)
    BY <1>2, <1>3, <1>4, <1>5, TheLayer2Rules DEF Failing, JudgmentRules, PassIf
  <1>7. \A r \in ShippedLayer2Rules : RuleStatus(r, d) # "INCOMPLETE"
    BY <1>2, <1>3, <1>4, <1>5, TheLayer2Rules DEF PassIf
  <1>8. (\A cat \in d.sensitive_categories_art18 : cat = "none") =>
          \A r \in ShippedLayer2Rules \ (JudgmentRules \cup Failing(d)) :
            RuleStatus(r, d) = "PASS"
    BY <1>2, <1>3, <1>4, TheLayer2Rules DEF Failing, PassIf
  <1> QED
    BY <1>4, <1>5, <1>6, <1>7, <1>8

LEMMA WhatFails ==
  /\ Failing(GoodDocument) = {} /\ Failing(SensitiveOnwardTransfer) = {}
  /\ Failing(ArbitrationForum) = {"VAL-DISPUTE-FORUM"}
  /\ Failing(MissingGoverningLaw) = {"VAL-GOV-LAW", "VAL-DISPUTE-FORUM"}
  BY DEF Failing, AcceptedJurisdictions, GoodDocument, ArbitrationForum,
         MissingGoverningLaw, SensitiveOnwardTransfer


\* What verify() answers for the shipped documents.
LEMMA AnswersOnShipped ==
  ASSUME ShippedParameters
  PROVE  /\ \A d \in Accepted :
              /\ opa = "there" =>
                   Answers(d) = {IF Failing(d) = {} THEN "PASS_WITH_COUNSEL_ITEMS" ELSE "FAIL"}
              /\ opa = "missing" => Answers(d) = {"INCOMPLETE"}
         /\ opa = "there" => Answers(StructurallyMalformed) = {"FAIL"}
  <1>1. ASSUME NEW d \in Accepted
        PROVE  /\ Call!Evaluable(d)
               /\ Call!RulesVerdict(d)
                    = IF Failing(d) = {} THEN "PASS_WITH_COUNSEL_ITEMS" ELSE "FAIL"
    <2>1. Conforms(d) /\ d.rule_bundle_required = "active" /\ d.exporter_hours = 24
      BY ShippedDocuments
    <2>2. Call!Evaluable(d)
      BY <2>1 DEF ShippedParameters, Call!Evaluable, SccSchemaAccepts, SccBundleRequired
    <2> DEFINE statuses == {RegoStatus(r, d) : r \in Layer2Rules}
    <2>3. statuses = {RuleStatus(r, d) : r \in ShippedLayer2Rules}
      BY DEF ShippedParameters, SccRegoStatus
    <2>4. /\ "FAIL" \in statuses <=> Failing(d) # {}
          /\ "INCOMPLETE" \notin statuses
      BY <2>1, <2>3, RulesOnAccepted
    <2>5. "REQUIRES_HUMAN_REVIEW" \in statuses
      <3>1. "JUDGE-LIAB-001" \in ShippedLayer2Rules \cap JudgmentRules
        BY TheLayer2Rules DEF JudgmentRules
      <3> QED
        BY <2>1, <2>3, <3>1, RulesOnAccepted
    <2>6. Call!RulesVerdict(d)
            = IF "FAIL" \in statuses THEN "FAIL"
              ELSE IF "INCOMPLETE" \in statuses THEN "INCOMPLETE"
              ELSE IF "REQUIRES_HUMAN_REVIEW" \in statuses THEN "PASS_WITH_COUNSEL_ITEMS"
              ELSE "PASS"
      BY DEF Call!RulesVerdict
    <2> HIDE DEF statuses
    <2> QED
      BY <2>2, <2>4, <2>5, <2>6
  <1>2. ~Call!Evaluable(StructurallyMalformed)
    BY ShippedDocuments DEF ShippedParameters, Call!Evaluable, SccSchemaAccepts
  <1> QED
    BY <1>1, <1>2 DEF Answers, Call!Promised

-----------------------------------------------------------------------------
(* The command over the shipped corpus.                                    *)

Even == {2, 4, 6, 8, 10, 12}

\* What the expected file of the vector at i declares.
Wanted(i) == IF i \in {4, 6, 8} THEN "FAIL" ELSE "PASS_WITH_COUNSEL_ITEMS"

\* The expected file of the vector at i, and what it declares.
Beforehand(i) ==
  /\ ~IsExpectedFile(corpus[i]) /\ IsExpectedFile(corpus[i - 1])
  /\ i - 1 \in ExpectedFile(i)
  /\ corpus[i - 1].kind = "expectation" /\ ~Declared(i - 1).pending_layer_2
  /\ Want(Declared(i - 1)) = Wanted(i)
  /\ corpus[i].kind = "document"

LEMMA PairIsBeforehand ==
  ASSUME corpus = ShippedCorpus, NEW i \in Even, NEW category, NEW name, NEW document,
         NEW v_0_2, NEW verdict, NEW v_0_1,
         PairAt(i, category, name, document, v_0_2, verdict, v_0_1),
         (IF v_0_2 # Missing THEN v_0_2 ELSE verdict) = Wanted(i), verdict # Missing
  PROVE  Beforehand(i) /\ corpus[i].content = document /\ corpus[i].name[1] = name
  <1> DEFINE e == Expected(category, <<name>>, v_0_2, verdict, v_0_1)
             v == Vector(category, <<name>>, document)
  <1>1. corpus[i - 1] = e /\ corpus[i] = v
    BY DEF PairAt
  <1>2. NamedApart(e, v, name)
    BY ShippedNames, Zenon
  <1>3. /\ e.category = v.category /\ e.kind = "expectation" /\ v.kind = "document"
        /\ v.content = document
        /\ e.content = Expectation(FALSE, v_0_2, verdict, v_0_1)
    BY DEF Expected, Vector, File
  <1> HIDE DEF e, v
  <1>4. i - 1 \in DOMAIN corpus
    BY ShippedPairs DEF Even
  <1>5. i - 1 \in ExpectedFile(i)
    BY <1>1, <1>2, <1>3, <1>4 DEF ExpectedFile, Beside, NamedApart
  <1>6. /\ ~Declared(i - 1).pending_layer_2
        /\ Want(Declared(i - 1)) = Wanted(i)
    BY <1>1, <1>3 DEF Declared, Expectation, Want
  <1> QED
    BY <1>1, <1>2, <1>3, <1>5, <1>6 DEF Beforehand, NamedApart

LEMMA ShippedVectors ==
  ASSUME corpus = ShippedCorpus, corpus \in Corpora
  PROVE  /\ Vectors = Even /\ \A i \in Even : Beforehand(i) /\ ExpectedFile(i) = {i - 1}
         /\ corpus[2].content = GoodDocument /\ corpus[4].content = ArbitrationForum
         /\ corpus[6].content = MissingGoverningLaw
         /\ corpus[8].content = StructurallyMalformed
         /\ corpus[10].content = GoodDocument
         /\ corpus[12].content = SensitiveOnwardTransfer
         /\ corpus[2].name[1] = "ksa_to_foreign_processor_scc"
         /\ corpus[4].name[1] = "arbitration_forum_without_counsel_basis"
         /\ corpus[6].name[1] = "missing_governing_law"
         /\ corpus[8].name[1] = "structurally_malformed"
         /\ corpus[10].name[1] = "needs_counsel_review"
         /\ corpus[12].name[1] = "sensitive_onward_transfer_needs_counsel"
  <1>1. Missing \notin Verdict
    BY CorporaAssumption
  <1>2. "FAIL" # Missing /\ "PASS_WITH_COUNSEL_ITEMS" # Missing
    BY <1>1 DEF Verdict
  <1>3. /\ Beforehand(2) /\ corpus[2].content = GoodDocument
        /\ corpus[2].name[1] = "ksa_to_foreign_processor_scc"
    <2>1. 2 \in Even /\ Wanted(2) = "PASS_WITH_COUNSEL_ITEMS"
      BY DEF Even, Wanted
    <2> QED
      BY <1>2, <2>1, ShippedPairs, PairIsBeforehand
  <1>4. /\ Beforehand(4) /\ corpus[4].content = ArbitrationForum
        /\ corpus[4].name[1] = "arbitration_forum_without_counsel_basis"
    <2>1. 4 \in Even /\ Wanted(4) = "FAIL"
      BY DEF Even, Wanted
    <2> QED
      BY <1>2, <2>1, ShippedPairs, PairIsBeforehand
  <1>5. /\ Beforehand(6) /\ corpus[6].content = MissingGoverningLaw
        /\ corpus[6].name[1] = "missing_governing_law"
    <2>1. 6 \in Even /\ Wanted(6) = "FAIL"
      BY DEF Even, Wanted
    <2> QED
      BY <1>2, <2>1, ShippedPairs, PairIsBeforehand
  <1>6. /\ Beforehand(8) /\ corpus[8].content = StructurallyMalformed
        /\ corpus[8].name[1] = "structurally_malformed"
    <2>1. 8 \in Even /\ Wanted(8) = "FAIL"
      BY DEF Even, Wanted
    <2> QED
      BY <1>2, <2>1, ShippedPairs, PairIsBeforehand
  <1>7. /\ Beforehand(10) /\ corpus[10].content = GoodDocument
        /\ corpus[10].name[1] = "needs_counsel_review"
    <2>1. 10 \in Even /\ Wanted(10) = "PASS_WITH_COUNSEL_ITEMS"
      BY DEF Even, Wanted
    <2> QED
      BY <1>2, <2>1, ShippedPairs, PairIsBeforehand DEF NeedsCounselReview
  <1>8. /\ Beforehand(12) /\ corpus[12].content = SensitiveOnwardTransfer
        /\ corpus[12].name[1] = "sensitive_onward_transfer_needs_counsel"
    <2>1. 12 \in Even /\ Wanted(12) = "PASS_WITH_COUNSEL_ITEMS"
      BY DEF Even, Wanted
    <2> QED
      BY <1>2, <2>1, ShippedPairs, PairIsBeforehand
  <1>9. \A i \in Even : Beforehand(i)
    BY <1>3, <1>4, <1>5, <1>6, <1>7, <1>8 DEF Even
  <1>10. Vectors = Even
    <2>1. DOMAIN corpus = 1..12
      BY ShippedPairs
    <2>2. \A i \in 1..12 : i \in Even \/ i + 1 \in Even
      BY DEF Even
    <2>3. \A i \in 1..12 : IsExpectedFile(corpus[i]) <=> i \notin Even
      BY <1>9, <2>2 DEF Beforehand, Even
    <2>4. Even \subseteq 1..12
      BY DEF Even
    <2> QED
      BY <2>1, <2>3, <2>4 DEF Vectors
  <1>11. \A i \in Even : ExpectedFile(i) = {i - 1}
    BY <1>9, <1>10, CorpusFacts DEF Beforehand
  <1> QED
    BY <1>3, <1>4, <1>5, <1>6, <1>7, <1>8, <1>9, <1>10, <1>11


LEMMA OneMore ==
  ASSUME NEW S, NEW x, NEW n \in Nat, IsFiniteSet(S), Cardinality(S) = n, x \notin S
  PROVE  IsFiniteSet(S \cup {x}) /\ Cardinality(S \cup {x}) = n + 1
  BY FS_AddElement

LEMMA SixVectors == Cardinality(Even) = 6
  <1> DEFINE s2 == {2} \cup {4}
             s3 == s2 \cup {6}
             s4 == s3 \cup {8}
             s5 == s4 \cup {10}
             s6 == s5 \cup {12}
  <1>1. IsFiniteSet({2}) /\ Cardinality({2}) = 1
    BY FS_Singleton
  <1>2. IsFiniteSet(s2) /\ Cardinality(s2) = 2
    BY <1>1, OneMore
  <1>3. IsFiniteSet(s3) /\ Cardinality(s3) = 3
    BY <1>2, OneMore
  <1>4. IsFiniteSet(s4) /\ Cardinality(s4) = 4
    BY <1>3, OneMore
  <1>5. IsFiniteSet(s5) /\ Cardinality(s5) = 5
    BY <1>4, OneMore
  <1>6. Cardinality(s6) = 6
    <2>1. 12 \notin s5
      OBVIOUS
    <2> HIDE DEF s5
    <2>2. Cardinality(s5 \cup {12}) = 5 + 1
      BY <1>5, <2>1, OneMore
    <2> QED
      BY <2>2
  <1>7. Even = s6
    BY DEF Even
  <1> QED
    BY <1>6, <1>7

\* The command reaches the last file with every vector compared.
LEMMA AllAreCompared ==
  ASSUME IInv, AbortInv, ShippedParameters, corpus = ShippedCorpus, exit # NoExit
  PROVE  /\ Compared = Even /\ ran = 6
         /\ \A i \in Even : i \in failures <=> got[i] # Wanted(i)
  <1>1. DataInv /\ LoopInv /\ ExitInv /\ corpus \in Corpora /\ exit \in {0, 1}
    BY DEF IInv, DataInv
  <1>2. next = 13
    <2>1. ~ \E i \in Even : \E j \in ExpectedFile(i) : Broken(i, j)
      <3> SUFFICES ASSUME NEW i \in Even PROVE ~Broken(i, i - 1)
        BY <1>1, ShippedVectors
      <3>1. Beforehand(i)
        BY <1>1, ShippedVectors
      <3>2. corpus[i].content \in Accepted \cup {StructurallyMalformed}
        BY <1>1, ShippedVectors DEF Even, Accepted
      <3>3. ~Raises(corpus[i].content)
        BY <3>2, ShippedDocuments
        DEF Raises, ShippedParameters, SccIsMapping, SccIsCanonicalizable
      <3> QED
        BY <3>1, <3>3 DEF Broken, Beforehand
    <2>2. next = Len(corpus) + 1
      BY <1>1, <2>1, ShippedVectors DEF AbortInv, ExitInv
    <2> QED
      BY <2>2, ShippedPairs
  <1>3. \A i \in Even : i \in failures <=> got[i] # Wanted(i)
    <2> SUFFICES ASSUME NEW i \in Even PROVE i \in failures <=> got[i] # Wanted(i)
      OBVIOUS
    <2>1. i \in Vectors /\ i - 1 \in ExpectedFile(i) /\ Beforehand(i)
      BY <1>1, ShippedVectors
    <2>2. i < next
      BY <1>2 DEF Even
    <2>3. Settled(i, i - 1)
      BY <1>1, <2>1, <2>2 DEF LoopInv
    <2> QED
      BY <2>1, <2>3 DEF Settled, Beforehand
  <1>4. Compared = Even
    <2>1. Compared \subseteq Even
      BY <1>1, ShippedVectors DEF LoopInv
    <2>2. ASSUME NEW i \in Even, i \notin Compared PROVE FALSE
      <3>1. got[i] = NoVerdict
        BY <1>1, <2>2, ShippedVectors, CorpusFacts DEF Compared
      <3>2. i \notin failures
        BY <1>1, <2>2 DEF DataInv
      <3> QED
        BY <1>3, <3>1, <3>2, ExitFacts DEF Wanted, Verdict
    <2> QED
      BY <2>1, <2>2
  <1> QED
    BY <1>1, <1>3, <1>4, SixVectors DEF DataInv


LEMMA CorpusPasses ==
  ASSUME IInv, AnswerInv, AbortInv, ShippedParameters
  PROVE  ShippedCorpusPassesWithOpa
  <1> SUFFICES ASSUME corpus = ShippedCorpus, exit # NoExit
               PROVE  /\ ran = 6
                      /\ opa = "there" => exit = 0
                      /\ opa = "missing" => exit = 1
    BY DEF ShippedCorpusPassesWithOpa
  <1>1. /\ DataInv /\ ExitInv /\ corpus \in Corpora /\ exit \in {0, 1}
        /\ Compared = Even /\ ran = 6
        /\ \A i \in Even : i \in failures <=> got[i] # Wanted(i)
    BY AllAreCompared DEF IInv, DataInv
  <1>2. \A i \in Even : got[i] \in Answers(corpus[i].content)
    BY <1>1 DEF AnswerInv
  <1>3. CASE opa = "there"
    <2>1. \A i \in Even : got[i] = Wanted(i)
      BY <1>1, <1>2, <1>3, ShippedVectors, AnswersOnShipped, WhatFails
      DEF Even, Accepted, Wanted
    <2>2. ~ \E i \in Vectors : \E j \in ExpectedFile(i) : Mismatch(i, j)
      BY <1>1, <2>1, ShippedVectors DEF Mismatch, Beforehand
    <2> QED
      BY <1>1, <1>3, <2>2 DEF ExitInv
  <1>4. CASE opa = "missing"
    <2>1. got[2] = "INCOMPLETE" /\ 2 \in Even
      BY <1>1, <1>2, <1>4, ShippedVectors, AnswersOnShipped DEF Even, Accepted
    <2>2. 2 \in failures
      BY <1>1, <2>1 DEF Wanted
    <2> QED
      BY <1>1, <1>4, <2>2 DEF ExitInv
  <1> QED
    BY <1>1, <1>3, <1>4

\* The rules that fail, those that ask for a human and those that pass are the
\* ones the expected file of the vector names.
LEMMA DeclaredReasons ==
  ASSUME corpus \in Corpora
  PROVE  VerdictsHaveTheDeclaredReason
  <1> SUFFICES ASSUME corpus = ShippedCorpus, NEW i \in Vectors, Conforms(corpus[i].content)
               PROVE  LET d == corpus[i].content
                          RulesWith(status) ==
                            {r \in ShippedLayer2Rules : RuleStatus(r, d) = status}
                          name == corpus[i].name[1]
                      IN  /\ RulesWith("FAIL") = RequiredFails(name)
                          /\ RequiredReviews(name) \subseteq RulesWith("REQUIRES_HUMAN_REVIEW")
                          /\ RequiredPasses(name) \subseteq RulesWith("PASS")
    BY DEF VerdictsHaveTheDeclaredReason
  <1> DEFINE d == corpus[i].content
             name == corpus[i].name[1]
             reviewed == {r \in ShippedLayer2Rules : RuleStatus(r, d) = "REQUIRES_HUMAN_REVIEW"}
  <1>1. i \in Even /\ i # 8
    BY ShippedVectors, ShippedDocuments
  <1>2. d \in Accepted
    BY <1>1, ShippedVectors DEF Even, Accepted
  <1>3. Conforms(d) /\ d.exporter_hours = 24
    BY <1>2, ShippedDocuments
  <1>4. {r \in ShippedLayer2Rules : RuleStatus(r, d) = "FAIL"} = Failing(d)
    BY <1>3, RulesOnAccepted
  <1>5. JudgmentRules \subseteq reviewed
    BY <1>3, RulesOnAccepted, TheLayer2Rules
  <1>6. Failing(d) = RequiredFails(name)
    BY <1>1, ShippedVectors, WhatFails DEF Even, RequiredFails
  <1>7. i = 12 => "VAL-SENSITIVE-ROUTE" \in reviewed
    <2> SUFFICES ASSUME i = 12 PROVE "VAL-SENSITIVE-ROUTE" \in reviewed
      OBVIOUS
    <2>1. d.sensitive_categories_art18 = {"health"} /\ d.permitted
      BY ShippedVectors DEF SensitiveOnwardTransfer, GoodDocument
    <2>2. "health" \in d.sensitive_categories_art18 /\ "health" # "none"
      BY <2>1
    <2> QED
      BY <1>3, <2>1, <2>2, RulesOnAccepted, TheLayer2Rules
  <1>8. RequiredReviews(name) \subseteq reviewed
    BY <1>1, <1>5, <1>7, ShippedVectors DEF Even, RequiredReviews
  <1>9. RequiredPasses(name) \subseteq {r \in ShippedLayer2Rules : RuleStatus(r, d) = "PASS"}
    <2>1. CASE i # 2
      BY <1>1, <2>1, ShippedVectors DEF Even, RequiredPasses
    <2>2. CASE i = 2
      <3>1. d = GoodDocument /\ name = "ksa_to_foreign_processor_scc"
        BY <2>2, ShippedVectors
      <3>2. \A cat \in d.sensitive_categories_art18 : cat = "none"
        <4>1. GoodDocument.sensitive_categories_art18 = {"none"}
          BY DEF GoodDocument
        <4> HIDE DEF d
        <4> QED
          BY <3>1, <4>1
      <3>3. RequiredPasses(name) \subseteq ShippedLayer2Rules \ JudgmentRules
        BY <3>1, TheLayer2Rules DEF RequiredPasses, JudgmentRules
      <3> HIDE DEF d, name
      <3> QED
        BY <1>3, <3>1, <3>2, <3>3, RulesOnAccepted, WhatFails
    <2> QED
      BY <2>1, <2>2
  <1> QED
    BY <1>4, <1>6, <1>8, <1>9

-----------------------------------------------------------------------------
(* The properties.                                                         *)

\* The shipped corpus passes when OPA is there and cannot pass without it,
\* and every one of its six vectors is compared.
THEOREM ShippedCorpusAlwaysPasses ==
  ASSUME ShippedParameters
  PROVE  Spec => []ShippedCorpusPassesWithOpa
  BY CorpusPasses, VerdictsAreAnswers, PTL

\* A shipped vector has its verdict for the reason its expected file names.
THEOREM ReasonsAsDeclared == Spec => []VerdictsHaveTheDeclaredReason
  <1>1. IInv => VerdictsHaveTheDeclaredReason
    BY DeclaredReasons DEF IInv, DataInv
  <1> QED
    BY <1>1, Invariance, PTL

=============================================================================
