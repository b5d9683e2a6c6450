----------------------------- MODULE RunVectors -----------------------------
(***************************************************************************)
(* `scc-verify run-vectors`: _cmd_run_vectors of cli.py over a corpus of   *)
(* files, each verified by a call of verify() that keeps the promise of    *)
(* VerifyPromise on an undisturbed bundle.                                 *)
(*                                                                         *)
(* A corpus is the sequence of JSON files in the order in which they are   *)
(* met: category by category, sorted in each.  A file name is the sequence *)
(* of its parts between dots.                                              *)
(***************************************************************************)
EXTENDS Verdicts, Integers, Sequences

CONSTANTS
  Corpora,   \* the corpora the command can be run over
  Missing,   \* a member an expected file does not have
  Layer2Rules,
  IsMapping(_), SchemaAccepts(_), BundleRequired(_), RegoStatus(_, _),
  Canonicalizable(_)

VARIABLES
  corpus,
  opa,       \* is OPA there: at every rule, never, or now and then
  next,      \* the file the loops come to next
  ran,       \* how many vectors were compared
  failures, skipped,   \* the vectors in the two lists
  exit,      \* the exit code, NoExit while it runs
  got        \* history: the verdict of each vector that was compared

vars == <<corpus, opa, next, ran, failures, skipped, exit, got>>

NoExit == -1
NoVerdict == "none"

\* A vector file holds a document, an expected file what it declares; a file
\* can also fail to be JSON.
File(category, name, kind, content) ==
  [category |-> category, name |-> name, kind |-> kind, content |-> content]

Expectation(pending, v_0_2, verdict, v_0_1) ==
  [pending_layer_2 |-> pending, v0_2_expected |-> v_0_2, verdict |-> verdict,
   v0_1_expected |-> v_0_1]

IsExpectedFile(file) ==
  LET n == Len(file.name)
  IN  n > 2 /\ SubSeq(file.name, n - 1, n) = <<"expected", "json">>

\* with_suffix(""): the last part goes, unless there is no other.
WithoutSuffix(name) ==
  IF Len(name) > 1 THEN SubSeq(name, 1, Len(name) - 1) ELSE name

\* with_suffix("") and then with_suffix(".expected.json"), which replaces the
\* last part of what is left, if there is more than one.
ExpectedName(name) ==
  WithoutSuffix(WithoutSuffix(name)) \o <<"expected", "json">>

\* "<basename>.expected.json", as the docstring has it.
OwnExpectedName(name) == WithoutSuffix(name) \o <<"expected", "json">>

\* The file of that name beside a vector, as a set of at most one.
Beside(i, name) ==
  {j \in DOMAIN corpus :
     corpus[j].category = corpus[i].category /\ corpus[j].name = name}

ExpectedFile(i) == Beside(i, ExpectedName(corpus[i].name))

\* Mutant: the legacy field comes first.
WantLegacy(e) ==
  IF e.v0_1_expected # Missing THEN e.v0_1_expected
  ELSE IF e.v0_2_expected # Missing THEN e.v0_2_expected ELSE e.verdict

\* The first of the three fields that is there.
Want(e) ==
  IF e.v0_2_expected # Missing THEN e.v0_2_expected
  ELSE IF e.verdict # Missing THEN e.verdict ELSE e.v0_1_expected

\* A directory has one file of a name; what an expected file declares is a
\* verdict or nothing.
ASSUME CorporaAssumption ==
  /\ Missing \notin Verdict \cup {NoVerdict}
  /\ \A c \in Corpora :
       /\ Len(c) \in Nat /\ DOMAIN c = 1..Len(c)
       /\ \A i \in DOMAIN c :
            /\ c[i].name \in Seq(STRING) /\ Len(c[i].name) >= 1
            /\ c[i].kind = "expectation" =>
                 /\ c[i].content.pending_layer_2 \in BOOLEAN
                 /\ {c[i].content.v0_2_expected, c[i].content.verdict,
                     c[i].content.v0_1_expected} \subseteq Verdict \cup {Missing}
       /\ \A i, j \in DOMAIN c :
            c[i].category = c[j].category /\ c[i].name = c[j].name => i = j

-----------------------------------------------------------------------------
\* The call of verify() for the next file, on a bundle that nobody changes.
Call ==
  INSTANCE VerifyPromise WITH
    document <- corpus[next].content, skip_layer_2 <- FALSE,
    disturbed <- FALSE, answer <- got[next]

\* The verdicts a call can give: with OPA there at every rule the rules
\* decide; without it every evaluation is as good as skipped.
Answers(d) ==
  CASE opa = "there" -> Call!Promised(d, FALSE) \cap {"FAIL", Call!RulesVerdict(d)}
    [] opa = "missing" -> Call!Promised(d, TRUE)
    [] opa = "fickle" -> Call!Promised(d, FALSE)

Raises(d) == ~IsMapping(d) \/ ~Canonicalizable(d)

Init ==
  /\ corpus \in Corpora
  /\ opa \in {"there", "missing", "fickle"}
  /\ next = 1
  /\ ran = 0
  /\ failures = {}
  /\ skipped = {}
  /\ exit = NoExit
  /\ got = [i \in DOMAIN corpus |-> NoVerdict]

AtVector == exit = NoExit /\ next \in DOMAIN corpus /\ ~IsExpectedFile(corpus[next])

PassOver ==
  /\ next' = next + 1
  /\ UNCHANGED <<corpus, opa, ran, failures, exit, got>>

SkipExpectedFile ==
  /\ exit = NoExit
  /\ next \in DOMAIN corpus
  /\ IsExpectedFile(corpus[next])
  /\ PassOver
  /\ UNCHANGED skipped

\* "WARN ... no expected file": the vector is not counted anywhere.
WarnNoExpectation ==
  /\ AtVector
  /\ ExpectedFile(next) = {}
  /\ PassOver
  /\ UNCHANGED skipped

Declared(j) == corpus[j].content

SkipPending ==
  /\ AtVector
  /\ \E j \in ExpectedFile(next) :
       corpus[j].kind = "expectation" /\ Declared(j).pending_layer_2
  /\ skipped' = skipped \cup {next}
  /\ PassOver

\* Mutant: only the category at hand counts.
CompareInCategory ==
  /\ AtVector
  /\ corpus[next].kind = "document" /\ ~Raises(corpus[next].content)
  /\ \E j \in ExpectedFile(next), verdict \in Answers(corpus[next].content) :
       /\ corpus[j].kind = "expectation" /\ ~Declared(j).pending_layer_2
       /\ got' = [got EXCEPT ![next] = verdict]
       /\ failures' = {f \in failures : corpus[f].category = corpus[next].category}
                        \cup (IF verdict = Want(Declared(j)) THEN {} ELSE {next})
  /\ ran' = ran + 1
  /\ next' = next + 1
  /\ UNCHANGED <<corpus, opa, skipped, exit>>

\* Mutant: a vector is counted when it passes.
CompareCountingPasses ==
  /\ AtVector
  /\ corpus[next].kind = "document" /\ ~Raises(corpus[next].content)
  /\ \E j \in ExpectedFile(next), verdict \in Answers(corpus[next].content) :
       /\ corpus[j].kind = "expectation" /\ ~Declared(j).pending_layer_2
       /\ got' = [got EXCEPT ![next] = verdict]
       /\ IF verdict = Want(Declared(j)) THEN ran' = ran + 1 /\ UNCHANGED failures
          ELSE failures' = failures \cup {next} /\ UNCHANGED ran
  /\ next' = next + 1
  /\ UNCHANGED <<corpus, opa, skipped, exit>>

\* The vector is verified and its verdict compared.
Compare ==
  /\ AtVector
  /\ corpus[next].kind = "document" /\ ~Raises(corpus[next].content)
  /\ \E j \in ExpectedFile(next), verdict \in Answers(corpus[next].content) :
       /\ corpus[j].kind = "expectation" /\ ~Declared(j).pending_layer_2
       /\ got' = [got EXCEPT ![next] = verdict]
       /\ failures' = IF verdict = Want(Declared(j)) THEN failures
                      ELSE failures \cup {next}
  /\ ran' = ran + 1
  /\ next' = next + 1
  /\ UNCHANGED <<corpus, opa, skipped, exit>>

\* An expected file or a vector that is not JSON, or a call that raises: the
\* exception leaves main().
Abort ==
  /\ AtVector
  /\ \E j \in ExpectedFile(next) :
       \/ corpus[j].kind = "not_json"
       \/ /\ corpus[j].kind = "expectation" /\ ~Declared(j).pending_layer_2
          /\ corpus[next].kind = "not_json" \/ Raises(corpus[next].content)
  /\ exit' = 1
  /\ UNCHANGED <<corpus, opa, next, ran, failures, skipped, got>>

Finish ==
  /\ exit = NoExit
  /\ next = Len(corpus) + 1
  /\ exit' = IF failures = {} THEN 0 ELSE 1
  /\ UNCHANGED <<corpus, opa, next, ran, failures, skipped, got>>

Next ==
  SkipExpectedFile \/ WarnNoExpectation \/ SkipPending \/ Compare \/ Abort \/ Finish

Spec == Init /\ [][Next]_vars

-----------------------------------------------------------------------------
(* Properties.                                                             *)

Vectors == {i \in DOMAIN corpus : ~IsExpectedFile(corpus[i])}

\* The types, and the summary line: every file passed so far is an expected
\* file, was compared, was skipped, or had no expected file.
TypeOK ==
  /\ corpus \in Corpora
  /\ opa \in {"there", "missing", "fickle"}
  /\ next \in 1..(Len(corpus) + 1)
  /\ ran = Cardinality({i \in DOMAIN corpus : got[i] # NoVerdict})
  /\ failures \subseteq {i \in DOMAIN corpus : got[i] # NoVerdict}
  /\ skipped \subseteq Vectors
  /\ exit \in {NoExit, 0, 1}
  /\ got \in [DOMAIN corpus -> Verdict \cup {NoVerdict}]
  /\ ran + Cardinality(skipped) + Cardinality({i \in Vectors : ExpectedFile(i) = {}})
       <= Cardinality(Vectors)

Priority == <<"v0_2_expected", "verdict", "v0_1_expected">>

\* What an expected file declares, by the priority of the docstring; Missing
\* when it declares nothing.
DeclaredVerdict(e) ==
  LET there == {k \in DOMAIN Priority : e[Priority[k]] # Missing}
  IN  IF there = {} THEN Missing
      ELSE e[Priority[CHOOSE k \in there : \A l \in there : k <= l]]

\* A basename with a dot in it.
Dotted(i) == Len(corpus[i].name) > 2

\* "Exits 0 iff every non-pending vector matches its declared expectation",
\* and "each vector's <basename>.expected.json declares the expected outcome":
\* the exit code is 0 exactly if every vector of every category that is beside
\* its own expected file is pending or got what that file declares.  This
\* takes basenames without dots: with_suffix cuts at the last one, and
\* a.v2.json is compared with a.expected.json.
ExitReflectsCorpus ==
  LET Matches(i, j) ==
        /\ corpus[j].kind = "expectation"
        /\ Declared(j).pending_layer_2 \/ got[i] = DeclaredVerdict(Declared(j))
  IN  exit # NoExit /\ (\A i \in Vectors : ~Dotted(i)) =>
        (exit = 0 <=>
           \A i \in Vectors : \A j \in Beside(i, OwnExpectedName(corpus[i].name)) :
             Matches(i, j))
=============================================================================
