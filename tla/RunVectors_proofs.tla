-------------------------- MODULE RunVectors_proofs --------------------------
(***************************************************************************)
(* Proofs about RunVectors, for any corpora, schema and rules.             *)
(***************************************************************************)
EXTENDS RunVectors, FiniteSetTheorems, SequenceTheorems, TLAPS

LEMMA ExitFacts == NoExit # 0 /\ NoExit # 1 /\ NoVerdict \notin Verdict
  BY DEF NoExit, NoVerdict, Verdict

Compared == {i \in DOMAIN corpus : got[i] # NoVerdict}

DataInv ==
  /\ corpus \in Corpora
  /\ opa \in {"there", "missing", "fickle"}
  /\ next \in 1..(Len(corpus) + 1)
  /\ got \in [DOMAIN corpus -> Verdict \cup {NoVerdict}]
  /\ exit \in {NoExit, 0, 1}
  /\ failures \subseteq Compared
  /\ skipped \subseteq {i \in Vectors : ExpectedFile(i) # {}}
  /\ ran = Cardinality(Compared)

\* What is known of a vector the loops have passed, and of its expected file.
Settled(i, j) ==
  /\ corpus[j].kind = "expectation"
  /\ IF Declared(j).pending_layer_2 THEN i \notin failures
     ELSE i \in failures <=> got[i] # Want(Declared(j))

LoopInv ==
  /\ \A i \in DOMAIN corpus : i >= next => got[i] = NoVerdict /\ i \notin skipped
  /\ \A i \in Compared : i \in Vectors /\ ExpectedFile(i) # {} /\ i \notin skipped
  /\ \A i \in Vectors : i < next => \A j \in ExpectedFile(i) : Settled(i, j)

\* A vector that keeps the exit code from being 0.
Mismatch(i, j) ==
  ~(corpus[j].kind = "expectation"
      /\ (Declared(j).pending_layer_2 \/ got[i] = Want(Declared(j))))

ExitInv ==
  /\ exit = 0 => next = Len(corpus) + 1 /\ failures = {}
  /\ exit = 1 => \E i \in Vectors : \E j \in ExpectedFile(i) : Mismatch(i, j)

IInv == DataInv /\ LoopInv /\ ExitInv

-----------------------------------------------------------------------------
LEMMA CorpusFacts ==
  ASSUME corpus \in Corpora
  PROVE  /\ Len(corpus) \in Nat /\ DOMAIN corpus = 1..Len(corpus)
         /\ IsFiniteSet(DOMAIN corpus)
         /\ Vectors \subseteq DOMAIN corpus
         /\ \A i \in DOMAIN corpus : \A j, k \in ExpectedFile(i) : j = k
         /\ \A i \in DOMAIN corpus : ExpectedFile(i) \subseteq DOMAIN corpus
  <1>1. Len(corpus) \in Nat /\ DOMAIN corpus = 1..Len(corpus)
    BY CorporaAssumption
  <1>2. IsFiniteSet(DOMAIN corpus)
    BY <1>1, FS_Interval
  <1>3. ASSUME NEW i \in DOMAIN corpus, NEW j \in ExpectedFile(i), NEW k \in ExpectedFile(i)
        PROVE  j = k
    BY CorporaAssumption DEF ExpectedFile, Beside
  <1> QED
    BY <1>1, <1>2, <1>3 DEF Vectors, ExpectedFile, Beside

\* Whatever OPA does, a call answers with a verdict.
LEMMA AnswersAreVerdicts ==
  ASSUME opa \in {"there", "missing", "fickle"}, NEW d, NEW v \in Answers(d)
  PROVE  v \in Verdict
  <1>1. Call!RulesVerdict(d) \in Verdict
    BY DEF Call!RulesVerdict, Verdict
  <1>2. Call!Promised(d, TRUE) \subseteq Verdict /\ Call!Promised(d, FALSE) \subseteq Verdict
    BY <1>1 DEF Call!Promised, Verdict
  <1> QED
    BY <1>2 DEF Answers

LEMMA InvInit == Init => IInv
  <1> SUFFICES ASSUME Init PROVE IInv
    OBVIOUS
  <1>1. Compared = {}
    BY DEF Init, Compared
  <1>2. DataInv
    BY <1>1, CorpusFacts, FS_EmptySet DEF Init, DataInv
  <1>3. LoopInv
    BY <1>1, CorpusFacts DEF Init, LoopInv
  <1>4. ExitInv
    BY ExitFacts DEF Init, ExitInv
  <1> QED
    BY <1>2, <1>3, <1>4 DEF IInv

\* Passing over a file changes nothing that is known of the others.
LEMMA PassStep ==
  ASSUME IInv, PassOver, exit = NoExit, next \in DOMAIN corpus,
         \/ UNCHANGED skipped /\ (next \in Vectors => ExpectedFile(next) = {})
         \/ /\ skipped' = skipped \cup {next} /\ next \in Vectors
            /\ \E j \in ExpectedFile(next) :
                 corpus[j].kind = "expectation" /\ Declared(j).pending_layer_2
  PROVE  IInv'
  <1>1. DataInv /\ LoopInv /\ corpus \in Corpora
    BY DEF IInv, DataInv
  <1>2. /\ next' = next + 1
        /\ UNCHANGED <<corpus, opa, ran, failures, exit, got>>
        /\ Compared' = Compared /\ Vectors' = Vectors
    BY DEF PassOver, Compared, Vectors
  <1>3. \A i : ExpectedFile(i)' = ExpectedFile(i)
    BY <1>2 DEF ExpectedFile, Beside
  <1>4. next \in Nat /\ next' \in 1..(Len(corpus) + 1)
    BY <1>1, <1>2, CorpusFacts
  <1>5. skipped' \subseteq skipped \cup {next} /\ next \notin Compared
    BY <1>1, <1>4 DEF LoopInv, Compared
  <1>6. DataInv'
    <2>1. skipped' \subseteq {i \in Vectors : ExpectedFile(i) # {}}
      BY <1>1 DEF DataInv
    <2> QED
      BY <1>1, <1>2, <1>3, <1>4, <2>1 DEF DataInv
  <1>7. ASSUME NEW i \in Vectors, i < next + 1, NEW j \in ExpectedFile(i)
        PROVE  Settled(i, j)
    <2>1. CASE i < next
      BY <1>1, <2>1 DEF LoopInv
    <2>2. CASE i = next
      <3>1. \E k \in ExpectedFile(next) :
              corpus[k].kind = "expectation" /\ Declared(k).pending_layer_2
        BY <1>7, <2>2
      <3>2. corpus[j].kind = "expectation" /\ Declared(j).pending_layer_2
        BY <1>1, <1>7, <2>2, <3>1, CorpusFacts
      <3>3. i \notin failures
        BY <1>1, <1>5, <2>2 DEF DataInv
      <3> QED
        BY <3>2, <3>3 DEF Settled
    <2>3. i \in Nat
      BY <1>1, CorpusFacts
    <2> QED
      BY <1>4, <1>7, <2>1, <2>2, <2>3
  <1>8. LoopInv'
    <2>1. ASSUME NEW i \in DOMAIN corpus, i >= next + 1
          PROVE  got[i] = NoVerdict /\ i \notin skipped'
      BY <1>1, <1>4, <1>5, <2>1, CorpusFacts DEF LoopInv
    <2>2. ASSUME NEW i \in Compared
          PROVE  i \in Vectors /\ ExpectedFile(i) # {} /\ i \notin skipped'
      BY <1>1, <1>5, <2>2 DEF LoopInv
    <2>3. \A i, j : Settled(i, j)' <=> Settled(i, j)
      BY <1>2 DEF Settled, Declared
    <2> QED
      BY <1>2, <1>3, <1>7, <2>1, <2>2, <2>3 DEF LoopInv
  <1>9. ExitInv'
    BY <1>2, ExitFacts DEF ExitInv
  <1> QED
    BY <1>6, <1>8, <1>9 DEF IInv

LEMMA CompareStep ==
  ASSUME IInv, Compare
  PROVE  IInv'
  <1>1. /\ DataInv /\ LoopInv /\ corpus \in Corpora /\ exit = NoExit
        /\ next \in DOMAIN corpus /\ next \in Vectors
        /\ ran' = ran + 1 /\ next' = next + 1
        /\ UNCHANGED <<corpus, opa, skipped, exit>>
    BY DEF IInv, DataInv, Compare, AtVector, Vectors
  <1>2. PICK j \in ExpectedFile(next), verdict \in Answers(corpus[next].content) :
          /\ corpus[j].kind = "expectation" /\ ~Declared(j).pending_layer_2
          /\ got' = [got EXCEPT ![next] = verdict]
          /\ failures' = IF verdict = Want(Declared(j)) THEN failures
                         ELSE failures \cup {next}
    BY DEF Compare
  <1>3. verdict \in Verdict /\ verdict # NoVerdict
    BY <1>1, AnswersAreVerdicts, ExitFacts DEF DataInv
  <1>4. /\ got'[next] = verdict /\ \A i \in DOMAIN corpus \ {next} : got'[i] = got[i]
        /\ got' \in [DOMAIN corpus -> Verdict \cup {NoVerdict}]
    BY <1>1, <1>2, <1>3 DEF DataInv
  <1>5. next \notin Compared /\ next \notin skipped /\ Compared \subseteq DOMAIN corpus
    BY <1>1, CorpusFacts DEF LoopInv, Compared
  <1>6. Compared' = Compared \cup {next} /\ Vectors' = Vectors
        /\ \A i : ExpectedFile(i)' = ExpectedFile(i)
    BY <1>1, <1>3, <1>4 DEF Compared, Vectors, ExpectedFile, Beside
  <1>7. next \in Nat /\ next' \in 1..(Len(corpus) + 1)
    BY <1>1, CorpusFacts
  <1>8. failures \subseteq Compared /\ failures' \subseteq failures \cup {next}
        /\ \A i : i # next => (i \in failures' <=> i \in failures)
    BY <1>1, <1>2 DEF DataInv
  <1>9. DataInv'
    <2>1. IsFiniteSet(Compared)
      BY <1>1, <1>5, CorpusFacts, FS_Subset
    <2>2. ran' = Cardinality(Compared')
      BY <1>1, <1>5, <1>6, <2>1, FS_AddElement DEF DataInv
    <2> QED
      BY <1>1, <1>4, <1>6, <1>7, <1>8, <2>2 DEF DataInv
  <1>10. ASSUME NEW i \in Vectors, i < next + 1, NEW k \in ExpectedFile(i)
         PROVE  Settled(i, k)'
    <2>1. CASE i = next
      <3>1. k = j
        BY <1>1, <1>2, <1>10, <2>1, CorpusFacts
      <3>2. i \in failures' <=> verdict # Want(Declared(j))
        BY <1>2, <1>5, <1>8, <2>1
      <3> QED
        BY <1>1, <1>2, <1>4, <2>1, <3>1, <3>2 DEF Settled, Declared
    <2>2. CASE i # next
      <3>1. i < next /\ i \in DOMAIN corpus
        BY <1>1, <1>7, <1>10, <2>2, CorpusFacts
      <3>2. Settled(i, k)
        BY <1>1, <1>10, <3>1 DEF LoopInv
      <3>3. got'[i] = got[i] /\ (i \in failures' <=> i \in failures)
        BY <1>4, <1>8, <2>2, <3>1
      <3> QED
        BY <1>1, <3>2, <3>3 DEF Settled, Declared
    <2> QED
      BY <2>1, <2>2
  <1>11. LoopInv'
    <2>1. ASSUME NEW i \in DOMAIN corpus, i >= next + 1
          PROVE  got'[i] = NoVerdict /\ i \notin skipped
      BY <1>1, <1>4, <1>7, <2>1, CorpusFacts DEF LoopInv
    <2>2. ASSUME NEW i \in Compared \cup {next}
          PROVE  i \in Vectors /\ ExpectedFile(i) # {} /\ i \notin skipped
      BY <1>1, <1>2, <1>5, <2>2 DEF LoopInv
    <2> QED
      BY <1>1, <1>6, <1>10, <2>1, <2>2 DEF LoopInv
  <1>12. ExitInv'
    BY <1>1, ExitFacts DEF ExitInv
  <1> QED
    BY <1>9, <1>11, <1>12 DEF IInv

\* Only the exit code changes.
LEMMA EndStep ==
  ASSUME IInv, Abort \/ Finish
  PROVE  IInv'
  <1>1. /\ DataInv /\ LoopInv /\ corpus \in Corpora
        /\ UNCHANGED <<corpus, opa, next, ran, failures, skipped, got>>
        /\ exit' \in {0, 1}
    BY DEF IInv, DataInv, Abort, Finish
  <1>2. Compared' = Compared /\ Vectors' = Vectors
        /\ \A i : ExpectedFile(i)' = ExpectedFile(i)
    BY <1>1 DEF Compared, Vectors, ExpectedFile, Beside
  <1>3. \A i, j : (Settled(i, j)' <=> Settled(i, j)) /\ (Mismatch(i, j)' <=> Mismatch(i, j))
    BY <1>1 DEF Settled, Mismatch, Declared
  <1>4. DataInv'
    BY <1>1, <1>2 DEF DataInv
  <1>5. LoopInv'
    BY <1>1, <1>2, <1>3 DEF LoopInv
  <1>6. exit' = 0 => next = Len(corpus) + 1 /\ failures = {}
    BY DEF Abort, Finish
  <1>7. ASSUME exit' = 1 PROVE \E i \in Vectors : \E j \in ExpectedFile(i) : Mismatch(i, j)
    <2>1. CASE Abort
      <3>1. next \in Vectors /\ got[next] = NoVerdict
        BY <1>1, <2>1, CorpusFacts DEF Abort, AtVector, Vectors, LoopInv
      <3>2. PICK j \in ExpectedFile(next) :
              \/ corpus[j].kind = "not_json"
              \/ corpus[j].kind = "expectation" /\ ~Declared(j).pending_layer_2
        BY <2>1 DEF Abort
      <3>3. corpus[j].kind = "expectation" => Want(Declared(j)) # NoVerdict
        BY <1>1, <3>1, <3>2, CorpusFacts, CorporaAssumption, ExitFacts DEF Want, Declared
      <3> QED
        BY <3>1, <3>2, <3>3 DEF Mismatch
    <2>2. CASE Finish
      <3>1. PICK i \in failures : TRUE
        BY <1>7, <2>2 DEF Finish
      <3>2. i \in Compared /\ i \in DOMAIN corpus /\ i < next
        BY <1>1, <2>2, CorpusFacts DEF DataInv, Compared, Finish
      <3>3. PICK j \in ExpectedFile(i) : Settled(i, j)
        BY <1>1, <3>2 DEF LoopInv
      <3> QED
        BY <1>1, <3>1, <3>2, <3>3 DEF Settled, Mismatch, LoopInv
    <2> QED
      BY <2>1, <2>2
  <1>8. ExitInv'
    BY <1>1, <1>2, <1>3, <1>6, <1>7 DEF ExitInv
  <1> QED
    BY <1>4, <1>5, <1>8 DEF IInv

LEMMA InvStep == IInv /\ [Next]_vars => IInv'
  <1> SUFFICES ASSUME IInv, [Next]_vars PROVE IInv'
    OBVIOUS
  <1>1. CASE SkipExpectedFile
    BY <1>1, PassStep DEF SkipExpectedFile, Vectors
  <1>2. CASE WarnNoExpectation
    BY <1>2, PassStep DEF WarnNoExpectation, AtVector
  <1>3. CASE SkipPending
    BY <1>3, PassStep DEF SkipPending, AtVector, Vectors
  <1>4. CASE Compare
    BY <1>4, CompareStep
  <1>5. CASE Abort \/ Finish
    BY <1>5, EndStep
  <1>6. CASE UNCHANGED vars
    BY <1>6 DEF vars, IInv, DataInv, LoopInv, ExitInv, Compared, Vectors, ExpectedFile,
                Beside, Settled, Mismatch, Declared
  <1> QED
    BY <1>1, <1>2, <1>3, <1>4, <1>5, <1>6 DEF Next

\* What every reachable state of the command satisfies.
THEOREM Invariance == Spec => []IInv
  BY InvInit, InvStep, PTL DEF Spec

-----------------------------------------------------------------------------
(* Where a verdict and an abnormal end come from.                          *)

\* Every verdict that was compared is one verify() can give to the document.
AnswerInv == \A i \in Compared : got[i] \in Answers(corpus[i].content)

\* What makes main() raise at a file.
Broken(i, j) ==
  \/ corpus[j].kind = "not_json"
  \/ corpus[i].kind = "not_json"
  \/ Raises(corpus[i].content)

\* The command stops early at a broken file only.
AbortInv ==
  exit = 1 => \/ next = Len(corpus) + 1
              \/ next \in Vectors /\ \E j \in ExpectedFile(next) : Broken(next, j)

LEMMA AnswersStay ==
  ASSUME UNCHANGED opa, NEW d
  PROVE  Answers(d)' = Answers(d)
  BY DEF Answers, Call!Promised, Call!Evaluable, Call!RulesVerdict

LEMMA OriginInit == Init => AnswerInv /\ AbortInv
  BY ExitFacts DEF Init, AnswerInv, AbortInv, Compared

LEMMA OriginStep == IInv /\ AnswerInv /\ AbortInv /\ [Next]_vars => AnswerInv' /\ AbortInv'
  <1> SUFFICES ASSUME IInv, AnswerInv, AbortInv, [Next]_vars
               PROVE  AnswerInv' /\ AbortInv'
    OBVIOUS
  <1>1. CASE SkipExpectedFile \/ WarnNoExpectation \/ SkipPending
    <2>1. UNCHANGED <<corpus, opa, got, exit>> /\ exit = NoExit
      BY <1>1 DEF SkipExpectedFile, WarnNoExpectation, SkipPending, AtVector, PassOver
    <2>2. AnswerInv'
      BY <2>1, AnswersStay DEF AnswerInv, Compared
    <2> QED
      BY <2>1, <2>2, ExitFacts DEF AbortInv
  <1>2. CASE Compare
    <2>1. /\ UNCHANGED <<corpus, opa, exit>> /\ exit = NoExit /\ next \in DOMAIN corpus
          /\ got \in [DOMAIN corpus -> Verdict \cup {NoVerdict}]
      BY <1>2 DEF Compare, AtVector, IInv, DataInv
    <2>2. PICK verdict \in Answers(corpus[next].content) :
            got' = [got EXCEPT ![next] = verdict]
      BY <1>2 DEF Compare
    <2>3. ASSUME NEW i \in Compared'
          PROVE  got'[i] \in Answers(corpus[i].content)
      <3>1. CASE i = next
        BY <2>1, <2>2, <3>1
      <3>2. CASE i # next
        <4>1. got'[i] = got[i] /\ i \in Compared
          BY <2>1, <2>2, <2>3, <3>2 DEF Compared
        <4> QED
          BY <4>1 DEF AnswerInv
      <3> QED
        BY <3>1, <3>2
    <2>4. AnswerInv'
      BY <2>1, <2>3, AnswersStay DEF AnswerInv
    <2> QED
      BY <2>1, <2>4, ExitFacts DEF AbortInv
  <1>3. CASE Abort \/ Finish
    <2>1. UNCHANGED <<corpus, opa, next, got>>
      BY <1>3 DEF Abort, Finish
    <2>2. AnswerInv'
      BY <2>1, AnswersStay DEF AnswerInv, Compared
    <2>3. Vectors' = Vectors /\ \A i : ExpectedFile(i)' = ExpectedFile(i)
      BY <2>1 DEF Vectors, ExpectedFile, Beside
    <2>4. CASE Abort
      <3>1. next \in Vectors
        BY <2>4 DEF Abort, AtVector, Vectors
      <3>2. PICK j \in ExpectedFile(next) : Broken(next, j)
        BY <2>4 DEF Abort, Broken
      <3>3. Broken(next, j)'
        BY <2>1, <3>2 DEF Broken, Raises
      <3> QED
        BY <2>1, <2>2, <2>3, <3>1, <3>2, <3>3 DEF AbortInv
    <2>5. CASE Finish
      BY <2>1, <2>2, <2>5 DEF AbortInv, Finish
    <2> QED
      BY <1>3, <2>4, <2>5
  <1>4. CASE UNCHANGED vars
    <2>1. UNCHANGED <<corpus, opa, next, got, exit>>
      BY <1>4 DEF vars
    <2>2. AnswerInv'
      BY <2>1, AnswersStay DEF AnswerInv, Compared
    <2> QED
      BY <2>1, <2>2 DEF AbortInv, Vectors, ExpectedFile, Beside, Broken, Raises
  <1> QED
    BY <1>1, <1>2, <1>3, <1>4 DEF Next

\* Every verdict the command compares is one verify() promises, and it ends
\* early only at a broken file.
THEOREM VerdictsAreAnswers == Spec => [](IInv /\ AnswerInv /\ AbortInv)
  BY OriginInit, OriginStep, Invariance, PTL DEF Spec

-----------------------------------------------------------------------------
(* Every vector is verified by one call that keeps its promise.            *)

CONSTANT vector

\* The call of verify() for one vector, seen from outside.
OneCall ==
  INSTANCE VerifyPromise WITH
    document <- corpus[vector].content, skip_layer_2 <- FALSE,
    disturbed <- FALSE, answer <- got[vector]

LEMMA OneCallInit == Init /\ vector \in DOMAIN corpus => OneCall!Init
  BY DEF Init, OneCall!Init, NoVerdict

LEMMA CorpusStays == [Next]_vars => UNCHANGED corpus
  BY DEF Next, vars, SkipExpectedFile, WarnNoExpectation, SkipPending, Compare,
         Abort, Finish, PassOver

LEMMA OneCallStep ==
  IInv /\ vector \in DOMAIN corpus /\ [Next]_vars => [OneCall!Next]_(OneCall!vars)
  <1> SUFFICES ASSUME IInv, vector \in DOMAIN corpus, [Next]_vars
               PROVE  [OneCall!Next]_(OneCall!vars)
    OBVIOUS
  <1>1. /\ got \in [DOMAIN corpus -> Verdict \cup {NoVerdict}]
        /\ opa \in {"there", "missing", "fickle"} /\ next \in 1..(Len(corpus) + 1)
        /\ corpus \in Corpora /\ UNCHANGED corpus
    BY CorpusStays DEF IInv, DataInv
  <1>2. CASE Compare /\ next = vector
    <2>1. got[vector] = NoVerdict
      BY <1>1, <1>2, CorpusFacts DEF IInv, LoopInv
    <2>2. got'[vector] \in Answers(corpus[vector].content)
      BY <1>1, <1>2 DEF Compare
    <2>3. got'[vector] \in OneCall!Promised(corpus[vector].content, FALSE)
      BY <1>1, <2>2
      DEF Answers, Call!Promised, Call!Evaluable, Call!RulesVerdict,
          OneCall!Promised, OneCall!Evaluable, OneCall!RulesVerdict
    <2>4. OneCall!Answer
      BY <1>1, <2>1, <2>3 DEF OneCall!Answer, NoVerdict
    <2> QED
      BY <2>4 DEF OneCall!Next
  <1>3. CASE Compare /\ next # vector
    <2>1. got'[vector] = got[vector]
      BY <1>1, <1>3 DEF Compare
    <2> QED
      BY <1>1, <2>1 DEF OneCall!vars
  <1>4. CASE ~Compare
    <2>1. UNCHANGED got
      BY <1>4 DEF Next, vars, SkipExpectedFile, WarnNoExpectation, SkipPending,
                  Abort, Finish, PassOver
    <2> QED
      BY <1>1, <2>1 DEF OneCall!vars
  <1> QED
    BY <1>2, <1>3, <1>4

\* Each file of the corpus is verified by at most one call, which answers at
\* most once and as verify() promises on an undisturbed bundle; the loops
\* never go back to a vector they have compared.
THEOREM EachVectorIsOneCall == Spec /\ vector \in DOMAIN corpus => OneCall!Spec
  <1>1. vector \in DOMAIN corpus /\ [Next]_vars => (vector \in DOMAIN corpus)'
    BY CorpusStays
  <1> QED
    BY <1>1, OneCallInit, OneCallStep, Invariance, PTL DEF Spec, OneCall!Spec

-----------------------------------------------------------------------------
(* The properties.                                                         *)

LEMMA DisjointUnion ==
  ASSUME NEW S, NEW T, IsFiniteSet(S), IsFiniteSet(T), S \cap T = {}
  PROVE  Cardinality(S \cup T) = Cardinality(S) + Cardinality(T)
  <1>1. Cardinality(S) \in Nat /\ Cardinality(T) \in Nat /\ Cardinality(S \cap T) = 0
    BY FS_CardinalityType, FS_EmptySet
  <1>2. Cardinality(S \cup T) = Cardinality(S) + Cardinality(T) - Cardinality(S \cap T)
    BY FS_Union
  <1> QED
    BY <1>1, <1>2

\* The compared, the skipped and the passed over are different vectors.
LEMMA Typed == IInv => TypeOK
  <1> SUFFICES ASSUME IInv PROVE TypeOK
    OBVIOUS
  <1> DEFINE S == {i \in Vectors : ExpectedFile(i) = {}}
  <1>1. DataInv /\ LoopInv /\ corpus \in Corpora
    BY DEF IInv, DataInv
  <1>2. /\ Compared \subseteq Vectors /\ skipped \subseteq Vectors /\ S \subseteq Vectors
        /\ Compared \cap skipped = {} /\ (Compared \cup skipped) \cap S = {}
    BY <1>1 DEF DataInv, LoopInv
  <1>3. IsFiniteSet(Vectors)
    BY <1>1, CorpusFacts, FS_Subset
  <1>4. /\ IsFiniteSet(Compared) /\ IsFiniteSet(skipped) /\ IsFiniteSet(S)
        /\ IsFiniteSet(Compared \cup skipped)
    BY <1>2, <1>3, FS_Subset, FS_Union
  <1> HIDE DEF S
  <1>5. Cardinality(Compared \cup skipped) = Cardinality(Compared) + Cardinality(skipped)
    BY <1>2, <1>4, DisjointUnion
  <1>6. Cardinality((Compared \cup skipped) \cup S)
          = Cardinality(Compared \cup skipped) + Cardinality(S)
    BY <1>2, <1>4, DisjointUnion
  <1>7. Cardinality((Compared \cup skipped) \cup S) <= Cardinality(Vectors)
    BY <1>2, <1>3, FS_Subset
  <1>8. ran + Cardinality(skipped) + Cardinality(S) <= Cardinality(Vectors)
    BY <1>1, <1>5, <1>6, <1>7 DEF DataInv
  <1> QED
    BY <1>1, <1>2, <1>8 DEF TypeOK, DataInv, Compared, S

\* Every variable keeps its type, and the summary line counts no vector twice.
THEOREM TypeCorrect == Spec => []TypeOK
  BY Typed, Invariance, PTL

LEMMA LeastOf ==
  ASSUME NEW S \in SUBSET (1..3), NEW n \in S, \A l \in S : n <= l
  PROVE  (CHOOSE k \in S : \A l \in S : k <= l) = n
  <1> DEFINE m == CHOOSE k \in S : \A l \in S : k <= l
  <1>1. m \in S /\ \A l \in S : m <= l
    OBVIOUS
  <1>2. m <= n /\ n <= m /\ m \in 1..3 /\ n \in 1..3
    BY <1>1
  <1> QED
    BY <1>2

LEMMA WantIsDeclared == \A e : Want(e) = DeclaredVerdict(e)
  <1> SUFFICES ASSUME NEW e PROVE Want(e) = DeclaredVerdict(e)
    OBVIOUS
  <1> DEFINE there == {k \in DOMAIN Priority : e[Priority[k]] # Missing}
             first == CHOOSE k \in there : \A l \in there : k <= l
  <1>1. /\ DOMAIN Priority = 1..3 /\ Priority[1] = "v0_2_expected"
        /\ Priority[2] = "verdict" /\ Priority[3] = "v0_1_expected"
    BY DEF Priority
  <1>2. /\ 1 \in there <=> e.v0_2_expected # Missing
        /\ 2 \in there <=> e.verdict # Missing
        /\ 3 \in there <=> e.v0_1_expected # Missing
        /\ there \subseteq {1, 2, 3}
    BY <1>1
  <1>3. DeclaredVerdict(e) = IF there = {} THEN Missing ELSE e[Priority[first]]
    BY DEF DeclaredVerdict
  <1> HIDE DEF there
  <1>4. CASE e.v0_2_expected # Missing
    <2>1. 1 \in there /\ \A l \in there : 1 <= l
      BY <1>2, <1>4
    <2>2. first = 1
      BY <1>2, <2>1, LeastOf
    <2> QED
      BY <1>1, <1>2, <1>3, <1>4, <2>1, <2>2 DEF Want
  <1>5. CASE e.v0_2_expected = Missing /\ e.verdict # Missing
    <2>1. 2 \in there /\ \A l \in there : 2 <= l
      BY <1>2, <1>5
    <2>2. first = 2
      BY <1>2, <2>1, LeastOf
    <2> QED
      BY <1>1, <1>2, <1>3, <1>5, <2>1, <2>2 DEF Want
  <1>6. CASE e.v0_2_expected = Missing /\ e.verdict = Missing /\ e.v0_1_expected # Missing
    <2>1. 3 \in there /\ \A l \in there : 3 <= l
      BY <1>2, <1>6
    <2>2. first = 3
      BY <1>2, <2>1, LeastOf
    <2> QED
      BY <1>1, <1>2, <1>3, <1>6, <2>1, <2>2 DEF Want
  <1>7. CASE e.v0_2_expected = Missing /\ e.verdict = Missing /\ e.v0_1_expected = Missing
    <2>1. there = {}
      BY <1>2, <1>7
    <2> QED
      BY <1>3, <1>7, <2>1 DEF Want
  <1> QED
    BY <1>4, <1>5, <1>6, <1>7

LEMMA OnePartStays ==
  ASSUME NEW name, Len(name) = 1
  PROVE  WithoutSuffix(name) = name
  <1>1. ~(Len(name) > 1)
    OBVIOUS
  <1> QED
    BY <1>1 DEF WithoutSuffix

LEMMA OneOrTwo ==
  ASSUME NEW n \in Nat, n >= 1, ~(n > 2)
  PROVE  n = 1 \/ n = 2
  OBVIOUS

LEMMA OwnExpected ==
  ASSUME NEW name \in Seq(STRING), Len(name) >= 1, ~(Len(name) > 2)
  PROVE  ExpectedName(name) = OwnExpectedName(name)
  <1>1. Len(name) = 1 \/ Len(name) = 2
    <2>1. Len(name) \in Nat
      BY LenProperties
    <2> QED
      BY <2>1, OneOrTwo
  <1>2. Len(WithoutSuffix(name)) = 1
    <2>1. CASE Len(name) = 1
      BY <2>1, OnePartStays
    <2>2. CASE Len(name) = 2
      <3>1. WithoutSuffix(name) = SubSeq(name, 1, 1)
        BY <2>2 DEF WithoutSuffix
      <3>2. Len(SubSeq(name, 1, 1)) = 1
        BY <2>2, SubSeqProperties
      <3> QED
        BY <3>1, <3>2
    <2> QED
      BY <1>1, <2>1, <2>2
  <1>3. WithoutSuffix(WithoutSuffix(name)) = WithoutSuffix(name)
    BY <1>2, OnePartStays
  <1> QED
    BY <1>3 DEF ExpectedName, OwnExpectedName

\* The name the command looks for is the vector's own, without a dot in the
\* basename.
LEMMA OwnName ==
  ASSUME corpus \in Corpora, NEW i \in DOMAIN corpus, ~Dotted(i)
  PROVE  ExpectedFile(i) = Beside(i, OwnExpectedName(corpus[i].name))
  <1>1. \A c \in Corpora : \A k \in DOMAIN c :
          c[k].name \in Seq(STRING) /\ Len(c[k].name) >= 1
    BY CorporaAssumption, Zenon
  <1>2. corpus[i].name \in Seq(STRING) /\ Len(corpus[i].name) >= 1
    BY <1>1, Zenon
  <1>3. ExpectedName(corpus[i].name) = OwnExpectedName(corpus[i].name)
    BY <1>2, OwnExpected, Zenon DEF Dotted
  <1> QED
    BY <1>3 DEF ExpectedFile

LEMMA Reflects == IInv => ExitReflectsCorpus
  <1> SUFFICES ASSUME IInv, exit # NoExit, \A i \in Vectors : ~Dotted(i)
               PROVE  exit = 0 <=>
                        \A i \in Vectors :
                          \A j \in Beside(i, OwnExpectedName(corpus[i].name)) :
                            /\ corpus[j].kind = "expectation"
                            /\ \/ Declared(j).pending_layer_2
                               \/ got[i] = DeclaredVerdict(Declared(j))
    BY DEF ExitReflectsCorpus
  <1>1. DataInv /\ LoopInv /\ ExitInv /\ corpus \in Corpora /\ exit \in {0, 1}
    BY DEF IInv, DataInv
  <1>2. \A i \in Vectors : ExpectedFile(i) = Beside(i, OwnExpectedName(corpus[i].name))
    BY <1>1, OwnName, CorpusFacts
  <1>3. ASSUME exit = 0, NEW i \in Vectors, NEW j \in ExpectedFile(i)
        PROVE  ~Mismatch(i, j)
    <2>1. i < next /\ i \notin failures
      BY <1>1, <1>3, CorpusFacts DEF ExitInv
    <2> QED
      BY <1>1, <2>1 DEF LoopInv, Settled, Mismatch
  <1>4. exit = 1 => \E i \in Vectors : \E j \in ExpectedFile(i) : Mismatch(i, j)
    BY <1>1 DEF ExitInv
  <1> QED
    BY <1>1, <1>2, <1>3, <1>4, WantIsDeclared DEF Mismatch

\* The exit code is 0 exactly if every vector is pending or as declared.
THEOREM ExitAlwaysReflectsCorpus == Spec => []ExitReflectsCorpus
  BY Reflects, Invariance, PTL
=============================================================================
