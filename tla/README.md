# A specification of the SCC verifier

`src/` is `scc-verify`: a Python package that verifies a Standard Contractual
Clauses document in canonical JSON form against a JSON schema (Layer 1) and a
bundle of Rego rules run with OPA (Layer 2), and issues a signed attestation
that commits to the bundle by its hash. A third party verifies the attestation
later, with a public key or with a key registry. This directory models that
program in TLA+, checks it with TLC on small instances, and proves its most
important properties with TLAPS for every instance.

Line references below are to files under `src/`; `api.py` and the other bare
names are in `src/scc_verifier/`.

## 1. The system

| Component | State it keeps | Operations | Interacts with |
|---|---|---|---|
| `verify()` pipeline (`api.py`, `models.py`) | the locals of one call: Layer 1 check, bundle check, Layer 2 checks, the attestation | `verify()`, `verdict_from_checks`, `summary` | calls every component below; reads the bundle several times |
| Schema validator (`schema_validator.py`) | none; loads a schema file at each call | `validate_scc`, `validate_attestation_envelope`, `validate_public_key_registry` | reads `schemas/` |
| Rego evaluator (`rego_evaluator.py`) | `opa_bin` and the results of one evaluation | `find_opa`, `is_opa_available`, `evaluate_rules`, `_opa_eval`, `_extract_result` | environment variable, PATH, `rules/`, one subprocess per rule with a 30 s timeout |
| Schema and rules (`schemas/scc-canonical-v1.json`, `rules/`) | the files on disk | the JSON schema's conditions, nine registered rules | read by the two above, hashed by the next one |
| Bundle hashing (`bundle.py`) | the files listed | `_bundle_files`, `bundle_manifest`, `compute_bundle_hash` | reads every file of the bundle, for `verify()` and `bundle info` |
| Signing (`signing.py`) | key files | generate, save, load, sign, verify | `keygen`, `verify()`, the attestation verifier |
| Attestation verifier (`attestation_verifier.py`) | none | `verify_attestation_envelope` with a key or a registry | schema validator, key registry, signing |
| Key registry (`key_registry.py`, `docs/public-key-registry.md`) | a registry fetched from a URL or a file | `load_registry`, `find_key_for_envelope` | an operator outside the program rotates, revokes and publishes |
| CLI (`cli.py`) | arguments, output files, exit code | `verify`, `run-vectors`, `bundle info`, `keygen`, `verify-attestation`, `keys list` | everything above |
| Canonicalization (`canonicalization.py`) | none | `canonicalize`, `sha256_canonical` | the `jcs` library |

### What is hard here

The program is sequential, but it shares the world with others while it runs,
and its results outlive it:

* One call of `verify()` reads the bundle three times: the schema for Layer 1,
  the rules once per `opa eval`, and every file again for the hash. The files
  can change in between (`api.py:375`, `bundle.py:105`).
* OPA is looked for twice (`api.py:321`, `rego_evaluator.py:224`), started once
  per rule, and can be missing, fail, or hang at any of them. Layer 2 can end in
  a dozen ways, some in the middle of the rules, and each must end in the right verdict
  (`api.py:321-367`). A rule that reads a field the document lacks has no result
  at all, so what Layer 1 requires decides whether Layer 2 can be completed.
* A verdict is computed from the statuses of all checks (`api.py:155`) and falls
  through to `PASS`. `NOT_APPLICABLE` does not stop a `PASS`; that it is never
  alone is a property of the whole pipeline together with the schema.
* `verify` on the command line turns the verdict into an exit code that gates
  pipelines, partly by comparing text (`cli.py:60`), and can fail between opening
  `--out` and having written it (`cli.py:109`).
* `bundle info` lists and reads the bundle twice, once for the manifest and once
  for the hash (`cli.py:216`), and the order in which files are hashed is that of
  `pathlib` paths, which depends on the machine (`bundle.py:85`).
* `keygen` looks at its paths once and writes them later in several steps, each of
  which can fail or be the last one (`cli.py:247-265`, `signing.py:62-78`); other
  invocations may use the same paths.
* `run-vectors` skips, warns and compares by file name (`cli.py:160-199`); its exit
  code says something only about the vectors that were compared.
* An attestation is verified at any later time, with a registry that has been
  rotated, has revoked keys, or is an old copy.

PROJECT.json lists these and the others as hazards, each with the properties
that would catch it.

### What makes each component correct

* pipeline: a verdict of the PASS class only after a complete evaluation under
  the required bundle; Layer 2 all or nothing; a reason for everything that was
  not evaluated; an answer always; the verdict the docstring promises;
* schema and rules: whatever the schema accepts the rules can evaluate; the two
  layers agree where they overlap; counsel's questions stay counsel's;
* bundle: what the attestation commits to is what was used; two equal hashes mean
  one bundle; the manifest shows what the hash commits to;
* `keygen`: no key is lost without `--force`, two halves of different pairs do
  not come to lie side by side, exit code 0 means a whole pair, and a key that
  others can read is explained;
* `run-vectors`: exit code 0 exactly if the corpus is as declared, and for the
  declared reasons;
* CLI `verify`: exit code 0 is earned; nothing reaches the output unchecked;
* attestations: accepted means unchanged and signed by the named key; a
  rotation breaks no old attestation; a retired key's later signatures and a
  revoked key's signatures are not accepted.

## 2. The modules

    Verdicts          statuses, verdict_from_checks, summary
      VerifyPromise   what verify() promises; VerifyPipeline implements it
      VerifyPipeline  one call of verify(), its environment, its properties
        SccVerify     VerifyPipeline composed with SccRules
          MCVerify    documents and registries for TLC
        CliVerify     scc-verify verify around VerifyPipeline
          MCCli       instances for TLC
      RunVectors      scc-verify run-vectors around calls that keep VerifyPromise
        MCVectors     the shipped corpus and small ones
    SccRules          the shipped schema and rules as operators
      SccCorpus       the shipped test vectors as documents of SccRules
    PathOrder         the orders of paths and of strings
    Bundle            the two passes over a bundle, scc-verify bundle info
      MCBundle        checkouts for TLC (with PathOrder)
    Keygen            scc-verify keygen
      MCKeygen        instance for TLC
    AttestationTrust  registry, operator, verify-attestation
      MCTrust         instances for TLC
    VerifyPipeline_proofs, CliVerify_proofs, SccVerify_proofs, Bundle_proofs,
    Keygen_proofs, RunVectors_proofs, MCVectors_proofs,
    AttestationTrust_proofs                                        theorems

**VerifyPipeline** has one action for every stretch of `verify()` between two
accesses to what others can change: `ValidateSchema`, `MatchBundle`,
`SkipLayer2` (the branch of `api.py:294-320`), `OpaNotAvailable` and
`OpaAvailable` (`is_opa_available`), `PrepareEvaluation` (`find_opa` again),
`EvaluateRule` / `RuleIsUndefined` / `OpaCannotStart` / `OpaFails` /
`OpaTimesOut` (one `_opa_eval`), `CollectResults`, `ListBundle`, `HashFile` (one
file at a time), `Sign`, and the ones in which an exception leaves `verify()`.
`ChangeFile` and `MoveOpa` are the environment. A file's content is the number
of the edit that wrote it, `Shipped` or `Absent`; a hash is the manifest it
commits to. `seen` and `touched` are history variables: the contents checks were
based on, and the files that changed during the call. What the schema and the rules decide are
constant operators, so the theorems hold for every registry and document set;
an edited schema or rule file may decide anything.

**SccRules** has a document as a record of what the schema and the rules tell
apart (which required paths are absent, the template and the roles, the two
windows, jurisdiction, forum, sensitive categories; one Boolean for every other
constraint), `Conforms` for Layer 1 and one operator for each rule.

**VerifyPromise** is the abstract specification, after the docstring of
`verify()`: the call answers at most once; on an undisturbed bundle a document
that does not conform gets `FAIL`, a skipped evaluation `INCOMPLETE`, and any
other one `INCOMPLETE` or the rules' verdict; it raises only for something that is
not a JSON object, or has no canonical form (`json.loads` accepts `NaN`, RFC 8785
does not). `VerifyPipeline!Promise` is the refinement mapping.

**CliVerify** adds `_cmd_verify`: path checks (exit 2), unreadable input (1),
the call, the self-check against the envelope schema (3), stdout or `--out` with
a truncating open, either of which can fail half way, and the exit code, with
`--allow-incomplete-without-opa`. When only the flush of stdout at the
interpreter's exit fails, the code is 120; the 1 of `PrintFails` stands for it.

**Bundle** has several readers, each a `bundle info` in a checkout of its own on
a POSIX or a Windows machine: `Glob` (one pattern at a time: `_bundle_files`
fills a set), `ListFiles`, `ReadFile`, `FileIsGone` (the exception of
`read_bytes()`), `StartHash` (the second pass starts from nothing), `EmptyBundle`
and `PrintInfo`; `Edit` changes any path of a running reader's checkout between any two of
them, also into a directory. The outer hash is the sequence of entries fed to it;
`changed` is a history variable. The order of files is a constant operator that
`PathOrder` gives its value: part by part, case folded on Windows.

**Keygen** has invocations that share a disk: the look at `--out` and at
`--public-out`, then for each key the truncating open, the write and (for the
private key) the `chmod`. `SaveFails` is an `OSError` of an open or of a write, which
can tear the file; `Chmod` sets the mode or fails, for whatever reason, and goes on
either way, as `signing.py:68-72` does; `Crash` is a kill anywhere. `existed`,
`wrote` and `unlocked` (the invocations whose `chmod` failed) are history variables.

**RunVectors** runs over a corpus, a sequence of files, with one action for
every way a vector can be passed over, skipped, compared or abort the command.
The verdict of a vector is any that `VerifyPromise` allows on an undisturbed bundle: this
is where the abstract specification is used in place of the pipeline. With OPA
there at every rule, or never, it is narrower: `WithOpaTheRulesDecide` and
`WithoutOpaAsIfSkipped` prove that the pipeline answers so.

**AttestationTrust** has the operator (`Rotate`, `Revoke`, `Publish`), who is
not part of `src/` and follows `docs/public-key-registry.md`, a third party who
may hold an older copy (`Download`), one attestation (`Issue`; `Edit` changes one
of its fields in the file), and `verify-attestation` in three steps (load the attestation, load
the registry or the key, verify), run again and again. A signature is the pair
of key and payload. `ledger` is a history variable with the dates the operator
really activated, retired and revoked each key; the properties compare what is
accepted with it, not with the registry's own entries. `Mistakes` is the set of
ways in which the operator departs from the procedure although the schema accepts
the result: it is empty in the run that claims the properties, and each theorem names the one
mistake it does not survive.

Definitions named "Mutant" in a comment are plausible wrong versions of the
definition after them, used to see that the properties notice the difference.

## 3. The runs

| Run | Question | Bounds |
|---|---|---|
| `verify_env` | do the pipeline's properties hold while the bundle and OPA change under it; does every call end, and keep `VerifyPromise` | 7 documents, one of each kind the control flow tells apart; 3 rules, so that an evaluation can fail after none, some or all but one; 2 files (the schema and a rule file, enough to empty the bundle); 2 edits |
| `verify_documents` | do schema and rules fit together, can a late notification window pass, is the verdict the promised one, is a broken-off evaluation as good as a skipped one, and when is an envelope invalid | all 9 rules; every document with up to two deviations from the known-good vector; no edits; OPA may be there or not, fail or hang |
| `cli_verify` | what exit code 0 and a written envelope mean; does the command end | 6 documents, one Layer 2 rule, 3 files, 1 edit, all arguments |
| `bundle_info` | is what is printed of an untouched file true in both passes; what two equal hashes mean; does the command end | a POSIX and a Windows checkout, 2 files whose order depends on case, a pattern for each, 1 edit |
| `keygen` | which files survive failures, kills and overlapping runs, with what mode, and what the exit codes say of them | 2 invocations, one pair of paths or one path for both keys |
| `run_vectors` | what the exit code says; do the shipped verdicts have the declared reason | the shipped corpus, one with a dotted name, and all small ones of two categories with one vector each; OPA there, missing or fickle |
| `trust_registry` | what an accepted attestation means; does a rotation keep the old ones | 2 keys, 4 dates (0..3): two registry changes and a verification between any of them |

The small numbers suffice because the properties speak of one file, one rule,
one vector or one key at a time and of its relation to one other: two edits put a file
through three contents, three rules separate "the failing one" from one before
and one after it, two categories separate a failure from the loop that found it, and two keys
are the retiring and the new one. The theorems below remove the bounds for every
invariant of every passing run, for the refinement and for the action property
`UnforcedKeepsFiles`.

Five runs end in a violation, each of one property that the repository states
and the code does not keep in a corner:

* `bundle_commitment`: `bundle.py:6-8` says that an attestation commits to "the
  exact bundle content it was evaluated under". A file edited after a check read it
  (in the trace the schema, after Layer 1) is hashed with its new content.
  (`UntouchedFilesAreCommitted` is what does hold, and is proved.)
* `bundle_stability`: `bundle.py:19-21` says that "the hash is stable across
  machines", because the file list is sorted. What is sorted are path objects, and
  on Windows these compare without regard to case, so two names that differ in case
  can be hashed in another order there. No two shipped files are in that position.
  (`HashTellsBundlesApart` is what does hold: machines that sort alike agree.)
* `bundle_recipe`: `bundle.py:91-92` publishes a recipe "any implementation can
  reproduce" that sorts by POSIX relative path; the code sorts path objects.
  The two differ when a directory is named like a file beside it without its suffix.
* `trust_binding`: `attestation_verifier.py:74` speaks of key binding, and with a
  registry `verification_method_matches_key` is `True` although nothing compared
  the entry's id with its PEM (`key_registry.py:93`).
* `trust_revocation`: the documentation says that revoked keys are never
  trusted; the first entry with an id decides and ids need not be unique.

In the last two the registry is one that the schema accepts and the
documented procedure does not produce.

Some properties hold only under a condition, which they state. In four of them
it is a sentence of the repository that is too wide:

* `InvalidOnlyForTheId`: `tests/test_attestation_envelope.py:3-4` says that every
  attestation `verify()` emits validates against the envelope schema. With an
  `scc_id` that is not a string it does not, because `api.py:372` copies what it
  finds. The property says that this happens, only then, and only beside a
  `FAIL`; the CLI's self-check catches it (`OutputWasChecked`).
* `HashTellsBundlesApart` asks for machines that sort the files alike, where
  `bundle.py:19-21` promises one hash on all of them (run `bundle_stability`).
* `ExitReflectsCorpus` leaves out dotted basenames: `a.v2.json` is compared with
  `a.expected.json`, where the docstring at `cli.py:140` names
  `<basename>.expected.json`. No shipped vector has a dot in its basename.
* `UnlockedKeysAreExplained`: `cli.py:263` prints "(mode 0600)", and the
  docstring of `save_private_key` allows for file systems without modes. Any `OSError`
  of `chmod` is passed over, also that of a file of another user that `--force`
  has overwritten: exit code 0 does not exclude a key with another mode.

What lies outside the others is what the code does and nobody promises otherwise:

* `ExitZeroIsEarned` asks for OPA's absence as `is_opa_available` reports it: when
  OPA goes missing after that, the details are worded otherwise and
  `--allow-incomplete-without-opa` does not apply (`cli.py:60`).
* `UnforcedKeepsFiles` lets an overlapping `keygen` overwrite a key that came after
  its look at the paths; `ExitZeroMeansPair` says that one path for both keys loses
  the private key.
* `UntouchedInBoth` is about untouched files: manifest and hash come from two
  passes, and a file edited in between is printed with one content and hashed with another.
* `RevokedIsNeverTrusted` speaks of a registry as of its date: a later revocation is
  not seen by who does not fetch it.
* `AcceptedKeyWasInForce` takes an operator who dates a retirement: `not_after` is
  optional for every status. No run has an operator who does not; the theorem
  `AcceptedInForce` names that mistake as its condition.

Deadlock checking is off in every run: a call that returned, a command that
exited and a clock at its bound stop.

### Bounds and simplifications

* `MaxEdits` bounds the changes of the bundle during one call, `MaxTime` the
  clock of the registry; `OpaMoves` says whether the OPA binaries come and go.
* An edited rule answers with any status, also an unknown one, but under its own
  id. An edited schema accepts or rejects anything.
* A document has a canonical form or none; which form is of no interest, since a hash
  or a signature is modelled by what it is made from.
* Every `keygen` has a fresh pair. A torn file is anything short of a whole key.
* `_bundle_files` asks `is_file()` of one match after the other; all of these are the
  one step `ListFiles` (`ListBundle` in the pipeline, where the patterns are, too).
* The bundle under `run-vectors` does not change; OPA may come and go between calls.
* Timestamps have one unit, and no two registries have the same `generated_at`;
  a rotation happens at a later moment than anything that was signed before. An
  attestation dated at the very moment of the rotation belongs to the new key.
* Signatures are ideal: one verifies exactly for the key and payload it was made from.

### Fairness

`verify_env`, `verify_documents`, `cli_verify` and `bundle_info` assume weak
fairness of the process's own steps (`OwnStep`; `CliStep` for the CLI; the steps of
each reader): a Python process that can go on does. Nothing is assumed of OPA,
which may hang at every rule, nor of those who edit files. What ends the wait for OPA
is the 30 s timeout of `rego_evaluator.py:205`, whose firing (`OpaTimesOut`) is a
step of the process; without it `Termination` fails, which is the mutant
`OpaIsWaitedFor`. What ends `bundle info` is that each pass lists the files once.
`keygen` can be killed at any step, so nothing is claimed of its end.

## 4. What is proved

All theorems are checked by TLAPS, for every value of the constants that
satisfies the named assumptions; TLC evaluates those assumptions in the runs. Every
proof is of the same form: an `IInv` that holds initially and is preserved by
every action (`InvInit`, `InvStep`), and implies the property.

**VerifyPipeline_proofs** assumes `RegistryAssumption`, `FilesAssumption`,
`SchemaAssumption` (what the shipped schema accepts is an object whose
`rule_bundle_required` and `scc_id` are strings) and `RulesAssumption`, and proves, for every
registry, document set, set of files and number of edits:
`TypeCorrect`, `PassClassIsBacked`, `Layer2AllOrNothing`,
`PlaceholdersExplained`, `UntouchedAreCommitted`, `BrokenOffAsSkipped`,
`ValidExceptForTheId`, and `ImplementsPromise` (`Spec => KeepsPromise`, the refinement). None of these is inductive: the
statement about an issued attestation says nothing of the call before it. `IInv`
adds what holds on the way: `FrontInv` (what the first two checks say of the
document, and that `evaluate` is reached only past them), `CollectedInv` (which
rules have results), `Layer2Inv` (Layer 2 ended in one of three ways, the same
for all rules), `AttInv` (the attestation is the one of the present variables)
and `CommitInv` (what was seen of an untouched file is what is there, and what
the manifest says once it is read).

Three more theorems say what a run cannot ask, because they are about some of the
behaviours only or need arithmetic over all sizes:

* `WithOpaTheRulesDecide` and `WithoutOpaAsIfSkipped`: over the behaviours in which
  OPA never gives up (`[][~OpaGivesUp]_vars`) the verdict on an undisturbed bundle is exactly
  the rules', and over those in which no OPA is ever found it is that of a skipped
  Layer 2. Each needs one more invariant beside `IInv`: `OpaWorked`, `NothingEvaluated`.
* `CallsAreBounded`: `StepsLeft`, at most the number of rules and files and seven, goes
  down with every step of the call or of OPA and is untouched by the environment.
  This is the safety half of `Termination`: nothing is retried or begun anew, and
  no editor can keep a call busy. It uses that the bundle is a finite set of files.

**AttestationTrust_proofs** assumes `TrustAssumption`. Its `IInv` holds for
whatever mistakes the operator makes: what it says of a registry is relative to
the mistakes that can have been made. For every set of keys and every length of
the history it proves `RevokedNeverTrusted` (unless a revocation can be a second
entry), `AcceptedInForce` (unless a key can be retired without a date),
`HistoryVerifies`, `AcceptedAsIssued` and `MethodNamesTheKey` (unless an entry can
hold another key's PEM), and, with no such condition, `AcceptedAsSigned`: an accepted
attestation is as it was signed, by the very key its signature was checked with. So
the two runs that end in a violation show the only mistake that matters to their
property. The invariant relates each registry someone holds to the ledger:
`Kept(reg, ledger)` says that every key activated by the registry's date has an
entry, that the first one agrees with the ledger as of that date, and where any
other can come from; so old copies stay truthful about their own time. It is
preserved because the ledger is only ever completed with later dates
(`KeptLater`), and a rotation or revocation turns one kept registry into another
(`RotatedIsKept`, `MarkedIsKept`, `AddedIsKept`). `EnvelopeInv` keeps the
signature as issued, and the window of an authorized key; `ResultInv` ties a
result to the attestation and registry it was computed from.

**CliVerify_proofs** builds on the pipeline's `IInv`: seen from the call, every
step of the command is a step of the call or a stutter (`CliStepIsCallStep`), and a
call that has issued its attestation changes nothing more (`IssuedIsFinal`).
`CliIInv` adds `OutputInv` (nothing is written before the self-check has let the
envelope through) and `ExitInv`. Proved: `CliTypeCorrect`,
`ExitZeroEarnedAlways`, `OutputCheckedAlways`; `CommandRunsOneCall`
(`CliSpec => Spec`: every theorem about a call is one about the command), with it
`CommandKeepsPromise`; and `CommandsAreBounded`, which adds the command's own five
steps to `StepsLeft`.

**SccVerify_proofs** additionally assumes `ShippedBundle`: the parameters are
what `SccRules` decides. `TotalInv` says that an evaluation on the undisturbed
bundle never met an undefined rule, which needs that every rule is defined on
every document that conforms. Proved for every set of documents:
`RulesAreTotal`, `Layer1Covers`, and for the whole registry
`CounselAlwaysDecides`, `SdaiaWindowIsLayer1s` and `LateWindowsAlwaysFail`. The first
and the last rest on `PassedIsRules`: behind a PASS-class verdict stand a document
that conforms and the results of all rules.

**Bundle_proofs** assumes that sorting keeps every path once
(`SortedAssumption`), whatever the order. `IInv` follows the files nobody
touched: they are matched exactly if a pattern so far matches them (`GlobInv`), listed exactly
if they are of the bundle (`ListInv`), in the manifest once read (`ManifestInv`),
and hashed with the content they have (`HashInv`). Proved: `TypeCorrect`,
`UntouchedAlwaysInBoth`, `HashAlwaysTellsApart` (equal hashes mean one bundle, one
bundle means equal hashes under one order), and `ReadersAreBounded`: a reader
takes at most the steps of two passes over the patterns and the (finitely many) paths,
because a list that `Sorted` makes has no path twice (`SortedLength`); neither
edits nor other readers give it more to do.

**Keygen_proofs** holds for any number of invocations, paths and flags. `IInv`
relates who wrote what to what lies on the disk; for `UnforcedPairsMatch` it also needs
that without overlap at most one invocation runs (`AloneInv`), and that unforced
ones find their paths free (`UnforcedInv`). `UnlockedKeysAreExplained` is itself a
conjunct of `IInv`: a private key comes from one write, after which only the
`chmod`, its failure or a kill lies ahead. Proved: `TypeCorrect`, `RefusalsChangeNothing`,
`PairsAreWhole`, `UnlockedAlwaysExplained`, `UnforcedPairsAlwaysMatch`,
`TornFilesAlwaysReported`, `UnforcedNeverOverwrites`.

**RunVectors_proofs** assumes `CorporaAssumption` (a directory has one file of a
name; an expectation declares a verdict or nothing). `LoopInv` says that the
expected file of every vector the loops have passed was read, and that the vector
failed exactly if its verdict is not the declared one. Proved: `TypeCorrect`,
`ExitAlwaysReflectsCorpus`; `VerdictsAreAnswers` (every verdict compared is one that
`verify()` gives under the OPA at hand, and the command ends early only at a broken
file); and `EachVectorIsOneCall`, the refinement of `VerifyPromise` by each vector
of the corpus. **MCVectors_proofs** follows the shipped corpus through them: under the
shipped schema and rules `ShippedCorpusAlwaysPasses`, and `ReasonsAsDeclared`.

**Only model-checked**: `Termination`, `CliTerminates` and `InfoTerminates`.
Liveness under fairness is out of the prover's reach: it needs `ENABLED`, to say
that a call which has not ended has a step to take. The `...AreBounded` theorems
are what can be proved of it.

## 5. Not modelled

* The JSON-schema engine, OPA, `jcs` (and the fallback without it), Ed25519 and
  PEM parsing are libraries, modelled by what `src/` takes them to do.
* The evidence credential schema: Layer 3 is not implemented by the code.
* Wording, timestamps in the output, and the always-null
  `evidence_manifest_hash` and `prev_attestation_hash`.
* `keys list` and the URL dispatch of `load_registry`: neither changes anything, and
  every failed load ends the command before anything is verified. Which class
  of exception a failed fetch raises (`key_registry.py:142`) decides only its message.
* Two invocations of `verify` that share `--out`: nothing says what the file should hold.
* A rule whose result carries another check's id (`rego_evaluator.py:260`): no
  shipped rule does, and edited rules are modelled to answer under their own id.
* The schema's value constraints one by one: those the rules or the control flow
  depend on are modelled, the others are one Boolean.

## 6. Plan

The components that keep state or decide something are modelled and every
invariant that a passing run checks is proved. What could still be added, in this order: edited rules that
answer under a foreign id; two invocations of `verify` on one `--out`; the
emission schema's remaining conditions one by one.
