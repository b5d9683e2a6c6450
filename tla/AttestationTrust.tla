--------------------------- MODULE AttestationTrust ---------------------------
(***************************************************************************)
(* From a signed attestation to a third party's verdict on it: the key     *)
(* registry the operator keeps, the copies of it that others hold, and one *)
(* `scc-verify verify-attestation` after another.                          *)
(*                                                                         *)
(* The operator follows docs/public-key-registry.md: a rotation retires    *)
(* the active key and adds the next one, a revocation stays in the         *)
(* registry for ever, and a registry is published some time after it was   *)
(* written.  The third party reads the published registry or a file that   *)
(* was downloaded earlier.  Mistakes names the ways in which a registry    *)
(* that the schema accepts can depart from that procedure.                 *)
(***************************************************************************)
EXTENDS Integers, Sequences

CONSTANTS
  Keys,        \* the Ed25519 key pairs; a key also stands for its key id
  Issuer,      \* the issuer in the operator's registry
  OtherIssuer, \* any other one
  MaxTime,     \* bound: the clock stops here
  Mistakes     \* what the operator gets wrong

ASSUME TrustAssumption ==
  /\ MaxTime \in Nat
  /\ Issuer # OtherIssuer
  /\ "none" \notin {Issuer, OtherIssuer}
  /\ Mistakes \subseteq {"wrong_pem", "second_entry", "no_not_after"}

Time == 0..MaxTime
Never == MaxTime + 1   \* an absent not_after, and what has not happened yet

VARIABLES
  now,        \* the clock
  registry,   \* the registry as the operator has written it
  published,  \* the one at the registry's URL
  copy,       \* the one in the third party's file
  envelope,   \* the attestation the third party has
  cmd,        \* where _cmd_verify_attestation is
  args,       \* its key source
  fetched,    \* the registry it has loaded
  result,     \* the AttestationVerificationResult
  exit,       \* its exit code, NoExit while it runs
  original,   \* history: the attestation as it was issued
  authorized, \* history: was its key the active one then
  ledger      \* history: when each key was activated, retired, revoked

operatorVars == <<registry, ledger>>
envelopeVars == <<envelope, original, authorized>>
cmdVars == <<cmd, args, fetched, result, exit>>
vars == <<now, operatorVars, published, copy, envelopeVars, cmdVars>>

NoEnvelope == [issuer |-> "none"]
NoRegistry == [issuer |-> "none"]
NoResult == [schema_valid |-> FALSE]
NoExit == -1

RegistrySources == {"url", "path"}
Arguments ==
  [source : RegistrySources \cup {"public_key"}, public_key : Keys,
   allow_key_mismatch : BOOLEAN]

Entry(id, pem, status, not_before, not_after) ==
  [id |-> id, public_key_pem |-> pem, status |-> status,
   not_before |-> not_before, not_after |-> not_after]

\* The forms of a verificationMethod's fragment.
Forms == {"key-sha256:hex", "key-hex", "other"}
Method(key, form) == [key |-> key, form |-> form]

-----------------------------------------------------------------------------
(* signing.py and attestation_verifier.py.  A signature is the key and the *)
(* payload it was made from.                                               *)

\* Mutant: validFrom is missing from SIGNED_ENVELOPE_FIELDS.
PayloadWithoutTime(env) ==
  [issuer |-> env.issuer, validFrom |-> 0, credentialSubject |-> env.credentialSubject]

\* SIGNED_ENVELOPE_FIELDS; the fixed ones and the id go with the subject.
SignaturePayload(env) ==
  [issuer |-> env.issuer, validFrom |-> env.validFrom,
   credentialSubject |-> env.credentialSubject]

\* What verify() issues with a key at a time: the signature covers all but
\* the proof, and verificationMethod names the key.
Signed(issuer, key, time) ==
  LET unsigned == [issuer |-> issuer, validFrom |-> time,
                   credentialSubject |-> "as issued"]
  IN  [issuer |-> issuer, validFrom |-> time, credentialSubject |-> "as issued",
       verificationMethod |-> Method(key, "key-sha256:hex"),
       proofValue |-> [key |-> key, payload |-> SignaturePayload(unsigned)]]

VerifySignature(key, env) ==
  env.proofValue = [key |-> key, payload |-> SignaturePayload(env)]

SchemaValid(env) == env.credentialSubject # "malformed"

Matching(reg, id) == {i \in DOMAIN reg.keys : reg.keys[i].id = id}

\* next(candidate for candidate in registry.keys if ...)
FirstEntry(reg, id) ==
  reg.keys[CHOOSE i \in Matching(reg, id) : \A j \in Matching(reg, id) : i <= j]

\* Mutant: the status of a key is not looked at.
ResolvesWhateverStatus(reg, env) ==
  /\ reg.issuer = env.issuer
  /\ env.verificationMethod.form # "other"
  /\ Matching(reg, env.verificationMethod.key) # {}
  /\ LET key == FirstEntry(reg, env.verificationMethod.key)
     IN  env.validFrom >= key.not_before /\ env.validFrom < key.not_after

\* Mutant: the first instant of the window is outside of it.
ResolvesAfterNotBefore(reg, env) ==
  /\ ResolvesWhateverStatus(reg, env)
  /\ LET key == FirstEntry(reg, env.verificationMethod.key)
     IN  key.status # "revoked" /\ env.validFrom # key.not_before

\* Mutant: the last instant of the window is inside of it.
ResolvesAtNotAfter(reg, env) ==
  /\ reg.issuer = env.issuer
  /\ env.verificationMethod.form # "other"
  /\ Matching(reg, env.verificationMethod.key) # {}
  /\ LET key == FirstEntry(reg, env.verificationMethod.key)
     IN  /\ key.status # "revoked"
         /\ env.validFrom >= key.not_before
         /\ env.validFrom <= key.not_after

\* find_key_for_envelope finds a key, and raises no RegistryError.
Resolves(reg, env) ==
  /\ reg.issuer = env.issuer
  /\ env.verificationMethod.form # "other"
  /\ Matching(reg, env.verificationMethod.key) # {}
  /\ LET key == FirstEntry(reg, env.verificationMethod.key)
     IN  /\ key.status # "revoked"
         /\ env.validFrom >= key.not_before
         /\ env.validFrom < key.not_after

ResultOf(schema, signature, matches, required) ==
  [schema_valid |-> schema, signature_valid |-> signature,
   verification_method_matches_key |-> matches,
   verification_method_match_required |-> required]

\* verify_attestation_envelope with a registry.
VerifyWithRegistry(reg, env) ==
  LET key == FirstEntry(reg, env.verificationMethod.key)
  IN  IF ~Resolves(reg, env) THEN ResultOf(TRUE, FALSE, FALSE, TRUE)
      ELSE ResultOf(TRUE, VerifySignature(key.public_key_pem, env), TRUE, TRUE)

\* Mutant: the method is not compared with the key.
VerifyWithAnyMethod(key, env, required) ==
  ResultOf(TRUE, VerifySignature(key, env), TRUE, required)

\* verify_attestation_envelope with one public key: the method must end in
\* the fragment verify() writes.
VerifyWithKey(key, env, required) ==
  ResultOf(TRUE, VerifySignature(key, env),
           env.verificationMethod = Method(key, "key-sha256:hex"), required)

\* AttestationVerificationResult.valid; errors is empty exactly then.
Valid(res) ==
  /\ res.schema_valid
  /\ res.signature_valid
  /\ res.verification_method_matches_key \/ ~res.verification_method_match_required

-----------------------------------------------------------------------------
\* The registry is deployed with its first key.
FirstRegistry(key) ==
  [issuer |-> Issuer, generated_at |-> 0,
   keys |-> <<Entry(key, key, "active", 0, Never)>>]

Unused == [activated |-> Never, retired |-> Never, revoked |-> Never]

Init ==
  /\ now = 0
  /\ \E key \in Keys :
       /\ registry = FirstRegistry(key)
       /\ ledger = [k \in Keys |-> IF k = key THEN [Unused EXCEPT !.activated = 0]
                                   ELSE Unused]
  /\ published = registry
  /\ copy = registry
  /\ envelope = NoEnvelope
  /\ original = NoEnvelope
  /\ authorized = FALSE
  /\ cmd = "idle"
  /\ args \in Arguments
  /\ fetched = NoRegistry
  /\ result = NoResult
  /\ exit = NoExit

Tick ==
  /\ now < MaxTime
  /\ now' = now + 1
  /\ UNCHANGED <<operatorVars, published, copy, envelopeVars, cmdVars>>

(* The operator, after docs/public-key-registry.md.                        *)

\* generated_at dates a registry; no two have the same date.
MayWrite == registry.generated_at < now

Retired(entry) ==
  IF entry.status # "active" THEN entry
  ELSE [entry EXCEPT !.status = "retired",
                     !.not_after = IF "no_not_after" \in Mistakes THEN @ ELSE now]

\* The active key retires at the rotation moment, which is later than all it
\* has signed so far, and a key not used before takes its place.
Rotate(key) ==
  /\ MayWrite
  /\ ledger[key] = Unused
  /\ original # NoEnvelope => original.validFrom < now
  /\ \E pem \in IF "wrong_pem" \in Mistakes THEN Keys ELSE {key} :
       registry' =
         [registry EXCEPT
            !.generated_at = now,
            !.keys = Append([i \in DOMAIN @ |-> Retired(@[i])],
                            Entry(key, pem, "active", now, Never))]
  /\ ledger' =
       [k \in Keys |->
          IF k = key THEN [Unused EXCEPT !.activated = now]
          ELSE IF \E i \in Matching(registry, k) : registry.keys[i].status = "active"
          THEN [ledger[k] EXCEPT !.retired = now] ELSE ledger[k]]
  /\ UNCHANGED <<now, published, copy, envelopeVars, cmdVars>>

\* A compromised key is marked revoked, whatever its status was.
Revoke(key) ==
  /\ MayWrite
  /\ ledger[key].activated # Never /\ ledger[key].revoked = Never
  /\ registry' =
       [registry EXCEPT
          !.generated_at = now,
          !.keys = IF "second_entry" \in Mistakes
                   THEN Append(@, Entry(key, key, "revoked", now, Never))
                   ELSE [i \in DOMAIN @ |->
                           IF @[i].id = key THEN [@[i] EXCEPT !.status = "revoked"]
                           ELSE @[i]]]
  /\ ledger' = [ledger EXCEPT ![key].revoked = now]
  /\ UNCHANGED <<now, published, copy, envelopeVars, cmdVars>>

Publish ==
  /\ published # registry
  /\ published' = registry
  /\ UNCHANGED <<now, operatorVars, copy, envelopeVars, cmdVars>>

Download ==
  /\ copy # published
  /\ copy' = published
  /\ UNCHANGED <<now, operatorVars, published, envelopeVars, cmdVars>>

\* An attestation is issued with any key: the active one, one not registered
\* yet or never (an ephemeral one), or an old one that is still in use.
Issue ==
  /\ envelope = NoEnvelope
  /\ \E issuer \in {Issuer, OtherIssuer}, key \in Keys :
       /\ envelope' = Signed(issuer, key, now)
       /\ authorized' = \E i \in Matching(registry, key) :
                           registry.keys[i].status = "active"
  /\ original' = envelope'
  /\ UNCHANGED <<now, operatorVars, published, copy, cmdVars>>

\* The file with the attestation is edited on its way to the third party.
Edit ==
  /\ cmd = "idle"
  /\ envelope # NoEnvelope /\ envelope = original
  /\ \/ envelope' \in {[envelope EXCEPT !.issuer = i] : i \in {Issuer, OtherIssuer}}
     \/ envelope' \in {[envelope EXCEPT !.validFrom = t] : t \in Time}
     \/ envelope' \in {[envelope EXCEPT !.credentialSubject = s] :
                         s \in {"edited", "malformed"}}
     \/ envelope' \in {[envelope EXCEPT !.verificationMethod = Method(k, f)] :
                         k \in Keys, f \in Forms}
  /\ UNCHANGED <<now, operatorVars, published, copy, original, authorized, cmdVars>>

-----------------------------------------------------------------------------
(* cli.py, _cmd_verify_attestation.                                        *)

Exit(code) ==
  /\ cmd' = "exited"
  /\ exit' = code

\* No file is there (2), or what is there is not JSON (1).
AttestationUnreadable ==
  /\ cmd = "idle"
  /\ \E code \in {1, 2} : Exit(code)
  /\ UNCHANGED <<now, operatorVars, published, copy, envelopeVars, args, fetched, result>>

LoadAttestation ==
  /\ cmd = "idle"
  /\ envelope # NoEnvelope
  /\ cmd' = "load_key"
  /\ UNCHANGED <<now, operatorVars, published, copy, envelopeVars,
                 args, fetched, result, exit>>

\* load_registry: what the location holds at that moment.
LoadRegistry ==
  /\ cmd = "load_key"
  /\ args.source \in RegistrySources
  /\ fetched' = IF args.source = "url" THEN published ELSE copy
  /\ cmd' = "verify"
  /\ UNCHANGED <<now, operatorVars, published, copy, envelopeVars, args, result, exit>>

LoadPublicKey ==
  /\ cmd = "load_key"
  /\ args.source = "public_key"
  /\ cmd' = "verify"
  /\ UNCHANGED <<now, operatorVars, published, copy, envelopeVars,
                 args, fetched, result, exit>>

\* Mutant: the exit code of a failing self-check.
KeySourceUnreadableExits3 ==
  /\ cmd = "load_key"
  /\ Exit(3)
  /\ UNCHANGED <<now, operatorVars, published, copy, envelopeVars, args, fetched, result>>

\* No registry or key there, no answer in time, or not a registry or key.
KeySourceUnreadable ==
  /\ cmd = "load_key"
  /\ \E code \in {1, 2} : Exit(code)
  /\ UNCHANGED <<now, operatorVars, published, copy, envelopeVars, args, fetched, result>>

\* verify_attestation_envelope as it is called here: the match is required
\* with a registry, whatever --allow-key-mismatch says.
Verification(a, reg, env) ==
  LET required == a.source \in RegistrySources \/ ~a.allow_key_mismatch
  IN  IF ~SchemaValid(env) THEN ResultOf(FALSE, FALSE, FALSE, required)
      ELSE IF a.source \in RegistrySources THEN VerifyWithRegistry(reg, env)
      ELSE VerifyWithKey(a.public_key, env, required)

VerifyAttestation ==
  /\ cmd = "verify"
  /\ result' = Verification(args, fetched, envelope)
  /\ Exit(IF Valid(result') THEN 0 ELSE 1)
  /\ UNCHANGED <<now, operatorVars, published, copy, envelopeVars, args, fetched>>

\* The command is run once more, with the same arguments.
RunAgain ==
  /\ cmd = "exited"
  /\ cmd' = "idle"
  /\ fetched' = NoRegistry
  /\ result' = NoResult
  /\ exit' = NoExit
  /\ UNCHANGED <<now, operatorVars, published, copy, envelopeVars, args>>

CmdStep ==
  \/ AttestationUnreadable \/ LoadAttestation \/ LoadRegistry \/ LoadPublicKey
  \/ KeySourceUnreadable \/ VerifyAttestation

Operator ==
  \/ \E key \in Keys : Rotate(key) \/ Revoke(key)
  \/ Publish

Next == Tick \/ Operator \/ Download \/ Issue \/ Edit \/ CmdStep \/ RunAgain

Spec == Init /\ [][Next]_vars

-----------------------------------------------------------------------------
(* Properties.                                                             *)

Entries ==
  [id : Keys, public_key_pem : Keys, status : {"active", "retired", "revoked"},
   not_before : Time, not_after : Time \cup {Never}]

Registries == [issuer : {Issuer}, generated_at : Time, keys : Seq(Entries)]

Payloads ==
  [issuer : {Issuer, OtherIssuer}, validFrom : Time,
   credentialSubject : {"as issued", "edited", "malformed"}]

Envelopes ==
  [issuer : {Issuer, OtherIssuer}, validFrom : Time,
   credentialSubject : {"as issued", "edited", "malformed"},
   verificationMethod : [key : Keys, form : Forms],
   proofValue : [key : Keys, payload : Payloads]]

Results ==
  [schema_valid : BOOLEAN, signature_valid : BOOLEAN,
   verification_method_matches_key : BOOLEAN,
   verification_method_match_required : BOOLEAN]

TypeOK ==
  /\ now \in Time
  /\ registry \in Registries /\ published \in Registries /\ copy \in Registries
  /\ envelope \in Envelopes \cup {NoEnvelope}
  /\ original \in Envelopes \cup {NoEnvelope}
  /\ authorized \in BOOLEAN
  /\ cmd \in {"idle", "load_key", "verify", "exited"}
  /\ args \in Arguments
  /\ fetched \in Registries \cup {NoRegistry}
  /\ result \in Results \cup {NoResult}
  /\ exit \in {0, 1, 2, NoExit}
  /\ ledger \in [Keys -> [activated : Time \cup {Never}, retired : Time \cup {Never},
                          revoked : Time \cup {Never}]]

\* A verdict was reached over a registry.
Decided == cmd = "exited" /\ result # NoResult
DecidedByRegistry == Decided /\ args.source \in RegistrySources

Named == envelope.verificationMethod.key

\* Was the key the operator's signing key at that time, as far as a registry
\* of this date can tell.
InForce(key, time, date) ==
  /\ ledger[key].activated <= time
  /\ ledger[key].retired <= date => time < ledger[key].retired

\* What is accepted is what was issued: every signed field, and signed with
\* the key that was asked for, by the registry or by the caller.
AcceptedIsAsIssued ==
  exit = 0 =>
    /\ envelope.issuer = original.issuer
    /\ envelope.validFrom = original.validFrom
    /\ envelope.credentialSubject = original.credentialSubject
    /\ original.verificationMethod.key =
         IF args.source = "public_key" THEN args.public_key ELSE Named

\* docs/public-key-registry.md: "Revoked keys [...] are never trusted for any
\* attestation regardless of timestamp", by whoever reads a registry that
\* was written after the revocation.
RevokedIsNeverTrusted ==
  DecidedByRegistry /\ exit = 0 => fetched.generated_at < ledger[Named].revoked

\* docs/public-key-registry.md: "Retired keys remain trusted only for
\* attestations whose validFrom timestamp is inside the key's window": a key
\* still used after its rotation, or before its activation, is not accepted.
AcceptedKeyWasInForce ==
  DecidedByRegistry /\ exit = 0 =>
    InForce(Named, envelope.validFrom, fetched.generated_at)

\* docs/public-key-registry.md: "This keeps historical attestations
\* verifiable after rotation": what a key signed while it was active is accepted
\* with every registry that has the key and does not revoke it, old or new.
HistoryStaysVerifiable ==
  /\ DecidedByRegistry
  /\ envelope = original /\ envelope.issuer = Issuer
  /\ authorized
  /\ ledger[Named].activated <= fetched.generated_at
  /\ fetched.generated_at < ledger[Named].revoked
  => exit = 0

\* attestation_verifier.py: "Verify schema validity, Ed25519 signature, and
\* key binding": a result that says the verificationMethod matches the key
\* means the key the signature was checked with.
MatchedMethodNamesTheKey ==
  Decided /\ result.verification_method_matches_key =>
    Named = IF args.source = "public_key" THEN args.public_key
            ELSE FirstEntry(fetched, Named).public_key_pem
=============================================================================
