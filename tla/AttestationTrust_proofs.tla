----------------------- MODULE AttestationTrust_proofs -----------------------
(***************************************************************************)
(* Proofs about AttestationTrust, for every set of keys and every length   *)
(* of the operator's history.                                              *)
(***************************************************************************)
EXTENDS AttestationTrust, SequenceTheorems, TLAPS

LEMMA TimeFacts ==
  /\ Time \subseteq Nat /\ Never \in Nat /\ 0 \in Time
  /\ \A t \in Time : t < Never
  BY TrustAssumption DEF Time, Never

-----------------------------------------------------------------------------
(* Types.                                                                  *)

LEMMA SignedTyped ==
  ASSUME NEW i \in {Issuer, OtherIssuer}, NEW k \in Keys, NEW t \in Time
  PROVE  Signed(i, k, t) \in Envelopes
  BY DEF Signed, SignaturePayload, Method, Forms, Envelopes, Payloads

LEMMA VerificationTyped ==
  ASSUME NEW a \in Arguments, NEW reg, NEW env
  PROVE  Verification(a, reg, env) \in Results
  <1> DEFINE required == a.source \in RegistrySources \/ ~a.allow_key_mismatch
  <1>1. \A s, g, m, r \in BOOLEAN : ResultOf(s, g, m, r) \in Results
    BY DEF ResultOf, Results
  <1>2. required \in BOOLEAN
    OBVIOUS
  <1>3. \A k, e : VerifySignature(k, e) \in BOOLEAN
    BY DEF VerifySignature
  <1>4. VerifyWithRegistry(reg, env) \in Results
    BY <1>1, <1>3 DEF VerifyWithRegistry
  <1>5. VerifyWithKey(a.public_key, env, required) \in Results
    BY <1>1, <1>2, <1>3 DEF VerifyWithKey
  <1> QED
    BY <1>1, <1>2, <1>4, <1>5 DEF Verification

LEMMA RetiredTyped ==
  ASSUME now \in Time, NEW e \in Entries
  PROVE  Retired(e) \in Entries
  BY DEF Retired, Entries

LEMMA RotateTyped ==
  ASSUME TypeOK, NEW key \in Keys, Rotate(key)
  PROVE  registry' \in Registries
  <1> DEFINE old == registry.keys
             retired == [i \in DOMAIN old |-> Retired(old[i])]
  <1>1. now \in Time /\ old \in Seq(Entries)
    BY DEF TypeOK, Registries
  <1>2. retired \in Seq(Entries)
    <2>1. Len(old) \in Nat /\ DOMAIN old = 1..Len(old)
      BY <1>1, LenProperties
    <2>2. \A i \in 1..Len(old) : Retired(old[i]) \in Entries
      BY <1>1, ElementOfSeq, RetiredTyped
    <2> QED
      BY <2>1, <2>2, SeqDef
  <1>3. PICK pem \in Keys :
          registry' = [registry EXCEPT !.generated_at = now,
                         !.keys = Append(retired, Entry(key, pem, "active", now, Never))]
    BY DEF Rotate
  <1>4. Entry(key, pem, "active", now, Never) \in Entries
    BY <1>1 DEF Entry, Entries
  <1>5. Append(retired, Entry(key, pem, "active", now, Never)) \in Seq(Entries)
    BY <1>2, <1>4, AppendProperties
  <1> QED
    BY <1>1, <1>3, <1>5 DEF TypeOK, Registries

LEMMA RevokeTyped ==
  ASSUME TypeOK, NEW key \in Keys, Revoke(key)
  PROVE  registry' \in Registries
  <1> DEFINE old == registry.keys
             marked == [i \in DOMAIN old |->
                          IF old[i].id = key THEN [old[i] EXCEPT !.status = "revoked"]
                          ELSE old[i]]
  <1>1. now \in Time /\ old \in Seq(Entries)
    BY DEF TypeOK, Registries
  <1>2. marked \in Seq(Entries)
    <2>1. Len(old) \in Nat /\ DOMAIN old = 1..Len(old)
      BY <1>1, LenProperties
    <2>2. \A i \in 1..Len(old) : old[i] \in Entries
      BY <1>1, ElementOfSeq
    <2>3. \A e \in Entries : [e EXCEPT !.status = "revoked"] \in Entries
      BY DEF Entries
    <2> QED
      BY <2>1, <2>2, <2>3, SeqDef
  <1>3. Append(old, Entry(key, key, "revoked", now, Never)) \in Seq(Entries)
    <2>1. Entry(key, key, "revoked", now, Never) \in Entries
      BY <1>1 DEF Entry, Entries
    <2> QED
      BY <1>1, <2>1, AppendProperties
  <1> QED
    BY <1>1, <1>2, <1>3 DEF Revoke, TypeOK, Registries

Dates == [activated : Time \cup {Never}, retired : Time \cup {Never},
          revoked : Time \cup {Never}]

LEMMA LedgerTyped ==
  ASSUME TypeOK, NEW key \in Keys, Rotate(key) \/ Revoke(key)
  PROVE  ledger' \in [Keys -> Dates]
  <1>1. ledger \in [Keys -> Dates] /\ now \in Time
    BY DEF TypeOK, Dates
  <1>2. \A d \in Dates : /\ [d EXCEPT !.retired = now] \in Dates
                        /\ [d EXCEPT !.revoked = now] \in Dates
    BY <1>1 DEF Dates
  <1>3. [Unused EXCEPT !.activated = now] \in Dates
    BY <1>1 DEF Unused, Dates
  <1>4. CASE Rotate(key)
    BY <1>1, <1>2, <1>3, <1>4 DEF Rotate
  <1>5. CASE Revoke(key)
    <2>1. ledger' = [ledger EXCEPT ![key] = [ledger[key] EXCEPT !.revoked = now]]
      BY <1>5 DEF Revoke
    <2> QED
      BY <1>1, <1>2, <2>1
  <1> QED
    BY <1>4, <1>5

LEMMA EditTyped ==
  ASSUME TypeOK, Edit
  PROVE  envelope' \in Envelopes
  <1>1. envelope \in Envelopes
    BY DEF TypeOK, Edit
  <1>2. \A i \in {Issuer, OtherIssuer} : [envelope EXCEPT !.issuer = i] \in Envelopes
    BY <1>1 DEF Envelopes
  <1>3. \A t \in Time : [envelope EXCEPT !.validFrom = t] \in Envelopes
    BY <1>1 DEF Envelopes
  <1>4. \A s \in {"edited", "malformed"} :
          [envelope EXCEPT !.credentialSubject = s] \in Envelopes
    BY <1>1 DEF Envelopes
  <1>5. \A k \in Keys, f \in Forms :
          [envelope EXCEPT !.verificationMethod = Method(k, f)] \in Envelopes
    BY <1>1 DEF Envelopes, Method
  <1> QED
    BY <1>2, <1>3, <1>4, <1>5 DEF Edit

LEMMA InitTyped ==
  ASSUME Init
  PROVE  TypeOK
  <1>1. PICK key \in Keys :
          /\ registry = FirstRegistry(key)
          /\ ledger = [k \in Keys |-> IF k = key THEN [Unused EXCEPT !.activated = 0]
                                      ELSE Unused]
    BY DEF Init
  <1>2. Entry(key, key, "active", 0, Never) \in Entries
    BY TimeFacts DEF Entry, Entries
  <1>3. registry \in Registries
    BY <1>1, <1>2, TimeFacts DEF FirstRegistry, Registries
  <1>4. ledger \in [Keys -> [activated : Time \cup {Never}, retired : Time \cup {Never},
                             revoked : Time \cup {Never}]]
    BY <1>1, TimeFacts DEF Unused
  <1> QED
    BY <1>3, <1>4, TimeFacts DEF Init, TypeOK

LEMMA CmdTyped ==
  ASSUME TypeOK, CmdStep \/ RunAgain
  PROVE  TypeOK'
  <1>1. CASE AttestationUnreadable \/ KeySourceUnreadable
    BY <1>1 DEF TypeOK, AttestationUnreadable, KeySourceUnreadable, Exit,
         operatorVars, envelopeVars
  <1>2. CASE LoadAttestation \/ LoadPublicKey
    BY <1>2 DEF TypeOK, LoadAttestation, LoadPublicKey, operatorVars, envelopeVars
  <1>3. CASE LoadRegistry
    BY <1>3 DEF TypeOK, LoadRegistry, operatorVars, envelopeVars
  <1>4. CASE VerifyAttestation
    <2>1. result' \in Results
      BY <1>4, VerificationTyped DEF VerifyAttestation, TypeOK
    <2> QED
      BY <1>4, <2>1 DEF TypeOK, VerifyAttestation, Exit, operatorVars, envelopeVars
  <1>5. CASE RunAgain
    BY <1>5 DEF TypeOK, RunAgain, operatorVars, envelopeVars
  <1> QED
    BY <1>1, <1>2, <1>3, <1>4, <1>5 DEF CmdStep

LEMMA StepTyped ==
  ASSUME TypeOK, [Next]_vars
  PROVE  TypeOK'
  <1>1. CASE Tick
    BY <1>1, TrustAssumption
    DEF TypeOK, Tick, Time, operatorVars, envelopeVars, cmdVars
  <1>2. CASE \E key \in Keys : Rotate(key) \/ Revoke(key)
    <2>1. PICK key \in Keys : Rotate(key) \/ Revoke(key)
      BY <1>2
    <2>2. registry' \in Registries
      BY <2>1, RotateTyped, RevokeTyped
    <2> QED
      BY <2>1, <2>2, LedgerTyped DEF TypeOK, Dates, Rotate, Revoke, envelopeVars, cmdVars
  <1>3. CASE Publish \/ Download
    BY <1>3 DEF TypeOK, Publish, Download, operatorVars, envelopeVars, cmdVars
  <1>4. CASE Issue
    <2>1. envelope' \in Envelopes /\ original' \in Envelopes /\ authorized' \in BOOLEAN
      BY <1>4, SignedTyped DEF Issue, TypeOK
    <2> QED
      BY <1>4, <2>1 DEF TypeOK, Issue, operatorVars, cmdVars
  <1>5. CASE Edit
    BY <1>5, EditTyped DEF TypeOK, Edit, operatorVars, cmdVars
  <1>6. CASE CmdStep \/ RunAgain
    BY <1>6, CmdTyped
  <1>7. CASE UNCHANGED vars
    BY <1>7 DEF TypeOK, vars, operatorVars, envelopeVars, cmdVars
  <1> QED
    BY <1>1, <1>2, <1>3, <1>4, <1>5, <1>6, <1>7 DEF Next, Operator

\* Every variable keeps its type, whatever the operator gets wrong.
THEOREM TypeCorrect == Spec => []TypeOK
  <1>1. Init => TypeOK
    BY InitTyped
  <1>2. TypeOK /\ [Next]_vars => TypeOK'
    BY StepTyped
  <1> QED
    BY <1>1, <1>2, PTL DEF Spec
-----------------------------------------------------------------------------
(* The inductive invariant, whatever the operator gets wrong: each part     *)
(* names the mistakes it does not survive.                                 *)

\* The first entry of a key, in a registry of that date, says what the ledger
\* says up to then.
Agrees(entry, date, known) ==
  /\ "wrong_pem" \notin Mistakes => entry.public_key_pem = entry.id
  /\ entry.not_before = known.activated
  /\ entry.status = "revoked" <=> known.revoked <= date /\ "second_entry" \notin Mistakes
  /\ entry.status = "active" <=> known.retired > date /\ entry.status # "revoked"
  /\ entry.not_after = IF known.retired <= date /\ "no_not_after" \notin Mistakes
                       THEN known.retired ELSE Never

IsFirst(reg, i) == \A j \in DOMAIN reg.keys : j < i => reg.keys[j].id # reg.keys[i].id

\* A registry, as of its date: an entry for each key that was activated, and
\* none after it but where a revocation is added as an entry of its own.
Kept(reg, book) ==
  /\ \A k \in Keys : book[k].activated <= reg.generated_at =>
       \E i \in DOMAIN reg.keys : reg.keys[i].id = k /\ IsFirst(reg, i)
  /\ \A i \in DOMAIN reg.keys :
       /\ book[reg.keys[i].id].activated <= reg.generated_at
       /\ IsFirst(reg, i) => Agrees(reg.keys[i], reg.generated_at, book[reg.keys[i].id])
       /\ ~IsFirst(reg, i) => "second_entry" \in Mistakes /\ reg.keys[i].status = "revoked"

\* What is written in the ledger was in the registry no later.
LedgerInv ==
  /\ registry.generated_at <= now
  /\ \A k \in Keys :
       /\ ledger[k].activated <= registry.generated_at \/ ledger[k].activated = Never
       /\ ledger[k].retired <= registry.generated_at \/ ledger[k].retired = Never
       /\ ledger[k].revoked <= registry.generated_at \/ ledger[k].revoked = Never

\* Every registry that someone holds is one the operator kept.
Faithful(reg) == reg.generated_at <= registry.generated_at /\ Kept(reg, ledger)

RegistriesInv ==
  /\ Faithful(registry) /\ Faithful(published) /\ Faithful(copy)
  /\ fetched # NoRegistry => Faithful(fetched)

\* The attestation was signed as its verificationMethod says, and the key
\* of an authorized one was in force.
EnvelopeInv ==
  /\ envelope = NoEnvelope <=> original = NoEnvelope
  /\ original # NoEnvelope =>
       /\ \E i \in {Issuer, OtherIssuer}, k \in Keys, t \in Time : original = Signed(i, k, t)
       /\ envelope.proofValue = original.proofValue
  /\ authorized =>
       /\ original # NoEnvelope
       /\ ledger[original.verificationMethod.key].activated <= original.validFrom
       /\ original.validFrom < ledger[original.verificationMethod.key].retired

\* A result is the one for the attestation and the registry at hand.
ResultInv ==
  /\ cmd # "exited" => result = NoResult /\ exit = NoExit
  /\ cmd \in {"load_key", "verify"} => envelope # NoEnvelope
  /\ cmd = "verify" /\ args.source \in RegistrySources => fetched # NoRegistry
  /\ result # NoResult =>
       /\ envelope # NoEnvelope
       /\ args.source \in RegistrySources => fetched # NoRegistry
       /\ result = Verification(args, fetched, envelope)
       /\ exit = IF Valid(result) THEN 0 ELSE 1
  /\ exit = 0 => result # NoResult

IInv == TypeOK /\ LedgerInv /\ RegistriesInv /\ EnvelopeInv /\ ResultInv

-----------------------------------------------------------------------------
(* The registries and the ledger.                                          *)

\* The ledger is only ever completed: a date that was open is filled in.
FilledIn(old, new, t) == new = old \/ (old = Never /\ new = t)

Completed(book, later, t) ==
  \A k \in Keys :
    /\ FilledIn(book[k].activated, later[k].activated, t)
    /\ FilledIn(book[k].retired, later[k].retired, t)
    /\ FilledIn(book[k].revoked, later[k].revoked, t)

LEMMA KeptLater ==
  ASSUME NEW reg \in Registries, NEW book \in [Keys -> Dates],
         NEW later \in [Keys -> Dates], NEW t \in Time, reg.generated_at < t,
         Kept(reg, book), Completed(book, later, t)
  PROVE  Kept(reg, later)
  <1>1. reg.generated_at \in Time /\ reg.keys \in Seq(Entries)
    BY DEF Registries
  <1>2. \A k \in Keys :
          /\ later[k].activated <= reg.generated_at
               => later[k].activated = book[k].activated
          /\ later[k].retired <= reg.generated_at <=> book[k].retired <= reg.generated_at
          /\ later[k].revoked <= reg.generated_at <=> book[k].revoked <= reg.generated_at
          /\ book[k].activated <= reg.generated_at => later[k].activated = book[k].activated
          /\ book[k].retired <= reg.generated_at => later[k].retired = book[k].retired
    <2> SUFFICES ASSUME NEW k \in Keys
                 PROVE  /\ later[k].activated <= reg.generated_at
                             => later[k].activated = book[k].activated
                        /\ later[k].retired <= reg.generated_at
                             <=> book[k].retired <= reg.generated_at
                        /\ later[k].revoked <= reg.generated_at
                             <=> book[k].revoked <= reg.generated_at
                        /\ book[k].activated <= reg.generated_at
                             => later[k].activated = book[k].activated
                        /\ book[k].retired <= reg.generated_at
                             => later[k].retired = book[k].retired
      OBVIOUS
    <2>1. reg.generated_at \in Nat /\ t \in Nat /\ Never \in Nat
          /\ reg.generated_at < Never
      BY <1>1, TimeFacts
    <2>2. \A old, new : FilledIn(old, new, t) /\ old \in Time \cup {Never} =>
            /\ new <= reg.generated_at <=> old <= reg.generated_at
            /\ old <= reg.generated_at => new = old
      BY <2>1, TimeFacts DEF FilledIn
    <2>3. /\ FilledIn(book[k].activated, later[k].activated, t)
          /\ FilledIn(book[k].retired, later[k].retired, t)
          /\ FilledIn(book[k].revoked, later[k].revoked, t)
      BY DEF Completed
    <2>4. book[k] \in Dates
      OBVIOUS
    <2> QED
      BY <2>2, <2>3, <2>4 DEF Dates
  <1>3. \A k \in Keys : later[k].activated <= reg.generated_at =>
          \E i \in DOMAIN reg.keys : reg.keys[i].id = k /\ IsFirst(reg, i)
    BY <1>2 DEF Kept
  <1>4. ASSUME NEW i \in DOMAIN reg.keys
        PROVE  /\ later[reg.keys[i].id].activated <= reg.generated_at
               /\ IsFirst(reg, i)
                    => Agrees(reg.keys[i], reg.generated_at, later[reg.keys[i].id])
    <2> DEFINE e == reg.keys[i]
               k == e.id
               date == reg.generated_at
    <2>1. e \in Entries /\ k \in Keys
      <3>1. DOMAIN reg.keys = 1..Len(reg.keys)
        BY <1>1, LenProperties
      <3>2. reg.keys[i] \in Entries
        BY <1>1, <3>1, ElementOfSeq
      <3> QED
        BY <3>2 DEF Entries
    <2>2. book[k].activated <= date /\ (IsFirst(reg, i) => Agrees(e, date, book[k]))
      BY DEF Kept
    <2>3. /\ book[k].retired \in Nat /\ book[k].revoked \in Nat
          /\ later[k].retired \in Nat /\ later[k].revoked \in Nat
          /\ date \in Nat
      BY <1>1, <2>1, TimeFacts DEF Dates
    <2>4. /\ later[k].activated = book[k].activated
          /\ later[k].retired <= date <=> book[k].retired <= date
          /\ later[k].revoked <= date <=> book[k].revoked <= date
          /\ book[k].retired <= date => later[k].retired = book[k].retired
      BY <1>2, <2>1, <2>2
    <2> HIDE DEF e, k, date
    <2>5. Agrees(e, date, book[k]) => Agrees(e, date, later[k])
      BY <2>3, <2>4 DEF Agrees
    <2>6. later[k].activated <= date
      BY <2>2, <2>4
    <2> QED
      BY <2>2, <2>5, <2>6 DEF e, k, date
  <1>5. \A i \in DOMAIN reg.keys :
          ~IsFirst(reg, i) => "second_entry" \in Mistakes /\ reg.keys[i].status = "revoked"
    BY DEF Kept
  <1> QED
    BY <1>3, <1>4, <1>5 DEF Kept

\* An entry that is active is the first one of its key.
LEMMA ActiveIsFirst ==
  ASSUME NEW reg \in Registries, NEW book, Kept(reg, book), NEW k \in Keys,
         NEW i \in Matching(reg, k), reg.keys[i].status = "active"
  PROVE  IsFirst(reg, i) /\ Agrees(reg.keys[i], reg.generated_at, book[k])
  <1>1. i \in DOMAIN reg.keys /\ reg.keys[i].id = k
    BY DEF Matching
  <1>2. IsFirst(reg, i)
    BY <1>1 DEF Kept
  <1> QED
    BY <1>1, <1>2 DEF Kept

LEMMA OneIsFirst ==
  ASSUME NEW reg \in Registries, NEW i \in DOMAIN reg.keys, NEW j \in DOMAIN reg.keys,
         IsFirst(reg, i), IsFirst(reg, j), reg.keys[i].id = reg.keys[j].id
  PROVE  i = j
  <1>1. reg.keys \in Seq(Entries)
    BY DEF Registries
  <1>2. DOMAIN reg.keys = 1..Len(reg.keys) /\ Len(reg.keys) \in Nat
    BY <1>1, LenProperties
  <1>3. i \in Nat /\ j \in Nat
    BY <1>2
  <1>4. ~(i < j) /\ ~(j < i)
    BY DEF IsFirst
  <1> QED
    BY <1>3, <1>4

LEMMA LedgerIsCompleted ==
  ASSUME IInv, NEW key \in Keys, Rotate(key) \/ Revoke(key)
  PROVE  Completed(ledger, ledger', now)
  <1>1. ledger \in [Keys -> Dates] /\ now \in Time /\ registry \in Registries
    BY DEF IInv, TypeOK, Dates
  <1>2. CASE Rotate(key)
    <2>1. \A k \in Keys : (\E i \in Matching(registry, k) :
                              registry.keys[i].status = "active")
                            => ledger[k].retired = Never
      <3> SUFFICES ASSUME NEW k \in Keys, NEW i \in Matching(registry, k),
                          registry.keys[i].status = "active"
                   PROVE  ledger[k].retired = Never
        OBVIOUS
      <3>1. Agrees(registry.keys[i], registry.generated_at, ledger[k])
        BY <1>1, ActiveIsFirst DEF IInv, RegistriesInv, Faithful
      <3>2. ledger[k].retired > registry.generated_at
        BY <3>1 DEF Agrees
      <3>3. ledger[k].retired \in Nat /\ registry.generated_at \in Nat
        BY <1>1, TimeFacts DEF Dates, Registries
      <3> QED
        BY <3>2, <3>3 DEF IInv, LedgerInv
    <2>2. ASSUME NEW k \in Keys
          PROVE  /\ k = key => ledger[k] = Unused /\ ledger'[k] = [Unused EXCEPT !.activated = now]
                 /\ k # key => \/ ledger'[k] = ledger[k]
                               \/ /\ ledger[k].retired = Never
                                  /\ ledger'[k] = [ledger[k] EXCEPT !.retired = now]
      BY <1>2, <2>1 DEF Rotate
    <2>3. \A k \in Keys : ledger[k] \in Dates
      BY <1>1
    <2>4. ASSUME NEW k \in Keys
          PROVE  /\ FilledIn(ledger[k].activated, ledger'[k].activated, now)
                 /\ FilledIn(ledger[k].retired, ledger'[k].retired, now)
                 /\ FilledIn(ledger[k].revoked, ledger'[k].revoked, now)
      <3>1. CASE k = key
        <4>1. Unused \in [activated : {Never}, retired : {Never}, revoked : {Never}]
          BY DEF Unused
        <4> QED
          BY <2>2, <3>1, <4>1 DEF FilledIn
      <3>2. CASE k # key
        BY <2>2, <2>3, <3>2 DEF FilledIn, Dates
      <3> QED
        BY <3>1, <3>2
    <2> QED
      BY <2>4 DEF Completed
  <1>3. CASE Revoke(key)
    <2>1. ledger' = [ledger EXCEPT ![key] = [ledger[key] EXCEPT !.revoked = now]]
      BY <1>3 DEF Revoke
    <2>2. ledger[key].revoked = Never
      BY <1>3 DEF Revoke
    <2> QED
      BY <1>1, <2>1, <2>2 DEF Completed, FilledIn, Dates
  <1> QED
    BY <1>2, <1>3

\* A rotation retires the active entries and adds one.
LEMMA RotatedEntries ==
  ASSUME TypeOK, NEW key \in Keys, Rotate(key)
  PROVE  LET old == registry.keys
             new == registry'.keys
         IN  /\ registry'.generated_at = now
             /\ Len(old) \in Nat /\ DOMAIN old = 1..Len(old)
             /\ DOMAIN new = 1..(Len(old) + 1)
             /\ \A i \in 1..Len(old) : old[i] \in Entries /\ new[i] = Retired(old[i])
             /\ \E pem \in Keys :
                  /\ "wrong_pem" \notin Mistakes => pem = key
                  /\ new[Len(old) + 1] = Entry(key, pem, "active", now, Never)
  <1> DEFINE old == registry.keys
             retired == [i \in DOMAIN old |-> Retired(old[i])]
  <1>0. PICK pem \in Keys :
          /\ "wrong_pem" \notin Mistakes => pem = key
          /\ registry' = [registry EXCEPT !.generated_at = now,
                            !.keys = Append(retired, Entry(key, pem, "active", now, Never))]
    BY DEF Rotate
  <1> DEFINE entry == Entry(key, pem, "active", now, Never)
  <1>1. now \in Time /\ old \in Seq(Entries) /\ registry \in Registries
    BY DEF TypeOK, Registries
  <1>2. Len(old) \in Nat /\ DOMAIN old = 1..Len(old)
    BY <1>1, LenProperties
  <1>3. \A i \in 1..Len(old) : old[i] \in Entries /\ Retired(old[i]) \in Entries
    BY <1>1, ElementOfSeq, RetiredTyped
  <1>4. retired \in [1..Len(old) -> Entries]
    BY <1>2, <1>3
  <1>5. retired \in Seq(Entries) /\ Len(retired) = Len(old)
    <2>1. retired \in Seq(Entries)
      BY <1>2, <1>4, SeqDef
    <2>2. DOMAIN retired = 1..Len(retired) /\ Len(retired) \in Nat
      BY <2>1, LenProperties
    <2> QED
      BY <1>2, <2>1, <2>2
  <1>6. entry \in Entries
    BY <1>1 DEF Entry, Entries
  <1>7. /\ Append(retired, entry) \in Seq(Entries)
        /\ Len(Append(retired, entry)) = Len(old) + 1
        /\ \A i \in 1..Len(old) : Append(retired, entry)[i] = retired[i]
        /\ Append(retired, entry)[Len(old) + 1] = entry
    BY <1>5, <1>6, AppendProperties
  <1>8. DOMAIN Append(retired, entry) = 1..(Len(old) + 1)
    BY <1>7, LenProperties
  <1>9. /\ registry'.generated_at = now
        /\ registry'.keys = Append(retired, entry)
    BY <1>0, <1>1 DEF Registries
  <1>10. \A i \in 1..Len(old) : retired[i] = Retired(old[i])
    BY <1>2
  <1> QED
    BY <1>0, <1>2, <1>3, <1>7, <1>8, <1>9, <1>10

LEMMA RotatedIsKept ==
  ASSUME IInv, NEW key \in Keys, Rotate(key)
  PROVE  Kept(registry', ledger')
  <1> DEFINE old == registry.keys
             new == registry'.keys
             n == Len(old)
             date == registry.generated_at
  <1>1. /\ registry'.generated_at = now
        /\ n \in Nat /\ DOMAIN old = 1..n /\ DOMAIN new = 1..(n + 1)
        /\ \A i \in 1..n : old[i] \in Entries /\ new[i] = Retired(old[i])
    BY RotatedEntries DEF IInv
  <1>2. PICK pem \in Keys : /\ "wrong_pem" \notin Mistakes => pem = key
                            /\ new[n + 1] = Entry(key, pem, "active", now, Never)
    BY RotatedEntries DEF IInv
  <1>3. registry \in Registries /\ registry' \in Registries
    BY RotateTyped DEF IInv, TypeOK
  <1>4. ledger \in [Keys -> Dates] /\ now \in Time /\ date \in Time /\ date < now
    BY DEF IInv, TypeOK, Dates, Registries, Rotate, MayWrite
  <1>5. Kept(registry, ledger)
    BY DEF IInv, RegistriesInv, Faithful
  <1>6. ledger[key] = Unused
    BY DEF Rotate
  <1>7. \A i \in 1..n : /\ new[i].id = old[i].id /\ old[i].id \in Keys
                        /\ old[i].id # key
    <2>1. SUFFICES ASSUME NEW i \in 1..n
                   PROVE  /\ new[i].id = old[i].id /\ old[i].id \in Keys
                          /\ old[i].id # key
      OBVIOUS
    <2>2. ledger[old[i].id].activated <= date
      BY <1>1, <1>5 DEF Kept
    <2>3. Never \in Nat /\ date \in Nat /\ date < Never
      BY <1>4, TimeFacts
    <2>4. ledger[key].activated = Never
      BY <1>6 DEF Unused
    <2>5. \A e \in Entries : Retired(e).id = e.id /\ e.id \in Keys
      BY DEF Entries, Retired
    <2>6. new[i] = Retired(old[i]) /\ old[i] \in Entries
      BY <1>1
    <2> HIDE DEF old, new, date
    <2> QED
      BY <2>2, <2>3, <2>4, <2>5, <2>6
  <1>8. /\ new[n + 1].id = key /\ new[n + 1].public_key_pem = pem
        /\ new[n + 1].status = "active" /\ new[n + 1].not_before = now
        /\ new[n + 1].not_after = Never
    BY <1>2 DEF Entry
  <1>9. /\ \A i \in 1..n : IsFirst(registry', i) <=> IsFirst(registry, i)
        /\ IsFirst(registry', n + 1)
    <2>1. ASSUME NEW i \in 1..n
          PROVE  IsFirst(registry', i) <=> IsFirst(registry, i)
      <3>1. \A j \in 1..(n + 1) : j < i => j \in 1..n
        BY <1>1
      <3>2. \A j \in 1..n : j \in 1..(n + 1)
        BY <1>1
      <3> HIDE DEF n
      <3> QED
        BY <1>1, <1>7, <3>1, <3>2 DEF IsFirst
    <2>2. IsFirst(registry', n + 1)
      <3>1. \A j \in 1..(n + 1) : j < n + 1 => j \in 1..n
        BY <1>1
      <3> HIDE DEF n
      <3> QED
        BY <1>1, <1>7, <1>8, <3>1 DEF IsFirst
    <2> QED
      BY <2>1, <2>2
  <1>10. \A k \in Keys : k # key =>
          ledger'[k] = IF \E i \in Matching(registry, k) : old[i].status = "active"
                       THEN [ledger[k] EXCEPT !.retired = now] ELSE ledger[k]
    BY DEF Rotate
  <1>11. ledger'[key] = [activated |-> now, retired |-> Never, revoked |-> Never]
    BY DEF Rotate, Unused
  <1>12. ASSUME NEW k \in Keys, ledger'[k].activated <= now
         PROVE  \E i \in DOMAIN new : new[i].id = k /\ IsFirst(registry', i)
    <2>1. CASE k = key
      <3>1. n + 1 \in DOMAIN new
        BY <1>1
      <3> QED
        BY <1>8, <1>9, <2>1, <3>1
    <2>2. CASE k # key
      <3>1. ledger'[k].activated = ledger[k].activated
        BY <1>4, <1>10, <2>2 DEF Dates
      <3>2. ledger[k].activated <= date
        BY <1>4, <1>12, <3>1, TimeFacts DEF IInv, LedgerInv, Dates
      <3>3. PICK i \in DOMAIN old : old[i].id = k /\ IsFirst(registry, i)
        BY <1>5, <3>2 DEF Kept
      <3>4. i \in DOMAIN new
        BY <1>1
      <3> QED
        BY <1>1, <1>7, <1>9, <3>3, <3>4
    <2> QED
      BY <2>1, <2>2
  <1>13. ASSUME NEW i \in 1..n, IsFirst(registry, i)
         PROVE  Agrees(new[i], now, ledger'[new[i].id])
    <2> DEFINE k == old[i].id
               d == ledger[k]
    <2>1. k \in Keys /\ k # key /\ new[i].id = k /\ new[i] = Retired(old[i])
          /\ old[i] \in Entries /\ d \in Dates
      BY <1>1, <1>4, <1>7
    <2>2. Agrees(old[i], date, d)
      BY <1>1, <1>5, <1>13 DEF Kept
    <2>3. /\ d.retired <= date \/ d.retired = Never
          /\ d.revoked <= date \/ d.revoked = Never
      BY <2>1 DEF IInv, LedgerInv
    <2>4. /\ date \in Nat /\ now \in Nat /\ Never \in Nat /\ date < now /\ now < Never
          /\ d.activated \in Nat /\ d.retired \in Nat /\ d.revoked \in Nat
      BY <1>4, <2>1, TimeFacts DEF Dates
    <2>5. (\E j \in Matching(registry, k) : old[j].status = "active")
             <=> old[i].status = "active"
      <3>1. i \in Matching(registry, k)
        BY <1>1 DEF Matching
      <3>2. ASSUME NEW j \in Matching(registry, k), old[j].status = "active"
            PROVE  j = i
        <4>1. j \in DOMAIN old /\ old[j].id = k
          BY DEF Matching
        <4>2. IsFirst(registry, j)
          BY <1>5, <1>3, <2>1, <3>2, ActiveIsFirst
        <4> QED
          BY <1>1, <1>13, <1>3, <4>1, <4>2, OneIsFirst
      <3> QED
        BY <3>1, <3>2
    <2>6. ledger'[k] = IF old[i].status = "active" THEN [d EXCEPT !.retired = now] ELSE d
      BY <1>10, <2>1, <2>5
    <2> HIDE DEF k, d
    <2>7. CASE old[i].status = "active"
      <3>1. new[i] = [old[i] EXCEPT !.status = "retired",
                         !.not_after = IF "no_not_after" \in Mistakes THEN @ ELSE now]
        BY <2>1, <2>7 DEF Retired
      <3>2. /\ new[i].public_key_pem = old[i].public_key_pem /\ new[i].id = old[i].id
            /\ new[i].not_before = old[i].not_before
            /\ new[i].status = "retired"
            /\ new[i].not_after = IF "no_not_after" \in Mistakes THEN old[i].not_after
                                  ELSE now
        BY <2>1, <3>1 DEF Entries
      <3>3. /\ ledger'[k].activated = d.activated /\ ledger'[k].retired = now
            /\ ledger'[k].revoked = d.revoked
        BY <2>1, <2>6, <2>7 DEF Dates
      <3>4. /\ "wrong_pem" \notin Mistakes => old[i].public_key_pem = old[i].id
            /\ old[i].not_before = d.activated
            /\ ~(d.revoked <= date /\ "second_entry" \notin Mistakes)
            /\ "no_not_after" \in Mistakes => old[i].not_after = Never
        BY <2>2, <2>7 DEF Agrees
      <3>5. ~(d.revoked <= now /\ "second_entry" \notin Mistakes)
        BY <2>3, <2>4, <3>4
      <3> QED
        BY <2>1, <2>4, <3>2, <3>3, <3>4, <3>5 DEF Agrees
    <2>8. CASE old[i].status # "active"
      <3>1. new[i] = old[i] /\ ledger'[k] = d
        BY <2>1, <2>6, <2>8 DEF Retired
      <3> QED
        BY <2>1, <2>2, <2>3, <2>4, <2>8, <3>1 DEF Agrees
    <2> QED
      BY <2>7, <2>8
  <1>14. Agrees(new[n + 1], now, ledger'[new[n + 1].id])
    <2> DEFINE added == new[n + 1]
    <2>1. /\ added.id = key /\ added.public_key_pem = pem
          /\ added.status = "active" /\ added.not_before = now
          /\ added.not_after = Never
      BY <1>8
    <2> HIDE DEF added
    <2>2. Never \in Nat /\ now \in Nat /\ now < Never
      BY <1>4, TimeFacts
    <2>3. ledger'[added.id] = [activated |-> now, retired |-> Never, revoked |-> Never]
      BY <1>11, <2>1
    <2>4. Agrees(added, now, ledger'[added.id])
      BY <1>2, <2>1, <2>2, <2>3 DEF Agrees
    <2> QED
      BY <2>4 DEF added
  <1>15. ASSUME NEW i \in DOMAIN new
         PROVE  /\ ledger'[new[i].id].activated <= now
                /\ IsFirst(registry', i) => Agrees(new[i], now, ledger'[new[i].id])
                /\ ~IsFirst(registry', i) => /\ "second_entry" \in Mistakes
                                             /\ new[i].status = "revoked"
    <2>1. CASE i = n + 1
      <3>1. ledger'[new[i].id].activated <= now
        BY <1>4, <1>8, <1>11, <2>1, TimeFacts
      <3> QED
        BY <1>9, <1>14, <2>1, <3>1
    <2>2. CASE i \in 1..n
      <3> DEFINE k == old[i].id
      <3>1. k \in Keys /\ k # key /\ new[i].id = k /\ new[i] = Retired(old[i])
        BY <1>1, <1>7, <2>2
      <3>2. /\ ledger[k].activated <= date
            /\ ~IsFirst(registry, i) => "second_entry" \in Mistakes /\ old[i].status = "revoked"
        BY <1>1, <1>5, <2>2 DEF Kept
      <3>3. ledger'[k].activated = ledger[k].activated /\ ledger[k].activated \in Nat
        BY <1>4, <1>10, <3>1, TimeFacts DEF Dates
      <3>4. ledger'[k].activated <= now
        BY <1>4, <3>2, <3>3, TimeFacts
      <3>5. old[i].status = "revoked" => new[i].status = "revoked"
        BY <3>1 DEF Retired
      <3> HIDE DEF k
      <3>6. new[i].id = k
        BY <3>1
      <3> QED
        BY <1>9, <1>13, <2>2, <3>2, <3>4, <3>5, <3>6
    <2>3. i \in 1..n \/ i = n + 1
      BY <1>1
    <2> QED
      BY <2>1, <2>2, <2>3
  <1> QED
    BY <1>1, <1>12, <1>15 DEF Kept

\* What a revocation does to the ledger.
LEMMA RevokedLedger ==
  ASSUME IInv, NEW key \in Keys, Revoke(key)
  PROVE  /\ ledger \in [Keys -> Dates]
         /\ now \in Time /\ registry.generated_at \in Time /\ registry.generated_at < now
         /\ Kept(registry, ledger) /\ registry \in Registries
         /\ registry.keys \in Seq(Entries)
         /\ ledger[key].activated <= registry.generated_at
         /\ ledger[key].revoked = Never
         /\ \A k \in Keys :
              /\ ledger'[k].activated = ledger[k].activated
              /\ ledger'[k].retired = ledger[k].retired
              /\ ledger'[k].revoked = IF k = key THEN now ELSE ledger[k].revoked
              /\ ledger'[k].activated <= now => ledger[k].activated <= registry.generated_at
  <1>1. /\ ledger \in [Keys -> Dates]
        /\ now \in Time /\ registry.generated_at \in Time /\ registry.generated_at < now
        /\ Kept(registry, ledger) /\ registry \in Registries
        /\ registry.keys \in Seq(Entries)
    BY DEF IInv, TypeOK, RegistriesInv, Faithful, Dates, Registries, Revoke, MayWrite
  <1>2. ledger' = [ledger EXCEPT ![key] = [ledger[key] EXCEPT !.revoked = now]]
        /\ ledger[key].revoked = Never /\ ledger[key].activated # Never
    BY DEF Revoke
  <1>3. \A k \in Keys : /\ ledger'[k].activated = ledger[k].activated
                        /\ ledger'[k].retired = ledger[k].retired
                        /\ ledger'[k].revoked = IF k = key THEN now ELSE ledger[k].revoked
    BY <1>1, <1>2 DEF Dates
  <1>4. \A k \in Keys :
          ledger[k].activated <= registry.generated_at \/ ledger[k].activated = Never
    BY DEF IInv, LedgerInv
  <1>5. now \in Nat /\ Never \in Nat /\ now < Never
    BY <1>1, TimeFacts
  <1>6. \A k \in Keys : ledger'[k].activated <= now
                          => ledger[k].activated <= registry.generated_at
    BY <1>3, <1>4, <1>5
  <1> QED
    BY <1>1, <1>2, <1>3, <1>4, <1>6

\* The key's entry is marked.
LEMMA MarkedIsKept ==
  ASSUME IInv, "second_entry" \notin Mistakes, NEW key \in Keys, Revoke(key)
  PROVE  Kept(registry', ledger') /\ registry'.generated_at = now
  <1> DEFINE old == registry.keys
             new == registry'.keys
             date == registry.generated_at
             Marked(e) == IF e.id = key THEN [e EXCEPT !.status = "revoked"] ELSE e
  <1>1. /\ ledger \in [Keys -> Dates] /\ now \in Time /\ date \in Time /\ date < now
        /\ Kept(registry, ledger) /\ registry \in Registries /\ old \in Seq(Entries)
        /\ ledger[key].revoked = Never
    BY RevokedLedger
  <1>2. \A k \in Keys : /\ ledger'[k].activated = ledger[k].activated
                        /\ ledger'[k].retired = ledger[k].retired
                        /\ ledger'[k].revoked = IF k = key THEN now ELSE ledger[k].revoked
                        /\ ledger'[k].activated <= now => ledger[k].activated <= date
    BY RevokedLedger
  <1>3. /\ registry'.generated_at = now
        /\ new = [i \in DOMAIN old |-> Marked(old[i])]
    <2>1. registry' = [registry EXCEPT !.generated_at = now,
                                      !.keys = [i \in DOMAIN old |-> Marked(old[i])]]
      BY DEF Revoke
    <2> QED
      BY <1>1, <2>1 DEF Registries
  <1>4. \A i \in DOMAIN old : old[i] \in Entries
    <2>1. DOMAIN old = 1..Len(old)
      BY <1>1, LenProperties
    <2> QED
      BY <1>1, <2>1, ElementOfSeq
  <1>5. DOMAIN new = DOMAIN old /\ \A i \in DOMAIN old : new[i] = Marked(old[i])
    BY <1>3
  <1>6. \A i \in DOMAIN old : /\ new[i].id = old[i].id /\ old[i].id \in Keys
                              /\ new[i].public_key_pem = old[i].public_key_pem
                              /\ new[i].not_before = old[i].not_before
                              /\ new[i].not_after = old[i].not_after
                              /\ new[i].status = IF old[i].id = key THEN "revoked"
                                                 ELSE old[i].status
    BY <1>4, <1>5 DEF Entries
  <1>7. \A i \in DOMAIN old : IsFirst(registry, i) /\ IsFirst(registry', i)
    <2>1. \A i \in DOMAIN old : IsFirst(registry, i)
      BY <1>1 DEF Kept
    <2> HIDE DEF old, new
    <2> QED
      BY <1>5, <1>6, <2>1 DEF IsFirst, old, new
  <1>8. ASSUME NEW k \in Keys, ledger'[k].activated <= now
        PROVE  \E i \in DOMAIN new : new[i].id = k /\ IsFirst(registry', i)
    <2>1. ledger[k].activated <= date
      BY <1>2, <1>8
    <2>2. PICK i \in DOMAIN old : old[i].id = k
      BY <1>1, <2>1 DEF Kept
    <2> QED
      BY <1>5, <1>6, <1>7, <2>2
  <1>9. ASSUME NEW i \in DOMAIN new
        PROVE  ledger'[new[i].id].activated <= now /\ Agrees(new[i], now, ledger'[new[i].id])
    <2> DEFINE k == old[i].id
               d == ledger[k]
    <2>1. k \in Keys /\ new[i].id = k /\ d \in Dates /\ i \in DOMAIN old
      BY <1>1, <1>5, <1>6
    <2>2. Agrees(old[i], date, d) /\ d.activated <= date
      BY <1>1, <1>7, <2>1 DEF Kept
    <2>3. /\ d.retired <= date \/ d.retired = Never
          /\ d.revoked <= date \/ d.revoked = Never
      BY <2>1 DEF IInv, LedgerInv
    <2>4. /\ date \in Nat /\ now \in Nat /\ Never \in Nat /\ date < now /\ now < Never
          /\ d.activated \in Nat /\ d.retired \in Nat /\ d.revoked \in Nat
      BY <1>1, <2>1, TimeFacts DEF Dates
    <2>5. /\ ledger'[k].activated = d.activated /\ ledger'[k].retired = d.retired
          /\ ledger'[k].revoked = IF k = key THEN now ELSE d.revoked
      BY <1>2, <2>1
    <2>6. /\ new[i].public_key_pem = old[i].public_key_pem
          /\ new[i].not_before = old[i].not_before /\ new[i].not_after = old[i].not_after
          /\ new[i].status = IF k = key THEN "revoked" ELSE old[i].status
      BY <1>6, <2>1
    <2> HIDE DEF k, d, old, new, date
    <2> QED
      BY <2>1, <2>2, <2>3, <2>4, <2>5, <2>6 DEF Agrees, k
  <1> QED
    BY <1>3, <1>5, <1>7, <1>8, <1>9 DEF Kept

\* The revocation is an entry of its own, after the key's first one.
LEMMA AddedIsKept ==
  ASSUME IInv, "second_entry" \in Mistakes, NEW key \in Keys, Revoke(key)
  PROVE  Kept(registry', ledger') /\ registry'.generated_at = now
  <1> DEFINE old == registry.keys
             new == registry'.keys
             n == Len(old)
             date == registry.generated_at
             entry == Entry(key, key, "revoked", now, Never)
  <1>1. /\ ledger \in [Keys -> Dates] /\ now \in Time /\ date \in Time /\ date < now
        /\ Kept(registry, ledger) /\ registry \in Registries /\ old \in Seq(Entries)
        /\ ledger[key].activated <= date
    BY RevokedLedger
  <1>2. \A k \in Keys : /\ ledger'[k].activated = ledger[k].activated
                        /\ ledger'[k].retired = ledger[k].retired
                        /\ ledger'[k].activated <= now => ledger[k].activated <= date
    BY RevokedLedger
  <1>3. registry'.generated_at = now /\ new = Append(old, entry)
    <2>1. registry' = [registry EXCEPT !.generated_at = now, !.keys = Append(old, entry)]
      BY DEF Revoke
    <2> QED
      BY <1>1, <2>1 DEF Registries
  <1>4. entry \in Entries /\ entry.id = key /\ entry.status = "revoked"
    BY <1>1, TimeFacts DEF Entry, Entries
  <1>5. /\ n \in Nat /\ DOMAIN old = 1..n /\ DOMAIN new = 1..(n + 1)
        /\ \A i \in 1..n : new[i] = old[i] /\ old[i] \in Entries /\ old[i].id \in Keys
        /\ new[n + 1] = entry
    <2>1. n \in Nat /\ DOMAIN old = 1..n
      BY <1>1, LenProperties
    <2>2. /\ new \in Seq(Entries) /\ Len(new) = n + 1 /\ new[n + 1] = entry
          /\ \A i \in 1..n : new[i] = old[i]
      BY <1>1, <1>3, <1>4, AppendProperties
    <2>3. DOMAIN new = 1..(n + 1)
      BY <2>2, LenProperties
    <2>4. \A i \in 1..n : old[i] \in Entries
      BY <1>1, <2>1, ElementOfSeq
    <2> QED
      BY <2>1, <2>2, <2>3, <2>4 DEF Entries
  <1>6. \A i \in 1..n : IsFirst(registry', i) <=> IsFirst(registry, i)
    <2> SUFFICES ASSUME NEW i \in 1..n
                 PROVE  IsFirst(registry', i) <=> IsFirst(registry, i)
      OBVIOUS
    <2>1. \A j \in 1..(n + 1) : j < i => j \in 1..n
      BY <1>5
    <2>2. \A j \in 1..n : j \in 1..(n + 1)
      BY <1>5
    <2> HIDE DEF n
    <2> QED
      BY <1>5, <2>1, <2>2 DEF IsFirst
  <1>7. ~IsFirst(registry', n + 1)
    <2>1. PICK i \in DOMAIN old : old[i].id = key
      BY <1>1 DEF Kept
    <2>2. i \in DOMAIN new /\ i < n + 1 /\ new[i].id = new[n + 1].id
      BY <1>4, <1>5, <2>1
    <2> QED
      BY <2>2 DEF IsFirst
  <1>8. ASSUME NEW k \in Keys, ledger'[k].activated <= now
        PROVE  \E i \in DOMAIN new : new[i].id = k /\ IsFirst(registry', i)
    <2>1. PICK i \in DOMAIN old : old[i].id = k /\ IsFirst(registry, i)
      BY <1>1, <1>2, <1>8 DEF Kept
    <2>2. i \in DOMAIN new /\ i \in 1..n
      BY <1>5
    <2> QED
      BY <1>5, <1>6, <2>1, <2>2
  <1>9. ASSUME NEW i \in 1..n
        PROVE  /\ ledger'[old[i].id].activated <= now
               /\ IsFirst(registry, i) => Agrees(old[i], now, ledger'[old[i].id])
               /\ ~IsFirst(registry, i) => old[i].status = "revoked"
    <2> DEFINE k == old[i].id
               d == ledger[k]
    <2>1. k \in Keys /\ d \in Dates
      BY <1>1, <1>5
    <2>2. /\ d.activated <= date
          /\ IsFirst(registry, i) => Agrees(old[i], date, d)
          /\ ~IsFirst(registry, i) => old[i].status = "revoked"
      BY <1>1, <1>5 DEF Kept
    <2>3. d.retired <= date \/ d.retired = Never
      BY <2>1 DEF IInv, LedgerInv
    <2>4. /\ date \in Nat /\ now \in Nat /\ Never \in Nat /\ date < now /\ now < Never
          /\ d.activated \in Nat /\ d.retired \in Nat
      BY <1>1, <2>1, TimeFacts DEF Dates
    <2>5. ledger'[k].activated = d.activated /\ ledger'[k].retired = d.retired
      BY <1>2, <2>1
    <2> HIDE DEF k, d, old, new, date
    <2>6. Agrees(old[i], date, d) => Agrees(old[i], now, ledger'[k])
      BY <2>3, <2>4, <2>5 DEF Agrees
    <2> QED
      BY <2>2, <2>4, <2>5, <2>6 DEF k
  <1>10. ASSUME NEW i \in DOMAIN new
         PROVE  /\ ledger'[new[i].id].activated <= now
                /\ IsFirst(registry', i) => Agrees(new[i], now, ledger'[new[i].id])
                /\ ~IsFirst(registry', i) => new[i].status = "revoked"
    <2>1. CASE i = n + 1
      <3>1. ledger'[key].activated = ledger[key].activated /\ ledger[key].activated \in Nat
        BY <1>1, <1>2, TimeFacts DEF Dates
      <3>2. ledger'[key].activated <= now
        BY <1>1, <3>1, TimeFacts
      <3> HIDE DEF n, entry
      <3> QED
        BY <1>4, <1>5, <1>7, <2>1, <3>2
    <2>2. CASE i \in 1..n
      BY <1>5, <1>6, <1>9, <2>2
    <2>3. i \in 1..n \/ i = n + 1
      BY <1>5
    <2> QED
      BY <2>1, <2>2, <2>3
  <1> QED
    BY <1>3, <1>8, <1>10 DEF Kept

LEMMA OperatorStep ==
  ASSUME IInv, NEW key \in Keys, Rotate(key) \/ Revoke(key)
  PROVE  LedgerInv' /\ RegistriesInv'
  <1>1. Kept(registry', ledger') /\ registry'.generated_at = now
    BY RotatedIsKept, MarkedIsKept, AddedIsKept, RotatedEntries DEF IInv
  <1>2. /\ ledger \in [Keys -> Dates] /\ ledger' \in [Keys -> Dates]
        /\ now \in Time /\ registry.generated_at \in Time /\ registry.generated_at < now
    BY LedgerTyped DEF IInv, TypeOK, Dates, Registries, Rotate, Revoke, MayWrite
  <1>3. Completed(ledger, ledger', now)
    BY LedgerIsCompleted
  <1>4. ASSUME NEW reg \in Registries, Faithful(reg)
        PROVE  reg.generated_at <= registry'.generated_at /\ Kept(reg, ledger')
    <2>1. reg.generated_at \in Time
      BY DEF Registries
    <2>2. /\ reg.generated_at \in Nat /\ registry.generated_at \in Nat /\ now \in Nat
          /\ reg.generated_at <= registry.generated_at
      BY <1>2, <1>4, <2>1, TimeFacts DEF Faithful
    <2>3. reg.generated_at < now
      BY <1>2, <2>2
    <2>4. Kept(reg, ledger')
      BY <1>2, <1>3, <1>4, <2>3, KeptLater DEF Faithful
    <2> QED
      BY <1>1, <2>2, <2>3, <2>4
  <1>5. UNCHANGED <<now, published, copy, fetched>>
    BY DEF Rotate, Revoke, cmdVars
  <1>6. LedgerInv'
    <2> SUFFICES ASSUME NEW k \in Keys
                 PROVE  /\ ledger'[k].activated <= now \/ ledger'[k].activated = Never
                        /\ ledger'[k].retired <= now \/ ledger'[k].retired = Never
                        /\ ledger'[k].revoked <= now \/ ledger'[k].revoked = Never
      BY <1>1, <1>2, <1>5, TimeFacts DEF LedgerInv
    <2> DEFINE date == registry.generated_at
    <2>0. date \in Nat /\ now \in Nat /\ date < now /\ Never \in Nat
      BY <1>2, TimeFacts
    <2>1. ASSUME NEW old \in Time \cup {Never}, NEW new, FilledIn(old, new, now),
                 old <= date \/ old = Never
          PROVE  new <= now \/ new = Never
      <3>1. old \in Nat
        BY TimeFacts
      <3> HIDE DEF date
      <3>2. CASE new = old
        BY <2>0, <2>1, <3>1, <3>2
      <3>3. CASE new = now
        BY <2>0, <3>3
      <3> QED
        BY <2>1, <3>2, <3>3 DEF FilledIn
    <2>2. ledger[k] \in Dates
      BY <1>2
    <2> QED
      BY <1>3, <2>1, <2>2 DEF IInv, LedgerInv, Completed, Dates
  <1>7. RegistriesInv'
    <2>1. Faithful(registry)'
      BY <1>1, <1>2, TimeFacts DEF Faithful
    <2>2. Faithful(published)' /\ Faithful(copy)'
      BY <1>4, <1>5 DEF IInv, RegistriesInv, TypeOK, Faithful
    <2>3. (fetched # NoRegistry)' => Faithful(fetched)'
      BY <1>4, <1>5 DEF IInv, RegistriesInv, TypeOK, Faithful
    <2> QED
      BY <2>1, <2>2, <2>3 DEF RegistriesInv
  <1> QED
    BY <1>6, <1>7

LEMMA RegistriesStep ==
  ASSUME IInv, [Next]_vars
  PROVE  LedgerInv' /\ RegistriesInv'
  <1>1. CASE \E key \in Keys : Rotate(key) \/ Revoke(key)
    BY <1>1, OperatorStep
  <1>2. CASE Tick
    <2>1. registry.generated_at \in Nat /\ now \in Nat
      BY TimeFacts DEF IInv, TypeOK, Registries
    <2> QED
      BY <1>2, <2>1
      DEF IInv, LedgerInv, RegistriesInv, Faithful, Tick, operatorVars, cmdVars
  <1>3. CASE Publish \/ Download
    BY <1>3 DEF IInv, LedgerInv, RegistriesInv, Faithful, Publish, Download,
         operatorVars, cmdVars
  <1>4. CASE Issue \/ Edit
    <2>1. UNCHANGED <<now, registry, ledger, published, copy, fetched>>
      <3>1. CASE Issue
        BY <3>1 DEF Issue, operatorVars, cmdVars
      <3>2. CASE Edit
        <4> HIDE DEF IInv
        <4> QED
          BY <3>2 DEF Edit, operatorVars, cmdVars
      <3> QED
        BY <1>4, <3>1, <3>2
    <2> QED
      BY <2>1 DEF IInv, LedgerInv, RegistriesInv, Faithful
  <1>5. CASE LoadRegistry
    BY <1>5 DEF IInv, LedgerInv, RegistriesInv, Faithful, LoadRegistry, operatorVars
  <1>6. CASE \/ AttestationUnreadable \/ LoadAttestation \/ LoadPublicKey
             \/ KeySourceUnreadable \/ VerifyAttestation
    BY <1>6 DEF IInv, LedgerInv, RegistriesInv, Faithful, AttestationUnreadable,
         LoadAttestation, LoadPublicKey, KeySourceUnreadable, VerifyAttestation,
         operatorVars
  <1>7. CASE RunAgain
    BY <1>7 DEF IInv, LedgerInv, RegistriesInv, Faithful, RunAgain, operatorVars
  <1>8. CASE UNCHANGED vars
    BY <1>8 DEF IInv, LedgerInv, RegistriesInv, Faithful, vars, operatorVars, cmdVars
  <1> QED
    BY <1>1, <1>2, <1>3, <1>4, <1>5, <1>6, <1>7, <1>8 DEF Next, Operator, CmdStep

-----------------------------------------------------------------------------
(* The attestation.                                                        *)

LEMMA EnvelopesAreNotNone ==
  \A env \in Envelopes : env # NoEnvelope
  <1> SUFFICES ASSUME NEW env \in Envelopes, env = NoEnvelope
               PROVE  FALSE
    OBVIOUS
  <1>1. env.issuer \in {Issuer, OtherIssuer}
    BY DEF Envelopes
  <1>2. env.issuer = "none"
    BY DEF NoEnvelope
  <1> QED
    BY <1>1, <1>2, TrustAssumption

LEMMA IssueStep ==
  ASSUME IInv, Issue
  PROVE  EnvelopeInv'
  <1>1. PICK i \in {Issuer, OtherIssuer}, key \in Keys :
          /\ envelope' = Signed(i, key, now)
          /\ authorized' = \E e \in Matching(registry, key) :
                              registry.keys[e].status = "active"
    BY DEF Issue
  <1>2. original' = envelope' /\ now \in Time /\ ledger' = ledger
        /\ ledger \in [Keys -> Dates] /\ registry.generated_at \in Time
    BY DEF Issue, IInv, TypeOK, operatorVars, Dates, Registries
  <1>3. envelope' \in Envelopes
    BY <1>1, <1>2, SignedTyped
  <1>4. original'.verificationMethod.key = key /\ original'.validFrom = now
    BY <1>1, <1>2 DEF Signed, Method
  <1>5. ASSUME authorized'
        PROVE  ledger[key].activated <= now /\ now < ledger[key].retired
    <2>1. PICK e \in Matching(registry, key) : registry.keys[e].status = "active"
      BY <1>1, <1>5
    <2>2. Agrees(registry.keys[e], registry.generated_at, ledger[key])
      BY <2>1, ActiveIsFirst DEF IInv, TypeOK, RegistriesInv, Faithful
    <2>3. /\ ledger[key].activated <= registry.generated_at
          /\ ledger[key].retired > registry.generated_at
      BY <2>1, <2>2 DEF Agrees, IInv, RegistriesInv, Faithful, Kept, Matching
    <2>4. ledger[key] \in Dates
      BY <1>2
    <2>5. /\ ledger[key].activated \in Nat /\ ledger[key].retired \in Nat
          /\ registry.generated_at \in Nat /\ now \in Nat /\ now < Never
      BY <1>2, <2>4, TimeFacts DEF Dates
    <2>6. /\ registry.generated_at <= now
          /\ ledger[key].retired <= registry.generated_at \/ ledger[key].retired = Never
      BY DEF IInv, LedgerInv
    <2> QED
      BY <2>3, <2>5, <2>6
  <1> QED
    BY <1>1, <1>2, <1>3, <1>4, <1>5, EnvelopesAreNotNone DEF EnvelopeInv

LEMMA EditStep ==
  ASSUME IInv, Edit
  PROVE  EnvelopeInv'
  <1>1. envelope \in Envelopes /\ envelope' \in Envelopes
    BY EditTyped DEF IInv, TypeOK, Edit
  <1>2. envelope'.proofValue = envelope.proofValue
    <2>1. CASE \E i \in {Issuer, OtherIssuer} : envelope' = [envelope EXCEPT !.issuer = i]
      BY <1>1, <2>1 DEF Envelopes
    <2>2. CASE \E t \in Time : envelope' = [envelope EXCEPT !.validFrom = t]
      BY <1>1, <2>2 DEF Envelopes
    <2>3. CASE \E s \in {"edited", "malformed"} :
                 envelope' = [envelope EXCEPT !.credentialSubject = s]
      BY <1>1, <2>3 DEF Envelopes
    <2>4. CASE \E k \in Keys, f \in Forms :
                 envelope' = [envelope EXCEPT !.verificationMethod = Method(k, f)]
      BY <1>1, <2>4 DEF Envelopes
    <2> QED
      BY <2>1, <2>2, <2>3, <2>4 DEF Edit
  <1>3. UNCHANGED <<original, authorized, ledger>>
    BY DEF Edit, operatorVars
  <1> QED
    BY <1>1, <1>2, <1>3, EnvelopesAreNotNone DEF IInv, EnvelopeInv, Edit

LEMMA EnvelopeStep ==
  ASSUME IInv, [Next]_vars
  PROVE  EnvelopeInv'
  <1>1. CASE \E key \in Keys : Rotate(key) \/ Revoke(key)
    <2>1. PICK key \in Keys : Rotate(key) \/ Revoke(key)
      BY <1>1
    <2>2. UNCHANGED envelopeVars
      BY <2>1 DEF Rotate, Revoke
    <2>3. ASSUME authorized
          PROVE  LET k == original.verificationMethod.key
                 IN  /\ ledger'[k].activated <= original.validFrom
                     /\ original.validFrom < ledger'[k].retired
      <3> DEFINE k == original.verificationMethod.key
      <3>1. original \in Envelopes /\ original # NoEnvelope
        BY <2>3, EnvelopesAreNotNone DEF IInv, EnvelopeInv, TypeOK
      <3>2. k \in Keys /\ original.validFrom \in Time
        BY <3>1 DEF Envelopes
      <3>3. ledger[k] \in Dates /\ now \in Time
        BY <3>2 DEF IInv, TypeOK, Dates
      <3>4. Completed(ledger, ledger', now)
        BY <2>1, LedgerIsCompleted
      <3>5. /\ ledger[k].activated <= original.validFrom
            /\ original.validFrom < ledger[k].retired
        BY <2>3 DEF IInv, EnvelopeInv
      <3>6. ledger'[k].activated = ledger[k].activated
        <4>1. FilledIn(ledger[k].activated, ledger'[k].activated, now)
          BY <3>2, <3>4 DEF Completed
        <4>2. original.validFrom \in Nat /\ original.validFrom < Never /\ Never \in Nat
          BY <3>2, TimeFacts
        <4>3. ledger[k].activated # Never
          BY <3>5, <4>2
        <4> QED
          BY <4>1, <4>3 DEF FilledIn
      <3>7. CASE Rotate(key)
        <4>1. original.validFrom < now
          BY <3>1, <3>7 DEF Rotate
        <4> QED
          BY <3>2, <3>4, <3>5, <3>6, <4>1 DEF Completed, FilledIn
      <3>8. CASE Revoke(key)
        <4>1. ledger'[k].retired = ledger[k].retired
          BY <3>2, <3>3, <3>8 DEF Revoke, IInv, TypeOK, Dates
        <4> QED
          BY <3>5, <3>6, <4>1
      <3> QED
        BY <2>1, <3>7, <3>8
    <2> QED
      BY <2>2, <2>3 DEF IInv, EnvelopeInv, envelopeVars
  <1>2. CASE Issue
    BY <1>2, IssueStep
  <1>3. CASE Edit
    BY <1>3, EditStep
  <1>4. CASE Tick \/ Publish \/ Download \/ RunAgain \/ CmdStep \/ UNCHANGED vars
    <2>1. UNCHANGED <<envelopeVars, operatorVars>> \/ UNCHANGED <<envelopeVars, ledger>>
      BY <1>4 DEF Tick, Publish, Download, RunAgain, CmdStep, vars,
           AttestationUnreadable, LoadAttestation, LoadRegistry, LoadPublicKey,
           KeySourceUnreadable, VerifyAttestation
    <2> QED
      BY <2>1 DEF IInv, EnvelopeInv, envelopeVars, operatorVars
  <1> QED
    BY <1>1, <1>2, <1>3, <1>4 DEF Next, Operator

-----------------------------------------------------------------------------
(* The result.                                                             *)

LEMMA ResultsAreNotNone ==
  \A res \in Results : res # NoResult
  <1> SUFFICES ASSUME NEW res \in Results, res = NoResult
               PROVE  FALSE
    OBVIOUS
  <1>1. DOMAIN res = {"schema_valid", "signature_valid", "verification_method_matches_key",
                      "verification_method_match_required"}
    BY DEF Results
  <1>2. DOMAIN NoResult = {"schema_valid"}
    BY DEF NoResult
  <1> QED
    BY <1>1, <1>2

LEMMA RegistriesAreNotNone ==
  \A reg \in Registries : reg # NoRegistry
  BY TrustAssumption DEF Registries, NoRegistry

LEMMA ResultStep ==
  ASSUME IInv, [Next]_vars
  PROVE  ResultInv'
  <1>1. CASE Tick \/ Publish \/ Download \/ UNCHANGED vars
             \/ \E key \in Keys : Rotate(key) \/ Revoke(key)
    <2>1. UNCHANGED <<cmdVars, envelopeVars>>
      BY <1>1 DEF Tick, Publish, Download, Rotate, Revoke, vars
    <2> QED
      BY <2>1 DEF IInv, ResultInv, cmdVars, envelopeVars
  <1>2. CASE Issue
    <2>1. envelope = NoEnvelope /\ envelope' # NoEnvelope /\ UNCHANGED cmdVars
      BY <1>2, SignedTyped, EnvelopesAreNotNone DEF Issue, IInv, TypeOK
    <2> QED
      BY <2>1 DEF IInv, ResultInv, cmdVars
  <1>3. CASE Edit
    BY <1>3 DEF IInv, ResultInv, Edit, cmdVars
  <1>4. CASE AttestationUnreadable \/ KeySourceUnreadable
    BY <1>4 DEF IInv, ResultInv, AttestationUnreadable, KeySourceUnreadable, Exit,
         envelopeVars
  <1>5. CASE LoadAttestation \/ LoadPublicKey
    BY <1>5 DEF IInv, ResultInv, LoadAttestation, LoadPublicKey, envelopeVars,
         RegistrySources
  <1>6. CASE LoadRegistry
    <2>1. fetched' # NoRegistry
      BY <1>6, RegistriesAreNotNone DEF LoadRegistry, IInv, TypeOK
    <2> QED
      BY <1>6, <2>1 DEF IInv, ResultInv, LoadRegistry, envelopeVars
  <1>7. CASE VerifyAttestation
    <2>1. result' \in Results
      BY <1>7, VerificationTyped DEF VerifyAttestation, IInv, TypeOK
    <2> QED
      BY <1>7, <2>1, ResultsAreNotNone
      DEF IInv, ResultInv, VerifyAttestation, Exit, envelopeVars
  <1>8. CASE RunAgain
    BY <1>8 DEF ResultInv, RunAgain, NoExit
  <1> QED
    BY <1>1, <1>2, <1>3, <1>4, <1>5, <1>6, <1>7, <1>8 DEF Next, Operator, CmdStep

LEMMA InitInvariant ==
  ASSUME Init
  PROVE  IInv
  <1>1. TypeOK
    BY InitTyped
  <1>2. PICK key \in Keys :
          /\ registry = FirstRegistry(key)
          /\ ledger = [k \in Keys |-> IF k = key THEN [Unused EXCEPT !.activated = 0]
                                      ELSE Unused]
    BY DEF Init
  <1>3. \A k \in Keys :
          /\ ledger[k].activated = IF k = key THEN 0 ELSE Never
          /\ ledger[k].retired = Never /\ ledger[k].revoked = Never
    <2>1. /\ [Unused EXCEPT !.activated = 0]
               = [activated |-> 0, retired |-> Never, revoked |-> Never]
          /\ Unused = [activated |-> Never, retired |-> Never, revoked |-> Never]
      BY DEF Unused
    <2> QED
      BY <1>2, <2>1
  <1>4. /\ registry.generated_at = 0 /\ DOMAIN registry.keys = {1}
        /\ registry.keys[1] = Entry(key, key, "active", 0, Never)
    BY <1>2 DEF FirstRegistry
  <1>5. LedgerInv
    <2>1. now = 0
      BY DEF Init
    <2> QED
      BY <1>3, <1>4, <2>1 DEF LedgerInv
  <1>6. Kept(registry, ledger)
    <2>1. Never \in Nat /\ 0 < Never
      BY TimeFacts
    <2>2. /\ registry.keys[1].id = key /\ registry.keys[1].public_key_pem = key
          /\ registry.keys[1].status = "active" /\ registry.keys[1].not_before = 0
          /\ registry.keys[1].not_after = Never
      BY <1>4 DEF Entry
    <2>3. \A k \in Keys : ledger[k].activated <= 0 => k = key
      BY <1>3, <2>1
    <2>4. IsFirst(registry, 1)
      BY <1>4 DEF IsFirst
    <2>5. /\ ledger[key].activated = 0 /\ ledger[key].retired = Never
          /\ ledger[key].revoked = Never
      BY <1>3
    <2>6. Agrees(registry.keys[1], 0, ledger[key])
      BY <2>1, <2>2, <2>5 DEF Agrees
    <2> QED
      BY <1>4, <2>2, <2>3, <2>4, <2>5, <2>6 DEF Kept
  <1>7. RegistriesInv
    BY <1>4, <1>6 DEF RegistriesInv, Faithful, Init
  <1>8. EnvelopeInv /\ ResultInv
    BY DEF EnvelopeInv, ResultInv, Init, NoExit
  <1> QED
    BY <1>1, <1>5, <1>7, <1>8 DEF IInv

LEMMA Invariance == Spec => []IInv
  <1>1. Init => IInv
    BY InitInvariant
  <1>2. IInv /\ [Next]_vars => IInv'
    BY StepTyped, RegistriesStep, EnvelopeStep, ResultStep DEF IInv
  <1> QED
    BY <1>1, <1>2, PTL DEF Spec
-----------------------------------------------------------------------------
(* What the invariant says of a verdict.                                   *)

\* A key that is found in a registry was activated by then, and its first
\* entry agrees with the ledger.
LEMMA FirstEntryAgrees ==
  ASSUME NEW reg \in Registries, NEW book, Kept(reg, book), NEW k \in Keys,
         Matching(reg, k) # {}
  PROVE  /\ FirstEntry(reg, k) \in Entries
         /\ FirstEntry(reg, k).id = k
         /\ Agrees(FirstEntry(reg, k), reg.generated_at, book[k])
  <1>1. book[k].activated <= reg.generated_at
    BY DEF Matching, Kept
  <1>2. PICK i \in DOMAIN reg.keys : reg.keys[i].id = k /\ IsFirst(reg, i)
    BY <1>1 DEF Kept
  <1>3. reg.keys \in Seq(Entries)
    BY DEF Registries
  <1>4. DOMAIN reg.keys = 1..Len(reg.keys) /\ Len(reg.keys) \in Nat
    BY <1>3, LenProperties
  <1>5. i \in Nat /\ reg.keys[i] \in Entries
    BY <1>2, <1>3, <1>4, ElementOfSeq
  <1>6. i \in Matching(reg, k) /\ \A j \in Matching(reg, k) : j \in Nat /\ i <= j
    <2>1. \A j \in Matching(reg, k) : j \in DOMAIN reg.keys /\ reg.keys[j].id = k
      BY DEF Matching
    <2>2. \A j \in Matching(reg, k) : j \in Nat /\ ~(j < i)
      BY <1>2, <1>4, <2>1 DEF IsFirst
    <2> QED
      BY <1>2, <1>5, <2>2 DEF Matching
  <1> DEFINE Least(j) == j \in Matching(reg, k) /\ \A l \in Matching(reg, k) : j <= l
             chosen == CHOOSE j \in Matching(reg, k) : \A l \in Matching(reg, k) : j <= l
  <1>7. Least(chosen)
    <2>1. Least(i)
      BY <1>6
    <2>2. \E j : Least(j)
      BY <2>1
    <2> QED
      BY <2>2
  <1>8. chosen = i
    BY <1>5, <1>6, <1>7
  <1>9. FirstEntry(reg, k) = reg.keys[i]
    BY <1>8 DEF FirstEntry
  <1> QED
    BY <1>2, <1>5, <1>9 DEF Kept

\* What is at hand once there is a result.
LEMMA AtHand ==
  ASSUME IInv, result # NoResult
  PROVE  /\ envelope \in Envelopes /\ original \in Envelopes /\ args \in Arguments
         /\ result = Verification(args, fetched, envelope)
         /\ exit = 0 <=> Valid(result)
         /\ args.source \in RegistrySources => fetched \in Registries /\ Faithful(fetched)
         /\ \E i \in {Issuer, OtherIssuer}, k \in Keys, t \in Time : original = Signed(i, k, t)
         /\ envelope.proofValue = original.proofValue
  <1>1. envelope # NoEnvelope /\ original # NoEnvelope
    BY DEF IInv, ResultInv, EnvelopeInv
  <1>2. envelope \in Envelopes /\ original \in Envelopes /\ args \in Arguments
    BY <1>1 DEF IInv, TypeOK
  <1>3. args.source \in RegistrySources => fetched \in Registries /\ Faithful(fetched)
    BY DEF IInv, TypeOK, ResultInv, RegistriesInv
  <1>4. result = Verification(args, fetched, envelope) /\ (exit = 0 <=> Valid(result))
    BY DEF IInv, ResultInv
  <1> QED
    BY <1>1, <1>2, <1>3, <1>4 DEF IInv, EnvelopeInv

\* A registry that resolves a key has its entry, and that names the key.
LEMMA MatchedByRegistry ==
  ASSUME IInv, result # NoResult, args.source \in RegistrySources,
         result.verification_method_matches_key
  PROVE  LET entry == FirstEntry(fetched, Named)
         IN  /\ SchemaValid(envelope)
             /\ Resolves(fetched, envelope)
             /\ result.signature_valid = VerifySignature(entry.public_key_pem, envelope)
             /\ Named \in Keys /\ entry \in Entries
             /\ "wrong_pem" \notin Mistakes => entry.public_key_pem = Named
             /\ Agrees(entry, fetched.generated_at, ledger[Named])
  <1>1. /\ envelope \in Envelopes /\ fetched \in Registries /\ Kept(fetched, ledger)
        /\ result = Verification(args, fetched, envelope)
    BY AtHand DEF Faithful
  <1>2. Named \in Keys
    BY <1>1 DEF Envelopes, Named
  <1>3. SchemaValid(envelope) /\ result = VerifyWithRegistry(fetched, envelope)
    BY <1>1 DEF Verification, ResultOf
  <1>4. Resolves(fetched, envelope)
    BY <1>3 DEF VerifyWithRegistry, ResultOf
  <1>5. result.signature_valid
          = VerifySignature(FirstEntry(fetched, Named).public_key_pem, envelope)
    BY <1>3, <1>4 DEF VerifyWithRegistry, ResultOf, Named
  <1>6. Matching(fetched, Named) # {}
    BY <1>4 DEF Resolves, Named
  <1>7. /\ FirstEntry(fetched, Named) \in Entries
        /\ FirstEntry(fetched, Named).id = Named
        /\ Agrees(FirstEntry(fetched, Named), fetched.generated_at, ledger[Named])
    BY <1>1, <1>2, <1>6, FirstEntryAgrees
  <1>8. "wrong_pem" \notin Mistakes => FirstEntry(fetched, Named).public_key_pem = Named
    BY <1>7 DEF Agrees
  <1> QED
    BY <1>2, <1>3, <1>4, <1>5, <1>7, <1>8

LEMMA AcceptedMatches ==
  ASSUME IInv, exit = 0, args.source \in RegistrySources
  PROVE  /\ result # NoResult /\ result.signature_valid
         /\ result.verification_method_matches_key
  <1>1. result # NoResult
    BY DEF IInv, ResultInv
  <1>2. Valid(result) /\ result = Verification(args, fetched, envelope)
    BY <1>1, AtHand
  <1>3. SchemaValid(envelope) /\ result = VerifyWithRegistry(fetched, envelope)
    BY <1>2 DEF Verification, Valid, ResultOf
  <1>4. result.verification_method_match_required
    BY <1>3 DEF VerifyWithRegistry, ResultOf
  <1> QED
    BY <1>1, <1>2, <1>4 DEF Valid

\* A signature that verifies is one over what is there.
LEMMA SignatureCoversThePayload ==
  ASSUME IInv, result # NoResult, NEW key \in Keys, VerifySignature(key, envelope)
  PROVE  /\ envelope.issuer = original.issuer
         /\ envelope.validFrom = original.validFrom
         /\ envelope.credentialSubject = original.credentialSubject
         /\ original.verificationMethod.key = key
  <1>1. PICK i \in {Issuer, OtherIssuer}, k \in Keys, t \in Time : original = Signed(i, k, t)
    BY AtHand
  <1> DEFINE unsigned == [issuer |-> i, validFrom |-> t, credentialSubject |-> "as issued"]
  <1>2. /\ original.issuer = i /\ original.validFrom = t
        /\ original.credentialSubject = "as issued"
        /\ original.verificationMethod.key = k
    BY <1>1 DEF Signed, Method
  <1>3. original.proofValue = [key |-> k, payload |-> SignaturePayload(unsigned)]
    BY <1>1 DEF Signed
  <1>4. envelope.proofValue = [key |-> key, payload |-> SignaturePayload(envelope)]
    BY DEF VerifySignature
  <1>5. key = k /\ SignaturePayload(envelope) = SignaturePayload(unsigned)
    <2>1. [key |-> k, payload |-> SignaturePayload(unsigned)]
            = [key |-> key, payload |-> SignaturePayload(envelope)]
      BY <1>3, <1>4, AtHand
    <2>2. \A signed, checked :
            [key |-> k, payload |-> signed] = [key |-> key, payload |-> checked]
              => key = k /\ checked = signed
      OBVIOUS
    <2> QED
      BY <2>1, <2>2
  <1>6. SignaturePayload(unsigned)
          = [issuer |-> i, validFrom |-> t, credentialSubject |-> "as issued"]
    BY DEF SignaturePayload
  <1>7. [issuer |-> envelope.issuer, validFrom |-> envelope.validFrom,
         credentialSubject |-> envelope.credentialSubject]
          = [issuer |-> i, validFrom |-> t, credentialSubject |-> "as issued"]
    BY <1>5, <1>6 DEF SignaturePayload
  <1> QED
    BY <1>2, <1>5, <1>7

-----------------------------------------------------------------------------
(* The properties, each under the one mistake of the operator's that it    *)
(* does not survive.                                                       *)

\* An attestation signed with a key that the registry marks revoked is never
\* accepted by whoever reads that registry or a later one, as long as the
\* revocation is marked in the key's own entry.
THEOREM RevokedNeverTrusted ==
  ASSUME "second_entry" \notin Mistakes
  PROVE  Spec => []RevokedIsNeverTrusted
  <1>1. ASSUME IInv, DecidedByRegistry, exit = 0
        PROVE  fetched.generated_at < ledger[Named].revoked
    <2> DEFINE entry == FirstEntry(fetched, Named)
    <2>1. args.source \in RegistrySources
      BY <1>1 DEF DecidedByRegistry
    <2>2. /\ Resolves(fetched, envelope) /\ Named \in Keys
          /\ Agrees(entry, fetched.generated_at, ledger[Named])
      BY <1>1, <2>1, AcceptedMatches, MatchedByRegistry
    <2>3. entry.status # "revoked"
      BY <2>2 DEF Resolves, Named
    <2>4. ~(ledger[Named].revoked <= fetched.generated_at)
      BY <2>2, <2>3 DEF Agrees
    <2>5. ledger[Named] \in Dates /\ fetched \in Registries
      BY <1>1, <2>1, <2>2, AtHand, AcceptedMatches DEF IInv, TypeOK, Dates
    <2>6. ledger[Named].revoked \in Nat /\ fetched.generated_at \in Nat
      BY <2>5, TimeFacts DEF Dates, Registries
    <2> QED
      BY <2>4, <2>6
  <1>2. IInv => RevokedIsNeverTrusted
    BY <1>1 DEF RevokedIsNeverTrusted
  <1> QED
    BY <1>2, Invariance, PTL

\* An attestation that is accepted says it was signed within its key's window
\* as the registry at hand knows it: neither before the activation nor at or
\* after the retirement, as long as a retirement is written as a not_after.
THEOREM AcceptedInForce ==
  ASSUME "no_not_after" \notin Mistakes
  PROVE  Spec => []AcceptedKeyWasInForce
  <1>1. ASSUME IInv, DecidedByRegistry, exit = 0
        PROVE  InForce(Named, envelope.validFrom, fetched.generated_at)
    <2> DEFINE entry == FirstEntry(fetched, Named)
    <2>1. args.source \in RegistrySources
      BY <1>1 DEF DecidedByRegistry
    <2>2. /\ Resolves(fetched, envelope) /\ Named \in Keys
          /\ Agrees(entry, fetched.generated_at, ledger[Named])
      BY <1>1, <2>1, AcceptedMatches, MatchedByRegistry
    <2>3. envelope.validFrom >= entry.not_before /\ envelope.validFrom < entry.not_after
      BY <2>2 DEF Resolves, Named
    <2>4. /\ entry.not_before = ledger[Named].activated
          /\ ledger[Named].retired <= fetched.generated_at
               => entry.not_after = ledger[Named].retired
      BY <2>2 DEF Agrees
    <2>5. envelope \in Envelopes /\ ledger[Named] \in Dates
      BY <1>1, <2>1, <2>2, AtHand, AcceptedMatches DEF IInv, TypeOK, Dates
    <2>6. envelope.validFrom \in Nat /\ ledger[Named].activated \in Nat
      BY <2>5, TimeFacts DEF Dates, Envelopes
    <2> QED
      BY <2>3, <2>4, <2>6 DEF InForce
  <1>2. IInv => AcceptedKeyWasInForce
    BY <1>1 DEF AcceptedKeyWasInForce
  <1> QED
    BY <1>2, Invariance, PTL

\* What a key signed while it was the active one is accepted with every
\* registry that has the key and does not revoke it, before and after every
\* rotation, as long as an entry holds the key its id is the digest of.
THEOREM HistoryVerifies ==
  ASSUME "wrong_pem" \notin Mistakes
  PROVE  Spec => []HistoryStaysVerifiable
  <1>1. ASSUME IInv, DecidedByRegistry, envelope = original, envelope.issuer = Issuer,
               authorized, ledger[Named].activated <= fetched.generated_at,
               fetched.generated_at < ledger[Named].revoked
        PROVE  exit = 0
    <2> DEFINE entry == FirstEntry(fetched, Named)
               date == fetched.generated_at
    <2>1. args.source \in RegistrySources /\ result # NoResult
      BY <1>1 DEF DecidedByRegistry, Decided
    <2>2. /\ envelope \in Envelopes /\ fetched \in Registries /\ Kept(fetched, ledger)
          /\ result = Verification(args, fetched, envelope) /\ (exit = 0 <=> Valid(result))
      BY <1>1, <2>1, AtHand DEF Faithful
    <2>3. PICK i \in {Issuer, OtherIssuer}, k \in Keys, t \in Time : envelope = Signed(i, k, t)
      BY <1>1, <2>1, AtHand
    <2>4. /\ Named = k /\ envelope.issuer = i /\ envelope.validFrom = t
          /\ envelope.verificationMethod.form = "key-sha256:hex"
          /\ envelope.credentialSubject = "as issued"
      BY <2>3 DEF Named, Signed, Method
    <2>5. Matching(fetched, k) # {}
      BY <1>1, <2>2, <2>4 DEF Kept, Matching
    <2>6. entry.id = k /\ Agrees(entry, date, ledger[k]) /\ entry \in Entries
      BY <2>2, <2>4, <2>5, FirstEntryAgrees
    <2>7. ledger[k].activated <= t /\ t < ledger[k].retired
      BY <1>1, <2>4 DEF IInv, EnvelopeInv, Named
    <2>8. ledger[k] \in Dates
      BY <1>1 DEF IInv, TypeOK, Dates
    <2>9. /\ ledger[k].revoked \in Nat /\ date \in Nat /\ t \in Nat /\ t < Never
      BY <2>2, <2>8, TimeFacts DEF Dates, Registries
    <2> HIDE DEF entry, date
    <2>10. entry.status # "revoked" /\ entry.not_before <= t /\ t < entry.not_after
      <3>1. ~(ledger[k].revoked <= date)
        <4>1. date < ledger[k].revoked
          BY <1>1, <2>4 DEF date
        <4> QED
          BY <2>9, <4>1
      <3> QED
        <4>1. entry.status # "revoked" /\ entry.not_before = ledger[k].activated
          BY <2>6, <3>1 DEF Agrees
        <4>2. entry.not_after = ledger[k].retired \/ entry.not_after = Never
          BY <2>6 DEF Agrees
        <4> QED
          BY <2>7, <2>9, <4>1, <4>2
    <2>11. Resolves(fetched, envelope)
      <3>1. fetched.issuer = envelope.issuer
        BY <1>1, <2>2 DEF Registries
      <3>2. t >= entry.not_before
        BY <2>6, <2>9, <2>10, TimeFacts DEF Entries
      <3> QED
        BY <2>4, <2>5, <2>10, <3>1, <3>2 DEF Resolves, Named, entry
    <2>12. VerifySignature(k, envelope)
      BY <2>3 DEF VerifySignature, Signed, SignaturePayload
    <2>13. result = ResultOf(TRUE, TRUE, TRUE, TRUE)
      <3>1. entry.public_key_pem = k
        BY <2>6 DEF Agrees
      <3>2. SchemaValid(envelope)
        BY <2>4 DEF SchemaValid
      <3>3. result = VerifyWithRegistry(fetched, envelope)
        BY <2>1, <2>2, <3>2 DEF Verification
      <3> QED
        BY <2>4, <2>11, <2>12, <3>1, <3>3 DEF VerifyWithRegistry, entry, Named
    <2> QED
      BY <2>2, <2>13 DEF Valid, ResultOf
  <1>2. IInv => HistoryStaysVerifiable
    BY <1>1 DEF HistoryStaysVerifiable
  <1> QED
    BY <1>2, Invariance, PTL

\* The key an accepted attestation was checked with: the caller's, or the one
\* in the registry at hand.
CheckedWith == IF args.source = "public_key" THEN args.public_key
               ELSE FirstEntry(fetched, Named).public_key_pem

LEMMA AcceptedSignature ==
  ASSUME IInv, exit = 0
  PROVE  /\ result # NoResult /\ args \in Arguments
         /\ CheckedWith \in Keys /\ VerifySignature(CheckedWith, envelope)
  <1>1. result # NoResult
    BY DEF IInv, ResultInv
  <1>2. args \in Arguments /\ result = Verification(args, fetched, envelope) /\ Valid(result)
    BY <1>1, AtHand
  <1>3. CASE args.source \in RegistrySources
    <2>1. CheckedWith = FirstEntry(fetched, Named).public_key_pem
      BY <1>3 DEF RegistrySources, CheckedWith
    <2>2. /\ FirstEntry(fetched, Named) \in Entries
          /\ result.signature_valid = VerifySignature(CheckedWith, envelope)
      BY <1>3, <2>1, AcceptedMatches, MatchedByRegistry
    <2> QED
      BY <1>1, <1>2, <2>1, <2>2 DEF Valid, Entries
  <1>4. CASE args.source = "public_key"
    <2>1. args.source \notin RegistrySources /\ CheckedWith = args.public_key
      BY <1>4 DEF RegistrySources, CheckedWith
    <2>2. SchemaValid(envelope)
      BY <1>2 DEF Verification, Valid, ResultOf
    <2>3. result.signature_valid = VerifySignature(args.public_key, envelope)
      BY <1>2, <2>1, <2>2 DEF Verification, VerifyWithKey, ResultOf
    <2> QED
      BY <1>1, <1>2, <2>1, <2>3 DEF Valid, Arguments
  <1> QED
    BY <1>2, <1>3, <1>4 DEF Arguments

\* Whatever the operator gets wrong in the registry, no signed field of an
\* accepted attestation was altered, and a caller who brings the key accepts
\* only what that key signed.
AcceptedIsWhatAKeySigned ==
  exit = 0 =>
    /\ envelope.issuer = original.issuer
    /\ envelope.validFrom = original.validFrom
    /\ envelope.credentialSubject = original.credentialSubject
    /\ original.verificationMethod.key = CheckedWith

\* It holds in every reachable state, whatever the operator gets wrong.
THEOREM AcceptedAsSigned == Spec => []AcceptedIsWhatAKeySigned
  <1>1. IInv => AcceptedIsWhatAKeySigned
    BY AcceptedSignature, SignatureCoversThePayload DEF AcceptedIsWhatAKeySigned
  <1> QED
    BY <1>1, Invariance, PTL

\* Every signed field of an accepted attestation is as it was issued, and the
\* key that signed it is the one the registry or the caller named.  This rests
\* on each entry holding the key that its id is the digest of.
THEOREM AcceptedAsIssued ==
  ASSUME "wrong_pem" \notin Mistakes
  PROVE  Spec => []AcceptedIsAsIssued
  <1>1. ASSUME IInv, exit = 0
        PROVE  CheckedWith = IF args.source = "public_key" THEN args.public_key ELSE Named
    <2>1. CASE args.source \in RegistrySources
      BY <1>1, <2>1, AcceptedMatches, MatchedByRegistry DEF CheckedWith, RegistrySources
    <2>2. CASE args.source = "public_key"
      BY <2>2 DEF CheckedWith
    <2> QED
      BY <1>1, <2>1, <2>2, AcceptedSignature DEF Arguments
  <1>2. IInv => AcceptedIsAsIssued
    BY <1>1, AcceptedSignature, SignatureCoversThePayload DEF AcceptedIsAsIssued
  <1> QED
    BY <1>2, Invariance, PTL

\* A result that says the verificationMethod matches the key means the key
\* the signature was checked with, as long as an entry holds the key its id is
\* the digest of.
THEOREM MethodNamesTheKey ==
  ASSUME "wrong_pem" \notin Mistakes
  PROVE  Spec => []MatchedMethodNamesTheKey
  <1>1. ASSUME IInv, Decided, result.verification_method_matches_key
        PROVE  Named = IF args.source = "public_key" THEN args.public_key
                       ELSE FirstEntry(fetched, Named).public_key_pem
    <2>1. /\ result # NoResult /\ args \in Arguments /\ envelope \in Envelopes
          /\ result = Verification(args, fetched, envelope)
      BY <1>1, AtHand DEF Decided
    <2>2. CASE args.source \in RegistrySources
      BY <1>1, <2>1, <2>2, MatchedByRegistry DEF RegistrySources
    <2>3. CASE args.source = "public_key"
      <3>1. args.source \notin RegistrySources
        BY <2>3 DEF RegistrySources
      <3>2. SchemaValid(envelope)
        BY <1>1, <2>1 DEF Verification, ResultOf
      <3>3. envelope.verificationMethod = Method(args.public_key, "key-sha256:hex")
        BY <1>1, <2>1, <3>1, <3>2 DEF Verification, VerifyWithKey, ResultOf
      <3> QED
        BY <2>3, <3>3 DEF Method, Named
    <2> QED
      BY <2>1, <2>2, <2>3 DEF Arguments
  <1>2. IInv => MatchedMethodNamesTheKey
    BY <1>1 DEF MatchedMethodNamesTheKey
  <1> QED
    BY <1>2, Invariance, PTL
=============================================================================
