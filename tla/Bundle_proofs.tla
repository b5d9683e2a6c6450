---------------------------- MODULE Bundle_proofs ----------------------------
(***************************************************************************)
(* Proofs about Bundle, for any number of readers, paths, patterns and     *)
(* edits, and any order the files are sorted in.                           *)
(***************************************************************************)
EXTENDS Bundle, FiniteSetTheorems, SequenceTheorems, TLAPS

LEMMA NoExitFacts == NoExit # 0 /\ NoExit # 1
  BY DEF NoExit

LEMMA ContentFacts ==
  /\ Absent \notin Content /\ Directory \notin Content
  /\ Len(Globs) \in Nat /\ DOMAIN Globs = 1..Len(Globs)
  /\ \A g \in 1..Len(Globs) : Globs[g] \subseteq Paths
  BY BundleAssumption DEF Content

\* Sorting a set lists its members, each once.
LEMMA SortedFacts ==
  ASSUME NEW r \in Readers, NEW S \in SUBSET Paths
  PROVE  LET f == Sorted(Machine[r], S)
         IN  /\ f \in Seq(Paths) /\ Len(f) \in Nat
             /\ \A i \in 1..Len(f) : f[i] \in S
             /\ \A p \in S : \E i \in 1..Len(f) : f[i] = p
             /\ \A i, j \in 1..Len(f) : f[i] = f[j] => i = j
  <1> DEFINE f == Sorted(Machine[r], S)
  <1>1. f \in Seq(S)
    BY SortedAssumption
  <1>2. f \in Seq(Paths) /\ Len(f) \in Nat /\ DOMAIN f = 1..Len(f)
    BY <1>1, SeqMonotonic, LenProperties
  <1>3. \A i \in 1..Len(f) : f[i] \in S
    BY <1>1, ElementOfSeq
  <1>4. /\ \A p \in S : \E i \in DOMAIN f : f[i] = p
        /\ \A i, j \in DOMAIN f : f[i] = f[j] => i = j
    BY SortedAssumption
  <1> QED
    BY <1>2, <1>3, <1>4

-----------------------------------------------------------------------------
(* The inductive invariant: what a reader holds of the files that nobody   *)
(* touched.                                                                *)

SomeGlob(n, p) == \E g \in 1..Len(Globs) : g <= n /\ p \in Globs[g]

GlobInv(r) ==
  \A p \in Paths \ changed[r] :
    p \in matched[r] <=> tree[r][p] # Absent /\ SomeGlob(globbed[r], p)

\* The files are a sorted set that has the untouched files of the bundle.
Lists(r, S) ==
  /\ files[r] = Sorted(Machine[r], S)
  /\ \A p \in Paths \ changed[r] : p \in S <=> p \in BundleFiles(r)

ListInv(r) ==
  /\ globbed[r] # Listed => files[r] = <<>>
  /\ globbed[r] = Listed => \E S \in SUBSET Paths : Lists(r, S)

\* The manifest has the files read so far, and all of them in the second pass.
ManifestInv(r) ==
  \A p \in Paths \ changed[r] :
    /\ pass[r] = "manifest" =>
         manifest[r][p] = IF \E i \in 1..done[r] : files[r][i] = p
                          THEN tree[r][p] ELSE Absent
    /\ pass[r] = "hash" =>
         manifest[r][p] = IF p \in BundleFiles(r) THEN tree[r][p] ELSE Absent

\* The hash has one entry for each file read in the second pass.
HashInv(r) ==
  /\ pass[r] = "manifest" => hashed[r] = <<>>
  /\ pass[r] = "hash" =>
       /\ Len(hashed[r]) = done[r]
       /\ \A i \in 1..done[r] :
            \E c \in Content :
              /\ hashed[r][i] = <<files[r][i], c>>
              /\ files[r][i] \notin changed[r] => c = tree[r][files[r][i]]

ExitInv(r) ==
  exit[r] = 0 => pass[r] = "hash" /\ globbed[r] = Listed /\ done[r] = Len(files[r])

ReaderInv(r) == GlobInv(r) /\ ListInv(r) /\ ManifestInv(r) /\ HashInv(r) /\ ExitInv(r)

IInv == TypeOK /\ \A r \in Readers : ReaderInv(r)

-----------------------------------------------------------------------------
LEMMA Slices ==
  ASSUME TypeOK, NEW r \in Readers
  PROVE  /\ tree[r] \in [Paths -> Entry] /\ matched[r] \subseteq Paths
         /\ globbed[r] \in 0..Listed /\ files[r] \in Seq(Paths)
         /\ Len(files[r]) \in Nat /\ done[r] \in 0..Len(files[r]) /\ done[r] \in Nat
         /\ \A i \in 1..Len(files[r]) : files[r][i] \in Paths
         /\ manifest[r] \in [Paths -> Content \cup {Absent}]
         /\ hashed[r] \in Seq(Paths \X Content) /\ changed[r] \subseteq Paths
         /\ pass[r] \in {"manifest", "hash"}
         /\ Listed = Len(Globs) + 1 /\ Len(Globs) \in Nat
  <1>1. files[r] \in Seq(Paths)
    BY DEF TypeOK
  <1>2. Len(files[r]) \in Nat /\ \A i \in 1..Len(files[r]) : files[r][i] \in Paths
    BY <1>1, LenProperties, ElementOfSeq
  <1> QED
    BY <1>1, <1>2, ContentFacts DEF TypeOK, Listed

LEMMA InvInit == Init => IInv
  <1> SUFFICES ASSUME Init PROVE IInv
    OBVIOUS
  <1>1. FirstContents \subseteq Entry
    BY BundleAssumption DEF Entry, Content
  <1>2. Listed = Len(Globs) + 1 /\ Len(Globs) \in Nat /\ 0 \in 0..Listed /\ 0 # Listed
    BY ContentFacts DEF Listed
  <1>3. <<>> \in Seq(Paths) /\ Len(<<>>) = 0 /\ <<>> \in Seq(Paths \X Content)
    BY EmptySeq
  <1>4. TypeOK
    <2>1. tree \in [Readers -> [Paths -> Entry]] /\ edits \in 0..MaxEdits
      <3>1. tree \in [Readers -> [Paths -> FirstContents]] /\ edits = 0
        BY DEF Init
      <3>2. 0 \in 0..MaxEdits
        BY BundleAssumption
      <3>3. [Paths -> FirstContents] \subseteq [Paths -> Entry]
        BY <1>1
      <3>4. tree \in [Readers -> [Paths -> Entry]]
        BY <3>1, <3>3
      <3> QED
        BY <3>1, <3>2, <3>4
    <2>2. /\ pass \in [Readers -> {"manifest", "hash"}]
          /\ globbed \in [Readers -> 0..Listed]
          /\ matched \in [Readers -> SUBSET Paths]
          /\ files \in [Readers -> Seq(Paths)]
          /\ hashed \in [Readers -> Seq(Paths \X Content)]
      BY <1>2, <1>3 DEF Init
    <2>3. /\ done \in [Readers -> Nat] /\ \A r \in Readers : done[r] <= Len(files[r])
          /\ manifest \in [Readers -> [Paths -> Content \cup {Absent}]]
          /\ exit \in [Readers -> {NoExit, 0, 1}]
          /\ changed \in [Readers -> SUBSET Paths]
      BY <1>3 DEF Init
    <2> QED
      BY <2>1, <2>2, <2>3 DEF TypeOK
  <1>5. ASSUME NEW r \in Readers PROVE ReaderInv(r)
    <2>1. GlobInv(r)
      BY <1>2 DEF Init, GlobInv, SomeGlob
    <2>2. ListInv(r) /\ HashInv(r)
      BY <1>2 DEF Init, ListInv, HashInv
    <2>3. ManifestInv(r)
      BY DEF Init, ManifestInv
    <2>4. ExitInv(r)
      BY NoExitFacts DEF Init, ExitInv
    <2> QED
      BY <2>1, <2>2, <2>3, <2>4 DEF ReaderInv
  <1> QED
    BY <1>4, <1>5 DEF IInv

\* A reader that is not at step keeps its part of the invariant.
Stays(r) ==
  /\ tree'[r] = tree[r] /\ pass'[r] = pass[r] /\ globbed'[r] = globbed[r]
  /\ matched'[r] = matched[r] /\ files'[r] = files[r] /\ done'[r] = done[r]
  /\ manifest'[r] = manifest[r] /\ hashed'[r] = hashed[r]
  /\ exit'[r] = exit[r] /\ changed'[r] = changed[r]

LEMMA StaysInv ==
  ASSUME NEW r \in Readers, ReaderInv(r), Stays(r)
  PROVE  ReaderInv(r)'
  <1> USE DEF ReaderInv, Stays
  <1>1. GlobInv(r)'
    BY DEF GlobInv
  <1>2. ListInv(r)'
    BY DEF ListInv, Lists, BundleFiles, IsFile
  <1>3. ManifestInv(r)'
    BY DEF ManifestInv, BundleFiles, IsFile
  <1>4. HashInv(r)' /\ ExitInv(r)'
    BY DEF HashInv, ExitInv
  <1> QED
    BY <1>1, <1>2, <1>3, <1>4

LEMMA GlobStep ==
  ASSUME IInv, NEW r \in Readers, Glob(r)
  PROVE  TypeOK' /\ ReaderInv(r)' /\ \A s \in Readers \ {r} : Stays(s)
  <1>1. TypeOK /\ ReaderInv(r)
    BY DEF IInv
  <1>2. globbed[r] + 1 \in 1..Len(Globs) /\ globbed[r] + 1 \in 0..Listed
        /\ globbed[r] \in Nat
    BY <1>1, Slices DEF Glob
  <1>3. /\ globbed'[r] = globbed[r] + 1
        /\ matched'[r] = matched[r] \cup {p \in Globs[globbed[r] + 1] : tree[r][p] # Absent}
        /\ UNCHANGED <<tree, edits, pass, files, done, manifest, hashed, exit, changed>>
        /\ globbed' \in [Readers -> 0..Listed]
        /\ \A s \in Readers \ {r} : globbed'[s] = globbed[s] /\ matched'[s] = matched[s]
    BY <1>1, <1>2 DEF Glob, TypeOK
  <1>4. matched' \in [Readers -> SUBSET Paths]
    <2>1. matched[r] \cup {p \in Globs[globbed[r] + 1] : tree[r][p] # Absent} \in SUBSET Paths
      BY <1>1, <1>2, Slices, ContentFacts
    <2> QED
      BY <1>1, <2>1 DEF Glob, TypeOK
  <1>5. TypeOK'
    BY <1>1, <1>3, <1>4 DEF TypeOK
  <1>6. GlobInv(r)'
    <2> SUFFICES ASSUME NEW p \in Paths \ changed[r]
                 PROVE  p \in matched'[r] <=> tree[r][p] # Absent /\ SomeGlob(globbed'[r], p)
      BY <1>3 DEF GlobInv, SomeGlob
    <2>1. SomeGlob(globbed[r] + 1, p) <=> SomeGlob(globbed[r], p) \/ p \in Globs[globbed[r] + 1]
      BY <1>2 DEF SomeGlob
    <2>2. p \in matched[r] <=> tree[r][p] # Absent /\ SomeGlob(globbed[r], p)
      BY <1>1 DEF ReaderInv, GlobInv
    <2> QED
      BY <1>3, <2>1, <2>2
  <1>7. ListInv(r)'
    <2>1. globbed[r] # Listed /\ globbed'[r] # Listed
      BY <1>1, <1>2, <1>3, Slices
    <2> QED
      BY <1>1, <1>3, <2>1 DEF ReaderInv, ListInv
  <1>8. ManifestInv(r)' /\ HashInv(r)'
    BY <1>1, <1>3 DEF ReaderInv, ManifestInv, HashInv, BundleFiles, IsFile
  <1>9. ExitInv(r)'
    BY <1>3, NoExitFacts DEF Glob, Running, ExitInv
  <1> QED
    BY <1>3, <1>5, <1>6, <1>7, <1>8, <1>9 DEF ReaderInv, Stays

LEMMA ListStep ==
  ASSUME IInv, NEW r \in Readers, ListFiles(r)
  PROVE  TypeOK' /\ ReaderInv(r)' /\ \A s \in Readers \ {r} : Stays(s)
  <1> DEFINE S == {p \in matched[r] : IsFile(r, p)}
  <1>1. TypeOK /\ ReaderInv(r) /\ S \in SUBSET Paths
    BY Slices DEF IInv
  <1>2. globbed[r] = Len(Globs) /\ globbed[r] # Listed /\ Len(Globs) \in Nat /\ Listed \in 0..Listed
    BY <1>1, Slices DEF ListFiles
  <1>3. /\ globbed'[r] = Listed /\ files'[r] = Sorted(Machine[r], S)
        /\ UNCHANGED <<tree, edits, pass, matched, done, manifest, hashed, exit, changed>>
        /\ globbed' \in [Readers -> 0..Listed]
        /\ \A s \in Readers \ {r} : globbed'[s] = globbed[s] /\ files'[s] = files[s]
    BY <1>1, <1>2 DEF ListFiles, Found, TypeOK
  <1>4. files' \in [Readers -> Seq(Paths)] /\ Len(files'[r]) \in Nat
    BY <1>1, <1>3, SortedFacts DEF ListFiles, Found, TypeOK
  <1>5. files[r] = <<>> /\ done[r] = 0
    <2>1. files[r] = <<>>
      BY <1>1, <1>2 DEF ReaderInv, ListInv
    <2> QED
      BY <1>1, <2>1, Slices, EmptySeq
  <1>6. TypeOK'
    <2>1. ASSUME NEW s \in Readers PROVE done'[s] <= Len(files'[s])
      <3>1. CASE s = r
        BY <1>3, <1>4, <1>5, <3>1
      <3>2. CASE s # r
        <4>1. files'[s] = files[s] /\ done'[s] = done[s]
          BY <1>3, <3>2
        <4> QED
          BY <1>1, <4>1 DEF TypeOK
      <3> QED
        BY <3>1, <3>2
    <2> QED
      BY <1>1, <1>3, <1>4, <2>1 DEF TypeOK
  <1>7. \A p \in Paths \ changed[r] : p \in S <=> p \in BundleFiles(r)
    <2> SUFFICES ASSUME NEW p \in Paths \ changed[r]
                 PROVE  p \in S <=> p \in BundleFiles(r)
      OBVIOUS
    <2>1. p \in matched[r] <=> tree[r][p] # Absent /\ SomeGlob(globbed[r], p)
      BY <1>1 DEF ReaderInv, GlobInv
    <2>2. SomeGlob(globbed[r], p) <=> \E g \in DOMAIN Globs : p \in Globs[g]
      BY <1>2, ContentFacts DEF SomeGlob
    <2>3. IsFile(r, p) => tree[r][p] # Absent
      BY ContentFacts DEF IsFile
    <2> QED
      BY <2>1, <2>2, <2>3 DEF BundleFiles
  <1>8. ListInv(r)'
    BY <1>1, <1>3, <1>7 DEF ListInv, Lists, BundleFiles, IsFile
  <1>9. GlobInv(r)'
    <2>1. \A p : SomeGlob(Listed, p) <=> SomeGlob(Len(Globs), p)
      BY <1>2 DEF SomeGlob, Listed
    <2> QED
      BY <1>1, <1>2, <1>3, <2>1 DEF ReaderInv, GlobInv, SomeGlob
  <1>10. ManifestInv(r)' /\ HashInv(r)'
    BY <1>1, <1>3, <1>5 DEF ReaderInv, ManifestInv, HashInv, BundleFiles, IsFile
  <1>11. ExitInv(r)'
    BY <1>3, NoExitFacts DEF ListFiles, Running, ExitInv
  <1> QED
    BY <1>3, <1>6, <1>8, <1>9, <1>10, <1>11 DEF ReaderInv, Stays

LEMMA ReadStep ==
  ASSUME IInv, NEW r \in Readers, ReadFile(r)
  PROVE  TypeOK' /\ ReaderInv(r)' /\ \A s \in Readers \ {r} : Stays(s)
  <1> DEFINE n == done[r] + 1
             f == files[r][n]
  <1>1. TypeOK /\ ReaderInv(r) /\ globbed[r] = Listed /\ exit[r] = NoExit
    BY DEF IInv, ReadFile, Reading, Running
  <1>2. n \in 1..Len(files[r]) /\ f \in Paths /\ tree[r][f] \in Content /\ done[r] \in Nat
    BY <1>1, Slices DEF ReadFile, IsFile
  <1>3. /\ done'[r] = n
        /\ UNCHANGED <<tree, edits, pass, globbed, matched, files, exit, changed>>
        /\ \A s \in Readers \ {r} : done'[s] = done[s]
        /\ done' \in [Readers -> Nat] /\ \A s \in Readers : done'[s] <= Len(files'[s])
    <2>1. /\ done' = [done EXCEPT ![r] = n]
          /\ UNCHANGED <<tree, edits, pass, globbed, matched, files, exit, changed>>
      BY DEF ReadFile
    <2>2. done'[r] = n /\ n \in Nat /\ n <= Len(files[r])
      BY <1>1, <1>2, <2>1, Slices DEF TypeOK
    <2> QED
      BY <1>1, <2>1, <2>2 DEF TypeOK
  <1>4. CASE pass[r] = "manifest"
    <2>1. hashed' = hashed /\ manifest' = [manifest EXCEPT ![r][f] = tree[r][f]]
      BY <1>4 DEF ReadFile
    <2>2. /\ manifest'[r][f] = tree[r][f]
          /\ \A p \in Paths \ {f} : manifest'[r][p] = manifest[r][p]
          /\ \A s \in Readers \ {r} : manifest'[s] = manifest[s]
          /\ manifest' \in [Readers -> [Paths -> Content \cup {Absent}]]
      BY <1>1, <1>2, <2>1 DEF TypeOK
    <2>3. TypeOK'
      BY <1>1, <1>3, <2>1, <2>2 DEF TypeOK
    <2>4. ManifestInv(r)'
      <3> SUFFICES ASSUME NEW p \in Paths \ changed[r]
                   PROVE  manifest'[r][p] = IF \E i \in 1..n : files[r][i] = p
                                            THEN tree[r][p] ELSE Absent
        BY <1>3, <1>4 DEF ManifestInv
      <3>1. manifest[r][p] = IF \E i \in 1..done[r] : files[r][i] = p
                             THEN tree[r][p] ELSE Absent
        BY <1>1, <1>4 DEF ReaderInv, ManifestInv
      <3>2. (\E i \in 1..n : files[r][i] = p) <=> p = f \/ \E i \in 1..done[r] : files[r][i] = p
        BY <1>2
      <3> QED
        BY <2>2, <3>1, <3>2
    <2>5. GlobInv(r)' /\ HashInv(r)'
      BY <1>1, <1>3, <1>4, <2>1 DEF ReaderInv, GlobInv, HashInv
    <2>6. ListInv(r)'
      BY <1>1, <1>3 DEF ReaderInv, ListInv, Lists, BundleFiles, IsFile
    <2>7. ExitInv(r)'
      BY <1>1, <1>3, NoExitFacts DEF ExitInv
    <2> QED
      BY <1>3, <2>1, <2>2, <2>3, <2>4, <2>5, <2>6, <2>7 DEF ReaderInv, Stays
  <1>5. CASE pass[r] = "hash"
    <2>1. /\ manifest' = manifest
          /\ hashed' = [hashed EXCEPT ![r] = Append(@, <<f, tree[r][f]>>)]
      BY <1>5 DEF ReadFile, HashEntry
    <2>2. hashed[r] \in Seq(Paths \X Content) /\ Len(hashed[r]) = done[r]
      BY <1>1, <1>5, Slices DEF ReaderInv, HashInv
    <2>3. /\ hashed'[r] = Append(hashed[r], <<f, tree[r][f]>>)
          /\ \A s \in Readers \ {r} : hashed'[s] = hashed[s]
      BY <1>1, <2>1 DEF TypeOK
    <2>4. /\ hashed'[r] \in Seq(Paths \X Content) /\ Len(hashed'[r]) = n
          /\ hashed'[r][n] = <<f, tree[r][f]>>
          /\ \A i \in 1..done[r] : hashed'[r][i] = hashed[r][i]
      <3>1. <<f, tree[r][f]>> \in Paths \X Content
        BY <1>2
      <3> QED
        BY <1>2, <2>2, <2>3, <3>1
    <2>5. TypeOK'
      <3>1. hashed' \in [Readers -> Seq(Paths \X Content)]
        BY <1>1, <2>1, <2>3, <2>4 DEF TypeOK
      <3> QED
        BY <1>1, <1>3, <2>1, <3>1 DEF TypeOK
    <2>6. HashInv(r)'
      <3>1. \A i \in 1..done[r] :
              \E c \in Content :
                /\ hashed[r][i] = <<files[r][i], c>>
                /\ files[r][i] \notin changed[r] => c = tree[r][files[r][i]]
        BY <1>1, <1>5 DEF ReaderInv, HashInv
      <3>2. ASSUME NEW i \in 1..n
            PROVE  \E c \in Content :
                     /\ hashed'[r][i] = <<files[r][i], c>>
                     /\ files[r][i] \notin changed[r] => c = tree[r][files[r][i]]
        <4>1. CASE i = n
          BY <1>2, <2>4, <4>1
        <4>2. CASE i # n
          <5>1. i \in 1..done[r]
            BY <1>2, <4>2
          <5> QED
            BY <2>4, <3>1, <5>1
        <4> QED
          BY <4>1, <4>2
      <3> QED
        BY <1>3, <1>5, <2>4, <3>2 DEF HashInv
    <2>7. GlobInv(r)' /\ ManifestInv(r)'
      BY <1>1, <1>3, <1>5, <2>1 DEF ReaderInv, GlobInv, ManifestInv, BundleFiles, IsFile
    <2>8. ListInv(r)'
      BY <1>1, <1>3 DEF ReaderInv, ListInv, Lists, BundleFiles, IsFile
    <2>9. ExitInv(r)'
      BY <1>1, <1>3, NoExitFacts DEF ExitInv
    <2> QED
      BY <1>3, <2>1, <2>3, <2>5, <2>6, <2>7, <2>8, <2>9 DEF ReaderInv, Stays
  <1> QED
    BY <1>1, <1>4, <1>5, Slices

LEMMA StopStep ==
  ASSUME IInv, NEW r \in Readers, EmptyBundle(r) \/ FileIsGone(r) \/ PrintInfo(r)
  PROVE  TypeOK' /\ ReaderInv(r)' /\ \A s \in Readers \ {r} : Stays(s)
  <1>1. TypeOK /\ ReaderInv(r)
    BY DEF IInv
  <1>2. /\ UNCHANGED <<tree, edits, pass, globbed, matched, files, done, manifest,
                       hashed, changed>>
        /\ exit' \in [Readers -> {NoExit, 0, 1}]
        /\ \A s \in Readers \ {r} : exit'[s] = exit[s]
        /\ exit'[r] = 0 =>
             pass[r] = "hash" /\ globbed[r] = Listed /\ done[r] = Len(files[r])
    <2>1. CASE EmptyBundle(r) \/ FileIsGone(r)
      <3>1. /\ UNCHANGED <<tree, edits, pass, globbed, matched, files, done, manifest,
                           hashed, changed>>
            /\ exit' = [exit EXCEPT ![r] = 1]
        BY <2>1 DEF EmptyBundle, FileIsGone, Exit
      <3>2. exit \in [Readers -> {NoExit, 0, 1}]
        BY <1>1 DEF TypeOK
      <3> QED
        BY <3>1, <3>2
    <2>2. CASE PrintInfo(r)
      <3>1. /\ UNCHANGED <<tree, edits, pass, globbed, matched, files, done, manifest,
                           hashed, changed>>
            /\ exit' = [exit EXCEPT ![r] = 0]
            /\ pass[r] = "hash" /\ globbed[r] = Listed /\ done[r] = Len(files[r])
        BY <2>2 DEF PrintInfo, AllRead, Reading, Exit
      <3>2. exit \in [Readers -> {NoExit, 0, 1}]
        BY <1>1 DEF TypeOK
      <3> QED
        BY <3>1, <3>2
    <2> QED
      BY <2>1, <2>2
  <1>3. TypeOK'
    BY <1>1, <1>2 DEF TypeOK
  <1>4. GlobInv(r)' /\ ListInv(r)'
    BY <1>1, <1>2 DEF ReaderInv, GlobInv, ListInv, Lists, BundleFiles, IsFile
  <1>5. ManifestInv(r)' /\ HashInv(r)'
    BY <1>1, <1>2 DEF ReaderInv, ManifestInv, HashInv, BundleFiles, IsFile
  <1>6. ExitInv(r)'
    BY <1>2 DEF ExitInv
  <1> QED
    BY <1>2, <1>3, <1>4, <1>5, <1>6 DEF ReaderInv, Stays

\* A list that was read to its end has shown every untouched file.
LEMMA ListedAndRead ==
  ASSUME TypeOK, NEW r \in Readers, ListInv(r), globbed[r] = Listed,
         done[r] = Len(files[r]), NEW p \in Paths \ changed[r]
  PROVE  p \in BundleFiles(r) <=> \E i \in 1..done[r] : files[r][i] = p
  <1>1. PICK S \in SUBSET Paths : Lists(r, S)
    BY DEF ListInv
  <1>2. /\ \A i \in 1..Len(files[r]) : files[r][i] \in S
        /\ \A q \in S : \E i \in 1..Len(files[r]) : files[r][i] = q
    <2> DEFINE f == Sorted(Machine[r], S)
    <2>1. /\ \A i \in 1..Len(f) : f[i] \in S
          /\ \A q \in S : \E i \in 1..Len(f) : f[i] = q
      BY SortedFacts
    <2>2. files[r] = f
      BY <1>1 DEF Lists
    <2> QED
      BY <2>1, <2>2
  <1> QED
    BY <1>1, <1>2 DEF Lists

LEMMA StartHashStep ==
  ASSUME IInv, NEW r \in Readers, StartHash(r)
  PROVE  TypeOK' /\ ReaderInv(r)' /\ \A s \in Readers \ {r} : Stays(s)
  <1>1. TypeOK /\ ReaderInv(r) /\ globbed[r] = Listed /\ done[r] = Len(files[r])
        /\ pass[r] = "manifest" /\ exit[r] = NoExit
    BY DEF IInv, StartHash, AllRead, Reading, Running
  <1>2. /\ UNCHANGED <<tree, edits, manifest, hashed, exit, changed>>
        /\ pass' = [pass EXCEPT ![r] = "hash"] /\ globbed' = [globbed EXCEPT ![r] = 0]
        /\ matched' = [matched EXCEPT ![r] = {}] /\ files' = [files EXCEPT ![r] = <<>>]
        /\ done' = [done EXCEPT ![r] = 0]
    BY DEF StartHash
  <1>3. /\ pass'[r] = "hash" /\ globbed'[r] = 0 /\ matched'[r] = {} /\ files'[r] = <<>>
        /\ done'[r] = 0
        /\ \A s \in Readers \ {r} :
             /\ pass'[s] = pass[s] /\ globbed'[s] = globbed[s] /\ matched'[s] = matched[s]
             /\ files'[s] = files[s] /\ done'[s] = done[s]
    BY <1>1, <1>2 DEF TypeOK
  <1>4. TypeOK'
    <2>1. <<>> \in Seq(Paths) /\ Len(<<>>) = 0 /\ 0 \in 0..Listed
      BY <1>1, Slices, EmptySeq
    <2>2. /\ pass' \in [Readers -> {"manifest", "hash"}]
          /\ globbed' \in [Readers -> 0..Listed]
          /\ matched' \in [Readers -> SUBSET Paths]
          /\ files' \in [Readers -> Seq(Paths)]
          /\ done' \in [Readers -> Nat]
      BY <1>1, <1>2, <2>1 DEF TypeOK
    <2>3. ASSUME NEW s \in Readers PROVE done'[s] <= Len(files'[s])
      <3>1. CASE s = r
        <4>1. done'[s] = 0 /\ Len(files'[s]) = 0
          BY <1>3, <2>1, <3>1
        <4> QED
          BY <4>1
      <3>2. CASE s # r
        <4>1. files'[s] = files[s] /\ done'[s] = done[s]
          BY <1>3, <3>2
        <4> QED
          BY <1>1, <4>1 DEF TypeOK
      <3> QED
        BY <3>1, <3>2
    <2> QED
      BY <1>1, <1>2, <2>2, <2>3 DEF TypeOK
  <1>5. GlobInv(r)' /\ ListInv(r)'
    <2>1. globbed'[r] # Listed /\ \A p : ~SomeGlob(0, p)
      BY <1>1, <1>3, Slices DEF SomeGlob
    <2> QED
      BY <1>3, <2>1 DEF GlobInv, ListInv, SomeGlob
  <1>6. ManifestInv(r)'
    <2>1. \A p \in Paths \ changed[r] :
            manifest[r][p] = IF p \in BundleFiles(r) THEN tree[r][p] ELSE Absent
      BY <1>1, ListedAndRead DEF ReaderInv, ManifestInv
    <2> QED
      BY <1>2, <1>3, <2>1 DEF ManifestInv, BundleFiles, IsFile
  <1>7. HashInv(r)'
    <2>1. hashed'[r] = <<>> /\ Len(<<>>) = 0
      BY <1>1, <1>2, EmptySeq DEF ReaderInv, HashInv
    <2> QED
      BY <1>3, <2>1 DEF HashInv
  <1>8. ExitInv(r)'
    BY <1>1, <1>2, NoExitFacts DEF ExitInv
  <1> QED
    BY <1>2, <1>3, <1>4, <1>5, <1>6, <1>7, <1>8 DEF ReaderInv, Stays

LEMMA EditStep ==
  ASSUME IInv, NEW r \in Readers, NEW q \in Paths, Edit(r, q)
  PROVE  TypeOK' /\ ReaderInv(r)' /\ \A s \in Readers \ {r} : Stays(s)
  <1>1. TypeOK /\ ReaderInv(r) /\ exit[r] = NoExit
    BY DEF IInv, Edit, Running
  <1>2. /\ UNCHANGED <<pass, globbed, matched, files, done, manifest, hashed, exit>>
        /\ edits' \in 0..MaxEdits
        /\ \E e \in Entry : tree' = [tree EXCEPT ![r][q] = e]
        /\ changed' = [changed EXCEPT ![r] = @ \cup {q}]
    <2>1. edits \in Nat /\ MaxEdits \in Nat
      BY <1>1, BundleAssumption DEF TypeOK
    <2>2. {edits + 2, 0, Absent, Directory} \subseteq Entry
      BY <2>1 DEF Edit, Entry, Content
    <2>3. edits < MaxEdits /\ edits' = edits + 1
      BY DEF Edit
    <2>4. edits' \in 0..MaxEdits
      BY <2>1, <2>3
    <2>5. \E e \in Entry : tree' = [tree EXCEPT ![r][q] = e]
      <3>1. PICK e \in {edits + 2, 0, Absent, Directory} : tree' = [tree EXCEPT ![r][q] = e]
        BY DEF Edit
      <3> QED
        BY <2>2, <3>1
    <2> QED
      BY <2>4, <2>5 DEF Edit
  <1>3. /\ \A p \in Paths \ {q} : tree'[r][p] = tree[r][p]
        /\ \A s \in Readers \ {r} : tree'[s] = tree[s]
        /\ tree' \in [Readers -> [Paths -> Entry]]
    BY <1>1, <1>2 DEF TypeOK
  <1>4. /\ changed'[r] = changed[r] \cup {q}
        /\ \A s \in Readers \ {r} : changed'[s] = changed[s]
        /\ changed' \in [Readers -> SUBSET Paths]
    BY <1>1, <1>2 DEF TypeOK
  <1>5. TypeOK'
    BY <1>1, <1>2, <1>3, <1>4 DEF TypeOK
  <1>6. \A p \in Paths \ changed'[r] :
          /\ tree'[r][p] = tree[r][p] /\ p \notin changed[r]
          /\ p \in BundleFiles(r)' <=> p \in BundleFiles(r)
    BY <1>3, <1>4 DEF BundleFiles, IsFile
  <1>7. GlobInv(r)'
    BY <1>1, <1>2, <1>6 DEF ReaderInv, GlobInv, SomeGlob
  <1>8. ListInv(r)'
    <2>1. ASSUME NEW S \in SUBSET Paths, Lists(r, S) PROVE Lists(r, S)'
      BY <1>2, <1>6, <2>1 DEF Lists
    <2> QED
      BY <1>1, <1>2, <2>1 DEF ReaderInv, ListInv
  <1>9. ManifestInv(r)'
    BY <1>1, <1>2, <1>6 DEF ReaderInv, ManifestInv
  <1>10. HashInv(r)'
    <2>1. \A i \in 1..done[r] : files[r][i] \in Paths
      BY <1>1, Slices
    <2> QED
      BY <1>1, <1>2, <1>6, <2>1 DEF ReaderInv, HashInv
  <1>11. ExitInv(r)'
    BY <1>1, <1>2, NoExitFacts DEF ExitInv
  <1> QED
    BY <1>2, <1>3, <1>4, <1>5, <1>7, <1>8, <1>9, <1>10, <1>11 DEF ReaderInv, Stays

LEMMA InvStep == IInv /\ [Next]_vars => IInv'
  <1> SUFFICES ASSUME IInv, [Next]_vars PROVE IInv'
    OBVIOUS
  <1>1. CASE UNCHANGED vars
    <2>1. TypeOK' /\ \A s \in Readers : Stays(s)
      BY <1>1 DEF IInv, TypeOK, Stays, vars
    <2> QED
      BY <2>1, StaysInv DEF IInv
  <1>2. CASE Next
    <2>1. PICK r \in Readers : ReaderStep(r) \/ \E q \in Paths : Edit(r, q)
      BY <1>2 DEF Next
    <2>2. TypeOK' /\ ReaderInv(r)' /\ \A s \in Readers \ {r} : Stays(s)
      BY <2>1, GlobStep, ListStep, ReadStep, StopStep, StartHashStep, EditStep
      DEF ReaderStep
    <2>3. \A s \in Readers \ {r} : ReaderInv(s)'
      BY <2>2, StaysInv DEF IInv
    <2> QED
      BY <2>2, <2>3 DEF IInv
  <1> QED
    BY <1>1, <1>2

\* What every reachable state of the readers satisfies.
THEOREM Invariance == Spec => []IInv
  BY InvInit, InvStep, PTL DEF Spec

-----------------------------------------------------------------------------
(* The properties.                                                         *)

\* Every variable keeps its type.
THEOREM TypeCorrect == Spec => []TypeOK
  <1>1. IInv => TypeOK
    BY DEF IInv
  <1> QED
    BY <1>1, Invariance, PTL

\* What a reader has when it prints.
LEMMA AtPrint ==
  ASSUME IInv, NEW r \in Readers, Printed(r)
  PROVE  /\ TypeOK /\ ReaderInv(r)
         /\ pass[r] = "hash" /\ globbed[r] = Listed /\ done[r] = Len(files[r])
         /\ Len(hashed[r]) = done[r] /\ DOMAIN hashed[r] = 1..done[r]
  <1>1. TypeOK /\ ReaderInv(r)
    BY DEF IInv
  <1>2. pass[r] = "hash" /\ globbed[r] = Listed /\ done[r] = Len(files[r])
    BY <1>1 DEF ReaderInv, ExitInv, Printed
  <1>3. Len(hashed[r]) = done[r] /\ hashed[r] \in Seq(Paths \X Content)
    BY <1>1, <1>2, Slices DEF ReaderInv, HashInv
  <1> QED
    BY <1>1, <1>2, <1>3, LenProperties

LEMMA InBoth == IInv => UntouchedInBoth
  <1> SUFFICES ASSUME IInv, NEW r \in Readers, Printed(r), NEW p \in Paths \ changed[r]
               PROVE  /\ manifest[r][p] = IF p \in BundleFiles(r) THEN tree[r][p] ELSE Absent
                      /\ \A c \in Content : Committed(r, p, c) <=> manifest[r][p] = c
    BY DEF UntouchedInBoth
  <1>1. manifest[r][p] = IF p \in BundleFiles(r) THEN tree[r][p] ELSE Absent
    BY AtPrint DEF ReaderInv, ManifestInv
  <1>2. p \in BundleFiles(r) <=> \E i \in 1..done[r] : files[r][i] = p
    BY AtPrint, ListedAndRead DEF ReaderInv
  <1>3. \A i \in 1..done[r] :
          \E c \in Content :
            /\ hashed[r][i] = <<files[r][i], c>>
            /\ files[r][i] \notin changed[r] => c = tree[r][files[r][i]]
    BY AtPrint DEF ReaderInv, HashInv
  <1>4. ASSUME NEW c \in Content, Committed(r, p, c)
        PROVE  manifest[r][p] = c
    <2>1. PICK i \in 1..done[r] : hashed[r][i] = <<p, c>>
      BY <1>4, AtPrint DEF Committed, HashEntry
    <2>2. files[r][i] = p /\ c = tree[r][p]
      BY <1>3, <2>1
    <2> QED
      BY <1>1, <1>2, <2>2
  <1>5. ASSUME NEW c \in Content, manifest[r][p] = c
        PROVE  Committed(r, p, c)
    <2>1. p \in BundleFiles(r) /\ tree[r][p] = c
      BY <1>1, <1>5, ContentFacts
    <2>2. PICK i \in 1..done[r] : files[r][i] = p
      BY <1>2, <2>1
    <2>3. hashed[r][i] = <<p, c>>
      BY <1>3, <2>1, <2>2
    <2> QED
      BY <2>3, AtPrint DEF Committed, HashEntry
  <1> QED
    BY <1>1, <1>4, <1>5

\* Manifest and hash agree on every file that nobody touches.
THEOREM UntouchedAlwaysInBoth == Spec => []UntouchedInBoth
  BY InBoth, Invariance, PTL

\* An undisturbed reader has hashed its bundle, in its machine's order.
LEMMA UndisturbedHash ==
  ASSUME IInv, NEW r \in Readers, Printed(r), Undisturbed(r)
  PROVE  LET f == Sorted(Machine[r], BundleFiles(r))
         IN  /\ Len(hashed[r]) = Len(f) /\ Len(f) \in Nat
             /\ \A i \in 1..Len(f) : hashed[r][i] = <<f[i], tree[r][f[i]]>>
  <1>1. PICK S \in SUBSET Paths : Lists(r, S)
    BY AtPrint DEF ReaderInv, ListInv
  <1>2. S = BundleFiles(r)
    BY <1>1 DEF Lists, Undisturbed, BundleFiles
  <1>3. files[r] = Sorted(Machine[r], BundleFiles(r))
    BY <1>1, <1>2 DEF Lists
  <1>4. \A i \in 1..done[r] : hashed[r][i] = <<files[r][i], tree[r][files[r][i]]>>
    BY AtPrint DEF ReaderInv, HashInv, Undisturbed
  <1> QED
    BY <1>3, <1>4, AtPrint, Slices

LEMMA TellsApart == IInv => HashTellsBundlesApart
  <1> SUFFICES ASSUME IInv, NEW r \in Readers, NEW s \in Readers,
                      Printed(r), Undisturbed(r), Printed(s), Undisturbed(s)
               PROVE  /\ hashed[r] = hashed[s] => SameBundle(r, s)
                      /\ /\ SameBundle(r, s)
                         /\ Sorted(Machine[r], BundleFiles(r))
                              = Sorted(Machine[s], BundleFiles(r))
                         => hashed[r] = hashed[s]
    BY DEF HashTellsBundlesApart
  <1> DEFINE B == BundleFiles(r)
             C == BundleFiles(s)
             f == Sorted(Machine[r], B)
             g == Sorted(Machine[s], C)
  <1>1. /\ Len(hashed[r]) = Len(f) /\ Len(f) \in Nat
        /\ \A i \in 1..Len(f) : hashed[r][i] = <<f[i], tree[r][f[i]]>>
    BY UndisturbedHash
  <1>2. /\ Len(hashed[s]) = Len(g) /\ Len(g) \in Nat
        /\ \A i \in 1..Len(g) : hashed[s][i] = <<g[i], tree[s][g[i]]>>
    BY UndisturbedHash
  <1>3. B \in SUBSET Paths /\ C \in SUBSET Paths
    BY DEF BundleFiles
  <1>4. /\ f \in Seq(Paths) /\ \A i \in 1..Len(f) : f[i] \in B
        /\ \A p \in B : \E i \in 1..Len(f) : f[i] = p
    BY <1>3, SortedFacts
  <1>5. /\ g \in Seq(Paths) /\ \A i \in 1..Len(g) : g[i] \in C
        /\ \A p \in C : \E i \in 1..Len(g) : g[i] = p
    BY <1>3, SortedFacts
  <1> HIDE DEF B, C, f, g
  <1>6. ASSUME hashed[r] = hashed[s]
        PROVE  SameBundle(r, s)
    <2>1. Len(f) = Len(g)
      BY <1>1, <1>2, <1>6
    <2>2. \A i \in 1..Len(f) : f[i] = g[i] /\ tree[r][f[i]] = tree[s][g[i]]
      BY <1>1, <1>2, <1>6, <2>1
    <2>3. B = C
      <3>1. ASSUME NEW p \in B PROVE p \in C
        BY <1>4, <1>5, <2>1, <2>2
      <3>2. ASSUME NEW p \in C PROVE p \in B
        BY <1>4, <1>5, <2>1, <2>2
      <3> QED
        BY <3>1, <3>2
    <2>4. \A p \in B : tree[r][p] = tree[s][p]
      BY <1>4, <2>2
    <2> QED
      BY <2>3, <2>4 DEF SameBundle, B, C
  <1>7. ASSUME SameBundle(r, s), f = Sorted(Machine[s], B)
        PROVE  hashed[r] = hashed[s]
    <2>1. B = C /\ \A p \in B : tree[r][p] = tree[s][p]
      BY <1>7 DEF SameBundle, B, C
    <2>2. f = g
      BY <1>7, <2>1 DEF g
    <2>3. \A i \in 1..Len(hashed[r]) : hashed[r][i] = hashed[s][i]
      BY <1>1, <1>2, <1>4, <2>1, <2>2
    <2>4. /\ hashed[r] \in Seq(Paths \X Content) /\ hashed[s] \in Seq(Paths \X Content)
          /\ Len(hashed[r]) = Len(hashed[s])
      BY <1>1, <1>2, <2>2, Slices DEF IInv
    <2> QED
      BY <2>3, <2>4, SeqEqual
  <1> QED
    BY <1>6, <1>7 DEF f, B

\* Two undisturbed hashes are equal only if the bundles are, and if the bundles
\* are and the two machines sort them alike.
THEOREM HashAlwaysTellsApart == Spec => []HashTellsBundlesApart
  BY TellsApart, Invariance, PTL

-----------------------------------------------------------------------------
(* The command is over after a bounded number of its own steps: what is    *)
(* provable of InfoTerminates.                                             *)

\* A pass globs every pattern, lists the files and reads each.
Pass(globs, paths) == globs + paths + 2

MaxSteps == 2 * Pass(Len(Globs), Cardinality(Paths))

\* What is still to do in a pass in which g patterns are globbed and d of n
\* files are read.
PassLeft(g, d, n, globs, paths) ==
  IF g = globs + 1 THEN n - d + 1 ELSE globs - g + paths + 2

Steps(e, p, g, d, n, globs, paths) ==
  IF e # NoExit THEN 0
  ELSE IF p = "manifest" THEN Pass(globs, paths) + PassLeft(g, d, n, globs, paths)
  ELSE PassLeft(g, d, n, globs, paths)

StepsLeft(r) ==
  Steps(exit[r], pass[r], globbed[r], done[r], Len(files[r]), Len(Globs),
        Cardinality(Paths))

CountInv(r) ==
  /\ Len(Globs) \in Nat /\ Cardinality(Paths) \in Nat
  /\ globbed[r] \in 0..(Len(Globs) + 1)
  /\ Len(files[r]) \in 0..Cardinality(Paths) /\ done[r] \in 0..Len(files[r])

LEMMA UpTo == ASSUME NEW n \in Nat PROVE Cardinality(1..n) = n
  BY FS_Interval

\* A list without repetitions is no longer than the set it lists.
LEMMA SortedLength ==
  ASSUME NEW r \in Readers, NEW S \in SUBSET Paths
  PROVE  Len(Sorted(Machine[r], S)) <= Cardinality(Paths)
  <1> DEFINE f == Sorted(Machine[r], S)
  <1>1. f \in Seq(Paths) /\ Len(f) \in Nat /\ \A i, j \in 1..Len(f) : f[i] = f[j] => i = j
    BY SortedFacts
  <1>2. f \in [1..Len(f) -> Paths]
    BY <1>1, LenProperties
  <1> HIDE DEF f
  <1>3. f \in Injection(1..Len(f), Paths)
    BY <1>1, <1>2 DEF Injection, IsInjective
  <1>4. Cardinality(1..Len(f)) <= Cardinality(Paths)
    BY <1>3, BundleAssumption, FS_Injection
  <1>5. Cardinality(1..Len(f)) = Len(f)
    BY <1>1, UpTo
  <1> QED
    BY <1>4, <1>5 DEF f

LEMMA Counts ==
  ASSUME NEW r \in Readers
  PROVE  IInv => CountInv(r)
  <1> SUFFICES ASSUME IInv PROVE CountInv(r)
    OBVIOUS
  <1>1. TypeOK /\ ListInv(r)
    BY DEF IInv, ReaderInv
  <1>2. Cardinality(Paths) \in Nat
    BY BundleAssumption, FS_CardinalityType
  <1>3. Len(files[r]) <= Cardinality(Paths)
    <2>1. CASE globbed[r] = Listed
      BY <1>1, <2>1, SortedLength DEF ListInv, Lists
    <2>2. CASE globbed[r] # Listed
      BY <1>1, <1>2, <2>2, EmptySeq DEF ListInv
    <2> QED
      BY <2>1, <2>2
  <1> QED
    BY <1>1, <1>2, <1>3, Slices DEF CountInv

LEMMA StepsBounded ==
  ASSUME NEW globs \in Nat, NEW paths \in Nat, NEW e, NEW p,
         NEW g \in 0..(globs + 1), NEW n \in 0..paths, NEW d \in 0..n
  PROVE  Steps(e, p, g, d, n, globs, paths) \in 0..(2 * Pass(globs, paths))
  BY DEF Steps, Pass, PassLeft

\* What a step of a reader can do to its place in the work.
GoesOn(e, p, g, d, n, e2, p2, g2, d2, n2, globs) ==
  /\ e = NoExit
  /\ \/ e2 # NoExit
     \/ e2 = NoExit /\ p2 = p /\ g < globs + 1 /\ g2 = g + 1
     \/ e2 = NoExit /\ p2 = p /\ g = globs + 1 /\ g2 = g /\ n2 = n /\ d2 = d + 1
     \/ e2 = NoExit /\ p = "manifest" /\ p2 = "hash" /\ g2 = 0

LEMMA StepsGoDown ==
  ASSUME NEW globs \in Nat, NEW paths \in Nat, NEW e, NEW p, NEW e2, NEW p2,
         NEW g \in 0..(globs + 1), NEW n \in 0..paths, NEW d \in 0..n,
         NEW g2 \in 0..(globs + 1), NEW n2 \in 0..paths, NEW d2 \in 0..n2,
         GoesOn(e, p, g, d, n, e2, p2, g2, d2, n2, globs)
  PROVE  Steps(e2, p2, g2, d2, n2, globs, paths) < Steps(e, p, g, d, n, globs, paths)
  BY DEF Steps, Pass, PassLeft, GoesOn

LEMMA StepGoesOn ==
  ASSUME TypeOK, NEW r \in Readers, ReaderStep(r)
  PROVE  GoesOn(exit[r], pass[r], globbed[r], done[r], Len(files[r]),
                exit'[r], pass'[r], globbed'[r], done'[r], Len(files'[r]), Len(Globs))
  <1>1. Listed = Len(Globs) + 1 /\ Len(Globs) \in Nat /\ globbed[r] \in 0..Listed
    BY Slices
  <1>2. /\ exit \in [Readers -> {NoExit, 0, 1}] /\ pass \in [Readers -> {"manifest", "hash"}]
        /\ globbed \in [Readers -> 0..Listed] /\ done \in [Readers -> Nat]
    BY DEF TypeOK
  <1>3. CASE Glob(r)
    BY <1>1, <1>2, <1>3 DEF Glob, Running, GoesOn
  <1>4. CASE ListFiles(r)
    BY <1>1, <1>2, <1>4 DEF ListFiles, Running, GoesOn
  <1>5. CASE EmptyBundle(r) \/ FileIsGone(r) \/ PrintInfo(r)
    BY <1>2, <1>5, NoExitFacts
    DEF EmptyBundle, FileIsGone, PrintInfo, AllRead, Reading, Running, Exit, GoesOn
  <1>6. CASE ReadFile(r)
    BY <1>1, <1>2, <1>6 DEF ReadFile, Reading, Running, GoesOn
  <1>7. CASE StartHash(r)
    BY <1>2, <1>7 DEF StartHash, AllRead, Reading, Running, GoesOn
  <1> QED
    BY <1>3, <1>4, <1>5, <1>6, <1>7 DEF ReaderStep

LEMMA StepAdvances ==
  ASSUME NEW r \in Readers
  PROVE  TypeOK /\ CountInv(r) /\ CountInv(r)' /\ ReaderStep(r)
           => StepsLeft(r)' < StepsLeft(r)
  BY StepGoesOn, StepsGoDown DEF CountInv, StepsLeft

LEMMA OthersAdvanceNothing ==
  ASSUME NEW r \in Readers
  PROVE  IInv /\ [Next]_vars /\ ~ReaderStep(r) => StepsLeft(r)' = StepsLeft(r)
  <1> SUFFICES ASSUME IInv, [Next]_vars, ~ReaderStep(r)
               PROVE  StepsLeft(r)' = StepsLeft(r)
    OBVIOUS
  <1>1. CASE UNCHANGED vars
    BY <1>1 DEF vars, StepsLeft
  <1>2. CASE \E s \in Readers, p \in Paths : Edit(s, p)
    BY <1>2 DEF Edit, StepsLeft
  <1>3. CASE \E s \in Readers : ReaderStep(s)
    <2>1. PICK s \in Readers \ {r} : ReaderStep(s)
      BY <1>3
    <2>2. Stays(r)
      BY <2>1, GlobStep, ListStep, ReadStep, StopStep, StartHashStep DEF ReaderStep
    <2> QED
      BY <2>2 DEF Stays, StepsLeft
  <1> QED
    BY <1>1, <1>2, <1>3 DEF Next

\* No reader takes more steps than its two passes over the patterns and the
\* paths need: it lists the files once in each pass and reads each once, and
\* neither the other readers nor any edit gives it more to do.
THEOREM ReadersAreBounded ==
  ASSUME NEW r \in Readers
  PROVE  Spec => /\ [](StepsLeft(r) \in 0..MaxSteps)
                 /\ [][IF ReaderStep(r) THEN StepsLeft(r)' < StepsLeft(r)
                       ELSE StepsLeft(r)' = StepsLeft(r)]_vars
  <1>1. CountInv(r) => StepsLeft(r) \in 0..MaxSteps
    BY StepsBounded DEF CountInv, StepsLeft, MaxSteps
  <1>2. IInv => TypeOK /\ CountInv(r)
    BY Counts DEF IInv
  <1>3. IInv /\ CountInv(r) /\ CountInv(r)' /\ [Next]_vars =>
          [IF ReaderStep(r) THEN StepsLeft(r)' < StepsLeft(r)
           ELSE StepsLeft(r)' = StepsLeft(r)]_vars
    BY <1>2, StepAdvances, OthersAdvanceNothing
  <1> QED
    BY <1>1, <1>2, <1>3, Invariance, PTL DEF Spec
=============================================================================
