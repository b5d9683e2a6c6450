------------------------------- MODULE Bundle -------------------------------
(***************************************************************************)
(* `scc-verify bundle info`, and the two passes of bundle.py it makes over *)
(* the bundle: bundle_manifest() and then compute_bundle_hash().  Each     *)
(* globs, lists and reads the files by itself; the hash pass is also the   *)
(* one verify() makes.                                                     *)
(*                                                                         *)
(* A reader is one such command in a checkout of its own, whose files can  *)
(* be edited, removed or replaced while it runs.  A file's content is the  *)
(* number of the edit that wrote it.  A hash stands for what it is the     *)
(* hash of: the sequence of entries, in the order they were fed to it.     *)
(***************************************************************************)
EXTENDS Integers, Sequences, FiniteSets

CONSTANTS
  Readers,
  Machine,        \* the kind of machine each reader runs on
  Paths,          \* relative paths
  Globs,          \* BUNDLE_GLOBS: the paths each pattern matches
  FirstContents,  \* what can be at a path before the first edit
  Absent, Directory,
  MaxEdits,       \* bound: the number of edits, over all checkouts
  Sorted(_, _)    \* the files in the order of a machine's paths

Content == 0..(MaxEdits + 1)
Entry == Content \cup {Absent, Directory}

ASSUME BundleAssumption ==
  /\ MaxEdits \in Nat
  /\ IsFiniteSet(Paths)
  /\ Globs \in Seq(SUBSET Paths)
  /\ Absent \notin Nat /\ Directory \notin Nat /\ Absent # Directory
  /\ FirstContents \subseteq {0, 1, Absent, Directory}

\* Sorting keeps every path, and only once.
ASSUME SortedAssumption ==
  \A r \in Readers, S \in SUBSET Paths :
    /\ Sorted(Machine[r], S) \in Seq(S)
    /\ \A p \in S : \E i \in DOMAIN Sorted(Machine[r], S) : Sorted(Machine[r], S)[i] = p
    /\ \A i, j \in DOMAIN Sorted(Machine[r], S) :
         Sorted(Machine[r], S)[i] = Sorted(Machine[r], S)[j] => i = j

VARIABLES
  tree,      \* the checkout of each reader
  edits,     \* how many edits there were
  pass,      \* the pass it is in: "manifest" or "hash"
  globbed,   \* how many patterns are globbed; Listed when the files are listed
  matched,   \* _bundle_files: the set paths
  files,     \* what _bundle_files returned
  done,      \* how many of the files were read
  manifest,  \* the content of each path in the manifest, Absent if not there
  hashed,    \* what was fed to the outer hash
  exit,      \* the exit code, NoExit while it runs
  changed    \* history: the paths that changed while the reader ran

vars == <<tree, edits, pass, globbed, matched, files, done, manifest, hashed,
          exit, changed>>

NoExit == -1
Listed == Len(Globs) + 1

Running(r) == exit[r] = NoExit

IsFile(r, p) == tree[r][p] \in Content

\* The files of a checkout that some pattern matches.
BundleFiles(r) == {p \in Paths : IsFile(r, p) /\ \E g \in DOMAIN Globs : p \in Globs[g]}

-----------------------------------------------------------------------------
Init ==
  /\ tree \in [Readers -> [Paths -> FirstContents]]
  /\ edits = 0
  /\ pass = [r \in Readers |-> "manifest"]
  /\ globbed = [r \in Readers |-> 0]
  /\ matched = [r \in Readers |-> {}]
  /\ files = [r \in Readers |-> <<>>]
  /\ done = [r \in Readers |-> 0]
  /\ manifest = [r \in Readers |-> [p \in Paths |-> Absent]]
  /\ hashed = [r \in Readers |-> <<>>]
  /\ exit = [r \in Readers |-> NoExit]
  /\ changed = [r \in Readers |-> {}]

Exit(r, code) == exit' = [exit EXCEPT ![r] = code]

\* root.glob() of one pattern finds files and directories.
Glob(r) ==
  /\ Running(r)
  /\ globbed[r] < Len(Globs)
  /\ globbed' = [globbed EXCEPT ![r] = @ + 1]
  /\ matched' = [matched EXCEPT ![r] =
                   @ \cup {p \in Globs[globbed[r] + 1] : tree[r][p] # Absent}]
  /\ UNCHANGED <<tree, edits, pass, files, done, manifest, hashed, exit, changed>>

\* The files among what was matched, sorted.
Found(r) == Sorted(Machine[r], {p \in matched[r] : IsFile(r, p)})

ListFiles(r) ==
  /\ Running(r)
  /\ globbed[r] = Len(Globs)
  /\ pass[r] = "hash" => Found(r) # <<>>
  /\ globbed' = [globbed EXCEPT ![r] = Listed]
  /\ files' = [files EXCEPT ![r] = Found(r)]
  /\ UNCHANGED <<tree, edits, pass, matched, done, manifest, hashed, exit, changed>>

\* "refusing to produce a meaningless hash"
EmptyBundle(r) ==
  /\ Running(r)
  /\ globbed[r] = Len(Globs)
  /\ pass[r] = "hash" /\ Found(r) = <<>>
  /\ Exit(r, 1)
  /\ UNCHANGED <<tree, edits, pass, globbed, matched, files, done, manifest,
                 hashed, changed>>

Reading(r) == Running(r) /\ globbed[r] = Listed

\* Mutant: a file's content is hashed without its path.
EntryOfContent(p, c) == <<"file", c>>

HashEntry(p, c) == <<p, c>>

ReadFile(r) ==
  /\ Reading(r)
  /\ done[r] < Len(files[r])
  /\ LET p == files[r][done[r] + 1]
     IN  /\ IsFile(r, p)
         /\ \/ /\ pass[r] = "manifest"
               /\ manifest' = [manifest EXCEPT ![r][p] = tree[r][p]]
               /\ UNCHANGED hashed
            \/ /\ pass[r] = "hash"
               /\ hashed' = [hashed EXCEPT ![r] = Append(@, HashEntry(p, tree[r][p]))]
               /\ UNCHANGED manifest
  /\ done' = [done EXCEPT ![r] = @ + 1]
  /\ UNCHANGED <<tree, edits, pass, globbed, matched, files, exit, changed>>

\* Mutant: a file that is gone is read again until it is there.
WaitForFile(r) == FALSE /\ UNCHANGED vars

\* A listed file is gone, or a directory now: read_bytes() raises.
FileIsGone(r) ==
  /\ Reading(r)
  /\ done[r] < Len(files[r])
  /\ ~IsFile(r, files[r][done[r] + 1])
  /\ Exit(r, 1)
  /\ UNCHANGED <<tree, edits, pass, globbed, matched, files, done, manifest,
                 hashed, changed>>

\* Mutant: the loop over the files stops one file early.
AllButOneRead(r) == Reading(r) /\ done[r] + 1 >= Len(files[r])

AllRead(r) == Reading(r) /\ done[r] = Len(files[r])

\* Mutant: the position in the list survives into the second pass.
StartHashWithoutReset(r) ==
  /\ AllRead(r)
  /\ pass[r] = "manifest"
  /\ pass' = [pass EXCEPT ![r] = "hash"]
  /\ globbed' = [globbed EXCEPT ![r] = 0]
  /\ matched' = [matched EXCEPT ![r] = {}]
  /\ files' = [files EXCEPT ![r] = <<>>]
  /\ UNCHANGED <<tree, edits, done, manifest, hashed, exit, changed>>

\* bundle_manifest() returns; compute_bundle_hash() starts from nothing.
StartHash(r) ==
  /\ AllRead(r)
  /\ pass[r] = "manifest"
  /\ pass' = [pass EXCEPT ![r] = "hash"]
  /\ globbed' = [globbed EXCEPT ![r] = 0]
  /\ matched' = [matched EXCEPT ![r] = {}]
  /\ files' = [files EXCEPT ![r] = <<>>]
  /\ done' = [done EXCEPT ![r] = 0]
  /\ UNCHANGED <<tree, edits, manifest, hashed, exit, changed>>

\* Identity, hash and file count are printed, with --verbose the manifest.
PrintInfo(r) ==
  /\ AllRead(r)
  /\ pass[r] = "hash"
  /\ Exit(r, 0)
  /\ UNCHANGED <<tree, edits, pass, globbed, matched, files, done, manifest,
                 hashed, changed>>

ReaderStep(r) ==
  \/ Glob(r) \/ ListFiles(r) \/ EmptyBundle(r) \/ ReadFile(r) \/ FileIsGone(r)
  \/ StartHash(r) \/ PrintInfo(r)

\* Somebody edits, removes or replaces what is at a path; what happens after
\* the command has ended is of no interest.
Edit(r, p) ==
  /\ Running(r)
  /\ edits < MaxEdits
  /\ edits' = edits + 1
  /\ \E e \in {edits + 2, 0, Absent, Directory} \ {tree[r][p]} :
       tree' = [tree EXCEPT ![r][p] = e]
  /\ changed' = [changed EXCEPT ![r] = @ \cup {p}]
  /\ UNCHANGED <<pass, globbed, matched, files, done, manifest, hashed, exit>>

Next == \E r \in Readers : ReaderStep(r) \/ \E p \in Paths : Edit(r, p)

Spec == Init /\ [][Next]_vars

FairSpec == Spec /\ \A r \in Readers : WF_vars(ReaderStep(r))

-----------------------------------------------------------------------------
(* Properties.                                                             *)

TypeOK ==
  /\ tree \in [Readers -> [Paths -> Entry]]
  /\ edits \in 0..MaxEdits
  /\ pass \in [Readers -> {"manifest", "hash"}]
  /\ globbed \in [Readers -> 0..Listed]
  /\ matched \in [Readers -> SUBSET Paths]
  /\ files \in [Readers -> Seq(Paths)]
  /\ done \in [Readers -> Nat]
  /\ \A r \in Readers : done[r] <= Len(files[r])
  /\ manifest \in [Readers -> [Paths -> Content \cup {Absent}]]
  /\ hashed \in [Readers -> Seq(Paths \X Content)]
  /\ exit \in [Readers -> {NoExit, 0, 1}]
  /\ changed \in [Readers -> SUBSET Paths]

Printed(r) == exit[r] = 0
Undisturbed(r) == changed[r] = {}

\* What the printed hash says of a path.
Committed(r, p, c) == \E i \in DOMAIN hashed[r] : hashed[r][i] = HashEntry(p, c)

\* bundle_manifest() returns "the path->sha256 map that feeds the bundle
\* hash" (bundle.py), but in a pass of its own.  The two passes agree on a
\* file nobody touches, whatever happens to the others: the manifest shows it,
\* and the hash commits to it, with the content it has; what is no file of the
\* bundle is in neither.
UntouchedInBoth ==
  \A r \in Readers : Printed(r) =>
    \A p \in Paths \ changed[r] :
      /\ manifest[r][p] = IF p \in BundleFiles(r) THEN tree[r][p] ELSE Absent
      /\ \A c \in Content : Committed(r, p, c) <=> manifest[r][p] = c

SameBundle(r, s) ==
  /\ BundleFiles(r) = BundleFiles(s)
  /\ \A p \in BundleFiles(r) : tree[r][p] = tree[s][p]

\* "This is the command a reviewer runs first when they want to confirm they
\* are looking at the same bytes" (cli.py).  Equal hashes, undisturbed, mean
\* equal bundles, wherever the checkouts are and whatever lies beside the
\* bundle; and equal bundles have equal hashes between machines that sort
\* their files alike.  That bundle.py promises it of any two machines is
\* HashIsStableAcrossMachines of MCBundle.
HashTellsBundlesApart ==
  \A r, s \in Readers :
    /\ Printed(r) /\ Undisturbed(r)
    /\ Printed(s) /\ Undisturbed(s)
    => /\ hashed[r] = hashed[s] => SameBundle(r, s)
       /\ /\ SameBundle(r, s)
          /\ Sorted(Machine[r], BundleFiles(r)) = Sorted(Machine[s], BundleFiles(r))
          => hashed[r] = hashed[s]

\* The command ends: the list of files is made once in each pass.
InfoTerminates == \A r \in Readers : <>(exit[r] # NoExit)
=============================================================================
