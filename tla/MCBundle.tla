------------------------------ MODULE MCBundle ------------------------------
(***************************************************************************)
(* Instances of Bundle for TLC.  Names are shortened to a letter or two;   *)
(* what matters is how they compare.                                       *)
(***************************************************************************)
EXTENDS Bundle, PathOrder

\* s/a.json, s/B.json and t/x.json, as <<directory, name>> of codes.
SmallA == <<<<115>>, <<97, 46, 106>>>>
CapitalB == <<<<115>>, <<66, 46, 106>>>>
VectorX == <<<<116>>, <<120, 46, 106>>>>
\* t/x/y.json: in a directory that is named as VectorX without its suffix.
NestedY == <<<<116>>, <<120>>, <<121, 46, 106>>>>
\* a path no pattern matches
Unmatched == <<<<117>>>>

\* Two files whose order depends on case.
InfoPaths == {SmallA, CapitalB}
InfoGlobs == <<{SmallA}, {CapitalB}>>
NestedPaths == {VectorX, NestedY}
NestedGlobs == <<NestedPaths>>

OneReader == {"r1"}
TwoReaders == {"r1", "r2"}
Posix == [r \in TwoReaders |-> "posix"]
PosixAndWindows == [r \in TwoReaders |-> IF r = "r1" THEN "posix" ELSE "windows"]

FileOrNot == {0, Absent}
TwoContentsOrNot == {0, 1, Absent}

\* bundle.py: "The hash is stable across machines and Python versions because
\* we canonicalize both the file list (sorted) and each file's content": one
\* bundle has one hash.  Windows sorts paths without regard to case, and the
\* order of the files is the order they are hashed in.
HashIsStableAcrossMachines ==
  \A r, s \in Readers :
    /\ Printed(r) /\ Undisturbed(r)
    /\ Printed(s) /\ Undisturbed(s)
    /\ SameBundle(r, s)
    => hashed[r] = hashed[s]

\* bundle.py: "Sort files by POSIX relative path", the first step of a recipe
\* that "any implementation can reproduce".  The code sorts pathlib paths, by
\* their parts, and t/x/y.json comes before t/x.json.
HashFollowsRecipe ==
  \A r \in Readers : Printed(r) /\ Undisturbed(r) =>
    hashed[r] = [i \in 1..Len(SortedStrings(BundleFiles(r))) |->
                   LET p == SortedStrings(BundleFiles(r))[i] IN HashEntry(p, tree[r][p])]
=============================================================================
