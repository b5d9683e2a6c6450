------------------------------ MODULE PathOrder ------------------------------
(***************************************************************************)
(* The orders in which the files of a bundle can be listed.  A path is the *)
(* sequence of its parts, a part the sequence of its character codes.      *)
(***************************************************************************)
EXTENDS Integers, Sequences, SequencesExt

Slash == 47

\* The lexicographic order of two sequences, over the order of their items.
Lexicographic(s, t, Less(_, _)) ==
  \E i \in DOMAIN t :
    /\ i <= Len(s) + 1
    /\ \A j \in 1..(i - 1) : s[j] = t[j]
    /\ i = Len(s) + 1 \/ Less(s[i], t[i])

CodesBefore(a, b) == Lexicographic(a, b, LAMBDA x, y : x < y)

FoldCase(name) ==
  [i \in DOMAIN name |-> IF name[i] \in 65..90 THEN name[i] + 32 ELSE name[i]]

\* sorted() of pathlib paths: part by part, on Windows without regard to case.
PathBefore(machine, p, q) ==
  LET Part(name) == IF machine = "windows" THEN FoldCase(name) ELSE name
  IN  Lexicographic(p, q, LAMBDA a, b : CodesBefore(Part(a), Part(b)))

\* as_posix(): the parts joined by slashes.
AsPosix(path) == FoldLeft(LAMBDA s, part : s \o <<Slash>> \o part, path[1], Tail(path))

SortedPaths(machine, paths) ==
  SetToSortSeq(paths, LAMBDA p, q : PathBefore(machine, p, q))

\* "Sort files by POSIX relative path": the order of the strings.
SortedStrings(paths) ==
  SetToSortSeq(paths, LAMBDA p, q : CodesBefore(AsPosix(p), AsPosix(q)))
=============================================================================
