------------------------------- MODULE Keygen -------------------------------
(***************************************************************************)
(* `scc-verify keygen`: _cmd_keygen of cli.py and the two save functions   *)
(* of signing.py, as invocations that share a file system.  Each checks    *)
(* its paths first and writes them later, in several steps, any of which   *)
(* can fail or be the last one before the process is killed.               *)
(*                                                                         *)
(* The key of an invocation is the invocation itself: every one generates  *)
(* a fresh keypair.                                                        *)
(***************************************************************************)
EXTENDS Integers

CONSTANTS
  Invocations,
  Paths,
  NoPath,      \* --public-out is not given
  ArgumentSet  \* the arguments an invocation can have

ASSUME KeygenAssumption ==
  /\ NoPath \notin Paths
  /\ ArgumentSet \subseteq
       [out : Paths, public_out : Paths \cup {NoPath}, force : BOOLEAN]

\* What can be at a path.  A file that was there before is "other"; "torn" is
\* anything short of a whole key: truncated, half written, or mixed.
NoKey == "no key"
File(kind, key) == [kind |-> kind, key |-> key]
Absent == File("absent", NoKey)
Other == File("other", NoKey)
Torn == File("torn", NoKey)
Private(i) == File("private", i)
Public(i) == File("public", i)

VARIABLES
  overlap,  \* may an invocation start while another runs
  disk,     \* what is at each path
  mode,     \* the mode of the file there
  pc,       \* where each invocation is
  args,     \* its arguments
  exit,     \* its exit code
  existed,  \* history: the paths that were taken when it started
  wrote,    \* history: the paths it opened for writing
  unlocked  \* history: the invocations whose chmod failed

vars == <<overlap, disk, mode, pc, args, exit, existed, wrote, unlocked>>

NoExit == -1
Idle == {"idle", "ended", "crashed"}

\* Mutant: only the private key is looked for.
NextCheckSkipped(i) == "open private"

\* After the check of --out.
NextCheck(i) == IF args[i].public_out = NoPath THEN "open private" ELSE "check public"

Init ==
  /\ overlap \in BOOLEAN
  /\ disk \in [Paths -> {Absent, Other}]
  /\ mode \in [Paths -> {"default", "0600"}]
  /\ pc = [i \in Invocations |-> "idle"]
  /\ args \in [Invocations -> ArgumentSet]
  /\ exit = [i \in Invocations |-> NoExit]
  /\ existed = [i \in Invocations |-> {}]
  /\ wrote = [i \in Invocations |-> {}]
  /\ unlocked = {}

Goto(i, place) ==
  /\ pc' = [pc EXCEPT ![i] = place]
  /\ UNCHANGED exit

Exit(i, code) ==
  /\ pc' = [pc EXCEPT ![i] = "ended"]
  /\ exit' = [exit EXCEPT ![i] = code]

\* "already exists; pass --force to overwrite"
Refused(i, path) == disk[path] # Absent /\ ~args[i].force

CheckOut(i) ==
  /\ pc[i] = "idle"
  /\ overlap \/ \A j \in Invocations : pc[j] \in Idle
  /\ existed' = [existed EXCEPT ![i] = {p \in Paths : disk[p] # Absent}]
  /\ IF Refused(i, args[i].out) THEN Exit(i, 2) ELSE Goto(i, NextCheck(i))
  /\ UNCHANGED <<overlap, disk, mode, args, wrote, unlocked>>

CheckPublicOut(i) ==
  /\ pc[i] = "check public"
  /\ IF Refused(i, args[i].public_out) THEN Exit(i, 2) ELSE Goto(i, "open private")
  /\ UNCHANGED <<overlap, disk, mode, args, existed, wrote, unlocked>>

\* mkdir, and the open of write_bytes: the file is created or truncated.
Open(i, path, next) ==
  /\ disk' = [disk EXCEPT ![path] = Torn]
  /\ mode' = [mode EXCEPT ![path] = IF disk[path] = Absent THEN "default" ELSE @]
  /\ wrote' = [wrote EXCEPT ![i] = @ \cup {path}]
  /\ Goto(i, next)
  /\ UNCHANGED <<overlap, args, existed, unlocked>>

\* The write goes to the start of the file.  Another invocation can have
\* written there since the open, and of a longer key the end stays.
Write(i, path, new, next) ==
  /\ disk' = [disk EXCEPT ![path] =
                IF @.kind = "private" /\ new.kind = "public" THEN Torn ELSE new]
  /\ Goto(i, next)
  /\ UNCHANGED <<overlap, mode, args, existed, wrote, unlocked>>

OpenPrivate(i) == pc[i] = "open private" /\ Open(i, args[i].out, "write private")

WritePrivate(i) ==
  pc[i] = "write private" /\ Write(i, args[i].out, Private(i), "chmod")

\* Mutant: a public key is saved even if no path is given.
NextSaveAlways(i) == "open public"

\* After the private key is saved.
NextSave(i) == IF args[i].public_out = NoPath THEN "print" ELSE "open public"

\* Mutant: the mode of the wrong file is set.
ChmodAtPublicOut(i) ==
  /\ pc[i] = "chmod"
  /\ IF args[i].public_out = NoPath
     THEN UNCHANGED mode ELSE mode' = [mode EXCEPT ![args[i].public_out] = "0600"]
  /\ Goto(i, NextSave(i))
  /\ UNCHANGED <<overlap, disk, args, existed, wrote, unlocked>>

\* chmod can fail for any reason: a file system without modes, a file of
\* somebody else that --force has overwritten.  Its OSError is passed over.
Chmod(i) ==
  /\ pc[i] = "chmod"
  /\ \/ mode' = [mode EXCEPT ![args[i].out] = "0600"] /\ UNCHANGED unlocked
     \/ unlocked' = unlocked \cup {i} /\ UNCHANGED mode
  /\ Goto(i, NextSave(i))
  /\ UNCHANGED <<overlap, disk, args, existed, wrote>>

OpenPublic(i) == pc[i] = "open public" /\ Open(i, args[i].public_out, "write public")

\* Mutant: the public key saved is not the one of the private key.
WriteForeignPublic(i) ==
  /\ pc[i] = "write public"
  /\ \E j \in Invocations : Write(i, args[i].public_out, Public(j), "print")

WritePublic(i) ==
  pc[i] = "write public" /\ Write(i, args[i].public_out, Public(i), "print")

\* Mutant: as with chmod, an OSError of a write is passed over.
SaveErrorIsPassedOver(i) ==
  /\ pc[i] \in {"write private", "write public"}
  /\ Goto(i, IF pc[i] = "write private" THEN "chmod" ELSE "print")
  /\ UNCHANGED <<overlap, disk, mode, args, existed, wrote, unlocked>>

\* The file the invocation has open, if any.
OpenFile(i) ==
  CASE pc[i] = "write private" -> {args[i].out}
    [] pc[i] = "write public" -> {args[i].public_out}
    [] OTHER -> {}

\* A path that cannot be opened, a full disk.  A write that fails half way
\* tears the file, one that fails at once does not.
SaveStops(i, code) ==
  /\ pc[i] \in {"open private", "write private", "open public", "write public"}
  /\ \/ UNCHANGED disk
     \/ \E p \in OpenFile(i) : disk' = [disk EXCEPT ![p] = Torn]
  /\ Exit(i, code)
  /\ UNCHANGED <<overlap, mode, args, existed, wrote, unlocked>>

\* Mutant: a failed save is reported as a refusal is.
SaveFailsAsUsageError(i) == SaveStops(i, 2)

\* The exception leaves main().
SaveFails(i) == SaveStops(i, 1)

ReportKeys(i) ==
  /\ pc[i] = "print"
  /\ Exit(i, 0)
  /\ UNCHANGED <<overlap, disk, mode, args, existed, wrote, unlocked>>

Crash(i) ==
  /\ pc[i] \notin Idle
  /\ Goto(i, "crashed")
  /\ UNCHANGED <<overlap, disk, mode, args, existed, wrote, unlocked>>

Step(i) ==
  \/ CheckOut(i) \/ CheckPublicOut(i)
  \/ OpenPrivate(i) \/ WritePrivate(i) \/ Chmod(i)
  \/ OpenPublic(i) \/ WritePublic(i) \/ SaveFails(i)
  \/ ReportKeys(i) \/ Crash(i)

Next == \E i \in Invocations : Step(i)

Spec == Init /\ [][Next]_vars

-----------------------------------------------------------------------------
(* Properties.                                                             *)

Places ==
  {"idle", "check public", "open private", "write private", "chmod",
   "open public", "write public", "print", "ended", "crashed"}

FileStates == {Absent, Other, Torn}
                \cup {Private(i) : i \in Invocations} \cup {Public(i) : i \in Invocations}

TypeOK ==
  /\ overlap \in BOOLEAN
  /\ disk \in [Paths -> FileStates]
  /\ mode \in [Paths -> {"default", "0600"}]
  /\ pc \in [Invocations -> Places]
  /\ args \in [Invocations -> ArgumentSet]
  /\ exit \in [Invocations -> {NoExit, 0, 1, 2}]
  /\ existed \in [Invocations -> SUBSET Paths]
  /\ wrote \in [Invocations -> SUBSET Paths]
  /\ unlocked \subseteq Invocations

Targets(i) == {args[i].out, args[i].public_out} \ {NoPath}

\* No path is used for two things, by one invocation or by two.
PairsApart ==
  \A i, j \in Invocations :
    /\ args[i].out # args[i].public_out
    /\ Targets(i) \cap Targets(j) # {} =>
         args[i].out = args[j].out /\ args[i].public_out = args[j].public_out

\* A refusal changes nothing: the public path is looked at before the private
\* key is written, so exit code 2 never leaves half a keypair.
RefusalChangesNothing == \A i \in Invocations : exit[i] = 2 => wrote[i] = {}

\* "{out} already exists; pass --force to overwrite": without --force a
\* command overwrites nothing that was there when it started.  What came
\* later, the key of an overlapping command, it does overwrite: the paths are
\* looked at once, before the key is generated.
UnforcedKeepsFiles ==
  [][\A p \in Paths : disk[p] # Absent /\ disk'[p] # disk[p] =>
       \E i \in Invocations :
         /\ pc'[i] # pc[i]
         /\ \/ args[i].force
            \/ p \in wrote[i]
            \/ overlap /\ p \notin existed[i]]_vars

\* Exit code 0 and "Wrote Ed25519 private key to {out}": where no other
\* invocation wrote, the two files are whole and belong together.  The private
\* key is at --out exactly if --public-out is another path: two equal paths
\* are not noticed.
ExitZeroMeansPair ==
  \A i \in Invocations :
    exit[i] = 0 /\ (\A j \in Invocations \ {i} : wrote[j] \cap Targets(i) = {}) =>
      /\ disk[args[i].out] = Private(i) <=> args[i].out # args[i].public_out
      /\ args[i].public_out # NoPath => disk[args[i].public_out] = Public(i)

\* "Writes with mode 0600 on filesystems that support it" (signing.py): a
\* whole private key lies there with another mode only as long as its
\* invocation has not come to the chmod, or was killed before it, or if the
\* chmod failed; opening the path again does not undo it.  The last case is
\* not reported: exit code 0 and "(mode 0600)" do not exclude it.
UnlockedKeysAreExplained ==
  \A i \in Invocations, p \in Paths :
    disk[p] = Private(i) /\ mode[p] # "0600" =>
      pc[i] \in {"chmod", "crashed"} \/ i \in unlocked

\* One after the other and without --force, no crash, failure or retry leaves
\* a private key beside the public key of another run: the retry is refused.
\* It takes --force, or two invocations at once, to mix them.
UnforcedPairsMatch ==
  PairsApart /\ ~overlap /\ (\A i \in Invocations : wrote[i] # {} => ~args[i].force) =>
    \A i, j, k \in Invocations :
      /\ args[i].public_out # NoPath
      /\ disk[args[i].out] = Private(j)
      /\ disk[args[i].public_out] = Public(k)
      => j = k

\* A torn file is accounted for: whoever tore it is still at it, was killed,
\* or has said so with exit code 1.
TornFilesAreReported ==
  PairsApart =>
    \A p \in Paths : disk[p] = Torn =>
      \E i \in Invocations :
        p \in wrote[i] /\ (exit[i] = 1 \/ pc[i] # "ended")
=============================================================================
