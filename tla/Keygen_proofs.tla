---------------------------- MODULE Keygen_proofs ----------------------------
(***************************************************************************)
(* Proofs about Keygen, for any number of invocations and paths and any    *)
(* arguments.                                                              *)
(***************************************************************************)
EXTENDS Keygen, TLAPS

\* The places at which an invocation has looked at --out, and at --public-out.
PastCheckOut ==
  {"check public", "open private", "write private", "chmod", "open public",
   "write public", "print"}
PastChecks == PastCheckOut \ {"check public"}

LEMMA FileFacts ==
  /\ Torn # Absent /\ Other # Absent /\ Torn # Other
  /\ Torn.kind # "private" /\ Absent.kind # "private" /\ Other.kind # "private"
  /\ \A i : /\ Private(i).kind = "private" /\ Public(i).kind = "public"
            /\ Private(i) # Absent /\ Private(i) # Other /\ Private(i) # Torn
            /\ Public(i) # Absent /\ Public(i) # Other /\ Public(i) # Torn
  /\ \A i, j : /\ Private(i) # Public(j)
               /\ Private(i) = Private(j) => i = j
               /\ Public(i) = Public(j) => i = j
  BY DEF File, Absent, Other, Torn, Private, Public

LEMMA NoExitFacts == NoExit # 0 /\ NoExit # 1 /\ NoExit # 2
  BY DEF NoExit

LEMMA ArgumentsTyped ==
  ASSUME TypeOK, NEW i \in Invocations
  PROVE  /\ args[i].out \in Paths /\ args[i].out # NoPath
         /\ args[i].public_out \in Paths \cup {NoPath}
         /\ args[i].force \in BOOLEAN
         /\ args[i].out \in Targets(i)
         /\ args[i].public_out # NoPath => args[i].public_out \in Targets(i)
         /\ Targets(i) \subseteq Paths
  BY KeygenAssumption DEF TypeOK, Targets

-----------------------------------------------------------------------------
(* The inductive invariant.                                                *)

\* Where an invocation is says what it has opened.
ProgressInv ==
  \A i \in Invocations :
    /\ pc[i] \in {"idle", "check public", "open private"} => wrote[i] = {}
    /\ pc[i] \in {"write private", "chmod", "open public"} => wrote[i] = {args[i].out}
    /\ pc[i] \in {"write public", "print"} => wrote[i] = Targets(i)
    /\ pc[i] \in {"check public", "open public", "write public"} =>
         args[i].public_out # NoPath
    /\ wrote[i] # {} => args[i].out \in wrote[i]
    /\ wrote[i] \subseteq Targets(i)
    /\ exit[i] = NoExit <=> pc[i] # "ended"
    /\ exit[i] = 2 => wrote[i] = {}
    /\ exit[i] = 0 => wrote[i] = Targets(i)

\* No file goes away, and a key is where its invocation saved it.
DiskInv ==
  /\ \A i \in Invocations, p \in Paths :
       /\ p \in existed[i] \/ p \in wrote[i] => disk[p] # Absent
       /\ disk[p] = Private(i) => p = args[i].out /\ p \in wrote[i]
       /\ disk[p] = Public(i) => p = args[i].public_out /\ p \in wrote[i]

\* What an unforced invocation has looked at was free then; it still is, or
\* its own, if nobody else runs.
UnforcedInv ==
  \A i \in Invocations : ~args[i].force =>
    /\ pc[i] \in PastCheckOut =>
         /\ args[i].out \notin existed[i]
         /\ ~overlap => disk[args[i].out] = Absent \/ args[i].out \in wrote[i]
    /\ pc[i] \in PastChecks /\ args[i].public_out # NoPath =>
         /\ args[i].public_out \notin existed[i]
         /\ ~overlap => \/ disk[args[i].public_out] = Absent
                        \/ args[i].public_out \in wrote[i]

AloneInv ==
  ~overlap =>
    \A i, j \in Invocations : pc[i] \notin Idle /\ pc[j] \notin Idle => i = j

\* Unforced invocations that do not overlap never write to the same path.
ApartInv ==
  ~overlap =>
    \A i, j \in Invocations :
      ~args[i].force /\ ~args[j].force /\ i # j => wrote[i] \cap wrote[j] = {}

Undisturbed(i) == \A j \in Invocations \ {i} : wrote[j] \cap Targets(i) = {}

PrivateSaved(i) == args[i].out # args[i].public_out => disk[args[i].out] = Private(i)

\* An invocation finds what it left, if no other one wrote to its paths.
PairInv ==
  \A i \in Invocations : Undisturbed(i) =>
    /\ pc[i] = "write private" => disk[args[i].out] = Torn
    /\ pc[i] \in {"chmod", "open public"} => disk[args[i].out] = Private(i)
    /\ pc[i] \in {"write public", "print"} \/ exit[i] = 0 => PrivateSaved(i)
    /\ pc[i] = "write public" => disk[args[i].public_out] = Torn
    /\ (pc[i] = "print" \/ exit[i] = 0) /\ args[i].public_out # NoPath =>
         disk[args[i].public_out] = Public(i)

\* Whose torn file it is.
Tore(i, p) ==
  /\ p \in wrote[i]
  /\ \/ exit[i] = 1
     \/ pc[i] = "crashed"
     \/ pc[i] = "write private" /\ p = args[i].out
     \/ pc[i] = "write public" /\ p = args[i].public_out

TornInv ==
  PairsApart => \A p \in Paths : disk[p] = Torn => \E i \in Invocations : Tore(i, p)

IInv ==
  /\ TypeOK /\ ProgressInv /\ DiskInv /\ UnforcedInv /\ AloneInv /\ ApartInv
  /\ PairInv /\ UnlockedKeysAreExplained /\ TornInv

-----------------------------------------------------------------------------
LEMMA InvInit == Init => IInv
  <1> SUFFICES ASSUME Init PROVE IInv
    OBVIOUS
  <1>1. TypeOK
    BY DEF Init, TypeOK, FileStates, Places, NoExit
  <1>2. ProgressInv /\ UnforcedInv /\ AloneInv /\ ApartInv /\ PairInv
    BY DEF Init, ProgressInv, UnforcedInv, AloneInv, ApartInv, PairInv, NoExit, Idle,
           PastCheckOut, PastChecks
  <1>3. DiskInv /\ TornInv /\ UnlockedKeysAreExplained
    BY FileFacts DEF Init, DiskInv, TornInv, UnlockedKeysAreExplained
  <1> QED
    BY <1>1, <1>2, <1>3 DEF IInv

\* A step of one invocation leaves the others where they are, and changes
\* only files that it has opened.
OthersStay(i) ==
  /\ UNCHANGED <<overlap, args>>
  /\ pc'[i] # pc[i]
  /\ wrote[i] \subseteq wrote'[i] /\ unlocked \subseteq unlocked'
  /\ \A j \in Invocations \ {i} :
       /\ pc'[j] = pc[j] /\ exit'[j] = exit[j]
       /\ existed'[j] = existed[j] /\ wrote'[j] = wrote[j]
  /\ \A p \in Paths \ wrote'[i] : disk'[p] = disk[p] /\ mode'[p] = mode[p]

\* The invocation looks at a path, or its save fails at once, or it reports,
\* or it is killed: no file changes.
Quiet(i) ==
  /\ UNCHANGED <<disk, mode, wrote>>
  /\ exit'[i] = NoExit \/ pc'[i] = "ended"
  /\ \/ /\ pc[i] = "idle"
        /\ overlap \/ \A j \in Invocations : pc[j] \in Idle
        /\ existed'[i] = {p \in Paths : disk[p] # Absent}
        /\ \/ exit'[i] = 2 /\ pc'[i] = "ended"
           \/ /\ disk[args[i].out] = Absent \/ args[i].force
              /\ exit'[i] = exit[i]
              /\ \/ pc'[i] = "open private" /\ args[i].public_out = NoPath
                 \/ pc'[i] = "check public" /\ args[i].public_out # NoPath
     \/ /\ pc[i] = "check public"
        /\ existed'[i] = existed[i]
        /\ \/ exit'[i] = 2 /\ pc'[i] = "ended"
           \/ /\ disk[args[i].public_out] = Absent \/ args[i].force
              /\ exit'[i] = exit[i] /\ pc'[i] = "open private"
     \/ /\ existed'[i] = existed[i]
        /\ \/ /\ pc[i] \in {"open private", "write private", "open public", "write public"}
              /\ exit'[i] = 1 /\ pc'[i] = "ended"
           \/ pc[i] = "print" /\ exit'[i] = 0 /\ pc'[i] = "ended"
           \/ pc[i] \notin Idle /\ exit'[i] = exit[i] /\ pc'[i] = "crashed"

\* The mode of the private key is set, or that failed.
Locked(i) ==
  /\ pc[i] = "chmod"
  /\ UNCHANGED <<disk, wrote>> /\ existed'[i] = existed[i] /\ exit'[i] = exit[i]
  /\ \A p \in Paths : mode'[p] = mode[p] \/ mode'[p] = "0600"
  /\ \A p \in Paths \ {args[i].out} : mode'[p] = mode[p]
  /\ mode'[args[i].out] = "0600" \/ i \in unlocked'
  /\ \/ pc'[i] = "print" /\ args[i].public_out = NoPath
     \/ pc'[i] = "open public" /\ args[i].public_out # NoPath

\* A file is opened for writing.
Opened(i, path) ==
  /\ existed'[i] = existed[i] /\ exit'[i] = exit[i]
  /\ wrote'[i] = wrote[i] \cup {path}
  /\ disk'[path] = Torn
  /\ \A p \in Paths \ {path} : disk'[p] = disk[p]
  /\ mode' \in [Paths -> {"default", "0600"}]
  /\ \A p \in Paths : disk[p] # Absent \/ p # path => mode'[p] = mode[p]

\* A key is written to it.
Written(i, path, new) ==
  /\ existed'[i] = existed[i] /\ exit'[i] = exit[i]
  /\ UNCHANGED <<mode, wrote>>
  /\ disk'[path] = IF disk[path].kind = "private" /\ new.kind = "public"
                   THEN Torn ELSE new
  /\ \A p \in Paths \ {path} : disk'[p] = disk[p]

\* A write fails half way.
Tears(path) ==
  /\ disk'[path] = Torn
  /\ \A p \in Paths \ {path} : disk'[p] = disk[p]

TornBy(i) ==
  /\ UNCHANGED <<mode, wrote>> /\ existed'[i] = existed[i]
  /\ exit'[i] = 1 /\ pc'[i] = "ended"
  /\ \/ pc[i] = "write private" /\ Tears(args[i].out)
     \/ pc[i] = "write public" /\ Tears(args[i].public_out)

OpenedFor(i) ==
  \/ pc[i] = "open private" /\ pc'[i] = "write private" /\ Opened(i, args[i].out)
  \/ pc[i] = "open public" /\ pc'[i] = "write public" /\ Opened(i, args[i].public_out)

WrittenBy(i) ==
  \/ /\ pc[i] = "write private" /\ pc'[i] = "chmod"
     /\ Written(i, args[i].out, Private(i))
  \/ /\ pc[i] = "write public" /\ pc'[i] = "print"
     /\ Written(i, args[i].public_out, Public(i))

LEMMA StepKinds ==
  ASSUME TypeOK, ProgressInv, NEW i \in Invocations, Step(i)
  PROVE  /\ OthersStay(i)
         /\ Quiet(i) \/ Locked(i) \/ OpenedFor(i) \/ WrittenBy(i) \/ TornBy(i)
         /\ TypeOK'
  <1> USE ArgumentsTyped
  <1>1. CASE CheckOut(i) \/ CheckPublicOut(i) \/ (SaveFails(i) /\ disk' = disk)
             \/ ReportKeys(i) \/ Crash(i)
    <2>1. OthersStay(i)
      BY <1>1 DEF OthersStay, CheckOut, CheckPublicOut, SaveFails, SaveStops, ReportKeys, Crash,
                  Exit, Goto, NextCheck, Idle, TypeOK
    <2>2. Quiet(i)
      <3>1. exit[i] = NoExit \/ pc[i] = "ended"
        BY DEF ProgressInv
      <3>2. CASE CheckOut(i)
        BY <3>1, <3>2 DEF Quiet, CheckOut, Refused, Exit, Goto, NextCheck, TypeOK
      <3>3. CASE CheckPublicOut(i)
        BY <3>1, <3>3 DEF Quiet, CheckPublicOut, Refused, Exit, Goto, TypeOK
      <3>4. CASE (SaveFails(i) /\ disk' = disk) \/ ReportKeys(i) \/ Crash(i)
        BY <3>1, <3>4 DEF Quiet, SaveFails, SaveStops, ReportKeys, Crash, Exit, Goto, Idle, TypeOK
      <3> QED
        BY <1>1, <3>2, <3>3, <3>4
    <2>3. TypeOK'
      <3>1. /\ pc' \in [Invocations -> Places]
            /\ exit' \in [Invocations -> {NoExit, 0, 1, 2}]
        BY <1>1 DEF CheckOut, CheckPublicOut, SaveFails, SaveStops, ReportKeys, Crash, Exit, Goto,
                    NextCheck, TypeOK, Places
      <3>2. existed' \in [Invocations -> SUBSET Paths]
        <4>1. \A S \in SUBSET Paths : [existed EXCEPT ![i] = S] \in [Invocations -> SUBSET Paths]
          BY DEF TypeOK
        <4>2. {p \in Paths : disk[p] # Absent} \in SUBSET Paths
          OBVIOUS
        <4>3. CASE CheckOut(i)
          BY <4>1, <4>2, <4>3 DEF CheckOut
        <4> QED
          BY <1>1, <4>3 DEF CheckPublicOut, SaveFails, SaveStops, ReportKeys, Crash, TypeOK
      <3>3. UNCHANGED <<overlap, disk, mode, args, wrote, unlocked>>
        BY <1>1 DEF CheckOut, CheckPublicOut, SaveFails, SaveStops, ReportKeys, Crash
      <3> QED
        BY <3>1, <3>2, <3>3 DEF TypeOK
    <2> QED
      BY <2>1, <2>2, <2>3
  <1>2. CASE Chmod(i)
    <2>1. wrote[i] = {args[i].out}
      BY <1>2 DEF Chmod, ProgressInv
    <2>2. OthersStay(i)
      BY <1>2, <2>1 DEF OthersStay, Chmod, Goto, NextSave, TypeOK
    <2>3. Locked(i)
      BY <1>2, ArgumentsTyped DEF Locked, Chmod, Goto, NextSave, TypeOK
    <2>4. TypeOK'
      BY <1>2 DEF Chmod, Goto, NextSave, TypeOK, Places
    <2> QED
      BY <2>2, <2>3, <2>4
  <1>3. ASSUME NEW path \in Paths, NEW next \in Places, next # pc[i], Open(i, path, next)
        PROVE  OthersStay(i) /\ pc'[i] = next /\ Opened(i, path) /\ TypeOK'
    <2>1. OthersStay(i) /\ pc'[i] = next
      BY <1>3 DEF OthersStay, Open, Goto, TypeOK
    <2>2. Opened(i, path)
      BY <1>3 DEF Opened, Open, Goto, TypeOK
    <2>3. Torn \in FileStates
      BY DEF FileStates
    <2>4. TypeOK'
      BY <1>3, <2>3 DEF Open, Goto, TypeOK
    <2> QED
      BY <2>1, <2>2, <2>4
  <1>4. ASSUME NEW path \in wrote[i], NEW new \in {Private(i), Public(i)},
               NEW next \in Places, next # pc[i], Write(i, path, new, next)
        PROVE  OthersStay(i) /\ pc'[i] = next /\ Written(i, path, new) /\ TypeOK'
    <2>1. path \in Paths
      BY DEF TypeOK
    <2>2. OthersStay(i) /\ pc'[i] = next
      BY <1>4, <2>1 DEF OthersStay, Write, Goto, TypeOK
    <2>3. Written(i, path, new)
      BY <1>4, <2>1 DEF Written, Write, Goto, TypeOK
    <2>4. Torn \in FileStates /\ new \in FileStates
      BY DEF FileStates
    <2>5. TypeOK'
      BY <1>4, <2>1, <2>4 DEF Write, Goto, TypeOK
    <2> QED
      BY <2>2, <2>3, <2>5
  <1>5. CASE OpenPrivate(i)
    BY <1>3, <1>5 DEF OpenPrivate, OpenedFor, Places
  <1>6. CASE OpenPublic(i)
    <2>1. args[i].public_out \in Paths
      BY <1>6 DEF OpenPublic, ProgressInv
    <2> QED
      BY <1>3, <1>6, <2>1 DEF OpenPublic, OpenedFor, Places
  <1>7. CASE WritePrivate(i)
    <2>1. args[i].out \in wrote[i]
      BY <1>7 DEF WritePrivate, ProgressInv
    <2> QED
      BY <1>4, <1>7, <2>1 DEF WritePrivate, WrittenBy, Places
  <1>8. CASE WritePublic(i)
    <2>1. args[i].public_out \in wrote[i]
      BY <1>8 DEF WritePublic, ProgressInv
    <2> QED
      BY <1>4, <1>8, <2>1 DEF WritePublic, WrittenBy, Places
  <1>9. CASE SaveFails(i) /\ disk' # disk
    <2>1. PICK p \in OpenFile(i) : disk' = [disk EXCEPT ![p] = Torn]
      BY <1>9 DEF SaveFails, SaveStops
    <2>2. /\ p \in Paths /\ p \in wrote[i] /\ pc[i] \in {"write private", "write public"}
          /\ pc[i] = "write private" => p = args[i].out
          /\ pc[i] = "write public" => p = args[i].public_out
      BY <2>1 DEF OpenFile, ProgressInv
    <2>3. Torn \in FileStates
      BY DEF FileStates
    <2>4. OthersStay(i)
      <3>1. /\ UNCHANGED <<overlap, mode, args, existed, wrote, unlocked>>
            /\ pc' = [pc EXCEPT ![i] = "ended"] /\ exit' = [exit EXCEPT ![i] = 1]
        BY <1>9 DEF SaveFails, SaveStops, Exit
      <3>2. \A q \in Paths \ wrote[i] : disk'[q] = disk[q]
        BY <2>1, <2>2 DEF TypeOK
      <3> QED
        BY <2>2, <3>1, <3>2 DEF OthersStay, TypeOK
    <2>5. Tears(p)
      BY <2>1, <2>2 DEF Tears, TypeOK
    <2>6. UNCHANGED <<mode, wrote, existed>> /\ exit'[i] = 1 /\ pc'[i] = "ended"
      BY <1>9 DEF SaveFails, SaveStops, Exit, TypeOK
    <2>7. TornBy(i)
      BY <2>2, <2>5, <2>6 DEF TornBy
    <2>8. TypeOK'
      BY <1>9, <2>1, <2>2, <2>3 DEF SaveFails, SaveStops, Exit, TypeOK, Places
    <2> QED
      BY <2>4, <2>7, <2>8
  <1> QED
    BY <1>1, <1>2, <1>5, <1>6, <1>7, <1>8, <1>9 DEF Step

-----------------------------------------------------------------------------
(* One lemma for each part of the invariant.                               *)

LEMMA ProgressStep ==
  ASSUME IInv, NEW i \in Invocations, Step(i)
  PROVE  ProgressInv'
  <1>1. /\ OthersStay(i) /\ TypeOK /\ ProgressInv
        /\ Quiet(i) \/ Locked(i) \/ OpenedFor(i) \/ WrittenBy(i) \/ TornBy(i)
    BY StepKinds DEF IInv
  <1>2. args[i].out # NoPath /\ args[i].out \in Targets(i)
    BY <1>1, ArgumentsTyped
  <1> SUFFICES ASSUME NEW j \in Invocations
               PROVE  /\ pc'[j] \in {"idle", "check public", "open private"} => wrote'[j] = {}
                      /\ pc'[j] \in {"write private", "chmod", "open public"} =>
                           wrote'[j] = {args[j].out}
                      /\ pc'[j] \in {"write public", "print"} => wrote'[j] = Targets(j)
                      /\ pc'[j] \in {"check public", "open public", "write public"} =>
                           args[j].public_out # NoPath
                      /\ wrote'[j] # {} => args[j].out \in wrote'[j]
                      /\ wrote'[j] \subseteq Targets(j)
                      /\ exit'[j] = NoExit <=> pc'[j] # "ended"
                      /\ exit'[j] = 2 => wrote'[j] = {}
                      /\ exit'[j] = 0 => wrote'[j] = Targets(j)
    BY <1>1 DEF OthersStay, ProgressInv, Targets
  <1>3. CASE j # i
    BY <1>1, <1>3 DEF OthersStay, ProgressInv
  <1>4. CASE j = i /\ Quiet(i)
    <2>1. wrote' = wrote
      BY <1>4 DEF Quiet
    <2>2. CASE pc'[i] # "ended"
      <3>1. exit[i] = NoExit /\ exit'[i] = NoExit
        BY <1>1, <1>4, <2>2 DEF Quiet, ProgressInv, Idle
      <3>2. CASE pc'[i] = "crashed"
        BY <1>1, <1>4, <2>1, <3>1, <3>2, NoExitFacts DEF ProgressInv
      <3>3. CASE pc'[i] # "crashed"
        <4>1. /\ wrote[i] = {} /\ pc'[i] \in {"check public", "open private"}
              /\ pc'[i] = "check public" => args[i].public_out # NoPath
          BY <1>1, <1>4, <2>2, <3>3 DEF Quiet, ProgressInv
        <4> QED
          BY <1>4, <2>1, <3>1, <4>1, NoExitFacts
      <3> QED
        BY <3>2, <3>3
    <2>3. CASE pc'[i] = "ended"
      <3>1. \/ exit'[i] = 2 /\ wrote[i] = {}
            \/ exit'[i] = 1
            \/ exit'[i] = 0 /\ wrote[i] = Targets(i)
        BY <1>1, <1>4, <2>3 DEF Quiet, ProgressInv
      <3>2. (wrote[i] # {} => args[i].out \in wrote[i]) /\ wrote[i] \subseteq Targets(i)
        BY <1>1 DEF ProgressInv
      <3> QED
        BY <1>4, <2>1, <2>3, <3>1, <3>2, NoExitFacts
    <2> QED
      BY <2>2, <2>3
  <1>5. CASE j = i /\ Locked(i)
    <2>1. wrote'[i] = wrote[i] /\ wrote[i] = {args[i].out} /\ exit'[i] = exit[i]
          /\ exit[i] = NoExit
      BY <1>1, <1>5 DEF Locked, ProgressInv
    <2>2. \/ pc'[i] = "print" /\ args[i].public_out = NoPath
          \/ pc'[i] = "open public" /\ args[i].public_out # NoPath
      BY <1>5 DEF Locked
    <2>3. args[i].public_out = NoPath => Targets(i) = {args[i].out}
      BY <1>2 DEF Targets
    <2> QED
      BY <1>2, <1>5, <2>1, <2>2, <2>3, NoExitFacts
  <1>6. CASE j = i /\ OpenedFor(i)
    <2>1. exit'[i] = exit[i] /\ exit[i] = NoExit
      BY <1>1, <1>6 DEF OpenedFor, Opened, ProgressInv
    <2>2. CASE pc[i] = "open private"
      <3>1. wrote'[i] = {args[i].out} /\ pc'[i] = "write private"
        BY <1>1, <1>6, <2>2 DEF OpenedFor, Opened, ProgressInv
      <3> QED
        BY <1>2, <1>6, <2>1, <3>1, NoExitFacts
    <2>3. CASE pc[i] = "open public"
      <3>1. /\ wrote[i] = {args[i].out} /\ pc'[i] = "write public"
            /\ wrote'[i] = wrote[i] \cup {args[i].public_out}
            /\ args[i].public_out # NoPath
        BY <1>1, <1>6, <2>3 DEF OpenedFor, Opened, ProgressInv
      <3>2. wrote'[i] = Targets(i)
        BY <1>2, <3>1 DEF Targets
      <3> QED
        BY <1>2, <1>6, <2>1, <3>1, <3>2, NoExitFacts
    <2> QED
      BY <1>6, <2>2, <2>3 DEF OpenedFor
  <1>7. CASE j = i /\ WrittenBy(i)
    <2>1. exit'[i] = exit[i] /\ exit[i] = NoExit /\ wrote'[i] = wrote[i]
      BY <1>1, <1>7 DEF WrittenBy, Written, ProgressInv
    <2>2. \/ pc'[i] = "chmod" /\ wrote[i] = {args[i].out}
          \/ pc'[i] = "print" /\ wrote[i] = Targets(i)
      BY <1>1, <1>7 DEF WrittenBy, ProgressInv
    <2> QED
      BY <1>2, <1>7, <2>1, <2>2, NoExitFacts
  <1>8. CASE j = i /\ TornBy(i)
    <2>1. pc'[i] = "ended" /\ exit'[i] = 1 /\ wrote'[i] = wrote[i]
      BY <1>8 DEF TornBy
    <2>2. (wrote[i] # {} => args[i].out \in wrote[i]) /\ wrote[i] \subseteq Targets(i)
      BY <1>1 DEF ProgressInv
    <2> QED
      BY <1>8, <2>1, <2>2, NoExitFacts
  <1> QED
    BY <1>1, <1>3, <1>4, <1>5, <1>6, <1>7, <1>8

LEMMA DiskStep ==
  ASSUME IInv, NEW i \in Invocations, Step(i)
  PROVE  DiskInv'
  <1>1. /\ OthersStay(i) /\ TypeOK /\ ProgressInv /\ DiskInv
        /\ Quiet(i) \/ Locked(i) \/ OpenedFor(i) \/ WrittenBy(i) \/ TornBy(i)
    BY StepKinds DEF IInv
  <1> SUFFICES ASSUME NEW j \in Invocations, NEW p \in Paths
               PROVE  /\ p \in existed'[j] \/ p \in wrote'[j] => disk'[p] # Absent
                      /\ disk'[p] = Private(j) => p = args'[j].out /\ p \in wrote'[j]
                      /\ disk'[p] = Public(j) => p = args'[j].public_out /\ p \in wrote'[j]
    BY DEF DiskInv
  <1>2. wrote[j] \subseteq wrote'[j] /\ args' = args
    BY <1>1 DEF OthersStay
  <1>3. CASE Quiet(i) \/ Locked(i)
    <2>1. disk' = disk /\ wrote' = wrote
      BY <1>3 DEF Quiet, Locked
    <2>2. existed'[j] = existed[j] \/ existed'[j] = {q \in Paths : disk[q] # Absent}
      <3>1. CASE j # i
        BY <1>1, <3>1 DEF OthersStay
      <3>2. CASE j = i /\ Quiet(i)
        BY <3>2 DEF Quiet
      <3>3. CASE j = i /\ Locked(i)
        BY <3>3 DEF Locked
      <3> QED
        BY <1>3, <3>1, <3>2, <3>3
    <2> QED
      BY <1>1, <1>2, <2>1, <2>2 DEF DiskInv
  <1>4. ASSUME NEW path, Opened(i, path)
        PROVE  /\ p \in existed'[j] \/ p \in wrote'[j] => disk'[p] # Absent
               /\ disk'[p] = Private(j) => p = args'[j].out /\ p \in wrote'[j]
               /\ disk'[p] = Public(j) => p = args'[j].public_out /\ p \in wrote'[j]
    BY <1>1, <1>2, <1>4, FileFacts DEF OthersStay, Opened, DiskInv
  <1>5. CASE WrittenBy(i)
    <2>1. PICK path \in wrote[i], new \in {Private(i), Public(i)} :
            /\ Written(i, path, new)
            /\ new = Private(i) => path = args[i].out
            /\ new = Public(i) => path = args[i].public_out
      BY <1>1, <1>5, FileFacts, ArgumentsTyped DEF WrittenBy, ProgressInv
    <2> QED
      BY <1>1, <1>2, <2>1, FileFacts DEF OthersStay, Written, DiskInv
  <1>6. CASE TornBy(i)
    <2>1. PICK path \in Paths : Tears(path)
      BY <1>1, <1>6, ArgumentsTyped DEF TornBy, ProgressInv
    <2>2. existed'[j] = existed[j] /\ wrote'[j] = wrote[j]
      BY <1>1, <1>6 DEF OthersStay, TornBy
    <2>3. disk'[p] = Torn \/ disk'[p] = disk[p]
      BY <2>1 DEF Tears
    <2> QED
      BY <1>1, <1>2, <2>2, <2>3, FileFacts DEF DiskInv
  <1> QED
    BY <1>1, <1>3, <1>4, <1>5, <1>6 DEF OpenedFor

\* What an unforced invocation is about to open is free, or its own already,
\* if it runs alone; at any rate it was free when the invocation started.
LEMMA UnforcedOpens ==
  ASSUME IInv, NEW i \in Invocations, ~args[i].force,
         NEW path \in Paths,
         \/ pc[i] = "open private" /\ path = args[i].out
         \/ pc[i] = "open public" /\ path = args[i].public_out
  PROVE  /\ path \notin existed[i]
         /\ ~overlap => disk[path] = Absent \/ path \in wrote[i]
  <1>1. pc[i] \in PastCheckOut /\ pc[i] \in PastChecks
    BY DEF PastCheckOut, PastChecks
  <1>2. args[i].out # NoPath /\ path # NoPath
    BY KeygenAssumption, ArgumentsTyped DEF IInv
  <1> QED
    BY <1>1, <1>2 DEF IInv, UnforcedInv

LEMMA AloneStep ==
  ASSUME IInv, NEW i \in Invocations, Step(i)
  PROVE  /\ AloneInv'
         /\ ~overlap => \A j \in Invocations \ {i} : pc[j] \in Idle
  <1>1. /\ OthersStay(i) /\ AloneInv
        /\ Quiet(i) \/ Locked(i) \/ OpenedFor(i) \/ WrittenBy(i) \/ TornBy(i)
    BY StepKinds DEF IInv
  <1>2. ASSUME ~overlap
        PROVE  \A j \in Invocations \ {i} : pc[j] \in Idle
    <2>1. CASE pc[i] # "idle"
      <3>1. pc[i] \notin Idle
        BY <1>1, <2>1 DEF Quiet, Locked, OpenedFor, WrittenBy, TornBy, Idle
      <3> QED
        BY <1>1, <1>2, <3>1 DEF AloneInv
    <2>2. CASE pc[i] = "idle"
      BY <1>1, <1>2, <2>2 DEF Quiet, Locked, OpenedFor, WrittenBy, TornBy, Idle
    <2> QED
      BY <2>1, <2>2
  <1> QED
    BY <1>1, <1>2 DEF OthersStay, AloneInv

LEMMA UnforcedStep ==
  ASSUME IInv, NEW i \in Invocations, Step(i)
  PROVE  UnforcedInv'
  <1>1. /\ OthersStay(i) /\ TypeOK /\ ProgressInv /\ DiskInv /\ UnforcedInv
        /\ Quiet(i) \/ Locked(i) \/ OpenedFor(i) \/ WrittenBy(i) \/ TornBy(i)
    BY StepKinds DEF IInv
  <1>2. args' = args /\ overlap' = overlap
    BY <1>1 DEF OthersStay
  <1> SUFFICES ASSUME NEW j \in Invocations, ~args[j].force
               PROVE  /\ pc'[j] \in PastCheckOut =>
                           /\ args[j].out \notin existed'[j]
                           /\ ~overlap => \/ disk'[args[j].out] = Absent
                                          \/ args[j].out \in wrote'[j]
                      /\ pc'[j] \in PastChecks /\ args[j].public_out # NoPath =>
                           /\ args[j].public_out \notin existed'[j]
                           /\ ~overlap => \/ disk'[args[j].public_out] = Absent
                                          \/ args[j].public_out \in wrote'[j]
    BY <1>2 DEF UnforcedInv
  <1>3. CASE j # i
    <2>1. ~overlap => pc'[j] \in Idle
      BY <1>1, <1>3, AloneStep DEF OthersStay
    <2>2. Idle \cap PastCheckOut = {} /\ Idle \cap PastChecks = {}
      BY DEF Idle, PastCheckOut, PastChecks
    <2> QED
      BY <1>1, <1>3, <2>1, <2>2 DEF OthersStay, UnforcedInv
  <1>4. CASE j = i /\ Quiet(i)
    <2>1. args[i].out \in Paths
      BY <1>1, ArgumentsTyped
    <2>2. args[i].public_out # NoPath => args[i].public_out \in Paths
      BY <1>1, ArgumentsTyped
    <2> QED
      BY <1>1, <1>4, <2>1, <2>2
      DEF Quiet, UnforcedInv, DiskInv, PastCheckOut, PastChecks, Idle
  <1>5. CASE j = i /\ Locked(i)
    BY <1>1, <1>5 DEF OthersStay, Locked, UnforcedInv, PastCheckOut, PastChecks
  <1>7. CASE j = i /\ TornBy(i)
    BY <1>7 DEF TornBy, PastCheckOut, PastChecks
  <1>6. CASE j = i /\ (OpenedFor(i) \/ WrittenBy(i))
    <2>1. /\ pc[i] \in PastChecks /\ pc[i] \in PastCheckOut
          /\ existed'[i] = existed[i] /\ wrote[i] \subseteq wrote'[i]
      BY <1>1, <1>6 DEF OthersStay, OpenedFor, Opened, WrittenBy, Written,
                        PastCheckOut, PastChecks
    <2>2. \A p \in Paths : disk'[p] = disk[p] \/ p \in wrote'[i]
      BY <1>1 DEF OthersStay
    <2> QED
      BY <1>1, <1>6, <2>1, <2>2, ArgumentsTyped DEF UnforcedInv
  <1> QED
    BY <1>1, <1>3, <1>4, <1>5, <1>6, <1>7

LEMMA ApartStep ==
  ASSUME IInv, NEW i \in Invocations, Step(i)
  PROVE  ApartInv'
  <1>1. /\ OthersStay(i) /\ TypeOK /\ DiskInv /\ ApartInv
        /\ Quiet(i) \/ Locked(i) \/ OpenedFor(i) \/ WrittenBy(i) \/ TornBy(i)
    BY StepKinds DEF IInv
  <1>2. args' = args /\ overlap' = overlap
    BY <1>1 DEF OthersStay
  <1>3. ASSUME ~overlap, ~args[i].force, NEW j \in Invocations \ {i}, ~args[j].force
        PROVE  wrote'[i] \cap wrote'[j] = {}
    <2>1. wrote[i] \cap wrote[j] = {} /\ wrote'[j] = wrote[j]
      BY <1>1, <1>3 DEF ApartInv, OthersStay
    <2>2. CASE wrote'[i] = wrote[i]
      BY <2>1, <2>2
    <2>3. CASE OpenedFor(i)
      <3>1. PICK path \in Paths :
              /\ Opened(i, path)
              /\ \/ pc[i] = "open private" /\ path = args[i].out
                 \/ pc[i] = "open public" /\ path = args[i].public_out
        BY <1>1, <2>3, ArgumentsTyped DEF OpenedFor, IInv, ProgressInv
      <3>2. disk[path] = Absent \/ path \in wrote[i]
        BY <1>3, <3>1, UnforcedOpens
      <3>3. path \notin wrote[j]
        BY <1>1, <2>1, <3>2 DEF DiskInv
      <3> QED
        BY <2>1, <3>1, <3>3 DEF Opened
    <2> QED
      BY <1>1, <2>2, <2>3 DEF Quiet, Locked, WrittenBy, Written, TornBy
  <1>4. ASSUME ~overlap, NEW j \in Invocations \ {i}, NEW k \in Invocations \ {i}, j # k,
               ~args[j].force, ~args[k].force
        PROVE  wrote'[j] \cap wrote'[k] = {}
    BY <1>1, <1>4 DEF ApartInv, OthersStay
  <1> QED
    BY <1>2, <1>3, <1>4 DEF ApartInv

LEMMA PairStep ==
  ASSUME IInv, NEW i \in Invocations, Step(i)
  PROVE  PairInv'
  <1>1. /\ OthersStay(i) /\ TypeOK /\ ProgressInv /\ DiskInv /\ PairInv
        /\ Quiet(i) \/ Locked(i) \/ OpenedFor(i) \/ WrittenBy(i) \/ TornBy(i)
    BY StepKinds DEF IInv
  <1>2. args' = args
    BY <1>1 DEF OthersStay
  <1> SUFFICES ASSUME NEW j \in Invocations,
                      \A k \in Invocations \ {j} : wrote'[k] \cap Targets(j) = {}
               PROVE  /\ pc'[j] = "write private" => disk'[args[j].out] = Torn
                      /\ pc'[j] \in {"chmod", "open public"} =>
                           disk'[args[j].out] = Private(j)
                      /\ pc'[j] \in {"write public", "print"} \/ exit'[j] = 0 =>
                           (args[j].out # args[j].public_out => disk'[args[j].out] = Private(j))
                      /\ pc'[j] = "write public" => disk'[args[j].public_out] = Torn
                      /\ (pc'[j] = "print" \/ exit'[j] = 0) /\ args[j].public_out # NoPath =>
                           disk'[args[j].public_out] = Public(j)
    BY <1>2 DEF PairInv, Undisturbed, Targets, PrivateSaved
  <1>3. Undisturbed(j)
    BY <1>1 DEF OthersStay, Undisturbed
  <1>4. /\ args[j].out \in Paths /\ args[j].out \in Targets(j)
        /\ args[j].public_out # NoPath =>
             args[j].public_out \in Paths /\ args[j].public_out \in Targets(j)
    BY <1>1, ArgumentsTyped
  <1>5. CASE j # i
    <2>1. \A p \in Paths : p \in Targets(j) => disk'[p] = disk[p]
      BY <1>1, <1>5 DEF OthersStay
    <2>2. pc'[j] = pc[j] /\ exit'[j] = exit[j]
      BY <1>1, <1>5 DEF OthersStay
    <2>3. pc[j] = "write public" => args[j].public_out # NoPath
      BY <1>1 DEF ProgressInv
    <2> QED
      BY <1>1, <1>3, <1>4, <2>1, <2>2, <2>3 DEF PairInv, PrivateSaved
  <1>6. CASE j = i /\ Quiet(i)
    <2>1. disk' = disk
      BY <1>6 DEF Quiet
    <2>2. pc'[i] \in {"open private", "check public", "ended", "crashed"}
      BY <1>6 DEF Quiet
    <2>3. exit'[i] = 0 => pc[i] = "print"
      <3>1. exit[i] = NoExit
        BY <1>1, <1>6 DEF Quiet, ProgressInv, Idle
      <3>2. exit'[i] \in {exit[i], 1, 2} \/ pc[i] = "print"
        BY <1>6 DEF Quiet
      <3> QED
        BY <3>1, <3>2, NoExitFacts
    <2> QED
      BY <1>1, <1>3, <1>6, <2>1, <2>2, <2>3 DEF PairInv, PrivateSaved
  <1>8. CASE j = i /\ TornBy(i)
    <2>1. pc'[i] = "ended" /\ exit'[i] = 1
      BY <1>8 DEF TornBy
    <2> QED
      BY <1>8, <2>1
  <1>7. CASE j = i /\ ~Quiet(i) /\ ~TornBy(i)
    <2>1. exit'[i] = NoExit
      BY <1>1, <1>7 DEF Locked, OpenedFor, Opened, WrittenBy, Written, ProgressInv
    <2>2. CASE Locked(i)
      <3>1. disk' = disk /\ disk[args[i].out] = Private(i)
        BY <1>1, <1>3, <1>7, <2>2 DEF Locked, PairInv
      <3>2. \/ pc'[i] = "print" /\ args[i].public_out = NoPath
            \/ pc'[i] = "open public"
        BY <2>2 DEF Locked
      <3> QED
        BY <1>7, <2>1, <3>1, <3>2, NoExitFacts
    <2>3. CASE pc[i] = "open private"
      <3>1. pc'[i] = "write private" /\ disk'[args[i].out] = Torn
        BY <1>1, <1>7, <2>3 DEF Locked, OpenedFor, Opened, WrittenBy
      <3> QED
        BY <1>7, <2>1, <3>1, NoExitFacts
    <2>4. CASE pc[i] = "open public"
      <3>1. /\ pc'[i] = "write public" /\ disk'[args[i].public_out] = Torn
            /\ \A p \in Paths \ {args[i].public_out} : disk'[p] = disk[p]
        BY <1>1, <1>7, <2>4 DEF Locked, OpenedFor, Opened, WrittenBy
      <3>2. disk[args[i].out] = Private(i)
        BY <1>3, <1>7, <2>4, <1>1 DEF PairInv
      <3> QED
        BY <1>4, <1>7, <2>1, <3>1, <3>2, NoExitFacts
    <2>5. CASE pc[i] = "write private"
      <3>1. pc'[i] = "chmod" /\ disk'[args[i].out] = Private(i)
        BY <1>1, <1>7, <2>5, FileFacts DEF Locked, OpenedFor, WrittenBy, Written
      <3> QED
        BY <1>7, <2>1, <3>1, NoExitFacts
    <2>6. CASE pc[i] = "write public"
      <3>1. /\ pc'[i] = "print"
            /\ disk'[args[i].public_out]
                 = IF disk[args[i].public_out].kind = "private" /\ Public(i).kind = "public"
                   THEN Torn ELSE Public(i)
            /\ \A p \in Paths \ {args[i].public_out} : disk'[p] = disk[p]
        BY <1>1, <1>7, <2>6 DEF Locked, OpenedFor, WrittenBy, Written
      <3>2. /\ disk[args[i].public_out] = Torn
            /\ args[i].out # args[i].public_out => disk[args[i].out] = Private(i)
        BY <1>1, <1>3, <1>7, <2>6 DEF PairInv, PrivateSaved
      <3>3. disk'[args[i].public_out] = Public(i)
        BY <3>1, <3>2, FileFacts
      <3> QED
        BY <1>4, <1>7, <2>1, <3>1, <3>2, <3>3, NoExitFacts
    <2> QED
      BY <1>1, <1>7, <2>2, <2>3, <2>4, <2>5, <2>6 DEF OpenedFor, WrittenBy
  <1> QED
    BY <1>5, <1>6, <1>7, <1>8

\* Setting the mode is not undone, and until then the key's invocation is at
\* the chmod.
LEMMA UnlockedStep ==
  ASSUME IInv, NEW i \in Invocations, Step(i)
  PROVE  UnlockedKeysAreExplained'
  <1>1. /\ OthersStay(i) /\ TypeOK /\ DiskInv /\ UnlockedKeysAreExplained
        /\ Quiet(i) \/ Locked(i) \/ OpenedFor(i) \/ WrittenBy(i) \/ TornBy(i)
    BY StepKinds DEF IInv
  <1> SUFFICES ASSUME NEW j \in Invocations, NEW p \in Paths,
                      disk'[p] = Private(j), mode'[p] # "0600"
               PROVE  pc'[j] \in {"chmod", "crashed"} \/ j \in unlocked'
    BY DEF UnlockedKeysAreExplained
  <1>2. CASE disk[p] = Private(j) /\ mode[p] # "0600"
    <2>1. pc[j] \in {"chmod", "crashed"} \/ j \in unlocked'
      BY <1>1, <1>2 DEF UnlockedKeysAreExplained, OthersStay
    <2>2. CASE j # i
      BY <1>1, <2>1, <2>2 DEF OthersStay
    <2>3. CASE j = i /\ Locked(i)
      BY <1>1, <1>2, <2>3 DEF Locked, DiskInv
    <2>4. CASE j = i /\ ~Locked(i)
      BY <1>1, <2>1, <2>4 DEF Quiet, OpenedFor, WrittenBy, TornBy, Idle
    <2> QED
      BY <2>2, <2>3, <2>4
  <1>3. CASE ~(disk[p] = Private(j) /\ mode[p] # "0600")
    <2>1. ~Quiet(i) /\ ~Locked(i) /\ ~TornBy(i)
      BY <1>3, FileFacts DEF Quiet, Locked, TornBy, Tears
    <2>2. ~OpenedFor(i)
      <3>1. ASSUME NEW path, Opened(i, path) PROVE FALSE
        BY <1>3, <3>1, FileFacts DEF Opened
      <3> QED
        BY <3>1 DEF OpenedFor
    <2>3. ASSUME NEW path, Written(i, path, Public(i)) PROVE FALSE
      BY <1>3, <2>3, FileFacts DEF Written
    <2>4. Written(i, args[i].out, Private(i)) /\ pc'[i] = "chmod"
      BY <1>1, <2>1, <2>2, <2>3 DEF WrittenBy
    <2>5. j = i
      BY <1>3, <2>4, FileFacts DEF Written
    <2> QED
      BY <2>4, <2>5
  <1> QED
    BY <1>2, <1>3

LEMMA PrivateFile ==
  ASSUME TypeOK, NEW p \in Paths, disk[p].kind = "private"
  PROVE  \E k \in Invocations : disk[p] = Private(k)
  <1>1. disk[p] \in FileStates
    BY DEF TypeOK
  <1> QED
    BY <1>1, FileFacts DEF FileStates

LEMMA TornStep ==
  ASSUME IInv, NEW i \in Invocations, Step(i)
  PROVE  TornInv'
  <1>1. /\ OthersStay(i) /\ TypeOK /\ ProgressInv /\ DiskInv /\ TornInv
        /\ Quiet(i) \/ Locked(i) \/ OpenedFor(i) \/ WrittenBy(i) \/ TornBy(i)
    BY StepKinds DEF IInv
  <1>2. args' = args
    BY <1>1 DEF OthersStay
  <1> DEFINE TorePrime(k, p) ==
        /\ p \in wrote'[k]
        /\ \/ exit'[k] = 1
           \/ pc'[k] = "crashed"
           \/ pc'[k] = "write private" /\ p = args[k].out
           \/ pc'[k] = "write public" /\ p = args[k].public_out
  <1> SUFFICES ASSUME PairsApart, NEW p \in Paths, disk'[p] = Torn
               PROVE  \E k \in Invocations : TorePrime(k, p)
    BY <1>2 DEF TornInv, PairsApart, Targets, Tore
  <1>3. \A k \in Invocations : exit[k] = 1 => pc[k] = "ended"
    BY NoExitFacts, <1>1 DEF ProgressInv
  <1>4. CASE disk[p] = Torn
    <2>1. PICK k \in Invocations : Tore(k, p)
      BY <1>1, <1>4 DEF TornInv
    <2>2. CASE k # i
      BY <1>1, <2>1, <2>2 DEF OthersStay, Tore
    <2>3. CASE k = i /\ Quiet(i)
      <3>1. wrote' = wrote /\ p \in wrote[i]
        BY <2>1, <2>3 DEF Quiet, Tore
      <3>2. exit'[i] = 1 \/ pc'[i] = "crashed"
        BY <1>3, <2>1, <2>3 DEF Quiet, Tore, Idle
      <3> QED
        BY <3>1, <3>2
    <2>5. CASE k = i /\ TornBy(i)
      BY <2>1, <2>5 DEF TornBy, Tore
    <2>4. CASE k = i /\ ~Quiet(i) /\ ~TornBy(i)
      <3>1. WrittenBy(i)
        BY <1>1, <1>3, <2>1, <2>4 DEF Locked, OpenedFor, Tore
      <3>2. \E new \in {Private(i), Public(i)} : Written(i, p, new)
        BY <1>3, <2>1, <2>4, <3>1 DEF WrittenBy, Tore
      <3>3. disk'[p] # Torn
        BY <1>4, <3>2, FileFacts DEF Written
      <3> QED
        BY <3>3
    <2> QED
      BY <2>2, <2>3, <2>4, <2>5
  <1>5. CASE disk[p] # Torn
    <2>1. CASE OpenedFor(i)
      <3>1. \/ pc'[i] = "write private" /\ Opened(i, args[i].out)
            \/ pc'[i] = "write public" /\ Opened(i, args[i].public_out)
        BY <2>1 DEF OpenedFor
      <3>2. ASSUME NEW path, Opened(i, path) PROVE p = path /\ p \in wrote'[i]
        BY <1>5, <3>2 DEF Opened
      <3> QED
        BY <3>1, <3>2
    <2>2. CASE WrittenBy(i)
      <3>1. PICK path \in wrote[i], new \in {Private(i), Public(i)} :
              /\ Written(i, path, new)
              /\ new = Public(i) => path = args[i].public_out
        BY <1>1, <2>2, FileFacts, ArgumentsTyped DEF WrittenBy, ProgressInv
      <3>2. /\ p = path /\ p = args[i].public_out
            /\ disk[p].kind = "private"
        BY <1>5, <3>1, FileFacts DEF Written
      <3>3. PICK k \in Invocations : disk[p] = Private(k)
        BY <1>1, <3>2, PrivateFile
      <3>4. p = args[k].out /\ p \in Targets(k) /\ p \in Targets(i)
        BY <1>1, <3>2, <3>3, ArgumentsTyped, KeygenAssumption DEF DiskInv
      <3>5. args[i].out = args[k].out /\ args[i].out # args[i].public_out
        BY <3>4 DEF PairsApart
      <3> QED
        BY <3>2, <3>4, <3>5
    <2>3. CASE TornBy(i)
      <3>1. p \in {args[i].out, args[i].public_out} /\ pc[i] \in {"write private", "write public"}
            /\ (pc[i] = "write private" => p = args[i].out)
            /\ (pc[i] = "write public" => p = args[i].public_out)
        BY <1>5, <2>3 DEF TornBy, Tears
      <3>2. p \in wrote'[i] /\ exit'[i] = 1
        BY <1>1, <2>3, <3>1, ArgumentsTyped DEF TornBy, ProgressInv
      <3> QED
        BY <3>2
    <2> QED
      BY <1>1, <1>5, <2>1, <2>2, <2>3 DEF Quiet, Locked
  <1> QED
    BY <1>4, <1>5

LEMMA InvStep == IInv /\ [Next]_vars => IInv'
  <1> SUFFICES ASSUME IInv, [Next]_vars PROVE IInv'
    OBVIOUS
  <1>1. CASE UNCHANGED vars
    <2>1. TypeOK' /\ ProgressInv' /\ DiskInv' /\ UnforcedInv'
      BY <1>1 DEF IInv, vars, TypeOK, ProgressInv, DiskInv, UnforcedInv, Targets
    <2>2. AloneInv' /\ ApartInv'
      BY <1>1 DEF IInv, vars, AloneInv, ApartInv
    <2>3. PairInv' /\ TornInv' /\ UnlockedKeysAreExplained'
      BY <1>1 DEF IInv, vars, PairInv, TornInv, Undisturbed, Targets, UnlockedKeysAreExplained,
                  PrivateSaved, PairsApart, Tore
    <2> QED
      BY <2>1, <2>2, <2>3 DEF IInv
  <1>2. CASE Next
    <2>1. PICK i \in Invocations : Step(i)
      BY <1>2 DEF Next
    <2>2. TypeOK'
      BY <2>1, StepKinds DEF IInv
    <2> QED
      BY <2>1, <2>2, ProgressStep, DiskStep, UnforcedStep, AloneStep, ApartStep,
         PairStep, UnlockedStep, TornStep DEF IInv
  <1> QED
    BY <1>1, <1>2

\* What every reachable state of the invocations satisfies.
THEOREM Invariance == Spec => []IInv
  BY InvInit, InvStep, PTL DEF Spec

-----------------------------------------------------------------------------
(* The properties.                                                         *)

\* Every variable keeps its type.
THEOREM TypeCorrect == Spec => []TypeOK
  <1>1. IInv => TypeOK
    BY DEF IInv
  <1> QED
    BY <1>1, Invariance, PTL

\* Exit code 2 comes before anything is written.
THEOREM RefusalsChangeNothing == Spec => []RefusalChangesNothing
  <1>1. IInv => RefusalChangesNothing
    BY DEF IInv, ProgressInv, RefusalChangesNothing
  <1> QED
    BY <1>1, Invariance, PTL

LEMMA PairIsWhole == IInv => ExitZeroMeansPair
  <1> SUFFICES ASSUME IInv, NEW i \in Invocations, exit[i] = 0,
                      \A j \in Invocations \ {i} : wrote[j] \cap Targets(i) = {}
               PROVE  /\ disk[args[i].out] = Private(i) <=> args[i].out # args[i].public_out
                      /\ args[i].public_out # NoPath => disk[args[i].public_out] = Public(i)
    BY DEF ExitZeroMeansPair
  <1>1. Undisturbed(i)
    BY DEF Undisturbed
  <1>2. args[i].out # NoPath
    BY ArgumentsTyped DEF IInv
  <1> QED
    BY <1>1, <1>2, FileFacts DEF IInv, PairInv, PrivateSaved

\* Exit code 0 means a whole pair, at paths that no other invocation wrote to.
THEOREM PairsAreWhole == Spec => []ExitZeroMeansPair
  BY PairIsWhole, Invariance, PTL

\* A whole private key with the default mode has its reason.
THEOREM UnlockedAlwaysExplained == Spec => []UnlockedKeysAreExplained
  <1>1. IInv => UnlockedKeysAreExplained
    BY DEF IInv
  <1> QED
    BY <1>1, Invariance, PTL

LEMMA PairMatches == IInv => UnforcedPairsMatch
  <1> SUFFICES ASSUME IInv, PairsApart, ~overlap,
                      \A l \in Invocations : wrote[l] # {} => ~args[l].force,
                      NEW i \in Invocations, NEW j \in Invocations, NEW k \in Invocations,
                      args[i].public_out # NoPath,
                      disk[args[i].out] = Private(j),
                      disk[args[i].public_out] = Public(k)
               PROVE  j = k
    BY DEF UnforcedPairsMatch
  <1>1. /\ args[i].out \in Paths /\ args[i].public_out \in Paths
        /\ args[i].public_out \in Targets(i)
    BY ArgumentsTyped DEF IInv
  <1>2. /\ args[i].out \in wrote[j]
        /\ args[i].public_out = args[k].public_out /\ args[i].public_out \in wrote[k]
    BY <1>1 DEF IInv, DiskInv
  <1>3. args[k].public_out \in Targets(k) /\ args[k].out \in wrote[k]
    BY <1>1, <1>2, ArgumentsTyped DEF IInv, ProgressInv
  <1>4. args[i].out = args[k].out
    BY <1>1, <1>2, <1>3 DEF PairsApart
  <1> QED
    BY <1>2, <1>3, <1>4 DEF IInv, ApartInv

\* Unforced and one after the other, no runs leave a mixed pair.
THEOREM UnforcedPairsAlwaysMatch == Spec => []UnforcedPairsMatch
  BY PairMatches, Invariance, PTL

\* A torn file has somebody who is at it, was killed, or reported it.
THEOREM TornFilesAlwaysReported == Spec => []TornFilesAreReported
  <1>1. IInv => TornFilesAreReported
    BY DEF IInv, TornInv, Tore, TornFilesAreReported
  <1> QED
    BY <1>1, Invariance, PTL

LEMMA KeepsFiles ==
  ASSUME IInv, NEW i \in Invocations, Step(i), NEW p \in Paths,
         disk[p] # Absent, disk'[p] # disk[p]
  PROVE  /\ pc'[i] # pc[i]
         /\ \/ args[i].force
            \/ p \in wrote[i]
            \/ overlap /\ p \notin existed[i]
  <1>1. /\ OthersStay(i) /\ TypeOK /\ ProgressInv
        /\ Quiet(i) \/ Locked(i) \/ OpenedFor(i) \/ WrittenBy(i) \/ TornBy(i)
    BY StepKinds DEF IInv
  <1>2. p \in wrote'[i] /\ pc'[i] # pc[i]
    BY <1>1 DEF OthersStay
  <1>3. CASE OpenedFor(i)
    <2>1. PICK path :
            /\ Opened(i, path)
            /\ \/ pc[i] = "open private" /\ path = args[i].out
               \/ pc[i] = "open public" /\ path = args[i].public_out
      BY <1>3 DEF OpenedFor
    <2>2. p = path
      BY <2>1 DEF Opened
    <2> QED
      BY <1>2, <2>1, <2>2, UnforcedOpens
  <1>4. CASE WrittenBy(i)
    BY <1>2, <1>4 DEF WrittenBy, Written
  <1>5. CASE TornBy(i)
    BY <1>2, <1>5 DEF TornBy
  <1> QED
    BY <1>1, <1>3, <1>4, <1>5 DEF Quiet, Locked

\* Without --force nothing that was there at the start is overwritten.
THEOREM UnforcedNeverOverwrites == Spec => UnforcedKeepsFiles
  <1>1. IInv /\ [Next]_vars =>
          [\A p \in Paths : disk[p] # Absent /\ disk'[p] # disk[p] =>
             \E i \in Invocations :
               /\ pc'[i] # pc[i]
               /\ \/ args[i].force
                  \/ p \in wrote[i]
                  \/ overlap /\ p \notin existed[i]]_vars
    BY KeepsFiles DEF Next
  <1> QED
    BY <1>1, Invariance, PTL DEF Spec, UnforcedKeepsFiles
=============================================================================
