---- MODULE StagingCliProofs ----
(* Theorems about the creation of a repository, for any number of inits     *)
(* and beside whatever commands, players and other programs do, and about   *)
(* what becomes of the requests that the players stage.                     *)
EXTENDS StagingCli, TLAPS

\* Everything is made in the order of Steps, and an init that runs alone has
\* found nothing and is the only one under way.
InitInv ==
    /\ InitTypeOK
    /\ \A k \in DOMAIN Steps : \A j \in 1 .. k :
          Steps[k] \in made => Steps[j] \in made
    /\ \A i \in Inits : \A j \in DOMAIN Steps :
          j < step[i] => Steps[j] \in made
    /\ \A i \in Inits \ overlapped :
          step[i] # 0 => /\ InitUnderWay = {i}
                         /\ \A j \in DOMAIN Steps :
                               j >= step[i] => Steps[j] \notin made

LEMMA StepsOrder ==
    /\ Len(Steps) = 6 /\ DOMAIN Steps = 1 .. 6
    /\ Steps[1] = ".chunklog" /\ Steps[6] = "HEAD"
    /\ \A j, k \in 1 .. 6 : Steps[j] = Steps[k] => j = k
    /\ Layout = {Steps[k] : k \in 1 .. 6}
<1>1. Len(Steps) = 6 /\ DOMAIN Steps = 1 .. 6
  BY DEF Steps
<1>2. /\ Steps[1] = ".chunklog" /\ Steps[2] = "objects" /\ Steps[3] = "refs/heads"
      /\ Steps[4] = "staging" /\ Steps[5] = "FORMAT" /\ Steps[6] = "HEAD"
  BY DEF Steps
<1>3. \A j, k \in 1 .. 6 : Steps[j] = Steps[k] => j = k
  BY <1>2
<1> QED
  BY <1>1, <1>2, <1>3 DEF Layout

LEMMA InitInvHolds == NoRepository => InitInv
  BY StepsOrder DEF NoRepository, InitInv, InitTypeOK

LEMMA InitInvStep ==
    ASSUME InitInv, NEW i \in Inits, InitStep(i)
    PROVE  InitInv'
<1>1. CASE InitStarts(i)
  <2>1. made = {}
    <3>1. \A k \in 1 .. 6 : Steps[k] \notin made
      BY <1>1, StepsOrder DEF InitStarts, Exists, InitInv
    <3> QED
      BY <3>1, StepsOrder DEF InitInv, InitTypeOK
  <2>2. InitTypeOK'
    BY <1>1, StepsOrder DEF InitStarts, InitInv, InitTypeOK, InitUnderWay
  <2>3. InitUnderWay' = InitUnderWay \union {i}
    BY <1>1 DEF InitStarts, InitUnderWay, InitInv, InitTypeOK
  <2>4. ASSUME NEW a \in Inits \ overlapped', step'[a] # 0
        PROVE  a = i /\ InitUnderWay = {}
    BY <1>1, <2>4 DEF InitStarts, InitUnderWay, InitInv, InitTypeOK
  <2>5. ASSUME NEW a \in Inits, NEW j \in DOMAIN Steps, j < step'[a]
        PROVE  FALSE
    BY <1>1, <2>1, <2>5, StepsOrder DEF InitStarts, InitInv, InitTypeOK
  <2> QED
    BY <1>1, <2>1, <2>2, <2>3, <2>4, <2>5 DEF InitStarts, InitInv
<1>2. CASE InitMakes(i)
  <2>1. /\ step[i] \in 1 .. 6
        /\ made' = made \union {Steps[step[i]]}
        /\ step'[i] = IF step[i] = 6 THEN 0 ELSE step[i] + 1
        /\ \A a \in Inits \ {i} : step'[a] = step[a]
        /\ overlapped' \subseteq overlapped
        /\ overlapped \subseteq overlapped' \union {i}
        /\ i \in overlapped /\ i \notin overlapped' => step[i] = 6
    BY <1>2, StepsOrder DEF InitMakes, InitInv, InitTypeOK
  <2>2. InitTypeOK'
    BY <1>2, <2>1, StepsOrder DEF InitMakes, InitInv, InitTypeOK
  <2>3. ASSUME NEW k \in 1 .. 6, NEW j \in 1 .. k, Steps[k] \in made'
        PROVE  Steps[j] \in made'
    BY <2>1, <2>3, StepsOrder DEF InitInv
  <2>4. ASSUME NEW a \in Inits, NEW j \in 1 .. 6, j < step'[a]
        PROVE  Steps[j] \in made'
    BY <2>1, <2>4, StepsOrder DEF InitInv
  <2>5. ASSUME NEW a \in Inits \ overlapped', step'[a] # 0
        PROVE  /\ InitUnderWay' = {a}
               /\ \A j \in 1 .. 6 : j >= step'[a] => Steps[j] \notin made'
    <3>1. a \notin overlapped
      BY <2>1, <2>5
    <3>2. step[a] # 0
      BY <2>1, <2>5
    <3>3. InitUnderWay = {a} /\ a = i
      BY <2>1, <3>1, <3>2 DEF InitInv, InitUnderWay
    <3>4. InitUnderWay' = {a}
      BY <2>1, <2>5, <3>3 DEF InitUnderWay
    <3> QED
      BY <2>1, <2>5, <3>1, <3>2, <3>3, <3>4, StepsOrder DEF InitInv
  <2> QED
    BY <2>2, <2>3, <2>4, <2>5, StepsOrder DEF InitInv
<1>3. CASE InitStops(i)
  <2>1. /\ UNCHANGED made
        /\ step'[i] = 0
        /\ \A a \in Inits \ {i} : step'[a] = step[a]
        /\ overlapped' = overlapped \ {i}
    BY <1>3 DEF InitStops, InitInv, InitTypeOK
  <2>2. InitTypeOK'
    BY <1>3, StepsOrder DEF InitStops, InitInv, InitTypeOK
  <2>3. ASSUME NEW a \in Inits \ overlapped', step'[a] # 0
        PROVE  a # i /\ a \notin overlapped /\ step[a] # 0 /\ InitUnderWay' = {a}
    BY <1>3, <2>1, <2>3 DEF InitInv, InitUnderWay, InitStops
  <2>4. ASSUME NEW a \in Inits, NEW j \in DOMAIN Steps, j < step'[a]
        PROVE  Steps[j] \in made'
    BY <2>1, <2>4, StepsOrder DEF InitInv
  <2> QED
    BY <2>1, <2>2, <2>3, <2>4 DEF InitInv
<1> QED
  BY <1>1, <1>2, <1>3 DEF InitStep

\* Nothing but an init touches what inits make.
LEMMA OnlyInitsMake ==
    ASSUME [Next]_vars
    PROVE  (\E i \in Inits : InitStep(i)) \/ UNCHANGED initVars
  BY DEF Next, vars, Command, Start, ReadChunk, ReadRemovals, ReadAll, Publish,
       ListToClear, ClearFile, Cleared, Stop, Finish, StageChunk, StageRemovals, Unstage,
       Edit, OtherCommit

LEMMA AlwaysInitInv == Spec => []InitInv
<1>1. Init => InitInv
  BY InitInvHolds DEF Init
<1>2. InitInv /\ [Next]_vars => InitInv'
  <2> SUFFICES ASSUME InitInv, [Next]_vars
               PROVE  InitInv'
    OBVIOUS
  <2>1. CASE \E i \in Inits : InitStep(i)
    BY <2>1, InitInvStep
  <2>2. CASE UNCHANGED initVars
    BY <2>2 DEF initVars, InitInv, InitTypeOK, InitUnderWay
  <2> QED
    BY <2>1, <2>2, OnlyInitsMake
<1> QED
  BY <1>1, <1>2, PTL DEF Spec

\* open never accepts a repository that is only partly made.
THEOREM OpenedRepositoriesAreComplete == Spec => []OpenedIsComplete
<1>1. InitInv => OpenedIsComplete
  BY StepsOrder DEF InitInv, InitTypeOK, OpenedIsComplete, Opens
<1> QED
  BY <1>1, AlwaysInitInv, PTL

\* An init that runs alone overwrites nothing.
THEOREM LoneInitsOverwriteNothing == Spec => LoneInitOverwritesNothing
<1>1. ASSUME InitInv, NEW i \in Inits, InitMakes(i), Steps[step[i]] \in made
      PROVE  i \in overlapped
  <2>1. step[i] \in DOMAIN Steps
    BY <1>1, StepsOrder DEF InitMakes, InitInv, InitTypeOK
  <2> QED
    BY <1>1, <2>1, StepsOrder DEF InitMakes, InitInv
<1>2. InitInv =>
        [\A i \in Inits : InitMakes(i) /\ Steps[step[i]] \in made => i \in overlapped]_initVars
  BY <1>1
<1> QED
  BY <1>2, AlwaysInitInv, PTL DEF LoneInitOverwritesNothing
----
(* No staged request is lost and every patch is committed whole, for any    *)
(* number of commands, chunks, spellings of a coordinate, edits and commits *)
(* of other programs: the inductive invariant and its proof. It is stated   *)
(* for one undisputed chunk at a time.                                      *)

\* The chunk is both staged and removed.
Contested(x) == Mentions(Removals, x) /\ \E n \in Names : Mentions(n, x)

\* No command gets past a contested chunk: what it has not read yet will stop
\* it, and none is about to clear one side of the contradiction.
StoodOff(c, x) ==
    /\ pc[c] \notin {"commit", "clear"}
    /\ pc[c] = "clearing" => \A f \in todo[c] : ~Mentions(f, x)
    /\ pc[c] = "reading" =>
         \/ /\ patch[c][x] = Keep
            /\ \A f \in Files : Mentions(f, x) => f \in todo[c]
         \/ patch[c][x] \in Payloads /\ Removals \in todo[c]
         \/ /\ patch[c][x] = NoChunk
            /\ \A n \in Names : Mentions(n, x) => n \in todo[c]

\* What was last asked is in the world or staged, and nothing else is staged
\* beside it except the other side of a contradiction.
Kept(x) ==
    /\ \/ tip[x] = wanted[x]
       \/ \E f \in Files : Mentions(f, x) /\ Staged(f) = wanted[x]
    /\ Mentions(Removals, x) \/ \A n \in Names : Mentions(n, x) => staging[n] = wanted[x]
    /\ Mentions(Removals, x) => wanted[x] = NoChunk \/ Contested(x)
    /\ Contested(x) => \A c \in Clis : StoodOff(c, x)

\* A command has read the request or will, commits nothing else, and clears
\* the file only when the request is in the world.
Carried(c, x) ==
    /\ pc[c] \in {"reading", "commit"} =>
         patch[c][x] \in {Keep, wanted[x]} \/ Contested(x)
    /\ pc[c] = "reading" /\ patch[c][x] = Keep =>
         \/ tip[x] = wanted[x]
         \/ \E f \in todo[c] : Mentions(f, x) /\ Staged(f) = wanted[x]
    /\ pc[c] = "commit" /\ patch[c][x] = Keep => tip[x] = wanted[x]
    /\ pc[c] = "clear" => tip[x] = wanted[x]
    /\ pc[c] = "clearing" => \A f \in todo[c] : Mentions(f, x) => tip[x] = wanted[x]

Undisputed(x) == Kept(x) /\ \A c \in Clis : Carried(c, x)

\* A command that neither reads nor commits holds no patch.
PatchInHand == \A c \in Clis : pc[c] \notin {"reading", "commit"} => patch[c] = NoPatch

IInv == /\ TypeOK
        /\ PatchInHand
        /\ \A x \in Coords \ disputed : Undisputed(x)
----
(* Types.                                                                   *)

Patches == [Coords -> Payloads \union {NoChunk, Keep}]

LEMMA CliTypesInit == Init => TypeOK /\ PatchInHand
  BY InitInvHolds, CliAssumption DEF Init, InitInv, TypeOK, NoPatch, PatchInHand, Files

Typed == TypeOK /\ PatchInHand

\* What a command does.
LEMMA CliTypesCommand ==
    ASSUME Typed, NEW c \in Clis, Command(c)
    PROVE  Typed'
<1> USE DEF Typed, TypeOK, PatchInHand, Patches, Files, Goto, cliVars, history, initVars,
            InitTypeOK
<1>1. NoPatch \in Patches
  BY DEF NoPatch
<1>2. CASE Start(c)
  BY <1>2 DEF Start, Present
<1>3. ASSUME NEW n \in Names, ReadChunk(c, n)
      PROVE  Typed'
  <2>1. staging[n] \in Payloads /\ pc[c] = "reading" /\ n # Removals
    BY <1>3, CliAssumption DEF ReadChunk, Present
  <2>2. patch' \in [Clis -> Patches] /\ \A d \in Clis \ {c} : patch'[d] = patch[d]
    BY <1>3, <2>1 DEF ReadChunk, Mention
  <2> QED
    BY <1>3, <2>1, <2>2 DEF ReadChunk
<1>4. CASE ReadRemovals(c)
  <2>1. pc[c] = "reading"
    BY <1>4 DEF ReadRemovals
  <2>2. patch' \in [Clis -> Patches] /\ \A d \in Clis \ {c} : patch'[d] = patch[d]
    BY <1>4 DEF ReadRemovals, Mention
  <2> QED
    BY <1>4, <2>1, <2>2 DEF ReadRemovals
<1>5. CASE ReadAll(c)
  BY <1>5 DEF ReadAll
<1>6. CASE Publish(c)
  <2>1. tip' \in [Coords -> Payloads \union {NoChunk}]
    BY <1>6 DEF Publish, Applied
  <2> QED
    BY <1>1, <1>6, <2>1 DEF Publish
<1>7. CASE ListToClear(c)
  BY <1>7 DEF ListToClear, Present
<1>8. ASSUME NEW f \in Files, ClearFile(c, f)
      PROVE  Typed'
  BY <1>8, CliAssumption DEF ClearFile
<1>9. CASE Cleared(c) \/ Stop(c)
  BY <1>1, <1>9 DEF Cleared, Stop, Finish
<1> QED
  BY <1>2, <1>3, <1>4, <1>5, <1>6, <1>7, <1>8, <1>9 DEF Command

\* What everybody else does.
Others == \/ \E n \in Names, payload \in Payloads : StageChunk(n, payload)
          \/ \E R \in RemovalLists : StageRemovals(R)
          \/ \E f \in Files : Unstage(f)
          \/ \E x \in Coords, chunk \in Payloads \union {NoChunk} : OtherCommit(x, chunk)

LEMMA CliTypesOthers ==
    ASSUME Typed, Others
    PROVE  Typed'
<1> USE DEF Typed, TypeOK, PatchInHand, Files, cliVars, initVars, InitTypeOK
<1>1. ASSUME NEW n \in Names, NEW payload \in Payloads, StageChunk(n, payload)
      PROVE  Typed'
  <2>1. CoordOf[n] \in Coords
    BY CliAssumption
  <2> QED
    BY <1>1, <2>1, CliAssumption DEF StageChunk, Edit
<1>2. ASSUME NEW R \in RemovalLists, StageRemovals(R)
      PROVE  Typed'
  BY <1>2, CliAssumption DEF StageRemovals, Edit, RemovalLists
<1>3. ASSUME NEW f \in Files, Unstage(f)
      PROVE  Typed'
  BY <1>3, CliAssumption DEF Unstage, Edit
<1>4. ASSUME NEW x \in Coords, NEW chunk \in Payloads \union {NoChunk}, OtherCommit(x, chunk)
      PROVE  Typed'
  BY <1>4, CliAssumption DEF OtherCommit
<1> QED
  BY <1>1, <1>2, <1>3, <1>4 DEF Others

LEMMA CliTypesNext == Typed /\ InitInv /\ [Next]_vars => Typed'
<1> SUFFICES ASSUME Typed, InitInv, [Next]_vars PROVE Typed'
  OBVIOUS
<1>1. ASSUME NEW i \in Inits, InitStep(i), UNCHANGED <<staging, tip, cliVars, history>>
      PROVE  Typed'
  <2>1. InitTypeOK'
    BY <1>1, InitInvStep DEF InitInv
  <2> QED
    BY <1>1, <2>1 DEF Typed, TypeOK, PatchInHand, cliVars, history
<1>2. CASE UNCHANGED vars
  BY <1>2 DEF vars, initVars, cliVars, history, Typed, TypeOK, InitTypeOK, PatchInHand
<1> QED
  BY <1>1, <1>2, CliTypesCommand, CliTypesOthers DEF Next, Others

\* Every variable keeps its type.
THEOREM CliTypeCorrect == Spec => []TypeOK
<1>1. Spec => []Typed
  BY CliTypesInit, CliTypesNext, AlwaysInitInv, PTL DEF Spec, Typed
<1>2. Typed => TypeOK
  BY DEF Typed
<1> QED
  BY <1>1, <1>2, PTL
----
(* The commands. The chunk is undisputed before the step and after it.      *)

\* What a file mentions depends on the staging directory alone.
LEMMA SameMentions ==
    ASSUME UNCHANGED staging, NEW x
    PROVE  /\ \A f : Mentions(f, x)' <=> Mentions(f, x)
           /\ \A f : Staged(f)' = Staged(f)
           /\ Contested(x)' <=> Contested(x)
  BY DEF Mentions, Staged, Present, Contested

\* A step of c that changes neither the directory nor the world.
LEMMA OneCommand ==
    ASSUME NEW c \in Clis, NEW x \in Coords, Undisputed(x),
           UNCHANGED <<staging, tip, wanted>>,
           \A d \in Clis \ {c} : /\ pc'[d] = pc[d]
                                 /\ todo'[d] = todo[d]
                                 /\ patch'[d] = patch[d],
           Contested(x) => StoodOff(c, x)',
           Carried(c, x)'
    PROVE  Undisputed(x)'
<1>1. ASSUME NEW d \in Clis \ {c}
      PROVE  Carried(d, x)'
  BY <1>1, SameMentions DEF Undisputed, Carried
<1>2. ASSUME NEW d \in Clis \ {c}, Contested(x)
      PROVE  StoodOff(d, x)'
  BY <1>2, SameMentions DEF Undisputed, Kept, StoodOff
<1>3. Kept(x)'
  BY <1>2, SameMentions DEF Undisputed, Kept
<1> QED
  BY <1>1, <1>3 DEF Undisputed

LEMMA StartKeeps ==
    ASSUME Typed, NEW c \in Clis, NEW x \in Coords, Undisputed(x), Start(c)
    PROVE  Undisputed(x)'
<1>1. /\ UNCHANGED <<staging, tip, wanted>>
      /\ \A d \in Clis \ {c} : pc'[d] = pc[d] /\ todo'[d] = todo[d] /\ patch'[d] = patch[d]
      /\ pc'[c] = "reading" /\ todo'[c] = Present
  BY DEF Start, Goto, history, Typed, TypeOK
<1>2. patch'[c][x] = Keep
  BY DEF Start, Typed, TypeOK, PatchInHand, NoPatch
<1>3. \A f \in Files : Mentions(f, x)' => f \in todo'[c]
  BY <1>1, SameMentions DEF Mentions
<1>4. StoodOff(c, x)'
  BY <1>1, <1>2, <1>3 DEF StoodOff
<1>5. Carried(c, x)'
  BY <1>1, <1>2, <1>3, SameMentions DEF Carried, Undisputed, Kept
<1> QED
  BY <1>1, <1>4, <1>5, OneCommand

LEMMA ReadChunkKeeps ==
    ASSUME Typed, NEW c \in Clis, NEW x \in Coords, Undisputed(x),
           NEW n \in Names, ReadChunk(c, n)
    PROVE  Undisputed(x)'
<1>1. /\ UNCHANGED <<staging, tip, wanted>>
      /\ \A d \in Clis \ {c} : pc'[d] = pc[d] /\ todo'[d] = todo[d] /\ patch'[d] = patch[d]
      /\ pc[c] = "reading" /\ pc'[c] = "reading"
      /\ todo'[c] = todo[c] \ {n}
  BY DEF ReadChunk, Mention, history, Typed, TypeOK
<1>2. /\ n # Removals /\ n \in Present
      /\ staging[n] \in Payloads
      /\ patch[c][CoordOf[n]] # NoChunk
      /\ patch'[c][x] = IF x = CoordOf[n] THEN staging[n] ELSE patch[c][x]
  BY CliAssumption DEF ReadChunk, Mention, Present, Typed, TypeOK
<1>3. CASE x = CoordOf[n]
  <2>1. Mentions(n, x)
    BY <1>2, <1>3 DEF Mentions
  <2>2. patch'[c][x] \in Payloads /\ patch'[c][x] # Keep
    BY <1>2, <1>3, CliAssumption
  <2>3. Contested(x) => Removals \in todo'[c]
    BY <1>1, <1>2, <1>3 DEF Contested, Undisputed, Kept, StoodOff, Files
  <2>4. ~Contested(x) => staging[n] = wanted[x]
    BY <2>1 DEF Contested, Undisputed, Kept
  <2>5. Contested(x) => StoodOff(c, x)'
    BY <1>1, <2>2, <2>3 DEF StoodOff
  <2>6. Carried(c, x)'
    BY <1>1, <1>2, <1>3, <2>2, <2>4, SameMentions DEF Carried
  <2> QED
    BY <1>1, <2>5, <2>6, OneCommand
<1>4. CASE x # CoordOf[n]
  <2>1. ~Mentions(n, x) /\ patch'[c][x] = patch[c][x]
    BY <1>2, <1>4 DEF Mentions
  <2>2. Contested(x) => StoodOff(c, x)'
    BY <1>1, <1>2, <2>1, SameMentions DEF StoodOff, Undisputed, Kept
  <2>3. Carried(c, x)'
    BY <1>1, <2>1, SameMentions DEF Carried, Undisputed
  <2> QED
    BY <1>1, <2>2, <2>3, OneCommand
<1> QED
  BY <1>3, <1>4

LEMMA ReadRemovalsKeeps ==
    ASSUME Typed, NEW c \in Clis, NEW x \in Coords, Undisputed(x), ReadRemovals(c)
    PROVE  Undisputed(x)'
<1>1. /\ UNCHANGED <<staging, tip, wanted>>
      /\ \A d \in Clis \ {c} : pc'[d] = pc[d] /\ todo'[d] = todo[d] /\ patch'[d] = patch[d]
      /\ pc[c] = "reading" /\ pc'[c] = "reading"
      /\ todo'[c] = todo[c] \ {Removals}
  BY DEF ReadRemovals, Mention, history, Typed, TypeOK
<1>2. /\ Removals \in Present
      /\ x \in staging[Removals] => patch[c][x] \notin Payloads
      /\ patch'[c][x] = IF x \in staging[Removals] THEN NoChunk ELSE patch[c][x]
      /\ Removals \notin Names /\ NoChunk # Keep
  BY CliAssumption DEF ReadRemovals, Mention, Typed, TypeOK
<1>3. CASE x \in staging[Removals]
  <2>1. Mentions(Removals, x)
    BY <1>2, <1>3 DEF Mentions
  <2>2. Contested(x) => \A n \in Names : Mentions(n, x) => n \in todo'[c]
    BY <1>1, <1>2, <1>3 DEF Undisputed, Kept, StoodOff, Files
  <2>3. ~Contested(x) => wanted[x] = NoChunk
    BY <2>1 DEF Undisputed, Kept
  <2>4. Contested(x) => StoodOff(c, x)'
    BY <1>1, <1>2, <1>3, <2>2, SameMentions DEF StoodOff
  <2>5. Carried(c, x)'
    BY <1>1, <1>2, <1>3, <2>3, SameMentions DEF Carried
  <2> QED
    BY <1>1, <2>4, <2>5, OneCommand
<1>4. CASE x \notin staging[Removals]
  <2>1. ~Mentions(Removals, x) /\ patch'[c][x] = patch[c][x]
    BY <1>2, <1>4 DEF Mentions
  <2>2. ~Contested(x)
    BY <2>1 DEF Contested
  <2>3. Carried(c, x)'
    BY <1>1, <2>1, SameMentions DEF Carried, Undisputed
  <2> QED
    BY <1>1, <2>2, <2>3, OneCommand
<1> QED
  BY <1>3, <1>4

LEMMA ReadAllKeeps ==
    ASSUME Typed, NEW c \in Clis, NEW x \in Coords, Undisputed(x), ReadAll(c)
    PROVE  Undisputed(x)'
<1>1. /\ UNCHANGED <<staging, tip, wanted>>
      /\ \A d \in Clis \ {c} : pc'[d] = pc[d] /\ todo'[d] = todo[d] /\ patch'[d] = patch[d]
      /\ pc[c] = "reading" /\ pc'[c] \in {"idle", "commit"}
      /\ todo[c] = {} /\ patch'[c] = patch[c]
  BY DEF ReadAll, Goto, history, Typed, TypeOK
<1>2. ~Contested(x)
  BY <1>1 DEF Contested, Undisputed, Kept, StoodOff, Files
<1>3. Carried(c, x)'
  BY <1>1, <1>2, SameMentions DEF Carried, Undisputed
<1> QED
  BY <1>1, <1>2, <1>3, OneCommand

LEMMA ListToClearKeeps ==
    ASSUME Typed, NEW c \in Clis, NEW x \in Coords, Undisputed(x), ListToClear(c)
    PROVE  Undisputed(x)'
<1>1. /\ UNCHANGED <<staging, tip, wanted>>
      /\ \A d \in Clis \ {c} : pc'[d] = pc[d] /\ todo'[d] = todo[d] /\ patch'[d] = patch[d]
      /\ pc[c] = "clear" /\ pc'[c] = "clearing"
  BY DEF ListToClear, Goto, history, Typed, TypeOK
<1>2. ~Contested(x) /\ tip[x] = wanted[x]
  BY <1>1 DEF Undisputed, Kept, StoodOff, Carried
<1>3. Carried(c, x)'
  BY <1>1, <1>2 DEF Carried
<1> QED
  BY <1>1, <1>2, <1>3, OneCommand

LEMMA FinishKeeps ==
    ASSUME Typed, NEW c \in Clis, NEW x \in Coords, Undisputed(x), Finish(c)
    PROVE  Undisputed(x)'
<1>1. /\ UNCHANGED <<staging, tip, wanted>>
      /\ \A d \in Clis \ {c} : pc'[d] = pc[d] /\ todo'[d] = todo[d] /\ patch'[d] = patch[d]
      /\ pc'[c] = "idle"
  BY DEF Finish, Goto, history, Typed, TypeOK
<1>2. StoodOff(c, x)' /\ Carried(c, x)'
  BY <1>1 DEF StoodOff, Carried
<1> QED
  BY <1>1, <1>2, OneCommand

\* Everything undisputed is in the world a command publishes.
LEMMA PublishCarries ==
    ASSUME Typed, NEW c \in Clis, NEW x \in Coords, Undisputed(x), Publish(c)
    PROVE  ~Contested(x) /\ tip'[x] = wanted[x]
<1>1. ~Contested(x) /\ patch[c][x] \in {Keep, wanted[x]}
  BY DEF Publish, Undisputed, Kept, StoodOff, Carried
<1>2. patch[c][x] = Keep => tip[x] = wanted[x]
  BY DEF Publish, Undisputed, Carried
<1> QED
  BY <1>1, <1>2 DEF Publish, Applied

LEMMA PublishKeeps ==
    ASSUME Typed, NEW c \in Clis, NEW x \in Coords, Undisputed(x), Publish(c)
    PROVE  Undisputed(x)'
<1>1. /\ UNCHANGED <<staging, todo, wanted>>
      /\ \A d \in Clis \ {c} : pc'[d] = pc[d] /\ patch'[d] = patch[d]
      /\ pc'[c] = "clear"
  BY DEF Publish, Goto, history, Typed, TypeOK
<1>2. ~Contested(x) /\ ~Contested(x)' /\ tip'[x] = wanted'[x]
  BY <1>1, PublishCarries, SameMentions
<1>3. Kept(x)'
  BY <1>1, <1>2, SameMentions DEF Undisputed, Kept
<1>4. ASSUME NEW d \in Clis
      PROVE  Carried(d, x)'
  BY <1>1, <1>2, <1>4, SameMentions DEF Undisputed, Carried
<1> QED
  BY <1>3, <1>4 DEF Undisputed

LEMMA ClearFileKeeps ==
    ASSUME Typed, NEW c \in Clis, NEW x \in Coords, Undisputed(x),
           NEW f \in Files, ClearFile(c, f)
    PROVE  Undisputed(x)'
<1>1. /\ UNCHANGED <<tip, wanted, pc, patch>>
      /\ \A d \in Clis : /\ todo'[d] \subseteq todo[d] /\ todo[d] \subseteq Files
                         /\ todo[d] \ {f} \subseteq todo'[d]
      /\ pc[c] = "clearing" /\ f \in todo[c]
  BY DEF ClearFile, history, Typed, TypeOK
<1>2. ASSUME NEW g \in Files
      PROVE  /\ Mentions(g, x)' <=> g # f /\ Mentions(g, x)
             /\ Mentions(g, x)' => staging'[g] = staging[g] /\ Staged(g)' = Staged(g)
  BY <1>2 DEF ClearFile, Mentions, Staged, Present, Typed, TypeOK
<1>3. CASE Mentions(f, x)
  <2>1. ~Contested(x) /\ tip[x] = wanted[x]
    BY <1>1, <1>3 DEF Undisputed, Kept, StoodOff, Carried
  <2>2. ~Contested(x)'
    BY <1>2, <2>1 DEF Contested, Files
  <2>3. Kept(x)'
    BY <1>1, <1>2, <1>3, <2>1, <2>2 DEF Undisputed, Kept, Contested, Files
  <2>4. ASSUME NEW d \in Clis
        PROVE  Carried(d, x)'
    BY <1>1, <2>1, <2>4 DEF Undisputed, Carried
  <2> QED
    BY <2>3, <2>4 DEF Undisputed
<1>4. CASE ~Mentions(f, x)
  <2>1. \A g \in Files : /\ Mentions(g, x)' <=> Mentions(g, x)
                         /\ Mentions(g, x) => /\ g # f
                                              /\ staging'[g] = staging[g]
                                              /\ Staged(g)' = Staged(g)
    BY <1>2, <1>4
  <2>2. Contested(x)' <=> Contested(x)
    BY <2>1 DEF Contested, Files
  <2>3. ASSUME NEW d \in Clis, Contested(x)
        PROVE  StoodOff(d, x)'
    <3>1. StoodOff(d, x)
      BY <2>3 DEF Undisputed, Kept
    <3>2. \A g \in Files : Mentions(g, x) => (g \in todo'[d] <=> g \in todo[d])
      BY <1>1, <2>1
    <3>3. Removals \in Files /\ Mentions(Removals, x) /\ Names \subseteq Files
      BY <2>3 DEF Contested, Files
    <3> QED
      BY <1>1, <2>1, <3>1, <3>2, <3>3 DEF StoodOff
  <2>4. Kept(x)'
    BY <1>1, <2>1, <2>2, <2>3 DEF Undisputed, Kept, Files
  <2>5. ASSUME NEW d \in Clis
        PROVE  Carried(d, x)'
    BY <1>1, <2>1, <2>2, <2>5 DEF Undisputed, Carried
  <2> QED
    BY <2>4, <2>5 DEF Undisputed
<1> QED
  BY <1>3, <1>4
----
(* The edits of the directory and the commits of other programs.            *)

\* A step that is about other chunks.
LEMMA Unaffected ==
    ASSUME NEW x \in Coords, Undisputed(x), Typed,
           UNCHANGED <<tip[x], wanted[x], cliVars>>,
           \A f \in Files : /\ Mentions(f, x)' <=> Mentions(f, x)
                            /\ Mentions(f, x) => UNCHANGED staging[f]
    PROVE  Undisputed(x)'
<1>1. /\ UNCHANGED <<pc, todo, patch>>
      /\ \A f \in Files : Mentions(f, x) => Staged(f)' = Staged(f)
      /\ Contested(x)' <=> Contested(x)
      /\ \A c \in Clis : todo[c] \subseteq Files
      /\ Files = Names \union {Removals}
  BY DEF cliVars, Staged, Contested, Files, Typed, TypeOK
<1>2. ASSUME NEW c \in Clis, StoodOff(c, x)
      PROVE  StoodOff(c, x)'
  BY <1>1, <1>2 DEF StoodOff
<1>3. ASSUME NEW c \in Clis
      PROVE  Carried(c, x)'
  BY <1>1, <1>3 DEF Undisputed, Carried
<1>4. Kept(x)'
  BY <1>1, <1>2 DEF Undisputed, Kept
<1> QED
  BY <1>3, <1>4 DEF Undisputed

\* A request made when every command either reads all the files that mention
\* the chunk later, or clears none of them.
LEMMA Requested ==
    ASSUME NEW x \in Coords, NEW f \in Files,
           UNCHANGED cliVars,
           Mentions(f, x)', Staged(f)' = wanted'[x],
           \A n \in Names : Mentions(n, x)' => n = f \/ f = Removals,
           f = Removals => wanted'[x] = NoChunk,
           f # Removals => staging'[f] = wanted'[x],
           \A g \in Files : Mentions(g, x)' => ~AtRisk(g),
           \A c \in Clis : patch[c][x] = Keep,
           \A c \in Clis : todo[c] \subseteq Files
    PROVE  Undisputed(x)'
<1>1. UNCHANGED <<pc, todo, patch>>
  BY DEF cliVars
<1>2. ASSUME NEW c \in Clis
      PROVE  /\ pc[c] = "reading" => \A g \in Files : Mentions(g, x)' => g \in todo[c]
             /\ pc[c] \notin {"commit", "clear"}
             /\ pc[c] = "clearing" => \A g \in todo[c] : ~Mentions(g, x)'
  BY <1>2 DEF AtRisk
<1>3. \A c \in Clis : StoodOff(c, x)' /\ Carried(c, x)'
  BY <1>1, <1>2 DEF StoodOff, Carried
<1>4. Kept(x)'
  <2>1. CASE f = Removals
    BY <1>3, <2>1 DEF Kept
  <2>2. CASE f # Removals
    BY <1>3, <2>2 DEF Kept, Contested, Files
  <2> QED
    BY <2>1, <2>2
<1> QED
  BY <1>3, <1>4 DEF Undisputed

LEMMA StageChunkKeeps ==
    ASSUME IInv, NEW n \in Names, NEW payload \in Payloads, StageChunk(n, payload),
           NEW x \in Coords \ disputed'
    PROVE  Undisputed(x)'
<1> USE DEF IInv
<1>1. /\ n # Removals /\ n \in Files /\ Removals \in Files /\ CoordOf[n] \in Coords
      /\ payload # NoFile
      /\ UNCHANGED <<tip, cliVars>>
  BY CliAssumption DEF StageChunk, Edit, Files
<1>2. /\ staging'[n] = payload
      /\ \A f \in Files \ {n} : staging'[f] = staging[f]
  BY <1>1 DEF StageChunk, TypeOK
<1>3. \A f \in Files \ {n} : Mentions(f, x)' <=> Mentions(f, x)
  BY <1>2 DEF Mentions, Present
<1>4. Mentions(n, x)' <=> CoordOf[n] = x
  BY <1>1, <1>2 DEF Mentions, Present
<1>5. CASE x = CoordOf[n]
  <2>1. /\ wanted'[x] = payload
        /\ ~AtRisk(n)
        /\ \A m \in Names \ {n} : ~Mentions(m, x)
        /\ Mentions(Removals, x) => ~AtRisk(Removals)
        /\ ~Read(x)
    BY <1>5 DEF StageChunk, TypeOK
  <2>2. \A g \in Files : Mentions(g, x)' => ~AtRisk(g)
    BY <1>3, <2>1 DEF Files
  <2>3. \A m \in Names : Mentions(m, x)' => m = n
    BY <1>1, <1>3, <2>1 DEF Files
  <2>4. Mentions(n, x)' /\ Staged(n)' = wanted'[x]
    BY <1>1, <1>2, <1>4, <1>5, <2>1 DEF Staged
  <2>5. \A c \in Clis : patch[c][x] = Keep /\ todo[c] \subseteq Files
    BY <2>1 DEF Read, TypeOK
  <2> QED
    BY <1>1, <1>2, <2>1, <2>2, <2>3, <2>4, <2>5, Requested
<1>6. CASE x # CoordOf[n]
  <2>1. x \notin disputed /\ wanted'[x] = wanted[x]
    BY <1>6 DEF StageChunk, TypeOK
  <2>2. ~Mentions(n, x)
    BY <1>1, <1>6 DEF Mentions
  <2>3. \A f \in Files : /\ Mentions(f, x)' <=> Mentions(f, x)
                         /\ Mentions(f, x) => staging'[f] = staging[f]
    BY <1>2, <1>3, <1>4, <1>6, <2>2
  <2> QED
    BY <1>1, <2>1, <2>3, Unaffected DEF Typed
<1> QED
  BY <1>5, <1>6

LEMMA StageRemovalsKeeps ==
    ASSUME IInv, NEW R \in RemovalLists, StageRemovals(R), NEW x \in Coords \ disputed'
    PROVE  Undisputed(x)'
<1> USE DEF IInv
<1>1. /\ Removals \in Files /\ Removals \notin Names /\ Names \subseteq Files
      /\ R # NoFile
      /\ UNCHANGED <<tip, cliVars>>
  BY CliAssumption DEF StageRemovals, Edit, Files, RemovalLists
<1>2. /\ staging'[Removals] = R
      /\ \A f \in Files \ {Removals} : staging'[f] = staging[f]
      /\ wanted'[x] = IF x \in R THEN NoChunk ELSE wanted[x]
  BY <1>1 DEF StageRemovals, TypeOK
<1>3. \A f \in Files \ {Removals} : Mentions(f, x)' <=> Mentions(f, x)
  BY <1>2 DEF Mentions, Present
<1>4. Mentions(Removals, x)' <=> x \in R
  BY <1>1, <1>2 DEF Mentions, Present
<1>5. CASE x \in R
  <2>1. /\ ~AtRisk(Removals)
        /\ \A n \in Names : Mentions(n, x) => ~AtRisk(n)
        /\ ~Read(x)
    BY <1>5 DEF StageRemovals
  <2>2. \A g \in Files : Mentions(g, x)' => ~AtRisk(g)
    BY <1>3, <2>1 DEF Files
  <2>3. Mentions(Removals, x)' /\ Staged(Removals)' = wanted'[x] /\ wanted'[x] = NoChunk
    BY <1>2, <1>4, <1>5 DEF Staged
  <2>4. \A c \in Clis : patch[c][x] = Keep /\ todo[c] \subseteq Files
    BY <2>1 DEF Read, TypeOK
  <2> QED
    BY <1>1, <2>2, <2>3, <2>4, Requested
<1>6. CASE x \notin R
  <2>1. x \notin disputed /\ ~Mentions(Removals, x) /\ wanted'[x] = wanted[x]
    BY <1>2, <1>6 DEF StageRemovals
  <2>2. \A f \in Files : /\ Mentions(f, x)' <=> Mentions(f, x)
                         /\ Mentions(f, x) => staging'[f] = staging[f]
    BY <1>2, <1>3, <1>4, <1>6, <2>1
  <2> QED
    BY <1>1, <2>1, <2>2, Unaffected DEF Typed
<1> QED
  BY <1>5, <1>6

LEMMA UnstageKeeps ==
    ASSUME IInv, NEW f \in Files, Unstage(f), NEW x \in Coords \ disputed'
    PROVE  Undisputed(x)'
<1>1. /\ x \notin disputed /\ ~Mentions(f, x)
      /\ UNCHANGED <<tip, wanted, cliVars>>
      /\ staging'[f] = NoFile
      /\ \A g \in Files \ {f} : staging'[g] = staging[g]
  BY DEF Unstage, Edit, IInv, TypeOK
<1>2. \A g \in Files : /\ Mentions(g, x)' <=> Mentions(g, x)
                       /\ Mentions(g, x) => staging'[g] = staging[g]
  BY <1>1 DEF Mentions, Present
<1> QED
  BY <1>1, <1>2, Unaffected DEF IInv, Typed

LEMMA OtherCommitKeeps ==
    ASSUME IInv, NEW y \in Coords, NEW chunk \in Payloads \union {NoChunk},
           OtherCommit(y, chunk), NEW x \in Coords \ disputed'
    PROVE  Undisputed(x)'
<1> USE DEF IInv
<1>1. UNCHANGED <<staging, cliVars>>
  BY DEF OtherCommit
<1>2. CASE x = y
  <2>1. tip'[x] = wanted'[x] /\ ~Read(x) /\ \A f \in Files : ~Mentions(f, x)'
    BY <1>1, <1>2, SameMentions DEF OtherCommit, TypeOK
  <2>2. ~Contested(x)' /\ Kept(x)'
    BY <2>1 DEF Contested, Kept, Files
  <2>3. ASSUME NEW c \in Clis
        PROVE  Carried(c, x)'
    BY <1>1, <2>1, <2>3 DEF Carried, Read, cliVars
  <2> QED
    BY <2>2, <2>3 DEF Undisputed
<1>3. CASE x # y
  <2>1. x \notin disputed /\ tip'[x] = tip[x] /\ wanted'[x] = wanted[x]
    BY <1>3 DEF OtherCommit, TypeOK
  <2> QED
    BY <1>1, <2>1, SameMentions, Unaffected DEF Typed
<1> QED
  BY <1>2, <1>3
----
(* The invariant and the theorems.                                          *)

LEMMA CommandKeeps ==
    ASSUME IInv, NEW c \in Clis, Command(c), NEW x \in Coords \ disputed'
    PROVE  Undisputed(x)'
<1>1. UNCHANGED disputed
  BY DEF Command, Start, ReadChunk, ReadRemovals, ReadAll, Publish, ListToClear,
         ClearFile, Cleared, Stop, Finish, history
<1>2. Typed /\ Undisputed(x)
  BY <1>1 DEF IInv, Typed
<1> QED
  BY <1>2, StartKeeps, ReadChunkKeeps, ReadRemovalsKeeps, ReadAllKeeps, PublishKeeps,
     ListToClearKeeps, ClearFileKeeps, FinishKeeps DEF Command, Cleared, Stop

LEMMA IInvInit == Init => IInv
<1> SUFFICES ASSUME Init
             PROVE  IInv
  OBVIOUS
<1>1. \A f \in Files, x \in Coords : ~Mentions(f, x)
  BY DEF Init, Mentions, Present
<1>2. \A x \in Coords : Undisputed(x)
  BY <1>1 DEF Init, Undisputed, Kept, Carried, Contested, Files
<1> QED
  BY <1>2, CliTypesInit DEF IInv

LEMMA IInvNext == IInv /\ InitInv /\ [Next]_vars => IInv'
<1> SUFFICES ASSUME IInv, InitInv, [Next]_vars
             PROVE  IInv'
  OBVIOUS
<1>1. (TypeOK /\ PatchInHand)'
  BY CliTypesNext DEF IInv, Typed
<1>2. ASSUME NEW x \in Coords \ disputed'
      PROVE  Undisputed(x)'
  <2>1. CASE UNCHANGED <<staging, tip, cliVars, history>>
    BY <1>2, <2>1, SameMentions, Unaffected DEF IInv, Typed, history
  <2> QED
    BY <1>2, <2>1, CommandKeeps, StageChunkKeeps, StageRemovalsKeeps, UnstageKeeps,
       OtherCommitKeeps DEF Next, vars
<1> QED
  BY <1>1, <1>2 DEF IInv

LEMMA AlwaysIInv == Spec => []IInv
  BY IInvInit, IInvNext, AlwaysInitInv, PTL DEF Spec

\* What was last asked of a chunk is in the world or still staged, whatever
\* crashes, errors, other commands and other programs come between.
THEOREM NoStagedRequestIsLost == Spec => []NoRequestIsLost
<1>1. IInv => NoRequestIsLost
  BY DEF IInv, Undisputed, Kept, NoRequestIsLost
<1> QED
  BY <1>1, AlwaysIInv, PTL

\* A command that publishes puts everything that was asked for in the world.
THEOREM PatchesAreWhole == Spec => PatchIsWhole
<1>1. IInv => [\A c \in Clis : Publish(c) =>
                  \A x \in Coords \ disputed : tip'[x] = wanted[x]]_vars
  BY PublishCarries DEF IInv, Typed
<1> QED
  BY <1>1, AlwaysIInv, PTL DEF PatchIsWhole
====
