---- MODULE LooseStoreProofs ----
(* Theorems about module LooseStore, for any objects, threads, processes,   *)
(* process ids and faults. The inductive invariant says what a temporary    *)
(* name is made of, and that only its writer touches the file.              *)
EXTENDS LooseStore, TLAPS

\* What a writer in write knows, and what its temporary name says.
Owned(w) ==
    /\ pc[w] # "idle" => target[w] \in Hashes
    /\ pc[w] \in HasName => /\ name[w] \in Name
                            /\ name[w].pid = pid[ProcOf[w]]
                            /\ name[w].sequence < sequence[ProcOf[w]]

IInv == /\ TypeOK
        /\ DistinctPids(pid)
        /\ \A w \in Writers : Owned(w)
        /\ TempNamesUnique
        /\ TempFileIsMine

LEMMA IInvInit == Init => IInv
  BY StoreAssumption DEF Init, IInv, TypeOK, PC, HasName, Owned, TempNamesUnique,
       TempFileIsMine, NoName, Name, DistinctPids

\* A step of one writer keeps the types.
LEMMA TypeOfWrite ==
    ASSUME IInv, NEW w \in Writers, Write(w)
    PROVE  TypeOK'
<1> USE StoreAssumption DEF IInv, TypeOK, Owned, PC, HasName, Goto, Forget, dir, procs
<1>1. ASSUME NEW h \in Hashes, Call(w, h) PROVE TypeOK'
  BY <1>1 DEF Call
<1>2. CASE FindExisting(w) \/ Verify(w) \/ VerifyFails(w)
  BY <1>2 DEF FindExisting, Verify, VerifyFails
<1>3. CASE TakeName(w)
  <2>1. TakenBy(w) \in Name
    BY <1>3 DEF TakeName, TakenBy, Name
  <2>2. sequence[ProcOf[w]] + 1 \in 0 .. MaxSequence
    BY <1>3 DEF TakeName
  <2> QED
    BY <1>3, <2>1, <2>2 DEF TakeName
<1>4. CASE CreateTemp(w)
  BY <1>4 DEF CreateTemp
<1>5. CASE CreateFails(w)
  BY <1>5 DEF CreateFails
<1>6. CASE WriteAll(w)
  BY <1>6 DEF WriteAll, Named
<1>7. CASE Rename(w)
  BY <1>7 DEF Rename, Named
<1>8. CASE PublishFails(w) \/ GiveUp(w)
  BY <1>8 DEF PublishFails, GiveUp
<1>9. CASE Undo(w)
  BY <1>9 DEF Undo, Named
<1>10. CASE Return(w)
  BY <1>10 DEF Return
<1> QED
  BY <1>1, <1>2, <1>3, <1>4, <1>5, <1>6, <1>7, <1>8, <1>9, <1>10 DEF Write

\* A new name is new: the writers of the same process took smaller numbers,
\* and other processes have other ids.
LEMMA NewNameIsNew ==
    ASSUME IInv, NEW w \in Writers, NEW v \in Writers, pc[v] \in HasName
    PROVE  name[v] # TakenBy(w)
<1>1. CASE ProcOf[v] = ProcOf[w]
  <2>1. name[v].sequence # sequence[ProcOf[w]]
    BY <1>1, StoreAssumption DEF IInv, Owned, Name, TypeOK
  <2> QED
    BY <2>1 DEF TakenBy
<1>2. CASE ProcOf[v] # ProcOf[w]
  <2>1. name[v].pid # pid[ProcOf[w]]
    BY <1>2, StoreAssumption DEF IInv, Owned, DistinctPids
  <2> QED
    BY <2>1 DEF TakenBy
<1> QED
  BY <1>1, <1>2

LEMMA ProcTyped ==
    ASSUME IInv, NEW w \in Writers
    PROVE  /\ ProcOf[w] \in Procs
           /\ pid[ProcOf[w]] \in Pids
           /\ sequence[ProcOf[w]] \in Nat
<1>1. ProcOf[w] \in Procs
  BY StoreAssumption
<1>2. MaxSequence \in Nat
  BY StoreAssumption
<1> QED
  BY <1>1, <1>2 DEF IInv, TypeOK

LEMMA NamesOfWrite ==
    ASSUME IInv, NEW w \in Writers, Write(w)
    PROVE  (\A v \in Writers : Owned(v))' /\ TempNamesUnique'
<1> USE DEF PC, HasName, Goto, Forget, dir, procs
<1>1. CASE TakeName(w)
  <2>1. /\ pc' = [pc EXCEPT ![w] = "create"]
        /\ name' = [name EXCEPT ![w] = TakenBy(w)]
        /\ sequence' = [sequence EXCEPT ![ProcOf[w]] = @ + 1]
        /\ pc[w] = "exists"
        /\ UNCHANGED <<pid, target>>
    BY <1>1 DEF TakeName
  <2>2. /\ TakenBy(w) \in Name
        /\ TakenBy(w).pid = pid[ProcOf[w]]
        /\ TakenBy(w).sequence = sequence[ProcOf[w]]
    <3>1. /\ pid[ProcOf[w]] \in Pids
          /\ sequence[ProcOf[w]] \in Nat
          /\ target[w] \in Hashes
      BY <2>1, ProcTyped DEF IInv, Owned
    <3> QED
      BY <3>1 DEF TakenBy, Name
  <2>3. ASSUME NEW v \in Writers
        PROVE  Owned(v)'
    <3>1. /\ sequence[ProcOf[v]] \in Nat
          /\ sequence'[ProcOf[v]] \in {sequence[ProcOf[v]], sequence[ProcOf[v]] + 1}
      BY <2>1, ProcTyped DEF IInv, TypeOK
    <3>2. CASE v = w
      <4>1. /\ target'[w] \in Hashes
            /\ name'[w] = TakenBy(w)
            /\ sequence'[ProcOf[w]] = sequence[ProcOf[w]] + 1
            /\ sequence[ProcOf[w]] \in Nat
        BY <2>1, ProcTyped DEF IInv, TypeOK, Owned
      <4> QED
        BY <2>1, <2>2, <3>2, <4>1 DEF Owned
    <3>3. CASE v # w
      <4>1. pc'[v] = pc[v] /\ name'[v] = name[v] /\ target'[v] = target[v]
        BY <2>1, <3>3 DEF IInv, TypeOK
      <4>2. pc[v] \in HasName => name[v].sequence < sequence'[ProcOf[v]]
        BY <2>1, <3>1, StoreAssumption DEF IInv, TypeOK, Owned, Name
      <4> QED
        BY <2>1, <4>1, <4>2 DEF IInv, Owned
    <3> QED
      BY <3>2, <3>3
  <2>4. TempNamesUnique'
    BY <2>1, NewNameIsNew DEF TempNamesUnique, IInv, TypeOK
  <2> QED
    BY <2>3, <2>4
<1>2. CASE ~TakeName(w)
  <2>1. /\ UNCHANGED <<pid, sequence>>
        /\ \A v \in Writers \ {w} : pc'[v] = pc[v] /\ name'[v] = name[v]
                                    /\ target'[v] = target[v]
    BY <1>2 DEF Write, Call, FindExisting, Verify, VerifyFails, CreateTemp, CreateFails,
         WriteAll, Rename, PublishFails, Undo, GiveUp, Return, IInv, TypeOK
  <2>2. pc'[w] \in HasName => pc[w] \in HasName /\ name'[w] = name[w]
    BY <1>2 DEF Write, Call, FindExisting, Verify, VerifyFails, CreateTemp, CreateFails,
         WriteAll, Rename, PublishFails, Undo, GiveUp, Return, IInv, TypeOK
  <2>3. pc'[w] # "idle" => target'[w] \in Hashes
    BY <1>2 DEF Write, Call, FindExisting, Verify, VerifyFails, CreateTemp, CreateFails,
         WriteAll, Rename, PublishFails, Undo, GiveUp, Return, IInv, TypeOK, Owned
  <2>4. ASSUME NEW v \in Writers
        PROVE  Owned(v)'
    <3>1. CASE v = w
      BY <2>1, <2>2, <2>3, <3>1 DEF IInv, Owned
    <3>2. CASE v # w
      BY <2>1, <3>2 DEF IInv, Owned
    <3> QED
      BY <3>1, <3>2
  <2>5. TempNamesUnique'
    BY <2>1, <2>2 DEF TempNamesUnique, IInv
  <2> QED
    BY <2>4, <2>5
<1> QED
  BY <1>1, <1>2

\* Whatever w does to its own temporary file, it leaves the others alone.
LEMMA FilesOfOthers ==
    ASSUME IInv, NEW w \in Writers, Write(w),
           NEW v \in Writers, v # w, pc[v] \in HasName
    PROVE  Named(name[v])' = Named(name[v])
<1>1. pc[w] \in HasName => name[w] # name[v]
  BY DEF IInv, TempNamesUnique
<1>2. \/ UNCHANGED temps
      \/ /\ pc[w] \in HasName
         /\ \/ temps' = temps \ Named(name[w])
            \/ temps' = temps \union {<<name[w], "partial">>}
            \/ temps' = (temps \ Named(name[w])) \union {<<name[w], "whole">>}
  BY DEF HasName, Write, Call, FindExisting, Verify, VerifyFails, TakeName, CreateTemp,
       CreateFails, WriteAll, Rename, PublishFails, Undo, GiveUp, Return, dir
<1>3. name'[v] = name[v]
  BY DEF Write, Call, FindExisting, Verify, VerifyFails, TakeName, CreateTemp,
       CreateFails, WriteAll, Rename, PublishFails, Undo, GiveUp, Return, Forget, IInv, TypeOK
<1> QED
  BY <1>1, <1>2, <1>3 DEF Named

LEMMA FilesOfWrite ==
    ASSUME IInv, NEW w \in Writers, Write(w)
    PROVE  TempFileIsMine'
<1>1. ASSUME NEW v \in Writers, v # w
      PROVE  /\ pc'[v] = "fill" => Named(name[v])' = {<<name'[v], "partial">>}
             /\ pc'[v] = "rename" => Named(name[v])' = {<<name'[v], "whole">>}
  <2>1. pc'[v] = pc[v] /\ name'[v] = name[v]
    BY <1>1 DEF Write, Call, FindExisting, Verify, VerifyFails, TakeName, CreateTemp,
         CreateFails, WriteAll, Rename, PublishFails, Undo, GiveUp, Return, Goto, Forget,
         IInv, TypeOK
  <2> QED
    BY <1>1, <2>1, FilesOfOthers DEF IInv, TempFileIsMine, HasName
<1>2. /\ pc'[w] = "fill" => Named(name[w])' = {<<name'[w], "partial">>}
      /\ pc'[w] = "rename" => Named(name[w])' = {<<name'[w], "whole">>}
  <2>1. CASE CreateTemp(w)
    BY <2>1 DEF CreateTemp, Goto, Named, IInv, TypeOK
  <2>2. CASE WriteAll(w)
    BY <2>2 DEF WriteAll, Goto, Named, IInv, TypeOK
  <2>3. CASE ~CreateTemp(w) /\ ~WriteAll(w)
    <3>1. pc'[w] \notin {"fill", "rename"}
      BY <2>3 DEF Write, Call, FindExisting, Verify, VerifyFails, TakeName, CreateFails,
           Rename, PublishFails, Undo, GiveUp, Return, Goto, IInv, TypeOK
    <3> QED
      BY <3>1
  <2> QED
    BY <2>1, <2>2, <2>3
<1> QED
  BY <1>1, <1>2 DEF TempFileIsMine

LEMMA WriteKeeps ==
    ASSUME IInv, NEW w \in Writers, Write(w)
    PROVE  IInv'
<1>1. UNCHANGED pid
  BY DEF Write, Call, FindExisting, Verify, VerifyFails, TakeName, CreateTemp, CreateFails,
       WriteAll, Rename, PublishFails, Undo, GiveUp, Return, procs
<1>2. DistinctPids(pid)'
  BY <1>1 DEF IInv, DistinctPids
<1> QED
  BY <1>2, TypeOfWrite, NamesOfWrite, FilesOfWrite DEF IInv

\* The dead forget their names; the living keep theirs, and their process ids.
LEMMA RestartKeeps ==
    ASSUME IInv, NEW dead \in SUBSET Procs, Restart(dead),
           file' \in [Hashes -> {"absent", "whole", "damaged"}],
           temps' \subseteq temps,
           dead = Procs \/ UNCHANGED temps
    PROVE  IInv'
<1>1. ASSUME NEW v \in Writers, ProcOf[v] \in dead
      PROVE  pc'[v] = "idle" /\ target'[v] = NoHash /\ name'[v] = NoName
  BY <1>1 DEF Restart
<1>2. ASSUME NEW v \in Writers, ProcOf[v] \notin dead
      PROVE  /\ pc'[v] = pc[v] /\ target'[v] = target[v] /\ name'[v] = name[v]
             /\ pid'[ProcOf[v]] = pid[ProcOf[v]]
             /\ sequence'[ProcOf[v]] = sequence[ProcOf[v]]
  BY <1>2, ProcTyped DEF Restart
<1>3. TypeOK'
  <2>1. pid' \in [Procs -> Pids]
    BY DEF Restart
  <2>2. sequence' \in [Procs -> 0 .. MaxSequence]
    BY StoreAssumption DEF Restart, IInv, TypeOK
  <2>3. /\ pc' \in [Writers -> PC]
        /\ target' \in [Writers -> Hashes \union {NoHash}]
        /\ name' \in [Writers -> Name \union {NoName}]
    BY DEF Restart, IInv, TypeOK, PC
  <2> QED
    BY <2>1, <2>2, <2>3 DEF IInv, TypeOK
<1>4. DistinctPids(pid)'
  BY DEF Restart, DistinctPids
<1>5. ASSUME NEW v \in Writers
      PROVE  Owned(v)'
  <2>1. CASE ProcOf[v] \in dead
    BY <1>1, <2>1 DEF Owned, HasName
  <2>2. CASE ProcOf[v] \notin dead
    BY <1>2, <2>2 DEF Owned, IInv
  <2> QED
    BY <2>1, <2>2
<1>6. ASSUME NEW v \in Writers, pc'[v] \in HasName
      PROVE  ProcOf[v] \notin dead
  BY <1>1, <1>6 DEF HasName
<1>7. TempNamesUnique'
  BY <1>2, <1>6 DEF TempNamesUnique, IInv
<1>8. ASSUME NEW v \in Writers, ProcOf[v] \notin dead
      PROVE  Named(name[v])' = Named(name[v])
  <2>1. UNCHANGED temps
    BY <1>8, ProcTyped
  <2> QED
    BY <1>2, <1>8, <2>1 DEF Named
<1>9. TempFileIsMine'
  BY <1>2, <1>6, <1>8 DEF TempFileIsMine, IInv, HasName
<1> QED
  BY <1>3, <1>4, <1>5, <1>7, <1>9 DEF IInv

LEMMA IInvNext == IInv /\ [Next]_vars => IInv'
<1> SUFFICES ASSUME IInv, [Next]_vars
             PROVE  IInv'
  OBVIOUS
<1>1. ASSUME NEW w \in Writers, Write(w)
      PROVE  IInv'
  BY <1>1, WriteKeeps
<1>2. ASSUME NEW h \in Hashes, Delete(h)
      PROVE  IInv'
  BY <1>2 DEF Delete, procs, IInv, TypeOK, Owned, TempNamesUnique, TempFileIsMine, Named,
       DistinctPids
<1>3. ASSUME NEW p \in Procs, Crash(p)
      PROVE  IInv'
  BY <1>3, RestartKeeps DEF Crash, dir, IInv, TypeOK
<1>4. CASE LosePower
  <2>1. file' \in [Hashes -> {"absent", "whole", "damaged"}]
    BY <1>4 DEF LosePower, IInv, TypeOK
  <2> QED
    BY <1>4, <2>1, RestartKeeps DEF LosePower
<1>5. CASE UNCHANGED vars
  BY <1>5 DEF vars, IInv, TypeOK, Owned, TempNamesUnique, TempFileIsMine, Named, DistinctPids
<1> QED
  BY <1>1, <1>2, <1>3, <1>4, <1>5 DEF Next

LEMMA AlwaysIInv == Spec => []IInv
  BY IInvInit, IInvNext, PTL DEF Spec
----
\* Every variable keeps its type.
THEOREM TypeCorrect == Spec => []TypeOK
<1>1. IInv => TypeOK
  BY DEF IInv
<1> QED
  BY <1>1, AlwaysIInv, PTL

\* No two writers at work share a temporary name.
THEOREM NamesAreUnique == Spec => []TempNamesUnique
<1>1. IInv => TempNamesUnique
  BY DEF IInv
<1> QED
  BY <1>1, AlwaysIInv, PTL

\* From create to rename a writer's temporary file is as it left it.
THEOREM FilesAreOwned == Spec => []TempFileIsMine
<1>1. IInv => TempFileIsMine
  BY DEF IInv
<1> QED
  BY <1>1, AlwaysIInv, PTL

\* Renaming puts the whole object in place: the temporary file is its own.
LEMMA RenameStores ==
    ASSUME IInv, NEW w \in Writers, Rename(w)
    PROVE  file' = [file EXCEPT ![target[w]] = "whole"]
<1>1. Named(name[w]) = {<<name[w], "whole">>}
  BY DEF IInv, TempFileIsMine, Rename
<1> QED
  BY <1>1 DEF Rename

\* No step of a writer damages an object file.
THEOREM DamageIsNotWritten == Spec => WritesNeverDamage
<1>1. ASSUME IInv, [Next]_vars, NEW w \in Writers, Write(w), NEW h \in Hashes,
             file'[h] = "damaged"
      PROVE  file[h] = "damaged"
  <2>1. CASE Rename(w)
    BY <1>1, <2>1, RenameStores DEF IInv, TypeOK
  <2>2. CASE ~Rename(w)
    <3>1. UNCHANGED file
      BY <1>1, <2>2 DEF Write, Call, FindExisting, Verify, VerifyFails, TakeName, CreateTemp,
           CreateFails, WriteAll, PublishFails, Undo, GiveUp, Return, dir
    <3> QED
      BY <1>1, <3>1
  <2> QED
    BY <2>1, <2>2
<1>2. IInv /\ [Next]_vars =>
        [\A w \in Writers : Write(w) =>
           \A h \in Hashes : file'[h] = "damaged" => file[h] = "damaged"]_vars
  BY <1>1
<1> QED
  BY <1>2, AlwaysIInv, PTL DEF Spec, WritesNeverDamage
----
(* FilesystemStore implements AtomicStore. *)

LEMMA InitIsAtomic == Init => Atomic!Init
  BY DEF Init, Atomic!Init, Stored, CallState

\* What the abstract store sees of a writer's step.
LEMMA CallStateOf ==
    ASSUME IInv, NEW w \in Writers, NEW label, pc' = [pc EXCEPT ![w] = label]
    PROVE  CallState' = [CallState EXCEPT
                           ![w] = IF label \in {"idle", "ok", "err"} THEN label
                                  ELSE "pending"]
  BY DEF CallState, IInv, TypeOK

LEMMA WriteIsAtomic ==
    ASSUME IInv, NEW w \in Writers, Write(w)
    PROVE  Atomic!Next \/ UNCHANGED <<Stored, target, CallState>>
<1> DEFINE quiet == UNCHANGED <<Stored, target, CallState>>
<1>1. ASSUME NEW h \in Hashes, Call(w, h)
      PROVE  Atomic!Call(w, h)
  <2>1. CallState[w] = "idle" /\ CallState' = [CallState EXCEPT ![w] = "pending"]
    <3>1. pc[w] = "idle" /\ pc' = [pc EXCEPT ![w] = "exists"]
      BY <1>1 DEF Call, Goto
    <3>2. CallState' = [CallState EXCEPT ![w] = "pending"]
      BY <3>1 DEF CallState, IInv, TypeOK
    <3>3. CallState[w] = "idle"
      BY <3>1 DEF CallState
    <3> QED
      BY <3>2, <3>3
  <2> QED
    BY <1>1, <2>1 DEF Call, Atomic!Call, Stored, dir
<1>2. CASE FindExisting(w) \/ TakeName(w) \/ CreateTemp(w) \/ WriteAll(w)
             \/ PublishFails(w) \/ Undo(w)
  <2>1. CallState' = CallState
    BY <1>2 DEF FindExisting, TakeName, CreateTemp, WriteAll, PublishFails, Undo, Goto,
         CallState, IInv, TypeOK
  <2>2. UNCHANGED <<file, target>>
    BY <1>2 DEF FindExisting, TakeName, CreateTemp, WriteAll, PublishFails, Undo, dir
  <2> QED
    BY <2>1, <2>2 DEF Stored
<1>3. CASE Verify(w)
  <2>1. CallState[w] = "pending" /\ CallState' = [CallState EXCEPT ![w] = "ok"]
    BY <1>3, CallStateOf DEF Verify, Goto, CallState
  <2>2. target[w] \in Stored
    BY <1>3 DEF Verify, Stored, IInv, Owned
  <2>3. Atomic!Succeed(w)
    BY <1>3, <2>1, <2>2 DEF Verify, Atomic!Succeed, Stored, dir
  <2> QED
    BY <2>3 DEF Atomic!Next
<1>4. CASE Rename(w)
  <2>1. CallState[w] = "pending" /\ CallState' = [CallState EXCEPT ![w] = "ok"]
    BY <1>4, CallStateOf DEF Rename, Goto, CallState
  <2>2. target[w] \in Hashes
    BY <1>4 DEF Rename, IInv, Owned
  <2>3. Stored' = Stored \union {target[w]}
    BY <1>4, <2>2, RenameStores DEF Stored, IInv, TypeOK
  <2>4. Atomic!Succeed(w)
    BY <1>4, <2>1, <2>3 DEF Rename, Atomic!Succeed
  <2> QED
    BY <2>4 DEF Atomic!Next
<1>5. CASE VerifyFails(w) \/ CreateFails(w) \/ GiveUp(w)
  <2>1. CallState[w] = "pending" /\ CallState' = [CallState EXCEPT ![w] = "err"]
    BY <1>5, CallStateOf DEF VerifyFails, CreateFails, GiveUp, Goto, CallState
  <2>2. Atomic!Fail(w)
    BY <1>5, <2>1 DEF VerifyFails, CreateFails, GiveUp, Atomic!Fail, Stored, dir
  <2> QED
    BY <2>2 DEF Atomic!Next
<1>6. CASE Return(w)
  <2>1. CallState[w] \in {"ok", "err"} /\ CallState' = [CallState EXCEPT ![w] = "idle"]
    BY <1>6, CallStateOf DEF Return, Goto, CallState
  <2>2. Atomic!Return(w)
    BY <1>6, <2>1 DEF Return, Atomic!Return, Stored, dir
  <2> QED
    BY <2>2 DEF Atomic!Next
<1> QED
  BY <1>1, <1>2, <1>3, <1>4, <1>5, <1>6 DEF Write, Atomic!Next

LEMMA NextIsAtomic ==
    IInv /\ [Next]_vars => [Atomic!Next]_(Atomic!vars)
<1> SUFFICES ASSUME IInv, [Next]_vars
             PROVE  Atomic!Next \/ UNCHANGED Atomic!vars
  OBVIOUS
<1>1. ASSUME NEW w \in Writers, Write(w)
      PROVE  Atomic!Next \/ UNCHANGED Atomic!vars
  BY <1>1, WriteIsAtomic DEF Atomic!vars
<1>2. ASSUME NEW h \in Hashes, Delete(h)
      PROVE  Atomic!Delete(h)
  BY <1>2 DEF Delete, Atomic!Delete, Stored, CallState, IInv, TypeOK
<1>3. ASSUME NEW p \in Procs, Crash(p)
      PROVE  Atomic!Die({w \in Writers : ProcOf[w] \in {p}})
  <2>1. UNCHANGED Stored
    BY <1>3 DEF Crash, Stored, dir
  <2>2. CallState' = [w \in Writers |-> IF w \in {v \in Writers : ProcOf[v] \in {p}}
                                          THEN "idle" ELSE CallState[w]]
    BY <1>3 DEF Crash, Restart, CallState
  <2>3. target' = [w \in Writers |-> IF w \in {v \in Writers : ProcOf[v] \in {p}}
                                       THEN NoHash ELSE target[w]]
    BY <1>3 DEF Crash, Restart
  <2> QED
    BY <2>1, <2>2, <2>3 DEF Atomic!Die
<1>4. CASE LosePower
  <2>1. Stored' = Stored \ (Stored \ Stored') /\ Stored \ Stored' \in SUBSET Hashes
    BY <1>4 DEF LosePower, Stored
  <2>2. /\ CallState' = [w \in Writers |-> "idle"]
        /\ target' = [w \in Writers |-> NoHash]
    BY <1>4, StoreAssumption DEF LosePower, Restart, CallState
  <2>3. Atomic!LosePower(Stored \ Stored')
    BY <2>1, <2>2 DEF Atomic!LosePower
  <2> QED
    BY <2>1, <2>3 DEF Atomic!Next
<1>5. CASE UNCHANGED vars
  BY <1>5 DEF vars, Atomic!vars, Stored, CallState
<1>6. ASSUME NEW p \in Procs, Crash(p)
      PROVE  Atomic!Next
  BY <1>3, <1>6 DEF Atomic!Next
<1> QED
  BY <1>1, <1>2, <1>4, <1>5, <1>6 DEF Next, Atomic!Next

\* Objects written and deleted file by file, by threads and processes at once,
\* are written and deleted atomically.
THEOREM FilesAreAtomic == Spec => ImplementsAtomicStore
  BY InitIsAtomic, NextIsAtomic, AlwaysIInv, PTL
     DEF Spec, ImplementsAtomicStore, Atomic!Spec
====
