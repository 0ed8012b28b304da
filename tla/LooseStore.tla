---- MODULE LooseStore ----
(* FilesystemStore: objects as files of one directory, written to a         *)
(* temporary file first and renamed. Writers are threads of processes that  *)
(* use the directory at the same time, with no lock between them; a step is *)
(* one call to the file system. Processes die and come back, perhaps with a *)
(* process id that was used before; the power may fail.                     *)
EXTENDS Naturals, FiniteSets

CONSTANTS
    Hashes,      \* object addresses
    NoHash,      \* a writer that is not writing
    Writers,     \* threads
    Procs,       \* processes
    ProcOf,      \* the process each thread belongs to
    Pids,        \* what std::process::id() can return
    MaxSequence, \* bound: temporary names one process takes
    IoFaults,    \* a file system call may fail
    PowerFails   \* unsynced data may be lost at a power failure

ASSUME StoreAssumption == /\ NoHash \notin Hashes
                          /\ ProcOf \in [Writers -> Procs]
                          /\ MaxSequence \in Nat
                          /\ IoFaults \in BOOLEAN
                          /\ PowerFails \in BOOLEAN

VARIABLES
    file,      \* objects/<hash>: "absent", "whole", or "damaged"
    temps,     \* the temporary files: <<name, "partial" or "whole">>
    pid,       \* each process's id
    sequence,  \* each process's TEMP_SEQUENCE
    pc,        \* where each writer is in write
    target,    \* the object it writes
    name       \* the temporary name it took

dir == <<file, temps>>
procs == <<pid, sequence>>
vars == <<file, temps, pid, sequence, pc, target, name>>

\* .tmp-{pid}-{sequence}-{hash}
Name == [pid : Pids, sequence : Nat, hash : Hashes]
NoName == [pid |-> 0, sequence |-> 0, hash |-> NoHash]

\* Steps between taking a temporary name and letting go of it.
HasName == {"create", "fill", "rename", "undo"}
PC == HasName \union {"idle", "exists", "verify", "recheck", "ok", "err"}

TypeOK == /\ file \in [Hashes -> {"absent", "whole", "damaged"}]
          /\ temps \subseteq Name \X {"partial", "whole"}
          /\ pid \in [Procs -> Pids]
          /\ sequence \in [Procs -> 0 .. MaxSequence]
          /\ pc \in [Writers -> PC]
          /\ target \in [Writers -> Hashes \union {NoHash}]
          /\ name \in [Writers -> Name \union {NoName}]

\* Processes alive at the same time have different ids.
DistinctPids(f) == \A p, q \in Procs : f[p] = f[q] => p = q

Init == /\ file = [h \in Hashes |-> "absent"]
        /\ temps = {}
        /\ pid \in {f \in [Procs -> Pids] : DistinctPids(f)}
        /\ sequence = [p \in Procs |-> 0]
        /\ pc = [w \in Writers |-> "idle"]
        /\ target = [w \in Writers |-> NoHash]
        /\ name = [w \in Writers |-> NoName]

Goto(w, label) == pc' = [pc EXCEPT ![w] = label]
Named(n) == {t \in temps : t[1] = n}
Forget(w) == name' = [name EXCEPT ![w] = NoName]
----
(* write. *)

Call(w, h) == /\ pc[w] = "idle"
              /\ Goto(w, "exists")
              /\ target' = [target EXCEPT ![w] = h]
              /\ UNCHANGED <<dir, procs, name>>

\* path.exists(): read it back and be done.
FindExisting(w) == /\ pc[w] \in {"exists", "recheck"}
                   /\ file[target[w]] # "absent"
                   /\ Goto(w, "verify")
                   /\ UNCHANGED <<dir, procs, target, name>>

\* Seeded fault: an existing file is taken for the object, unread.
VerifyNothing(w) == /\ pc[w] = "verify"
                    /\ file[target[w]] # "absent"
                    /\ Goto(w, "ok")
                    /\ UNCHANGED <<dir, procs, target, name>>

\* read compares the content with the address.
Verify(w) == /\ pc[w] = "verify"
             /\ file[target[w]] = "whole"
             /\ Goto(w, "ok")
             /\ UNCHANGED <<dir, procs, target, name>>

\* It is damaged, or deleted since: an error.
VerifyFails(w) == /\ pc[w] = "verify"
                  /\ file[target[w]] # "whole" \/ IoFaults
                  /\ Goto(w, "err")
                  /\ UNCHANGED <<dir, procs, target, name>>

\* Seeded fault: the name does not say which object it is for.
TakenByAnyone(w) == [pid |-> pid[ProcOf[w]], sequence |-> sequence[ProcOf[w]],
                     hash |-> NoHash]

TakenBy(w) == [pid |-> pid[ProcOf[w]], sequence |-> sequence[ProcOf[w]],
               hash |-> target[w]]

\* Seeded fault: the sequence number is read, and not advanced.
TakeNameUncounted(w) ==
    /\ pc[w] = "exists"
    /\ file[target[w]] = "absent" \/ IoFaults
    /\ sequence[ProcOf[w]] < MaxSequence
    /\ name' = [name EXCEPT ![w] = TakenBy(w)]
    /\ Goto(w, "create")
    /\ UNCHANGED <<dir, procs, target>>

\* TEMP_SEQUENCE.fetch_add: the threads of a process get different numbers.
\* path.exists() is also false when the file cannot be examined.
TakeName(w) == /\ pc[w] = "exists"
               /\ file[target[w]] = "absent" \/ IoFaults
               /\ sequence[ProcOf[w]] < MaxSequence
               /\ name' = [name EXCEPT ![w] = TakenBy(w)]
               /\ sequence' = [sequence EXCEPT ![ProcOf[w]] = @ + 1]
               /\ Goto(w, "create")
               /\ UNCHANGED <<dir, pid, target>>

\* Seeded fault: create in place of create_new.
CreateOrTruncateTemp(w) ==
    /\ pc[w] = "create"
    /\ temps' = temps \union {<<name[w], "partial">>}
    /\ Goto(w, "fill")
    /\ UNCHANGED <<file, procs, target, name>>

CreateTemp(w) == /\ pc[w] = "create"
                 /\ Named(name[w]) = {}
                 /\ temps' = temps \union {<<name[w], "partial">>}
                 /\ Goto(w, "fill")
                 /\ UNCHANGED <<file, procs, target, name>>

\* create_new refuses a file that is there; create_dir_all and create_new may
\* fail.
CreateFails(w) == /\ \/ pc[w] = "create" /\ Named(name[w]) # {}
                     \/ pc[w] \in {"exists", "create"} /\ IoFaults
                  /\ Goto(w, "err")
                  /\ Forget(w)
                  /\ UNCHANGED <<dir, procs, target>>

WriteAll(w) == /\ pc[w] = "fill"
               /\ temps' = (temps \ Named(name[w])) \union {<<name[w], "whole">>}
               /\ Goto(w, "rename")
               /\ UNCHANGED <<file, procs, target, name>>

\* The file under the object's name is replaced by the temporary one.
Rename(w) == /\ pc[w] = "rename"
             /\ \E t \in Named(name[w]) :
                   file' = [file EXCEPT ![target[w]] =
                               IF t[2] = "whole" THEN "whole" ELSE "damaged"]
             /\ temps' = temps \ Named(name[w])
             /\ Goto(w, "ok")
             /\ Forget(w)
             /\ UNCHANGED <<procs, target>>

\* Seeded fault: a short write is renamed all the same.
IgnoreShortWrite(w) == /\ IoFaults
                       /\ pc[w] \in {"fill", "rename"}
                       /\ Goto(w, "rename")
                       /\ UNCHANGED <<dir, procs, target, name>>

\* write_all or rename returned an error.
PublishFails(w) == /\ IoFaults
                   /\ pc[w] \in {"fill", "rename"}
                   /\ Goto(w, "undo")
                   /\ UNCHANGED <<dir, procs, target, name>>

\* The temporary file is removed; a failure to do so is ignored.
Undo(w) == /\ pc[w] = "undo"
           /\ \/ temps' = temps \ Named(name[w])
              \/ UNCHANGED temps
           /\ Goto(w, "recheck")
           /\ Forget(w)
           /\ UNCHANGED <<file, procs, target>>

\* Nobody else has stored the object either.
GiveUp(w) == /\ pc[w] = "recheck"
             /\ file[target[w]] = "absent" \/ IoFaults
             /\ Goto(w, "err")
             /\ UNCHANGED <<dir, procs, target, name>>

Return(w) == /\ pc[w] \in {"ok", "err"}
             /\ Goto(w, "idle")
             /\ target' = [target EXCEPT ![w] = NoHash]
             /\ UNCHANGED <<dir, procs, name>>
----
\* delete of an object that list returned; list leaves out names with a dot.
Delete(h) == /\ file[h] # "absent"
             /\ file' = [file EXCEPT ![h] = "absent"]
             /\ UNCHANGED <<temps, procs, pc, target, name>>

\* The writers of some processes are gone; the processes start again.
Restart(dead) ==
    LET gone == {w \in Writers : ProcOf[w] \in dead} IN
    /\ pid' \in {f \in [Procs -> Pids] :
                    /\ DistinctPids(f)
                    /\ \A p \in Procs \ dead : f[p] = pid[p]}
    /\ sequence' = [p \in Procs |-> IF p \in dead THEN 0 ELSE sequence[p]]
    /\ pc' = [w \in Writers |-> IF w \in gone THEN "idle" ELSE pc[w]]
    /\ target' = [w \in Writers |-> IF w \in gone THEN NoHash ELSE target[w]]
    /\ name' = [w \in Writers |-> IF w \in gone THEN NoName ELSE name[w]]

Crash(p) == Restart({p}) /\ UNCHANGED dir

\* No object was synced: any file may be gone or come back damaged, under its
\* full name, and any temporary file may be gone.
LosePower == /\ PowerFails
             /\ \E kept, damaged \in SUBSET {h \in Hashes : file[h] # "absent"} :
                   file' = [h \in Hashes |-> IF h \in damaged THEN "damaged"
                                            ELSE IF h \in kept THEN file[h]
                                            ELSE "absent"]
             /\ temps' \in SUBSET temps
             /\ Restart(Procs)

Write(w) == \/ \E h \in Hashes : Call(w, h)
            \/ FindExisting(w)
            \/ Verify(w)
            \/ VerifyFails(w)
            \/ TakeName(w)
            \/ CreateTemp(w)
            \/ CreateFails(w)
            \/ WriteAll(w)
            \/ Rename(w)
            \/ PublishFails(w)
            \/ Undo(w)
            \/ GiveUp(w)
            \/ Return(w)

Next == \/ \E w \in Writers : Write(w)
        \/ \E h \in Hashes : Delete(h)
        \/ \E p \in Procs : Crash(p)
        \/ LosePower

Spec == Init /\ [][Next]_vars
----
(* Properties. *)

\* "Data is written to a unique temporary file": writers at work at the same
\* time, threads of one process or not, never share a temporary name. The
\* names of the dead may come back; create_new then refuses them.
TempNamesUnique ==
    \A v, w \in Writers :
        pc[v] \in HasName /\ pc[w] \in HasName /\ name[v] = name[w] => v = w

\* A writer's temporary file is its own from create to rename: nobody renames,
\* refills or removes it, whatever other processes leave behind or come back as.
TempFileIsMine ==
    \A w \in Writers :
        /\ pc[w] = "fill" => Named(name[w]) = {<<name[w], "partial">>}
        /\ pc[w] = "rename" => Named(name[w]) = {<<name[w], "whole">>}

\* Only a power failure damages an object file: no step of a writer, racing
\* others or failing, leaves a partial file under an object's name.
WritesNeverDamage ==
    [][\A w \in Writers : Write(w) =>
          \A h \in Hashes : file'[h] = "damaged" => file[h] = "damaged"]_vars

\* Concurrent writes and deletes are atomic: Ok is returned only for an object
\* that was whole at that step, and nothing else a writer does can be seen.
Stored == {h \in Hashes : file[h] = "whole"}
CallState == [w \in Writers |-> IF pc[w] \in {"idle", "ok", "err"} THEN pc[w]
                                ELSE "pending"]
Atomic == INSTANCE AtomicStore WITH stored <- Stored, call <- CallState
ImplementsAtomicStore == Atomic!Spec
====
