---- MODULE StagingCli ----
(* The CLI's `commit`: it reads the staging directory file by file, commits *)
(* the patch and clears the directory, while players and tools go on        *)
(* staging, other programs commit through the library, and other `commit`s  *)
(* run. The LOCK covers the library's commit alone; that commit is one step *)
(* here, as module VersionGraph promises. Commands start once the           *)
(* repository made in RepositoryInit opens.                                 *)
EXTENDS RepositoryInit

CONSTANTS
    Clis,      \* `commit` commands
    Coords,    \* chunk coordinates
    Names,     \* file names that parse as coordinates
    CoordOf,   \* what each parses to; "1,2" and "01,2" are the same
    Removals,  \* the name of the file ".remove"
    Payloads,
    NoFile,    \* a file that is not there
    NoChunk,   \* a chunk that is not there, or that a patch removes
    Keep,      \* a chunk that a patch does not mention
    MaxEdits,  \* bound: edits of the staging directory
    MaxOthers, \* bound: commits of other programs
    LateInits  \* bound: a command may start before every init has ended

ASSUME CliAssumption == /\ CoordOf \in [Names -> Coords]
                        /\ Removals \notin Names
                        /\ {NoChunk, Keep} \intersect Payloads = {}
                        /\ NoChunk # Keep
                        /\ NoFile \notin Payloads
                        /\ \A R \in SUBSET Coords : NoFile # R
                        /\ MaxEdits \in Nat
                        /\ MaxOthers \in Nat
                        /\ LateInits \in BOOLEAN

VARIABLES
    staging,   \* .chunklog/staging: the content of each file
    tip,       \* the world of the commit HEAD reaches
    pc,        \* where each command is
    todo,      \* the listed files it still has to read, or to remove
    patch,     \* the change set it has read and not yet committed
    wanted,    \* history: what each chunk was last asked to be
    disputed,  \* history: chunks asked for while a command could miss it,
               \*   or held an earlier request
    edits,     \* bound
    others     \* bound

cliVars == <<pc, todo, patch>>
history == <<wanted, disputed, edits, others>>
vars == <<initVars, staging, tip, cliVars, history>>

Files == Names \union {Removals}
RemovalLists == SUBSET Coords \ {{}}
NoPatch == [x \in Coords |-> Keep]
Present == {f \in Files : staging[f] # NoFile}

TypeOK == /\ InitTypeOK
          /\ DOMAIN staging = Files
          /\ \A n \in Names : staging[n] \in Payloads \union {NoFile}
          /\ staging[Removals] = NoFile \/ staging[Removals] \in RemovalLists
          /\ tip \in [Coords -> Payloads \union {NoChunk}]
          /\ pc \in [Clis -> {"idle", "reading", "commit", "clear", "clearing"}]
          /\ todo \in [Clis -> SUBSET Files]
          /\ patch \in [Clis -> [Coords -> Payloads \union {NoChunk, Keep}]]
          /\ wanted \in [Coords -> Payloads \union {NoChunk}]
          /\ disputed \subseteq Coords
          /\ edits \in 0 .. MaxEdits
          /\ others \in 0 .. MaxOthers

Init == /\ NoRepository
        /\ staging = [f \in Files |-> NoFile]
        /\ tip = [x \in Coords |-> NoChunk]
        /\ pc = [c \in Clis |-> "idle"]
        /\ todo = [c \in Clis |-> {}]
        /\ patch = [c \in Clis |-> NoPatch]
        /\ wanted = tip
        /\ disputed = {}
        /\ edits = 0
        /\ others = 0
----
(* The command. *)

Goto(c, label) == pc' = [pc EXCEPT ![c] = label]

\* open, then read_dir.
Start(c) == /\ pc[c] = "idle"
            /\ Opens
            /\ LateInits \/ InitUnderWay = {}
            /\ Goto(c, "reading")
            /\ todo' = [todo EXCEPT ![c] = Present]
            /\ UNCHANGED <<initVars, staging, tip, patch, history>>

\* What a file says of the chunks it mentions replaces what the patch said.
Mention(c, chunks, content) ==
    patch' = [patch EXCEPT ![c] =
                 [x \in Coords |-> IF x \in chunks THEN content ELSE patch[c][x]]]

\* An upsert of a removed chunk is an error; of two names for one chunk the
\* one read last counts.
ReadChunk(c, n) ==
    /\ pc[c] = "reading"
    /\ n \in todo[c] \intersect Present
    /\ patch[c][CoordOf[n]] # NoChunk
    /\ Mention(c, {CoordOf[n]}, staging[n])
    /\ todo' = [todo EXCEPT ![c] = @ \ {n}]
    /\ UNCHANGED <<initVars, staging, tip, pc, history>>

\* Seeded fault: what is both staged and removed is removed.
ReadRemovalsAnyway(c) ==
    /\ pc[c] = "reading"
    /\ Removals \in todo[c] \intersect Present
    /\ Mention(c, staging[Removals], NoChunk)
    /\ todo' = [todo EXCEPT ![c] = @ \ {Removals}]
    /\ UNCHANGED <<initVars, staging, tip, pc, history>>

\* And a removal of an upserted one.
ReadRemovals(c) ==
    /\ pc[c] = "reading"
    /\ Removals \in todo[c] \intersect Present
    /\ \A x \in staging[Removals] : patch[c][x] \notin Payloads
    /\ Mention(c, staging[Removals], NoChunk)
    /\ todo' = [todo EXCEPT ![c] = @ \ {Removals}]
    /\ UNCHANGED <<initVars, staging, tip, pc, history>>

\* "nothing staged" is an error.
ReadAll(c) == /\ pc[c] = "reading"
              /\ todo[c] = {}
              /\ Goto(c, IF patch[c] = NoPatch THEN "idle" ELSE "commit")
              /\ UNCHANGED <<initVars, staging, tip, todo, patch, history>>

\* Seeded fault: the patch is taken for the world, as in a snapshot.
AppliedAlone(w, p) == p

Applied(w, p) == [x \in Coords |-> IF p[x] = Keep THEN w[x] ELSE p[x]]

\* Seeded fault: the error of a commit that did not happen is ignored.
PublishOrNot(c) == /\ pc[c] = "commit"
                   /\ tip' \in {tip, Applied(tip, patch[c])}
                   /\ patch' = [patch EXCEPT ![c] = NoPatch]
                   /\ Goto(c, "clear")
                   /\ UNCHANGED <<initVars, staging, todo, history>>

\* commit_changes, under LOCK, on top of the head it finds there.
Publish(c) == /\ pc[c] = "commit"
              /\ tip' = Applied(tip, patch[c])
              /\ patch' = [patch EXCEPT ![c] = NoPatch]
              /\ Goto(c, "clear")
              /\ UNCHANGED <<initVars, staging, todo, history>>

\* clear_staging lists again: whatever is there now.
ListToClear(c) == /\ pc[c] = "clear"
                  /\ Goto(c, "clearing")
                  /\ todo' = [todo EXCEPT ![c] = Present]
                  /\ UNCHANGED <<initVars, staging, tip, patch, history>>

ClearFile(c, f) == /\ pc[c] = "clearing"
                   /\ f \in todo[c] \intersect Present
                   /\ staging' = [staging EXCEPT ![f] = NoFile]
                   /\ todo' = [todo EXCEPT ![c] = @ \ {f}]
                   /\ UNCHANGED <<initVars, tip, pc, patch, history>>

Finish(c) == /\ Goto(c, "idle")
             /\ todo' = [todo EXCEPT ![c] = {}]
             /\ patch' = [patch EXCEPT ![c] = NoPatch]
             /\ UNCHANGED <<initVars, staging, tip, history>>

Cleared(c) == /\ pc[c] = "clearing"
              /\ todo[c] = {}
              /\ Finish(c)

\* The process dies, or returns an error: an I/O error, a file listed and then
\* gone, a chunk both staged and removed, LOCK held by somebody else, or an
\* error after the reference was replaced.
Stop(c) == /\ pc[c] # "idle"
           /\ Finish(c)
----
(* Everybody else. *)

\* A command would not commit a change to f made now, yet clear it, or would
\* commit an older version of it.
AtRisk(f) == \E c \in Clis : \/ pc[c] = "reading" /\ f \notin todo[c]
                             \/ pc[c] \in {"commit", "clear"}
                             \/ pc[c] = "clearing" /\ f \in todo[c]

\* The files that mention a chunk, and what they ask for.
Mentions(f, x) == IF f = Removals THEN f \in Present /\ x \in staging[f]
                                  ELSE f \in Present /\ CoordOf[f] = x
Staged(f) == IF f = Removals THEN NoChunk ELSE staging[f]

\* A command has read a request for a chunk and not committed it yet.
Read(x) == \E c \in Clis : patch[c][x] # Keep

Edit == /\ "staging" \in made
        /\ edits < MaxEdits
        /\ edits' = edits + 1
        /\ UNCHANGED <<initVars, tip, cliVars, others>>

\* A second name for a staged chunk leaves it open which of the two counts; to
\* be both staged and removed only stops a command that sees both.
StageChunk(n, payload) ==
    LET x == CoordOf[n] IN
    /\ Edit
    /\ staging' = [staging EXCEPT ![n] = payload]
    /\ wanted' = [wanted EXCEPT ![x] = payload]
    /\ disputed' = IF \/ AtRisk(n)
                      \/ \E m \in Names \ {n} : Mentions(m, x)
                      \/ Mentions(Removals, x) /\ AtRisk(Removals)
                      \/ Read(x)
                   THEN disputed \union {x} ELSE disputed \ {x}

StageRemovals(R) ==
    /\ Edit
    /\ staging' = [staging EXCEPT ![Removals] = R]
    /\ wanted' = [x \in Coords |-> IF x \in R THEN NoChunk ELSE wanted[x]]
    /\ disputed' = {x \in Coords \ R : x \in disputed \/ Mentions(Removals, x)}
                      \union {x \in R : \/ AtRisk(Removals)
                                       \/ Read(x)
                                       \/ \E n \in Names : Mentions(n, x) /\ AtRisk(n)}

\* Whoever takes a file back does not say what the chunk should be instead.
Unstage(f) ==
    /\ Edit
    /\ f \in Present
    /\ staging' = [staging EXCEPT ![f] = NoFile]
    /\ disputed' = disputed \union {x \in Coords : Mentions(f, x)}
    /\ UNCHANGED wanted

\* Another program's commit_changes. A patch already staged or read comes later.
OtherCommit(x, chunk) ==
    /\ Opens
    /\ others < MaxOthers
    /\ others' = others + 1
    /\ tip' = [tip EXCEPT ![x] = chunk]
    /\ wanted' = [wanted EXCEPT ![x] = chunk]
    /\ disputed' = IF Read(x) \/ \E f \in Files : Mentions(f, x)
                   THEN disputed \union {x} ELSE disputed \ {x}
    /\ UNCHANGED <<initVars, staging, cliVars, edits>>

Command(c) == \/ Start(c)
              \/ \E n \in Names : ReadChunk(c, n)
              \/ ReadRemovals(c)
              \/ ReadAll(c)
              \/ Publish(c)
              \/ ListToClear(c)
              \/ \E f \in Files : ClearFile(c, f)
              \/ Cleared(c)
              \/ Stop(c)

Next == \/ \E c \in Clis : Command(c)
        \/ \E n \in Names, payload \in Payloads : StageChunk(n, payload)
        \/ \E R \in RemovalLists : StageRemovals(R)
        \/ \E f \in Files : Unstage(f)
        \/ \E x \in Coords, chunk \in Payloads \union {NoChunk} : OtherCommit(x, chunk)
        \/ \E i \in Inits : /\ InitStep(i)
                            /\ UNCHANGED <<staging, tip, cliVars, history>>

Spec == Init /\ [][Next]_vars
----
(* Properties. *)

\* REPAIR_PLAN.md: staging is cleared "only when the reference update
\* succeeded". Unless it was staged in the window in which a command no longer
\* reads and has not yet cleared, or while one held an earlier request for the
\* chunk, what was last asked of a chunk is still in the staging directory, or
\* in the world: through crashes and errors at any point, patches applied
\* again, commands that run at the same time, and commits of other programs.
NoRequestIsLost ==
    \A x \in Coords \ disputed :
        \/ tip[x] = wanted[x]
        \/ \E f \in Files : Mentions(f, x) /\ Staged(f) = wanted[x]

\* A patch is committed whole: when a command publishes, everything asked for
\* is in the world at once, although it read file by file while others edited
\* and cleared.
PatchIsWhole ==
    [][\A c \in Clis : Publish(c) =>
          \A x \in Coords \ disputed : tip'[x] = wanted[x]]_vars
====
