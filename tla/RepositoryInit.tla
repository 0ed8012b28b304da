---- MODULE RepositoryInit ----
(* initialize_repository, one file system call after the other: `init`     *)
(* commands that may die at any point and may run at the same time, and     *)
(* what validate_repository and read_head then accept.                      *)
EXTENDS Naturals, Sequences

CONSTANT Inits   \* the processes that run init

VARIABLES
    made,        \* what exists of the repository's directory
    step,        \* where each init is in Steps; 0 when it does not run
    overlapped   \* history: the running inits that did not run alone

initVars == <<made, step, overlapped>>

\* In the order they are made. Directories may exist already, and the last
\* two are replaced: nothing here fails because another init was faster.
Steps == <<".chunklog", "objects", "refs/heads", "staging", "FORMAT", "HEAD">>
Layout == {Steps[k] : k \in DOMAIN Steps}

InitUnderWay == {i \in Inits : step[i] # 0}

InitTypeOK == /\ made \subseteq Layout
              /\ step \in [Inits -> 0 .. Len(Steps)]
              /\ overlapped \subseteq Inits

NoRepository == /\ made = {}
                /\ step = [i \in Inits |-> 0]
                /\ overlapped = {}

\* Seeded fault: only a repository that is complete counts as existing.
ExistsComplete == "HEAD" \in made

\* chunklog_dir.exists()
Exists == ".chunklog" \in made

\* Otherwise the command is refused, and nothing changes.
InitStarts(i) ==
    /\ step[i] = 0
    /\ ~Exists
    /\ step' = [step EXCEPT ![i] = 1]
    /\ overlapped' = overlapped \union
          IF InitUnderWay = {} THEN {} ELSE InitUnderWay \union {i}
    /\ UNCHANGED made

InitMakes(i) ==
    /\ step[i] # 0
    /\ made' = made \union {Steps[step[i]]}
    /\ step' = [step EXCEPT ![i] = (@ + 1) % (Len(Steps) + 1)]
    /\ overlapped' = IF step[i] = Len(Steps) THEN overlapped \ {i} ELSE overlapped

\* An error or the end of the process. Nothing is taken back.
InitStops(i) ==
    /\ step[i] # 0
    /\ step' = [step EXCEPT ![i] = 0]
    /\ overlapped' = overlapped \ {i}
    /\ UNCHANGED made

InitStep(i) == InitStarts(i) \/ InitMakes(i) \/ InitStops(i)

\* Seeded fault: open does not read HEAD.
OpensByFormat == "FORMAT" \in made

\* validate_repository, then read_head. Like init, open creates the SQLite
\* file if it is not there.
Opens == {".chunklog", "FORMAT", "HEAD"} \subseteq made
----
(* Properties. *)

\* No half-made repository can be opened: whatever inits died or overlapped,
\* once open accepts the directory every part of it is there.
OpenedIsComplete == Opens => made = Layout

\* Only inits that looked at the same time can find each other's work: one
\* that ran alone never rewrites FORMAT, nor HEAD and with it the branch the
\* repository is on, however many inits died before it.
LoneInitOverwritesNothing ==
    [][\A i \in Inits :
          InitMakes(i) /\ Steps[step[i]] \in made => i \in overlapped]_initVars
====
