------------------------------- MODULE RegenCommit -----------------------------
(***************************************************************************)
(* workspace/regen-commit.py: runs a command and commits what it changed   *)
(* in an output repository, which others work in at the same time.  A file *)
(* has a content in the last commit, in the index and in the working tree. *)
(***************************************************************************)
EXTENDS FiniteSetsExt, Naturals

CONSTANTS
    Outputs         \* the files of the repository

VARIABLES
    head, index, work,  \* the content of each file, by who wrote it
    regen,              \* the run of the script
    staged              \* the files that others have staged

regenVars == <<head, index, work, regen, staged>>

Authors == {"nobody", "others", "command"}

\* git status --porcelain: a line for every file that is not clean, whose two letters
\* tell where it differs.
Line(p) == [path |-> p, staged |-> index[p] # head[p], changed |-> work[p] # index[p]]
RepoStatus == {l \in {Line(p) : p \in Outputs} : l.staged \/ l.changed}

RegenInit ==
    /\ head = [p \in Outputs |-> "nobody"] /\ index = head /\ work = head /\ staged = {}
    /\ regen = [at |-> "pre", pre |-> {}, new |-> {}, wrote |-> {}, committed |-> {}]

OtherWrites(p) ==
    work' = [work EXCEPT ![p] = "others"] /\ UNCHANGED <<head, index, regen, staged>>

OtherStages(p) ==
    /\ index' = [index EXCEPT ![p] = work[p]] /\ staged' = staged \cup {p}
    /\ UNCHANGED <<head, work, regen>>

\* _check_repos_clean_at_start
Snapshot ==
    /\ regen.at = "pre" /\ regen' = [regen EXCEPT !.at = "command", !.pre = RepoStatus]
    /\ UNCHANGED <<head, index, work, staged>>

\* The command writes some files; what one that fails has written stays where it is.
RunCommand ==
    /\ regen.at = "command"
    /\ \E ps \in SUBSET Outputs, end \in {"post", "failed"} :
           /\ work' = [p \in Outputs |-> IF p \in ps THEN "command" ELSE work[p]]
           /\ regen' = [regen EXCEPT !.at = end, !.wrote = ps]
    /\ UNCHANGED <<head, index, staged>>

\* MUTANT: whatever is dirty when the command has ended is taken for its work.
CompareWithNothing ==
    /\ regen.at = "post"
    /\ regen' = [regen EXCEPT !.at = IF RepoStatus = {} THEN "done" ELSE "add",
                              !.new = {l.path : l \in RepoStatus}]
    /\ UNCHANGED <<head, index, work, staged>>

\* post - pre: the lines that are new.
Compare ==
    /\ regen.at = "post"
    /\ LET new == {l.path : l \in RepoStatus \ regen.pre}
       IN  regen' = [regen EXCEPT !.at = IF new = {} THEN "done" ELSE "add", !.new = new]
    /\ UNCHANGED <<head, index, work, staged>>

\* commit_changes: git add of each of the paths, and a commit of the index.
AddOne ==
    /\ regen.at = "add"
    /\ \E p \in regen.new :
           /\ index' = [index EXCEPT ![p] = work[p]]
           /\ regen' = [regen EXCEPT !.new = @ \ {p},
                                     !.at = IF regen.new = {p} THEN "commit" ELSE "add"]
    /\ UNCHANGED <<head, work, staged>>

CommitIndex ==
    /\ regen.at = "commit"
    /\ head' = index
    /\ regen' = [regen EXCEPT !.at = "done",
                              !.committed = {p \in Outputs : index[p] # head[p]}]
    /\ UNCHANGED <<index, work, staged>>

RegenStep == Snapshot \/ RunCommand \/ Compare \/ AddOne \/ CommitIndex
RegenNext == RegenStep \/ \E p \in Outputs : OtherWrites(p) \/ OtherStages(p)

RegenSpec == RegenInit /\ [][RegenNext]_regenVars

--------------------------------------------------------------------------------
(* Properties. *)

DirtyBefore == {l.path : l \in regen.pre}

\* No commit holds a file that was dirty before the command ran, unless somebody staged it;
\* and every file that was clean and that the command wrote is in it.
OnlyTheNewWork ==
    regen.at = "done" =>
        /\ regen.committed \cap DirtyBefore \subseteq staged
        /\ regen.wrote \ DirtyBefore \subseteq regen.committed
================================================================================
