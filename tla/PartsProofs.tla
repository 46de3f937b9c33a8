------------------------------- MODULE PartsProofs -----------------------------
(***************************************************************************)
(* Theorems about the parts that MC_Parts checks: the generation manifest, *)
(* regen-commit.py, the experiments on fixtures, the review gate, the      *)
(* whole-record passes, the index of records, the refresh of a record      *)
(* block, the binding of claims, the parser of records, the cutting of     *)
(* chunks and the alignment of quotes.  The parts share no variable.       *)
(***************************************************************************)
EXTENDS GenerationManifest, RegenCommit, FixtureExperiment, ReviewGate, WholeRecord, RecordIndex,
        RefreshText, Accounts, RecordParser, Chunks, FiniteSetTheorems, WellFoundedInduction, TLAPS

--------------------------------------------------------------------------------
(* Sequences and sets. *)

Less == {ss \in Nat \X Nat : ss[1] < ss[2]}

\* A set of numbers that is not empty has a first one, and Min is it.
LEMMA MinIsFirst ==
    ASSUME NEW T, T \subseteq Nat, T # {}
    PROVE  Min(T) \in T /\ \A y \in T : Min(T) <= y
<1>1. IsWellFoundedOn(Less, Nat)
  BY NatLessThanWellFounded DEF OpToRel, Less
<1>2. PICK x \in T : \A y \in T : <<y, x>> \notin Less
  BY <1>1, WFMin, Zenon
<1>3. ASSUME NEW y \in T PROVE x <= y
  <2>1. x \in Nat /\ y \in Nat /\ <<y, x>> \notin Less
    BY <1>2, <1>3
  <2> QED BY <2>1 DEF Less
<1> QED BY <1>3 DEF Min

\* A set of numbers up to n that is not empty has a last one, and Max is it.
LEMMA MaxIsLast ==
    ASSUME NEW n \in Nat, NEW T, T \subseteq 0 .. n, T # {}
    PROVE  Max(T) \in T /\ \A y \in T : y <= Max(T)
<1> DEFINE Below == {n - x : x \in T}
<1>1. IsWellFoundedOn(Less, Nat)
  BY NatLessThanWellFounded DEF OpToRel, Less
<1>2. Below \subseteq Nat /\ Below # {}
  <2>1. ASSUME NEW x \in T PROVE n - x \in Nat
    OBVIOUS
  <2> QED BY <2>1
<1>3. PICK d \in Below : \A e \in Below : <<e, d>> \notin Less
  BY <1>1, <1>2, WFMin, Zenon
<1>4. PICK x \in T : d = n - x
  BY <1>3
<1>5. ASSUME NEW y \in T PROVE y <= x
  <2>1. n - y \in Below /\ <<n - y, n - x>> \notin Less
    BY <1>3, <1>4
  <2> QED BY <2>1 DEF Less
<1> QED BY <1>4, <1>5 DEF Max

\* The same of a set of numbers from 1 on.
LEMMA LastOne ==
    ASSUME NEW n \in Nat, NEW T, T \subseteq 1 .. n, T # {}
    PROVE  \E x \in T : \A y \in T : y <= x
<1>1. T \subseteq 0 .. n
  OBVIOUS
<1> QED BY <1>1, MaxIsLast

\* A finite set, as a sequence, has the elements of the set.
LEMMA SetAsSequence ==
    ASSUME NEW S, IsFiniteSet(S)
    PROVE  SetToSeq(S) \in Seq(S) /\ \A x \in S : \E i \in DOMAIN SetToSeq(S) : SetToSeq(S)[i] = x
<1>1. Cardinality(S) \in Nat /\ ExistsBijection(1 .. Cardinality(S), S)
  BY FS_CardinalityType
<1>2. \E f \in [1 .. Cardinality(S) -> S] : IsInjective(f)
  BY <1>1 DEF ExistsBijection, Bijection, Injection
<1>3. SetToSeq(S) \in [1 .. Cardinality(S) -> S] /\ IsInjective(SetToSeq(S))
  BY <1>2 DEF SetToSeq
<1>4. SetToSeq(S) \in Injection(1 .. Cardinality(S), S)
  BY <1>3 DEF Injection
<1>5. Cardinality(1 .. Cardinality(S)) = Cardinality(S)
  BY <1>1, FS_Interval
<1>6. SetToSeq(S) \in Surjection(1 .. Cardinality(S), S)
  BY <1>4, <1>5, FS_Injection
<1> QED BY <1>1, <1>3, <1>6 DEF Surjection

\* One sequence behind another.
LEMMA Concatenated ==
    ASSUME NEW S, NEW x \in Seq(S), NEW y \in Seq(S), NEW z, z = x \o y
    PROVE  /\ z \in Seq(S) /\ Len(z) = Len(x) + Len(y) /\ Len(x) \in Nat /\ Len(y) \in Nat
           /\ DOMAIN x = 1 .. Len(x) /\ DOMAIN y = 1 .. Len(y) /\ DOMAIN z = 1 .. Len(z)
           /\ \A i \in 1 .. Len(x) : z[i] = x[i]
           /\ \A i \in 1 .. Len(y) : z[Len(x) + i] = y[i]
OBVIOUS

--------------------------------------------------------------------------------
(* GenerationManifest: ensure_manifest, for any number of processes. *)

\* The inductive invariant holds of the root the processes find.
LEMMA ManInitInv == ManInit => ManInv
BY ManifestAssumption DEF ManInit, ManInv, ManTypeOK, ReturnedMeansCurrent, Manifest, Inodes, Pcs

\* No step of ensure_manifest, and no crash, breaks the invariant; and each is one that
\* AppearsWhole allows.
LEMMA ManStepInv ==
    ManInv /\ [ManNext]_manVars =>
        /\ ManInv'
        /\ Manifest' = Manifest \/ (Manifest = "absent" /\ Manifest' = "current")
<1> USE ManifestAssumption DEF ManTypeOK, Inodes, Pcs
<1>0. SUFFICES ASSUME ManInv, [ManNext]_manVars
               PROVE  /\ ManInv'
                      /\ Manifest' = Manifest \/ (Manifest = "absent" /\ Manifest' = "current")
  OBVIOUS
<1>1. ASSUME UNCHANGED manVars
      PROVE  /\ ManInv'
             /\ Manifest' = Manifest
  BY <1>0, <1>1 DEF manVars, ManInv, ReturnedMeansCurrent, Manifest
<1>2. ASSUME NEW p \in Procs, Check(p)
      PROVE  ManInv' /\ Manifest' = Manifest
  BY <1>0, <1>2 DEF Check, Goto, ManInv, ReturnedMeansCurrent, Manifest
<1>3. ASSUME NEW p \in Procs, ReadManifest(p)
      PROVE  ManInv' /\ Manifest' = Manifest
  BY <1>0, <1>3 DEF ReadManifest, Goto, ManInv, ReturnedMeansCurrent, Manifest
<1>4. ASSUME NEW p \in Procs, OpenTmp(p)
      PROVE  ManInv' /\ Manifest' = Manifest
  BY <1>0, <1>4 DEF OpenTmp, Goto, ManInv, ReturnedMeansCurrent, Manifest
<1>5. ASSUME NEW p \in Procs, WriteTmp(p)
      PROVE  ManInv' /\ Manifest' = Manifest
  BY <1>0, <1>5 DEF WriteTmp, Goto, ManInv, ReturnedMeansCurrent, Manifest
<1>6. ASSUME NEW p \in Procs, Replace(p)
      PROVE  ManInv' /\ Manifest' = "current"
  BY <1>0, <1>6 DEF Replace, Goto, ManInv, ReturnedMeansCurrent, Manifest
<1>7. ASSUME NEW p \in Procs, WriteFails(p)
      PROVE  ManInv' /\ Manifest' = Manifest
  BY <1>0, <1>7 DEF WriteFails, Goto, ManInv, ReturnedMeansCurrent, Manifest
<1>8. ASSUME NEW p \in Procs, Unlink(p)
      PROVE  ManInv' /\ Manifest' = Manifest
  BY <1>0, <1>8 DEF Unlink, Goto, ManInv, ReturnedMeansCurrent, Manifest
<1>9. ASSUME NEW p \in Procs, ManDie(p)
      PROVE  ManInv' /\ Manifest' = Manifest
  BY <1>0, <1>9 DEF ManDie, Goto, ManInv, ReturnedMeansCurrent, Manifest
<1>10. ASSUME NEW p \in Procs, Replace(p)
       PROVE  Manifest \in {"absent", "current"}
  BY <1>0, <1>10 DEF Replace, ManInv
<1> QED
  BY <1>0, <1>1, <1>2, <1>3, <1>4, <1>5, <1>6, <1>7, <1>8, <1>9, <1>10 DEF ManNext, ManStep

\* For any processes with pids of their own: the invariant holds throughout, and with
\* it ReturnedMeansCurrent.
THEOREM ManifestCorrect == ManSpec => []ManInv
<1>1. ManInv /\ [ManNext]_manVars => ManInv'
  BY ManStepInv
<1> QED
  BY ManInitInv, <1>1, PTL DEF ManSpec

\* Seen from outside, ensure_manifest creates the manifest whole in one step and never
\* changes one that is there (what DigestStore's EnsureManifest takes for granted).
THEOREM ManifestAtomicity == ManSpec => AppearsWhole
<1>1. ManInv /\ [ManNext]_manVars =>
          [Manifest' = Manifest \/ (Manifest = "absent" /\ Manifest' = "current")]_manVars
  BY ManStepInv
<1> QED
  BY ManifestCorrect, <1>1, PTL DEF ManSpec, AppearsWhole

--------------------------------------------------------------------------------
(* RegenCommit. *)

Dirty(l) == l.staged \/ l.changed
Places == {"pre", "command", "post", "add", "commit", "done", "failed"}
StatusLines == [path : Outputs, staged : BOOLEAN, changed : BOOLEAN]

RegenTypeOK ==
    /\ head \in [Outputs -> Authors] /\ index \in [Outputs -> Authors]
    /\ work \in [Outputs -> Authors] /\ staged \subseteq Outputs
    /\ regen \in [at : Places, pre : SUBSET StatusLines, new : SUBSET Outputs,
                  wrote : SUBSET Outputs, committed : SUBSET Outputs]

\* What was dirty before is in its lines, and what they call staged was staged by others.
LinesInv == \A l \in regen.pre : Dirty(l) /\ (l.staged => l.path \in staged)

\* Until the commit: what is in the index and not in the last commit was staged by others,
\* or is new, and what is new was clean before, or was staged by others.
IndexInv ==
    /\ regen.new \cap DirtyBefore \subseteq staged
    /\ regen.at # "done" => \A p \in Outputs :
           /\ head[p] = "nobody"
           /\ index[p] # "nobody" => p \in staged \/ p \notin DirtyBefore
           /\ index[p] # "nobody" /\ regen.at \in {"pre", "command", "post"} => p \in staged

\* Nobody puts back what the command wrote, and over what was clean it is all new.
WroteInv ==
    /\ regen.at # "done" => regen.committed = {} /\ \A p \in regen.wrote : work[p] # "nobody"
    /\ regen.at \in {"pre", "command"} => regen.wrote = {}
    /\ regen.at \in {"pre", "command", "post", "commit"} => regen.new = {}
    /\ regen.at \in {"add", "commit"} =>
           \A p \in regen.wrote \ DirtyBefore : p \in regen.new \/ index[p] # "nobody"

RegenInv == RegenTypeOK /\ LinesInv /\ IndexInv /\ WroteInv /\ OnlyTheNewWork

LEMMA RegenInitial == RegenInit => RegenInv
<1> SUFFICES ASSUME RegenInit PROVE RegenInv
  OBVIOUS
<1> USE DEF RegenInit
<1>1. RegenTypeOK
  BY DEF RegenTypeOK, Places, Authors
<1>2. LinesInv /\ IndexInv /\ WroteInv /\ OnlyTheNewWork
  BY DEF LinesInv, IndexInv, WroteInv, OnlyTheNewWork
<1> QED BY <1>1, <1>2 DEF RegenInv

\* What git status says of a file.
LEMMA LineFacts ==
    ASSUME NEW p \in Outputs
    PROVE  /\ Line(p) \in StatusLines /\ Line(p).path = p
           /\ Line(p).staged = (index[p] # head[p])
           /\ Line(p).changed = (work[p] # index[p])
<1>1. (index[p] # head[p]) \in BOOLEAN /\ (work[p] # index[p]) \in BOOLEAN
  BY Zenon
<1>2. \A a, b \in BOOLEAN : [path |-> p, staged |-> a, changed |-> b] \in StatusLines
  BY DEF StatusLines
<1> QED BY <1>1, <1>2, Zenon DEF Line

LEMMA StatusType ==
    /\ RepoStatus \subseteq StatusLines
    /\ \A l \in RepoStatus : Dirty(l) /\ l = Line(l.path) /\ l.path \in Outputs
<1> SUFFICES ASSUME NEW l \in RepoStatus
             PROVE  l \in StatusLines /\ Dirty(l) /\ l = Line(l.path) /\ l.path \in Outputs
  OBVIOUS
<1>1. PICK p \in Outputs : l = Line(p)
  BY Zenon DEF RepoStatus
<1>2. Dirty(l)
  BY Zenon DEF RepoStatus, Dirty
<1> QED BY <1>1, <1>2, LineFacts

LEMMA RegenTypeStep == ASSUME RegenTypeOK, [RegenNext]_regenVars PROVE RegenTypeOK'
<1> USE DEF RegenTypeOK, Places, Authors
<1>1. ASSUME NEW p \in Outputs, OtherWrites(p) \/ OtherStages(p) PROVE RegenTypeOK'
  BY <1>1 DEF OtherWrites, OtherStages
<1>2. CASE Snapshot
  BY <1>2, StatusType DEF Snapshot
<1>3. CASE RunCommand
  <2> PICK ps \in SUBSET Outputs, end \in {"post", "failed"} :
          /\ work' = [p \in Outputs |-> IF p \in ps THEN "command" ELSE work[p]]
          /\ regen' = [regen EXCEPT !.at = end, !.wrote = ps]
    BY <1>3 DEF RunCommand
  <2> QED BY <1>3 DEF RunCommand
<1>4. CASE Compare
  <2>1. {l.path : l \in RepoStatus \ regen.pre} \subseteq Outputs
    BY StatusType
  <2> DEFINE new == {l.path : l \in RepoStatus \ regen.pre}
  <2>2. regen' = [regen EXCEPT !.at = IF new = {} THEN "done" ELSE "add", !.new = new]
        /\ UNCHANGED <<head, index, work, staged>>
    BY <1>4 DEF Compare
  <2> HIDE DEF new
  <2>3. new \in SUBSET Outputs
    BY <2>1 DEF new
  <2> QED BY <2>2, <2>3
<1>5. CASE AddOne
  <2> PICK p \in regen.new :
          /\ index' = [index EXCEPT ![p] = work[p]]
          /\ regen' = [regen EXCEPT !.new = @ \ {p},
                                    !.at = IF regen.new = {p} THEN "commit" ELSE "add"]
    BY <1>5 DEF AddOne
  <2> QED BY <1>5 DEF AddOne
<1>6. CASE CommitIndex
  <2> DEFINE differing == {p \in Outputs : index[p] # head[p]}
  <2>1. regen' = [regen EXCEPT !.at = "done", !.committed = differing] /\ head' = index
        /\ UNCHANGED <<index, work, staged>>
    BY <1>6 DEF CommitIndex
  <2>2. differing \in SUBSET Outputs
    OBVIOUS
  <2> HIDE DEF differing
  <2> QED BY <2>1, <2>2
<1> QED
  BY <1>1, <1>2, <1>3, <1>4, <1>5, <1>6 DEF RegenNext, RegenStep, regenVars

\* A path that is new was clean before, or was staged meanwhile: otherwise its line is the
\* one it had; and all that the command wrote over what was clean is new.
LEMMA NewLines ==
    ASSUME RegenInv, regen.at = "post", NEW new,
           new = {l.path : l \in RepoStatus \ regen.pre}
    PROVE  /\ new \cap DirtyBefore \subseteq staged
           /\ regen.wrote \ DirtyBefore \subseteq new
<1> USE DEF RegenInv, RegenTypeOK
<1>1. ASSUME NEW p \in new, p \in DirtyBefore, p \notin staged PROVE FALSE
  <2>1. PICK l \in RepoStatus \ regen.pre : l.path = p
    BY <1>1
  <2>2. l = Line(p) /\ p \in Outputs
    BY <2>1, StatusType
  <2>3. PICK k \in regen.pre : k.path = p
    BY <1>1 DEF DirtyBefore
  <2>a. k \in StatusLines
    BY <2>3
  <2>b. ~k.staged /\ k.changed
    BY <1>1, <2>3, Zenon DEF Dirty, LinesInv
  <2>4. k.staged = FALSE /\ k.changed = TRUE
    BY <2>a, <2>b DEF StatusLines
  <2>5. index[p] = "nobody" /\ head[p] = "nobody"
    BY <1>1, <2>2 DEF IndexInv
  <2>6. l.staged = FALSE /\ l.changed = TRUE
    <3>1. l.staged = FALSE
      BY <2>2, <2>5, LineFacts
    <3>2. l.changed
      BY <2>1, <3>1, StatusType, Zenon DEF Dirty
    <3>3. l \in StatusLines
      BY <2>2, LineFacts
    <3> QED BY <3>1, <3>2, <3>3 DEF StatusLines
  <2>7. l = k
    BY <2>1, <2>2, <2>3, <2>a, <2>4, <2>6, LineFacts DEF StatusLines
  <2> QED BY <2>1, <2>3, <2>7
<1>2. ASSUME NEW p \in regen.wrote \ DirtyBefore PROVE p \in new
  <2>1. p \in Outputs /\ work[p] # "nobody" /\ head[p] = "nobody"
    BY DEF WroteInv, IndexInv
  <2>a. index[p] # head[p] \/ work[p] # index[p]
    BY <2>1
  <2>b. Line(p).staged \/ Line(p).changed
    BY <2>1, <2>a, LineFacts
  <2>2. Line(p) \in RepoStatus
    BY <2>1, <2>b, Zenon DEF RepoStatus
  <2>3. Line(p).path = p /\ Line(p) \notin regen.pre
    BY <1>2, <2>1, LineFacts DEF DirtyBefore
  <2> QED BY <2>2, <2>3
<1> QED BY <1>1, <1>2

LEMMA RegenStepInv == ASSUME RegenInv, [RegenNext]_regenVars PROVE RegenInv'
<1>0. RegenTypeOK'
  BY RegenTypeStep DEF RegenInv
<1> USE DEF RegenInv, RegenTypeOK
<1>1. ASSUME NEW p \in Outputs, OtherWrites(p) PROVE RegenInv'
  <2>1. UNCHANGED <<head, index, regen, staged, DirtyBefore>>
        /\ \A q \in Outputs : work'[q] # "nobody" \/ work'[q] = work[q]
    BY <1>1 DEF OtherWrites, DirtyBefore
  <2>2. LinesInv' /\ IndexInv' /\ OnlyTheNewWork'
    BY <2>1 DEF LinesInv, IndexInv, OnlyTheNewWork
  <2>3. WroteInv'
    BY <2>1 DEF WroteInv
  <2> QED BY <1>0, <2>2, <2>3
<1>2. ASSUME NEW p \in Outputs, OtherStages(p) PROVE RegenInv'
  <2>1. /\ UNCHANGED <<head, work, regen, DirtyBefore>> /\ staged' = staged \cup {p}
        /\ \A q \in Outputs : index'[q] = (IF q = p THEN work[p] ELSE index[q])
    BY <1>2 DEF OtherStages, DirtyBefore
  <2>2. LinesInv' /\ IndexInv' /\ OnlyTheNewWork'
    BY <2>1 DEF LinesInv, IndexInv, OnlyTheNewWork
  <2>3. WroteInv'
    BY <2>1 DEF WroteInv
  <2> QED BY <1>0, <2>2, <2>3
<1>3. CASE Snapshot
  <2>1. /\ UNCHANGED <<head, index, work, staged>> /\ regen.at = "pre"
        /\ regen' = [regen EXCEPT !.at = "command", !.pre = RepoStatus]
    BY <1>3 DEF Snapshot
  <2>2. \A l \in RepoStatus : Dirty(l) /\ (l.staged => l.path \in staged)
    <3> SUFFICES ASSUME NEW l \in RepoStatus, l.staged PROVE l.path \in staged
      BY StatusType
    <3>1. l.path \in Outputs /\ l = Line(l.path)
      BY StatusType
    <3>2. index[l.path] # head[l.path]
      BY <3>1, LineFacts, Zenon
    <3> QED BY <2>1, <3>1, <3>2 DEF IndexInv
  <2>3. LinesInv'
    BY <2>1, <2>2 DEF LinesInv
  <2>4. IndexInv' /\ WroteInv' /\ OnlyTheNewWork'
    BY <2>1 DEF IndexInv, WroteInv, OnlyTheNewWork
  <2> QED BY <1>0, <2>3, <2>4
<1>4. CASE RunCommand
  <2>1. PICK ps \in SUBSET Outputs, end \in {"post", "failed"} :
          /\ work' = [p \in Outputs |-> IF p \in ps THEN "command" ELSE work[p]]
          /\ regen' = [regen EXCEPT !.at = end, !.wrote = ps]
    BY <1>4 DEF RunCommand
  <2>2. UNCHANGED <<head, index, staged, DirtyBefore>> /\ regen.at = "command"
    BY <1>4, <2>1 DEF RunCommand, DirtyBefore
  <2>3. LinesInv' /\ IndexInv' /\ OnlyTheNewWork'
    BY <2>1, <2>2 DEF LinesInv, IndexInv, OnlyTheNewWork
  <2>4. WroteInv'
    BY <2>1, <2>2 DEF WroteInv
  <2> QED BY <1>0, <2>3, <2>4
<1>5. CASE Compare
  <2> DEFINE new == {l.path : l \in RepoStatus \ regen.pre}
  <2>1. /\ new \cap DirtyBefore \subseteq staged /\ regen.wrote \ DirtyBefore \subseteq new
    BY <1>5, NewLines DEF Compare
  <2>2. /\ regen' = [regen EXCEPT !.at = IF new = {} THEN "done" ELSE "add", !.new = new]
        /\ regen.at = "post" /\ UNCHANGED <<head, index, work, staged>>
    BY <1>5 DEF Compare
  <2> HIDE DEF new
  <2>3. UNCHANGED DirtyBefore
    BY <2>2 DEF DirtyBefore
  <2>4. LinesInv' /\ IndexInv'
    BY <2>1, <2>2, <2>3 DEF LinesInv, IndexInv
  <2>5. WroteInv' /\ OnlyTheNewWork'
    BY <2>1, <2>2, <2>3 DEF WroteInv, OnlyTheNewWork
  <2> QED BY <1>0, <2>4, <2>5
<1>6. CASE AddOne
  <2>1. PICK p \in regen.new :
          /\ index' = [index EXCEPT ![p] = work[p]]
          /\ regen' = [regen EXCEPT !.new = @ \ {p},
                                    !.at = IF regen.new = {p} THEN "commit" ELSE "add"]
    BY <1>6 DEF AddOne
  <2>2. UNCHANGED <<head, work, staged, DirtyBefore>> /\ regen.at = "add"
    BY <1>6, <2>1 DEF AddOne, DirtyBefore
  <2>3. LinesInv' /\ IndexInv' /\ OnlyTheNewWork'
    BY <2>1, <2>2 DEF LinesInv, IndexInv, OnlyTheNewWork
  <2>4. WroteInv'
    BY <2>1, <2>2 DEF WroteInv
  <2> QED BY <1>0, <2>3, <2>4
<1>7. CASE CommitIndex
  <2> DEFINE differing == {p \in Outputs : index[p] # head[p]}
  <2>1. /\ regen' = [regen EXCEPT !.at = "done", !.committed = differing]
        /\ regen.at = "commit" /\ UNCHANGED <<index, work, staged>>
    BY <1>7 DEF CommitIndex
  <2>2. differing \cap DirtyBefore \subseteq staged /\ regen.wrote \ DirtyBefore \subseteq differing
    BY <2>1 DEF IndexInv, WroteInv
  <2> HIDE DEF differing
  <2>3. UNCHANGED DirtyBefore
    BY <2>1 DEF DirtyBefore
  <2>4. LinesInv' /\ IndexInv' /\ WroteInv'
    BY <2>1, <2>3 DEF LinesInv, IndexInv, WroteInv
  <2>5. OnlyTheNewWork'
    BY <2>1, <2>2, <2>3 DEF OnlyTheNewWork
  <2> QED BY <1>0, <2>4, <2>5
<1>8. CASE UNCHANGED regenVars
  BY <1>0, <1>8 DEF regenVars, LinesInv, IndexInv, WroteInv, OnlyTheNewWork, DirtyBefore
<1> QED
  BY <1>1, <1>2, <1>3, <1>4, <1>5, <1>6, <1>7, <1>8 DEF RegenNext, RegenStep

\* No commit of the script holds a file that was dirty before, unless somebody staged it,
\* and what the command wrote over clean files is in it; whatever others do meanwhile.
THEOREM OnlyNewWorkIsCommitted == RegenSpec => []OnlyTheNewWork
<1>1. RegenInv => OnlyTheNewWork
  BY DEF RegenInv
<1> QED BY <1>1, RegenInitial, RegenStepInv, PTL DEF RegenSpec

--------------------------------------------------------------------------------
(* FixtureExperiment. *)

\* An experiment has no state of its own, or what it has found out so far.
Based == {x \in [at : {"mkdir", "extract"}, stub : BOOLEAN, fixture : Nat, for : Nat,
                 before : Scores] : x.for = x.fixture}
Scored == {x \in [at : {"report", "run", "exit 0", "exit 1"}, stub : BOOLEAN, fixture : Nat,
                  for : Nat, before : Scores, score : Scores] :
              /\ x.for = x.fixture
              /\ x.at = "exit 0" => \A d \in Dimensions : x.score[d] >= x.before[d]}
ExperimentStates ==
    {Waiting} \cup [at : {"refused", "failed", "killed"}]
        \cup [at : {"baseline"}, stub : BOOLEAN, fixture : Nat] \cup Based \cup Scored

NotWhole == [whole |-> FALSE]
Reports == [whole : {TRUE}, stub : BOOLEAN, fixture : Nat, for : Nat, before : Scores,
            score : Scores, digests : Scores]

\* A report has the hashes of the digests that were earned, whatever is edited later.
RunDirs == {d \in [taken : {TRUE}, by : Experiments, run : {"running", "complete", "failed"},
                   digests : {NotWhole} \cup [whole : {TRUE}, score : Scores],
                   earned : Scores \cup {<<>>}, report : {NotWhole} \cup Reports] :
               d.report.whole => d.report.digests = d.earned}

\* An experiment in the state x with the run directory d.
Owns(e, x, d) ==
    /\ x.at \in {"extract", "report", "run", "exit 0", "exit 1"} => d.taken /\ d.by = e
    /\ x.at \in {"extract", "report"} => ~d.report.whole
    /\ x.at = "report" => d.earned = x.score
    /\ x.at \in {"run", "exit 0", "exit 1"} => d.report.whole
    /\ x.at \in {"exit 0", "exit 1"} => d.run = "complete"

\* A report that was read is still there, but for its score.
StillThere(report, d) ==
    /\ d.taken /\ d.report.whole /\ d.report.digests = report.digests
    /\ d.report.fixture = report.fixture
AcceptStates ==
    {a \in [at : {"fixture", "digests", "publish"}, dir : RunIds, report : Reports] :
        /\ ~a.report.stub
        /\ a.at = "publish" => a.report.score = a.report.digests}

AcceptInv ==
    accept # Waiting => accept \in AcceptStates /\ StillThere(accept.report, dirs[accept.dir])

ExperimentInv ==
    /\ fixture \in Nat /\ responses \in Nat
    /\ baseline \in [fixture : Nat, score : Scores, stub : BOOLEAN]
    /\ experiment \in [Experiments -> ExperimentStates]
    /\ dirs \in [RunIds -> {NoDir} \cup RunDirs]
    /\ AcceptInv
    /\ \A e \in Experiments : Owns(e, experiment[e], dirs[RunId[e]])

LEMMA ExperimentInitial == ExperimentInit => ExperimentInv
<1> SUFFICES ASSUME ExperimentInit PROVE ExperimentInv
  OBVIOUS
<1>1. baseline \in [fixture : Nat, score : Scores, stub : BOOLEAN]
  BY DEF ExperimentInit
<1>2. \A e \in Experiments : experiment[e] = Waiting /\ Owns(e, Waiting, dirs[RunId[e]])
  BY DEF ExperimentInit, Owns, Waiting
<1> QED BY <1>1, <1>2 DEF ExperimentInit, ExperimentInv, ExperimentStates, AcceptInv

\* A step of one experiment that leaves the directories alone, ...
LEMMA StateOnly ==
    ASSUME ExperimentInv, NEW e \in Experiments, NEW x \in ExperimentStates, Set(e, x),
           Owns(e, x, dirs[RunId[e]]),
           UNCHANGED <<baseline, dirs, accept>>, UNCHANGED Inputs
    PROVE  ExperimentInv'
<1>1. experiment' \in [Experiments -> ExperimentStates]
  BY DEF ExperimentInv, Set
<1>2. ASSUME NEW f \in Experiments PROVE Owns(f, experiment'[f], dirs'[RunId[f]])
  BY DEF ExperimentInv, Set
<1>3. AcceptInv'
  BY DEF ExperimentInv, AcceptInv
<1> QED BY <1>1, <1>2, <1>3 DEF ExperimentInv, Inputs

\* ... and one that changes its own, or takes one, and no report that is there.
LEMMA OwnDirectory ==
    ASSUME ExperimentInv, NEW e \in Experiments, NEW x \in ExperimentStates, Set(e, x),
           NEW d \in RunDirs, d.by = e, dirs' = [dirs EXCEPT ![RunId[e]] = d],
           dirs[RunId[e]] = NoDir \/ dirs[RunId[e]].by = e,
           dirs[RunId[e]].taken /\ dirs[RunId[e]].report.whole => d.report = dirs[RunId[e]].report,
           Owns(e, x, d), UNCHANGED <<baseline, accept>>, UNCHANGED Inputs
    PROVE  ExperimentInv'
<1> DEFINE i == RunId[e]
<1>0. i \in RunIds
  BY ExperimentAssumption
<1>1. experiment' \in [Experiments -> ExperimentStates] /\ dirs' \in [RunIds -> {NoDir} \cup RunDirs]
  BY DEF ExperimentInv, Set
<1>2. ASSUME NEW f \in Experiments PROVE Owns(f, experiment'[f], dirs'[RunId[f]])
  <2>1. Owns(f, experiment[f], dirs[RunId[f]])
    BY DEF ExperimentInv
  <2>2. CASE f = e
    BY <1>0, <2>2 DEF ExperimentInv, Set
  <2>3. CASE f # e /\ RunId[f] # i
    BY <2>1, <2>3, <1>0 DEF ExperimentInv, Set
  <2>4. CASE f # e /\ RunId[f] = i
    <3>1. experiment'[f] = experiment[f]
      BY <2>4 DEF ExperimentInv, Set
    <3>2. experiment[f].at \notin {"extract", "report", "run", "exit 0", "exit 1"}
      <4> SUFFICES ASSUME experiment[f].at \in {"extract", "report", "run", "exit 0", "exit 1"}
                   PROVE  FALSE
        OBVIOUS
      <4>1. dirs[i].taken /\ dirs[i].by = f
        BY <2>1, <2>4 DEF Owns
      <4>2. ~NoDir.taken
        BY DEF NoDir
      <4> QED BY <2>4, <4>1, <4>2
    <3> QED BY <3>1, <3>2 DEF Owns
  <2> QED BY <2>2, <2>3, <2>4
<1>3. AcceptInv'
  <2> SUFFICES ASSUME accept # Waiting
               PROVE  accept \in AcceptStates /\ StillThere(accept.report, dirs'[accept.dir])
    BY DEF AcceptInv
  <2>1. accept \in AcceptStates /\ StillThere(accept.report, dirs[accept.dir])
        /\ accept.dir \in RunIds
    BY DEF ExperimentInv, AcceptInv, AcceptStates
  <2>2. CASE accept.dir # i
    <3>1. dirs'[accept.dir] = dirs[accept.dir]
      BY <2>1, <2>2, <1>0 DEF ExperimentInv
    <3> QED BY <2>1, <3>1, Zenon
  <2>3. CASE accept.dir = i
    <3>1. dirs'[accept.dir] = d
      BY <2>3, <1>0 DEF ExperimentInv
    <3>2. d.report = dirs[i].report /\ d.taken
      BY <2>1, <2>3 DEF StillThere, RunDirs
    <3> QED BY <2>1, <2>3, <3>1, <3>2 DEF StillThere
  <2> QED BY <2>2, <2>3
<1> QED BY <1>1, <1>2, <1>3 DEF ExperimentInv, Inputs

\* What an experiment knows in each of its states, and that a directory it has is a whole one.
LEMMA StateAt ==
    ASSUME NEW x \in ExperimentStates
    PROVE  /\ x.at = "baseline" => x \in [at : {"baseline"}, stub : BOOLEAN, fixture : Nat]
           /\ x.at \in {"mkdir", "extract"} => x \in Based
           /\ x.at \in {"report", "run", "exit 0", "exit 1"} => x \in Scored
<1>1. Waiting.at = "idle"
  BY DEF Waiting
<1>2. \A y \in [at : {"refused", "failed", "killed"}] : y.at \in {"refused", "failed", "killed"}
  OBVIOUS
<1>3. \A y \in [at : {"baseline"}, stub : BOOLEAN, fixture : Nat] : y.at = "baseline"
  OBVIOUS
<1>4. \A y \in Based : y.at \in {"mkdir", "extract"}
  BY DEF Based
<1>5. \A y \in Scored : y.at \in {"report", "run", "exit 0", "exit 1"}
  BY DEF Scored
<1> QED BY <1>1, <1>2, <1>3, <1>4, <1>5 DEF ExperimentStates

LEMMA OwnsOne ==
    ASSUME NEW e, NEW x, NEW d \in {NoDir} \cup RunDirs, Owns(e, x, d),
           x.at \in {"extract", "report", "run"}
    PROVE  d \in RunDirs /\ d.by = e
<1>1. d.taken /\ d.by = e
  BY DEF Owns
<1>2. ~NoDir.taken
  BY DEF NoDir
<1> QED BY <1>1, <1>2

LEMMA RunStep == ASSUME ExperimentInv, NEW e \in Experiments, Run(e) PROVE ExperimentInv'
<1> DEFINE x == experiment[e]
           i == RunId[e]
<1>0. /\ x \in ExperimentStates /\ Owns(e, x, dirs[i]) /\ i \in RunIds
      /\ dirs[i] \in {NoDir} \cup RunDirs
  BY ExperimentAssumption DEF ExperimentInv
<1>1. CASE BeginExperiment(e)
  <2>1. PICK stub \in BOOLEAN : Set(e, [at |-> "baseline", stub |-> stub, fixture |-> fixture])
    BY <1>1 DEF BeginExperiment
  <2>2. [at |-> "baseline", stub |-> stub, fixture |-> fixture] \in ExperimentStates
    BY DEF ExperimentInv, ExperimentStates
  <2>3. Owns(e, [at |-> "baseline", stub |-> stub, fixture |-> fixture], dirs[i])
    BY DEF Owns
  <2> QED BY <1>1, <2>1, <2>2, <2>3, StateOnly DEF BeginExperiment
<1>2. ASSUME NEW verdict \in {"refused", "failed", "killed"}
      PROVE  [at |-> verdict] \in ExperimentStates /\ \A d : Owns(e, [at |-> verdict], d)
  BY DEF ExperimentStates, Owns
<1>3. CASE LoadBaseline(e)
  <2> DEFINE fits == x.fixture = (IF x.stub THEN 0 ELSE baseline.fixture) /\ (x.stub => responses = 0)
             y == [at |-> "mkdir", stub |-> x.stub, fixture |-> x.fixture,
                   for |-> IF x.stub THEN 0 ELSE baseline.fixture,
                   before |-> IF x.stub THEN StubScore ELSE baseline.score]
  <2>1. Set(e, IF ~fits THEN [at |-> "refused"] ELSE y)
    BY <1>3 DEF LoadBaseline
  <2>2. x \in [at : {"baseline"}, stub : BOOLEAN, fixture : Nat]
    BY <1>0, <1>3, StateAt DEF LoadBaseline
  <2>3. StubScore \in Scores
    BY ExperimentAssumption DEF StubScore, Scores
  <2>4. fits => y \in Based /\ Owns(e, y, dirs[i])
    BY <2>2, <2>3 DEF ExperimentInv, Based, Owns
  <2> HIDE DEF y, fits
  <2>5. CASE fits
    BY <1>3, <2>1, <2>4, <2>5, StateOnly DEF LoadBaseline, ExperimentStates
  <2>6. CASE ~fits
    BY <1>2, <1>3, <2>1, <2>6, StateOnly DEF LoadBaseline
  <2> QED BY <2>5, <2>6
<1>4. CASE MakeRunDir(e)
  <2>1. x \in Based /\ x.at = "mkdir"
    BY <1>0, <1>4, StateAt DEF MakeRunDir
  <2>2. CASE dirs[i].taken
    BY <1>2, <1>4, <2>2, StateOnly DEF MakeRunDir
  <2>3. CASE ~dirs[i].taken
    <3>1. dirs[i] = NoDir
      BY <1>0, <2>3 DEF RunDirs
    <3>2. NewDir(e) \in RunDirs /\ NewDir(e).by = e
      BY DEF NewDir, RunDirs, NotWhole
    <3>3. [x EXCEPT !.at = "extract"] \in ExperimentStates
      BY <2>1 DEF Based, ExperimentStates
    <3>4. Owns(e, [x EXCEPT !.at = "extract"], NewDir(e))
      BY <2>1 DEF Owns, NewDir, Based
    <3> QED
      BY <1>4, <2>3, <3>1, <3>2, <3>3, <3>4, OwnDirectory DEF MakeRunDir, NoDir
  <2> QED BY <2>2, <2>3
<1>5. CASE ExtractCases(e)
  <2>1. PICK s \in Scores :
          /\ dirs' = [dirs EXCEPT ![i].digests = [whole |-> TRUE, score |-> s], ![i].earned = s]
          /\ Set(e, [at |-> "report", stub |-> x.stub, for |-> x.for, fixture |-> x.fixture,
                     before |-> x.before, score |-> s])
    BY <1>5 DEF ExtractCases
  <2> DEFINE y == [at |-> "report", stub |-> x.stub, for |-> x.for, fixture |-> x.fixture,
                   before |-> x.before, score |-> s]
             d == [dirs[i] EXCEPT !.digests = [whole |-> TRUE, score |-> s], !.earned = s]
  <2>2. x \in Based /\ x.at = "extract"
    BY <1>0, <1>5, StateAt DEF ExtractCases
  <2>3. dirs[i] \in RunDirs /\ dirs[i].by = e /\ ~dirs[i].report.whole
    BY <1>0, <2>2 DEF Owns, NoDir
  <2>4. y \in ExperimentStates
    BY <2>2 DEF Based, Scored, ExperimentStates
  <2>5. d \in RunDirs /\ d.by = e
    BY <2>3 DEF RunDirs
  <2>6. Owns(e, y, d)
    BY <2>3 DEF Owns, RunDirs
  <2>7. dirs' = [dirs EXCEPT ![i] = d]
    BY <1>0, <2>1 DEF ExperimentInv
  <2> HIDE DEF y, d
  <2>8. Set(e, y)
    BY <2>1 DEF y
  <2> QED BY <1>5, <2>3, <2>4, <2>5, <2>6, <2>7, <2>8, OwnDirectory DEF ExtractCases
<1>6. CASE WriteReport(e)
  <2> DEFINE report == [whole |-> TRUE, stub |-> x.stub, fixture |-> x.fixture, for |-> x.for,
                        before |-> x.before, score |-> x.score, digests |-> x.score]
             y == [x EXCEPT !.at = "run"]
             d == [dirs[i] EXCEPT !.report = report]
  <2>1. x \in Scored /\ x.at = "report"
    BY <1>0, <1>6, StateAt DEF WriteReport
  <2>2. dirs[i] \in RunDirs /\ dirs[i].by = e /\ ~dirs[i].report.whole /\ dirs[i].earned = x.score
    BY <1>0, <2>1 DEF Owns, NoDir
  <2>3. report \in Reports /\ report.digests = x.score /\ report.whole
    BY <2>1 DEF Scored, Reports
  <2> HIDE DEF report
  <2>4. d \in RunDirs /\ d.by = e /\ d.report.whole
    BY <2>2, <2>3 DEF RunDirs
  <2>5. y \in ExperimentStates
    BY <2>1 DEF Scored, ExperimentStates
  <2>6. Owns(e, y, d)
    BY <2>1, <2>4 DEF Owns, Scored, RunDirs
  <2>7. dirs' = [dirs EXCEPT ![i] = d]
    BY <1>0, <1>6 DEF WriteReport, ExperimentInv, report
  <2> HIDE DEF y, d
  <2>8. Set(e, y)
    BY <1>6 DEF WriteReport, y
  <2> QED BY <1>6, <2>2, <2>4, <2>5, <2>6, <2>7, <2>8, OwnDirectory DEF WriteReport
<1>7. CASE WriteRun(e)
  <2> DEFINE end == IF Outcome(x.score, x.before) \in {"worse", "mixed"} THEN "exit 1" ELSE "exit 0"
             y == [x EXCEPT !.at = end]
             d == [dirs[i] EXCEPT !.run = "complete"]
  <2>1. x \in Scored /\ x.at = "run"
    BY <1>0, <1>7, StateAt DEF WriteRun
  <2>2. dirs[i] \in RunDirs /\ dirs[i].by = e /\ dirs[i].report.whole
    BY <1>0, <2>1 DEF Owns, NoDir
  <2>3. end = "exit 0" => \A k \in Dimensions : x.score[k] >= x.before[k]
    <3> SUFFICES ASSUME end = "exit 0", NEW k \in Dimensions, ~(x.score[k] >= x.before[k])
                 PROVE  FALSE
      OBVIOUS
    <3>1. k \in Worse(x.score, x.before)
      <4>1. x.score \in [Dimensions -> 0 .. MaxRate] /\ x.before \in [Dimensions -> 0 .. MaxRate]
        BY <2>1 DEF Scored, Scores
      <4>2. x.score[k] \in Nat /\ x.before[k] \in Nat
        BY <4>1, ExperimentAssumption
      <4> QED BY <4>2 DEF Worse
    <3>2. Outcome(x.score, x.before) \in {"worse", "mixed"}
      BY <3>1 DEF Outcome
    <3> QED BY <3>2
  <2>4. end \in {"exit 0", "exit 1"}
    OBVIOUS
  <2>5. dirs' = [dirs EXCEPT ![i] = d] /\ Set(e, y)
    BY <1>0, <1>7 DEF WriteRun, ExperimentInv
  <2> HIDE DEF end
  <2>6. y \in ExperimentStates
    BY <2>1, <2>3, <2>4 DEF Scored, ExperimentStates
  <2>7. d \in RunDirs /\ d.by = e /\ d.report = dirs[i].report /\ d.run = "complete" /\ d.taken
    BY <2>2 DEF RunDirs
  <2>8. Owns(e, y, d)
    BY <2>1, <2>2, <2>4, <2>7 DEF Owns, Scored
  <2> HIDE DEF y, d
  <2> QED BY <1>7, <2>2, <2>5, <2>6, <2>7, <2>8, OwnDirectory DEF WriteRun
<1>8. CASE FailExperiment(e)
  <2> DEFINE d == [dirs[i] EXCEPT !.run = "failed"]
  <2>1. dirs[i] \in RunDirs /\ dirs[i].by = e
    BY <1>0, <1>8, OwnsOne DEF FailExperiment
  <2>2. dirs' = [dirs EXCEPT ![i] = d] /\ Set(e, [at |-> "failed"])
    BY <1>0, <1>8 DEF FailExperiment, ExperimentInv
  <2>3. d \in RunDirs /\ d.by = e /\ d.report = dirs[i].report
    BY <2>1 DEF RunDirs
  <2> HIDE DEF d
  <2> QED BY <1>2, <1>8, <2>1, <2>2, <2>3, OwnDirectory DEF FailExperiment
<1>9. CASE KillExperiment(e)
  BY <1>2, <1>9, StateOnly DEF KillExperiment
<1> QED
  BY <1>1, <1>3, <1>4, <1>5, <1>6, <1>7, <1>8, <1>9 DEF Run

LEMMA AcceptStep ==
    ASSUME ExperimentInv, NEW next \in {Waiting} \cup AcceptStates, accept' = next,
           next # Waiting => StillThere(next.report, dirs[next.dir]),
           UNCHANGED <<dirs, experiment>>, UNCHANGED Inputs,
           baseline' \in [fixture : Nat, score : Scores, stub : BOOLEAN]
    PROVE  ExperimentInv'
<1>1. AcceptInv'
  BY DEF AcceptInv
<1> QED BY <1>1 DEF ExperimentInv, Inputs

LEMMA ExperimentStep == ASSUME ExperimentInv, [ExperimentNext]_experimentVars PROVE ExperimentInv'
<1>0. baseline \in [fixture : Nat, score : Scores, stub : BOOLEAN]
  BY DEF ExperimentInv
<1>1. ASSUME NEW e \in Experiments, Run(e) PROVE ExperimentInv'
  BY <1>1, RunStep
<1>2. ASSUME NEW i \in RunIds, EditArtefact(i) PROVE ExperimentInv'
  <2>1. PICK s \in Scores :
           \/ /\ dirs[i].taken /\ dirs[i].digests.whole
              /\ dirs' = [dirs EXCEPT ![i].digests = [@ EXCEPT !.score = s]]
           \/ /\ dirs[i].taken /\ dirs[i].report.whole
              /\ dirs' = [dirs EXCEPT ![i].report = [@ EXCEPT !.score = s]]
    BY <1>2 DEF EditArtefact
  <2>2. dirs[i] \in RunDirs
    <3>1. ~NoDir.taken /\ dirs[i] \in {NoDir} \cup RunDirs
      BY DEF NoDir, ExperimentInv
    <3> QED BY <2>1, <3>1
  <2>3. PICK d \in RunDirs :
           /\ dirs' = [dirs EXCEPT ![i] = d] /\ d.by = dirs[i].by /\ d.taken
           /\ d.run = dirs[i].run /\ d.earned = dirs[i].earned
           /\ d.report.whole = dirs[i].report.whole
           /\ d.report.whole => /\ d.report.digests = dirs[i].report.digests
                               /\ d.report.fixture = dirs[i].report.fixture
    <3>1. CASE dirs[i].digests.whole /\ dirs' = [dirs EXCEPT ![i].digests = [@ EXCEPT !.score = s]]
      <4> DEFINE digests == [dirs[i].digests EXCEPT !.score = s]
                 d == [dirs[i] EXCEPT !.digests = digests]
      <4>1. dirs[i].digests \in [whole : {TRUE}, score : Scores]
        <5>1. dirs[i].digests \in {NotWhole} \cup [whole : {TRUE}, score : Scores]
          BY <2>2 DEF RunDirs
        <5>2. ~NotWhole.whole
          BY DEF NotWhole
        <5> QED BY <3>1, <5>1, <5>2, Zenon
      <4>2. digests \in [whole : {TRUE}, score : Scores]
        BY <4>1
      <4>3. dirs' = [dirs EXCEPT ![i].digests = digests]
        BY <3>1
      <4> HIDE DEF digests
      <4>4. dirs' = [dirs EXCEPT ![i] = d]
        BY <4>3 DEF ExperimentInv
      <4>5. d \in RunDirs /\ d.report = dirs[i].report /\ d.by = dirs[i].by /\ d.taken
            /\ d.run = dirs[i].run /\ d.earned = dirs[i].earned
        BY <2>2, <4>2 DEF RunDirs
      <4> QED BY <4>4, <4>5
    <3>2. CASE dirs[i].report.whole /\ dirs' = [dirs EXCEPT ![i].report = [@ EXCEPT !.score = s]]
      <4> DEFINE report == [dirs[i].report EXCEPT !.score = s]
                 d == [dirs[i] EXCEPT !.report = report]
      <4>1. dirs[i].report \in Reports
        <5>1. dirs[i].report \in {NotWhole} \cup Reports
          BY <2>2 DEF RunDirs
        <5>2. ~NotWhole.whole
          BY DEF NotWhole
        <5> QED BY <3>2, <5>1, <5>2, Zenon
      <4>2. report \in Reports /\ report.digests = dirs[i].report.digests
            /\ report.fixture = dirs[i].report.fixture /\ report.whole = TRUE
        BY <4>1 DEF Reports
      <4>3. dirs' = [dirs EXCEPT ![i].report = report]
        BY <3>2
      <4> HIDE DEF report
      <4>4. dirs' = [dirs EXCEPT ![i] = d]
        BY <4>3 DEF ExperimentInv
      <4>5. d \in RunDirs /\ d.report = report /\ d.by = dirs[i].by /\ d.taken
            /\ d.run = dirs[i].run /\ d.earned = dirs[i].earned
        BY <2>2, <3>2, <4>2 DEF RunDirs
      <4>6. dirs[i].report.whole = TRUE
        BY <4>1 DEF Reports
      <4> HIDE DEF d
      <4> QED BY <4>2, <4>4, <4>5, <4>6
    <3> QED BY <2>1, <3>1, <3>2
  <2>4. dirs' \in [RunIds -> {NoDir} \cup RunDirs]
    BY <2>3 DEF ExperimentInv
  <2>5. ASSUME NEW e \in Experiments PROVE Owns(e, experiment'[e], dirs'[RunId[e]])
    <3>1. Owns(e, experiment[e], dirs[RunId[e]]) /\ RunId[e] \in RunIds /\ experiment' = experiment
      BY <1>2, ExperimentAssumption DEF ExperimentInv, EditArtefact
    <3>2. CASE RunId[e] = i
      <4>1. dirs'[RunId[e]] = d
        BY <2>3, <3>2 DEF ExperimentInv
      <4> QED BY <2>2, <2>3, <3>1, <3>2, <4>1 DEF Owns
    <3>3. CASE RunId[e] # i
      BY <2>3, <3>1, <3>3 DEF ExperimentInv
    <3> QED BY <3>2, <3>3
  <2>6. AcceptInv'
    <3> SUFFICES ASSUME accept # Waiting
                 PROVE  accept \in AcceptStates /\ StillThere(accept.report, dirs'[accept.dir])
      BY <1>2 DEF AcceptInv, EditArtefact
    <3>1. accept \in AcceptStates /\ StillThere(accept.report, dirs[accept.dir])
          /\ accept.dir \in RunIds
      BY DEF ExperimentInv, AcceptInv, AcceptStates
    <3>2. CASE accept.dir = i
      <4>1. dirs'[accept.dir] = d
        BY <2>3, <3>2 DEF ExperimentInv
      <4> QED BY <2>3, <3>1, <3>2, <4>1 DEF StillThere
    <3>3. CASE accept.dir # i
      <4>1. dirs'[accept.dir] = dirs[accept.dir]
        BY <2>3, <3>1, <3>3 DEF ExperimentInv
      <4> QED BY <3>1, <4>1, Zenon
    <3> QED BY <3>2, <3>3
  <2> QED BY <1>2, <2>4, <2>5, <2>6 DEF EditArtefact, ExperimentInv
<1>3. ASSUME NEW i \in RunIds, ReadReport(i) PROVE ExperimentInv'
  <2> DEFINE next == [at |-> "fixture", dir |-> i, report |-> dirs[i].report]
  <2>1. ~NoDir.taken /\ dirs[i] \in {NoDir} \cup RunDirs /\ dirs[i].taken /\ dirs[i].report.whole
        /\ ~dirs[i].report.stub
    BY <1>3 DEF NoDir, ExperimentInv, ReadReport
  <2>2. dirs[i].report \in Reports
    <3>1. ~NotWhole.whole
      BY DEF NotWhole
    <3>2. dirs[i] \in RunDirs
      BY <2>1, Zenon
    <3>3. dirs[i].report \in {NotWhole} \cup Reports
      BY <3>2 DEF RunDirs
    <3> QED BY <2>1, <3>1, <3>3, Zenon
  <2>3. next \in AcceptStates /\ StillThere(next.report, dirs[next.dir])
    BY <2>1, <2>2 DEF AcceptStates, StillThere
  <2>4. accept' = next /\ UNCHANGED <<baseline, dirs, experiment>> /\ UNCHANGED Inputs
    BY <1>3 DEF ReadReport
  <2> HIDE DEF next
  <2> QED BY <1>0, <2>3, <2>4, AcceptStep
<1>4. ASSUME accept # Waiting PROVE accept \in AcceptStates /\ StillThere(accept.report, dirs[accept.dir])
  BY <1>4 DEF ExperimentInv, AcceptInv
<1>5. Waiting.at = "idle"
  BY DEF Waiting
<1>6. CASE ReadFixture
  <2>1. accept \in AcceptStates /\ StillThere(accept.report, dirs[accept.dir])
    BY <1>4, <1>5, <1>6 DEF ReadFixture
  <2>2. [accept EXCEPT !.at = "digests"] \in AcceptStates
        /\ StillThere([accept EXCEPT !.at = "digests"].report, dirs[[accept EXCEPT !.at = "digests"].dir])
    BY <2>1 DEF AcceptStates
  <2> QED BY <1>0, <1>6, <2>2, AcceptStep DEF ReadFixture
<1>7. CASE Rescore
  <2>1. accept \in AcceptStates /\ StillThere(accept.report, dirs[accept.dir])
    BY <1>4, <1>5, <1>7 DEF Rescore
  <2>2. accept.report.digests = accept.report.score =>
            /\ [accept EXCEPT !.at = "publish"] \in AcceptStates
            /\ StillThere([accept EXCEPT !.at = "publish"].report, dirs[[accept EXCEPT !.at = "publish"].dir])
    BY <2>1 DEF AcceptStates
  <2> QED BY <1>0, <1>7, <2>2, AcceptStep DEF Rescore
<1>8. CASE Publish
  <2>1. accept \in AcceptStates
    BY <1>4, <1>5, <1>8 DEF Publish
  <2>2. baseline' \in [fixture : Nat, score : Scores, stub : BOOLEAN]
    BY <1>8, <2>1 DEF Publish, AcceptStates, Reports
  <2> QED BY <1>8, <2>2, AcceptStep DEF Publish
<1>9. CASE EditInputs
  <2>1. AcceptInv'
    BY <1>9 DEF EditInputs, ExperimentInv, AcceptInv
  <2> QED BY <1>9, <2>1 DEF EditInputs, ExperimentInv
<1>10. CASE UNCHANGED experimentVars
  <2>1. AcceptInv'
    BY <1>10 DEF experimentVars, ExperimentInv, AcceptInv
  <2> QED BY <1>10, <2>1 DEF experimentVars, ExperimentInv
<1> QED
  BY <1>1, <1>2, <1>3, <1>6, <1>7, <1>8, <1>9, <1>10 DEF ExperimentNext

\* An experiment that exits 0 has not regressed against the baseline it found for its
\* fixture, and leaves its own, complete directory.
THEOREM ExperimentsAlwaysComparable == ExperimentSpec => []ExperimentsAreComparable
<1>1. ASSUME ExperimentInv PROVE ExperimentsAreComparable
  <2> SUFFICES ASSUME NEW e \in Experiments
               PROVE  /\ experiment[e].at = "exit 0" =>
                             \A d \in Dimensions : experiment[e].score[d] >= experiment[e].before[d]
                      /\ experiment[e].at \in {"extract", "report", "run", "exit 0", "exit 1"} =>
                             /\ experiment[e].for = experiment[e].fixture
                             /\ dirs[RunId[e]].taken /\ dirs[RunId[e]].by = e
                      /\ experiment[e].at \in {"exit 0", "exit 1"} =>
                             dirs[RunId[e]].run = "complete" /\ dirs[RunId[e]].report.whole
    BY DEF ExperimentsAreComparable
  <2>1. experiment[e] \in ExperimentStates /\ Owns(e, experiment[e], dirs[RunId[e]])
    BY <1>1 DEF ExperimentInv
  <2>2. experiment[e].at = "exit 0" =>
            \A d \in Dimensions : experiment[e].score[d] >= experiment[e].before[d]
    BY <2>1, StateAt DEF Scored
  <2>3. experiment[e].at \in {"extract", "report", "run", "exit 0", "exit 1"} =>
            experiment[e].for = experiment[e].fixture
    BY <2>1, StateAt DEF Scored, Based
  <2> QED BY <2>1, <2>2, <2>3 DEF Owns
<1> QED BY <1>1, ExperimentInitial, ExperimentStep, PTL DEF ExperimentSpec

\* A baseline is of a model's run and has the score its digests earned, whatever was edited.
THEOREM BaselinesAreEarned == ExperimentSpec => BaselineIsEarned
<1>1. ASSUME ExperimentInv, [ExperimentNext]_experimentVars, baseline' # baseline
      PROVE  /\ ~baseline'.stub /\ baseline'.score = dirs[accept.dir].earned
             /\ dirs[accept.dir].report.fixture = baseline'.fixture
  <2>1. Publish
    BY <1>1 DEF ExperimentNext, experimentVars, Run, BeginExperiment, LoadBaseline, MakeRunDir,
        ExtractCases, WriteReport, WriteRun, FailExperiment, KillExperiment, EditArtefact,
        ReadReport, EditInputs, ReadFixture, Rescore
  <2>2. accept # Waiting
    BY <2>1 DEF Publish, Waiting
  <2>3. accept \in AcceptStates /\ accept.at = "publish" /\ accept.dir \in RunIds
        /\ StillThere(accept.report, dirs[accept.dir])
    BY <1>1, <2>1, <2>2 DEF ExperimentInv, AcceptInv, Publish, AcceptStates
  <2>4. dirs[accept.dir] \in RunDirs
    <3>1. ~NoDir.taken /\ dirs[accept.dir] \in {NoDir} \cup RunDirs
      BY <1>1, <2>3 DEF NoDir, ExperimentInv
    <3> QED BY <2>3, <3>1 DEF StillThere
  <2>5. ~accept.report.stub /\ accept.report.score = dirs[accept.dir].earned
    BY <2>3, <2>4 DEF AcceptStates, StillThere, RunDirs
  <2> QED BY <2>1, <2>3, <2>5 DEF Publish, StillThere
<1>2. ExperimentInv /\ [ExperimentNext]_experimentVars =>
          [baseline' # baseline =>
               /\ ~baseline'.stub /\ baseline'.score = dirs[accept.dir].earned
               /\ dirs[accept.dir].report.fixture = baseline'.fixture]_experimentVars
  BY <1>1
<1> QED
  BY <1>2, ExperimentInitial, ExperimentStep, PTL DEF ExperimentSpec, BaselineIsEarned

--------------------------------------------------------------------------------
(* ReviewGate. *)

Verdicts == {"record", "review", "unreviewed", "status", "latest", "continuity", "body",
             "validated", "not validated"}
ReviewsKept == {v \in [number : Nat, parent : Nat] : v = NoReview \/ (v.number > 0 /\ v.parent > 0)}
Snapshots == [body : RecordBodies, review : ReviewsKept]

ReviewTypeOK ==
    /\ tree \in Snapshots /\ history \in Seq(Snapshots) /\ history # <<>> /\ written \in Nat
    /\ gate \in [at : Verdicts, body : RecordBodies, review : ReviewsKept, commit : Nat]

\* A review that was written over does not come back: the next one has a number of its own.
NumbersInv == tree.review.number <= written /\ gate.review.number <= written

\* Up to any commit, either no review was ever there, or the last commit that touched it
\* left it as it then stayed.
Settled(n) ==
    \/ \A j \in 1 .. n : history[j].review = NoReview
    \/ \E k \in Touching(n) :
           /\ \A i \in Touching(n) : i <= k
           /\ \A j \in k .. n : history[j].review = history[n].review

HistoryInv == \A n \in 1 .. HeadNo : Settled(n)

\* The review that was read is still the one in the tree.
SameReview == tree.review = gate.review

\* What the gate has established at each of its places.
GateInv ==
    /\ gate.at \in {"status", "latest", "continuity", "body", "validated"} => gate.review # NoReview
    /\ gate.at \in {"latest", "continuity", "body", "validated"} /\ SameReview =>
           history[HeadNo].review = gate.review
    /\ gate.at \in {"continuity", "body", "validated"} =>
           gate.commit \in 2 .. HeadNo /\ gate.review.parent = gate.commit - 1
    /\ gate.at \in {"continuity", "body", "validated"} /\ SameReview =>
           history[gate.commit].review = gate.review
    /\ gate.at \in {"body", "validated"} =>
           \A j \in 1 .. gate.commit - 1 :
               history[j].review # NoReview => history[gate.commit - 1].review # NoReview
    /\ gate.at = "validated" => history[gate.commit].body = gate.body

ReviewInv == ReviewTypeOK /\ NumbersInv /\ HistoryInv /\ GateInv

LEMMA ReviewInitial == ReviewInit => ReviewInv
<1> SUFFICES ASSUME ReviewInit PROVE ReviewInv
  OBVIOUS
<1>1. PICK b \in RecordBodies :
         /\ tree = [body |-> b, review |-> NoReview]
         /\ history = <<[body |-> b, review |-> NoReview]>>
         /\ gate = [at |-> "record", body |-> b, review |-> NoReview, commit |-> 0]
  BY DEF ReviewInit
<1>2. NoReview \in ReviewsKept /\ NoReview.number = 0
  BY DEF NoReview, ReviewsKept
<1>3. ReviewTypeOK
  BY <1>1, <1>2 DEF ReviewInit, ReviewTypeOK, Snapshots, Verdicts
<1>4. NumbersInv
  BY <1>1, <1>2 DEF ReviewInit, NumbersInv
<1>5. HistoryInv
  BY <1>1 DEF HistoryInv, Settled, HeadNo
<1>6. GateInv
  BY <1>1 DEF GateInv
<1> QED BY <1>3, <1>4, <1>5, <1>6 DEF ReviewInv

\* A commit is put behind the others, and the review in it is that of the tree or of the
\* commit before.
LEMMA CommitFacts ==
    ASSUME ReviewInv, Commit
    PROVE  /\ HeadNo \in Nat \ {0} /\ HeadNo' = HeadNo + 1 /\ history' \in Seq(Snapshots)
           /\ \A j \in 1 .. HeadNo : history'[j] = history[j]
           /\ history'[HeadNo'].review \in {tree.review, history[HeadNo].review}
           /\ UNCHANGED <<tree, written, gate>>
<1>1. HeadNo \in Nat \ {0} /\ tree \in Snapshots /\ history \in Seq(Snapshots)
      /\ history[HeadNo] \in Snapshots
  BY DEF ReviewInv, ReviewTypeOK, HeadNo
<1>2. PICK entry \in {tree, [history[HeadNo] EXCEPT !.body = tree.body],
                      [history[HeadNo] EXCEPT !.review = tree.review]} :
         history' = Append(history, entry)
  BY DEF Commit
<1>3. entry \in Snapshots /\ entry.review \in {tree.review, history[HeadNo].review}
  BY <1>1, <1>2 DEF Snapshots
<1> QED BY <1>1, <1>2, <1>3 DEF Commit, HeadNo

LEMMA ReviewStep == ReviewInv /\ [ReviewNext]_reviewVars => ReviewInv'
<1> SUFFICES ASSUME ReviewInv, [ReviewNext]_reviewVars PROVE ReviewInv'
  OBVIOUS
<1>1. /\ HeadNo \in Nat \ {0} /\ tree \in Snapshots /\ history \in Seq(Snapshots) /\ written \in Nat
      /\ gate \in [at : Verdicts, body : RecordBodies, review : ReviewsKept, commit : Nat]
      /\ NoReview \in ReviewsKept /\ NoReview.number = 0
      /\ \A j \in 1 .. HeadNo : history[j] \in Snapshots
  BY DEF ReviewInv, ReviewTypeOK, HeadNo, NoReview, ReviewsKept
<1>2. CASE Commit
  <2>1. ReviewTypeOK'
    BY <1>1, <1>2, CommitFacts DEF ReviewTypeOK, HeadNo
  <2>2. NumbersInv'
    BY <1>2, CommitFacts DEF ReviewInv, NumbersInv
  <2>3. HistoryInv'
    <3>1. ASSUME NEW n \in 1 .. HeadNo PROVE Touching(n)' = Touching(n)
      <4>1. \A i \in 1 .. n : i \in 1 .. HeadNo /\ (i # 1 => i - 1 \in 1 .. HeadNo)
        BY <1>1
      <4>2. \A j \in 1 .. HeadNo : history'[j] = history[j]
        BY <1>2, CommitFacts
      <4>3. \A i \in 1 .. n : /\ history'[i] = history[i]
                              /\ i # 1 => history'[i - 1] = history[i - 1]
        BY <4>1, <4>2
      <4>4. ASSUME NEW i \in 1 .. n PROVE i \in Touching(n)' <=> i \in Touching(n)
        BY <4>3 DEF Touching
      <4>5. Touching(n)' \subseteq 1 .. n /\ Touching(n) \subseteq 1 .. n
        BY DEF Touching
      <4> QED BY <4>4, <4>5
    <3>2. ASSUME NEW n \in 1 .. HeadNo PROVE Settled(n)'
      <4>1. Settled(n) /\ \A j \in 1 .. n : history'[j] = history[j]
        BY <1>1, <1>2, CommitFacts DEF ReviewInv, HistoryInv
      <4>2. CASE \A j \in 1 .. n : history[j].review = NoReview
        BY <4>1, <4>2 DEF Settled
      <4>3. ASSUME NEW k \in Touching(n), \A i \in Touching(n) : i <= k,
                   \A j \in k .. n : history[j].review = history[n].review
            PROVE  Settled(n)'
        <5>1. k \in 1 .. n
          BY <4>3 DEF Touching
        <5>2. \A j \in k .. n : history'[j].review = history'[n].review
          BY <4>1, <4>3, <5>1
        <5> QED BY <3>1, <4>3, <5>2 DEF Settled
      <4> QED BY <4>1, <4>2, <4>3 DEF Settled
    <3>5. PICK n \in Nat : n = HeadNo + 1
      BY <1>1
    <3>3. HeadNo' = n /\ history' \in Seq(Snapshots) /\ Settled(HeadNo)
          /\ \A j \in 1 .. HeadNo : history'[j] = history[j]
          /\ n \in 1 .. n /\ HeadNo \in 1 .. HeadNo /\ n # 1 /\ n - 1 = HeadNo
      <4>1. HeadNo \in 1 .. HeadNo /\ n \in 1 .. n /\ n # 1 /\ n - 1 = HeadNo
        BY <1>1, <3>5
      <4>2. HeadNo' = n /\ history' \in Seq(Snapshots)
            /\ \A j \in 1 .. HeadNo : history'[j] = history[j]
        BY <1>2, <3>5, CommitFacts
      <4> QED BY <4>1, <4>2 DEF ReviewInv, HistoryInv
    <3>4. Settled(n)'
      <4>1. CASE history'[n].review # history[HeadNo].review
        <5>1. n \in Touching(n)' /\ \A i \in Touching(n)' : i <= n
          BY <1>1, <3>3, <3>5, <4>1 DEF Touching
        <5>2. \A j \in n .. n : history'[j].review = history'[n].review
          BY <3>5
        <5> QED BY <5>1, <5>2 DEF Settled
      <4>2. CASE history'[n].review = history[HeadNo].review
        <5>1. Touching(n)' = Touching(HeadNo)
          <6>1. \A i \in 1 .. HeadNo : history'[i] = history[i]
                                      /\ (i # 1 => history'[i - 1] = history[i - 1])
            <7>1. \A i \in 1 .. HeadNo : i # 1 => i - 1 \in 1 .. HeadNo
              BY <1>1
            <7> QED BY <3>3, <7>1
          <6>2. \A i \in 1 .. n : i = n \/ i \in 1 .. HeadNo
            BY <1>1, <3>5
          <6>3. 1 .. HeadNo \subseteq 1 .. n
            BY <1>1, <3>5
          <6>4. history'[n].review = history'[n - 1].review
            BY <1>1, <3>3, <3>5, <4>2
          <6>5. ASSUME NEW i \in 1 .. n
                PROVE  i \in Touching(n)' <=> i \in Touching(HeadNo)
            <7>1. CASE i = n
              BY <1>1, <3>3, <3>5, <6>4, <7>1 DEF Touching
            <7>2. CASE i \in 1 .. HeadNo
              BY <6>1, <7>2 DEF Touching
            <7> QED BY <6>2, <7>1, <7>2
          <6>6. Touching(n)' \subseteq 1 .. n /\ Touching(HeadNo) \subseteq 1 .. n
            BY <3>3, <6>3 DEF Touching
          <6> QED BY <6>5, <6>6
        <5>2. CASE \A j \in 1 .. HeadNo : history[j].review = NoReview
          <6>1. \A j \in 1 .. n : history'[j].review = NoReview
            BY <1>1, <3>3, <3>5, <4>2, <5>2
          <6> QED BY <6>1 DEF Settled
        <5>3. ASSUME NEW k \in Touching(HeadNo), \A i \in Touching(HeadNo) : i <= k,
                     \A j \in k .. HeadNo : history[j].review = history[HeadNo].review
              PROVE  Settled(n)'
          <6>1. k \in 1 .. HeadNo
            BY <5>3 DEF Touching
          <6>2. \A j \in k .. n : history'[j].review = history'[n].review
            BY <1>1, <3>3, <3>5, <4>2, <5>3, <6>1
          <6> QED BY <5>1, <5>3, <6>2 DEF Settled
        <5> QED BY <3>3, <5>2, <5>3 DEF Settled
      <4> QED BY <4>1, <4>2
    <3> QED BY <1>1, <3>2, <3>3, <3>4, <3>5 DEF HistoryInv
  <2>4. GateInv'
    <3>1. SameReview' = SameReview /\ gate' = gate
      BY <1>2, CommitFacts DEF SameReview
    <3>2. /\ gate.at \in {"latest", "continuity", "body", "validated"} /\ SameReview =>
                 history'[HeadNo'].review = gate.review
      BY <1>2, CommitFacts DEF ReviewInv, GateInv, SameReview
    <3>3. ASSUME gate.at \in {"continuity", "body", "validated"}
          PROVE  /\ gate.commit \in 2 .. HeadNo'
                 /\ history'[gate.commit] = history[gate.commit]
                 /\ \A j \in 1 .. gate.commit - 1 : history'[j] = history[j]
      <4>1. gate.commit \in 2 .. HeadNo
        BY <3>3 DEF ReviewInv, GateInv
      <4> QED BY <1>1, <1>2, <4>1, CommitFacts
    <3>4. /\ gate.at \in {"continuity", "body", "validated"} /\ SameReview =>
                 history'[gate.commit].review = gate.review
          /\ gate.at = "validated" => history'[gate.commit].body = gate.body
      BY <3>3 DEF ReviewInv, GateInv
    <3>5. ASSUME gate.at \in {"body", "validated"}
          PROVE  \A j \in 1 .. gate.commit - 1 :
                     history'[j].review # NoReview => history'[gate.commit - 1].review # NoReview
      <4>1. gate.commit \in 2 .. HeadNo /\ gate.commit - 1 \in 1 .. gate.commit - 1
        BY <1>1, <3>5 DEF ReviewInv, GateInv
      <4> QED BY <3>3, <3>5, <4>1 DEF ReviewInv, GateInv
    <3> QED BY <3>1, <3>2, <3>3, <3>4, <3>5 DEF ReviewInv, GateInv
  <2> QED BY <2>1, <2>2, <2>3, <2>4 DEF ReviewInv
<1>3. ASSUME UNCHANGED history PROVE HistoryInv' /\ HeadNo' = HeadNo
  BY <1>3 DEF ReviewInv, HistoryInv, Settled, Touching, HeadNo
<1>4. CASE EditRecord \/ UNCHANGED reviewVars
  <2>1. tree'.review = tree.review /\ UNCHANGED <<history, written, gate>> /\ ReviewTypeOK'
    BY <1>1, <1>4 DEF EditRecord, reviewVars, ReviewInv, ReviewTypeOK, Snapshots
  <2> QED BY <1>3, <2>1 DEF ReviewInv, NumbersInv, GateInv, SameReview
<1>5. CASE WriteReview \/ RemoveReview
  <2>1. UNCHANGED <<history, gate>> /\ written' \in Nat
    BY <1>1, <1>5 DEF WriteReview, RemoveReview
  <2>5. PICK v \in ReviewsKept : tree' = [tree EXCEPT !.review = v]
    <3>1. CASE WriteReview
      <4>1. [number |-> written', parent |-> HeadNo] \in ReviewsKept
        BY <1>1, <3>1 DEF WriteReview, ReviewsKept
      <4> QED BY <3>1, <4>1 DEF WriteReview
    <3> QED BY <1>1, <1>5, <3>1 DEF RemoveReview
  <2>6. ReviewTypeOK'
    BY <1>1, <2>1, <2>5 DEF ReviewInv, ReviewTypeOK, Snapshots
  <2>2. NumbersInv'
    BY <1>1, <1>5 DEF WriteReview, RemoveReview, ReviewInv, NumbersInv, Snapshots, ReviewsKept
  <2>3. SameReview' => gate.review = NoReview
    BY <1>1, <1>5 DEF WriteReview, RemoveReview, ReviewInv, NumbersInv, SameReview, Snapshots
  <2>4. GateInv'
    BY <1>3, <2>1, <2>3 DEF ReviewInv, GateInv
  <2> QED BY <1>3, <2>1, <2>2, <2>4, <2>6 DEF ReviewInv
<1>6. ASSUME Others PROVE UNCHANGED <<tree, history, written>>
  BY <1>6 DEF Others
<1>7. CASE ReadRecord
  <2>1. gate' = [gate EXCEPT !.at = "review", !.body = tree.body] /\ Others
    BY <1>7 DEF ReadRecord
  <2>2. ReviewTypeOK' /\ NumbersInv' /\ GateInv'
    BY <1>1, <1>6, <2>1 DEF ReviewInv, ReviewTypeOK, NumbersInv, GateInv, Snapshots, Verdicts
  <2> QED BY <1>3, <1>6, <2>1, <2>2 DEF ReviewInv
<1>8. CASE ReadReview
  <2>1. /\ gate' = [gate EXCEPT !.review = tree.review,
                         !.at = IF tree.review = NoReview THEN "unreviewed" ELSE "status"]
        /\ Others
    BY <1>8 DEF ReadReview
  <2>2. ReviewTypeOK' /\ NumbersInv' /\ GateInv'
    BY <1>1, <1>6, <2>1 DEF ReviewInv, ReviewTypeOK, NumbersInv, GateInv, Snapshots, Verdicts
  <2> QED BY <1>3, <1>6, <2>1, <2>2 DEF ReviewInv
<1>9. ASSUME NEW at \in Verdicts, gate' = [gate EXCEPT !.at = at], Others,
             GateInv'
      PROVE  ReviewInv'
  <2>1. ReviewTypeOK' /\ NumbersInv'
    BY <1>1, <1>6, <1>9 DEF ReviewInv, ReviewTypeOK, NumbersInv
  <2> QED BY <1>3, <1>6, <1>9, <2>1 DEF ReviewInv
<1>10. CASE Status
  <2>1. gate.at = "status" /\ Others
    BY <1>10 DEF Status
  <2>2. PICK at \in {"latest", "not validated"} :
           /\ gate' = [gate EXCEPT !.at = at]
           /\ at = "latest" => tree.review = history[HeadNo].review
    BY <1>10 DEF Status, Conclude
  <2>3. GateInv'
    BY <1>1, <1>3, <1>6, <2>1, <2>2 DEF ReviewInv, GateInv, SameReview
  <2> QED BY <1>9, <2>1, <2>2, <2>3 DEF Verdicts
<1>11. CASE Latest
  <2>1. gate.at = "latest" /\ Others
    BY <1>11 DEF Latest
  <2>2. CASE gate' = [gate EXCEPT !.at = "not validated"]
    BY <1>1, <1>9, <2>1, <2>2 DEF GateInv, Verdicts
  <2>3. CASE /\ Touching(HeadNo) # {} /\ gate.review.parent = Max(Touching(HeadNo)) - 1
             /\ gate' = [gate EXCEPT !.at = "continuity", !.commit = Max(Touching(HeadNo))]
    <3>1. PICK k \in Touching(HeadNo) :
             /\ \A i \in Touching(HeadNo) : i <= k
             /\ \A j \in k .. HeadNo : history[j].review = history[HeadNo].review
      <4>1. Settled(HeadNo)
        BY <1>1 DEF ReviewInv, HistoryInv
      <4>2. CASE \A j \in 1 .. HeadNo : history[j].review = NoReview
        BY <1>1, <2>3, <4>2 DEF Touching
      <4> QED BY <4>1, <4>2 DEF Settled
    <3>2. Touching(HeadNo) \subseteq 1 .. HeadNo
      BY DEF Touching
    <3>3. Max(Touching(HeadNo)) = k
      BY <1>1, <3>1, <3>2 DEF Max
    <3>4. gate.review \in ReviewsKept /\ gate.review # NoReview
      BY <1>1, <2>1 DEF ReviewInv, GateInv
    <3>5. k \in 2 .. HeadNo /\ gate.review.parent = k - 1
      BY <1>1, <2>3, <3>1, <3>2, <3>3, <3>4 DEF ReviewsKept
    <3>6. SameReview => history[k].review = gate.review
      BY <1>1, <2>1, <3>1, <3>5 DEF ReviewInv, GateInv
    <3>7. gate' = [gate EXCEPT !.at = "continuity", !.commit = k]
      BY <2>3, <3>3
    <3>8. ReviewTypeOK' /\ NumbersInv'
      <4>1. "continuity" \in Verdicts /\ k \in Nat
        BY <3>5 DEF Verdicts
      <4> QED BY <1>1, <1>6, <2>1, <3>7, <4>1 DEF ReviewInv, ReviewTypeOK, NumbersInv
    <3>9. GateInv'
      BY <1>1, <1>3, <1>6, <2>1, <3>4, <3>5, <3>6, <3>7 DEF ReviewInv, GateInv, SameReview
    <3> QED BY <1>3, <1>6, <2>1, <3>8, <3>9 DEF ReviewInv
  <2> QED BY <1>11, <2>2, <2>3 DEF Latest
<1>12. CASE Continuity
  <2>1. gate.at = "continuity" /\ Others
    BY <1>12 DEF Continuity
  <2>2. CASE gate' = [gate EXCEPT !.at = "not validated"]
    BY <1>1, <1>9, <2>1, <2>2 DEF GateInv, Verdicts
  <2>3. CASE /\ gate' = [gate EXCEPT !.at = "body"]
             /\ \/ history[gate.commit - 1].review # NoReview
                \/ Touching(gate.commit - 1) = {}
    <3>1. gate.commit \in 2 .. HeadNo /\ gate.commit - 1 \in 1 .. HeadNo
      BY <1>1, <2>1 DEF ReviewInv, GateInv
    <3>2. \A j \in 1 .. gate.commit - 1 :
              history[j].review # NoReview => history[gate.commit - 1].review # NoReview
      <4>1. CASE Touching(gate.commit - 1) = {}
        BY <3>1, <4>1 DEF ReviewInv, HistoryInv, Settled
      <4> QED BY <2>3, <4>1
    <3>3. GateInv'
      BY <1>1, <1>3, <1>6, <2>1, <2>3, <3>1, <3>2 DEF ReviewInv, GateInv, SameReview
    <3> QED BY <1>9, <2>1, <2>3, <3>3 DEF Verdicts
  <2> QED BY <1>12, <2>2, <2>3 DEF Continuity, Conclude
<1>13. CASE CompareBody
  <2>1. gate.at = "body" /\ Others
    BY <1>13 DEF CompareBody
  <2>2. PICK at \in {"validated", "not validated"} :
           /\ gate' = [gate EXCEPT !.at = at]
           /\ at = "validated" => history[gate.commit].body = gate.body
    BY <1>13 DEF CompareBody, Conclude
  <2>3. GateInv'
    BY <1>1, <1>3, <1>6, <2>1, <2>2 DEF ReviewInv, GateInv, SameReview
  <2> QED BY <1>9, <2>1, <2>2, <2>3 DEF Verdicts
<1> QED
  BY <1>2, <1>4, <1>5, <1>7, <1>8, <1>10, <1>11, <1>12, <1>13 DEF ReviewNext, GateStep

\* A body passes as reviewed only if one commit holds it with its review, however the
\* record, the review and the history change while the gate reads them.
THEOREM ValidatedIsAlwaysCommitted == ReviewSpec => []ValidatedIsCommitted
<1>1. ReviewInv => ValidatedIsCommitted
  <2> SUFFICES ASSUME ReviewInv, gate.at = "validated", tree.review = gate.review
               PROVE  \E k \in 2 .. HeadNo :
                          /\ history[k].body = gate.body /\ history[k].review = gate.review
                          /\ gate.review.parent = k - 1
                          /\ \A j \in 1 .. k - 1 :
                                 history[j].review # NoReview => history[k - 1].review # NoReview
    BY DEF ValidatedIsCommitted
  <2>1. gate.commit \in 2 .. HeadNo
    BY DEF ReviewInv, GateInv
  <2> WITNESS gate.commit \in 2 .. HeadNo
  <2> QED BY <2>1 DEF ReviewInv, GateInv, SameReview
<1> QED BY <1>1, ReviewInitial, ReviewStep, PTL DEF ReviewSpec

--------------------------------------------------------------------------------
(* WholeRecord. *)

CitedClaims == [content : Contents, source : Sources, chain : Chains \cup {NoChain}]

RecordTypeOK ==
    /\ cited \in Seq(CitedClaims) /\ answer \in Seq(CitedClaims)
    /\ DOMAIN cast = {"names", "sources"} /\ DOMAIN cast.sources \subseteq Sources
    /\ DOMAIN emitted = {"names", "sources", "claims", "complete"}
    /\ phase \in {"cast", "accounts", "claims", "merge", "expand", "end"}
    /\ phase # "merge" => answer = <<>>
    /\ phase \in {"cast", "accounts"} => cited = <<>>

\* What was emitted of names and sources is in the cast, and nothing else.
CastInv ==
    /\ cast.names = emitted.names
    /\ \A s \in DOMAIN cast.sources : cast.sources[s] \in Chains /\ <<s, cast.sources[s]>> \in emitted.sources
    /\ \A s, d : <<s, d>> \in emitted.sources => s \in DOMAIN cast.sources

\* A claim that was emitted is there or still to be taken, and there is one of each.
ClaimsInv ==
    /\ \A key : key \in emitted.claims <=>
           \/ \E i \in DOMAIN cited : key = KeyOf(cited[i])
           \/ \E i \in DOMAIN answer : key = KeyOf(answer[i])
    /\ \A i, j \in DOMAIN cited : KeyOf(cited[i]) = KeyOf(cited[j]) => i = j

\* In the end each claim has the chain of its source.
ChainsInv ==
    phase = "end" => \A i \in DOMAIN cited :
        cited[i].chain = IF cited[i].source \in DOMAIN cast.sources
                         THEN cast.sources[cited[i].source] ELSE NoChain

RecordInv == RecordTypeOK /\ CastInv /\ ClaimsInv /\ ChainsInv

LEMMA RecordInitial == RecordInit => RecordInv
<1> SUFFICES ASSUME RecordInit PROVE RecordInv
  OBVIOUS
<1>1. DOMAIN cast.sources = {} /\ cast.names = {} /\ cited = <<>> /\ answer = <<>>
      /\ emitted = [names |-> {}, sources |-> {}, claims |-> {}, complete |-> FALSE]
      /\ phase \in {"cast", "accounts"}
  BY DEF RecordInit, NoCast
<1>2. DOMAIN cited = {} /\ DOMAIN answer = {}
  BY <1>1
<1>3. RecordTypeOK
  BY <1>1 DEF RecordInit, NoCast, RecordTypeOK
<1>4. CastInv /\ ClaimsInv /\ ChainsInv
  BY <1>1, <1>2 DEF CastInv, ClaimsInv, ChainsInv
<1> QED BY <1>3, <1>4 DEF RecordInv

LEMMA CastStep == ASSUME RecordInv, CastRound PROVE RecordInv'
<1>1. PICK names \in SUBSET Names, ids \in SUBSET Sources, complete \in BOOLEAN :
          \E told \in [ids -> Chains] :
              /\ cast' = [names |-> cast.names \cup names, sources |-> Described(told)]
              /\ emitted' = [emitted EXCEPT !.names = @ \cup names, !.complete = complete,
                                 !.sources = @ \cup {<<s, told[s]>> : s \in ids}]
              /\ phase' \in {"cast", "claims"}
  BY DEF CastRound, Go, Again
<1>2. PICK told \in [ids -> Chains] :
          /\ cast' = [names |-> cast.names \cup names, sources |-> Described(told)]
          /\ emitted' = [emitted EXCEPT !.names = @ \cup names, !.complete = complete,
                             !.sources = @ \cup {<<s, told[s]>> : s \in ids}]
          /\ phase' \in {"cast", "claims"}
  BY <1>1
<1>3. UNCHANGED <<cited, answer>> /\ cited = <<>> /\ answer = <<>>
  BY DEF CastRound, RecordInv, RecordTypeOK
<1>4. /\ cast'.names = cast.names \cup names
      /\ DOMAIN cast' = {"names", "sources"}
      /\ DOMAIN cast'.sources = DOMAIN cast.sources \cup ids
      /\ \A s \in DOMAIN cast.sources : cast'.sources[s] = cast.sources[s]
      /\ \A s \in ids : s \notin DOMAIN cast.sources => cast'.sources[s] = told[s]
  BY <1>2 DEF Described
<1>5. /\ emitted'.names = emitted.names \cup names /\ emitted'.claims = emitted.claims
      /\ emitted'.sources = emitted.sources \cup {<<s, told[s]>> : s \in ids}
      /\ DOMAIN emitted' = DOMAIN emitted
  BY <1>2 DEF RecordInv, RecordTypeOK
<1>6. RecordTypeOK'
  BY <1>2, <1>3, <1>4, <1>5 DEF RecordInv, RecordTypeOK
<1>7. CastInv'
  BY <1>4, <1>5 DEF RecordInv, CastInv
<1>8. ClaimsInv' /\ ChainsInv'
  BY <1>2, <1>3, <1>5 DEF RecordInv, ClaimsInv, ChainsInv
<1> QED BY <1>6, <1>7, <1>8 DEF RecordInv

LEMMA AccountsStep == ASSUME RecordInv, AccountsRound PROVE RecordInv'
<1>1. PICK names \in SUBSET Names, complete \in BOOLEAN :
          /\ cast' = [cast EXCEPT !.names = @ \cup names]
          /\ emitted' = [emitted EXCEPT !.names = @ \cup names, !.complete = complete]
          /\ phase' \in {"accounts", "end"}
  BY DEF AccountsRound, Go, Again
<1>2. UNCHANGED <<cited, answer>> /\ cited = <<>> /\ answer = <<>>
  BY DEF AccountsRound, RecordInv, RecordTypeOK
<1>3. /\ cast'.names = cast.names \cup names /\ cast'.sources = cast.sources
      /\ emitted'.names = emitted.names \cup names /\ emitted'.claims = emitted.claims
      /\ emitted'.sources = emitted.sources
      /\ DOMAIN emitted' = DOMAIN emitted /\ DOMAIN cast' = DOMAIN cast
  BY <1>1 DEF RecordInv, RecordTypeOK
<1> QED
  BY <1>1, <1>2, <1>3 DEF RecordInv, RecordTypeOK, CastInv, ClaimsInv, ChainsInv

\* The answer is put beside the claims; what it says is emitted.
LEMMA AskStep == ASSUME RecordInv, AskForClaims PROVE RecordInv'
<1>1. PICK given \in Answers, complete \in BOOLEAN :
          /\ answer' = given
          /\ emitted' = [emitted EXCEPT !.claims = @ \cup {KeyOf(c) : c \in ToSet(given)},
                                        !.complete = complete]
  BY DEF AskForClaims
<1>2. UNCHANGED <<cited, cast>> /\ phase' = "merge" /\ answer = <<>>
  BY DEF AskForClaims, RecordInv, RecordTypeOK
<1>3. given \in Seq(CitedClaims)
  <2>1. {Claim(c, s, NoChain) : c \in Contents, s \in Citable} \subseteq CitedClaims
    BY DEF Claim, Citable, CitedClaims, RecordInv, RecordTypeOK
  <2> DEFINE S == {Claim(c, s, NoChain) : c \in Contents, s \in Citable}
  <2> HIDE DEF S
  <2>2. PICK m \in 0 .. MaxAnswer : given \in [1 .. m -> S]
    BY WholeRecordAssumption DEF Answers, BoundedSeq, SeqOf, S
  <2>3. m \in Nat /\ S \subseteq CitedClaims
    BY <2>1, <2>2, WholeRecordAssumption DEF S
  <2> QED BY <2>2, <2>3
<1>4. /\ emitted'.names = emitted.names /\ emitted'.sources = emitted.sources
      /\ emitted'.claims = emitted.claims \cup {KeyOf(c) : c \in ToSet(given)}
      /\ DOMAIN emitted' = DOMAIN emitted
  BY <1>1 DEF RecordInv, RecordTypeOK
<1>5. RecordTypeOK' /\ CastInv' /\ ChainsInv'
  BY <1>1, <1>2, <1>3, <1>4 DEF RecordInv, RecordTypeOK, CastInv, ChainsInv
<1>6. ClaimsInv'
  <2>1. ASSUME NEW key
        PROVE  key \in {KeyOf(c) : c \in ToSet(given)} <=> \E i \in DOMAIN given : key = KeyOf(given[i])
    BY DEF ToSet
  <2> QED BY <1>1, <1>2, <1>4, <2>1 DEF RecordInv, ClaimsInv
<1> QED BY <1>5, <1>6 DEF RecordInv

\* One claim of the answer is taken, and added unless it was seen.
LEMMA TakeStep == ASSUME RecordInv, TakeClaim PROVE RecordInv'
<1> DEFINE c == Head(answer)
<1>1. UNCHANGED <<cast, emitted>> /\ phase = "merge" /\ phase' = "merge"
  BY DEF TakeClaim
<1>2. answer \in Seq(CitedClaims) /\ answer # <<>> /\ answer' = Tail(answer)
      /\ cited \in Seq(CitedClaims)
  BY DEF TakeClaim, RecordInv, RecordTypeOK
<1>3. /\ c \in CitedClaims /\ answer' \in Seq(CitedClaims) /\ c = answer[1]
      /\ DOMAIN answer = 1 .. Len(answer) /\ DOMAIN answer' = 1 .. Len(answer) - 1
      /\ \A i \in DOMAIN answer' : answer'[i] = answer[i + 1] /\ i + 1 \in DOMAIN answer
      /\ \A i \in DOMAIN answer : i = 1 \/ (i - 1 \in DOMAIN answer' /\ answer[i] = answer'[i - 1])
  BY <1>2
<1> HIDE DEF c
<1>4. ASSUME NEW key
      PROVE  (\E i \in DOMAIN answer : key = KeyOf(answer[i]))
                 <=> (key = KeyOf(c) \/ \E i \in DOMAIN answer' : key = KeyOf(answer'[i]))
  <2>1. 1 \in DOMAIN answer
    BY <1>2
  <2> QED BY <1>3, <2>1
<1>5. ASSUME NEW key PROVE key \in Seen <=> \E i \in DOMAIN cited : key = KeyOf(cited[i])
  BY DEF Seen, ToSet
<1>6. CASE KeyOf(c) \in Seen
  <2>1. cited' = cited
    BY <1>6 DEF TakeClaim, c
  <2>2. RecordTypeOK' /\ CastInv' /\ ChainsInv'
    BY <1>1, <1>3, <2>1 DEF RecordInv, RecordTypeOK, CastInv, ChainsInv
  <2>3. ASSUME NEW key
        PROVE  key \in emitted'.claims <=>
                   \/ \E i \in DOMAIN cited' : key = KeyOf(cited'[i])
                   \/ \E i \in DOMAIN answer' : key = KeyOf(answer'[i])
    BY <1>1, <1>4, <1>5, <1>6, <2>1 DEF RecordInv, ClaimsInv
  <2>4. ClaimsInv'
    BY <2>1, <2>3 DEF RecordInv, ClaimsInv
  <2> QED BY <2>2, <2>4 DEF RecordInv
<1>7. CASE KeyOf(c) \notin Seen
  <2>1. cited' = Append(cited, c)
    BY <1>7 DEF TakeClaim, c
  <2>2. /\ cited' \in Seq(CitedClaims)
        /\ DOMAIN cited = 1 .. Len(cited) /\ Len(cited) \in Nat
        /\ DOMAIN cited' = DOMAIN cited \cup {Len(cited) + 1} /\ Len(cited) + 1 \notin DOMAIN cited
        /\ cited'[Len(cited) + 1] = c /\ \A i \in DOMAIN cited : cited'[i] = cited[i]
    BY <1>2, <1>3, <2>1
  <2>3. RecordTypeOK' /\ CastInv' /\ ChainsInv'
    BY <1>1, <1>3, <2>2 DEF RecordInv, RecordTypeOK, CastInv, ChainsInv
  <2>4. \A i, j \in DOMAIN cited' : KeyOf(cited'[i]) = KeyOf(cited'[j]) => i = j
    BY <1>5, <1>7, <2>2 DEF RecordInv, ClaimsInv
  <2>5. ASSUME NEW key
        PROVE  key \in emitted'.claims <=>
                   \/ \E i \in DOMAIN cited' : key = KeyOf(cited'[i])
                   \/ \E i \in DOMAIN answer' : key = KeyOf(answer'[i])
    <3>1. (\E i \in DOMAIN cited' : key = KeyOf(cited'[i]))
              <=> (key = KeyOf(c) \/ \E i \in DOMAIN cited : key = KeyOf(cited[i]))
      BY <2>2
    <3> QED BY <1>1, <1>4, <3>1 DEF RecordInv, ClaimsInv
  <2>6. ClaimsInv'
    BY <2>4, <2>5 DEF ClaimsInv
  <2> QED BY <2>3, <2>6 DEF RecordInv
<1> QED BY <1>6, <1>7

LEMMA ExpandStep == ASSUME RecordInv, ExpandSourceIds PROVE RecordInv'
<1> DEFINE ChainOf(s) == IF s \in DOMAIN cast.sources THEN cast.sources[s] ELSE NoChain
<1>1. /\ UNCHANGED <<cast, answer, emitted>> /\ phase' = "end" /\ answer = <<>>
      /\ cited' = [i \in DOMAIN cited |-> [cited[i] EXCEPT !.chain = ChainOf(cited[i].source)]]
  BY DEF ExpandSourceIds, Go, RecordInv, RecordTypeOK
<1>2. ASSUME NEW s \in Sources PROVE ChainOf(s) \in Chains \cup {NoChain}
  BY DEF RecordInv, CastInv
<1> HIDE DEF ChainOf
<1>3. cited \in Seq(CitedClaims)
  BY DEF RecordInv, RecordTypeOK
<1>4. ASSUME NEW i \in DOMAIN cited
      PROVE  /\ cited'[i] \in CitedClaims /\ cited'[i].chain = ChainOf(cited[i].source)
             /\ cited'[i].source = cited[i].source /\ KeyOf(cited'[i]) = KeyOf(cited[i])
  <2>1. cited[i] \in CitedClaims
    BY <1>3
  <2> QED BY <1>1, <1>2, <2>1 DEF CitedClaims, KeyOf
<1>5. DOMAIN cited' = DOMAIN cited /\ cited' \in Seq(CitedClaims)
  <2>1. DOMAIN cited = 1 .. Len(cited) /\ Len(cited) \in Nat
    BY <1>3
  <2>2. DOMAIN cited' = 1 .. Len(cited) /\ \A i \in 1 .. Len(cited) : cited'[i] \in CitedClaims
    BY <1>1, <1>4, <2>1
  <2>3. cited' = [i \in 1 .. Len(cited) |-> cited'[i]]
    BY <1>1, <2>1
  <2>4. cited' \in [1 .. Len(cited) -> CitedClaims]
    BY <2>2, <2>3
  <2> QED BY <2>1, <2>4
<1>6. RecordTypeOK' /\ CastInv'
  BY <1>1, <1>5 DEF RecordInv, RecordTypeOK, CastInv
<1>7. ClaimsInv'
  <2>1. ASSUME NEW key
        PROVE  (\E i \in DOMAIN cited' : key = KeyOf(cited'[i]))
                   <=> \E i \in DOMAIN cited : key = KeyOf(cited[i])
    BY <1>4, <1>5
  <2>2. \A i, j \in DOMAIN cited' : KeyOf(cited'[i]) = KeyOf(cited'[j]) => i = j
    BY <1>4, <1>5 DEF RecordInv, ClaimsInv
  <2>3. UNCHANGED answer /\ emitted'.claims = emitted.claims
    BY <1>1
  <2>4. ASSUME NEW key
        PROVE  key \in emitted'.claims <=>
                   \/ \E i \in DOMAIN cited' : key = KeyOf(cited'[i])
                   \/ \E i \in DOMAIN answer' : key = KeyOf(answer'[i])
    BY <2>1, <2>3 DEF RecordInv, ClaimsInv
  <2> QED BY <2>2, <2>4 DEF ClaimsInv
<1>8. ChainsInv'
  BY <1>1, <1>4, <1>5 DEF ChainsInv, ChainOf
<1> QED BY <1>6, <1>7, <1>8 DEF RecordInv

LEMMA RecordStep == RecordInv /\ [RecordNext]_recordVars => RecordInv'
<1> SUFFICES ASSUME RecordInv, [RecordNext]_recordVars PROVE RecordInv'
  OBVIOUS
<1>1. CASE EndClaimsRound
  <2>1. UNCHANGED <<cast, cited, answer, emitted>> /\ answer = <<>>
        /\ phase' \in {"claims", "expand"}
    BY <1>1 DEF EndClaimsRound, Go
  <2> QED BY <2>1 DEF RecordInv, RecordTypeOK, CastInv, ClaimsInv, ChainsInv
<1>2. CASE UNCHANGED recordVars
  BY <1>2 DEF RecordInv, RecordTypeOK, CastInv, ClaimsInv, ChainsInv, recordVars
<1> QED
  BY <1>1, <1>2, CastStep, AccountsStep, AskStep, TakeStep, ExpandStep DEF RecordNext

\* However the rounds go, a claim is there once, and all claims that cite a source have the
\* chain its id was first given.
THEOREM AlwaysOneChainPerSource == RecordSpec => []OneChainPerSource
<1>1. RecordInv => OneChainPerSource
  <2> SUFFICES ASSUME RecordInv PROVE OneChainPerSource
    OBVIOUS
  <2>1. answer = <<>> => {KeyOf(c) : c \in ToSet(cited)} = emitted.claims
    BY DEF RecordInv, ClaimsInv, ToSet
  <2>2. ASSUME phase = "end", NEW i \in DOMAIN cited
        PROVE  IF \E d \in Chains : <<cited[i].source, d>> \in emitted.sources
               THEN /\ <<cited[i].source, cited[i].chain>> \in emitted.sources
                    /\ \A j \in DOMAIN cited : cited[i].source = cited[j].source
                           => cited[i].chain = cited[j].chain
               ELSE cited[i].chain = NoChain
    BY <2>2 DEF RecordInv, CastInv, ChainsInv
  <2>3. \A i, j \in DOMAIN cited : KeyOf(cited[i]) = KeyOf(cited[j]) => i = j
    BY DEF RecordInv, ClaimsInv
  <2> QED BY <2>1, <2>2, <2>3 DEF OneChainPerSource, RecordInv, CastInv
<1> QED BY <1>1, RecordInitial, RecordStep, PTL DEF RecordSpec

--------------------------------------------------------------------------------
(* RecordIndex. *)

\* Of the files read so far, one that declares the hash has it; if none does, one that
\* names it.
FoundIn(h) ==
    IF Declaring(h) \cap 1 .. place # {} THEN byHash[h] \in Declaring(h) \cap 1 .. place
    ELSE IF Naming(h) \cap 1 .. place # {} THEN byHash[h] \in Naming(h) \cap 1 .. place
    ELSE byHash[h] = NoRecord

FoundInv ==
    /\ DOMAIN directory = 1 .. Len(directory) /\ Len(directory) \in Nat
    /\ place \in 0 .. Len(directory) /\ DOMAIN byHash = Hashes
    /\ \A h \in Hashes : FoundIn(h)

LEMMA IndexInitial == IndexInit => FoundInv
<1> SUFFICES ASSUME IndexInit PROVE FoundInv
  OBVIOUS
<1>1. PICK m \in 0 .. MaxFiles : directory \in [1 .. m -> Files]
  BY IndexAssumption DEF IndexInit, BoundedSeq, SeqOf
<1>2. DOMAIN directory = 1 .. Len(directory) /\ Len(directory) \in Nat
  BY <1>1, IndexAssumption
<1>3. place = 0 /\ byHash = [h \in Hashes |-> NoRecord]
  BY DEF IndexInit
<1>4. 1 .. place = {}
  BY <1>3
<1> QED BY <1>2, <1>3, <1>4 DEF FoundInv, FoundIn

LEMMA IndexStep == FoundInv /\ [IndexFile]_indexVars => FoundInv'
<1> SUFFICES ASSUME FoundInv, [IndexFile]_indexVars PROVE FoundInv'
  OBVIOUS
<1>1. CASE UNCHANGED indexVars
  BY <1>1 DEF FoundInv, FoundIn, Declaring, Naming, indexVars
<1>2. CASE IndexFile
  <2>1. /\ UNCHANGED directory /\ place' = place + 1 /\ place' \in 1 .. Len(directory)
        /\ place \in Nat /\ DOMAIN directory = 1 .. Len(directory) /\ Len(directory) \in Nat
    BY <1>2 DEF IndexFile, FoundInv
  <2> DEFINE file == directory[place']
             Takes(h) == \/ h = file.declares
                         \/ byHash[h] = NoRecord /\ h \in {file.stem} \cup file.supersedes
  <2>2. byHash' = [h \in Hashes |-> IF Takes(h) THEN place' ELSE byHash[h]]
    BY <1>2 DEF IndexFile
  <2>3. ASSUME NEW h \in Hashes PROVE FoundIn(h)'
    <3>1. Declaring(h)' = Declaring(h) /\ Naming(h)' = Naming(h)
      BY <2>1 DEF Declaring, Naming
    <3>2. 1 .. place' = 1 .. place \cup {place'} /\ place' \notin 1 .. place /\ place' # 0
      BY <2>1
    <3>3. /\ place' \in Declaring(h) <=> h = file.declares
          /\ place' \in Naming(h) <=> h \in {file.stem} \cup file.supersedes
      BY <2>1 DEF Declaring, Naming
    <3>4. FoundIn(h) /\ NoRecord \notin 1 .. place
      BY <2>1 DEF FoundInv, NoRecord
    <3>5. byHash'[h] = IF Takes(h) THEN place' ELSE byHash[h]
      BY <2>2
    <3> HIDE DEF file
    <3> QED BY <3>1, <3>2, <3>3, <3>4, <3>5 DEF FoundIn
  <2> QED BY <2>1, <2>2, <2>3 DEF FoundInv
<1> QED BY <1>1, <1>2

\* A digest is attributed to the record that declares its hash, if there is one, however
\* many records supersede it or are named after it, and in whatever order they are read.
THEOREM DeclaredHashAlwaysWins == IndexSpec => []DeclaredHashWins
<1>1. FoundInv => DeclaredHashWins
  <2> SUFFICES ASSUME FoundInv, place = Len(directory), NEW h \in Hashes
               PROVE  IF Declaring(h) # {} THEN byHash[h] \in Declaring(h)
                      ELSE IF Naming(h) # {} THEN byHash[h] \in Naming(h) ELSE byHash[h] = NoRecord
    BY DEF DeclaredHashWins
  <2>1. Declaring(h) \cap 1 .. place = Declaring(h) /\ Naming(h) \cap 1 .. place = Naming(h)
    BY DEF FoundInv, Declaring, Naming
  <2> QED BY <2>1 DEF FoundInv, FoundIn
<1> QED BY <1>1, IndexInitial, IndexStep, PTL DEF IndexSpec

--------------------------------------------------------------------------------
(* RefreshText. *)

LEMMA BlockIsSequence == RefreshTextInit => block \in Seq(BlockLines)
<1> SUFFICES ASSUME RefreshTextInit PROVE block \in Seq(BlockLines)
  OBVIOUS
<1>1. PICK m \in 0 .. MaxBlockLines : block \in [1 .. m -> BlockLines]
  BY RefreshTextAssumption DEF RefreshTextInit, BoundedSeq, SeqOf
<1>2. m \in Nat
  BY <1>1, RefreshTextAssumption
<1> QED BY <1>1, <1>2

\* A key that is there has a last line.
LEMMA LastLine ==
    ASSUME NEW b, Len(b) \in Nat, DOMAIN b = 1 .. Len(b), NEW k, \E i \in TopLines(b) : b[i].key = k
    PROVE  \E n \in TopLines(b) :
               b[n].key = k /\ \A m \in TopLines(b) : b[m].key = k => m <= n
<1> DEFINE T == {i \in TopLines(b) : b[i].key = k}
<1>1. T \subseteq 1 .. Len(b) /\ T # {}
  BY DEF TopLines
<1>2. PICK n \in T : \A m \in T : m <= n
  BY <1>1, LastOne, Zenon
<1> QED BY <1>2

\* What a line says, with the lines below it.
Says(b, i) == [value |-> b[i].value, keys |-> {b[j].key : j \in NestedAt(b, i)}]

\* What the parser makes of a key that is there.
LEMMA MeaningOf ==
    ASSUME NEW b, Len(b) \in Nat, DOMAIN b = 1 .. Len(b), NEW k, \E i \in TopLines(b) : b[i].key = k
    PROVE  /\ k \in DOMAIN Meaning(b)
           /\ \E i \in TopLines(b) :
                  b[i].key = k /\ Meaning(b)[k] = Says(b, i)
<1> DEFINE L == CHOOSE n \in TopLines(b) :
                    b[n].key = k /\ \A m \in TopLines(b) : b[m].key = k => m <= n
<1>1. L \in TopLines(b) /\ b[L].key = k
  BY LastLine
<1>2. k \in {b[i].key : i \in TopLines(b)}
  BY <1>1
<1>3. Meaning(b)[k] = Says(b, L)
  BY <1>2 DEF Meaning, Says
<1>4. k \in DOMAIN Meaning(b)
  BY <1>2 DEF Meaning
<1> QED BY <1>1, <1>3, <1>4

\* The lines after the splice: those there were, changed or as they were, and one for each
\* key that was not there.
LEMMA SplicedFacts ==
    ASSUME NEW b, NEW S, b \in Seq(S), NEW keys, IsFiniteSet(keys)
    PROVE  LET s == SplicedLines(b, keys)
               Changed(k) == Line1(k, "new")
           IN  /\ Len(s) \in Nat /\ DOMAIN s = 1 .. Len(s) /\ Len(b) \in Nat /\ Len(b) <= Len(s)
               /\ DOMAIN b = 1 .. Len(b)
               /\ \A i \in 1 .. Len(b) :
                      s[i] = IF b[i].key \in keys THEN Changed(b[i].key) ELSE b[i]
               /\ \A i \in 1 .. Len(s) : i > Len(b) => \E k \in keys : s[i] = Changed(k)
               /\ \A k \in keys : \E i \in 1 .. Len(s) : s[i] = Changed(k)
<1> DEFINE Changed(k) == Line1(k, "new")
           missing == keys \ {b[i].key : i \in DOMAIN b}
           new == {Changed(k) : k \in missing}
           kept == [i \in DOMAIN b |-> IF b[i].key \in keys THEN Line1(b[i].key, "new") ELSE b[i]]
           tail == SetToSeq(new)
           s == SplicedLines(b, keys)
<1>1. IsFiniteSet(missing)
  BY FS_Subset
<1>2. IsFiniteSet(new)
  <2> DEFINE f == [k \in missing |-> Changed(k)]
  <2>1. f \in Surjection(missing, new)
    BY DEF Surjection
  <2> QED BY <1>1, <2>1, FS_Surjection
<1>3. tail \in Seq(new) /\ \A x \in new : \E i \in DOMAIN tail : tail[i] = x
  BY <1>2, SetAsSequence
<1>4. s = kept \o tail
  BY DEF SplicedLines
<1>5. /\ kept \in Seq({kept[i] : i \in DOMAIN b}) /\ Len(kept) = Len(b) /\ Len(b) \in Nat
      /\ DOMAIN b = 1 .. Len(b) /\ DOMAIN kept = 1 .. Len(b)
      /\ \A i \in 1 .. Len(b) : kept[i] = IF b[i].key \in keys THEN Changed(b[i].key) ELSE b[i]
  OBVIOUS
<1> HIDE DEF kept, tail, s
<1>6. /\ Len(s) = Len(b) + Len(tail) /\ Len(tail) \in Nat /\ DOMAIN s = 1 .. Len(s)
      /\ \A i \in 1 .. Len(b) : s[i] = kept[i]
      /\ \A i \in 1 .. Len(tail) : s[Len(b) + i] = tail[i]
      /\ DOMAIN tail = 1 .. Len(tail)
  <2> DEFINE all == {kept[i] : i \in DOMAIN b} \cup new
  <2>1. kept \in Seq(all) /\ tail \in Seq(all)
    <3> HIDE DEF new
    <3> QED BY <1>3, <1>5
  <2> HIDE DEF all
  <2>2. /\ Len(s) = Len(kept) + Len(tail) /\ Len(tail) \in Nat /\ DOMAIN s = 1 .. Len(s)
        /\ \A i \in 1 .. Len(kept) : s[i] = kept[i]
        /\ \A i \in 1 .. Len(tail) : s[Len(kept) + i] = tail[i]
        /\ DOMAIN tail = 1 .. Len(tail)
    BY <1>4, <2>1, Concatenated
  <2> QED BY <1>5, <2>2
<1>7. ASSUME NEW i \in 1 .. Len(s), i > Len(b) PROVE \E k \in keys : s[i] = Changed(k)
  <2>1. i - Len(b) \in 1 .. Len(tail) /\ s[Len(b) + (i - Len(b))] = tail[i - Len(b)]
        /\ Len(b) + (i - Len(b)) = i
    BY <1>5, <1>6, <1>7
  <2>2. tail[i - Len(b)] \in new
    BY <1>3, <1>6, <2>1
  <2> QED BY <2>1, <2>2
<1>8. ASSUME NEW k \in keys PROVE \E i \in 1 .. Len(s) : s[i] = Changed(k)
  <2>1. CASE k \in missing
    <3>1. PICK i \in DOMAIN tail : tail[i] = Changed(k)
      BY <1>3, <2>1
    <3>2. Len(b) + i \in 1 .. Len(s)
      BY <1>5, <1>6, <3>1
    <3> QED BY <1>6, <3>1, <3>2
  <2>2. ASSUME NEW i \in DOMAIN b, b[i].key = k PROVE \E n \in 1 .. Len(s) : s[n] = Changed(k)
    BY <1>5, <1>6, <2>2
  <2> QED BY <2>1, <2>2
<1> QED BY <1>5, <1>6, <1>7, <1>8 DEF s

\* The record block is one the digest writer wrote, and the refresh changes what it may.
RefreshTextInv ==
    /\ block \in Seq(BlockLines) /\ WellFormed(block) /\ changes \subseteq Changeable
    /\ entries \in Nat /\ RefreshKeepsTheRest

\* What a key that is changed says in the text, once spliced.
LEMMA ChangedSays ==
    ASSUME NEW b, NEW S, b \in Seq(S), NEW keys, IsFiniteSet(keys), NEW k \in keys
    PROVE  k \in DOMAIN Meaning(SplicedLines(b, keys))
           /\ Meaning(SplicedLines(b, keys))[k].value = "new"
<1> DEFINE s == SplicedLines(b, keys)
<1>1. /\ Len(s) \in Nat /\ DOMAIN s = 1 .. Len(s) /\ Len(b) \in Nat
      /\ \A i \in 1 .. Len(b) : s[i] = IF b[i].key \in keys THEN Line1(b[i].key, "new") ELSE b[i]
      /\ \A i \in 1 .. Len(s) : i > Len(b) => \E x \in keys : s[i] = Line1(x, "new")
      /\ \E i \in 1 .. Len(s) : s[i] = Line1(k, "new")
  BY SplicedFacts
<1> HIDE DEF s
<1>2. \E i \in TopLines(s) : s[i].key = k
  BY <1>1 DEF TopLines, Line1
<1>3. PICK i \in TopLines(s) : /\ s[i].key = k
                               /\ Meaning(s)[k] = Says(s, i)
  <2>1. Len(s) \in Nat /\ DOMAIN s = 1 .. Len(s)
    BY <1>1
  <2> QED BY <1>2, <2>1, MeaningOf
<1>4. i \in 1 .. Len(s)
  BY <1>1, <1>3 DEF TopLines
<1>5. s[i].value = "new"
  <2>1. CASE i <= Len(b)
    <3>1. i \in 1 .. Len(b)
      BY <1>1, <1>4, <2>1
    <3>2. b[i].key \in keys
      BY <1>1, <1>3, <3>1
    <3>3. s[i] = Line1(b[i].key, "new")
      BY <1>1, <3>1, <3>2
    <3> QED BY <3>3 DEF Line1
  <2>2. CASE i > Len(b)
    BY <1>1, <1>4, <2>2 DEF Line1
  <2> QED BY <1>1, <1>4, <2>1, <2>2
<1>6. k \in DOMAIN Meaning(s)
  BY <1>1, <1>2, MeaningOf
<1> QED BY <1>3, <1>5, <1>6 DEF s, Says

\* A key that is not changed keeps its line, and below it the lines that are not changed.
LEMMA OtherSays ==
    ASSUME NEW b, NEW S, b \in Seq(S), WellFormed(b), NEW keys, IsFiniteSet(keys),
           NEW k \in DOMAIN Meaning(b), k \notin keys
    PROVE  /\ k \in DOMAIN Meaning(SplicedLines(b, keys))
           /\ Meaning(b)[k].keys \cap keys = {} =>
                  Meaning(SplicedLines(b, keys))[k] = Meaning(b)[k]
<1> DEFINE s == SplicedLines(b, keys)
<1>1. /\ Len(s) \in Nat /\ DOMAIN s = 1 .. Len(s) /\ Len(b) \in Nat /\ Len(b) <= Len(s)
      /\ DOMAIN b = 1 .. Len(b)
      /\ \A i \in 1 .. Len(b) : s[i] = IF b[i].key \in keys THEN Line1(b[i].key, "new") ELSE b[i]
      /\ \A i \in 1 .. Len(s) : i > Len(b) => \E x \in keys : s[i] = Line1(x, "new")
  BY SplicedFacts
<1> HIDE DEF s
<1>2. \E i \in TopLines(b) : b[i].key = k
  BY DEF Meaning
<1>3. PICK t \in TopLines(b) : /\ b[t].key = k
                               /\ Meaning(b)[k] = Says(b, t)
  BY <1>1, <1>2, MeaningOf
<1>4. t \in 1 .. Len(b) /\ t \in 1 .. Len(s) /\ s[t] = b[t] /\ t \in TopLines(s)
  BY <1>1, <1>3 DEF TopLines
<1>5. ASSUME NEW i \in TopLines(s), s[i].key = k PROVE i = t
  <2>1. i \in 1 .. Len(s) /\ s[i].depth = 1
    BY <1>1 DEF TopLines
  <2>2. i <= Len(b)
    BY <1>1, <1>5, <2>1 DEF Line1
  <2>3. i \in 1 .. Len(b)
    BY <1>1, <2>1, <2>2
  <2>4. s[i] = b[i]
    <3>1. s[i] = Line1(b[i].key, "new") => s[i].key = b[i].key
      BY DEF Line1
    <3> QED BY <1>1, <1>5, <2>3, <3>1
  <2>5. i \in TopLines(b) /\ b[i].key = b[t].key
    BY <1>1, <1>3, <1>5, <2>1, <2>3, <2>4 DEF TopLines
  <2> QED BY <1>3, <2>5 DEF WellFormed
<1>6. \E i \in TopLines(s) : s[i].key = k
  BY <1>3, <1>4
<1>7. k \in DOMAIN Meaning(s)
  BY <1>1, <1>6, MeaningOf
<1>8. Meaning(s)[k] = Says(s, t)
  <2>1. PICK i \in TopLines(s) : /\ s[i].key = k
                                 /\ Meaning(s)[k] = Says(s, i)
    BY <1>1, <1>6, MeaningOf
  <2>2. i = t
    BY <1>5, <2>1
  <2> QED BY <2>1, <2>2
<1>9. ASSUME {b[j].key : j \in NestedAt(b, t)} \cap keys = {} PROVE Meaning(s)[k] = Meaning(b)[k]
  <2>1. ASSUME NEW j \in NestedAt(b, t) PROVE j \in 1 .. Len(b) /\ s[j] = b[j]
    <3>1. j \in 1 .. Len(b) /\ b[j].key \notin keys
      BY <1>1, <1>4, <1>9 DEF NestedAt
    <3> QED BY <1>1, <3>1
  <2>2. ASSUME NEW j \in NestedAt(b, t) PROVE j \in NestedAt(s, t)
    <3>1. ASSUME NEW l \in t + 1 .. j PROVE s[l].depth = 2
      <4>1. l \in NestedAt(b, t) /\ b[l].depth = 2
        BY <1>1, <1>4 DEF NestedAt
      <4> QED BY <2>1, <4>1
    <3>2. j \in t + 1 .. Len(s)
      BY <1>1, <1>4 DEF NestedAt
    <3> QED BY <3>1, <3>2 DEF NestedAt
  <2>3. ASSUME NEW j \in NestedAt(s, t) PROVE j \in NestedAt(b, t)
    <3>1. j \in t + 1 .. Len(s)
      BY DEF NestedAt
    <3>2. ASSUME NEW l \in t + 1 .. j PROVE l \in 1 .. Len(b) /\ b[l].depth = 2
      <4>1. l \in 1 .. Len(s) /\ s[l].depth = 2
        BY <1>1, <1>4, <3>1 DEF NestedAt
      <4>2. l <= Len(b)
        BY <1>1, <4>1 DEF Line1
      <4>3. l \in 1 .. Len(b)
        BY <1>1, <4>1, <4>2
      <4>4. s[l] = Line1(b[l].key, "new") => s[l].depth = 1
        BY DEF Line1
      <4> QED BY <1>1, <4>1, <4>3, <4>4
    <3>3. j \in t + 1 .. Len(b)
      BY <1>1, <1>4, <3>1, <3>2
    <3> QED BY <3>2, <3>3 DEF NestedAt
  <2>4. {s[j].key : j \in NestedAt(s, t)} = {b[j].key : j \in NestedAt(b, t)}
    BY <2>1, <2>2, <2>3
  <2> QED BY <1>3, <1>4, <1>8, <2>4 DEF Says
<1> QED BY <1>3, <1>7, <1>9 DEF s, Says

LEMMA RefreshTextInitial == RefreshTextInit => RefreshTextInv
<1> SUFFICES ASSUME RefreshTextInit PROVE RefreshTextInv
  OBVIOUS
<1>1. block \in Seq(BlockLines)
  BY BlockIsSequence
<1>2. WellFormed(block) /\ changes \subseteq Changeable /\ entries \in Nat /\ ~result.done
  BY DEF RefreshTextInit, NotApplied
<1> QED BY <1>1, <1>2 DEF RefreshTextInv, RefreshKeepsTheRest

LEMMA RefreshTextStep == RefreshTextInv /\ [Apply]_refreshTextVars => RefreshTextInv'
<1> SUFFICES ASSUME RefreshTextInv, [Apply]_refreshTextVars PROVE RefreshTextInv'
  OBVIOUS
<1>1. CASE UNCHANGED refreshTextVars
  BY <1>1 DEF RefreshTextInv, RefreshKeepsTheRest, refreshTextVars
<1>2. CASE Apply
  <2> DEFINE spliced == SplicedLines(block, changes)
  <2>1. /\ UNCHANGED <<block, changes>>
        /\ result'.block = IF Parses(spliced) THEN Meaning(spliced) ELSE Planned(block, changes)
    BY <1>2 DEF Apply
  <2>2. entries' \in Nat /\ entries' > 0
    BY <1>2 DEF Apply, RefreshTextInv
  <2>3. IsFiniteSet(changes) /\ block \in Seq(BlockLines) /\ WellFormed(block)
    BY RefreshTextAssumption, FS_Subset DEF RefreshTextInv
  <2> DEFINE Kept(m) ==
                 /\ \A k \in changes : k \in DOMAIN m /\ m[k].value = "new"
                 /\ \A k \in DOMAIN Meaning(block) \ changes :
                        /\ k \in DOMAIN m
                        /\ Meaning(block)[k].keys \cap changes = {} => m[k] = Meaning(block)[k]
  <2>4. Kept(Meaning(spliced))
    <3>1. ASSUME NEW k \in changes PROVE k \in DOMAIN Meaning(spliced) /\ Meaning(spliced)[k].value = "new"
      BY <2>3, ChangedSays
    <3>2. ASSUME NEW k \in DOMAIN Meaning(block), k \notin changes
          PROVE  /\ k \in DOMAIN Meaning(spliced)
                 /\ Meaning(block)[k].keys \cap changes = {} =>
                        Meaning(spliced)[k] = Meaning(block)[k]
      BY <2>3, <3>2, OtherSays
    <3> HIDE DEF spliced
    <3> QED BY <3>1, <3>2
  <2>5. Kept(Planned(block, changes))
    BY DEF Planned, New
  <2> HIDE DEF spliced
  <2>6. Kept(result'.block)
    BY <2>1, <2>4, <2>5
  <2>7. RefreshKeepsTheRest'
    <3> HIDE DEF Kept
    <3>1. Meaning(block)' = Meaning(block)
      BY <2>1 DEF Meaning, TopLines, NestedAt
    <3> USE DEF Kept
    <3> QED BY <2>1, <2>2, <2>6, <3>1 DEF RefreshKeepsTheRest
  <2>8. WellFormed(block)'
    BY <2>1, <2>3
  <2> QED BY <2>1, <2>2, <2>3, <2>7, <2>8 DEF RefreshTextInv
<1> QED BY <1>1, <1>2

\* Whatever block a digest has and whichever keys the plan changes, these have their new
\* values, the others are still there, and those without a key of a changed name below them
\* say what they said.
THEOREM RefreshAlwaysKeepsTheRest == RefreshTextSpec => []RefreshKeepsTheRest
<1>1. RefreshTextInv => RefreshKeepsTheRest
  BY DEF RefreshTextInv
<1> QED BY <1>1, RefreshTextInitial, RefreshTextStep, PTL DEF RefreshTextSpec

--------------------------------------------------------------------------------
(* Accounts. *)

\* What stays while a claim is bound.
Given ==
    /\ tellings \in Transcripts /\ anchors \subseteq Offsets
    /\ chapters \in ChapterSets /\ claim \in [at : Offsets, way : Ways]

Spanned(s) == s[1] <= PositionInBody /\ PositionInBody <= s[2]

\* A bound claim is in the narrowest of the spans that hold it.
BoundInv ==
    /\ Given /\ bound \in Nat
    /\ Bindable =>
           /\ bound \in DOMAIN tellings
           /\ \E s \in Resolve(tellings[bound]) :
                  /\ Spanned(s)
                  /\ \A j \in DOMAIN tellings : \A u \in Resolve(tellings[j]) :
                         Spanned(u) => s[2] - s[1] <= u[2] - u[1]

\* The tellings of a record, in order.
LEMMA TellingsFacts ==
    ASSUME Given
    PROVE  /\ DOMAIN tellings \subseteq 1 .. MaxTellings
           /\ DOMAIN tellings = 1 .. Len(tellings) /\ Len(tellings) \in Nat
           /\ \A i \in DOMAIN tellings : /\ tellings[i] \in Tellings
                                         /\ tellings[i].start < tellings[i].end
           /\ \A i, j \in DOMAIN tellings : i < j => /\ tellings[i].start < tellings[j].start
                                                     /\ Apart(tellings[i], tellings[j])
<1> DEFINE T == {t \in Tellings : t.start < t.end}
<1>1. tellings \in BoundedSeq(T, MaxTellings)
  BY DEF Given, Transcripts
<1>2. PICK m \in 0 .. MaxTellings : tellings \in [1 .. m -> T]
  BY <1>1, AccountsAssumption DEF BoundedSeq, SeqOf
<1>3. \A i, j \in DOMAIN tellings : i < j => /\ tellings[i].start < tellings[j].start
                                             /\ Apart(tellings[i], tellings[j])
  BY DEF Given, Transcripts
<1>4. tellings \in Seq(T) /\ Len(tellings) = m /\ DOMAIN tellings = 1 .. m
  BY <1>2, AccountsAssumption
<1>5. \A i \in DOMAIN tellings : tellings[i] \in T
  BY <1>2
<1> QED BY <1>3, <1>4, <1>5, AccountsAssumption

\* The typical width is a number.
LEMMA TypicalType == ASSUME Given PROVE Typical \in Nat
<1> DEFINE Whole == {i \in DOMAIN tellings : tellings[i].startFound /\ tellings[i].endFound}
           Width(i) == tellings[i].end - tellings[i].start
           Widths == {Width(i) : i \in Whole}
           NoWider(w) == {i \in Whole : Width(i) <= w}
           Half == {w \in Widths : 2 * Cardinality(NoWider(w)) > Cardinality(Whole)}
<1>1. CASE Whole = {}
  BY <1>1 DEF Typical
<1>2. CASE Whole # {}
  <2>1. \A i \in Whole : Width(i) \in 0 .. MaxOffset
    BY TellingsFacts, AccountsAssumption DEF Tellings, Offsets
  <2>2. Widths \subseteq 0 .. MaxOffset /\ Widths # {}
    BY <1>2, <2>1
  <2>3. PICK w \in Widths : \A v \in Widths : v <= w
    <3> HIDE DEF Widths
    <3> QED BY <2>2, MaxIsLast, AccountsAssumption
  <2>4. NoWider(w) = Whole
    BY <2>3
  <2>5. Cardinality(Whole) \in Nat \ {0}
    <3>1. IsFiniteSet(Whole)
      <4>1. Whole \subseteq 1 .. Len(tellings) /\ Len(tellings) \in Nat
        BY TellingsFacts
      <4>2. IsFiniteSet(1 .. Len(tellings))
        BY <4>1, FS_Interval
      <4> HIDE DEF Whole
      <4> QED BY <4>1, <4>2, FS_Subset
    <3> HIDE DEF Whole
    <3> QED BY <1>2, <3>1, FS_CardinalityType, FS_EmptySet
  <2>6. w \in Half
    <3>1. 2 * Cardinality(NoWider(w)) > Cardinality(Whole)
      <4> HIDE DEF Whole, NoWider
      <4> QED BY <2>4, <2>5
    <3> QED BY <3>1
  <2>7. Half \subseteq Nat
    BY <2>2, AccountsAssumption
  <2>8. Min(Half) \in Nat
    <3> HIDE DEF Half
    <3> QED BY <2>6, <2>7, MinIsFirst
  <2> QED BY <1>2, <2>8 DEF Typical
<1> QED BY <1>1, <1>2

\* A span has a beginning before its end.
LEMMA ResolveType ==
    ASSUME Given, NEW i \in DOMAIN tellings, NEW s \in Resolve(tellings[i])
    PROVE  s[1] \in Nat /\ s[2] \in Nat /\ s[1] < s[2]
<1> DEFINE t == tellings[i]
           Later == {u.start : u \in {v \in ToSet(tellings) : v.startFound /\ v.start > t.start}}
           Earlier == {u.end : u \in {v \in ToSet(tellings) : v.endFound /\ v.end < t.end}}
           begin == IF t.startFound THEN t.start
                    ELSE IF Earlier # {} THEN Max(Earlier)
                    ELSE IF t.end > Typical THEN t.end - Typical ELSE 0
           finish == IF t.endFound THEN t.end
                     ELSE IF Later # {} THEN Min(Later) ELSE t.start + Typical
<1>1. t.start \in Nat /\ t.end \in Nat /\ t.start < t.end
  BY TellingsFacts DEF Tellings, Offsets
<1>2. Typical \in Nat
  BY TypicalType
<1>3. \A v \in ToSet(tellings) : v.start \in Offsets /\ v.end \in Offsets
  BY TellingsFacts DEF ToSet, Tellings
<1>4. begin \in Nat
  <2>1. Earlier # {} => Max(Earlier) \in Nat
    <3>1. Earlier \subseteq 0 .. MaxOffset
      BY <1>3 DEF Offsets
    <3> HIDE DEF Earlier
    <3>2. Earlier # {} => Max(Earlier) \in Earlier
      BY <3>1, MaxIsLast, AccountsAssumption
    <3>3. ASSUME Earlier # {} PROVE Max(Earlier) \in Nat
      <4>1. Max(Earlier) \in 0 .. MaxOffset
        BY <3>1, <3>2, <3>3
      <4> QED BY <4>1, AccountsAssumption
    <3> QED BY <3>3
  <2> HIDE DEF Earlier
  <2> QED BY <1>1, <1>2, <2>1
<1>5. finish \in Nat
  <2>1. Later # {} => Min(Later) \in Nat
    <3>1. Later \subseteq Nat
      BY <1>3, AccountsAssumption DEF Offsets
    <3> HIDE DEF Later
    <3> QED BY <3>1, MinIsFirst
  <2> HIDE DEF Later
  <2> QED BY <1>1, <1>2, <2>1
<1>6. s = <<begin, finish>> /\ (begin < finish \/ (t.startFound /\ t.endFound))
  BY DEF Resolve
<1>7. t.startFound /\ t.endFound => begin = t.start /\ finish = t.end
  OBVIOUS
<1> HIDE DEF begin, finish
<1> QED BY <1>1, <1>4, <1>5, <1>6, <1>7

\* An exact claim is placed where it is.
LEMMA ExactPlace == ASSUME Given, Exact PROVE PositionInBody = claim.at /\ claim.at \in Nat
<1>0. claim.at \in Nat /\ claim.at \in Offsets /\ claim.way \in Ways
  BY AccountsAssumption DEF Given, Offsets
<1>1. CASE claim.way = "timecode"
  <2> DEFINE Later == {a \in anchors : a >= claim.at}
  <2>1. claim.at \in Later /\ Later \subseteq Nat
    <3>1. claim.at \in anchors
      BY <1>1 DEF Exact
    <3>2. anchors \subseteq Nat
      BY AccountsAssumption DEF Given, Offsets
    <3>3. claim.at >= claim.at
      BY <1>0
    <3>4. claim.at \in Later
      BY <3>1, <3>3
    <3>5. Later \subseteq Nat
      BY <3>2
    <3> QED BY <3>4, <3>5
  <2>2. Min(Later) \in Later /\ Min(Later) <= claim.at
    <3> HIDE DEF Later
    <3> QED BY <2>1, MinIsFirst
  <2>3. Min(Later) = claim.at
    <3>1. Min(Later) \in Nat /\ Min(Later) >= claim.at
      BY <2>1, <2>2
    <3> QED BY <1>0, <2>2, <3>1
  <2>4. OffsetForTime(claim.at) = Min(Later)
    BY <2>1 DEF OffsetForTime
  <2> QED BY <1>0, <1>1, <2>3, <2>4 DEF PositionInBody
<1>2. CASE claim.way = "quote"
  BY <1>0, <1>2 DEF PositionInBody
<1>3. CASE claim.way = "location"
  <2>1. chapters = {}
    BY <1>3 DEF Exact
  <2>2. OffsetsToSpan(claim.at, claim.at + 1, chapters).start = claim.at
    BY <1>0, <2>1 DEF OffsetsToSpan
  <2> QED BY <1>0, <1>3, <2>2 DEF PositionInBody
<1> QED BY <1>0, <1>1, <1>2, <1>3 DEF Ways

\* Where claims and tellings are stays as it was found.
LEMMA PlacesStay ==
    ASSUME UNCHANGED <<tellings, anchors, chapters, claim>>
    PROVE  /\ Given => Given'
           /\ \A s : Spanned(s)' <=> Spanned(s)
           /\ \A i : Resolve(tellings[i])' = Resolve(tellings[i])
<1>1. PositionInBody' = PositionInBody
  BY DEF PositionInBody, OffsetForTime
<1>2. Typical' = Typical
  BY DEF Typical
<1> QED BY <1>1, <1>2 DEF Given, Spanned, Resolve

\* Binding takes the narrowest of the spans that hold the claim.
LEMMA BindStep == BoundInv /\ [Bind]_accountVars => BoundInv'
<1> SUFFICES ASSUME BoundInv, [Bind]_accountVars PROVE BoundInv'
  OBVIOUS
<1>1. CASE UNCHANGED accountVars
  <2>1. UNCHANGED <<tellings, anchors, chapters, claim, bound>>
    BY <1>1 DEF accountVars
  <2> QED BY <2>1, PlacesStay DEF BoundInv, Bindable
<1>2. CASE Bind
  <2> DEFINE Spans == UNION {{[telling |-> i, begin |-> s[1], width |-> s[2] - s[1]] :
                                 s \in Resolve(tellings[i])} : i \in DOMAIN tellings}
             Holding == {s \in Spans : s.begin <= PositionInBody
                                          /\ PositionInBody <= s.begin + s.width}
             Narrowest == {s \in Holding : \A u \in Holding : s.width <= u.width}
  <2>1. Given
    BY DEF BoundInv
  <2>2. UNCHANGED <<tellings, anchors, chapters, claim>>
    BY <1>2 DEF Bind
  <2>3. bound' = IF Holding = {} THEN Outside ELSE Min({s.telling : s \in Narrowest})
    BY <1>2 DEF Bind
  <2>4. ASSUME NEW i \in DOMAIN tellings, NEW s \in Resolve(tellings[i])
        PROVE  s[1] \in Nat /\ s[2] - s[1] \in Nat /\ s[1] + (s[2] - s[1]) = s[2]
    BY <2>1, ResolveType
  <2>5. \A s \in Spans : s.telling \in DOMAIN tellings /\ s.width \in Nat
    BY <2>4
  <2>6. ASSUME Holding # {}
        PROVE  \E s \in Narrowest : s.telling = bound'
    <3> DEFINE Widths == {s.width : s \in Holding}
               Numbers == {s.telling : s \in Narrowest}
    <3>1. Widths \subseteq Nat /\ Widths # {}
      BY <2>5, <2>6
    <3>2. Min(Widths) \in Widths /\ \A w \in Widths : Min(Widths) <= w
      <4> HIDE DEF Widths
      <4> QED BY <3>1, MinIsFirst
    <3>3. PICK s \in Holding : s.width = Min(Widths)
      BY <3>2
    <3>4. s \in Narrowest
      BY <3>2, <3>3
    <3>5. Numbers \subseteq Nat /\ Numbers # {}
      <4>1. DOMAIN tellings \subseteq Nat
        BY <2>1, TellingsFacts
      <4> QED BY <2>5, <3>4, <4>1
    <3>6. Min(Numbers) \in Numbers
      <4> HIDE DEF Numbers
      <4> QED BY <3>5, MinIsFirst
    <3>7. bound' = Min(Numbers)
      BY <2>3, <2>6
    <3> HIDE DEF Narrowest
    <3> QED BY <3>6, <3>7
  <2>7. ASSUME Holding # {}
        PROVE  /\ bound' \in DOMAIN tellings
               /\ \E s \in Resolve(tellings[bound']) :
                      /\ Spanned(s)
                      /\ \A j \in DOMAIN tellings : \A u \in Resolve(tellings[j]) :
                             Spanned(u) => s[2] - s[1] <= u[2] - u[1]
    <3>1. PICK x \in Narrowest : x.telling = bound'
      BY <2>6, <2>7
    <3>2. x \in Spans /\ x.begin <= PositionInBody /\ PositionInBody <= x.begin + x.width
          /\ \A u \in Holding : x.width <= u.width
      BY <3>1
    <3>30. PICK i \in DOMAIN tellings :
               x \in {[telling |-> i, begin |-> s[1], width |-> s[2] - s[1]] : s \in Resolve(tellings[i])}
      BY <3>2
    <3>3. PICK s \in Resolve(tellings[i]) : x = [telling |-> i, begin |-> s[1], width |-> s[2] - s[1]]
      BY <3>30
    <3>4. i = bound' /\ x.begin = s[1] /\ x.width = s[2] - s[1]
      BY <3>1, <3>3
    <3>5. Spanned(s)
      BY <2>4, <3>2, <3>4 DEF Spanned
    <3>6. ASSUME NEW j \in DOMAIN tellings, NEW u \in Resolve(tellings[j]), Spanned(u)
          PROVE  s[2] - s[1] <= u[2] - u[1]
      <4> DEFINE y == [telling |-> j, begin |-> u[1], width |-> u[2] - u[1]]
      <4>1. y \in Spans
        <5>1. y \in {[telling |-> j, begin |-> v[1], width |-> v[2] - v[1]] : v \in Resolve(tellings[j])}
          OBVIOUS
        <5> HIDE DEF y
        <5> QED BY <5>1
      <4>2. y.begin <= PositionInBody /\ PositionInBody <= y.begin + y.width
        BY <2>4, <3>6 DEF Spanned
      <4>3. y \in Holding
        BY <4>1, <4>2
      <4> QED BY <3>2, <3>4, <4>3
    <3> QED BY <3>4, <3>5, <3>6
  <2>8. bound' \in Nat
    <3>1. DOMAIN tellings \subseteq Nat
      BY <2>1, TellingsFacts
    <3>2. CASE Holding = {}
      BY <2>3, <3>2, AccountsAssumption DEF Outside
    <3>3. CASE Holding # {}
      BY <2>7, <3>1, <3>3
    <3> QED BY <3>2, <3>3
  <2>9. Bindable' => Holding # {}
    BY <2>3 DEF Bindable, Outside
  <2> HIDE DEF Holding
  <2> QED BY <2>1, <2>2, <2>7, <2>8, <2>9, PlacesStay DEF BoundInv
<1> QED BY <1>1, <1>2

\* The narrowest span that holds an exact claim is that of the telling it stands in.
LEMMA BoundIsInnermost == BoundInv => ClaimsFindTheirTelling
<1> SUFFICES ASSUME BoundInv, Exact, Bindable
             PROVE  /\ (\A i \in DOMAIN tellings : tellings[i].startFound /\ tellings[i].endFound)
                           => Innermost(bound)
                    /\ (\A i \in DOMAIN tellings : tellings[i].startFound)
                           => \A i \in DOMAIN tellings :
                                  Innermost(i) /\ tellings[bound].end < tellings[i].start
                                      => claim.at = tellings[i].start
  BY DEF ClaimsFindTheirTelling
<1>0. Given /\ bound \in DOMAIN tellings
  BY DEF BoundInv
<1>1. PositionInBody = claim.at /\ claim.at \in Nat
  BY <1>0, ExactPlace
<1>2. PICK s \in Resolve(tellings[bound]) :
          /\ Spanned(s)
          /\ \A j \in DOMAIN tellings : \A u \in Resolve(tellings[j]) :
                 Spanned(u) => s[2] - s[1] <= u[2] - u[1]
  BY DEF BoundInv
<1>3. \A i \in DOMAIN tellings : /\ i \in Nat
                                  /\ tellings[i].start \in Nat /\ tellings[i].end \in Nat
                                  /\ tellings[i].start < tellings[i].end
  BY <1>0, TellingsFacts DEF Tellings, Offsets
<1>4. ASSUME \A i \in DOMAIN tellings : tellings[i].startFound /\ tellings[i].endFound
      PROVE  Innermost(bound)
  <2>1. ASSUME NEW i \in DOMAIN tellings
        PROVE  Resolve(tellings[i]) = {<<tellings[i].start, tellings[i].end>>}
    BY <1>4, <2>1 DEF Resolve
  <2>2. s = <<tellings[bound].start, tellings[bound].end>>
    BY <1>0, <1>2, <2>1
  <2>3. Inside(bound)
    BY <1>1, <1>2, <2>2 DEF Inside, Spanned
  <2>4. ASSUME NEW j \in DOMAIN tellings, Inside(j), bound < j PROVE FALSE
    <3>1. tellings[bound].start < tellings[j].start /\ Apart(tellings[bound], tellings[j])
      BY <1>0, <2>4, TellingsFacts
    <3>2. tellings[bound].end - tellings[bound].start <= tellings[j].end - tellings[j].start
      <4>1. <<tellings[j].start, tellings[j].end>> \in Resolve(tellings[j])
        BY <2>1
      <4>2. Spanned(<<tellings[j].start, tellings[j].end>>)
        BY <1>1, <2>4 DEF Spanned, Inside
      <4> QED BY <1>2, <2>2, <4>1, <4>2
    <3>3. tellings[j].start <= claim.at /\ claim.at <= tellings[bound].end
      BY <2>3, <2>4 DEF Inside
    <3> QED BY <1>0, <1>1, <1>3, <3>1, <3>2, <3>3 DEF Apart
  <2>5. \A j \in DOMAIN tellings : Inside(j) => j <= bound
    BY <1>0, <1>3, <2>4
  <2> QED BY <2>3, <2>5 DEF Innermost
<1>5. ASSUME \A i \in DOMAIN tellings : tellings[i].startFound,
             NEW i \in DOMAIN tellings, Innermost(i), tellings[bound].end < tellings[i].start
      PROVE  claim.at = tellings[i].start
  <2> DEFINE t == tellings[bound]
             Later == {u.start : u \in {v \in ToSet(tellings) : v.startFound /\ v.start > t.start}}
  <2>1. tellings[i].start <= claim.at
    BY <1>5 DEF Innermost, Inside
  <2>2. claim.at <= s[2]
    BY <1>1, <1>2 DEF Spanned
  <2>3. tellings[i].start \in Later
    <3>1. tellings[i] \in ToSet(tellings)
      BY DEF ToSet
    <3>2. tellings[i].start > t.start
      BY <1>0, <1>3, <1>5
    <3> QED BY <1>5, <3>1, <3>2
  <2>4. CASE t.endFound
    <3>1. s[2] = t.end
      BY <1>0, <1>2, <1>5, <2>4 DEF Resolve
    <3> QED BY <1>0, <1>1, <1>3, <1>5, <2>1, <2>2, <3>1
  <2>5. CASE ~t.endFound
    <3>1. s[2] = Min(Later)
      BY <1>0, <1>2, <1>5, <2>3, <2>5 DEF Resolve
    <3>2. Min(Later) \in Nat /\ Min(Later) <= tellings[i].start
      <4>1. Later \subseteq Nat
        BY <1>3 DEF ToSet
      <4> HIDE DEF Later
      <4> QED BY <2>3, <4>1, MinIsFirst
    <3> QED BY <1>1, <1>3, <2>1, <2>2, <3>1, <3>2
  <2> QED BY <2>4, <2>5
<1> QED BY <1>4, <1>5

\* For any tellings, anchors, chapters and claims: a claim whose place is exact is bound to the
\* innermost telling it stands in if all ends are found; and if the beginnings are, never to one
\* that had ended before its own began, but at that very place.
THEOREM ClaimsAlwaysFindTheirTelling == AccountsSpec => []ClaimsFindTheirTelling
<1>1. AccountsInit => BoundInv
  <2>1. AccountsInit => anchors \subseteq Offsets
    BY DEF AccountsInit, Offsets
  <2> QED BY <2>1 DEF AccountsInit, BoundInv, Given, Bindable, Unbound
<1> QED BY <1>1, BindStep, BoundIsInnermost, PTL DEF AccountsSpec

--------------------------------------------------------------------------------
(* RecordParser. *)

\* The first fence from a line on is at or behind it.
LEMMA FenceFacts ==
    ASSUME NEW text \in Seq(Lines), NEW from \in Nat, FindFenceEnd(text, from) # NoFence
    PROVE  FindFenceEnd(text, from) \in from .. Len(text)
<1> DEFINE Fences == {i \in from .. Len(text) : text[i] = "fence"}
<1>1. Fences # {} /\ Fences \subseteq Nat
  BY DEF FindFenceEnd
<1>2. Min(Fences) \in Fences
  BY <1>1, MinIsFirst
<1> QED BY <1>1, <1>2 DEF FindFenceEnd

\* The lines of an annotation, its fences included.
BlockAt(i) == i .. FindFenceEnd(record, i + 1)

\* Up to its line the loop has kept or taken every line, and has taken none of prose.
LoopInv ==
    /\ line \in BodyStart(record) .. Len(record) + 1
    /\ contentParts \subseteq BodyStart(record) .. line - 1 /\ IsFiniteSet(contentParts)
    /\ \A k \in BodyStart(record) .. line - 1 :
           /\ k \in contentParts \/ k \in AnnotationLines(record)
           /\ record[k] = "prose" => k \in contentParts

\* The pages lie one behind the other, each with its offset, and no line of them is kept.
PagesInv ==
    \A p \in pages :
        /\ p \in [at : Nat, offset : Nat] /\ FindFenceEnd(record, p.at + 1) \in p.at + 1 .. line - 1
        /\ BlockAt(p.at) \cap contentParts = {} /\ p.offset <= Cardinality(contentParts)
        /\ \A q \in pages : p.at < q.at =>
               FindFenceEnd(record, p.at + 1) < q.at /\ p.offset <= q.offset

ParserInv ==
    /\ record \in Seq(Lines) /\ line \in Nat /\ BodyStart(record) \in 1 .. Len(record) + 1
    /\ line = 0 => contentParts = {} /\ pages = {}
    /\ line # 0 => LoopInv /\ PagesInv
    /\ parsed.done => line = Len(record) + 1 /\ parsed.body = Stripped(record, contentParts)

LEMMA ParserInitial == ParserInit => ParserInv
<1> SUFFICES ASSUME ParserInit PROVE ParserInv
  OBVIOUS
<1>1. record \in Seq(Lines)
  <2>1. PICK m \in 0 .. MaxLines : record \in [1 .. m -> Lines]
    BY DEF ParserInit, BoundedSeq, SeqOf
  <2> QED BY <2>1, ParserAssumption
<1>2. BodyStart(record) \in 1 .. Len(record) + 1
  <2>1. FindFenceEnd(record, 2) # NoFence => FindFenceEnd(record, 2) \in 2 .. Len(record)
    BY <1>1, FenceFacts
  <2> QED BY <1>1, <2>1 DEF BodyStart
<1> QED BY <1>1, <1>2 DEF ParserInit, ParserInv, NotParsed

LEMMA TakeAnnotationStep == ASSUME ParserInv, TakeAnnotation PROVE ParserInv'
<1>1. /\ record \in Seq(Lines) /\ line \in 1 .. Len(record) /\ LoopInv /\ PagesInv
      /\ BodyStart(record) \in 1 .. Len(record) + 1 /\ ~ parsed.done
  <2>1. line \in 1 .. Len(record)
    BY DEF TakeAnnotation, ParserInv
  <2> QED BY <2>1 DEF ParserInv
<1>2. PICK c \in line + 1 .. Len(record) : c = CloseOf /\ FindFenceEnd(record, line + 1) = c
  BY <1>1, FenceFacts DEF TakeAnnotation, AtAnnotation, CloseOf
<1>3. record' = record /\ contentParts' = contentParts /\ parsed' = parsed /\ line' = c + 1
  BY <1>2 DEF TakeAnnotation
<1>4. line \in BodyStart(record) .. Len(record) /\ contentParts \subseteq BodyStart(record) .. line - 1
      /\ IsFiniteSet(contentParts)
  BY <1>1 DEF LoopInv
<1>5. BlockAt(line) = line .. c
  BY <1>2 DEF BlockAt
<1>6. record[line] = "fence" /\ record[c] = "fence"
      /\ Corroborated({record[i] : i \in line + 1 .. c - 1})
  <2> DEFINE Fences == {i \in line + 1 .. Len(record) : record[i] = "fence"}
  <2>1. Fences # {} /\ Fences \subseteq Nat /\ c = Min(Fences)
    BY <1>1, <1>2 DEF FindFenceEnd, NoFence
  <2>2. c \in Fences
    BY <2>1, MinIsFirst
  <2> QED BY <1>2, <2>2 DEF TakeAnnotation, AtAnnotation, IsAnnotationBlock
<1>7. line .. c \subseteq AnnotationLines(record)
  <2>2. Corroborated({record[k] : k \in line + 1 .. FindFenceEnd(record, line + 1) - 1})
    BY <1>2, <1>6
  <2>3. FindFenceEnd(record, line + 1) # NoFence
    BY <1>1, <1>2 DEF NoFence
  <2>1. line \in {f \in BodyStart(record) .. Len(record) :
                  /\ record[f] = "fence" /\ FindFenceEnd(record, f + 1) # NoFence
                  /\ Corroborated({record[k] : k \in f + 1 .. FindFenceEnd(record, f + 1) - 1})}
    BY <1>4, <1>6, <2>2, <2>3, Zenon
  <2> QED BY <1>2, <2>1 DEF AnnotationLines
<1>8. \A k \in line .. c : record[k] # "prose"
  <2>1. ASSUME NEW k \in line + 1 .. c - 1 PROVE record[k] # "prose"
    BY <1>6 DEF Corroborated
  <2>2. \A k \in line .. c : k = line \/ k = c \/ k \in line + 1 .. c - 1
    BY <1>1, <1>2
  <2> QED BY <1>6, <2>1, <2>2
<1>9. LoopInv'
  <2>1. line' \in BodyStart(record) .. Len(record) + 1
    BY <1>1, <1>2, <1>3, <1>4
  <2>2. contentParts \subseteq BodyStart(record) .. line' - 1
    BY <1>1, <1>2, <1>3, <1>4
  <2>3. ASSUME NEW k \in BodyStart(record) .. line' - 1
        PROVE  /\ k \in contentParts \/ k \in AnnotationLines(record)
               /\ record[k] = "prose" => k \in contentParts
    <3>1. k \in BodyStart(record) .. line - 1 \/ k \in line .. c
      BY <1>1, <1>2, <1>3
    <3> QED BY <1>1, <1>7, <1>8, <3>1 DEF LoopInv
  <2>4. BodyStart(record)' = BodyStart(record) /\ AnnotationLines(record)' = AnnotationLines(record)
    BY <1>3
  <2> QED BY <1>3, <1>4, <2>1, <2>2, <2>3, <2>4 DEF LoopInv
<1>10. PagesInv'
  <2> DEFINE new == [at |-> line, offset |-> Cardinality(contentParts)]
             End(p) == FindFenceEnd(record, p.at + 1)
  <2>1. pages' \subseteq pages \cup {new}
    BY DEF TakeAnnotation
  <2>2. new \in [at : Nat, offset : Nat] /\ new.at = line /\ new.offset = Cardinality(contentParts)
        /\ End(new) = c
    BY <1>1, <1>2, <1>4, FS_CardinalityType
  <2>3. ASSUME NEW p \in pages
        PROVE  /\ p \in [at : Nat, offset : Nat] /\ End(p) \in p.at + 1 .. line - 1
               /\ BlockAt(p.at) \cap contentParts = {} /\ p.offset <= Cardinality(contentParts)
               /\ \A q \in pages : p.at < q.at => End(p) < q.at /\ p.offset <= q.offset
    BY <1>1 DEF PagesInv
  <2> HIDE DEF new
  <2>4. line .. c \cap contentParts = {}
    BY <1>1, <1>2, <1>4
  <2>5. ASSUME NEW p \in pages \cup {new}
        PROVE  /\ p \in [at : Nat, offset : Nat] /\ End(p) \in p.at + 1 .. line' - 1
               /\ BlockAt(p.at) \cap contentParts = {} /\ p.offset <= Cardinality(contentParts)
    <3>1. CASE p = new
      BY <1>1, <1>2, <1>3, <1>4, <1>5, <2>2, <2>4, <3>1, FS_CardinalityType
    <3>2. CASE p \in pages
      <4>1. End(p) \in p.at + 1 .. line' - 1
        BY <1>1, <1>2, <1>3, <2>3, <3>2
      <4> QED BY <2>3, <3>2, <4>1
    <3> QED BY <3>1, <3>2
  <2>6. ASSUME NEW p \in pages \cup {new}, NEW q \in pages \cup {new}, p.at < q.at
        PROVE  End(p) < q.at /\ p.offset <= q.offset
    <3>1. CASE p \in pages /\ q \in pages
      BY <2>3, <2>6, <3>1
    <3>2. CASE p \in pages /\ q = new
      BY <1>1, <2>2, <2>3, <3>2
    <3>3. CASE p = new
      <4>1. q # new
        BY <1>1, <2>2, <2>6, <3>3
      <4>2. q \in pages /\ End(q) \in q.at + 1 .. line - 1 /\ q.at \in Nat
        BY <2>3, <4>1
      <4> QED BY <1>1, <2>2, <2>6, <3>3, <4>2
    <3> QED BY <3>1, <3>2, <3>3
  <2>7. \A i : FindFenceEnd(record, i)' = FindFenceEnd(record, i) /\ BlockAt(i)' = BlockAt(i)
    BY <1>3 DEF FindFenceEnd, BlockAt
  <2> QED BY <1>3, <2>1, <2>5, <2>6, <2>7 DEF PagesInv
<1> QED BY <1>1, <1>2, <1>3, <1>9, <1>10 DEF ParserInv

LEMMA KeepLineStep == ASSUME ParserInv, KeepLine PROVE ParserInv'
<1>1. /\ record \in Seq(Lines) /\ line \in 1 .. Len(record) /\ LoopInv /\ PagesInv
      /\ BodyStart(record) \in 1 .. Len(record) + 1 /\ ~ parsed.done
  <2>1. line \in 1 .. Len(record)
    BY DEF KeepLine, ParserInv
  <2> QED BY <2>1 DEF ParserInv
<1>2. /\ record' = record /\ pages' = pages /\ parsed' = parsed /\ line' = line + 1
      /\ contentParts' = contentParts \cup {line}
  BY DEF KeepLine
<1>3. line \in BodyStart(record) .. Len(record) /\ contentParts \subseteq BodyStart(record) .. line - 1
      /\ IsFiniteSet(contentParts)
  BY <1>1 DEF LoopInv
<1>4. IsFiniteSet(contentParts') /\ Cardinality(contentParts) <= Cardinality(contentParts')
  <2>1. line \notin contentParts
    BY <1>1, <1>3
  <2>2. IsFiniteSet(contentParts \cup {line})
        /\ Cardinality(contentParts \cup {line}) = Cardinality(contentParts) + 1
    BY <1>3, <2>1, FS_AddElement
  <2>3. Cardinality(contentParts) \in Nat
    BY <1>3, FS_CardinalityType
  <2> QED BY <1>2, <2>2, <2>3
<1>5. LoopInv'
  <2>1. line' \in BodyStart(record) .. Len(record) + 1
        /\ contentParts' \subseteq BodyStart(record) .. line' - 1
    BY <1>1, <1>2, <1>3
  <2>2. ASSUME NEW k \in BodyStart(record) .. line' - 1
        PROVE  /\ k \in contentParts' \/ k \in AnnotationLines(record)
               /\ record[k] = "prose" => k \in contentParts'
    <3>1. k \in BodyStart(record) .. line - 1 \/ k = line
      BY <1>1, <1>2
    <3> QED BY <1>1, <1>2, <3>1 DEF LoopInv
  <2>3. BodyStart(record)' = BodyStart(record) /\ AnnotationLines(record)' = AnnotationLines(record)
    BY <1>2
  <2> QED BY <1>2, <1>4, <2>1, <2>2, <2>3 DEF LoopInv
<1>6. PagesInv'
  <2>1. \A i : FindFenceEnd(record, i)' = FindFenceEnd(record, i) /\ BlockAt(i)' = BlockAt(i)
    BY <1>2 DEF FindFenceEnd, BlockAt
  <2>2. ASSUME NEW p \in pages
        PROVE  /\ FindFenceEnd(record, p.at + 1) \in p.at + 1 .. line' - 1
               /\ BlockAt(p.at) \cap contentParts' = {} /\ p.offset <= Cardinality(contentParts')
    <3>1. /\ p \in [at : Nat, offset : Nat]
          /\ FindFenceEnd(record, p.at + 1) \in p.at + 1 .. line - 1
          /\ BlockAt(p.at) \cap contentParts = {} /\ p.offset <= Cardinality(contentParts)
      BY <1>1 DEF PagesInv
    <3>2. line \notin BlockAt(p.at)
      BY <1>1, <3>1 DEF BlockAt
    <3>3. Cardinality(contentParts) \in Nat /\ Cardinality(contentParts') \in Nat
      BY <1>3, <1>4, FS_CardinalityType
    <3> QED BY <1>1, <1>2, <1>4, <3>1, <3>2, <3>3
  <2> QED BY <1>1, <1>2, <2>1, <2>2 DEF PagesInv
<1> QED BY <1>1, <1>2, <1>5, <1>6 DEF ParserInv

LEMMA ParserStep == ParserInv /\ [ParserNext]_parserVars => ParserInv'
<1> SUFFICES ASSUME ParserInv, [ParserNext]_parserVars PROVE ParserInv'
  OBVIOUS
<1>1. CASE ParseFrontmatter
  <2>1. record' = record /\ line' = BodyStart(record) /\ UNCHANGED <<contentParts, pages, parsed>>
        /\ line = 0 /\ contentParts = {} /\ pages = {} /\ ~ parsed.done
        /\ record \in Seq(Lines) /\ BodyStart(record) \in 1 .. Len(record) + 1
    BY <1>1 DEF ParseFrontmatter, ParserInv
  <2>2. LoopInv'
    BY <2>1, FS_EmptySet DEF LoopInv
  <2>3. PagesInv'
    BY <2>1 DEF PagesInv
  <2> QED BY <2>1, <2>2, <2>3 DEF ParserInv
<1>2. CASE TakeAnnotation
  BY <1>2, TakeAnnotationStep
<1>3. CASE KeepLine
  BY <1>3, KeepLineStep
<1>4. CASE Strip
  <2>1. /\ UNCHANGED <<record, line, contentParts, pages>>
        /\ parsed'.done /\ parsed'.body = Stripped(record, contentParts)
        /\ line > Len(record)
    BY <1>4 DEF Strip
  <2>2. line # 0 /\ line = Len(record) + 1
    BY <2>1 DEF ParserInv, LoopInv
  <2>3. LoopInv' /\ PagesInv'
    BY <2>1, <2>2 DEF ParserInv, LoopInv, PagesInv, BlockAt
  <2> QED BY <2>1, <2>2, <2>3 DEF ParserInv
<1>5. CASE UNCHANGED parserVars
  BY <1>5 DEF parserVars, ParserInv, LoopInv, PagesInv, BlockAt
<1> QED BY <1>1, <1>2, <1>3, <1>4, <1>5 DEF ParserNext

\* The strip takes blank lines only, and only from the ends.
LEMMA StrippedFacts ==
    ASSUME NEW n \in Nat, NEW kept, kept \subseteq 1 .. n, NEW text
    PROVE  /\ Stripped(text, kept) \subseteq kept
           /\ \A i \in kept : text[i] = "prose" => i \in Stripped(text, kept)
           /\ \A i, j \in Stripped(text, kept) : \A k \in i .. j :
                  k \in kept => k \in Stripped(text, kept)
<1> DEFINE Solid == {i \in kept : text[i] # "blank"}
<1>1. Stripped(text, kept) = {i \in kept : Solid # {} /\ Min(Solid) <= i /\ i <= Max(Solid)}
  BY DEF Stripped
<1>2. Solid # {} => /\ Min(Solid) \in Solid /\ \A i \in Solid : Min(Solid) <= i
                    /\ Max(Solid) \in Solid /\ \A i \in Solid : i <= Max(Solid)
  <2>1. Solid \subseteq Nat /\ Solid \subseteq 0 .. n
    <3>1. Solid \subseteq kept /\ kept \subseteq Nat /\ kept \subseteq 0 .. n
      OBVIOUS
    <3> QED BY <3>1, Zenon
  <2> QED BY <2>1, MinIsFirst, MaxIsLast
<1>3. ASSUME NEW i \in kept, text[i] = "prose" PROVE i \in Stripped(text, kept)
  <2>1. i \in Solid
    BY <1>3
  <2> QED BY <1>1, <1>2, <2>1
<1>4. ASSUME NEW i \in Stripped(text, kept), NEW j \in Stripped(text, kept), NEW k \in i .. j, k \in kept
      PROVE  k \in Stripped(text, kept)
  <2>1. Solid # {} /\ Min(Solid) <= i /\ j <= Max(Solid) /\ i \in 1 .. n /\ j \in 1 .. n
    BY <1>1, <1>4
  <2>2. Min(Solid) \in 1 .. n /\ Max(Solid) \in 1 .. n
    BY <1>2, <2>1
  <2> HIDE DEF Solid
  <2>3. Min(Solid) <= k /\ k <= Max(Solid)
    BY <2>1, <2>2
  <2> QED BY <1>1, <1>4, <2>1, <2>3
<1> QED BY <1>1, <1>3, <1>4

\* Whatever a record has in it, and however its annotations and its rules are mixed: all
\* that is missing from the body is annotations and what is blank at its ends, and a page
\* has the offset of the text behind it.
THEOREM OnlyAnnotationsAreEverTaken == ParserSpec => []OnlyAnnotationsAreTaken
<1>1. ParserInv => OnlyAnnotationsAreTaken
  <2> SUFFICES ASSUME ParserInv, parsed.done PROVE OnlyAnnotationsAreTaken
    BY DEF OnlyAnnotationsAreTaken
  <2>1. /\ line = Len(record) + 1 /\ parsed.body = Stripped(record, contentParts)
        /\ LoopInv /\ PagesInv /\ record \in Seq(Lines) /\ BodyStart(record) \in 1 .. Len(record) + 1
    BY DEF ParserInv
  <2>2. contentParts \subseteq BodyStart(record) .. Len(record) /\ contentParts \subseteq 1 .. Len(record)
        /\ Len(record) \in Nat
    BY <2>1 DEF LoopInv
  <2>3. /\ parsed.body \subseteq contentParts
        /\ \A i \in contentParts : record[i] = "prose" => i \in parsed.body
        /\ \A i, j \in parsed.body : \A k \in i .. j : k \in contentParts => k \in parsed.body
    <3> DEFINE S == Stripped(record, contentParts)
    <3>1. /\ S \subseteq contentParts
          /\ \A i \in contentParts : record[i] = "prose" => i \in S
          /\ \A i, j \in S : \A k \in i .. j : k \in contentParts => k \in S
      BY <2>2, StrippedFacts, Zenon
    <3> QED BY <2>1, <3>1, Zenon
  <2>4. \A i \in BodyStart(record) .. Len(record) : record[i] = "prose" => i \in parsed.body
    BY <2>1, <2>3 DEF LoopInv
  <2>5. ASSUME NEW i \in parsed.body, NEW j \in parsed.body, NEW k \in i .. j
        PROVE  k \in parsed.body \/ k \in AnnotationLines(record)
    <3>1. k \in BodyStart(record) .. Len(record)
      <4>1. i \in BodyStart(record) .. Len(record) /\ j \in BodyStart(record) .. Len(record)
        BY <2>2, <2>3
      <4> QED BY <2>1, <4>1
    <3> QED BY <2>1, <2>3, <3>1 DEF LoopInv
  <2>6. ASSUME NEW p \in pages
        PROVE  /\ (p.at .. FindFenceEnd(record, p.at + 1)) \cap parsed.body = {}
               /\ \A q \in pages : p.at < q.at =>
                      FindFenceEnd(record, p.at + 1) < q.at /\ p.offset <= q.offset
    BY <2>1, <2>3 DEF PagesInv, BlockAt
  <2> QED BY <2>4, <2>5, <2>6 DEF OnlyAnnotationsAreTaken
<1> QED BY <1>1, ParserInitial, ParserStep, PTL DEF ParserSpec

--------------------------------------------------------------------------------
(* Chunks. *)

\* The ceiling of a chunk is neither 0 nor above the hard one.
LEMMA Sizes ==
    /\ HardLimit \in Nat \ {0} /\ HardLimit <= HardMax
    /\ Least \in Nat
<1>1. Max({MaxChars, MinChars}) \in {MaxChars, MinChars}
      /\ MinChars <= Max({MaxChars, MinChars})
  <2>1. MaxChars + MinChars \in Nat /\ {MaxChars, MinChars} \subseteq 0 .. MaxChars + MinChars
    BY SizesAssumption
  <2> QED BY <2>1, MaxIsLast
<1>2. PICK m \in Nat \ {0} : m = Max({MaxChars, MinChars})
  BY <1>1, SizesAssumption
<1>3. HardLimit \in {HardMax, m} /\ HardLimit <= HardMax
  <2>1. {HardMax, m} \subseteq Nat
    BY SizesAssumption
  <2> QED BY <1>2, <2>1, MinIsFirst DEF HardLimit
<1>4. Min({ChapterMin, HardLimit}) \in {ChapterMin, HardLimit}
  <2>1. {ChapterMin, HardLimit} \subseteq Nat
    BY <1>3, SizesAssumption
  <2> QED BY <2>1, MinIsFirst
<1> QED BY <1>2, <1>3, <1>4, SizesAssumption DEF Least

\* A split is behind a line break of the window and not at its very beginning; where there
\* is none, no line ends there.
LEMMA SplitFacts ==
    ASSUME body \in Seq(Chars), NEW lo \in Nat, NEW hi \in Nat, hi <= Len(body)
    PROVE  \/ /\ FindSplitPoint(lo, hi) = NoSplit
              /\ \A i \in lo + 2 .. hi : body[i] # "newline"
           \/ /\ FindSplitPoint(lo, hi) \in lo + 2 .. hi
              /\ body[FindSplitPoint(lo, hi)] = "newline"
<1> DEFINE Found == {k \in DOMAIN Patterns : Hits(k, lo, hi) # {}}
<1>1. /\ DOMAIN Patterns = 1 .. 4
      /\ \A k \in 1 .. 4 : Len(Patterns[k]) \in 1 .. 2 /\ DOMAIN Patterns[k] = 1 .. Len(Patterns[k])
                           /\ Patterns[k][1] = "newline"
      /\ Patterns[4] = <<"newline">> /\ Len(Patterns[4]) = 1
  BY DEF Patterns
<1>2. CASE Found = {}
  <2>1. FindSplitPoint(lo, hi) = NoSplit /\ Hits(4, lo, hi) = {}
    BY <1>1, <1>2 DEF FindSplitPoint
  <2>2. ASSUME NEW i \in lo + 2 .. hi, body[i] = "newline" PROVE FALSE
    <3>1. i - 1 \in lo + 1 .. hi - 1 /\ (i - 1) + 1 = i
      OBVIOUS
    <3>2. \A j \in DOMAIN Patterns[4] : j = 1 /\ Patterns[4][j] = "newline"
      BY <1>1
    <3>3. i - 1 \in Hits(4, lo, hi)
      BY <1>1, <2>2, <3>1, <3>2 DEF Hits
    <3> QED BY <2>1, <3>3
  <2> QED BY <2>1, <2>2
<1>3. CASE Found # {}
  <2>1. Found \subseteq Nat
    BY <1>1
  <2>2. PICK k \in 1 .. 4 : k = Min(Found) /\ Hits(k, lo, hi) # {}
    <3>1. Min(Found) \in Found
      BY <1>3, <2>1, MinIsFirst
    <3> QED BY <1>1, <3>1
  <2>3. Hits(k, lo, hi) \subseteq 0 .. hi /\ hi \in Nat
    BY <1>1 DEF Hits
  <2>4. PICK i \in Hits(k, lo, hi) : i = Max(Hits(k, lo, hi))
    BY <2>2, <2>3, MaxIsLast
  <2>5. FindSplitPoint(lo, hi) = i + 1
    BY <1>3, <2>2, <2>4 DEF FindSplitPoint
  <2>6. i \in lo + 1 .. hi - Len(Patterns[k]) /\ body[i + 1] = "newline"
    <3>1. 1 \in DOMAIN Patterns[k] /\ Patterns[k][1] = "newline"
      BY <1>1
    <3> QED BY <2>4, <3>1 DEF Hits
  <2>7. i + 1 \in lo + 2 .. hi
    <3>1. PICK l \in 1 .. 2 : l = Len(Patterns[k])
      BY <1>1
    <3>2. i \in lo + 1 .. hi - l
      BY <2>6, <3>1
    <3> HIDE DEF Found
    <3> QED BY <3>2
  <2> QED BY <2>5, <2>6, <2>7
<1> QED BY <1>2, <1>3

\* A chapter ends before the next break, or with the body.
LEMMA ChapterEnds ==
    ASSUME body \in Seq(Chars), NEW from \in 0 .. Len(body)
    PROVE  /\ ChapterEnd(from) \in from .. Len(body)
           /\ ChapterEnd(from) # Len(body) => ChapterEnd(from) + 1 \in Breaks
           /\ \A i \in Breaks : ~ (from < i /\ i <= ChapterEnd(from))
<1> DEFINE Later == {i \in Breaks : i > from}
<1>1. Len(body) \in Nat /\ Breaks \subseteq 1 .. Len(body) - 1
  BY DEF Breaks
<1>2. CASE Later = {}
  BY <1>1, <1>2 DEF ChapterEnd
<1>3. CASE Later # {}
  <2>1. PICK m \in Later : m = Min(Later) /\ \A i \in Later : m <= i
    <3>1. Later \subseteq Nat
      <4>1. Later \subseteq Breaks
        OBVIOUS
      <4>2. Breaks \subseteq Nat
        BY <1>1
      <4> QED BY <4>1, <4>2, Zenon
    <3>2. Min(Later) \in Later /\ \A i \in Later : Min(Later) <= i
      BY <1>3, <3>1, MinIsFirst
    <3> QED BY <3>2, Zenon
  <2>2. m \in Breaks /\ m \in from + 1 .. Len(body) - 1 /\ ChapterEnd(from) = m - 1
    BY <1>1, <1>3, <2>1 DEF ChapterEnd
  <2>3. ASSUME NEW i \in Breaks, from < i, i <= m - 1 PROVE FALSE
    <3>1. i \in Later
      BY <2>3
    <3> QED BY <1>1, <2>1, <2>2, <2>3, <3>1
  <2> QED BY <1>1, <2>2, <2>3
<1> QED BY <1>2, <1>3

Spans == [from : Nat, to : Nat]

\* Where the two loops stand in the body.
PlaceInv ==
    /\ body \in Seq(Chars) /\ (body # <<>> => body[1] # "newline")
    /\ stop \in 0 .. Len(body) /\ pos \in 0 .. stop
    /\ stop # Len(body) => stop + 1 \in Breaks
    /\ \A i \in Breaks : ~ (pos < i /\ i <= stop)

\* What is cut so far ends where the loop stands, or before the newline it just passed.
CutInv ==
    /\ chunks \in Seq(Spans)
    /\ chunks = <<>> => pos = 0 /\ (body # <<>> => pos < stop)
    /\ chunks # <<>> =>
           LET c == chunks[Len(chunks)]
           IN  \/ c.to = pos /\ (pos < stop => EndsWell(c))
               \/ pos = c.to + 1 /\ pos \in Breaks /\ pos < stop

ChunkInv == PlaceInv /\ CutInv /\ CutWell

LEMMA ChunkInitial == ChunkInit => ChunkInv
<1> SUFFICES ASSUME ChunkInit PROVE ChunkInv
  OBVIOUS
<1>1. body \in Seq(Chars) /\ (body # <<>> => body[1] # "newline")
  <2>1. PICK m \in 0 .. MaxLen : body \in [1 .. m -> Chars]
    BY DEF ChunkInit, Bodies, BoundedSeq, SeqOf
  <2> QED BY <2>1, SizesAssumption DEF ChunkInit, Bodies
<1>2. chunks = <<>> /\ pos = 0 /\ stop = ChapterEnd(0) /\ 0 \in 0 .. Len(body)
  BY <1>1 DEF ChunkInit
<1>3. /\ stop \in 0 .. Len(body) /\ (stop # Len(body) => stop + 1 \in Breaks)
      /\ \A i \in Breaks : ~ (0 < i /\ i <= stop)
  BY <1>1, <1>2, ChapterEnds
<1>4. body # <<>> => 0 < stop
  <2>1. SUFFICES ASSUME body # <<>>, stop = 0 PROVE FALSE
    BY <1>3
  <2>2. 1 \in Breaks
    BY <1>1, <1>3, <2>1
  <2> QED BY <1>1, <2>1, <2>2 DEF Breaks
<1>5. PlaceInv
  BY <1>1, <1>2, <1>3 DEF PlaceInv
<1>6. CutInv
  BY <1>2, <1>4 DEF CutInv
<1>7. CutWell
  BY <1>2 DEF CutWell, Lossless, Fits, CutsBetweenLines, IsCut
<1> QED BY <1>5, <1>6, <1>7 DEF ChunkInv

\* The next chunk: where it ends, and how.
LEMMA EndFacts ==
    ASSUME ChunkInv, pos < stop \/ chunks = <<>>
    PROVE  /\ NextEnd \in pos .. stop /\ NextEnd - pos <= HardMax
           /\ body # <<>> => pos < NextEnd
           /\ NextEnd < stop => EndsWell([from |-> pos, to |-> NextEnd])
<1>1. /\ body \in Seq(Chars) /\ Len(body) \in Nat /\ stop \in 0 .. Len(body) /\ pos \in 0 .. stop
      /\ body # <<>> => pos < stop
  BY DEF ChunkInv, PlaceInv, CutInv
<1>2. PICK limit \in Nat \ {0}, least \in Nat : limit = HardLimit /\ least = Least /\ limit <= HardMax
  BY Sizes
<1>3. CASE pos + limit >= stop
  BY <1>1, <1>2, <1>3, SizesAssumption DEF NextEnd
<1>4. CASE pos + limit < stop
  <2> DEFINE split == FindSplitPoint(pos + least, pos + limit)
             c == [from |-> pos, to |-> NextEnd]
  <2>1. pos + least \in Nat /\ pos + limit \in Nat /\ pos + limit <= Len(body)
    BY <1>1, <1>2, <1>4
  <2>2. \/ split = NoSplit /\ \A i \in pos + least + 2 .. pos + limit : body[i] # "newline"
        \/ split \in pos + least + 2 .. pos + limit /\ body[split] = "newline"
    BY <1>1, <2>1, SplitFacts
  <2>3. NextEnd = IF split = NoSplit THEN pos + limit ELSE split
    BY <1>1, <1>2, <1>4 DEF NextEnd
  <2> HIDE DEF split
  <2>4. CASE split = NoSplit /\ \A i \in pos + least + 2 .. pos + limit : body[i] # "newline"
    <3>1. NextEnd = pos + limit
      BY <2>3, <2>4
    <3>2. EndsWell(c)
      BY <1>1, <1>2, <2>4, <3>1 DEF EndsWell
    <3> QED BY <1>1, <1>2, <1>4, <3>1, <3>2, SizesAssumption
  <2>5. CASE split \in pos + least + 2 .. pos + limit /\ body[split] = "newline"
    <3>1. NextEnd = split
      BY <1>1, <2>3, <2>5 DEF NoSplit
    <3>2. EndsWell(c)
      BY <2>5, <3>1 DEF EndsWell
    <3> QED BY <1>1, <1>2, <1>4, <2>5, <3>1, <3>2, SizesAssumption
  <2> QED BY <2>2, <2>4, <2>5
<1> QED BY <1>1, <1>2, <1>3, <1>4

LEMMA CutStep == ASSUME ChunkInv, CutPiece PROVE ChunkInv'
<1>1. /\ body \in Seq(Chars) /\ Len(body) \in Nat /\ stop \in 0 .. Len(body) /\ pos \in 0 .. stop
      /\ chunks \in Seq(Spans) /\ (pos < stop \/ chunks = <<>>)
  BY DEF ChunkInv, PlaceInv, CutInv, CutPiece
<1>2. PICK e \in pos .. stop : /\ e = NextEnd /\ e - pos <= HardMax /\ (body # <<>> => pos < e)
                               /\ e < stop => EndsWell([from |-> pos, to |-> e])
  BY <1>1, EndFacts
<1>3. PICK n \in Nat : n = Len(chunks)
  BY <1>1
<1> DEFINE c == [from |-> pos, to |-> e]
<1>4. body' = body /\ stop' = stop /\ pos' = e /\ chunks' = Append(chunks, c)
  BY <1>2 DEF CutPiece
<1>5. c \in Spans /\ c.from = pos /\ c.to = e
  BY <1>1, <1>2 DEF Spans
<1> HIDE DEF c
<1>6. /\ chunks' \in Seq(Spans) /\ chunks' # <<>> /\ Len(chunks') = n + 1 /\ chunks'[n + 1] = c
      /\ \A k \in 1 .. n : chunks'[k] = chunks[k]
      /\ DOMAIN chunks = 1 .. n /\ DOMAIN chunks' = 1 .. n + 1
  BY <1>1, <1>3, <1>4, <1>5
<1>7. Breaks' = Breaks /\ HardLimit' = HardLimit /\ Least' = Least
  BY <1>4 DEF Breaks, Least, HardLimit
<1>8. ASSUME NEW d PROVE EndsWell(d)' <=> EndsWell(d)
  <2>1. body' = body /\ Least' = Least
    BY <1>4, <1>7
  <2> QED BY <2>1, Zenon DEF EndsWell
<1>9. PlaceInv'
  <2>1. e \in 0 .. stop
    BY <1>1
  <2>2. ASSUME NEW i \in Breaks PROVE ~ (e < i /\ i <= stop)
    <3>1. i \in Nat /\ ~ (pos < i /\ i <= stop)
      BY <1>1 DEF ChunkInv, PlaceInv, Breaks
    <3> QED BY <1>1, <3>1
  <2> QED BY <1>4, <1>7, <2>1, <2>2 DEF ChunkInv, PlaceInv
<1>10. CutInv'
  <2>1. pos' < stop' => EndsWell(c)
    BY <1>2, <1>4 DEF c
  <2> QED BY <1>4, <1>5, <1>6, <1>8, <2>1 DEF CutInv
<1>11. n > 0 => \/ chunks[n].to = pos /\ EndsWell(chunks[n])
                \/ pos = chunks[n].to + 1 /\ pos \in Breaks
  <2>1. n > 0 => chunks # <<>> /\ pos < stop
    BY <1>1, <1>3
  <2> QED BY <1>3, <2>1 DEF ChunkInv, CutInv
<1>12. \A k \in 1 .. n + 1 : k = n + 1 \/ k \in 1 .. n
  BY <1>3
<1>13. \A k \in 1 .. n + 1 : k > 1 => k - 1 \in 1 .. n
  BY <1>3
<1>14. Lossless'
  <2>1. ASSUME NEW k \in 1 .. n + 1
        PROVE  /\ k = 1 => chunks'[k].from = 0
               /\ k > 1 => GoesOn(chunks'[k - 1], chunks'[k])
                           \/ NewChapter(chunks'[k - 1], chunks'[k])
               /\ body # <<>> => chunks'[k].from < chunks'[k].to
    <3>1. CASE k \in 1 .. n
      <4>1. chunks'[k] = chunks[k] /\ (k > 1 => chunks'[k - 1] = chunks[k - 1])
        BY <1>6, <1>13, <3>1
      <4> QED BY <1>6, <3>1, <4>1 DEF ChunkInv, CutWell, Lossless
    <3>2. CASE k = n + 1
      <4>1. k = 1 => pos = 0
        <5>1. k = 1 => chunks = <<>>
          BY <1>1, <1>3, <3>2
        <5> QED BY <5>1 DEF ChunkInv, CutInv
      <4>2. k > 1 => chunks'[k - 1] = chunks[n] /\ n > 0
        BY <1>3, <1>6, <3>2
      <4>3. k > 1 => GoesOn(chunks[n], c) \/ NewChapter(chunks[n], c)
        BY <1>5, <1>11, <4>2 DEF GoesOn, NewChapter
      <4> QED BY <1>2, <1>5, <1>6, <3>2, <4>1, <4>2, <4>3
    <3> QED BY <1>12, <3>1, <3>2
  <2>2. IsCut' => chunks'[Len(chunks')].to = Len(body')
    BY <1>4, <1>5, <1>6 DEF IsCut
  <2> QED BY <1>4, <1>6, <1>7, <2>1, <2>2 DEF Lossless, GoesOn, NewChapter
<1>15. Fits'
  BY <1>2, <1>5, <1>6, <1>12 DEF ChunkInv, CutWell, Fits
<1>16. CutsBetweenLines'
  <2>1. ASSUME NEW k \in 1 .. n + 1
        PROVE  /\ \A i \in Breaks : ~ (chunks'[k].from < i /\ i <= chunks'[k].to)
               /\ k > 1 /\ GoesOn(chunks'[k - 1], chunks'[k]) => EndsWell(chunks'[k - 1])
    <3>1. CASE k \in 1 .. n
      <4>1. chunks'[k] = chunks[k] /\ (k > 1 => chunks'[k - 1] = chunks[k - 1])
        BY <1>6, <1>13, <3>1
      <4> QED BY <1>6, <3>1, <4>1 DEF ChunkInv, CutWell, CutsBetweenLines
    <3>2. CASE k = n + 1
      <4>1. k > 1 => chunks'[k - 1] = chunks[n] /\ n > 0 /\ n \in 1 .. n
        BY <1>3, <1>6, <3>2
      <4>2. k > 1 => chunks[n] \in Spans
        BY <1>1, <1>6, <4>1
      <4>3. k > 1 /\ GoesOn(chunks[n], c) => EndsWell(chunks[n])
        BY <1>1, <1>5, <1>11, <4>1, <4>2 DEF GoesOn, Spans
      <4>4. ASSUME NEW i \in Breaks PROVE ~ (pos < i /\ i <= e)
        <5>1. i \in Nat /\ ~ (pos < i /\ i <= stop)
          BY <1>1 DEF ChunkInv, PlaceInv, Breaks
        <5> QED BY <1>1, <5>1
      <4> QED BY <1>5, <1>6, <3>2, <4>1, <4>3, <4>4
    <3> QED BY <1>12, <3>1, <3>2
  <2> QED BY <1>6, <1>7, <1>8, <2>1 DEF CutsBetweenLines, GoesOn
<1> QED BY <1>9, <1>10, <1>14, <1>15, <1>16 DEF ChunkInv, CutWell

LEMMA OpenStep == ASSUME ChunkInv, OpenChapter PROVE ChunkInv'
<1>1. /\ body \in Seq(Chars) /\ Len(body) \in Nat /\ stop \in 0 .. Len(body) /\ pos = stop
      /\ chunks \in Seq(Spans) /\ chunks # <<>> /\ stop < Len(body) /\ stop + 1 \in Breaks
  BY DEF ChunkInv, PlaceInv, CutInv, OpenChapter
<1>2. PICK from \in 0 .. Len(body) : from = stop + 1
  BY <1>1
<1>3. UNCHANGED <<body, chunks>> /\ pos' = from /\ stop' = ChapterEnd(from)
  BY <1>2 DEF OpenChapter
<1>4. /\ stop' \in from .. Len(body) /\ (stop' # Len(body) => stop' + 1 \in Breaks)
      /\ \A i \in Breaks : ~ (from < i /\ i <= stop')
  BY <1>1, <1>3, ChapterEnds
<1>5. from < stop'
  <2>1. from + 1 \notin Breaks /\ from # Len(body)
    BY <1>1, <1>2 DEF Breaks
  <2> QED BY <1>1, <1>2, <1>4, <2>1
<1>6. Breaks' = Breaks /\ HardLimit' = HardLimit /\ Least' = Least
  BY <1>3 DEF Breaks, Least, HardLimit
<1>7. PlaceInv'
  BY <1>1, <1>2, <1>3, <1>4, <1>5, <1>6 DEF ChunkInv, PlaceInv
<1>8. CutInv'
  <2>1. PICK c \in Spans : c = chunks[Len(chunks)]
    <3>1. Len(chunks) \in DOMAIN chunks /\ chunks[Len(chunks)] \in Spans
      BY <1>1
    <3> QED BY <3>1
  <2>2. c.to = stop
    BY <1>1, <2>1 DEF ChunkInv, CutInv
  <2>3. pos' = c.to + 1 /\ pos' \in Breaks /\ pos' < stop'
    BY <1>1, <1>2, <1>3, <1>5, <2>2
  <2> QED BY <1>1, <1>3, <1>6, <2>1, <2>3 DEF CutInv
<1>9. CutWell'
  <2>1. ~ IsCut'
    BY <1>1, <1>2, <1>3, <1>4, <1>5 DEF IsCut
  <2> QED BY <1>3, <1>6, <2>1 DEF ChunkInv, CutWell, Lossless, Fits, CutsBetweenLines, GoesOn,
                                  NewChapter, EndsWell
<1> QED BY <1>7, <1>8, <1>9 DEF ChunkInv

LEMMA ChunkStep == ChunkInv /\ [ChunkNext]_chunkVars => ChunkInv'
<1> SUFFICES ASSUME ChunkInv, [ChunkNext]_chunkVars PROVE ChunkInv'
  OBVIOUS
<1>1. CASE UNCHANGED chunkVars
  <2>1. UNCHANGED <<body, chunks, pos, stop>>
    BY <1>1 DEF chunkVars
  <2>2. Breaks' = Breaks /\ Least' = Least
    BY <2>1 DEF Breaks, Least
  <2>3. ASSUME NEW c PROVE EndsWell(c)' <=> EndsWell(c)
    BY <2>1, <2>2, Zenon DEF EndsWell
  <2>4. PlaceInv'
    BY <2>1, <2>2 DEF ChunkInv, PlaceInv
  <2>5. CutInv'
    BY <2>1, <2>2, <2>3 DEF ChunkInv, CutInv
  <2>6. Lossless'
    BY <2>1, <2>2 DEF ChunkInv, CutWell, Lossless, GoesOn, NewChapter, IsCut
  <2>7. Fits' /\ CutsBetweenLines'
    BY <2>1, <2>2, <2>3 DEF ChunkInv, CutWell, Fits, CutsBetweenLines, GoesOn
  <2> QED BY <2>4, <2>5, <2>6, <2>7 DEF ChunkInv, CutWell
<1> QED BY <1>1, CutStep, OpenStep DEF ChunkNext

\* For bodies of any length and sizes of any kind: the chunks are the body without a gap
\* but for the newlines before the chapters, none is empty or above the ceiling, and none
\* ends within a line that it need not cut.
THEOREM AlwaysCutWell == ChunkSpec => []CutWell
<1>1. ChunkInv => CutWell
  BY DEF ChunkInv
<1> QED BY <1>1, ChunkInitial, ChunkStep, PTL DEF ChunkSpec

--------------------------------------------------------------------------------
(* Alignment. *)

\* A match in a range is split at its longest block.
Split(f, src, qt, r) ==
    UNION {{x} \cup f[LeftOf(r, x)] \cup f[RightOf(r, x)] : x \in LongestIn(src, qt, r)}

Room(qt, r) == r[4] + Len(qt) + 1 - r[3]

LEMMA RoomIs ==
    ASSUME NEW n \in Nat, NEW b \in 0 .. n, NEW a \in 1 .. n + 1
    PROVE  b + n + 1 - a \in 0 .. 2 * n
OBVIOUS

LEMMA RangeFacts ==
    ASSUME NEW src, Len(src) \in Nat, NEW qt, Len(qt) \in Nat, NEW r \in Ranges(src, qt)
    PROVE  /\ r[1] \in Nat /\ 1 <= r[1] /\ r[2] \in Nat /\ r[2] <= Len(src)
           /\ r[3] \in Nat /\ 1 <= r[3] /\ r[4] \in Nat /\ r[4] <= Len(qt)
           /\ Room(qt, r) \in 0 .. 2 * Len(qt)
<1>1. /\ r[1] \in 1 .. Len(src) + 1 /\ r[2] \in 0 .. Len(src)
      /\ r[3] \in 1 .. Len(qt) + 1 /\ r[4] \in 0 .. Len(qt)
  BY DEF Ranges
<1>2. Room(qt, r) = r[4] + Len(qt) + 1 - r[3]
  BY DEF Room
<1>3. r[4] + Len(qt) + 1 - r[3] \in 0 .. 2 * Len(qt)
  BY <1>1, RoomIs
<1>4. /\ r[1] \in Nat /\ 1 <= r[1] /\ r[2] \in Nat /\ r[2] <= Len(src)
      /\ r[3] \in Nat /\ 1 <= r[3] /\ r[4] \in Nat /\ r[4] <= Len(qt)
  BY <1>1
<1> QED BY <1>2, <1>3, <1>4

\* A block of words in a range.
BlockIn(r, x) ==
    /\ x[1] \in Nat /\ r[1] <= x[1] /\ x[1] + x[3] - 1 <= r[2]
    /\ x[2] \in Nat /\ r[3] <= x[2] /\ x[2] + x[3] - 1 <= r[4]
    /\ x[3] \in Nat /\ 1 <= x[3]

LEMMA LongestInside ==
    ASSUME NEW src, Len(src) \in Nat, NEW qt, Len(qt) \in Nat,
           NEW r \in Ranges(src, qt), NEW x \in LongestIn(src, qt, r)
    PROVE  BlockIn(r, x)
<1> DEFINE a == x[1]  b == x[2]  c == x[3]  d == r[1]  e == r[2]  f == r[3]  g == r[4]
<1>1. d \in Nat /\ e \in Nat /\ f \in Nat /\ g \in Nat
  BY RangeFacts
<1>2. /\ a \in d .. e /\ b \in f .. g /\ c \in 1 .. Len(qt)
      /\ a + c - 1 <= e /\ b + c - 1 <= g
  BY DEF LongestIn, Common
<1> HIDE DEF a, b, c, d, e, f, g
<1>3. /\ a \in Nat /\ d <= a /\ a + c - 1 <= e /\ b \in Nat /\ f <= b /\ b + c - 1 <= g
      /\ c \in Nat /\ 1 <= c
  BY <1>1, <1>2
<1> QED BY <1>3 DEF BlockIn, a, b, c, d, e, f, g

\* What is on either side of a block is a range again, and has less of the quote.
LEMMA SidesOf ==
    ASSUME NEW src, Len(src) \in Nat, NEW qt, Len(qt) \in Nat,
           NEW r \in Ranges(src, qt), NEW x \in LongestIn(src, qt, r)
    PROVE  /\ LeftOf(r, x) \in Ranges(src, qt) /\ RightOf(r, x) \in Ranges(src, qt)
           /\ Room(qt, r) \in Nat /\ Room(qt, LeftOf(r, x)) \in Nat /\ Room(qt, RightOf(r, x)) \in Nat
           /\ Room(qt, LeftOf(r, x)) < Room(qt, r) /\ Room(qt, RightOf(r, x)) < Room(qt, r)
<1>1. /\ r[1] \in Nat /\ 1 <= r[1] /\ r[2] \in Nat /\ r[2] <= Len(src)
      /\ r[3] \in Nat /\ 1 <= r[3] /\ r[4] \in Nat /\ r[4] <= Len(qt)
  BY RangeFacts
<1>2. BlockIn(r, x)
  BY LongestInside
<1>3. /\ x[1] - 1 \in 0 .. Len(src) /\ x[2] - 1 \in 0 .. Len(qt)
      /\ x[1] + x[3] \in 1 .. Len(src) + 1 /\ x[2] + x[3] \in 1 .. Len(qt) + 1
      /\ x[2] - 1 + Len(qt) + 1 - r[3] < r[4] + Len(qt) + 1 - r[3]
      /\ r[4] + Len(qt) + 1 - (x[2] + x[3]) < r[4] + Len(qt) + 1 - r[3]
  <2> DEFINE a == x[1]  b == x[2]  c == x[3]  e == r[2]  f == r[3]  g == r[4]
             M == Len(src)  L == Len(qt)
             d == r[1]
  <2>1. /\ d \in Nat /\ 1 <= d /\ e \in Nat /\ e <= M /\ f \in Nat /\ 1 <= f /\ g \in Nat /\ g <= L
        /\ M \in Nat /\ L \in Nat
    BY <1>1
  <2>2. /\ a \in Nat /\ d <= a /\ a + c - 1 <= e /\ b \in Nat /\ f <= b /\ b + c - 1 <= g
        /\ c \in Nat /\ 1 <= c
    BY <1>2 DEF BlockIn
  <2> HIDE DEF a, b, c, d, e, f, g, M, L
  <2>3. a - 1 \in 0 .. M /\ b - 1 \in 0 .. L
    BY <2>1, <2>2
  <2>4. a + c \in 1 .. M + 1 /\ b + c \in 1 .. L + 1
    BY <2>1, <2>2
  <2>5. b - 1 + L + 1 - f < g + L + 1 - f /\ g + L + 1 - (b + c) < g + L + 1 - f
    BY <2>1, <2>2
  <2> QED BY <2>3, <2>4, <2>5 DEF a, b, c, e, f, g, M, L
<1>4. LeftOf(r, x) \in Ranges(src, qt) /\ RightOf(r, x) \in Ranges(src, qt)
  <2>1. /\ r[1] \in 1 .. Len(src) + 1 /\ r[2] \in 0 .. Len(src)
        /\ r[3] \in 1 .. Len(qt) + 1 /\ r[4] \in 0 .. Len(qt)
    BY DEF Ranges
  <2> QED BY <1>3, <2>1 DEF Ranges, LeftOf, RightOf
<1>5. /\ LeftOf(r, x)[3] = r[3] /\ LeftOf(r, x)[4] = x[2] - 1
      /\ RightOf(r, x)[3] = x[2] + x[3] /\ RightOf(r, x)[4] = r[4]
  BY DEF LeftOf, RightOf
<1>6. /\ Room(qt, LeftOf(r, x)) = x[2] - 1 + Len(qt) + 1 - r[3]
      /\ Room(qt, RightOf(r, x)) = r[4] + Len(qt) + 1 - (x[2] + x[3])
      /\ Room(qt, r) = r[4] + Len(qt) + 1 - r[3]
  BY <1>5 DEF Room
<1>7. /\ Room(qt, LeftOf(r, x)) < Room(qt, r) /\ Room(qt, RightOf(r, x)) < Room(qt, r)
  BY <1>3, <1>6, Zenon
<1>8. Room(qt, LeftOf(r, x)) \in Nat /\ Room(qt, RightOf(r, x)) \in Nat
  BY <1>4, RangeFacts
<1> QED BY RangeFacts, <1>4, <1>7, <1>8

\* Up to any size of a range there is a function that matches every range of that size.
LEMMA MatchedUpTo ==
    ASSUME NEW src, Len(src) \in Nat, NEW qt, Len(qt) \in Nat, NEW m \in Nat
    PROVE  \E f : \A r \in Ranges(src, qt) : Room(qt, r) < m => f[r] = Split(f, src, qt, r)
<1> DEFINE Upto(f, n) == \A r \in Ranges(src, qt) : Room(qt, r) < n => f[r] = Split(f, src, qt, r)
           None == {n \in Nat : ~ \E f : Upto(f, n)}
<1> SUFFICES ASSUME None # {} PROVE FALSE
  OBVIOUS
<1>1. PICK n \in None : \A k \in None : n <= k
  <2>1. None \subseteq Nat
    OBVIOUS
  <2> QED BY <2>1, MinIsFirst, Zenon
<1>2. n # 0
  <2>1. ASSUME NEW r \in Ranges(src, qt) PROVE ~ (Room(qt, r) < 0)
    BY RangeFacts
  <2> QED BY <2>1
<1>3. n - 1 \in Nat /\ n - 1 \notin None /\ n \in Nat
  BY <1>1, <1>2
<1>4. PICK f : Upto(f, n - 1)
  BY <1>3
<1> DEFINE g == [r \in Ranges(src, qt) |-> Split(f, src, qt, r)]
<1>5. ASSUME NEW r \in Ranges(src, qt), Room(qt, r) < n PROVE g[r] = Split(g, src, qt, r)
  <2>1. ASSUME NEW x \in LongestIn(src, qt, r)
        PROVE  g[LeftOf(r, x)] = f[LeftOf(r, x)] /\ g[RightOf(r, x)] = f[RightOf(r, x)]
    <3>1. /\ LeftOf(r, x) \in Ranges(src, qt) /\ RightOf(r, x) \in Ranges(src, qt)
          /\ Room(qt, LeftOf(r, x)) < n - 1 /\ Room(qt, RightOf(r, x)) < n - 1
      BY <1>3, <1>5, SidesOf
    <3> QED BY <1>4, <3>1
  <2>2. g[r] = Split(f, src, qt, r)
    OBVIOUS
  <2> HIDE DEF g
  <2>3. Split(g, src, qt, r) = Split(f, src, qt, r)
    BY <2>1 DEF Split
  <2> QED BY <2>2, <2>3
<1>6. Upto(g, n)
  BY <1>5
<1> QED BY <1>1, <1>6

\* The recursion of MatchingBlocks is one: every range is split.
LEMMA MatchingIsSplitting ==
    ASSUME NEW src, Len(src) \in Nat, NEW qt, Len(qt) \in Nat
    PROVE  \E f : /\ f = [r \in Ranges(src, qt) |-> Split(f, src, qt, r)]
                  /\ MatchingBlocks(src, qt) = f[<<1, Len(src), 1, Len(qt)>>]
<1> DEFINE f == CHOOSE f : f = [r \in Ranges(src, qt) |-> Split(f, src, qt, r)]
<1>1. \E h : h = [r \in Ranges(src, qt) |-> Split(h, src, qt, r)]
  <2> DEFINE m == 2 * Len(qt) + 2
  <2>1. PICK e : \A r \in Ranges(src, qt) : Room(qt, r) < m => e[r] = Split(e, src, qt, r)
    BY MatchedUpTo
  <2> DEFINE h == [r \in Ranges(src, qt) |-> Split(e, src, qt, r)]
  <2>2. ASSUME NEW r \in Ranges(src, qt) PROVE h[r] = e[r]
    <3>1. Room(qt, r) < m
      BY RangeFacts
    <3> QED BY <2>1, <3>1
  <2>3. ASSUME NEW r \in Ranges(src, qt) PROVE Split(h, src, qt, r) = Split(e, src, qt, r)
    <3>1. ASSUME NEW x \in LongestIn(src, qt, r)
          PROVE  h[LeftOf(r, x)] = e[LeftOf(r, x)] /\ h[RightOf(r, x)] = e[RightOf(r, x)]
      BY <2>2, SidesOf
    <3> HIDE DEF h
    <3> QED BY <3>1 DEF Split
  <2>4. h = [r \in Ranges(src, qt) |-> Split(h, src, qt, r)]
    BY <2>3
  <2> QED BY <2>4
<1>2. f = [r \in Ranges(src, qt) |-> Split(f, src, qt, r)]
  BY <1>1
<1>3. MatchingBlocks(src, qt) = f[<<1, Len(src), 1, Len(qt)>>]
  BY DEF MatchingBlocks, Split
<1> QED BY <1>2, <1>3
\* What is inside one side of a block is inside the range.
LEMMA InsideSide ==
    ASSUME NEW src, Len(src) \in Nat, NEW qt, Len(qt) \in Nat,
           NEW r \in Ranges(src, qt), NEW x \in LongestIn(src, qt, r), NEW y,
           BlockIn(LeftOf(r, x), y) \/ BlockIn(RightOf(r, x), y)
    PROVE  BlockIn(r, y)
<1> DEFINE a == x[1]  b == x[2]  c == x[3]  d == r[1]  e == r[2]  f == r[3]  g == r[4]
           i == y[1]  j == y[2]  k == y[3]
<1>1. /\ d \in Nat /\ 1 <= d /\ e \in Nat /\ f \in Nat /\ 1 <= f /\ g \in Nat
  BY RangeFacts
<1>2. /\ a \in Nat /\ d <= a /\ a + c - 1 <= e /\ b \in Nat /\ f <= b /\ b + c - 1 <= g
      /\ c \in Nat /\ 1 <= c
  BY LongestInside DEF BlockIn
<1>3. \/ /\ i \in Nat /\ d <= i /\ i + k - 1 <= a - 1 /\ j \in Nat /\ f <= j /\ j + k - 1 <= b - 1
         /\ k \in Nat /\ 1 <= k
      \/ /\ i \in Nat /\ a + c <= i /\ i + k - 1 <= e /\ j \in Nat /\ b + c <= j /\ j + k - 1 <= g
         /\ k \in Nat /\ 1 <= k
  BY DEF BlockIn, LeftOf, RightOf
<1> HIDE DEF a, b, c, d, e, f, g, i, j, k
<1>4. /\ i \in Nat /\ d <= i /\ i + k - 1 <= e /\ j \in Nat /\ f <= j /\ j + k - 1 <= g
      /\ k \in Nat /\ 1 <= k
  BY <1>1, <1>2, <1>3
<1> QED BY <1>4 DEF BlockIn, d, e, f, g, i, j, k

\* The blocks of a match are words of both sequences.
LEMMA MatchedInside ==
    ASSUME NEW src, Len(src) \in Nat, NEW qt, Len(qt) \in Nat, NEW y \in MatchingBlocks(src, qt)
    PROVE  BlockIn(<<1, Len(src), 1, Len(qt)>>, y)
<1> DEFINE all == <<1, Len(src), 1, Len(qt)>>
<1>1. PICK f : /\ f = [r \in Ranges(src, qt) |-> Split(f, src, qt, r)]
               /\ MatchingBlocks(src, qt) = f[all]
  BY MatchingIsSplitting
<1> DEFINE Stray == {r \in Ranges(src, qt) : \E x \in f[r] : ~ BlockIn(r, x)}
           Rooms == {Room(qt, r) : r \in Stray}
<1>2. Stray = {}
  <2> SUFFICES ASSUME Stray # {} PROVE FALSE
    OBVIOUS
  <2>1. Rooms \subseteq Nat /\ Rooms # {}
    <3>1. ASSUME NEW r \in Stray PROVE Room(qt, r) \in Nat
      BY RangeFacts
    <3> QED BY <3>1
  <2>2. PICK n \in Rooms : \A k \in Rooms : n <= k
    BY <2>1, MinIsFirst, Zenon
  <2>3. PICK r \in Stray : n = Room(qt, r)
    BY <2>2
  <2>4. PICK z \in f[r] : ~ BlockIn(r, z)
    OBVIOUS
  <2>5. f[r] = Split(f, src, qt, r)
    BY <1>1
  <2>6. PICK x \in LongestIn(src, qt, r) : z = x \/ z \in f[LeftOf(r, x)] \/ z \in f[RightOf(r, x)]
    BY <2>4, <2>5 DEF Split
  <2>7. z # x
    BY <2>4, LongestInside
  <2>8. ASSUME NEW s \in Ranges(src, qt), Room(qt, s) < Room(qt, r), z \in f[s] PROVE BlockIn(s, z)
    <3>1. Room(qt, s) \in Nat /\ Room(qt, r) \in Nat
      BY RangeFacts
    <3>2. s \notin Stray
      <4>1. ASSUME s \in Stray PROVE FALSE
        <5>1. Room(qt, s) \in Rooms
          BY <4>1
        <5> HIDE DEF Rooms
        <5> QED BY <2>2, <2>3, <2>8, <3>1, <5>1
      <4> QED BY <4>1
    <3> QED BY <2>8, <3>2
  <2>9. BlockIn(LeftOf(r, x), z) \/ BlockIn(RightOf(r, x), z)
    BY <2>6, <2>7, <2>8, SidesOf
  <2> QED BY <2>4, <2>9, InsideSide
<1>3. all \in Ranges(src, qt)
  BY DEF Ranges
<1> QED BY <1>1, <1>2, <1>3

\* A quote stands in a sequence of words from the p-th on.
Stands(src, qt, p) ==
    /\ p \in Nat /\ 1 <= p /\ p + Len(qt) - 1 <= Len(src)
    /\ \A n \in 0 .. Len(qt) - 1 : src[p + n] = qt[1 + n]

\* A quote that stands there is matched as one block, the first place it stands at.
LEMMA WholeIsMatched ==
    ASSUME NEW src, Len(src) \in Nat, NEW qt, Len(qt) \in Nat, 1 <= Len(qt),
           NEW p, Stands(src, qt, p), \A q \in Nat : Stands(src, qt, q) => p <= q
    PROVE  MatchingBlocks(src, qt) = {<<p, 1, Len(qt)>>}
<1> DEFINE all == <<1, Len(src), 1, Len(qt)>>
           whole == <<p, 1, Len(qt)>>
<1>0. all \in Ranges(src, qt)
  BY DEF Ranges
<1>1. whole \in Common(src, qt, all)
  <2>1. p \in 1 .. Len(src) /\ p + Len(qt) - 1 <= Len(src)
    BY DEF Stands
  <2>2. 1 \in 1 .. Len(qt) /\ Len(qt) \in 1 .. Len(qt) /\ 1 + Len(qt) - 1 <= Len(qt)
    OBVIOUS
  <2>3. \A n \in 0 .. Len(qt) - 1 : src[p + n] = qt[1 + n]
    BY DEF Stands
  <2> QED BY <2>1, <2>2, <2>3 DEF Common
<1>2. ASSUME NEW y \in Common(src, qt, all)
      PROVE  /\ y[1] \in Nat /\ y[2] \in Nat /\ y[3] \in Nat /\ y[3] <= Len(qt)
             /\ y = <<y[1], y[2], y[3]>>
             /\ y[3] = Len(qt) => y[2] = 1 /\ p <= y[1]
  <2>1. /\ y[1] \in 1 .. Len(src) /\ y[2] \in 1 .. Len(qt) /\ y[3] \in 1 .. Len(qt)
        /\ y[1] + y[3] - 1 <= Len(src) /\ y[2] + y[3] - 1 <= Len(qt)
        /\ \A n \in 0 .. y[3] - 1 : src[y[1] + n] = qt[y[2] + n]
        /\ y = <<y[1], y[2], y[3]>>
    BY DEF Common
  <2>2. ASSUME y[3] = Len(qt) PROVE y[2] = 1 /\ p <= y[1]
    <3>1. y[2] = 1
      BY <2>1, <2>2
    <3>2. Stands(src, qt, y[1])
      BY <2>1, <2>2, <3>1 DEF Stands
    <3>3. y[1] \in Nat
      BY <2>1
    <3> QED BY <3>1, <3>2, <3>3
  <2> QED BY <2>1, <2>2
<1>3. LongestIn(src, qt, all) = {whole}
  <2>1. whole[1] = p /\ whole[2] = 1 /\ whole[3] = Len(qt) /\ p \in Nat
    BY DEF Stands
  <2> HIDE DEF whole
  <2>2. whole \in LongestIn(src, qt, all)
    BY <1>1, <1>2, <2>1 DEF LongestIn
  <2>3. ASSUME NEW y \in LongestIn(src, qt, all) PROVE y = whole
    <3>1. /\ y \in Common(src, qt, all)
          /\ y[3] > whole[3] \/ (y[3] = whole[3] /\ (y[1] < whole[1] \/ (y[1] = whole[1] /\ y[2] <= whole[2])))
      BY <1>1 DEF LongestIn
    <3>2. y[1] = p /\ y[2] = 1 /\ y[3] = Len(qt)
      BY <1>2, <2>1, <3>1
    <3> QED BY <1>2, <3>1, <3>2 DEF whole
  <2> QED BY <2>2, <2>3
<1>4. PICK f : /\ f = [r \in Ranges(src, qt) |-> Split(f, src, qt, r)]
               /\ MatchingBlocks(src, qt) = f[all]
  BY MatchingIsSplitting
<1>5. f[LeftOf(all, whole)] = {} /\ f[RightOf(all, whole)] = {}
  <2>1. LeftOf(all, whole) \in Ranges(src, qt) /\ RightOf(all, whole) \in Ranges(src, qt)
    BY <1>0, <1>3, SidesOf
  <2>2. /\ LeftOf(all, whole)[3] = 1 /\ LeftOf(all, whole)[4] = 0
        /\ RightOf(all, whole)[3] = 1 + Len(qt) /\ RightOf(all, whole)[4] = Len(qt)
    BY DEF LeftOf, RightOf
  <2>3. ASSUME NEW r, r[3] \in Nat, r[4] \in Nat, r[4] < r[3] PROVE LongestIn(src, qt, r) = {}
    BY <2>3 DEF LongestIn, Common
  <2>4. LongestIn(src, qt, LeftOf(all, whole)) = {} /\ LongestIn(src, qt, RightOf(all, whole)) = {}
    BY <2>2, <2>3
  <2> HIDE DEF all, whole
  <2> QED BY <1>4, <2>1, <2>4 DEF Split
<1>6. f[all] = Split(f, src, qt, all)
  BY <1>0, <1>4
<1> HIDE DEF all, whole
<1>7. f[all] = {whole}
  BY <1>3, <1>5, <1>6 DEF Split
<1> QED BY <1>4, <1>7 DEF whole
\* The larger and the smaller of two, and the largest of three.
LEMMA TwoOf ==
    ASSUME NEW a \in Nat, NEW b \in Nat
    PROVE  /\ Max({a, b}) \in Nat /\ Max({a, b}) >= a /\ Max({a, b}) >= b /\ Max({a, b}) \in {a, b}
           /\ Min({a, b}) \in Nat /\ Min({a, b}) <= a /\ Min({a, b}) <= b /\ Min({a, b}) \in {a, b}
<1>1. {a, b} \subseteq 0 .. a + b /\ {a, b} # {} /\ {a, b} \subseteq Nat /\ a + b \in Nat
  OBVIOUS
<1>2. Max({a, b}) \in {a, b} /\ \A y \in {a, b} : y <= Max({a, b})
  BY <1>1, MaxIsLast
<1>3. Min({a, b}) \in {a, b} /\ \A y \in {a, b} : Min({a, b}) <= y
  BY <1>1, MinIsFirst
<1> QED BY <1>2, <1>3

LEMMA LargestOf ==
    ASSUME NEW a \in Nat, NEW b \in Nat, NEW c \in Nat
    PROVE  /\ Max({a, b, c}) \in Nat
           /\ Max({a, b, c}) >= a /\ Max({a, b, c}) >= b /\ Max({a, b, c}) >= c
<1>1. {a, b, c} \subseteq 0 .. a + b + c /\ {a, b, c} # {} /\ a + b + c \in Nat
  OBVIOUS
<1>2. Max({a, b, c}) \in {a, b, c} /\ \A y \in {a, b, c} : y <= Max({a, b, c})
  BY <1>1, MaxIsLast
<1> QED BY <1>2

LEMMA SpanIs ==
    ASSUME NEW blocks, NEW i, NEW s \in SpanOf(blocks, i)
    PROVE  /\ blocks # {} /\ s.at = i
           /\ s.start = i + Min({x[1] : x \in blocks}) - 1
           /\ s.end = i + Max({x[1] + x[3] - 1 : x \in blocks}) - 1
           /\ s.matched = Cardinality(UNION {x[2] .. x[2] + x[3] - 1 : x \in blocks})
<1> DEFINE a == i + Min({x[1] : x \in blocks}) - 1
           b == i + Max({x[1] + x[3] - 1 : x \in blocks}) - 1
           c == Cardinality(UNION {x[2] .. x[2] + x[3] - 1 : x \in blocks})
<1>1. s \in {[at |-> i, start |-> a, end |-> b, matched |-> c] : y \in blocks}
  BY DEF SpanOf
<1> HIDE DEF a, b, c
<1>2. blocks # {} /\ s = [at |-> i, start |-> a, end |-> b, matched |-> c]
  BY <1>1
<1> QED BY <1>2 DEF a, b, c

LEMMA CountTo ==
    ASSUME NEW n \in Nat
    PROVE  IsFiniteSet(1 .. n) /\ Cardinality(1 .. n) = n
<1>1. 1 \in Int /\ n \in Int
  OBVIOUS
<1> QED BY <1>1, FS_Interval

\* A span goes over words of the stretch, and matches no more than the quote.
LEMMA SpanFacts ==
    ASSUME NEW src, Len(src) \in Nat, NEW qt, Len(qt) \in Nat, NEW i \in Nat, 1 <= i,
           NEW s \in SpanOf(MatchingBlocks(src, qt), i)
    PROVE  /\ s.at = i /\ s.start \in Nat /\ i <= s.start
           /\ s.end \in Nat /\ s.start <= s.end /\ s.end <= i + Len(src) - 1
           /\ s.matched \in 0 .. Len(qt)
<1> DEFINE blocks == MatchingBlocks(src, qt)
           starts == {x[1] : x \in blocks}
           ends == {x[1] + x[3] - 1 : x \in blocks}
           words == UNION {x[2] .. x[2] + x[3] - 1 : x \in blocks}
<1>1. ASSUME NEW x \in blocks
      PROVE  /\ x[1] \in Nat /\ 1 <= x[1] /\ x[1] + x[3] - 1 <= Len(src)
             /\ x[2] \in Nat /\ 1 <= x[2] /\ x[2] + x[3] - 1 <= Len(qt)
             /\ x[3] \in Nat /\ 1 <= x[3]
  BY MatchedInside DEF BlockIn
<1>2. /\ blocks # {} /\ s.at = i /\ s.start = i + Min(starts) - 1 /\ s.end = i + Max(ends) - 1
      /\ s.matched = Cardinality(words)
  <2>1. s \in SpanOf(blocks, i)
    OBVIOUS
  <2> HIDE DEF blocks
  <2>2. /\ blocks # {} /\ s.at = i
        /\ s.start = i + Min({x[1] : x \in blocks}) - 1
        /\ s.end = i + Max({x[1] + x[3] - 1 : x \in blocks}) - 1
        /\ s.matched = Cardinality(UNION {x[2] .. x[2] + x[3] - 1 : x \in blocks})
    BY <2>1, SpanIs, Zenon
  <2> QED BY <2>2, Zenon
<1> HIDE DEF blocks
<1>3. Min(starts) \in starts /\ \A y \in starts : Min(starts) <= y
  <2>1. starts \subseteq Nat /\ starts # {}
    BY <1>1, <1>2
  <2> QED BY <2>1, MinIsFirst
<1>4. Max(ends) \in ends /\ \A y \in ends : y <= Max(ends)
  <2>1. ends \subseteq 0 .. Len(src) /\ ends # {}
    BY <1>1, <1>2
  <2> HIDE DEF ends
  <2> QED BY <2>1, MaxIsLast
<1>5. PICK x \in blocks : Min(starts) = x[1]
  BY <1>3
<1>6. PICK y \in blocks : Max(ends) = y[1] + y[3] - 1
  BY <1>4
<1>7. x[1] + x[3] - 1 <= Max(ends)
  BY <1>4
<1> HIDE DEF starts, ends
<1>8. /\ Min(starts) \in Nat /\ 1 <= Min(starts) /\ Max(ends) \in Nat /\ Max(ends) <= Len(src)
      /\ Min(starts) <= Max(ends)
  <2>1. /\ x[1] \in Nat /\ 1 <= x[1] /\ x[3] \in Nat /\ 1 <= x[3]
        /\ y[1] \in Nat /\ 1 <= y[1] /\ y[3] \in Nat /\ 1 <= y[3] /\ y[1] + y[3] - 1 <= Len(src)
    BY <1>1
  <2> DEFINE a == x[1]  b == x[3]  c == y[1]  d == y[3]  m == Max(ends)
  <2>2. /\ a \in Nat /\ 1 <= a /\ b \in Nat /\ 1 <= b /\ a + b - 1 <= m /\ m = c + d - 1
        /\ c \in Nat /\ 1 <= c /\ d \in Nat /\ 1 <= d /\ c + d - 1 <= Len(src)
    BY <1>6, <1>7, <2>1
  <2> HIDE DEF a, b, c, d, m
  <2>3. a \in Nat /\ 1 <= a /\ m \in Nat /\ m <= Len(src) /\ a <= m
    BY <2>2
  <2> QED BY <1>5, <2>3 DEF a, m
<1>9. Cardinality(words) \in 0 .. Len(qt)
  <2>1. words \subseteq 1 .. Len(qt)
    BY <1>1
  <2> HIDE DEF words
  <2>2. IsFiniteSet(1 .. Len(qt)) /\ Cardinality(1 .. Len(qt)) = Len(qt)
    BY CountTo
  <2>3. IsFiniteSet(words) /\ Cardinality(words) <= Len(qt)
    BY <2>1, <2>2, FS_Subset
  <2> QED BY <2>3, FS_CardinalityType
<1> QED BY <1>2, <1>8, <1>9

\* The span of a quote that stands in the stretch.
LEMMA WholeSpan ==
    ASSUME NEW src, Len(src) \in Nat, NEW qt, Len(qt) \in Nat, 1 <= Len(qt), NEW i \in Nat, 1 <= i,
           NEW p, Stands(src, qt, p), \A q \in Nat : Stands(src, qt, q) => p <= q
    PROVE  /\ SpanOf(MatchingBlocks(src, qt), i) # {}
           /\ \A s \in SpanOf(MatchingBlocks(src, qt), i) :
                  /\ s.start = i + p - 1 /\ s.end = i + p + Len(qt) - 2
                  /\ s.matched = Len(qt)
<1> DEFINE whole == <<p, 1, Len(qt)>>
           blocks == MatchingBlocks(src, qt)
<1>1. blocks = {whole}
  BY WholeIsMatched
<1>2. p \in Nat /\ 1 <= p
  BY DEF Stands
<1>3. {x[1] : x \in blocks} = {p} /\ {x[1] + x[3] - 1 : x \in blocks} = {p + Len(qt) - 1}
  BY <1>1
<1>4. UNION {x[2] .. x[2] + x[3] - 1 : x \in blocks} = 1 .. Len(qt)
  <2>1. UNION {x[2] .. x[2] + x[3] - 1 : x \in blocks} = 1 .. 1 + Len(qt) - 1
    BY <1>1
  <2> QED BY <2>1
<1>5. Cardinality(1 .. Len(qt)) = Len(qt)
  BY CountTo
<1>6. Min({p}) = p /\ Max({p + Len(qt) - 1}) = p + Len(qt) - 1
  <2>1. p + Len(qt) - 1 \in Nat
    BY <1>2
  <2>2. Max({p + Len(qt) - 1}) \in {p + Len(qt) - 1}
    <3>1. {p + Len(qt) - 1} \subseteq 0 .. p + Len(qt) - 1 /\ {p + Len(qt) - 1} # {}
      BY <2>1
    <3> QED BY <2>1, <3>1, MaxIsLast
  <2>3. Min({p}) \in {p}
    BY <1>2, MinIsFirst
  <2> QED BY <2>2, <2>3
<1> HIDE DEF blocks, whole
<1>7. ASSUME NEW s \in SpanOf(blocks, i)
      PROVE  s.start = i + p - 1 /\ s.end = i + (p + Len(qt) - 1) - 1 /\ s.matched = Len(qt)
  <2>1. /\ s.start = i + Min({x[1] : x \in blocks}) - 1
        /\ s.end = i + Max({x[1] + x[3] - 1 : x \in blocks}) - 1
        /\ s.matched = Cardinality(UNION {x[2] .. x[2] + x[3] - 1 : x \in blocks})
    BY SpanIs, Zenon
  <2> QED BY <1>3, <1>4, <1>5, <1>6, <2>1, Zenon
<1>8. SpanOf(blocks, i) # {}
  BY <1>1 DEF SpanOf
<1>9. i + (p + Len(qt) - 1) - 1 = i + p + Len(qt) - 2
  BY <1>2
<1> QED BY <1>7, <1>8, <1>9 DEF blocks
Slack(qt) == Max({MinSlack, Len(qt) \div 4})

LEMMA SlackType == ASSUME NEW qt, Len(qt) \in Nat PROVE Slack(qt) \in Nat
<1>1. Len(qt) \div 4 \in Nat
  OBVIOUS
<1>2. MinSlack \in Nat
  BY AlignmentAssumption
<1> QED BY <1>1, <1>2, TwoOf DEF Slack

\* The words in which a quote is looked for from a word of the record on.
LEMMA WindowOf ==
    ASSUME NEW src \in Seq(Words), NEW qt \in Seq(Words), 1 <= Len(qt), NEW i \in 1 .. Len(src)
    PROVE  \E w : /\ ScoreWindow(qt, src, i) = SpanOf(MatchingBlocks(w, qt), i)
                  /\ Len(w) \in Nat /\ i + Len(w) - 1 <= Len(src) /\ Len(w) <= Len(qt) + Slack(qt)
                  /\ i + Len(w) - 1 = Len(src) \/ Len(qt) <= Len(w)
                  /\ \A n \in 1 .. Len(w) : w[n] = src[i + n - 1]
<1> DEFINE last == Min({Len(src), i + Len(qt) + Slack(qt) - 1})
           w == SubSeq(src, i, last)
<1>1. Len(src) \in Nat /\ Len(qt) \in Nat /\ Slack(qt) \in Nat
  BY SlackType
<1>2. i + Len(qt) + Slack(qt) - 1 \in Nat
  BY <1>1
<1>3. /\ last \in Nat /\ last <= Len(src) /\ last <= i + Len(qt) + Slack(qt) - 1
      /\ last = Len(src) \/ last = i + Len(qt) + Slack(qt) - 1
  BY <1>1, <1>2, TwoOf
<1>4. ScoreWindow(qt, src, i) = SpanOf(MatchingBlocks(w, qt), i)
  BY DEF ScoreWindow, Slack
<1> HIDE DEF last
<1>5. /\ w \in Seq(Words) /\ Len(w) = last - i + 1
      /\ \A n \in 1 .. Len(w) : w[n] = src[i + n - 1]
  <2>1. i <= last
    BY <1>1, <1>3
  <2> QED BY <1>3, <2>1
<1> HIDE DEF w
<1>6. /\ Len(w) \in Nat /\ i + Len(w) - 1 <= Len(src) /\ Len(w) <= Len(qt) + Slack(qt)
      /\ i + Len(w) - 1 = Len(src) \/ Len(qt) <= Len(w)
  BY <1>1, <1>3, <1>5
<1> QED BY <1>4, <1>5, <1>6

\* A window is in proportion to the quote, and of the record.
LEMMA WindowSpan ==
    ASSUME NEW src \in Seq(Words), NEW qt \in Seq(Words), 1 <= Len(qt), NEW i \in 1 .. Len(src),
           NEW s \in ScoreWindow(qt, src, i)
    PROVE  /\ s.at = i /\ s.start \in Nat /\ 1 <= s.start /\ s.end \in Nat /\ s.start <= s.end
           /\ s.end <= Len(src) /\ s.end - s.start < Len(qt) + Slack(qt)
           /\ s.matched \in 0 .. Len(qt)
<1>1. PICK w : /\ ScoreWindow(qt, src, i) = SpanOf(MatchingBlocks(w, qt), i)
               /\ Len(w) \in Nat /\ i + Len(w) - 1 <= Len(src) /\ Len(w) <= Len(qt) + Slack(qt)
  BY WindowOf
<1>2. Len(qt) \in Nat /\ i \in Nat /\ 1 <= i /\ Len(src) \in Nat /\ Slack(qt) \in Nat
  BY SlackType
<1>3. /\ s.at = i /\ s.start \in Nat /\ i <= s.start
      /\ s.end \in Nat /\ s.start <= s.end /\ s.end <= i + Len(w) - 1
      /\ s.matched \in 0 .. Len(qt)
  BY <1>1, <1>2, SpanFacts
<1>4. 1 <= s.start /\ s.end <= Len(src) /\ s.end - s.start < Len(qt) + Slack(qt)
  BY <1>1, <1>2, <1>3
<1> QED BY <1>3, <1>4

\* A quote that stands at the beginning of a window is found there, and complete.
LEMMA WindowFindsWhole ==
    ASSUME NEW src \in Seq(Words), NEW qt \in Seq(Words), 1 <= Len(qt), NEW i, Stands(src, qt, i)
    PROVE  /\ ScoreWindow(qt, src, i) # {}
           /\ \A s \in ScoreWindow(qt, src, i) : s.start = i /\ s.matched = Len(qt)
<1>1. i \in 1 .. Len(src) /\ i + Len(qt) - 1 <= Len(src) /\ Len(qt) \in Nat /\ Len(src) \in Nat
  BY DEF Stands
<1>2. PICK w : /\ ScoreWindow(qt, src, i) = SpanOf(MatchingBlocks(w, qt), i)
               /\ Len(w) \in Nat /\ i + Len(w) - 1 <= Len(src) /\ Len(w) <= Len(qt) + Slack(qt)
               /\ i + Len(w) - 1 = Len(src) \/ Len(qt) <= Len(w)
               /\ \A n \in 1 .. Len(w) : w[n] = src[i + n - 1]
  BY <1>1, WindowOf
<1>3. Len(qt) <= Len(w) /\ Len(w) \in Nat
  BY <1>1, <1>2
<1>4. Stands(w, qt, 1)
  <2>1. ASSUME NEW n \in 0 .. Len(qt) - 1 PROVE w[1 + n] = qt[1 + n]
    <3>1. 1 + n \in 1 .. Len(w) /\ i + (1 + n) - 1 = i + n
      BY <1>1, <1>3
    <3>2. src[i + n] = qt[1 + n]
      BY DEF Stands
    <3> QED BY <1>2, <3>1, <3>2
  <2>2. 1 + Len(qt) - 1 <= Len(w)
    BY <1>1, <1>3
  <2> QED BY <2>1, <2>2 DEF Stands
<1>5. \A q \in Nat : Stands(w, qt, q) => 1 <= q
  BY DEF Stands
<1>6. /\ SpanOf(MatchingBlocks(w, qt), i) # {}
      /\ \A s \in SpanOf(MatchingBlocks(w, qt), i) : s.start = i + 1 - 1 /\ s.matched = Len(qt)
  <2>1. i \in Nat /\ 1 <= i /\ Len(qt) \in Nat /\ 1 <= Len(qt) /\ Len(w) \in Nat
    BY <1>1, <1>3
  <2>2. /\ SpanOf(MatchingBlocks(w, qt), i) # {}
        /\ \A s \in SpanOf(MatchingBlocks(w, qt), i) :
               /\ s.start = i + 1 - 1 /\ s.end = i + 1 + Len(qt) - 2
               /\ s.matched = Len(qt)
    BY <1>4, <1>5, <2>1, WholeSpan, SMTT(30)
  <2> QED BY <2>2
<1>7. i + 1 - 1 = i
  BY <1>1
<1> QED BY <1>2, <1>6, <1>7

Windows(qt, src) == UNION {ScoreWindow(qt, src, i) : i \in CandidateStarts(qt, src)}

LEMMA NeededHits ==
    ASSUME NEW n \in Nat
    PROVE  /\ Max({2, n - 1}) \in Nat /\ Max({2, n - 1}) >= 2
           /\ n >= 2 => n >= Max({2, n - 1})
<1>1. CASE n = 0
  <2>1. \E x \in {2, n - 1} : \A y \in {2, n - 1} : x >= y
    BY <1>1
  <2>2. Max({2, n - 1}) \in {2, n - 1} /\ \A y \in {2, n - 1} : Max({2, n - 1}) >= y
    BY <2>1 DEF Max
  <2> QED BY <1>1, <2>2
<1>2. CASE n # 0
  <2>1. n - 1 \in Nat
    BY <1>2
  <2> QED BY <2>1, TwoOf
<1> QED BY <1>1, <1>2

LEMMA CandidateIsWord ==
    ASSUME NEW src \in Seq(Words), NEW qt \in Seq(Words), 1 <= Len(qt),
           NEW i \in CandidateStarts(qt, src)
    PROVE  i \in 1 .. Len(src)
<1> DEFINE seed == Min({SeedLen, Len(qt)})
           Agreeing == {j \in 1 .. seed : src[i + j - 1] = qt[j]}
<1>1. SeedLen \in Nat /\ Len(qt) \in Nat /\ Len(src) \in Nat
  BY AlignmentAssumption
<1>2. seed \in Nat
  BY <1>1, TwoOf
<1>3. i \in 1 .. Len(src) - seed + 1 /\ Cardinality(Agreeing) >= Max({2, seed - 1})
  BY DEF CandidateStarts
<1> HIDE DEF seed
<1>4. seed # 0
  <2>1. ASSUME seed = 0 PROVE FALSE
    <3>1. Agreeing = {}
      BY <2>1
    <3>2. Cardinality(Agreeing) = 0
      BY <3>1, FS_EmptySet
    <3>3. Max({2, seed - 1}) \in Nat /\ Max({2, seed - 1}) >= 2
      BY <2>1, NeededHits
    <3> QED BY <1>3, <3>2, <3>3, SMTT(20)
  <2> QED BY <2>1
<1> QED BY <1>1, <1>2, <1>3, <1>4
\* If any word is a candidate, so is every one that the quote stands at.
LEMMA StandsIsCandidate ==
    ASSUME NEW src \in Seq(Words), NEW qt \in Seq(Words), 1 <= Len(qt), NEW i, Stands(src, qt, i),
           NEW k \in CandidateStarts(qt, src)
    PROVE  i \in CandidateStarts(qt, src)
<1> DEFINE seed == Min({SeedLen, Len(qt)})
           Agreeing(n) == {j \in 1 .. seed : src[n + j - 1] = qt[j]}
           need == Max({2, seed - 1})
<1>1. SeedLen \in Nat /\ Len(qt) \in Nat /\ Len(src) \in Nat
  BY AlignmentAssumption
<1>2. seed \in Nat /\ seed <= Len(qt)
  BY <1>1, TwoOf
<1>3. Cardinality(Agreeing(k)) >= need
  BY DEF CandidateStarts
<1>4. CandidateStarts(qt, src) = {n \in 1 .. Len(src) - seed + 1 : Cardinality(Agreeing(n)) >= need}
  BY DEF CandidateStarts
<1> HIDE DEF seed
<1>5. IsFiniteSet(1 .. seed) /\ Cardinality(1 .. seed) = seed
  BY <1>2, CountTo
<1>6. Cardinality(Agreeing(k)) \in Nat /\ Cardinality(Agreeing(k)) <= seed
  <2>1. Agreeing(k) \subseteq 1 .. seed
    OBVIOUS
  <2> HIDE DEF Agreeing
  <2> QED BY <1>5, <2>1, FS_Subset, FS_CardinalityType
<1>7. Agreeing(i) = 1 .. seed
  <2>1. ASSUME NEW j \in 1 .. seed PROVE src[i + j - 1] = qt[j]
    <3>1. j - 1 \in 0 .. Len(qt) - 1 /\ i + (j - 1) = i + j - 1 /\ 1 + (j - 1) = j
      BY <1>1, <1>2 DEF Stands
    <3>2. src[i + (j - 1)] = qt[1 + (j - 1)]
      BY <3>1 DEF Stands
    <3> QED BY <3>1, <3>2
  <2> QED BY <2>1
<1>8. seed >= need
  <2>1. need \in Nat /\ need >= 2 /\ (seed >= 2 => seed >= need)
    BY <1>2, NeededHits
  <2> HIDE DEF need, Agreeing
  <2> QED BY <1>2, <1>3, <1>6, <2>1
<1>9. i \in 1 .. Len(src) - seed + 1
  BY <1>1, <1>2 DEF Stands
<1> HIDE DEF need
<1>10. Cardinality(Agreeing(i)) >= need
  BY <1>5, <1>7, <1>8
<1> QED BY <1>4, <1>9, <1>10

\* The spans that are compared, and the one that is taken.
SpansOf(qt, src) ==
    IF qt = <<>> \/ src = <<>> THEN {}
    ELSE IF Windows(qt, src) # {} THEN Windows(qt, src) ELSE Global(qt, src)

Best(S) == {s \in S : \A t \in S : s.matched >= t.matched}

First(S) == CHOOSE s \in Best(S) : \A t \in Best(S) : s.at <= t.at

RivalsOf(S, qt) ==
    {t \in S \ {First(S)} : /\ 20 * (First(S).matched - t.matched) <= Len(qt)
                            /\ t.start > First(S).start + AmbigGap
                               \/ First(S).start > t.start + AmbigGap}

Limit(qt) == Max({Len(qt) * SpanRatio, Len(qt) + SpanSlack, Len(qt) + Slack(qt)})

LEMMA AlignIs ==
    ASSUME NEW qt, NEW src, NEW S, S = SpansOf(qt, src)
    PROVE  AlignQuote(qt, src) =
               IF S = {} \/ 2 * First(S).matched < Len(qt) THEN NoSpan
               ELSE [start |-> First(S).start, end |-> First(S).end, matched |-> First(S).matched,
                     ambiguous |-> RivalsOf(S, qt) # {}]
BY DEF AlignQuote, SpansOf, Windows, Best, First, RivalsOf

\* Every span that is compared is of the record and in proportion to the quote.
LEMMA ScoredSpan ==
    ASSUME NEW src \in Seq(Words), NEW qt \in Seq(Words), 1 <= Len(qt), NEW s \in SpansOf(qt, src)
    PROVE  /\ s.at \in Nat /\ s.start \in Nat /\ 1 <= s.start /\ s.end \in Nat /\ s.start <= s.end
           /\ s.end <= Len(src) /\ s.end - s.start < Limit(qt)
           /\ s.matched \in 0 .. Len(qt)
<1> DEFINE a == Len(qt) * SpanRatio
           b == Len(qt) + SpanSlack
           c == Len(qt) + Slack(qt)
<1>1. /\ a \in Nat /\ b \in Nat /\ c \in Nat /\ Slack(qt) \in Nat
      /\ Len(qt) \in Nat /\ Len(src) \in Nat
  BY AlignmentAssumption, SlackType
<1>2. Limit(qt) \in Nat /\ Limit(qt) >= a /\ Limit(qt) >= b /\ Limit(qt) >= c
  BY <1>1, LargestOf DEF Limit
<1>3. CASE s \in Windows(qt, src)
  <2>1. PICK i \in CandidateStarts(qt, src) : s \in ScoreWindow(qt, src, i)
    BY <1>3 DEF Windows
  <2>2. i \in 1 .. Len(src)
    BY CandidateIsWord
  <2>3. /\ s.at = i /\ s.start \in Nat /\ 1 <= s.start /\ s.end \in Nat /\ s.start <= s.end
        /\ s.end <= Len(src) /\ s.end - s.start < c /\ s.matched \in 0 .. Len(qt)
    BY <2>1, <2>2, WindowSpan
  <2> HIDE DEF c
  <2>4. s.end - s.start < Limit(qt)
    BY <1>1, <1>2, <2>3
  <2> QED BY <2>2, <2>3, <2>4
<1>4. CASE s \in Global(qt, src)
  <2>1. s \in SpanOf(MatchingBlocks(src, qt), 1) /\ s.end - s.start + 1 <= Max({a, b})
    BY <1>4 DEF Global
  <2>2. /\ s.at = 1 /\ s.start \in Nat /\ 1 <= s.start /\ s.end \in Nat /\ s.start <= s.end
        /\ s.end <= 1 + Len(src) - 1 /\ s.matched \in 0 .. Len(qt)
    BY <1>1, <2>1, SpanFacts
  <2>3. Max({a, b}) \in {a, b}
    BY <1>1, TwoOf
  <2> HIDE DEF a, b
  <2>4. s.end - s.start < Limit(qt)
    BY <1>1, <1>2, <2>1, <2>2, <2>3
  <2> QED BY <1>1, <2>2, <2>4
<1> QED BY <1>3, <1>4 DEF SpansOf

\* Where a quote stands in the record, one of the spans is complete and begins there.
LEMMA ScoredWhole ==
    ASSUME NEW src \in Seq(Words), NEW qt \in Seq(Words), 1 <= Len(qt), NEW i, Stands(src, qt, i)
    PROVE  \E s \in SpansOf(qt, src), q \in Nat :
               Stands(src, qt, q) /\ s.start = q /\ s.matched = Len(qt)
<1>1. qt # <<>> /\ src # <<>> /\ Len(qt) \in Nat /\ Len(src) \in Nat /\ i \in Nat
  BY DEF Stands
<1>2. CASE Windows(qt, src) # {}
  <2>1. PICK k : k \in CandidateStarts(qt, src)
    BY <1>2 DEF Windows
  <2>2. i \in CandidateStarts(qt, src)
    BY <2>1, StandsIsCandidate
  <2>3. PICK s \in ScoreWindow(qt, src, i) : s.start = i /\ s.matched = Len(qt)
    BY WindowFindsWhole
  <2>4. s \in SpansOf(qt, src)
    BY <1>1, <1>2, <2>2, <2>3 DEF SpansOf, Windows
  <2> QED BY <1>1, <2>3, <2>4
<1>3. CASE Windows(qt, src) = {}
  <2> DEFINE T == {q \in Nat : Stands(src, qt, q)}
  <2>1. PICK p \in T : \A q \in T : p <= q
    <3>1. T \subseteq Nat /\ T # {}
      BY <1>1
    <3> QED BY <3>1, MinIsFirst, Zenon
  <2>2. PICK s \in SpanOf(MatchingBlocks(src, qt), 1) :
            s.start = 1 + p - 1 /\ s.end = 1 + p + Len(qt) - 2 /\ s.matched = Len(qt)
    <3>1. Stands(src, qt, p) /\ \A q \in Nat : Stands(src, qt, q) => p <= q
      BY <2>1
    <3>2. /\ SpanOf(MatchingBlocks(src, qt), 1) # {}
          /\ \A s \in SpanOf(MatchingBlocks(src, qt), 1) :
                 /\ s.start = 1 + p - 1 /\ s.end = 1 + p + Len(qt) - 2
                 /\ s.matched = Len(qt)
      BY <1>1, <3>1, WholeSpan
    <3> QED BY <3>2
  <2>3. s.start = p /\ s.end - s.start + 1 = Len(qt)
    BY <1>1, <2>2
  <2>4. Len(qt) <= Max({Len(qt) * SpanRatio, Len(qt) + SpanSlack})
    <3>1. Len(qt) * SpanRatio \in Nat /\ Len(qt) + SpanSlack \in Nat /\ Len(qt) <= Len(qt) + SpanSlack
      BY <1>1, AlignmentAssumption
    <3>2. /\ Max({Len(qt) * SpanRatio, Len(qt) + SpanSlack}) \in Nat
          /\ Max({Len(qt) * SpanRatio, Len(qt) + SpanSlack}) >= Len(qt) + SpanSlack
      BY <3>1, TwoOf
    <3> DEFINE m == Max({Len(qt) * SpanRatio, Len(qt) + SpanSlack})
               n == Len(qt) + SpanSlack
    <3>3. m \in Nat /\ m >= n /\ n \in Nat /\ Len(qt) <= n
      BY <3>1, <3>2
    <3> HIDE DEF m, n
    <3>4. Len(qt) <= m
      BY <1>1, <3>3
    <3> QED BY <3>4 DEF m
  <2>5. s \in SpansOf(qt, src)
    BY <1>1, <1>3, <2>2, <2>3, <2>4 DEF SpansOf, Global
  <2> QED BY <2>1, <2>2, <2>3, <2>5
<1> QED BY <1>2, <1>3
\* The span that is taken is one of them, and none matches more.
LEMMA FirstIsBest ==
    ASSUME NEW S, S # {}, NEW n \in Nat, \A s \in S : s.at \in Nat /\ s.matched \in 0 .. n
    PROVE  First(S) \in S /\ \A t \in S : First(S).matched >= t.matched
<1> DEFINE counts == {s.matched : s \in S}
           ats == {s.at : s \in Best(S)}
<1>1. Max(counts) \in counts /\ \A c \in counts : c <= Max(counts)
  <2>1. counts \subseteq 0 .. n /\ counts # {}
    OBVIOUS
  <2> HIDE DEF counts
  <2> QED BY <2>1, MaxIsLast
<1>2. PICK b \in S : Max(counts) = b.matched
  BY <1>1
<1>3. b \in Best(S)
  <2>1. ASSUME NEW t \in S PROVE b.matched >= t.matched
    <3>1. t.matched \in counts
      OBVIOUS
    <3> HIDE DEF counts
    <3>2. t.matched <= b.matched /\ t.matched \in Nat /\ b.matched \in Nat
      BY <1>1, <1>2, <3>1
    <3> QED BY <3>2
  <2> QED BY <2>1 DEF Best
<1>4. Min(ats) \in ats /\ \A a \in ats : Min(ats) <= a
  <2>1. ats \subseteq Nat /\ ats # {}
    BY <1>3 DEF Best
  <2> HIDE DEF ats
  <2> QED BY <2>1, MinIsFirst
<1>5. PICK f \in Best(S) : f.at = Min(ats)
  BY <1>4
<1>6. \A t \in Best(S) : f.at <= t.at
  BY <1>4, <1>5
<1>7. First(S) \in Best(S)
  BY <1>5, <1>6 DEF First
<1> QED BY <1>7 DEF Best

\* A location, once there is one, is what the alignment makes of the claim's quote.
AlignmentInv ==
    /\ source \in Seq(Words) /\ quote \in Seq(Words)
    /\ located = NotLocated \/ located = AlignQuote(quote, source)

LEMMA AlignInitial == AlignInit => AlignmentInv
<1> SUFFICES ASSUME AlignInit PROVE AlignmentInv
  OBVIOUS
<1>1. MaxSource \in Nat /\ MaxQuote \in Nat
  BY AlignmentAssumption
<1>2. PICK m \in 0 .. MaxSource : source \in [1 .. m -> Words]
  BY <1>1 DEF AlignInit, BoundedSeq, SeqOf
<1>3. PICK n \in 0 .. MaxQuote : quote \in [1 .. n -> Words]
  BY <1>1 DEF AlignInit, BoundedSeq, SeqOf
<1>4. m \in Nat /\ n \in Nat
  BY <1>1
<1>5. source \in Seq(Words) /\ quote \in Seq(Words)
  BY <1>2, <1>3, <1>4
<1> QED BY <1>5 DEF AlignInit, AlignmentInv

LEMMA AlignStep == AlignmentInv /\ [Normalise]_alignVars => AlignmentInv'
BY DEF AlignmentInv, Normalise, alignVars

\* The two ways to say that the quote stands at a word.
LEMMA VerbatimStands ==
    ASSUME AlignmentInv, 1 <= Len(quote)
    PROVE  /\ \A i \in DOMAIN source : Verbatim(i) => Stands(source, quote, i)
           /\ \A i : Stands(source, quote, i) => i \in DOMAIN source /\ Verbatim(i)
<1>1. /\ source \in Seq(Words) /\ quote \in Seq(Words) /\ Len(source) \in Nat /\ Len(quote) \in Nat
      /\ DOMAIN source = 1 .. Len(source) /\ DOMAIN quote = 1 .. Len(quote)
  BY DEF AlignmentInv
<1>2. ASSUME NEW i \in Nat, 1 <= i, i + Len(quote) - 1 <= Len(source)
      PROVE  /\ SubSeq(source, i, i + Len(quote) - 1) \in Seq(Words)
             /\ Len(SubSeq(source, i, i + Len(quote) - 1)) = Len(quote)
             /\ \A j \in 1 .. Len(quote) :
                    SubSeq(source, i, i + Len(quote) - 1)[j] = source[i + j - 1]
  <2> DEFINE last == i + Len(quote) - 1
  <2>1. last \in Nat /\ i <= last /\ last <= Len(source) /\ last - i + 1 = Len(quote)
    BY <1>1, <1>2
  <2> HIDE DEF last
  <2>2. /\ SubSeq(source, i, last) \in Seq(Words)
        /\ Len(SubSeq(source, i, last)) = last - i + 1
        /\ \A j \in 1 .. last - i + 1 : SubSeq(source, i, last)[j] = source[i + j - 1]
    BY <1>1, <1>2, <2>1
  <2> QED BY <2>1, <2>2 DEF last
<1>3. ASSUME NEW i \in DOMAIN source, Verbatim(i) PROVE Stands(source, quote, i)
  <2>1. i \in Nat /\ 1 <= i /\ i + Len(quote) - 1 <= Len(source)
    BY <1>1, <1>3 DEF Verbatim
  <2>2. SubSeq(source, i, i + Len(quote) - 1) = quote
    BY <1>3 DEF Verbatim
  <2>3. ASSUME NEW n \in 0 .. Len(quote) - 1 PROVE source[i + n] = quote[1 + n]
    <3>1. 1 + n \in 1 .. Len(quote) /\ i + (1 + n) - 1 = i + n
      BY <1>1, <2>1
    <3> QED BY <1>2, <2>1, <2>2, <3>1
  <2> QED BY <2>1, <2>3 DEF Stands
<1>4. ASSUME NEW i, Stands(source, quote, i) PROVE i \in DOMAIN source /\ Verbatim(i)
  <2>1. i \in Nat /\ 1 <= i /\ i + Len(quote) - 1 <= Len(source)
    BY <1>4 DEF Stands
  <2> DEFINE w == SubSeq(source, i, i + Len(quote) - 1)
  <2>2. ASSUME NEW j \in 1 .. Len(quote) PROVE w[j] = quote[j]
    <3>1. j - 1 \in 0 .. Len(quote) - 1 /\ i + (j - 1) = i + j - 1 /\ 1 + (j - 1) = j
      BY <1>1, <2>1
    <3>2. source[i + (j - 1)] = quote[1 + (j - 1)]
      BY <1>4, <3>1 DEF Stands
    <3> QED BY <1>2, <2>1, <3>1, <3>2
  <2>3. w \in Seq(Words) /\ Len(w) = Len(quote)
    BY <1>2, <2>1
  <2> HIDE DEF w
  <2>4. w = quote
    BY <1>1, <2>2, <2>3
  <2>5. i \in DOMAIN source
    BY <1>1, <2>1
  <2> QED BY <2>1, <2>4, <2>5 DEF w, Verbatim
<1> QED BY <1>3, <1>4

\* A claim's location is of its record, in proportion to its quote and has half of it; and
\* a quote that stands in the record is located, complete, near a place where it stands
\* word for word, or the location is marked ambiguous: for any record, any quote and any
\* setting of the aligner.
THEOREM AlignedIsAlwaysThere == AlignSpec => []AlignedIsThere
<1>1. AlignmentInv => AlignedIsThere
  <2> SUFFICES ASSUME AlignmentInv, located # NotLocated, quote # <<>> PROVE AlignedIsThere
    BY DEF AlignedIsThere
  <2> DEFINE S == SpansOf(quote, source)
             f == First(S)
  <2>1. source \in Seq(Words) /\ quote \in Seq(Words) /\ Len(quote) \in Nat /\ 1 <= Len(quote)
    BY DEF AlignmentInv
  <2>2. located = IF S = {} \/ 2 * f.matched < Len(quote) THEN NoSpan
                  ELSE [start |-> f.start, end |-> f.end, matched |-> f.matched,
                        ambiguous |-> RivalsOf(S, quote) # {}]
    BY AlignIs DEF AlignmentInv
  <2>3. ASSUME NEW s \in S
        PROVE  /\ s.at \in Nat /\ s.start \in Nat /\ 1 <= s.start /\ s.end \in Nat
               /\ s.start <= s.end /\ s.end <= Len(source) /\ s.end - s.start < Limit(quote)
               /\ s.matched \in 0 .. Len(quote)
    BY <2>1, ScoredSpan
  <2> HIDE DEF S, f
  <2>4. ASSUME S # {} PROVE f \in S /\ \A t \in S : f.matched >= t.matched
    BY <2>1, <2>3, <2>4, FirstIsBest DEF f
  <2>5. ASSUME located # NoSpan
        PROVE  /\ 2 * located.matched >= Len(quote)
               /\ 1 <= located.start /\ located.start <= located.end
               /\ located.end <= Len(source) /\ located.end - located.start < Limit(quote)
    <3>1. S # {} /\ ~ (2 * f.matched < Len(quote))
      BY <2>2, <2>5
    <3>2. located.start = f.start /\ located.end = f.end /\ located.matched = f.matched
      BY <2>2, <3>1
    <3>3. f \in S
      BY <2>4, <3>1
    <3>4. f.matched \in Nat /\ 2 * f.matched >= Len(quote)
      BY <2>1, <2>3, <3>1, <3>3
    <3> QED BY <2>3, <3>2, <3>3, <3>4
  <2>6. ASSUME NEW i \in DOMAIN source, Verbatim(i)
        PROVE  /\ located.matched = Len(quote)
               /\ \/ located.ambiguous
                  \/ \E q \in DOMAIN source : /\ Verbatim(q)
                                              /\ q <= located.start + AmbigGap
                                              /\ located.start <= q + AmbigGap
    <3>1. Stands(source, quote, i)
      BY <2>1, <2>6, VerbatimStands
    <3>2. PICK t \in S, q \in Nat : Stands(source, quote, q) /\ t.start = q /\ t.matched = Len(quote)
      BY <2>1, <3>1, ScoredWhole DEF S
    <3>3. f \in S /\ f.matched = Len(quote)
      <4>1. f \in S /\ f.matched >= t.matched
        BY <2>4, <3>2
      <4>2. f.matched \in 0 .. Len(quote)
        BY <2>3, <4>1
      <4> QED BY <2>1, <3>2, <4>1, <4>2
    <3>4. located = [start |-> f.start, end |-> f.end, matched |-> f.matched,
                     ambiguous |-> RivalsOf(S, quote) # {}]
      BY <2>1, <2>2, <3>3
    <3>5. ASSUME RivalsOf(S, quote) = {} PROVE q <= f.start + AmbigGap /\ f.start <= q + AmbigGap
      <4>1. AmbigGap \in Nat /\ f.start \in Nat
        BY <2>3, <3>3, AlignmentAssumption
      <4>2. CASE t = f
        BY <3>2, <4>1, <4>2
      <4>3. CASE t # f
        <5>1. 20 * (f.matched - t.matched) <= Len(quote)
          BY <2>1, <3>2, <3>3
        <5>2. ~ (t.start > f.start + AmbigGap \/ f.start > t.start + AmbigGap)
          BY <3>2, <3>5, <4>3, <5>1 DEF RivalsOf, f
        <5> QED BY <3>2, <4>1, <5>2
      <4> QED BY <4>2, <4>3
    <3>6. q \in DOMAIN source /\ Verbatim(q)
      BY <2>1, <3>2, VerbatimStands
    <3> QED BY <3>3, <3>4, <3>5, <3>6
  <2> QED BY <2>5, <2>6 DEF AlignedIsThere, Limit, Slack
<1> QED BY <1>1, AlignInitial, AlignStep, PTL DEF AlignSpec
================================================================================
