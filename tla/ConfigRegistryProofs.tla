-------------------------- MODULE ConfigRegistryProofs -------------------------
(***************************************************************************)
(* For any number of processes, configurations and pids: registration      *)
(* loses nothing, never tears or overwrites a document, and implements the *)
(* grow-only set.  The inductive invariant is IInv: what a process read    *)
(* under the lock is still the whole registry when it writes (SectionInv), *)
(* because only the lock holder is inside the section (LockInv).           *)
(***************************************************************************)
EXTENDS ConfigRegistry, TLAPS

\* The processes start with every variable in its type.
LEMMA TypeInit == Init => TypeOK
  BY DEF Init, TypeOK, Documents, Readable, Absent, Invalid, Pcs, Held

\* Every step keeps every variable in its type.
LEMMA TypeStep == TypeOK /\ [Next]_regVars => TypeOK'
<1> SUFFICES ASSUME TypeOK, [Next]_regVars PROVE TypeOK'
  OBVIOUS
<1> USE WantsAssumption, PidAssumption, NoProcAssumption
    DEF TypeOK, Documents, Readable, Absent, Invalid, Pcs, Held, Goto, Want
<1>1. ASSUME NEW p \in Procs, Begin(p) PROVE TypeOK'
  BY <1>1 DEF Begin
<1>2. ASSUME NEW p \in Procs, Lock(p) PROVE TypeOK'
  BY <1>2 DEF Lock
<1>13. ASSUME NEW p \in Procs, CannotLock(p) PROVE TypeOK'
  BY <1>13 DEF CannotLock
<1>3. ASSUME NEW p \in Procs, Read(p) PROVE TypeOK'
  BY <1>3 DEF Read
<1>4. ASSUME NEW p \in Procs, RefuseInvalid(p) PROVE TypeOK'
  BY <1>4 DEF RefuseInvalid
<1>5. ASSUME NEW p \in Procs, OpenTmp(p) PROVE TypeOK'
  BY <1>5 DEF OpenTmp
<1>6. ASSUME NEW p \in Procs, FillTmp(p) PROVE TypeOK'
  <2>1. Want(p) \in Configs
    BY <1>6 DEF FillTmp
  <2>2. [form |-> "wrapped", configs |-> seen[p] \cup {Want(p)}] \in Documents
    BY <2>1
  <2> QED BY <1>6, <2>2 DEF FillTmp
<1>7. ASSUME NEW p \in Procs, Replace(p) PROVE TypeOK'
  BY <1>7 DEF Replace
<1>8. ASSUME NEW p \in Procs, WriteFails(p) PROVE TypeOK'
  BY <1>8 DEF WriteFails
<1>9. ASSUME NEW p \in Procs, Return(p) PROVE TypeOK'
  <2>1. Want(p) \in Configs
    BY <1>9 DEF Return
  <2> QED BY <1>9, <2>1 DEF Return
<1>10. ASSUME NEW p \in Procs, Raise(p) PROVE TypeOK'
  BY <1>10 DEF Raise
<1>11. ASSUME NEW p \in Procs, Die(p) PROVE TypeOK'
  BY <1>11 DEF Die
<1>12. CASE UNCHANGED regVars
  BY <1>12 DEF regVars
<1> QED
  BY <1>1, <1>2, <1>3, <1>4, <1>5, <1>6, <1>7, <1>8, <1>9, <1>10, <1>11, <1>12,
     <1>13
     DEF Next, Step

\* A step keeps the lock with the one process inside the section.
LEMMA LockStep == TypeOK /\ LockInv /\ [Next]_regVars => LockInv'
<1> SUFFICES ASSUME TypeOK, LockInv, [Next]_regVars PROVE LockInv'
  OBVIOUS
<1> USE NoProcAssumption DEF TypeOK, LockInv, Held, Goto
<1>1. ASSUME NEW p \in Procs, Begin(p) PROVE LockInv'
  BY <1>1 DEF Begin
<1>2. ASSUME NEW p \in Procs, Lock(p) PROVE LockInv'
  BY <1>2 DEF Lock
<1>13. ASSUME NEW p \in Procs, CannotLock(p) PROVE LockInv'
  BY <1>13 DEF CannotLock
<1>3. ASSUME NEW p \in Procs, Read(p) PROVE LockInv'
  BY <1>3 DEF Read
<1>4. ASSUME NEW p \in Procs, RefuseInvalid(p) PROVE LockInv'
  BY <1>4 DEF RefuseInvalid
<1>5. ASSUME NEW p \in Procs, OpenTmp(p) PROVE LockInv'
  BY <1>5 DEF OpenTmp
<1>6. ASSUME NEW p \in Procs, FillTmp(p) PROVE LockInv'
  BY <1>6 DEF FillTmp
<1>7. ASSUME NEW p \in Procs, Replace(p) PROVE LockInv'
  BY <1>7 DEF Replace
<1>8. ASSUME NEW p \in Procs, WriteFails(p) PROVE LockInv'
  BY <1>8 DEF WriteFails
<1>9. ASSUME NEW p \in Procs, Return(p) PROVE LockInv'
  BY <1>9 DEF Return
<1>10. ASSUME NEW p \in Procs, Raise(p) PROVE LockInv'
  BY <1>10 DEF Raise
<1>11. ASSUME NEW p \in Procs, Die(p) PROVE LockInv'
  BY <1>11 DEF Die
<1>12. CASE UNCHANGED regVars
  BY <1>12 DEF regVars
<1> QED
  BY <1>1, <1>2, <1>3, <1>4, <1>5, <1>6, <1>7, <1>8, <1>9, <1>10, <1>11, <1>12,
     <1>13
     DEF Next, Step

\* What a process read is still all there is when it writes, and what it renames is
\* whole: only the lock holder writes the registry or the temporary file it uses.
LEMMA SectionStep == TypeOK /\ LockInv /\ SectionInv /\ [Next]_regVars => SectionInv'
<1> SUFFICES ASSUME TypeOK, LockInv, SectionInv, [Next]_regVars PROVE SectionInv'
  OBVIOUS
<1> USE WantsAssumption, PidAssumption, NoProcAssumption
    DEF TypeOK, LockInv, SectionInv, Held, Goto, Want
<1>1. ASSUME NEW p \in Procs, Begin(p) PROVE SectionInv'
  BY <1>1 DEF Begin
<1>2. ASSUME NEW p \in Procs, CannotLock(p) PROVE SectionInv'
  BY <1>2 DEF CannotLock
<1>3. ASSUME NEW p \in Procs, Lock(p) PROVE SectionInv'
  BY <1>3 DEF Lock
<1>4. ASSUME NEW p \in Procs, Read(p) PROVE SectionInv'
  BY <1>4 DEF Read
<1>5. ASSUME NEW p \in Procs, RefuseInvalid(p) PROVE SectionInv'
  BY <1>5 DEF RefuseInvalid
<1>6. ASSUME NEW p \in Procs, OpenTmp(p) PROVE SectionInv'
  BY <1>6 DEF OpenTmp
<1>7. ASSUME NEW p \in Procs, FillTmp(p) PROVE SectionInv'
  BY <1>7 DEF FillTmp
<1>8. ASSUME NEW p \in Procs, Replace(p) PROVE SectionInv'
  <2>1. registry' = [form |-> "wrapped", configs |-> seen[p] \cup {Want(p)}]
    BY <1>8 DEF Replace
  <2>2. \A q \in Procs : pc'[q] \in {"opening", "filling", "replacing"} => FALSE
    BY <1>8 DEF Replace
  <2>3. \A q \in Procs : pc'[q] = "closing" => q = p
    BY <1>8 DEF Replace
  <2>4. UNCHANGED <<call, seen>>
    BY <1>8 DEF Replace
  <2> QED BY <2>1, <2>2, <2>3, <2>4
<1>9. ASSUME NEW p \in Procs, WriteFails(p) PROVE SectionInv'
  BY <1>9 DEF WriteFails
<1>10. ASSUME NEW p \in Procs, Return(p) PROVE SectionInv'
  BY <1>10 DEF Return
<1>11. ASSUME NEW p \in Procs, Raise(p) PROVE SectionInv'
  BY <1>11 DEF Raise
<1>12. ASSUME NEW p \in Procs, Die(p) PROVE SectionInv'
  BY <1>12 DEF Die
<1>13. CASE UNCHANGED regVars
  BY <1>13 DEF regVars
<1> QED
  BY <1>1, <1>2, <1>3, <1>4, <1>5, <1>6, <1>7, <1>8, <1>9, <1>10, <1>11, <1>12,
     <1>13 DEF Next, Step

\* A process inside the section has a configuration to register.
LEMMA WantIsAConfig ==
    ASSUME TypeOK, NEW p \in Procs, pc[p] \in Held
    PROVE  Want(p) \in Configs
<1>1. call[p] \in DOMAIN Wants[p]
  BY DEF TypeOK
<1>2. Wants[p] \in Seq(Configs)
  BY WantsAssumption
<1> QED BY <1>1, <1>2 DEF Want

\* The whole document a rename puts in place has everything the registry had.
LEMMA ReplaceExtends ==
    ASSUME TypeOK, SectionInv, NEW p \in Procs, Replace(p)
    PROVE  /\ registry # Invalid /\ registry' # Invalid
           /\ registry'.configs = registry.configs \cup {Want(p)}
<1>1. registry' = [form |-> "wrapped", configs |-> seen[p] \cup {Want(p)}]
  BY DEF SectionInv, Replace
<1>2. registry'.configs = seen[p] \cup {Want(p)} /\ registry'.form = "wrapped"
  BY <1>1
<1>3. registry' # Invalid
  BY <1>2 DEF Invalid
<1>4. registry # Invalid /\ registry.configs = seen[p]
  BY DEF SectionInv, Replace
<1> QED BY <1>2, <1>3, <1>4

\* Nothing but a rename writes the registry.
LEMMA OnlyReplaceWrites ==
    ASSUME [Next]_regVars
    PROVE  registry' = registry \/ \E p \in Procs : Replace(p)
  BY DEF Next, Step, regVars, Begin, CannotLock, Lock, Read, RefuseInvalid, OpenTmp,
         FillTmp, WriteFails, Return, Raise, Die

\* Nothing but a normal return promises a configuration.
LEMMA OnlyReturnPromises ==
    ASSUME [Next]_regVars
    PROVE  returned' = returned \/ \E p \in Procs : Return(p)
  BY DEF Next, Step, regVars, Begin, CannotLock, Lock, Read, RefuseInvalid, OpenTmp,
         FillTmp, Replace, WriteFails, Raise, Die

\* What was promised stays in the registry.
LEMMA RetainedStep == IInv /\ [Next]_regVars => ReturnedAreRetained'
<1> SUFFICES ASSUME IInv, [Next]_regVars PROVE ReturnedAreRetained'
  OBVIOUS
<1>1. registry.configs \subseteq registry'.configs
  BY OnlyReplaceWrites, ReplaceExtends DEF IInv
<1>2. CASE returned' = returned
  BY <1>1, <1>2 DEF IInv, ReturnedAreRetained
<1>3. ASSUME NEW p \in Procs, Return(p) PROVE ReturnedAreRetained'
  <2>1. Want(p) \in registry.configs
    BY <1>3 DEF IInv, SectionInv, Return
  <2> QED BY <1>3, <2>1 DEF IInv, ReturnedAreRetained, Return
<1> QED BY <1>2, <1>3, OnlyReturnPromises

\* IInv is inductive.
LEMMA Inductive == IInv /\ [Next]_regVars => IInv'
  BY TypeStep, LockStep, SectionStep, RetainedStep DEF IInv

\* IInv holds to begin with.
LEMMA InitIInv == Init => IInv
  BY TypeInit, NoProcAssumption
     DEF Init, IInv, LockInv, SectionInv, ReturnedAreRetained, Held

\* The lock excludes, and what is read under it is still true when it is used.
THEOREM Correct == Spec => []IInv
<1>1. Init => IInv
  BY InitIInv
<1>2. IInv /\ [Next]_regVars => IInv'
  BY Inductive
<1> QED BY <1>1, <1>2, PTL DEF Spec

\* A configuration whose register() returned is in the registry ever after.
THEOREM Retention == Spec => []ReturnedAreRetained
<1>1. IInv => ReturnedAreRetained
  BY DEF IInv
<1> QED BY <1>1, Correct, PTL

\* register() neither tears the registry nor replaces one it cannot read.
THEOREM Readability == Spec => ReadabilityIsStable
<1>1. IInv /\ [Next]_regVars => [registry = Invalid <=> registry' = Invalid]_regVars
  BY OnlyReplaceWrites, ReplaceExtends DEF IInv
<1> QED BY <1>1, Correct, PTL DEF Spec, ReadabilityIsStable

\* From outside, register() is one atomic step that adds its configuration.
THEOREM Atomicity == Spec => ImplementsRetained
<1>1. Init => Retained!RetainInit
  BY DEF Init, Documents, Readable, Absent, Invalid, Retained!RetainInit
<1>2. IInv /\ [Next]_regVars
        => [Retained!RetainNext]_<<registry.configs, returned>>
  <2> SUFFICES ASSUME IInv, [Next]_regVars
               PROVE  [Retained!RetainNext]_<<registry.configs, returned>>
    OBVIOUS
  <2>1. ASSUME NEW p \in Procs, Replace(p) PROVE Retained!RetainNext
    <3>1. Want(p) \in Configs
      BY <2>1, WantIsAConfig DEF IInv, Replace, Held
    <3>2. Retained!Keep(Want(p))
      BY <2>1, ReplaceExtends DEF IInv, Retained!Keep, Replace
    <3> QED BY <3>1, <3>2 DEF Retained!RetainNext
  <2>2. ASSUME NEW p \in Procs, Return(p) PROVE Retained!RetainNext
    <3>1. Want(p) \in Configs
      BY <2>2, WantIsAConfig DEF IInv, Return, Held
    <3>2. Retained!Promise(Want(p))
      BY <2>2 DEF IInv, SectionInv, Retained!Promise, Return
    <3> QED BY <3>1, <3>2 DEF Retained!RetainNext
  <2> QED BY <2>1, <2>2, OnlyReplaceWrites, OnlyReturnPromises
<1> QED BY <1>1, <1>2, Correct, PTL DEF Spec, ImplementsRetained, Retained!RetainSpec
================================================================================
