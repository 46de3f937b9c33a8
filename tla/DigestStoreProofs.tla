--------------------------- MODULE DigestStoreProofs ---------------------------
(***************************************************************************)
(* For any runs on one digests root: every stored digest names a retained  *)
(* configuration, validation never reports one unresolved, a canonical     *)
(* digest is a production run's second copy, and a variant is overwritten  *)
(* only by a redo.  The inductive invariant is StoreInv: how far a run has *)
(* got tells which configurations it has registered (RegisteredInv) and    *)
(* which files carry its name (WrittenInv).                                *)
(***************************************************************************)
EXTENDS DigestStore, TLAPS

\* A run writes one or two files, all of them known paths; a file that is not missing
\* or empty names a run.
LEMMA TargetFacts ==
    ASSUME NEW r \in Runs
    PROVE  /\ Len(Targets(r)) \in {1, 2}
           /\ \A i \in 1 .. Len(Targets(r)) : Targets(r)[i] \in Paths
  BY DEF Targets, Paths

\* Only production runs write a canonical, and they write it second.
LEMMA CanonicalTarget ==
    ASSUME NEW r \in Runs, NEW n \in Names,
           NEW i \in 1 .. Len(Targets(r)), Targets(r)[i] = CanonicalPath(n)
    PROVE  IsProduction(r) /\ i = 2 /\ Targets(r)[1] = VariantPath(r)
<1>1. VariantPath(r)[1] = "variants" /\ OutputPath(r)[1] = "output"
  BY DEF VariantPath, OutputPath
<1>2. CanonicalPath(n)[1] = "canonical"
  BY DEF CanonicalPath
<1>3. i \in {1, 2}
  BY TargetFacts
<1> QED BY <1>1, <1>2, <1>3 DEF Targets

\* The states a run starts in satisfy the invariant.
LEMMA InitInv == StoreInit => StoreInv
<1> SUFFICES ASSUME StoreInit PROVE StoreInv
  OBVIOUS
<1>1. Len(Production) \in Nat
  BY ProductionAssumption
<1>2. StoreTypeOK
  BY <1>1 DEF StoreInit, RetainInit, StoreTypeOK, Files, Missing, Pcs, NoAudit, Audits
<1>3. RegisteredInv
  BY <1>1 DEF StoreInit, RetainInit, RegisteredInv
<1>4. WrittenInv
  <2>1. \A r \in Runs : written[r] = 0 /\ pc[r] \in {"manifest", "extract"}
    BY DEF StoreInit
  <2>2. \A p \in Paths : files[p].by = NoRun
    BY DEF StoreInit, Missing
  <2>3. \A r \in Runs : 0 <= Len(Targets(r))
    BY TargetFacts
  <2>4. \A r \in Runs : 1 .. written[r] = {}
    BY <2>1
  <2> QED BY <2>1, <2>2, <2>3, <2>4 DEF WrittenInv
<1>5. AuditInv
  BY DEF StoreInit, AuditInv, AuditsResolve, NoAudit
<1> QED BY <1>2, <1>3, <1>4, <1>5 DEF StoreInv

\* A run only ever registers known configurations.
LEMMA RegisteringFacts ==
    ASSUME StoreTypeOK, NEW r \in Runs, registered[r] < Len(Production) + 1
    PROVE  Registering(r) \in Configs /\ registered[r] + 1 \in 0 .. Len(Production) + 1
<1>1. Job[r].config \in Configs
  BY JobAssumption DEF Jobs
<1>2. Len(Production) \in Nat /\ \A i \in 1 .. Len(Production) : Production[i] \in Configs
  BY ProductionAssumption
<1> QED BY <1>1, <1>2 DEF StoreTypeOK, Registering

\* Every step keeps every variable in its type.
LEMMA TypeStep == StoreInv /\ [StoreNext]_storeVars => StoreTypeOK'
<1> SUFFICES ASSUME StoreInv, [StoreNext]_storeVars PROVE StoreTypeOK'
  OBVIOUS
<1> USE DEF StoreInv, StoreTypeOK, At, Goto, Pcs
<1>0. Len(Production) \in Nat
  BY ProductionAssumption
<1>1. ASSUME NEW r \in Runs, EnsureManifest(r) PROVE StoreTypeOK'
  BY <1>1 DEF EnsureManifest, AfterRegister
<1>2. ASSUME NEW r \in Runs, Register(r) PROVE StoreTypeOK'
  BY <1>2, RegisteringFacts DEF Register, Keep, RegisteredInv
<1>3. ASSUME NEW r \in Runs, RegisterReturns(r) PROVE StoreTypeOK'
  <2>1. Registering(r) \in Configs /\ registered[r] + 1 \in 0 .. Len(Production) + 1
    BY <1>3, RegisteringFacts DEF RegisterReturns, RegisteredInv
  <2> QED BY <1>3, <2>1 DEF RegisterReturns, Promise, AfterRegister
<1>4. ASSUME NEW r \in Runs, Extract(r) PROVE StoreTypeOK'
  BY <1>4 DEF Extract
<1>5. ASSUME NEW r \in Runs, Open(r) PROVE StoreTypeOK'
  BY <1>5 DEF Open, Files
<1>6. ASSUME NEW r \in Runs, Write(r) PROVE StoreTypeOK'
  <2>1. Whole(r) \in Files /\ Mixed(r) \in Files
    BY DEF Files, Whole, Mixed
  <2>2. written[r] < Len(Targets(r))
    BY <1>6 DEF Write, WrittenInv
  <2>3. written[r] + 1 \in 0 .. 2
    BY <2>2, TargetFacts
  <2>4. files' \in [Paths -> Files]
    BY <1>6, <2>1 DEF Write
  <2>5. pc' \in [Runs -> Pcs]
    BY <1>6 DEF Write
  <2> QED BY <1>6, <2>3, <2>4, <2>5 DEF Write
<1>7. ASSUME NEW r \in Runs, Stop(r) PROVE StoreTypeOK'
  BY <1>7 DEF Stop
<1>8. CASE AuditRead
  <2>1. PICK n \in Names : CanonicalPath(n) \in Paths
          /\ audit' = [NoAudit EXCEPT !.pc = "manifest", !.of = CanonicalPath(n),
                                      !.read = files[CanonicalPath(n)]]
    BY <1>8 DEF AuditRead
  <2>2. files[CanonicalPath(n)] \in Files /\ Missing \in Files
    BY <2>1 DEF Files
  <2>3. audit' \in Audits
    BY <2>1, <2>2 DEF NoAudit, Audits
  <2> QED BY <1>8, <2>3 DEF AuditRead
<1>9. CASE AuditManifest
  BY <1>9 DEF AuditManifest, Audits
<1>10. CASE AuditRegistry
  BY <1>10 DEF AuditRegistry, Audits
<1>11. CASE AuditHash
  <2>1. audit.of \in Paths \cup {<<>>} /\ audit.read \in Files
    BY DEF Audits
  <2>2. files[audit.of] \in Files
    BY <1>11 DEF AuditHash, AuditInv
  <2> QED BY <1>11, <2>1, <2>2 DEF AuditHash, Audits
<1>12. CASE AuditEnds
  BY <1>12 DEF AuditEnds, NoAudit, Audits, Files
<1>13. CASE UNCHANGED storeVars
  BY <1>13 DEF storeVars
<1> QED
  BY <1>1, <1>2, <1>3, <1>4, <1>5, <1>6, <1>7, <1>8, <1>9, <1>10, <1>11, <1>12,
     <1>13 DEF StoreNext, RunStep, Audit

\* A digest on disk has been registered.
LEMMA StampsFact ==
    ASSUME StoreTypeOK, RegisteredInv, WrittenInv, NEW p \in Paths, files[p].by # NoRun
    PROVE  files[p].by \in Runs /\ Job[files[p].by].config \in promised \cap kept
<1>1. files[p].by \in Runs
  BY DEF StoreTypeOK, Files, Missing, Empty
<1>2. written[files[p].by] # 0
  BY <1>1 DEF WrittenInv, StoreTypeOK
<1>3. registered[files[p].by] = Len(Production) + 1
  BY <1>1, <1>2 DEF WrittenInv, RegisteredInv
<1> QED BY <1>1, <1>3 DEF RegisteredInv

\* Every step keeps what a run has registered in step with where it stands.
LEMMA RegisteredStep == StoreInv /\ [StoreNext]_storeVars => RegisteredInv'
<1> SUFFICES ASSUME StoreInv, [StoreNext]_storeVars PROVE RegisteredInv'
  OBVIOUS
<1> USE DEF StoreInv, StoreTypeOK, RegisteredInv, At, Goto
<1>0. Len(Production) \in Nat
  BY ProductionAssumption
<1>1. ASSUME NEW r \in Runs, EnsureManifest(r) PROVE RegisteredInv'
  <2>2. AfterRegister(r, 0) \in {"extract", "register"}
    BY <1>0 DEF AfterRegister
  <2>3. registered[r] < Len(Production) + 1
    BY <1>1 DEF EnsureManifest
  <2> QED BY <1>0, <1>1, <2>2, <2>3 DEF EnsureManifest, Registering
<1>2. ASSUME NEW r \in Runs, Register(r) PROVE RegisteredInv'
  BY <1>0, <1>2 DEF Register, Keep, Registering
<1>3. ASSUME NEW r \in Runs, RegisterReturns(r) PROVE RegisteredInv'
  <2>1. Registering(r) \in kept /\ registered[r] < Len(Production) + 1
    BY <1>3 DEF RegisterReturns
  <2>2. /\ promised' = promised \cup {Registering(r)} /\ kept' = kept
        /\ registered' = [registered EXCEPT ![r] = registered[r] + 1]
        /\ pc' = [pc EXCEPT ![r] = AfterRegister(r, registered[r] + 1)]
    BY <1>3 DEF RegisterReturns, Promise
  <2>3. registered[r] \in Nat
    BY <1>0
  <2>4. registered[r] = Len(Production) => Registering(r) = Job[r].config
    BY <1>0 DEF Registering
  <2>5. /\ AfterRegister(r, registered[r] + 1) \in {"open", "extract", "register"}
        /\ AfterRegister(r, registered[r] + 1) = "open"
               <=> registered[r] + 1 = Len(Production) + 1
    BY <1>0, <2>3 DEF AfterRegister
  <2>6. \A q \in Runs : q # r => Registering(q)' = Registering(q)
    BY <2>2 DEF Registering
  <2>7. promised' \subseteq kept'
    BY <2>1, <2>2
  <2>8. \A q \in Runs : registered'[q] = Len(Production) + 1 => Job[q].config \in promised'
    <3>1. ASSUME NEW q \in Runs, q # r, registered'[q] = Len(Production) + 1
          PROVE  Job[q].config \in promised'
      BY <2>2, <3>1
    <3>2. ASSUME registered'[r] = Len(Production) + 1 PROVE Job[r].config \in promised'
      <4>1. registered[r] + 1 = Len(Production) + 1
        BY <2>2, <3>2
      <4>2. registered[r] = Len(Production)
        BY <1>0, <2>3, <4>1
      <4> QED BY <2>2, <2>4, <4>2
    <3> QED BY <3>1, <3>2
  <2>9. \A q \in Runs : pc'[q] \in {"open", "write", "done"}
                            => registered'[q] = Len(Production) + 1
    BY <1>0, <2>2, <2>3, <2>5
  <2>10. \A q \in Runs : pc'[q] \in {"manifest", "extract", "register", "returning"}
                            => registered'[q] < Len(Production) + 1
    BY <1>0, <2>1, <2>2, <2>3, <2>5
  <2>11. \A q \in Runs : pc'[q] = "returning" => Registering(q)' \in kept'
    BY <2>2, <2>5, <2>6
  <2> QED BY <2>7, <2>8, <2>9, <2>10, <2>11
<1>4. ASSUME NEW r \in Runs, Extract(r) PROVE RegisteredInv'
  BY <1>0, <1>4 DEF Extract, Registering
<1>5. ASSUME NEW r \in Runs, Open(r) PROVE RegisteredInv'
  BY <1>0, <1>5 DEF Open, Registering
<1>6. ASSUME NEW r \in Runs, Write(r) PROVE RegisteredInv'
  BY <1>0, <1>6 DEF Write, Registering
<1>7. ASSUME NEW r \in Runs, Stop(r) PROVE RegisteredInv'
  BY <1>7 DEF Stop, Registering
<1>8. CASE Audit
  BY <1>8 DEF Audit, AuditRead, AuditManifest, AuditRegistry, AuditHash, AuditEnds,
              Registering
<1>9. CASE UNCHANGED storeVars
  BY <1>9 DEF storeVars, Registering
<1> QED
  BY <1>1, <1>2, <1>3, <1>4, <1>5, <1>6, <1>7, <1>8, <1>9 DEF StoreNext, RunStep

\* Every step keeps the files in step with what the runs have written.
LEMMA WrittenStep == StoreInv /\ [StoreNext]_storeVars => WrittenInv'
<1> SUFFICES ASSUME StoreInv, [StoreNext]_storeVars PROVE WrittenInv'
  OBVIOUS
<1> USE DEF StoreInv, StoreTypeOK, At, Goto
<1>0. \A r \in Runs, n \in 0 .. Len(Production) + 1 :
          AfterRegister(r, n) # "open" => AfterRegister(r, n) \in {"extract", "register"}
  BY DEF AfterRegister
<1>1. ASSUME NEW r \in Runs, Open(r) PROVE WrittenInv'
  <2>1. written[r] < Len(Targets(r)) /\ written[r] \in Nat /\ pc[r] = "open"
    BY <1>1 DEF Open, WrittenInv
  <2>2. Target(r) = Targets(r)[written[r] + 1]
    BY DEF Target
  <2>3. /\ files' = [files EXCEPT ![Target(r)] = Empty]
        /\ written' = written
        /\ pc' = [pc EXCEPT ![r] = "write"]
    BY <1>1 DEF Open
  <2>4. \A p \in Paths : files'[p] = files[p] \/ files'[p] = Empty
    BY <2>3
  <2>5. \A q \in Runs : \A i \in 1 .. written[q] : files'[Targets(q)[i]] # Missing
    <3> SUFFICES ASSUME NEW q \in Runs, NEW i \in 1 .. written[q]
                 PROVE  files'[Targets(q)[i]] # Missing
      OBVIOUS
    <3>1. i \in 1 .. Len(Targets(q))
      BY TargetFacts DEF WrittenInv
    <3>2. Targets(q)[i] \in Paths /\ files[Targets(q)[i]] # Missing
      BY <3>1, TargetFacts DEF WrittenInv
    <3> QED BY <2>4, <3>2 DEF Empty, Missing
  <2>6. \A p \in Paths : files'[p].by # NoRun =>
           \E i \in 1 .. written[files'[p].by] : Targets(files'[p].by)[i] = p
    BY <2>4 DEF Empty, WrittenInv
  <2>7. \A q \in Runs :
           /\ written[q] <= Len(Targets(q))
           /\ pc'[q] \in {"open", "write"} => written[q] < Len(Targets(q))
           /\ pc'[q] = "done" => written[q] = Len(Targets(q))
           /\ pc'[q] \notin {"open", "write", "done"} => written[q] = 0
    BY <2>1, <2>3 DEF WrittenInv
  <2> QED BY <2>3, <2>5, <2>6, <2>7 DEF WrittenInv
<1>2. ASSUME NEW r \in Runs, Write(r) PROVE WrittenInv'
  <2>1. written[r] < Len(Targets(r)) /\ written[r] \in Nat /\ pc[r] = "write"
    BY <1>2 DEF Write, WrittenInv
  <2>2. Target(r) = Targets(r)[written[r] + 1] /\ Target(r) \in Paths
    BY <2>1, TargetFacts DEF Target
  <2>3. PICK file \in {Whole(r), Mixed(r)} :
           /\ files' = [files EXCEPT ![Target(r)] = file]
           /\ written' = [written EXCEPT ![r] = written[r] + 1]
           /\ pc' = [pc EXCEPT ![r] = IF written[r] + 1 < Len(Targets(r)) THEN "open"
                                       ELSE "done"]
    BY <1>2 DEF Write
  <2>4. file.by = r /\ file # Missing
    BY NobodyAssumption DEF Whole, Mixed, Missing
  <2>5. \A p \in Paths : files'[p] = files[p] \/ (p = Target(r) /\ files'[p] = file)
    BY <2>3
  <2>6. \A q \in Runs : \A i \in 1 .. written'[q] : files'[Targets(q)[i]] # Missing
    <3> SUFFICES ASSUME NEW q \in Runs, NEW i \in 1 .. written'[q]
                 PROVE  files'[Targets(q)[i]] # Missing
      OBVIOUS
    <3>1. i \in 1 .. written[q] \/ (q = r /\ i = written[r] + 1)
      BY <2>1, <2>3
    <3>2. CASE i \in 1 .. written[q]
      <4>1. i \in 1 .. Len(Targets(q))
        BY <3>2, TargetFacts DEF WrittenInv
      <4>2. Targets(q)[i] \in Paths /\ files[Targets(q)[i]] # Missing
        BY <3>2, <4>1, TargetFacts DEF WrittenInv
      <4> QED BY <2>4, <2>5, <4>2
    <3>3. CASE q = r /\ i = written[r] + 1
      BY <2>2, <2>3, <2>4, <3>3
    <3> QED BY <3>1, <3>2, <3>3
  <2>7. \A p \in Paths : files'[p].by # NoRun =>
           \E i \in 1 .. written'[files'[p].by] : Targets(files'[p].by)[i] = p
    <3> SUFFICES ASSUME NEW p \in Paths, files'[p].by # NoRun
                 PROVE  \E i \in 1 .. written'[files'[p].by] : Targets(files'[p].by)[i] = p
      OBVIOUS
    <3>1. CASE files'[p] = files[p]
      <4>1. files[p].by \in Runs
        BY <3>1 DEF Files, Missing, Empty
      <4>2. PICK i \in 1 .. written[files[p].by] : Targets(files[p].by)[i] = p
        BY <3>1 DEF WrittenInv
      <4>3. i \in 1 .. written'[files[p].by]
        BY <2>1, <2>3, <4>1
      <4> QED BY <3>1, <4>2, <4>3
    <3>2. CASE p = Target(r) /\ files'[p] = file
      <4>1. written[r] + 1 \in 1 .. written'[r]
        BY <2>1, <2>3
      <4> QED BY <2>2, <2>4, <3>2, <4>1
    <3> QED BY <2>5, <3>1, <3>2
  <2>8. \A q \in Runs :
           /\ written'[q] <= Len(Targets(q))
           /\ pc'[q] \in {"open", "write"} => written'[q] < Len(Targets(q))
           /\ pc'[q] = "done" => written'[q] = Len(Targets(q))
           /\ pc'[q] \notin {"open", "write", "done"} => written'[q] = 0
    <3>1. Len(Targets(r)) \in {1, 2}
      BY TargetFacts
    <3> QED BY <2>1, <2>3, <3>1 DEF WrittenInv
  <2> QED BY <2>6, <2>7, <2>8 DEF WrittenInv
<1>3. ASSUME NEW r \in Runs, EnsureManifest(r) \/ Register(r) \/ RegisterReturns(r) \/ Extract(r)
      PROVE WrittenInv'
  <2>1. /\ pc[r] \notin {"open", "write", "done"}
        /\ UNCHANGED <<files, written>>
    BY <1>3 DEF EnsureManifest, Register, RegisterReturns, Extract
  <2>2. written[r] = 0
    BY <2>1 DEF WrittenInv
  <2>4. 0 < Len(Targets(r))
    <3>1. CASE Len(Targets(r)) = 1
      BY <3>1
    <3>2. CASE Len(Targets(r)) = 2
      BY <3>2
    <3> QED BY <3>1, <3>2, TargetFacts
  <2>5. ASSUME NEW n PROVE AfterRegister(r, n) # "done"
    <3>1. AfterRegister(r, n) \in {"open", "extract", "register"}
      BY DEF AfterRegister
    <3> QED BY <3>1
  <2>3. \A q \in Runs : pc'[q] = pc[q] \/ (q = r /\ pc'[q] # "done")
    BY <1>3, <2>5 DEF EnsureManifest, Register, RegisterReturns, Extract
  <2> QED BY <2>1, <2>2, <2>3, <2>4 DEF WrittenInv
<1>4. ASSUME NEW r \in Runs, Stop(r) PROVE WrittenInv'
  BY <1>4 DEF Stop, WrittenInv
<1>5. CASE Audit
  BY <1>5 DEF Audit, AuditRead, AuditManifest, AuditRegistry, AuditHash, AuditEnds, WrittenInv
<1>6. CASE UNCHANGED storeVars
  BY <1>6 DEF storeVars, WrittenInv
<1> QED
  BY <1>1, <1>2, <1>3, <1>4, <1>5, <1>6 DEF StoreNext, RunStep

\* Every step keeps the audit on a digest whose configuration is retained.
LEMMA AuditStep == StoreInv /\ [StoreNext]_storeVars => AuditInv'
<1> SUFFICES ASSUME StoreInv, [StoreNext]_storeVars PROVE AuditInv'
  OBVIOUS
<1> USE DEF StoreInv, StoreTypeOK, AuditInv, AuditsResolve
<1>1. ASSUME NEW r \in Runs, RunStep(r) \/ Stop(r) PROVE AuditInv'
  <2>1. promised \subseteq promised' /\ audit' = audit
    BY <1>1 DEF RunStep, EnsureManifest, Register, RegisterReturns, Extract, Open, Write,
                Stop, Keep, Promise
  <2> QED BY <2>1
<1>2. CASE AuditRead
  <2>1. PICK n \in Names :
          /\ CanonicalPath(n) \in Paths
          /\ files[CanonicalPath(n)].by # NoRun
          /\ audit' = [NoAudit EXCEPT !.pc = "manifest", !.of = CanonicalPath(n),
                                      !.read = files[CanonicalPath(n)]]
    BY <1>2 DEF AuditRead
  <2>2. /\ audit'.pc = "manifest" /\ audit'.of \in Paths
        /\ audit'.read.by \in Runs /\ Job[audit'.read.by].config \in promised
    BY <2>1, StampsFact DEF NoAudit
  <2> QED BY <1>2, <2>2 DEF AuditRead
<1>3. CASE AuditManifest
  BY <1>3 DEF AuditManifest, Audits
<1>4. CASE AuditRegistry
  <2>1. Job[audit.read.by].config \in kept
    BY <1>4 DEF AuditRegistry, RegisteredInv
  <2>2. audit' = [audit EXCEPT !.pc = "hash"]
    BY <1>4, <2>1 DEF AuditRegistry
  <2> QED BY <1>4, <2>2 DEF AuditRegistry, Audits
<1>5. CASE AuditHash
  BY <1>5 DEF AuditHash, Audits
<1>6. CASE AuditEnds
  BY <1>6 DEF AuditEnds, NoAudit
<1>7. CASE UNCHANGED storeVars
  BY <1>7 DEF storeVars
<1> QED
  BY <1>1, <1>2, <1>3, <1>4, <1>5, <1>6, <1>7 DEF StoreNext, Audit

\* StoreInv holds throughout.
THEOREM StoreCorrect == StoreSpec => []StoreInv
<1>1. StoreInv /\ [StoreNext]_storeVars => StoreInv'
  BY TypeStep, RegisteredStep, WrittenStep, AuditStep DEF StoreInv
<1> QED BY InitInv, <1>1, PTL DEF StoreSpec

\* No stored digest names a configuration the registry does not resolve, and no validation
\* reports that one did.
THEOREM StampsAlwaysResolve == StoreSpec => []StampsResolve
<1>1. StoreInv => StampsResolve
  BY StampsFact DEF StoreInv, AuditInv, StampsResolve
<1> QED BY <1>1, StoreCorrect, PTL

\* Which of its files a run has opened is never undone, and a text on top of another one's
\* has two runs to account for it.
LEMMA DamageStep == StoreInv /\ DamageIsExplained /\ [StoreNext]_storeVars => DamageIsExplained'
<1> SUFFICES ASSUME StoreInv, DamageIsExplained, [StoreNext]_storeVars
             PROVE  DamageIsExplained'
  OBVIOUS
<1> USE DEF StoreInv, StoreTypeOK, At, Goto
<1> DEFINE Shared(p) == \E r, s \in Runs : r # s /\ Opened(r, p) /\ Opened(s, p)
           Awaited(p) == \E r \in Runs : pc[r] = "write" /\ Target(r) = p
           Left(p) == \A r \in Runs : pc[r] = "done" =>
                          \A i \in 1 .. Len(Targets(r)) : Targets(r)[i] # p
<1>0. /\ \A p \in Paths : /\ files[p].state = "empty" => Awaited(p)
                          /\ files[p].state = "mixed" => Shared(p)
                          /\ files[p] = Missing => Left(p)
      /\ (\A p \in Paths : /\ files'[p].state = "empty" => Awaited(p)'
                           /\ files'[p].state = "mixed" => Shared(p)'
                           /\ files'[p] = Missing => Left(p)') => DamageIsExplained'
  BY DEF DamageIsExplained
<1>1. ASSUME NEW r \in Runs, Open(r) PROVE DamageIsExplained'
  <2>1. /\ pc[r] = "open" /\ pc' = [pc EXCEPT ![r] = "write"] /\ written' = written
        /\ files' = [files EXCEPT ![Target(r)] = Empty]
    BY <1>1 DEF Open
  <2>2. \A q \in Runs, p \in Paths : Opened(q, p) => Opened(q, p)'
    BY <2>1 DEF Opened
  <2>3. \A q \in Runs : Target(q)' = Target(q)
    BY <2>1 DEF Target
  <2>4. ASSUME NEW p \in Paths, files'[p].state = "empty" PROVE Awaited(p)'
    <3>1. CASE p = Target(r) BY <2>1, <2>3, <3>1
    <3>2. CASE p # Target(r)
      <4>1. PICK q \in Runs : pc[q] = "write" /\ Target(q) = p BY <1>0, <2>1, <2>4, <3>2
      <4> QED BY <2>1, <2>3, <4>1
    <3> QED BY <3>1, <3>2
  <2>5. ASSUME NEW p \in Paths, files'[p].state = "mixed" PROVE Shared(p)'
    <3>1. files'[p] = files[p] BY <2>1, <2>5 DEF Empty
    <3> QED BY <1>0, <2>2, <2>5, <3>1
  <2>6. ASSUME NEW p \in Paths, files'[p] = Missing PROVE Left(p)'
    <3>1. files[p] = Missing BY <2>1, <2>6 DEF Empty, Missing
    <3> QED BY <1>0, <2>1, <3>1
  <2> HIDE DEF Shared, Awaited, Left
  <2> QED BY <1>0, <2>4, <2>5, <2>6
<1>2. ASSUME NEW r \in Runs, Write(r) PROVE DamageIsExplained'
  <2>1. pc[r] = "write" /\ written[r] < Len(Targets(r)) /\ written[r] \in Nat
    BY <1>2 DEF Write, WrittenInv
  <2>2. Target(r) \in Paths /\ Target(r) = Targets(r)[written[r] + 1]
        /\ written[r] + 1 \in 1 .. Len(Targets(r))
    BY <2>1, TargetFacts DEF Target
  <2>3. PICK file \in {Whole(r), Mixed(r)} :
           /\ file = Mixed(r) => files[Target(r)].by \notin {NoRun, r}
           /\ files' = [files EXCEPT ![Target(r)] = file]
           /\ written' = [written EXCEPT ![r] = written[r] + 1]
           /\ pc' = [pc EXCEPT ![r] = IF written[r] + 1 < Len(Targets(r)) THEN "open"
                                       ELSE "done"]
    BY <1>2 DEF Write
  <2>4. \A q \in Runs, p \in Paths : Opened(q, p) => Opened(q, p)'
    <3> SUFFICES ASSUME NEW q \in Runs, NEW p \in Paths, Opened(q, p) PROVE Opened(q, p)'
      OBVIOUS
    <3>1. CASE q = r BY <2>1, <2>3, <3>1 DEF Opened
    <3>2. CASE q # r BY <2>3, <3>2 DEF Opened
    <3> QED BY <3>1, <3>2
  <2>5. Opened(r, Target(r)) BY <2>1, <2>2 DEF Opened
  <2>6. ASSUME NEW p \in Paths, files'[p].state = "empty" PROVE Awaited(p)'
    <3>1. p # Target(r) /\ files'[p] = files[p]
      BY <2>2, <2>3, <2>6 DEF Whole, Mixed
    <3>2. PICK q \in Runs : pc[q] = "write" /\ Target(q) = p BY <1>0, <2>6, <3>1
    <3>3. q # r BY <3>1, <3>2
    <3>4. pc'[q] = "write" /\ Target(q)' = p BY <2>3, <3>2, <3>3 DEF Target
    <3> QED BY <3>4
  <2>7. ASSUME NEW p \in Paths, files'[p].state = "mixed" PROVE Shared(p)'
    <3>1. CASE files'[p] = files[p] BY <1>0, <2>4, <2>7, <3>1
    <3>2. CASE files'[p] # files[p]
      <4>1. p = Target(r) /\ file = Mixed(r) BY <2>3, <2>7, <3>2 DEF Whole, Mixed
      <4>2. PICK s \in Runs \ {r} : files[p].by = s
        BY <2>3, <4>1 DEF Files, Missing, Empty
      <4>3. PICK i \in 1 .. written[s] : Targets(s)[i] = p
        BY <4>2, NobodyAssumption DEF WrittenInv
      <4>4. written[s] \in 0 .. 2 /\ written[s] <= Len(Targets(s)) /\ Len(Targets(s)) \in {1, 2}
        BY <4>2, TargetFacts DEF WrittenInv
      <4>5. i \in 1 .. Len(Targets(s)) /\ i <= written[s]
        BY <4>3, <4>4
      <4>6. Opened(s, p) BY <4>2, <4>3, <4>5 DEF Opened
      <4>7. Opened(s, p)' BY <2>4, <4>2, <4>6
      <4>8. Opened(r, p)' BY <2>4, <2>5, <4>1
      <4> QED BY <4>2, <4>7, <4>8
    <3> QED BY <3>1, <3>2
  <2>8. ASSUME NEW p \in Paths, files'[p] = Missing PROVE Left(p)'
    <3>1. p # Target(r) /\ files[p] = Missing
      BY <2>2, <2>3, <2>8, NobodyAssumption DEF Whole, Mixed, Missing
    <3>2. \A i \in 1 .. written[r] : Targets(r)[i] # p BY <3>1 DEF WrittenInv
    <3>3. ASSUME written[r] + 1 = Len(Targets(r)), NEW i \in 1 .. Len(Targets(r))
          PROVE  Targets(r)[i] # p
      <4>1. i \in 1 .. written[r] \/ i = written[r] + 1 BY <2>1, <3>3
      <4> QED BY <2>2, <3>1, <3>2, <4>1
    <3>4. Len(Targets(r)) \in {1, 2} BY TargetFacts
    <3>5. pc'[r] = "done" => written[r] + 1 = Len(Targets(r)) BY <2>1, <2>3, <3>4
    <3>6. \A q \in Runs : q # r => pc'[q] = pc[q] BY <2>3
    <3> QED BY <1>0, <3>1, <3>3, <3>5, <3>6
  <2> HIDE DEF Shared, Awaited, Left
  <2> QED BY <1>0, <2>6, <2>7, <2>8
<1>3. ASSUME NEW r \in Runs, EnsureManifest(r) \/ Register(r) \/ RegisterReturns(r) \/ Extract(r)
      PROVE DamageIsExplained'
  <2>1. UNCHANGED <<files, written>> /\ pc[r] \notin {"open", "write", "done"}
    BY <1>3 DEF EnsureManifest, Register, RegisterReturns, Extract
  <2>2. \A q \in Runs : pc'[q] = pc[q] \/ (q = r /\ pc'[q] \notin {"write", "done"})
    BY <1>3 DEF EnsureManifest, Register, RegisterReturns, Extract, AfterRegister
  <2>3. \A q \in Runs, p \in Paths : Opened(q, p) => Opened(q, p)'
    BY <2>1, <2>2 DEF Opened
  <2>4. \A q \in Runs : Target(q)' = Target(q) BY <2>1 DEF Target
  <2>5. ASSUME NEW p \in Paths, files'[p].state = "empty" PROVE Awaited(p)'
    <3>1. PICK q \in Runs : pc[q] = "write" /\ Target(q) = p BY <1>0, <2>1, <2>5
    <3> QED BY <2>1, <2>2, <2>4, <3>1
  <2>6. ASSUME NEW p \in Paths PROVE /\ files'[p].state = "mixed" => Shared(p)'
                                     /\ files'[p] = Missing => Left(p)'
    BY <1>0, <2>1, <2>2, <2>3
  <2> HIDE DEF Shared, Awaited, Left
  <2> QED BY <1>0, <2>5, <2>6
<1>4. ASSUME Audit \/ UNCHANGED storeVars \/ \E r \in Runs : Stop(r) PROVE DamageIsExplained'
  <2>1. UNCHANGED <<files, written, pc>>
    BY <1>4 DEF Audit, AuditRead, AuditManifest, AuditRegistry, AuditHash, AuditEnds, storeVars,
                Stop
  <2>2. \A q \in Runs, p \in Paths : (Opened(q, p)' <=> Opened(q, p)) /\ Target(q)' = Target(q)
    BY <2>1 DEF Opened, Target
  <2>3. \A p \in Paths : /\ Shared(p)' <=> Shared(p)
                         /\ Awaited(p)' <=> Awaited(p)
                         /\ Left(p)' <=> Left(p)
    BY <2>1, <2>2
  <2> HIDE DEF Shared, Awaited, Left
  <2> QED BY <1>0, <2>1, <2>3
<1> QED BY <1>1, <1>2, <1>3, <1>4 DEF StoreNext, RunStep

\* Every torn, mixed or missing file has its explanation, for any runs, paths and crashes.
THEOREM DamageIsAlwaysExplained == StoreSpec => []DamageIsExplained
<1>1. StoreInit => DamageIsExplained
  BY DEF StoreInit, DamageIsExplained, Missing
<1>2. StoreInv /\ DamageIsExplained /\ [StoreNext]_storeVars => DamageIsExplained'
  BY DamageStep
<1> QED BY <1>1, <1>2, StoreCorrect, PTL DEF StoreSpec

\* A canonical digest is the second copy of a production run's variant.
THEOREM CanonicalsAreProduction == StoreSpec => []CanonicalIsProduction
<1>1. StoreInv => CanonicalIsProduction
  <2> SUFFICES ASSUME StoreInv, NEW n \in Names, NEW r \in Runs,
                      CanonicalPath(n) \in Paths, files[CanonicalPath(n)].by = r
               PROVE  IsProduction(r) /\ files[VariantPath(r)] # Missing
    BY DEF CanonicalIsProduction, IsProduction, IsActive
  <2>1. PICK i \in 1 .. written[r] : Targets(r)[i] = CanonicalPath(n)
    BY NobodyAssumption DEF StoreInv, WrittenInv
  <2>2. written[r] \in Nat /\ written[r] <= Len(Targets(r))
    BY DEF StoreInv, StoreTypeOK, WrittenInv
  <2>3. i \in 1 .. Len(Targets(r))
    BY <2>1, <2>2, TargetFacts
  <2>4. IsProduction(r) /\ i = 2 /\ Targets(r)[1] = VariantPath(r)
    BY <2>1, <2>3, CanonicalTarget
  <2>5. 1 \in 1 .. written[r]
    BY <2>1, <2>2, <2>4
  <2> QED BY <2>4, <2>5 DEF StoreInv, WrittenInv
<1> QED BY <1>1, StoreCorrect, PTL

\* The segments of a variant's path tell the combinations apart.
SegmentsAreDistinct ==
    /\ \A x, y \in Models \cup Labels : Safe[x] = Safe[y] => x = y
    /\ \A l \in Labels : Safe[l] # NoLabel
    /\ \A p, q \in Prompts : Sha8[p] = Sha8[q] => p = q

LEMMA VariantTarget ==
    ASSUME NEW r \in Runs, NEW i \in 1 .. Len(Targets(r)), Targets(r)[i][1] = "variants"
    PROVE  Targets(r)[i] = VariantPath(r)
<1>1. i \in {1, 2} BY TargetFacts
<1> QED BY <1>1 DEF Targets, OutputPath, CanonicalPath

LEMMA SamePath ==
    ASSUME SegmentsAreDistinct, NEW r \in Runs, NEW s \in Runs, VariantPath(r) = VariantPath(s)
    PROVE  Combination(r) = Combination(s)
<1>1. Job[r] \in Jobs /\ Job[s] \in Jobs BY JobAssumption
<1>2. /\ DeVersion[Job[r].name] = DeVersion[Job[s].name]
      /\ Safe[Job[r].model] = Safe[Job[s].model]
      /\ Sha8[Job[r].prompts] = Sha8[Job[s].prompts]
      /\ (IF Job[r].label = NoLabel THEN NoLabel ELSE Safe[Job[r].label])
             = (IF Job[s].label = NoLabel THEN NoLabel ELSE Safe[Job[s].label])
    BY DEF VariantPath
<1>3. Job[r].model = Job[s].model /\ Job[r].prompts = Job[s].prompts
    BY <1>1, <1>2 DEF Jobs, SegmentsAreDistinct
<1>4. Job[r].label = Job[s].label
    BY <1>1, <1>2 DEF Jobs, SegmentsAreDistinct
<1> QED BY <1>2, <1>3, <1>4 DEF Combination

\* A variant changes hands only between runs of one combination, if the segments of its
\* path tell them apart.
THEOREM VariantsAreKept == ASSUME SegmentsAreDistinct PROVE StoreSpec => OnlyRedoOverwrites
<1>1. ASSUME StoreInv, StoreInv', NEW p \in Paths, NEW r \in Runs, NEW s \in Runs,
             p[1] = "variants", files[p].by = r, files'[p].by = s
      PROVE  Combination(r) = Combination(s)
    <2>1. PICK i \in 1 .. written[r] : Targets(r)[i] = p
        BY <1>1, NobodyAssumption DEF StoreInv, WrittenInv
    <2>2. PICK j \in 1 .. written'[s] : Targets(s)[j] = p
        BY <1>1, NobodyAssumption DEF StoreInv, WrittenInv
    <2>3. /\ written[r] \in 0 .. 2 /\ written[r] <= Len(Targets(r)) /\ Len(Targets(r)) \in {1, 2}
          /\ written'[s] \in 0 .. 2 /\ written'[s] <= Len(Targets(s)) /\ Len(Targets(s)) \in {1, 2}
        BY <1>1, TargetFacts DEF StoreInv, StoreTypeOK, WrittenInv
    <2>4. i \in 1 .. Len(Targets(r)) /\ j \in 1 .. Len(Targets(s))
        BY <2>1, <2>2, <2>3
    <2>5. p = VariantPath(r) /\ p = VariantPath(s)
        BY <1>1, <2>1, <2>2, <2>4, VariantTarget
    <2> QED BY <2>5, SamePath
<1>2. StoreInv /\ StoreInv'
        => [\A p \in Paths : \A r, s \in Runs :
               (p[1] = "variants" /\ files[p].by = r /\ files'[p].by = s)
                   => Combination(r) = Combination(s)]_storeVars
    BY <1>1
<1> QED BY <1>2, StoreCorrect, PTL DEF OnlyRedoOverwrites
================================================================================
