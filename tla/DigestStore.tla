------------------------------ MODULE DigestStore ------------------------------
(***************************************************************************)
(* workspace/digester/digest_store.py with the two callers of it: the tail *)
(* of cli.py:_do_extract, which stores what a run extracted, and           *)
(* authority.py, which synchronises the authority files before a run and   *)
(* validates a canonical digest afterwards.                                *)
(*                                                                         *)
(* Runs are processes that share one digests root.  A digest file is       *)
(* written with Path.write_text: the file is truncated when it is opened   *)
(* and holds the text only after the write, so a run that stops in between *)
(* leaves it empty and two runs that have it open together may mix their   *)
(* texts.  register() is the abstract one of RetainedConfigs, which        *)
(* ConfigRegistry is proved to implement: the configuration enters the     *)
(* registry (Keep), and later the call returns (Promise).                  *)
(***************************************************************************)
EXTENDS RetainedConfigs, Naturals, Sequences

CONSTANTS
    Runs,       \* the extraction runs
    Job,        \* Job[r]: what run r was started with and what it will store
    Names,      \* friendly names of records (path.stem), ingest revision included
    Models,     \* model ids
    Prompts,    \* prompt provenance: the prompts used, with their versions
    Labels,     \* run labels
    NoLabel,    \* no run label was given
    NoPrompts,  \* no prompt provenance (None)
    NoRun       \* no run

CONSTANTS
    DeVersion,  \* DeVersion[n]: the name without its ".vN" ingest revision
    Safe,       \* Safe[x]: the filename segment of a model or a label
    Sha8,       \* Sha8[p]: the filename segment of a prompt set
    Opencode,   \* the models served by opencode, which enforces no output schema
    Active,     \* the prompt sets in which no pass is an override
    Production  \* the configurations of PRODUCTION_MODELS, in order

Jobs == [name : Names, model : Models, prompts : Prompts, label : Labels \cup {NoLabel},
         variantOnly : BOOLEAN, config : Configs, to : {"root", "output"}]

ASSUME JobAssumption == Job \in [Runs -> Jobs]
ASSUME ProductionAssumption == Production \in Seq(Configs)
ASSUME ActiveAssumption == Active \subseteq Prompts /\ NoPrompts \notin Active
ASSUME NobodyAssumption == NoRun \notin Runs

VARIABLES
    manifest,   \* digest-generation.json: "absent", "current" or "foreign"
    files,      \* files[p]: the digest file at path p
    pc,         \* where each run stands
    registered, \* how many register() calls of the run have returned
    written,    \* how many of its files the run has written
    stopped,    \* the runs that raised or died where they stood
    audit       \* the validation in progress

storeVars == <<kept, promised, manifest, files, pc, registered, written, stopped, audit>>

--------------------------------------------------------------------------------
(* Where a digest goes. *)

\* MUTANT: two models share a variant file.
VariantPathOfPrompts(r) ==
    <<"variants", DeVersion[Job[r].name], Sha8[Job[r].prompts],
      IF Job[r].label = NoLabel THEN NoLabel ELSE Safe[Job[r].label]>>

VariantPath(r) ==
    <<"variants", DeVersion[Job[r].name], Safe[Job[r].model], Sha8[Job[r].prompts],
      IF Job[r].label = NoLabel THEN NoLabel ELSE Safe[Job[r].label]>>

CanonicalPath(n) == <<"canonical", DeVersion[n]>>

OutputPath(r) == <<"output", Job[r].name>>

\* is_active_prompt: there is a provenance and no pass of it is an override.
IsActive(prompts) == prompts \in Active

\* MUTANT: whether the model is an opencode one is left to the caller.
IsProductionIfAsked(r) ==
    /\ ~Job[r].variantOnly
    /\ Job[r].label = NoLabel
    /\ IsActive(Job[r].prompts)

IsProduction(r) ==
    /\ ~Job[r].variantOnly
    /\ Job[r].model \notin Opencode
    /\ Job[r].label = NoLabel
    /\ IsActive(Job[r].prompts)

\* The files a run writes, in order: its variant and, in production, the canonical.
Targets(r) ==
    IF Job[r].to = "output" THEN <<OutputPath(r)>>
    ELSE IF IsProduction(r) THEN <<VariantPath(r), CanonicalPath(Job[r].name)>>
    ELSE <<VariantPath(r)>>

Paths == UNION {{OutputPath(r), VariantPath(r), CanonicalPath(Job[r].name)} : r \in Runs}

\* The run_kind stamped in the file.  The result of extract_two_pass has no
\* "prompts" key, so the -o branch asks is_active_prompt about None.
Kind(r) ==
    IF (IF Job[r].to = "root" THEN IsProduction(r) ELSE IsActive(NoPrompts))
    THEN "production" ELSE "comparison"

\* A file: missing; truncated; the digest of one run; or two texts on top of each
\* other, of which the run that wrote last supplied the beginning.
Missing  == [state |-> "missing", by |-> NoRun]
Empty    == [state |-> "empty", by |-> NoRun]
Whole(r) == [state |-> "whole", by |-> r]
Mixed(r) == [state |-> "mixed", by |-> r]
Files == {Missing, Empty} \cup [state : {"whole", "mixed"}, by : Runs]

--------------------------------------------------------------------------------
Pcs == {"manifest", "register", "returning", "extract", "open", "write", "done"}

NoAudit == [pc |-> "idle", of |-> <<>>, read |-> Missing, hashed |-> Missing]

Audits == [pc : {"idle", "manifest", "registry", "hash", "unresolved", "valid"},
           of : Paths \cup {<<>>}, read : Files, hashed : Files]

StoreTypeOK ==
    /\ kept \in SUBSET Configs
    /\ promised \in SUBSET Configs
    /\ manifest \in {"absent", "current", "foreign"}
    /\ files \in [Paths -> Files]
    /\ pc \in [Runs -> Pcs]
    /\ registered \in [Runs -> 0 .. Len(Production) + 1]
    /\ written \in [Runs -> 0 .. 2]
    /\ stopped \in SUBSET Runs
    /\ audit \in Audits

\* The registry may already hold anything, the manifest may be there or be refused
\* (unreadable, or of another generation), and the root holds no digest of these runs.
\* Some of them are perhaps never started.
StoreInit ==
    /\ RetainInit
    /\ manifest \in {"absent", "current", "foreign"}
    /\ files = [p \in Paths |-> Missing]
    /\ pc = [r \in Runs |-> IF Job[r].to = "root" THEN "manifest" ELSE "extract"]
    /\ registered = [r \in Runs |-> 0]
    /\ written = [r \in Runs |-> 0]
    /\ stopped \in SUBSET Runs
    /\ audit = NoAudit

At(r, label) == pc[r] = label /\ r \notin stopped
Goto(r, label) == pc' = [pc EXCEPT ![r] = label]

\* The configuration of the run's next register() call: the production ones
\* (synchronise), then the one its digest is stamped with.
Registering(r) ==
    IF registered[r] < Len(Production) THEN Production[registered[r] + 1]
    ELSE Job[r].config

\* What follows a register() call.
AfterRegister(r, n) ==
    IF n = Len(Production) + 1 THEN "open"
    ELSE IF n = Len(Production) /\ Job[r].to = "root" THEN "extract"
    ELSE "register"

--------------------------------------------------------------------------------
(* A run. *)

\* MUTANT: a manifest that is there already is left for whoever made it to finish.
EnsureManifestOnce(r) ==
    /\ At(r, "manifest")
    /\ manifest = "absent"
    /\ manifest' = "current"
    /\ Goto(r, AfterRegister(r, 0))
    /\ UNCHANGED <<kept, promised, files, registered, written, stopped, audit>>

\* ensure_manifest, which GenerationManifest models step by step: a refused
\* manifest stops the run.
EnsureManifest(r) ==
    /\ At(r, "manifest")
    /\ manifest # "foreign"
    /\ manifest' = "current"
    /\ Goto(r, AfterRegister(r, 0))
    /\ UNCHANGED <<kept, promised, files, registered, written, stopped, audit>>

Register(r) ==
    /\ At(r, "register")
    /\ Keep(Registering(r))
    /\ Goto(r, "returning")
    /\ UNCHANGED <<manifest, files, registered, written, stopped, audit>>

RegisterReturns(r) ==
    /\ At(r, "returning")
    /\ Promise(Registering(r))
    /\ registered' = [registered EXCEPT ![r] = @ + 1]
    /\ Goto(r, AfterRegister(r, registered[r] + 1))
    /\ UNCHANGED <<manifest, files, written, stopped, audit>>

\* MUTANT: the configuration is registered once the digest is written, at the end.
ExtractUnregistered(r) ==
    /\ At(r, "extract")
    /\ Goto(r, "open")
    /\ UNCHANGED <<kept, promised, manifest, files, registered, written, stopped, audit>>

\* extract_two_pass and the building of the digest text.  With -o the authority is
\* synchronised only afterwards.
Extract(r) ==
    /\ At(r, "extract")
    /\ Goto(r, IF Job[r].to = "root" THEN "register" ELSE "manifest")
    /\ UNCHANGED <<kept, promised, manifest, files, registered, written, stopped, audit>>

Target(r) == Targets(r)[written[r] + 1]

Open(r) ==
    /\ At(r, "open")
    /\ files' = [files EXCEPT ![Target(r)] = Empty]
    /\ Goto(r, "write")
    /\ UNCHANGED <<kept, promised, manifest, registered, written, stopped, audit>>

\* MUTANT: a failed write is noticed by nobody.
WriteUnchecked(r) ==
    /\ At(r, "write")
    /\ \E file \in {Whole(r), Empty} : files' = [files EXCEPT ![Target(r)] = file]
    /\ written' = [written EXCEPT ![r] = @ + 1]
    /\ Goto(r, IF written[r] + 1 < Len(Targets(r)) THEN "open" ELSE "done")
    /\ UNCHANGED <<kept, promised, manifest, registered, stopped, audit>>

\* The text is written from the start of the file.  If another run wrote a longer
\* text since the file was truncated, the end of that one shows behind it.
Write(r) ==
    /\ At(r, "write")
    /\ \E file \in {Whole(r), Mixed(r)} :
           /\ file = Mixed(r) => files[Target(r)].by \notin {NoRun, r}
           /\ files' = [files EXCEPT ![Target(r)] = file]
    /\ written' = [written EXCEPT ![r] = @ + 1]
    /\ Goto(r, IF written[r] + 1 < Len(Targets(r)) THEN "open" ELSE "done")
    /\ UNCHANGED <<kept, promised, manifest, registered, stopped, audit>>

\* Any step may raise (a refused manifest or registry, a failed extraction, a full
\* disk) and the process may be killed.  Nothing is undone.
Stop(r) ==
    /\ r \notin stopped
    /\ pc[r] # "done"
    /\ stopped' = stopped \cup {r}
    /\ UNCHANGED <<kept, promised, manifest, files, pc, registered, written, audit>>

RunStep(r) ==
    \/ EnsureManifest(r) \/ Register(r) \/ RegisterReturns(r)
    \/ Extract(r) \/ Open(r) \/ Write(r)

--------------------------------------------------------------------------------
(* validate_output, on one canonical digest at a time.  A refusal that depends   *)
(* only on the record (a different record, a stale pre-digest) ends it anywhere. *)

\* The digest is read and parsed.
AuditRead ==
    /\ audit.pc = "idle"
    /\ \E n \in Names :
           /\ CanonicalPath(n) \in Paths
           /\ files[CanonicalPath(n)].by # NoRun
           /\ audit' = [NoAudit EXCEPT !.pc = "manifest", !.of = CanonicalPath(n),
                                       !.read = files[CanonicalPath(n)]]
    /\ UNCHANGED <<kept, promised, manifest, files, pc, registered, written, stopped>>

AuditManifest ==
    /\ audit.pc = "manifest"
    /\ manifest = "current"
    /\ audit' = [audit EXCEPT !.pc = "registry"]
    /\ UNCHANGED <<kept, promised, manifest, files, pc, registered, written, stopped>>

\* read_registry, and the look-up of the configuration the digest names.
AuditRegistry ==
    /\ audit.pc = "registry"
    /\ audit' = [audit EXCEPT
           !.pc = IF Job[audit.read.by].config \in kept THEN "hash" ELSE "unresolved"]
    /\ UNCHANGED <<kept, promised, manifest, files, pc, registered, written, stopped>>

\* The record matches; the digest file is read again for the hash that is returned.
AuditHash ==
    /\ audit.pc = "hash"
    /\ audit' = [audit EXCEPT !.pc = "valid", !.hashed = files[audit.of]]
    /\ UNCHANGED <<kept, promised, manifest, files, pc, registered, written, stopped>>

\* A verdict is delivered, or the record makes it a refusal.
AuditEnds ==
    /\ audit.pc # "idle"
    /\ audit' = NoAudit
    /\ UNCHANGED <<kept, promised, manifest, files, pc, registered, written, stopped>>

Audit == AuditRead \/ AuditManifest \/ AuditRegistry \/ AuditHash \/ AuditEnds

--------------------------------------------------------------------------------
StoreNext == Audit \/ \E r \in Runs : RunStep(r) \/ Stop(r)

StoreSpec == StoreInit /\ [][StoreNext]_storeVars

\* A run that is alive is scheduled; none is promised to stay alive.
FairStoreSpec == StoreSpec /\ \A r \in Runs : WF_storeVars(RunStep(r))

--------------------------------------------------------------------------------
(* Properties. *)

\* A run that reached its files has registered the configuration it stamps in them,
\* and what was registered is still there.
RegisteredInv ==
    /\ promised \subseteq kept
    /\ \A r \in Runs : pc[r] = "returning" => Registering(r) \in kept
    /\ \A r \in Runs : registered[r] = Len(Production) + 1 => Job[r].config \in promised
    /\ \A r \in Runs : pc[r] \in {"open", "write", "done"}
                           => registered[r] = Len(Production) + 1
    /\ \A r \in Runs : pc[r] \in {"manifest", "extract", "register", "returning"}
                           => registered[r] < Len(Production) + 1

\* A run has written its files in order, and every file says who wrote it last.
WrittenInv ==
    /\ \A r \in Runs :
           /\ written[r] <= Len(Targets(r))
           /\ pc[r] \in {"open", "write"} => written[r] < Len(Targets(r))
           /\ pc[r] = "done" => written[r] = Len(Targets(r))
           /\ \A i \in 1 .. written[r] : files[Targets(r)[i]] # Missing
           /\ pc[r] \notin {"open", "write", "done"} => written[r] = 0
    /\ \A p \in Paths : files[p].by # NoRun =>
           \E i \in 1 .. written[files[p].by] : Targets(files[p].by)[i] = p

\* validate_output reads the digest before the registry, so a run that stores a
\* digest in between never makes it report an unresolved configuration.
AuditsResolve == audit.pc # "unresolved"

\* What an audit has read was written by a run.
AuditInv ==
    /\ audit.pc # "idle" =>
           /\ audit.of \in Paths
           /\ audit.read.by \in Runs
           /\ Job[audit.read.by].config \in promised
    /\ AuditsResolve

StoreInv == StoreTypeOK /\ RegisteredInv /\ WrittenInv /\ AuditInv

\* Every digest on disk names a configuration the registry resolves, through crashes
\* and concurrent runs: write_digest is called only after register() returned; and a
\* validation never reports a digest that a run stored meanwhile as unresolved.
StampsResolve ==
    /\ \A p \in Paths : files[p].by # NoRun => Job[files[p].by].config \in promised \cap kept
    /\ AuditsResolve

\* A canonical digest comes from a production run under the registered prompts and a
\* schema-enforcing model, and that run stored its variant before: what reaches the
\* graph is never the only copy of an experiment.
CanonicalIsProduction ==
    \A n \in Names, r \in Runs :
        CanonicalPath(n) \in Paths /\ files[CanonicalPath(n)].by = r =>
            /\ Job[r].model \notin Opencode
            /\ Job[r].label = NoLabel
            /\ ~Job[r].variantOnly
            /\ Job[r].prompts \in Active
            /\ files[VariantPath(r)] # Missing

\* A re-digest never overwrites a prior one of another model, prompt set or label:
\* a variant file changes hands only between runs of the same combination.
Combination(r) == <<DeVersion[Job[r].name], Job[r].model, Job[r].prompts, Job[r].label>>
OnlyRedoOverwrites ==
    [][\A p \in Paths : \A r, s \in Runs :
          (p[1] = "variants" /\ files[p].by = r /\ files'[p].by = s)
              => Combination(r) = Combination(s)]_storeVars

\* An empty, mixed or missing digest file is never silent damage: a run that is still
\* about to write it, or stopped before it did, accounts for an empty one, and two runs
\* of the same target for a mixed one; a run that ended well left its variant and, in
\* production, the canonical.
Opened(r, p) == \E i \in 1 .. Len(Targets(r)) :
    /\ Targets(r)[i] = p
    /\ i <= written[r] \/ (i = written[r] + 1 /\ pc[r] = "write")
DamageIsExplained ==
    \A p \in Paths :
        /\ files[p].state = "empty" =>
               \E r \in Runs : pc[r] = "write" /\ Target(r) = p
        /\ files[p].state = "mixed" =>
               \E r, s \in Runs : r # s /\ Opened(r, p) /\ Opened(s, p)
        /\ files[p] = Missing =>
               \A r \in Runs : pc[r] = "done" =>
                   \A i \in 1 .. Len(Targets(r)) : Targets(r)[i] # p

\* Every run ends: it stores its digest, is stopped, or is refused by the manifest.
EveryRunEnds ==
    \A r \in Runs :
        <>(pc[r] = "done" \/ r \in stopped \/ (pc[r] = "manifest" /\ manifest = "foreign"))

\* digest_store.write_digest: "Stamping the KIND of run makes the artefact answer that
\* on its own": a whole digest made with the active prompts, by a run nobody marked
\* as a comparison, says production, on the -o path too.
KindAnswersOnItsOwn ==
    \A p \in Paths : files[p].state = "whole" =>
        (Kind(files[p].by) = "production" <=> IsProduction(files[p].by))
================================================================================
