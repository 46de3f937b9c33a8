--------------------------------- MODULE Health --------------------------------
(***************************************************************************)
(* workspace/digester/health.py and its commands: health, which reports    *)
(* what a digest's exit code cannot tell, and stale-records, whose list    *)
(* batch-extract takes.  Records are edited, the code is replaced by a new *)
(* version and the batch writes digests while they read; all of them share *)
(* a cache.  A digest is what its text was materialised to, its generation *)
(* and its configuration.                                                  *)
(***************************************************************************)
EXTENDS Naturals, SequencesExt, FiniteSetsExt

CONSTANTS
    Records,        \* the records that have a digest
    Marked,         \* those whose text a version of the preparation changes
    Refused,        \* those whose input rights or live copy refuse a hosted model
    Reporters,      \* the runs of the health command
    Passes,         \* the kinds of result the health command caches, in its order
    MaxEdits,       \* bound: the edits of the records
    MaxVersion      \* bound: the versions of the code

ASSUME HealthAssumption ==
    /\ Marked \subseteq Records /\ Refused \subseteq Records /\ "stale" \notin Reporters
    /\ Passes \in Seq(ToSet(Passes)) /\ "pdsha" \in ToSet(Passes)
    /\ {MaxEdits, MaxVersion} \subseteq Nat

VARIABLES
    text,           \* the version of a record's text
    version,        \* that of the code: PREP_VERSION, CURRENT_EXTRACTION_GENERATION
    digests,        \* the canonical digest of each record
    manifest,       \* the generation in the manifest
    registry,       \* the configurations registered
    cache,          \* pre-digest-survival.json
    reports,        \* the runs of health, and "stale", the run of stale-records
    batch           \* the run of batch-extract

healthVars == <<text, version, digests, manifest, registry, cache, reports, batch>>

Stale == "stale"
Readers == Reporters \cup {Stale}

\* What a record's text is materialised to by a version of the code.
Materialise(r, t, v) == <<"pdsha", r, t, IF r \in Marked THEN v ELSE 0>>
Torn == [input |-> <<>>, version |-> 0]
Idle == [at |-> "idle", version |-> 0, loaded |-> [r \in Records |-> Torn], manifest |-> 0,
         registry |-> {}, passes |-> <<>>, cache |-> <<>>, seen |-> [r \in Records |-> 0],
         binding |-> [r \in Records |-> "none"]]
NoBatch == [at |-> "idle", version |-> 0, todo |-> {}, texts |-> [r \in Records |-> 0]]

HealthInit ==
    /\ text = [r \in Records |-> 0] /\ version = 0 /\ manifest = 0 /\ registry = {0}
    /\ digests = [r \in Records |-> [input |-> Materialise(r, 0, 0), version |-> 0]]
    /\ cache = <<>> /\ reports = [h \in Readers |-> Idle] /\ batch = NoBatch

\* A reviewer edits a record, and a new version of the code is installed.
Edit(r) ==
    /\ MapThenSumSet(LAMBDA q : text[q], Records) < MaxEdits /\ text' = [text EXCEPT ![r] = @ + 1]
    /\ UNCHANGED <<version, digests, manifest, registry, cache, reports, batch>>

Deploy ==
    /\ version < MaxVersion /\ version' = version + 1
    /\ UNCHANGED <<text, digests, manifest, registry, cache, reports, batch>>

--------------------------------------------------------------------------------
(* A report. *)

Advance(h, p) == reports' = [reports EXCEPT ![h] = p]
Untouched == UNCHANGED <<text, version, digests, manifest, registry, batch>>

\* load_digests, by a process of the code then installed.
Load(h) ==
    /\ reports[h].at = "idle" /\ (h = Stale => batch.at = "idle")
    /\ Advance(h, [reports[h] EXCEPT !.at = IF h = Stale THEN "caching" ELSE "manifest",
                                     !.version = version, !.loaded = digests,
                                     !.passes = IF h = Stale THEN <<"pdsha">> ELSE Passes])
    /\ Untouched /\ UNCHANGED cache

\* health_cmd reads the sidecars behind the digests.
ReadsManifest(h) ==
    /\ reports[h].at = "manifest"
    /\ Advance(h, [reports[h] EXCEPT !.at = "registry", !.manifest = manifest])
    /\ Untouched /\ UNCHANGED cache

ReadsRegistry(h) ==
    /\ reports[h].at = "registry"
    /\ Advance(h, [reports[h] EXCEPT !.at = "caching", !.registry = registry])
    /\ Untouched /\ UNCHANGED cache

\* Each pass loads the cache, examines the records, and saves what it then holds.
LoadCache(h) ==
    /\ reports[h].at = "caching"
    /\ Advance(h, [reports[h] EXCEPT !.at = "examining", !.cache = cache])
    /\ Untouched /\ UNCHANGED cache

\* MUTANT: the version of the preparation is not part of the key.
KeyOfText(pass, r, t, v) == <<pass, r, t>>

\* The digest of a record's bytes stands for the bytes.
Key(pass, r, t, v) == <<pass, r, t, v>>

Compute(pass, r, t, v) == IF pass = "pdsha" THEN Materialise(r, t, v) ELSE <<pass, r, t, v>>

Result(h, r) ==
    LET p == reports[h]
        key == Key(Head(p.passes), r, text[r], p.version)
    IN  IF key \in DOMAIN p.cache THEN p.cache[key]
        ELSE Compute(Head(p.passes), r, text[r], p.version)

\* pre_digest_input_freshness: the hashes first, the versions only if they differ.
Binding(h, r) ==
    LET d == reports[h].loaded[r]
    IN  IF d = Torn THEN "invalid"
        ELSE IF Result(h, r) = d.input THEN "current"
        ELSE IF d.version # reports[h].version THEN "prep_version" ELSE "record_changed"

KeyNow(h, r) == Key(Head(reports[h].passes), r, text[r], reports[h].version)

Examine(h) ==
    LET p == reports[h]
        Entries == {r \in Records : Head(p.passes) # "pdsha" \/ p.loaded[r] # Torn}
        Found == {KeyNow(h, r) : r \in Entries}
    IN  /\ p.at = "examining"
        /\ Advance(h, [p EXCEPT
                !.at = "saving",
                !.cache = [key \in Found \cup DOMAIN p.cache |->
                              IF key \in Found
                              THEN Result(h, CHOOSE r \in Entries : key = KeyNow(h, r))
                              ELSE p.cache[key]],
                !.seen = IF Head(p.passes) = "pdsha" THEN text ELSE @,
                !.binding = IF Head(p.passes) = "pdsha"
                            THEN [r \in Records |-> Binding(h, r)] ELSE @])
        /\ Untouched /\ UNCHANGED cache

\* The last one to save wins: the file is replaced as a whole.
SaveCache(h) ==
    /\ reports[h].at = "saving" /\ cache' = reports[h].cache
    /\ Advance(h, [reports[h] EXCEPT !.passes = Tail(@), !.cache = <<>>,
                       !.at = IF Len(reports[h].passes) > 1 THEN "caching" ELSE "told"])
    /\ Untouched

\* extraction_generation_freshness and extraction_config_freshness.
Generation(p, r) ==
    IF p.loaded[r] = Torn THEN "invalid"
    ELSE CASE p.loaded[r].version = p.manifest -> "current"
           [] p.loaded[r].version < p.manifest -> "generation_behind"
           [] p.loaded[r].version > p.manifest -> "generation_ahead"

Config(p, r) ==
    IF p.loaded[r] = Torn THEN "invalid"
    ELSE IF p.loaded[r].version \in p.registry THEN "resolvable" ELSE "unregistered"

\* The exit code of health: any row that is not as it should be is a finding.
Findings(p) ==
    {r \in Records : Generation(p, r) # "current" \/ Config(p, r) # "resolvable"
                         \/ p.binding[r] # "current"}

--------------------------------------------------------------------------------
(* digester stale-records | xargs digester batch-extract *)

\* MUTANT: a digest of an older preparation is not listed.
ListedChanged == {r \in Records : reports[Stale].binding[r] = "record_changed"}

\* stale_record_paths
Listed == {r \in Records : reports[Stale].binding[r] \in {"record_changed", "prep_version"}}

\* batch_extract_cmd: every record is parsed and authorised before the first is extracted;
\* one that is refused ends the command.
BeginBatch ==
    /\ reports[Stale].at = "told" /\ batch.at = "idle"
    /\ reports' = [reports EXCEPT ![Stale] = Idle]
    /\ batch' = IF Listed = {} \/ Listed \cap Refused # {} THEN NoBatch
                ELSE [at |-> "call", version |-> version, todo |-> Listed, texts |-> text]
    /\ UNCHANGED <<text, version, digests, manifest, registry, cache>>

Other == UNCHANGED <<text, version, cache, reports>>
Now == CHOOSE r \in batch.todo : TRUE

\* assert_authority, at the call: the record still has the bytes it was parsed from.
Call ==
    /\ batch.at = "call"
    /\ batch' = IF text[Now] = batch.texts[Now] THEN [batch EXCEPT !.at = "sync"] ELSE NoBatch
    /\ UNCHANGED <<digests, manifest, registry>> /\ Other

\* synchronise and write_digest, which truncates the digest first.
Synchronise ==
    /\ batch.at = "sync" /\ batch' = [batch EXCEPT !.at = "open"]
    /\ manifest' = Max({manifest, batch.version}) /\ registry' = registry \cup {batch.version}
    /\ UNCHANGED digests /\ Other

Truncate ==
    /\ batch.at = "open" /\ batch' = [batch EXCEPT !.at = "write"]
    /\ digests' = [digests EXCEPT ![Now] = Torn] /\ UNCHANGED <<manifest, registry>> /\ Other

Fill ==
    /\ batch.at = "write"
    /\ digests' = [digests EXCEPT ![Now] = [version |-> batch.version,
                       input |-> Materialise(Now, batch.texts[Now], batch.version)]]
    /\ batch' = IF Cardinality(batch.todo) = 1 THEN NoBatch
                ELSE [batch EXCEPT !.at = "call", !.todo = @ \ {Now}]
    /\ UNCHANGED <<manifest, registry>> /\ Other

KilledBatch ==
    /\ batch.at # "idle" /\ batch' = NoBatch /\ UNCHANGED <<digests, manifest, registry>> /\ Other

BatchStep == BeginBatch \/ Call \/ Synchronise \/ Truncate \/ Fill

ReportStep(h) ==
    \/ Load(h) \/ ReadsManifest(h) \/ ReadsRegistry(h)
    \/ LoadCache(h) \/ Examine(h) \/ SaveCache(h)

HealthNext ==
    \/ BatchStep \/ KilledBatch \/ Deploy \/ \E r \in Records : Edit(r)
    \/ \E h \in Readers : ReportStep(h)

\* stale-records and the batch are run again and again.
HealthFairness == WF_healthVars(BatchStep) /\ WF_healthVars(ReportStep(Stale))

HealthSpec == HealthInit /\ [][HealthNext]_healthVars /\ HealthFairness

--------------------------------------------------------------------------------
(* Properties. *)

\* A report takes no digest for current that is not: the one it loaded was made of what
\* the text it then saw is materialised to by its version, whoever wrote the cache.
CurrentIsCurrent ==
    \A h \in Readers : \A r \in Records :
        reports[h].binding[r] = "current" =>
            reports[h].loaded[r].input = Materialise(r, reports[h].seen[r], reports[h].version)

\* What a batch writes while a report is made never looks as if the sidecars had not
\* been kept: the report loads the digests before it reads the manifest and the registry.
SidecarsAreAhead ==
    \A h \in Reporters : \A r \in Records :
        reports[h].at = "told" =>
            /\ Generation(reports[h], r) # "generation_ahead"
            /\ Config(reports[h], r) # "unregistered"

\* A report without findings has seen every digest whole, current and registered.
NoFindingsMeansClean ==
    \A h \in Reporters :
        reports[h].at = "told" /\ Findings(reports[h]) = {} =>
            \A r \in Records :
                LET d == reports[h].loaded[r]
                IN  /\ d # Torn /\ d.version = reports[h].manifest
                    /\ d.input = Materialise(r, reports[h].seen[r], reports[h].version)

\* What a report says is true, whatever is edited, written and deployed while it is made.
ReportsAreTrue == CurrentIsCurrent /\ SidecarsAreAhead /\ NoFindingsMeansClean

Fresh(r) == digests[r].input = Materialise(r, text[r], version)

\* The list and the batch that takes it converge: once the records and the code are left
\* alone, the digest of every record is of the text the record has, or was left torn by a
\* kill; unless the batch is killed time and again, or a record that is refused holds up
\* the others for as long as its own digest is not.
EventuallyFresh ==
    \/ []<><<KilledBatch>>_healthVars
    \/ <>[](\/ \E r \in Refused : ~Fresh(r)
             \/ \A q \in Records : Fresh(q) \/ digests[q] = Torn)
================================================================================
