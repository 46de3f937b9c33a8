--------------------------- MODULE FixtureExperiment ---------------------------
(***************************************************************************)
(* workspace/digester/fixture_experiment.py and its commands: experiments  *)
(* that extract from the cases of a fixture, by a model or from canned     *)
(* responses, and compare the score with an accepted baseline; and the     *)
(* acceptance of a report as the new baseline.  The fixture, the responses *)
(* and the digests of a run may be edited meanwhile.                       *)
(* A digest stands for the rate it earns in each dimension, 0 for none.    *)
(***************************************************************************)
EXTENDS Naturals, TLC

CONSTANTS
    Experiments,    \* the runs of the fixture-experiment command
    RunIds,         \* the names of run directories
    RunId,          \* RunId[e]: the second, the model and the fixture name it
    Dimensions,     \* DIMENSIONS
    MaxRate,        \* bound: the rates
    MaxFixtures,    \* bound: the versions of the fixture and of the responses
    MaxTampering    \* bound: the edits of digests

ASSUME ExperimentAssumption ==
    /\ RunId \in [Experiments -> RunIds] /\ {MaxRate, MaxFixtures, MaxTampering} \subseteq Nat

Scores == [Dimensions -> 0 .. MaxRate]

VARIABLES
    fixture, responses,     \* their versions
    baseline,               \* the quality baseline
    dirs,                   \* the run directories
    experiment,             \* the processes
    accept,                 \* the run of fixture-accept-baseline
    tampered                \* how often a digest was edited

experimentVars == <<fixture, responses, baseline, dirs, experiment, accept, tampered>>

NoDir == [taken |-> FALSE]
NewDir(e) == [taken |-> TRUE, by |-> e, run |-> "running", digests |-> [whole |-> FALSE],
              earned |-> <<>>, report |-> [whole |-> FALSE]]
Waiting == [at |-> "idle"]

\* The stub baseline is for version 0 of both, and nobody replaces it; the quality baseline
\* says what it is for.
StubScore == [d \in Dimensions |-> MaxRate]

ExperimentInit ==
    /\ fixture = 0 /\ responses = 0 /\ tampered = 0
    /\ \E s \in Scores : baseline = [fixture |-> 0, score |-> s, stub |-> FALSE]
    /\ dirs = [i \in RunIds |-> NoDir]
    /\ experiment = [e \in Experiments |-> Waiting] /\ accept = Waiting

Set(e, fields) == experiment' = [experiment EXCEPT ![e] = fields]
Inputs == <<fixture, responses, tampered>>

EditInputs ==
    /\ \/ fixture < MaxFixtures /\ fixture' = fixture + 1 /\ UNCHANGED responses
       \/ responses < MaxFixtures /\ responses' = responses + 1 /\ UNCHANGED fixture
    /\ UNCHANGED <<baseline, dirs, experiment, accept, tampered>>

\* The digests of a run are edited, by check for example, or its report is.
EditArtefact(i) ==
    /\ tampered < MaxTampering /\ tampered' = tampered + 1
    /\ \E s \in Scores :
           \/ /\ dirs[i].taken /\ dirs[i].digests.whole
              /\ dirs' = [dirs EXCEPT ![i].digests = [@ EXCEPT !.score = s]]
           \/ /\ dirs[i].taken /\ dirs[i].report.whole
              /\ dirs' = [dirs EXCEPT ![i].report = [@ EXCEPT !.score = s]]
    /\ UNCHANGED <<fixture, responses, baseline, experiment, accept>>

--------------------------------------------------------------------------------
(* run_experiment *)

BeginExperiment(e) ==
    /\ experiment[e].at = "idle"
    /\ \E stub \in BOOLEAN : Set(e, [at |-> "baseline", stub |-> stub, fixture |-> fixture])
    /\ UNCHANGED <<baseline, dirs, accept>> /\ UNCHANGED Inputs

\* load_baseline: of the kind asked for, and of this fixture and these responses.
LoadBaseline(e) ==
    /\ experiment[e].at = "baseline"
    /\ LET x == experiment[e]
           fits == x.fixture = (IF x.stub THEN 0 ELSE baseline.fixture) /\ (x.stub => responses = 0)
       IN  Set(e, IF ~fits THEN [at |-> "refused"]
                  ELSE [at |-> "mkdir", stub |-> x.stub, fixture |-> x.fixture,
                        for |-> IF x.stub THEN 0 ELSE baseline.fixture,
                        before |-> IF x.stub THEN StubScore ELSE baseline.score])
    /\ UNCHANGED <<baseline, dirs, accept>> /\ UNCHANGED Inputs

\* The directory is new, or the run is refused.
MakeRunDir(e) ==
    /\ experiment[e].at = "mkdir"
    /\ IF dirs[RunId[e]].taken THEN Set(e, [at |-> "refused"]) /\ UNCHANGED dirs
       ELSE /\ dirs' = [dirs EXCEPT ![RunId[e]] = NewDir(e)]
            /\ Set(e, [experiment[e] EXCEPT !.at = "extract"])
    /\ UNCHANGED <<baseline, accept>> /\ UNCHANGED Inputs

\* dispatch_gate and the extraction of every case, with what the digests are worth.
ExtractCases(e) ==
    /\ experiment[e].at = "extract"
    /\ \E s \in Scores :
           /\ dirs' = [dirs EXCEPT ![RunId[e]].digests = [whole |-> TRUE, score |-> s],
                                   ![RunId[e]].earned = s]
           /\ Set(e, [at |-> "report", stub |-> experiment[e].stub, for |-> experiment[e].for,
                      fixture |-> experiment[e].fixture, before |-> experiment[e].before, score |-> s])
    /\ UNCHANGED <<baseline, accept>> /\ UNCHANGED Inputs

\* compare_scores
Better(now, before) == {d \in Dimensions : now[d] > before[d]}
Worse(now, before) == {d \in Dimensions : now[d] < before[d]}

\* MUTANT: what is better makes up for what is worse.
OutcomeOnBalance(now, before) ==
    CASE Better(now, before) # {} -> "better"
      [] Better(now, before) = {} /\ Worse(now, before) # {} -> "worse"
      [] Better(now, before) = {} /\ Worse(now, before) = {} -> "unchanged"

Outcome(now, before) ==
    CASE Better(now, before) # {} /\ Worse(now, before) # {} -> "mixed"
      [] Better(now, before) # {} /\ Worse(now, before) = {} -> "better"
      [] Better(now, before) = {} /\ Worse(now, before) # {} -> "worse"
      [] Better(now, before) = {} /\ Worse(now, before) = {} -> "unchanged"

WriteReport(e) ==
    /\ experiment[e].at = "report"
    /\ LET x == experiment[e]
       IN  dirs' = [dirs EXCEPT ![RunId[e]].report =
                        [whole |-> TRUE, stub |-> x.stub, fixture |-> x.fixture, for |-> x.for,
                         before |-> x.before, score |-> x.score, digests |-> x.score]]
    /\ Set(e, [experiment[e] EXCEPT !.at = "run"])
    /\ UNCHANGED <<baseline, accept>> /\ UNCHANGED Inputs

\* The last of its files; the command exits 1 if a dimension is worse.
WriteRun(e) ==
    /\ experiment[e].at = "run"
    /\ dirs' = [dirs EXCEPT ![RunId[e]].run = "complete"]
    /\ Set(e, [experiment[e] EXCEPT
                   !.at = IF Outcome(experiment[e].score, experiment[e].before) \in {"worse", "mixed"}
                          THEN "exit 1" ELSE "exit 0"])
    /\ UNCHANGED <<baseline, accept>> /\ UNCHANGED Inputs

\* The gate refuses, the model fails, or a file cannot be written: run.json says so, and a
\* report that is there already stays.
FailExperiment(e) ==
    /\ experiment[e].at \in {"extract", "report", "run"}
    /\ dirs' = [dirs EXCEPT ![RunId[e]].run = "failed"]
    /\ Set(e, [at |-> "failed"]) /\ UNCHANGED <<baseline, accept>> /\ UNCHANGED Inputs

KillExperiment(e) ==
    /\ experiment[e].at \in {"baseline", "mkdir", "extract", "report", "run"}
    /\ Set(e, [at |-> "killed"]) /\ UNCHANGED <<baseline, dirs, accept>> /\ UNCHANGED Inputs

--------------------------------------------------------------------------------
(* accept_quality_baseline *)

\* A complete report, of a run that was not canned; any other is refused.
ReadReport(i) ==
    /\ accept.at = "idle" /\ dirs[i].taken /\ dirs[i].report.whole /\ ~dirs[i].report.stub
    /\ accept' = [at |-> "fixture", dir |-> i, report |-> dirs[i].report]
    /\ UNCHANGED <<baseline, dirs, experiment>> /\ UNCHANGED Inputs

ReadFixture ==
    /\ accept.at = "fixture"
    /\ accept' = IF accept.report.fixture = fixture THEN [accept EXCEPT !.at = "digests"] ELSE Waiting
    /\ UNCHANGED <<baseline, dirs, experiment>> /\ UNCHANGED Inputs

\* MUTANT: the score is taken from the report.
RescoreNothing ==
    /\ accept.at = "digests" /\ accept' = [accept EXCEPT !.at = "publish"]
    /\ UNCHANGED <<baseline, dirs, experiment>> /\ UNCHANGED Inputs

\* The digests have the hashes of the report, and are worth its score.
Rescore ==
    /\ accept.at = "digests"
    /\ LET now == dirs[accept.dir].digests.score
       IN  accept' = IF now = accept.report.digests /\ now = accept.report.score
                     THEN [accept EXCEPT !.at = "publish"] ELSE Waiting
    /\ UNCHANGED <<baseline, dirs, experiment>> /\ UNCHANGED Inputs

\* The temporary file and its rename.
Publish ==
    /\ accept.at = "publish" /\ accept' = Waiting
    /\ baseline' = [fixture |-> accept.report.fixture, score |-> accept.report.score,
                    stub |-> accept.report.stub]
    /\ UNCHANGED <<dirs, experiment>> /\ UNCHANGED Inputs

Run(e) ==
    \/ BeginExperiment(e) \/ LoadBaseline(e) \/ MakeRunDir(e) \/ ExtractCases(e)
    \/ WriteReport(e) \/ WriteRun(e) \/ FailExperiment(e) \/ KillExperiment(e)

ExperimentNext ==
    \/ \E e \in Experiments : Run(e)
    \/ \E i \in RunIds : EditArtefact(i) \/ ReadReport(i)
    \/ EditInputs \/ ReadFixture \/ Rescore \/ Publish

ExperimentSpec == ExperimentInit /\ [][ExperimentNext]_experimentVars

--------------------------------------------------------------------------------
(* Properties. *)

\* An experiment that exits 0 has regressed in no dimension, against a baseline of its own
\* kind and of the very fixture it took its cases from; from the first case on its
\* directory is its own, and when it exits it leaves a whole report there.
ExperimentsAreComparable ==
    \A e \in Experiments :
        /\ experiment[e].at = "exit 0" =>
               \A d \in Dimensions : experiment[e].score[d] >= experiment[e].before[d]
        /\ experiment[e].at \in {"extract", "report", "run", "exit 0", "exit 1"} =>
               /\ experiment[e].for = experiment[e].fixture
               /\ dirs[RunId[e]].taken /\ dirs[RunId[e]].by = e
        /\ experiment[e].at \in {"exit 0", "exit 1"} =>
               dirs[RunId[e]].run = "complete" /\ dirs[RunId[e]].report.whole

\* A quality baseline comes of a model's run, never of canned responses, and has the score
\* that run's own digests had earned, of the fixture it names, whichever one of its
\* artefacts was edited before it was accepted.
BaselineIsEarned ==
    [][baseline' # baseline =>
           /\ ~baseline'.stub /\ baseline'.score = dirs[accept.dir].earned
           /\ dirs[accept.dir].report.fixture = baseline'.fixture]_experimentVars
================================================================================
