-------------------------------- MODULE MC_Parts -------------------------------
(***************************************************************************)
(* The parts of the program that share no variable and are small, one      *)
(* beside the other: a behaviour is one of a single part, the others stay  *)
(* as they are.                                                            *)
(***************************************************************************)
EXTENDS Chunks, RecordParser, Accounts, WholeRecord, RecordIndex, RefreshText, Classifier,
        GenerationManifest, ReviewGate, FixtureExperiment, RegenCommit

CONSTANT Parts      \* the parts to check

VARIABLE part

partVars == <<part, chunkVars, parserVars, alignVars, accountVars, recordVars, indexVars,
              refreshTextVars, classifierVars, manVars, reviewVars, experimentVars,
              regenVars>>

\* A part that is not looked at.
ChunkRests == body = <<>> /\ chunks = <<>> /\ pos = 0 /\ stop = 0
ParserRests ==
    record = <<>> /\ line = 0 /\ contentParts = {} /\ pages = {} /\ parsed = NotParsed
AlignRests == source = <<>> /\ quote = <<>> /\ located = NotLocated
AccountsRest == /\ tellings = <<>> /\ anchors = {} /\ chapters = {} /\ bound = Unbound
                /\ claim = [at |-> 0, way |-> "location"]
RecordRests == /\ phase = "cast" /\ round = 0 /\ cast = NoCast /\ cited = <<>>
               /\ answer = <<>> /\ fresh = 0
               /\ emitted = [names |-> {}, sources |-> {}, claims |-> {}, complete |-> FALSE]
IndexRests == directory = <<>> /\ place = 0 /\ byHash = [h \in Hashes |-> NoRecord]
RefreshTextRests == block = <<>> /\ changes = {} /\ result = NotApplied /\ entries = 0
ClassifierRests ==
    /\ pairs = <<>> /\ done = 0 /\ scores = <<>> /\ size = BatchSize /\ device = "cuda"
    /\ free = 0 /\ calls = MaxProbs
ManRests ==
    /\ name = NoFile /\ tmp = [i \in Pids |-> NoFile] /\ content = [f \in Inodes |-> "empty"]
    /\ fd = [p \in Procs |-> NoFile] /\ pc = [p \in Procs |-> "checking"]
ReviewRests ==
    LET b == CHOOSE b \in RecordBodies : TRUE
    IN  /\ tree = [body |-> b, review |-> NoReview] /\ history = <<tree>> /\ written = 0
        /\ gate = [at |-> "record", body |-> b, review |-> NoReview, commit |-> 0]
ExperimentRests ==
    /\ fixture = 0 /\ responses = 0 /\ tampered = 0 /\ dirs = [i \in RunIds |-> NoDir]
    /\ baseline = [fixture |-> 0, score |-> StubScore, stub |-> FALSE]
    /\ experiment = [e \in Experiments |-> Waiting] /\ accept = Waiting

PartsInit ==
    /\ part \in Parts
    /\ IF part = "chunks" THEN ChunkInit ELSE ChunkRests
    /\ IF part = "parser" THEN ParserInit ELSE ParserRests
    /\ IF part = "alignment" THEN AlignInit ELSE AlignRests
    /\ IF part = "accounts" THEN AccountsInit ELSE AccountsRest
    /\ IF part = "record" THEN RecordInit ELSE RecordRests
    /\ IF part = "index" THEN IndexInit ELSE IndexRests
    /\ IF part = "refresh" THEN RefreshTextInit ELSE RefreshTextRests
    /\ IF part = "classifier" THEN ClassifierInit ELSE ClassifierRests
    /\ IF part = "manifest" THEN ManInit ELSE ManRests
    /\ IF part = "review" THEN ReviewInit ELSE ReviewRests
    /\ IF part = "experiment" THEN ExperimentInit ELSE ExperimentRests
    /\ RegenInit      \* begins in one state only

PartsNext ==
    /\ UNCHANGED part
    /\ IF part = "chunks" THEN ChunkNext ELSE UNCHANGED chunkVars
    /\ IF part = "parser" THEN ParserNext ELSE UNCHANGED parserVars
    /\ IF part = "alignment" THEN Normalise ELSE UNCHANGED alignVars
    /\ IF part = "accounts" THEN Bind ELSE UNCHANGED accountVars
    /\ IF part = "record" THEN RecordNext ELSE UNCHANGED recordVars
    /\ IF part = "index" THEN IndexFile ELSE UNCHANGED indexVars
    /\ IF part = "refresh" THEN Apply ELSE UNCHANGED refreshTextVars
    /\ IF part = "classifier" THEN ClassifierNext ELSE UNCHANGED classifierVars
    /\ IF part = "manifest" THEN ManNext ELSE UNCHANGED manVars
    /\ IF part = "review" THEN ReviewNext ELSE UNCHANGED reviewVars
    /\ IF part = "experiment" THEN ExperimentNext ELSE UNCHANGED experimentVars
    /\ IF part = "regen" THEN RegenNext ELSE UNCHANGED regenVars

\* Of these parts the classifier has to come to an end.
PartsFairness == WF_classifierVars(part = "classifier" /\ Attempt)

PartsSpec == PartsInit /\ [][PartsNext]_partVars /\ PartsFairness

--------------------------------------------------------------------------------
(* The values of the constants. *)

CONSTANTS p1, p2, p3

OneRun == [e \in Experiments |-> CHOOSE i \in RunIds : TRUE]
OwnPids == [p \in Procs |-> p]
SomeChapters == {{}, {2}}
================================================================================
